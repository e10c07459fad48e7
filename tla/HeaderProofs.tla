---------------------------- MODULE HeaderProofs -----------------------------
(* Proofs about Header, for any separator line, limit, buffer and file.     *)
EXTENDS Header, FiniteSetTheorems, TLAPS

\* What HeaderLine and SeparatorLine compare, byte by byte.
LEMMA SeparatorBytes ==
  ASSUME file \in Seq(Bytes), NEW h \in Nat, NEW e \in Nat, h < e, e <= Len(file)
  PROVE  (SubSeq(file, h + 1, e) = Separator)
           <=> (/\ e = h + Len(Separator)
                /\ \A i \in 1 .. Len(Separator) : file[h + i] = Separator[i])
<1> DEFINE n == Len(Separator)  q == SubSeq(file, h + 1, e)
<1>0. n \in Nat \ {0} /\ Separator \in Seq(Bytes) BY HeaderAssumption
<1>1. q \in Seq(Bytes) /\ Len(q) = e - h OBVIOUS
<1>2. \A i \in 1 .. e - h : q[i] = file[h + i] OBVIOUS
<1>3. ASSUME q = Separator
      PROVE  e = h + n /\ \A i \in 1 .. n : file[h + i] = Separator[i]
  <2>1. e - h = n BY <1>1, <1>3
  <2> QED BY <1>0, <1>2, <1>3, <2>1
<1>4. ASSUME e = h + n, \A i \in 1 .. n : file[h + i] = Separator[i]
      PROVE  q = Separator
  <2>1. Len(q) = n BY <1>0, <1>1, <1>4
  <2>2. \A i \in 1 .. n : q[i] = Separator[i] BY <1>0, <1>2, <1>4
  <2> HIDE DEF q
  <2> QED BY <1>0, <1>1, <2>1, <2>2
<1> QED BY <1>3, <1>4

\* What is in the file stays where it is.
LEMMA AppendStays ==
  ASSUME NEW f \in Seq(Bytes), NEW b \in Bytes, NEW e \in 0 .. Len(f)
  PROVE  /\ SeparatorAt(Append(f, b), e) <=> SeparatorAt(f, e)
         /\ LinesIn(Append(f, b), e) = LinesIn(f, e)
<1> DEFINE g == Append(f, b)
<1>0. Len(Separator) \in Nat \ {0} BY HeaderAssumption
<1>1. \A i \in 1 .. Len(f) : g[i] = f[i] OBVIOUS
<1>2. ASSUME e >= Len(Separator)
      PROVE  SeparatorAt(g, e) <=> SeparatorAt(f, e)
  <2> DEFINE s == e - Len(Separator)
  <2>1. s \in Nat /\ Len(f) \in Nat /\ e <= Len(f) /\ s + Len(Separator) = e
    BY <1>0, <1>2
  <2>2. s > 0 => g[s] = f[s] BY <1>0, <1>1, <2>1
  <2>3. \A i \in 1 .. Len(Separator) : g[s + i] = f[s + i] BY <1>0, <1>1, <2>1
  <2>4. e > Len(Separator) <=> s > 0 BY <1>0, <2>1
  <2> HIDE DEF s, g
  <2> QED BY <1>2, <2>2, <2>3, <2>4 DEF SeparatorAt, s
<1>3. ASSUME ~(e >= Len(Separator))
      PROVE  SeparatorAt(g, e) <=> SeparatorAt(f, e)
  BY <1>3 DEF SeparatorAt
<1>4. {i \in 1 .. e : g[i] = NL} = {i \in 1 .. e : f[i] = NL} BY <1>1
<1> QED BY <1>2, <1>3, <1>4 DEF LinesIn

\* The line that ends first is the only one there could be a separator on.
LEMMA FirstLine ==
  ASSUME Inv, NEW e \in Nat, LineEndsAt(e), NEW d \in headerBytes + 1 .. e, SeparatorAt(file, d)
  PROVE  d = e /\ SubSeq(file, headerBytes + 1, e) = Separator
<1> DEFINE n == Len(Separator)  s == d - n
<1>0. /\ n \in Nat \ {0} /\ headerBytes \in Nat /\ off \in Nat /\ off <= Len(file)
      /\ file \in Seq(Bytes) /\ e \in headerBytes + 1 .. off /\ d \in Nat
      /\ headerBytes > 0 => file[headerBytes] = NL
  BY HeaderAssumption DEF Inv, LineEndsAt
<1>1. /\ s \in Nat /\ (s > 0 => file[s] = NL)
      /\ \A i \in 1 .. n : file[s + i] = Separator[i]
  BY <1>0 DEF SeparatorAt
<1>2. ASSUME NEW i \in s + 1 .. d PROVE (file[i] = NL) <=> (i = d)
  <2>1. i - s \in 1 .. n /\ s + (i - s) = i BY <1>0, <1>1
  <2>2. file[i] = Separator[i - s] BY <1>1, <2>1
  <2> QED BY <1>0, <1>1, <2>1, <2>2, HeaderAssumption
<1>3. \A i \in headerBytes + 1 .. e - 1 : file[i] # NL BY DEF LineEndsAt
<1>4. d = e
  <2>1. file[d] = NL BY <1>0, <1>1, <1>2
  <2> QED BY <1>0, <1>3, <2>1
<1>5. s = headerBytes
  <2>1. ~(s > headerBytes)
    <3> SUFFICES ASSUME s > headerBytes PROVE FALSE OBVIOUS
    <3>1. s \in headerBytes + 1 .. e - 1 /\ file[s] = NL BY <1>0, <1>1, <1>4
    <3> QED BY <1>3, <3>1
  <2>2. ~(s < headerBytes)
    <3> SUFFICES ASSUME s < headerBytes PROVE FALSE OBVIOUS
    <3>1. headerBytes \in s + 1 .. d /\ headerBytes # d /\ file[headerBytes] = NL
      BY <1>0, <1>1
    <3> QED BY <1>2, <3>1
  <2>3. s \in Nat /\ headerBytes \in Nat BY <1>0, <1>1
  <2> HIDE DEF s
  <2> QED BY <2>1, <2>2, <2>3
<1> QED BY <1>0, <1>1, <1>4, <1>5, SeparatorBytes

\* One more line is one more newline.
LEMMA CountLine ==
  ASSUME Inv, NEW e \in Nat, LineEndsAt(e)
  PROVE  LinesIn(file, e) = LinesIn(file, headerBytes) + 1
<1> DEFINE S(n) == {i \in 1 .. n : file[i] = NL}
<1>0. headerBytes \in Nat /\ e \in headerBytes + 1 .. off /\ off \in Nat
  BY DEF Inv, LineEndsAt
<1>1. S(e) = S(headerBytes) \cup {e} BY <1>0 DEF LineEndsAt
<1>2. e \notin S(headerBytes) BY <1>0
<1>3. IsFiniteSet(S(headerBytes))
  <2>1. IsFiniteSet(1 .. headerBytes) BY <1>0, FS_Interval
  <2> QED BY <2>1, FS_Subset
<1> HIDE DEF S
<1>4. Cardinality(S(e)) = Cardinality(S(headerBytes)) + 1
  BY <1>1, <1>2, <1>3, FS_AddElement
<1> QED BY <1>4 DEF LinesIn, S

LEMMA NoLines == ASSUME NEW f PROVE LinesIn(f, 0) = 0
<1>1. {i \in 1 .. 0 : f[i] = NL} = {} OBVIOUS
<1> QED BY <1>1, FS_EmptySet DEF LinesIn

-----------------------------------------------------------------------------

LEMMA Starts == Init => Inv
<1> SUFFICES ASSUME Init PROVE Inv OBVIOUS
<1>1. file \in Seq(Bytes) /\ Len(file) \in Nat
  BY HeaderAssumption DEF Init
<1> QED BY <1>1, NoLines, HeaderAssumption DEF Init, Inv, RulesBegin, HeaderSeen

LEMMA ExtendKeeps == ASSUME Inv, Extend PROVE Inv'
<1>1. PICK b \in Bytes : file' = Append(file, b) BY DEF Extend
<1>2. file \in Seq(Bytes) /\ file' \in Seq(Bytes) /\ Len(file') = Len(file) + 1 /\ Len(file) \in Nat
  BY <1>1 DEF Inv
<1>3. /\ \A e \in 0 .. Len(file) : SeparatorAt(file', e) <=> SeparatorAt(file, e)
      /\ \A e \in 0 .. Len(file) : LinesIn(file', e) = LinesIn(file, e)
  BY <1>1, <1>2, AppendStays
<1>4. UNCHANGED <<opened, pc, off, headerBytes, headerLines, result, start>>
  BY DEF Extend
<1>5. RulesBegin'
  <2>1. CASE result = "found"
    <3>1. /\ start \in 1 .. Len(file)
          /\ SeparatorAt(file, start)
          /\ \A e \in 1 .. start - 1 : ~SeparatorAt(file, e)
          /\ headerLines = LinesIn(file, start)
      BY <2>1 DEF Inv, RulesBegin
    <3>2. start \in 0 .. Len(file) /\ start \in 1 .. Len(file')
          /\ \A e \in 1 .. start - 1 : e \in 0 .. Len(file)
      BY <1>2, <3>1
    <3> QED BY <1>3, <1>4, <2>1, <3>1, <3>2 DEF RulesBegin
  <2>2. CASE result = "none"
    <3>1. start = 0 /\ headerLines = LinesIn(file, start)
      BY <2>2 DEF Inv, RulesBegin
    <3> QED BY <1>2, <1>3, <1>4, <2>2, <3>1 DEF RulesBegin
  <2>3. CASE result \notin {"found", "none"} BY <1>4, <2>3 DEF RulesBegin
  <2> QED BY <2>1, <2>2, <2>3
<1>6. HeaderSeen'
  <2>1. \A e \in 1 .. opened : e \in 0 .. Len(file) BY <1>2 DEF Inv
  <2>2. HeaderSeen BY DEF Inv
  <2> QED BY <1>3, <1>4, <2>1, <2>2 DEF HeaderSeen
<1>7. headerBytes \in 0 .. Len(file) /\ (pc = "yaml" => headerBytes + Len(Separator) \in 0 .. Len(file))
  BY <1>2, HeaderAssumption DEF Inv
<1>8. \A e \in 1 .. headerBytes : e \in 0 .. Len(file) BY <1>2, <1>7
<1>9. /\ opened' \in 0 .. Len(file') /\ off' \in 0 .. Len(file')
      /\ LinesIn(file', headerBytes) = LinesIn(file, headerBytes)
      /\ pc = "yaml" => SeparatorAt(file', headerBytes + Len(Separator))
  BY <1>2, <1>3, <1>4, <1>7 DEF Inv
<1>10. headerBytes > 0 => file'[headerBytes] = file[headerBytes] BY <1>1, <1>2, <1>7
<1>11. pc # "done" => \A e \in 1 .. headerBytes : ~SeparatorAt(file', e)
  BY <1>3, <1>8 DEF Inv
<1> QED BY <1>2, <1>4, <1>5, <1>6, <1>9, <1>10, <1>11 DEF Inv

LEMMA DecodeKeeps ==
  ASSUME Inv, Fill \/ HeaderLine \/ SeparatorLine PROVE Inv'
<1> USE DEF Decoding
<1>0. /\ file \in Seq(Bytes) /\ Len(file) \in Nat /\ headerBytes \in Nat /\ off \in Nat
      /\ pc = "decode" /\ result = "unknown" /\ headerLines \in Nat
  BY DEF Inv, Fill, HeaderLine, SeparatorLine
<1>1. CASE Fill
  <2>1. UNCHANGED <<file, opened, pc, headerBytes, headerLines, result, start>> BY <1>1 DEF Fill
  <2>2. off' \in 0 .. Len(file) /\ off' <= MaxHeaderSize /\ off <= off'
    <3>1. off <= Len(file) /\ off <= MaxHeaderSize /\ MaxHeaderSize \in Nat
      BY HeaderAssumption DEF Inv
    <3>2. Limit \in Nat /\ Len(file) - off \in Nat BY <1>0, <3>1 DEF Limit
    <3>3. Smaller(Limit, Len(file) - off) \in Nat
          /\ Smaller(Limit, Len(file) - off) <= Limit
          /\ Smaller(Limit, Len(file) - off) <= Len(file) - off
      BY <3>2 DEF Smaller
    <3>4. headerBytes <= off /\ BufSize \in Nat \ {0} BY HeaderAssumption DEF Inv
    <3>5. BufSize - ((off - headerBytes) % BufSize) \in Nat BY <1>0, <3>4
    <3>6. ReadSize \in Nat /\ ReadSize <= Limit /\ ReadSize <= Len(file) - off
      BY <3>2, <3>3, <3>5 DEF ReadSize, Smaller
    <3>7. off' = off + ReadSize BY <1>1 DEF Fill
    <3> QED BY <1>0, <3>1, <3>6, <3>7 DEF Limit
  <2> QED BY <1>0, <2>1, <2>2 DEF Inv, RulesBegin, HeaderSeen
<1>2. CASE HeaderLine
  <2>1. PICK e \in headerBytes + 1 .. off :
          LineEndsAt(e) /\ SubSeq(file, headerBytes + 1, e) # Separator /\ headerBytes' = e
    BY <1>2 DEF HeaderLine
  <2>2. e \in Nat /\ file[e] = NL BY <1>0, <2>1 DEF LineEndsAt
  <2>3. UNCHANGED <<file, opened, pc, off, result, start>> /\ headerLines' = headerLines + 1
    BY <1>2 DEF HeaderLine
  <2>4. \A d \in 1 .. e : ~SeparatorAt(file, d)
    <3>1. \A d \in headerBytes + 1 .. e : ~SeparatorAt(file, d)
      BY <2>1, <2>2, FirstLine
    <3> QED BY <1>0, <2>2, <3>1 DEF Inv
  <2>5. headerLines' = LinesIn(file, e)
    BY <1>0, <2>1, <2>2, <2>3, CountLine DEF Inv
  <2>6. file' = file
    BY <2>3
  <2> QED BY <1>0, <2>1, <2>2, <2>3, <2>4, <2>5, <2>6 DEF Inv, RulesBegin, HeaderSeen
<1>3. CASE SeparatorLine
  <2>1. PICK e \in headerBytes + 1 .. off :
          LineEndsAt(e) /\ SubSeq(file, headerBytes + 1, e) = Separator
    BY <1>3 DEF SeparatorLine
  <2>2. e \in Nat /\ e <= Len(file) BY <1>0, <2>1 DEF Inv
  <2>3. UNCHANGED <<file, opened, off, headerBytes, result, start>>
        /\ headerLines' = headerLines + 1 /\ pc' = "yaml"
    BY <1>3 DEF SeparatorLine
  <2>4. /\ e = headerBytes + Len(Separator)
        /\ \A i \in 1 .. Len(Separator) : file[headerBytes + i] = Separator[i]
    <3>1. headerBytes < e BY <1>0, <2>1
    <3> QED BY <1>0, <2>1, <2>2, <3>1, SeparatorBytes
  <2>5. SeparatorAt(file, e)
    <3>1. e - Len(Separator) = headerBytes /\ Len(Separator) \in Nat
      BY <1>0, <2>4, HeaderAssumption
    <3>2. headerBytes > 0 => file[headerBytes] = NL BY DEF Inv
    <3>3. e >= Len(Separator) /\ (e > Len(Separator) => headerBytes > 0)
      BY <1>0, <2>2, <3>1
    <3> QED BY <2>4, <3>1, <3>2, <3>3 DEF SeparatorAt
  <2>6. file' = file
    BY <2>3
  <2> QED BY <1>0, <2>1, <2>2, <2>3, <2>4, <2>5, <2>6 DEF Inv, RulesBegin, HeaderSeen
<1> QED BY <1>1, <1>2, <1>3

LEMMA EndKeeps == ASSUME Inv, NoHeader \/ Fails \/ Found PROVE Inv'
<1>0. /\ file \in Seq(Bytes) /\ Len(file) \in Nat /\ headerBytes \in Nat /\ off \in Nat
      /\ Len(Separator) \in Nat \ {0} /\ pc # "done" /\ headerLines \in Nat
      /\ opened \in 0 .. Len(file) /\ MaxHeaderSize \in Nat
  BY HeaderAssumption DEF Inv, NoHeader, Fails, Found, Decoding
<1>1. file' = file /\ opened' = opened /\ off' = off /\ pc' = "done"
  BY DEF NoHeader, Fails, Found
<1>2. file' = file
  BY <1>1
<1>3. CASE NoHeader
  <2>1. ASSUME NEW e \in 1 .. opened, e <= MaxHeaderSize, SeparatorAt(file, e) PROVE FALSE
    <3>1. e > headerBytes BY <1>0, <1>3, <2>1 DEF Inv, NoHeader, Decoding
    <3>2. e <= off BY <1>0, <1>3, <2>1 DEF Inv, NoHeader, Limit
    <3>3. e - Len(Separator) + Len(Separator) = e BY <1>0
    <3>4. file[e] = NL
      <4>1. file[e - Len(Separator) + Len(Separator)] = Separator[Len(Separator)]
        BY <1>0, <2>1 DEF SeparatorAt
      <4> QED BY <1>0, <3>3, <4>1, HeaderAssumption
    <3> QED BY <1>0, <1>3, <3>1, <3>2, <3>4 DEF NoHeader, NoLine
  <2>2. headerBytes' = 0 /\ headerLines' = 0 /\ result' = "none" /\ start' = 0
    BY <1>3 DEF NoHeader
  <2> QED BY <1>0, <1>1, <1>2, <2>1, <2>2, NoLines DEF Inv, RulesBegin, HeaderSeen
<1>4. CASE Fails
  BY <1>0, <1>1, <1>2, <1>4 DEF Fails, Inv, RulesBegin, HeaderSeen
<1>5. CASE Found
  <2> DEFINE e == headerBytes + Len(Separator)
  <2>1. pc = "yaml" /\ e \in 1 .. off /\ off <= Len(file) /\ SeparatorAt(file, e) /\ e \in Nat
    BY <1>0, <1>5 DEF Found, Inv
  <2>2. start' = e /\ result' = "found" /\ headerBytes' = headerBytes
        /\ headerLines' = headerLines
    BY <1>5 DEF Found
  <2>3. /\ e - Len(Separator) = headerBytes
        /\ \A i \in 1 .. Len(Separator) : file[headerBytes + i] = Separator[i]
    <3>1. e - Len(Separator) = headerBytes BY <1>0
    <3> QED BY <2>1, <3>1 DEF SeparatorAt
  <2>4. \A i \in headerBytes + 1 .. e : (file[i] = NL) <=> (i = e)
    <3> SUFFICES ASSUME NEW i \in headerBytes + 1 .. e PROVE (file[i] = NL) <=> (i = e) OBVIOUS
    <3>1. i - headerBytes \in 1 .. Len(Separator) /\ headerBytes + (i - headerBytes) = i
      BY <1>0
    <3>2. file[i] = Separator[i - headerBytes] BY <2>3, <3>1
    <3> QED BY <1>0, <3>1, <3>2, HeaderAssumption
  <2>5. LineEndsAt(e) BY <1>0, <2>1, <2>4 DEF LineEndsAt
  <2>6. LinesIn(file, e) = headerLines
    BY <1>0, <2>1, <2>5, CountLine DEF Inv
  <2>7. ASSUME NEW d \in 1 .. e - 1 PROVE ~SeparatorAt(file, d)
    <3>1. CASE d <= headerBytes BY <1>0, <2>1, <3>1 DEF Inv
    <3>2. CASE d > headerBytes
      <4>1. d \in headerBytes + 1 .. e /\ d # e BY <1>0, <2>1, <3>2
      <4> QED BY <2>1, <2>5, <4>1, FirstLine
    <3> QED BY <1>0, <2>1, <3>1, <3>2
  <2>8. RulesBegin'
    BY <1>0, <1>1, <1>2, <2>1, <2>2, <2>6, <2>7 DEF RulesBegin
  <2> HIDE DEF e
  <2> QED BY <1>0, <1>1, <1>2, <2>2, <2>8 DEF Inv, HeaderSeen
<1> QED BY <1>3, <1>4, <1>5

LEMMA StutterKeeps == Inv /\ UNCHANGED vars => Inv'
  BY DEF Inv, vars, RulesBegin, HeaderSeen

\* The inductive invariant.
THEOREM Invariance == Spec => []Inv
<1>1. Inv /\ [Next]_vars => Inv'
  BY ExtendKeeps, DecodeKeeps, EndKeeps, StutterKeeps DEF Next
<1> QED BY Starts, <1>1, PTL DEF Spec

\* Rules are read, and counted, from the byte after the first separator, also
\* when it, or a line before it, straddles a buffer.
THEOREM Beginning == Spec => []RulesBegin
<1>1. Inv => RulesBegin BY DEF Inv
<1> QED BY <1>1, Invariance, PTL

\* A header that was there at the start, within the limit, is not overlooked,
\* however many reads of whatever buffer it takes.
THEOREM Seeing == Spec => []HeaderSeen
<1>1. Inv => HeaderSeen BY DEF Inv
<1> QED BY <1>1, Invariance, PTL
=============================================================================
