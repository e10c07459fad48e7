------------------------- MODULE FollowEditsProofs --------------------------
(***************************************************************************)
(* What FollowEdits guarantees for every alphabet, limit, buffer and queue *)
(* size and any number of edits: each makes at most one torn line, and     *)
(* neither the wakeup nor the bound on lines depends on what is edited.    *)
(***************************************************************************)
EXTENDS FollowEdits, FollowLinesProofs, FiniteSetTheorems

-----------------------------------------------------------------------------
(* Parts of sequences, and lines.                                          *)

\* Parts of two sequences that agree byte by byte are the same.
LEMMA SamePart ==
  ASSUME NEW s \in Seq(Char), NEW t \in Seq(Char),
         NEW a \in 0 .. Len(s), NEW n \in 0 .. Len(s) - a,
         NEW c \in 0 .. Len(t), n <= Len(t) - c,
         \A i \in 1 .. n : s[a + i] = t[c + i]
  PROVE  SubSeq(s, a + 1, a + n) = SubSeq(t, c + 1, c + n)
  <1> DEFINE x == SubSeq(s, a + 1, a + n)
             y == SubSeq(t, c + 1, c + n)
  <1>0. Len(s) \in Nat /\ Len(t) \in Nat
    BY LenProperties
  <1>1. /\ x \in Seq(Char) /\ Len(x) = n
        /\ \A i \in 1 .. n : x[i] = s[a + i]
    <2>1. /\ a + 1 \in 1 .. Len(s) + 1
          /\ a + n \in (a + 1) - 1 .. Len(s)
          /\ (a + n) - (a + 1) + 1 = n
          /\ \A i \in 1 .. n : (a + 1) + i - 1 = a + i
      BY <1>0
    <2> QED
      BY <2>1, PartFacts
  <1>2. /\ y \in Seq(Char) /\ Len(y) = n
        /\ \A i \in 1 .. n : y[i] = t[c + i]
    <2>1. /\ c + 1 \in 1 .. Len(t) + 1
          /\ c + n \in (c + 1) - 1 .. Len(t)
          /\ (c + n) - (c + 1) + 1 = n
          /\ \A i \in 1 .. n : (c + 1) + i - 1 = c + i
      BY <1>0
    <2> QED
      BY <2>1, PartFacts
  <1> HIDE DEF x, y
  <1>3. x = y
    BY <1>1, <1>2, SeqEqual
  <1> QED
    BY <1>3 DEF x, y

\* A set of places in a sequence has a last one.
LEMMA LastPlace ==
  ASSUME NEW n \in Nat, NEW S \in SUBSET (1 .. n), S # {}
  PROVE  \E m \in S : \A i \in S : i <= m
  <1> DEFINE R == {ss \in Nat \X Nat : ss[1] < ss[2]}
             T == {n - i : i \in S}
  <1>0. \A i \in S : i \in Nat /\ n - i \in Nat
    OBVIOUS
  <1>1. IsWellFoundedOn(R, Nat)
    BY NatLessThanWellFounded DEF OpToRel
  <1>2. T \subseteq Nat /\ T # {}
    BY <1>0
  <1>3. \E x \in T : \A y \in T : ~ (<<y, x>> \in R)
    <2> HIDE DEF T, R
    <2> QED
      BY <1>1, <1>2, WFMin
  <1>4. PICK x \in T : \A y \in T : ~(y < x)
    BY <1>2, <1>3
  <1>5. PICK m \in S : x = n - m
    BY <1>4
  <1>6. ASSUME NEW i \in S PROVE i <= m
    <2>1. n - i \in T /\ ~(n - i < n - m)
      BY <1>4, <1>5
    <2> QED
      BY <1>0, <1>5, <2>1
  <1> QED
    BY <1>6

\* What stands between two line ends of a content is a line of it.
LEMMA LineOf ==
  ASSUME NEW c \in Seq(Char), NEW e \in 1 .. Len(c), NEW b \in 0 .. e - 1,
         LineAt(c, b, e)
  PROVE  SubSeq(c, b + 1, e - 1) \in LinesOf(c)
  BY DEF LinesOf

\* A line of a content, found in other bytes.
LEMMA LineFound ==
  ASSUME NEW c \in Seq(Char), NEW h \in Seq(Char), NEW d \in Int,
         NEW e \in 1 .. Len(h), NEW b \in 0 .. e - 1, LineAt(h, b, e),
         d + b \in 0 .. Len(c), d + e <= Len(c),
         d + b = 0 \/ c[d + b] = NL,
         \A i \in b + 1 .. e : h[i] = c[d + i]
  PROVE  SubSeq(h, b + 1, e - 1) \in LinesOf(c)
  <1> DEFINE n == e - 1 - b
  <1>0. Len(h) \in Nat /\ Len(c) \in Nat
    BY LenProperties
  <1>1. /\ b \in 0 .. Len(h) /\ n \in 0 .. Len(h) - b /\ n <= Len(c) - (d + b)
        /\ b + n = e - 1 /\ (d + b) + n = (d + e) - 1
        /\ d + e \in 1 .. Len(c) /\ d + b \in 0 .. (d + e) - 1
    BY <1>0
  <1>2. \A i \in 1 .. n : h[b + i] = c[(d + b) + i]
    <2> SUFFICES ASSUME NEW i \in 1 .. n PROVE h[b + i] = c[(d + b) + i]
      OBVIOUS
    <2>1. b + i \in b + 1 .. e /\ d + (b + i) = (d + b) + i
      BY <1>0
    <2> QED
      BY <2>1
  <1>3. LineAt(c, d + b, d + e)
    <2>1. c[d + e] = NL
      BY DEF LineAt
    <2>2. ASSUME NEW i \in (d + b) + 1 .. (d + e) - 1 PROVE c[i] # NL
      <3>1. i - d \in b + 1 .. e - 1 /\ d + (i - d) = i
        BY <1>0
      <3>2. h[i - d] # NL /\ h[i - d] = c[d + (i - d)]
        BY <1>0, <3>1 DEF LineAt
      <3> QED
        BY <3>1, <3>2
    <2> QED
      BY <2>1, <2>2 DEF LineAt
  <1>4. SubSeq(h, b + 1, b + n) = SubSeq(c, (d + b) + 1, (d + b) + n)
    <2> HIDE DEF n
    <2> QED
      BY <1>1, <1>2, SamePart
  <1>5. SubSeq(c, (d + b) + 1, (d + e) - 1) \in LinesOf(c)
    BY <1>1, <1>3, LineOf
  <1> QED
    BY <1>1, <1>4, <1>5

-----------------------------------------------------------------------------
(* What the owner has saved.                                               *)

EditTypes == TypeOK /\ replaced \in Seq(Seq(Char))

\* A content that grows keeps its lines.
LEMMA LinesKept ==
  ASSUME NEW c \in Seq(Char), NEW d \in Seq(Char), Len(c) <= Len(d),
         \A i \in 1 .. Len(c) : c[i] = d[i]
  PROVE  LinesOf(c) \subseteq LinesOf(d)
  <1> SUFFICES ASSUME NEW x \in LinesOf(c) PROVE x \in LinesOf(d)
    OBVIOUS
  <1>0. Len(c) \in Nat /\ Len(d) \in Nat
    BY LenProperties
  <1>e. PICK e \in 1 .. Len(c) : \E b \in 0 .. e - 1 :
           LineAt(c, b, e) /\ x = SubSeq(c, b + 1, e - 1)
    BY DEF LinesOf
  <1>1. PICK b \in 0 .. e - 1 : LineAt(c, b, e) /\ x = SubSeq(c, b + 1, e - 1)
    BY <1>e
  <1> DEFINE n == e - 1 - b
  <1>2. /\ b \in 0 .. Len(c) /\ n \in 0 .. Len(c) - b /\ b + n = e - 1
        /\ b \in 0 .. Len(d) /\ n <= Len(d) - b
        /\ e \in 1 .. Len(d) /\ (b = 0 \/ b \in 1 .. Len(c))
        /\ \A i \in b + 1 .. e - 1 : i \in 1 .. Len(c)
        /\ \A i \in 1 .. n : b + i \in 1 .. Len(c)
    BY <1>0
  <1>3. LineAt(d, b, e)
    BY <1>1, <1>2 DEF LineAt
  <1>4. SubSeq(c, b + 1, b + n) = SubSeq(d, b + 1, b + n)
    <2> HIDE DEF n
    <2> QED
      BY <1>2, SamePart
  <1> QED
    BY <1>1, <1>2, <1>3, <1>4, LineOf

\* What has been saved stays saved.
LEMMA SavedKept ==
  ASSUME replaced \in Seq(Seq(Char)), target \in Seq(Char), target' \in Seq(Char),
         \/ /\ UNCHANGED replaced
            /\ Len(target) <= Len(target')
            /\ \A i \in 1 .. Len(target) : target[i] = target'[i]
         \/ replaced' = Append(replaced, target)
  PROVE  SavedLines \subseteq SavedLines'
  <1>0. Len(replaced) \in Nat
    BY LenProperties
  <1>1. CASE /\ UNCHANGED replaced
             /\ Len(target) <= Len(target')
             /\ \A i \in 1 .. Len(target) : target[i] = target'[i]
    <2>1. LinesOf(target) \subseteq LinesOf(target')
      BY <1>1, LinesKept
    <2> QED
      BY <1>1, <2>1 DEF SavedLines
  <1>2. CASE replaced' = Append(replaced, target)
    <2>1. /\ Len(replaced') = Len(replaced) + 1
          /\ \A i \in 1 .. Len(replaced) : replaced'[i] = replaced[i]
          /\ replaced'[Len(replaced) + 1] = target
      BY <1>2, AppendProperties
    <2>2. /\ \A i \in 1 .. Len(replaced) : i \in 1 .. Len(replaced')
          /\ Len(replaced) + 1 \in 1 .. Len(replaced')
      BY <1>0, <2>1
    <2> QED
      BY <2>1, <2>2 DEF SavedLines
  <1> QED
    BY <1>1, <1>2

-----------------------------------------------------------------------------
(* The bytes that are held.                                                *)

\* They are bytes, those of `line` first.
LEMMA JoinFacts ==
  ASSUME NEW l \in Seq(Bytes), NEW b \in Seq(Char)
  PROVE  /\ l \o b \in Seq(Char)
         /\ Len(l \o b) = Len(l) + Len(b)
         /\ \A i \in 1 .. Len(l) : (l \o b)[i] = l[i] /\ l[i] # NL
         /\ \A i \in 1 .. Len(b) : (l \o b)[Len(l) + i] = b[i]
  <1>1. l \in Seq(Char)
    BY SeqMonotonic DEF Char
  <1>2. Len(l) \in Nat /\ Len(b) \in Nat
    BY LenProperties
  <1>3. \A i \in 1 .. Len(l) : l[i] # NL
    BY ElementOfSeq, NLAssumption
  <1> QED
    BY <1>1, <1>2, <1>3, ConcatProperties

LEMMA HeldFacts ==
  ASSUME TypeOK
  PROVE  /\ HeldBytes \in Seq(Char)
         /\ Len(HeldBytes) = Len(line) + Len(buf)
         /\ Len(HeldBytes) \in Nat
         /\ \A i \in 1 .. Len(line) : HeldBytes[i] = line[i] /\ line[i] # NL
         /\ \A i \in 1 .. Len(buf) : HeldBytes[Len(line) + i] = buf[i]
  BY JoinFacts, Lengths DEF HeldBytes, TypeOK

\* The same in the next state.
LEMMA HeldNext ==
  ASSUME TypeOK'
  PROVE  /\ HeldBytes' \in Seq(Char)
         /\ Len(HeldBytes') = Len(line') + Len(buf')
         /\ Len(HeldBytes') \in Nat
         /\ \A i \in 1 .. Len(line') : HeldBytes'[i] = line'[i]
         /\ \A i \in 1 .. Len(buf') : HeldBytes'[Len(line') + i] = buf'[i]
  <1>1. line' \in Seq(Bytes) /\ buf' \in Seq(Char)
    BY DEF TypeOK
  <1>2. Len(line') \in Nat /\ Len(buf') \in Nat
    BY <1>1, LenProperties
  <1> QED
    BY <1>1, <1>2, JoinFacts DEF HeldBytes

\* Fill adds bytes of the content behind bytes without a newline.
LEMMA FillHeld ==
  ASSUME TypeOK, TypeOK', Fill,
         Len(file) <= Len(target), \A i \in 1 .. Len(file) : file[i] = target[i]
  PROVE  /\ \A i \in 1 .. Len(HeldBytes) :
              HeldBytes'[i] = HeldBytes[i] /\ HeldBytes[i] # NL
         /\ \E n \in Nat :
              /\ Len(HeldBytes') = Len(HeldBytes) + n
              /\ off' = off + n /\ off + n <= Len(target)
              /\ \A i \in Len(HeldBytes) + 1 .. Len(HeldBytes) + n :
                   HeldBytes'[i] = target[off - Len(HeldBytes) + i]
  <1> DEFINE n == ReadSize
             l == Len(line)
             b == Len(buf)
  <1>0. /\ l \in Nat /\ b \in Nat /\ off \in Nat /\ Len(file) \in Nat
        /\ Len(target) \in Nat
    BY Lengths
  <1>1. /\ n \in Nat
        /\ off + n <= Len(file)
        /\ Len(buf') = b + n
        /\ off' = off + n
        /\ \A i \in 1 .. b : buf'[i] = buf[i] /\ buf[i] # NL
        /\ \A i \in 1 .. n : buf'[b + i] = file[off + i]
        /\ UNCHANGED line
    BY FillFacts
  <1>2. /\ Len(HeldBytes) = l + b
        /\ \A i \in 1 .. l : HeldBytes[i] = line[i] /\ line[i] # NL
        /\ \A i \in 1 .. b : HeldBytes[l + i] = buf[i]
    BY HeldFacts
  <1>3. /\ Len(HeldBytes') = l + (b + n)
        /\ \A i \in 1 .. l : HeldBytes'[i] = line[i]
        /\ \A i \in 1 .. b + n : HeldBytes'[l + i] = buf'[i]
    <2>1. /\ Len(HeldBytes') = Len(line') + Len(buf')
          /\ \A i \in 1 .. Len(line') : HeldBytes'[i] = line'[i]
          /\ \A i \in 1 .. Len(buf') : HeldBytes'[Len(line') + i] = buf'[i]
      BY HeldNext
    <2> QED
      BY <1>1, <2>1
  <1> HIDE DEF n, l, b
  <1>4. ASSUME NEW i \in 1 .. Len(HeldBytes)
        PROVE  HeldBytes'[i] = HeldBytes[i] /\ HeldBytes[i] # NL
    <2>1. CASE i \in 1 .. l
      BY <1>2, <1>3, <2>1
    <2>2. CASE i \notin 1 .. l
      <3>1. i - l \in 1 .. b /\ i - l \in 1 .. b + n /\ l + (i - l) = i
        BY <1>0, <1>1, <1>2, <2>2
      <3>2. HeldBytes[l + (i - l)] = buf[i - l]
        BY <1>2, <3>1
      <3>3. HeldBytes'[l + (i - l)] = buf'[i - l]
        BY <1>3, <3>1
      <3>4. buf'[i - l] = buf[i - l] /\ buf[i - l] # NL
        BY <1>1, <3>1
      <3> QED
        BY <3>1, <3>2, <3>3, <3>4
    <2> QED
      BY <2>1, <2>2
  <1>5. ASSUME NEW i \in Len(HeldBytes) + 1 .. Len(HeldBytes) + n
        PROVE  HeldBytes'[i] = target[off - Len(HeldBytes) + i]
    <2> DEFINE j == i - (l + b)
    <2>1. /\ j \in 1 .. n /\ b + j \in 1 .. b + n /\ l + (b + j) = i
          /\ off + j \in 1 .. Len(file) /\ off - Len(HeldBytes) + i = off + j
      BY <1>0, <1>1, <1>2
    <2> HIDE DEF j
    <2>2. HeldBytes'[l + (b + j)] = buf'[b + j]
      BY <1>3, <2>1
    <2>3. buf'[b + j] = file[off + j]
      BY <1>1, <2>1
    <2>4. file[off + j] = target[off + j]
      BY <2>1
    <2> QED
      BY <2>1, <2>2, <2>3, <2>4
  <1>6. Len(HeldBytes') = Len(HeldBytes) + n /\ off + n <= Len(target)
    BY <1>0, <1>1, <1>2, <1>3
  <1> QED
    BY <1>1, <1>4, <1>5, <1>6

\* ReadLine takes the first line that is held, and its newline.
LEMMA ReadLineHeld ==
  ASSUME TypeOK, TypeOK', ReadLine
  PROVE  \E e \in 1 .. Len(HeldBytes) :
           /\ LineAt(HeldBytes, 0, e)
           /\ parsed' = Append(parsed, SubSeq(HeldBytes, 1, e - 1))
           /\ SubSeq(HeldBytes, 1, e - 1) \in Seq(Bytes)
           /\ Len(HeldBytes') = Len(HeldBytes) - e
           /\ \A i \in 1 .. Len(HeldBytes) - e : HeldBytes'[i] = HeldBytes[e + i]
  <1> DEFINE l == Len(line)
             b == Len(buf)
  <1>0. l \in Nat /\ b \in Nat
    BY Lengths
  <1>1. PICK k \in 1 .. Len(buf) :
           /\ NewlineAt(k)
           /\ parsed' = Append(parsed, line \o SubSeq(buf, 1, k - 1))
           /\ buf' = SubSeq(buf, k + 1, Len(buf))
    BY DEF ReadLine
  <1>2. /\ SubSeq(buf, 1, k - 1) \in Seq(Bytes)
        /\ Len(SubSeq(buf, 1, k - 1)) = k - 1
        /\ \A i \in 1 .. k - 1 : SubSeq(buf, 1, k - 1)[i] = buf[i]
        /\ Len(buf') = b - k
        /\ \A i \in 1 .. b - k : buf'[i] = buf[k + i]
    BY <1>1, TakenFacts DEF TypeOK
  <1>3. /\ HeldBytes \in Seq(Char)
        /\ Len(HeldBytes) = l + b
        /\ \A i \in 1 .. l : HeldBytes[i] = line[i] /\ line[i] # NL
        /\ \A i \in 1 .. b : HeldBytes[l + i] = buf[i]
    BY HeldFacts
  <1>4. /\ Len(HeldBytes') = b - k
        /\ \A i \in 1 .. b - k : HeldBytes'[i] = buf'[i]
    <2>1. /\ Len(HeldBytes') = Len(line') + Len(buf')
          /\ \A i \in 1 .. Len(buf') : HeldBytes'[Len(line') + i] = buf'[i]
      BY HeldNext
    <2>2. Len(line') = 0
      BY DEF ReadLine
    <2>3. \A i \in 1 .. b - k : 0 + i = i
      BY <1>0
    <2> QED
      BY <1>0, <1>2, <2>1, <2>2, <2>3
  <1> DEFINE e == l + k
             whole == line \o SubSeq(buf, 1, k - 1)
  <1>5. e \in 1 .. Len(HeldBytes) /\ Len(HeldBytes) - e = b - k
    BY <1>0, <1>3
  <1>6. /\ whole \in Seq(Bytes) /\ Len(whole) = l + (k - 1)
        /\ \A i \in 1 .. l : whole[i] = line[i]
        /\ \A i \in 1 .. k - 1 : whole[l + i] = buf[i]
    <2>1. line \in Seq(Bytes)
      BY DEF TypeOK
    <2> QED
      BY <1>0, <1>2, <2>1, ConcatProperties
  <1> HIDE DEF l, b, e, whole
  <1>7. ASSUME NEW i \in 1 .. e - 1 PROVE HeldBytes[i] # NL /\ HeldBytes[i] = whole[i]
    <2>1. CASE i \in 1 .. l
      BY <1>3, <1>6, <2>1
    <2>2. CASE i \notin 1 .. l
      <3>1. i - l \in 1 .. k - 1 /\ i - l \in 1 .. b /\ l + (i - l) = i
        BY <1>0, <2>2 DEF e, b
      <3>2. HeldBytes[l + (i - l)] = buf[i - l] /\ whole[l + (i - l)] = buf[i - l]
        BY <1>3, <1>6, <3>1
      <3>3. buf[i - l] # NL
        BY <1>1, <3>1 DEF NewlineAt
      <3> QED
        BY <3>1, <3>2, <3>3
    <2> QED
      BY <2>1, <2>2
  <1>8. HeldBytes[e] = NL
    BY <1>1, <1>3 DEF NewlineAt, e, b
  <1>9. LineAt(HeldBytes, 0, e)
    BY <1>7, <1>8 DEF LineAt
  <1>10. SubSeq(HeldBytes, 1, e - 1) = whole
    <2> DEFINE part == SubSeq(HeldBytes, 1, e - 1)
    <2>1. e - 1 \in 0 .. Len(HeldBytes) /\ e - 1 = l + (k - 1)
      BY <1>0, <1>5 DEF e
    <2>2. /\ part \in Seq(Char) /\ Len(part) = e - 1
          /\ \A i \in 1 .. e - 1 : part[i] = HeldBytes[i]
      BY <1>3, <2>1, PrefixFacts
    <2>3. whole \in Seq(Char)
      BY <1>6, SeqMonotonic DEF Char
    <2> HIDE DEF part
    <2>4. Len(whole) = Len(part) /\ \A i \in 1 .. Len(part) : part[i] = whole[i]
      BY <1>6, <1>7, <2>1, <2>2
    <2>5. part = whole
      BY <2>2, <2>3, <2>4, SeqEqual
    <2> QED
      BY <2>5 DEF part
  <1>11. ASSUME NEW i \in 1 .. Len(HeldBytes) - e
         PROVE  HeldBytes'[i] = HeldBytes[e + i]
    <2>1. /\ i \in 1 .. b - k /\ k + i \in 1 .. b /\ e + i = l + (k + i)
      BY <1>0, <1>1, <1>5 DEF e, b
    <2>2. HeldBytes[l + (k + i)] = buf[k + i]
      BY <1>3, <2>1
    <2> QED
      BY <1>2, <1>4, <2>1, <2>2
  <1>12. parsed' = Append(parsed, whole)
    BY <1>1 DEF whole
  <1> QED
    BY <1>4, <1>5, <1>6, <1>9, <1>10, <1>11, <1>12

\* Other steps leave the bytes alone, or move them to `line`.
LEMMA OtherHeld ==
  ASSUME TypeOK, Gather \/ UNCHANGED <<line, buf>>
  PROVE  UNCHANGED HeldBytes
  <1>1. CASE Gather
    <2>1. line \o buf \in Seq(Char)
      BY HeldFacts DEF HeldBytes
    <2>2. (line \o buf) \o << >> = line \o buf
      BY <2>1, ConcatEmptySeq
    <2> QED
      BY <1>1, <2>2 DEF Gather, HeldBytes
  <1>2. CASE UNCHANGED <<line, buf>>
    BY <1>2 DEF HeldBytes
  <1> QED
    BY <1>1, <1>2

-----------------------------------------------------------------------------
(* Torn lines, counted.                                                    *)

LEMMA TornFinite ==
  ASSUME TypeOK
  PROVE  IsFiniteSet(Torn) /\ Cardinality(Torn) \in Nat
  <1>1. Len(parsed) \in Nat
    BY LenProperties DEF TypeOK
  <1>2. IsFiniteSet(1 .. Len(parsed))
    BY <1>1, FS_Interval
  <1>3. Torn \in SUBSET (1 .. Len(parsed))
    BY DEF Torn
  <1>4. IsFiniteSet(Torn)
    BY <1>2, <1>3, FS_Subset
  <1> QED
    BY <1>4, FS_CardinalityType

\* A line that has not been torn never becomes so.
LEMMA TornKept ==
  ASSUME TypeOK, UNCHANGED parsed, SavedLines \subseteq SavedLines'
  PROVE  Cardinality(Torn') \in Nat /\ Cardinality(Torn') <= Cardinality(Torn)
  <1>1. Torn' \in SUBSET Torn
    BY DEF Torn
  <1>2. IsFiniteSet(Torn)
    BY TornFinite
  <1>3. IsFiniteSet(Torn') /\ Cardinality(Torn') <= Cardinality(Torn)
    BY <1>1, <1>2, FS_Subset
  <1> QED
    BY <1>3, FS_CardinalityType

\* One more line makes at most one more that is torn.
LEMMA TornMore ==
  ASSUME TypeOK, UNCHANGED SavedLines,
         NEW x \in Seq(Bytes), parsed' = Append(parsed, x)
  PROVE  /\ Cardinality(Torn') \in Nat
         /\ Cardinality(Torn') <= Cardinality(Torn) + 1
         /\ x \in SavedLines => Cardinality(Torn') <= Cardinality(Torn)
  <1> DEFINE n == Len(parsed) + 1
  <1>1. /\ Len(parsed) \in Nat /\ Len(parsed') = n
        /\ \A i \in 1 .. Len(parsed) : parsed'[i] = parsed[i]
        /\ parsed'[n] = x
    BY AppendProperties, LenProperties DEF TypeOK
  <1>2. IsFiniteSet(Torn) /\ Cardinality(Torn) \in Nat
    BY TornFinite
  <1>3. /\ IsFiniteSet(Torn \cup {n})
        /\ Cardinality(Torn \cup {n}) <= Cardinality(Torn) + 1
    <2> HIDE DEF n
    <2>1. /\ IsFiniteSet(Torn \cup {n})
          /\ Cardinality(Torn \cup {n})
               = IF n \in Torn THEN Cardinality(Torn) ELSE Cardinality(Torn) + 1
      BY <1>2, FS_AddElement
    <2> QED
      BY <1>2, <2>1
  <1>4. \A i \in 1 .. n : i \in 1 .. Len(parsed) \/ i = n
    BY <1>1
  <1>5. Torn' \in SUBSET (Torn \cup {n})
    BY <1>1, <1>4 DEF Torn
  <1>6. x \in SavedLines => Torn' \in SUBSET Torn
    BY <1>1, <1>4 DEF Torn
  <1> HIDE DEF n
  <1>7. IsFiniteSet(Torn') /\ Cardinality(Torn') <= Cardinality(Torn \cup {n})
    BY <1>3, <1>5, FS_Subset
  <1>8. Cardinality(Torn') \in Nat /\ Cardinality(Torn \cup {n}) \in Nat
    BY <1>3, <1>7, FS_CardinalityType
  <1>9. x \in SavedLines => Cardinality(Torn') <= Cardinality(Torn)
    BY <1>2, <1>6, FS_Subset
  <1> QED
    BY <1>2, <1>3, <1>7, <1>8, <1>9

-----------------------------------------------------------------------------
(* What a step does to the line that has yet to end.                       *)

\* Nothing is read and nothing parsed: the lines that are held stay as whole
\* as they were, and unless the content is another one, in step.
LEMMA HeldStays ==
  ASSUME SavedLines \subseteq SavedLines', UNCHANGED <<HeldBytes, off>>, RestWhole
  PROVE  RestWhole' /\ (FirstTorn' => FirstTorn)
  BY DEF RestWhole, FirstTorn

LEMMA StepStays ==
  ASSUME TypeOK, UNCHANGED <<HeldBytes, off>>, InStep,
         Len(target) <= Len(target'), Len(target') \in Nat,
         \A i \in 1 .. Len(target) : target'[i] = target[i]
  PROVE  InStep'
  <1>0. /\ Len(target) \in Nat /\ off \in Nat
        /\ Len(HeldBytes) \in Nat /\ off <= Len(target)
    BY Lengths, HeldFacts DEF InStep
  <1>1. PICK b \in 0 .. Len(HeldBytes) :
           LET begin == off - Len(HeldBytes) + b IN
           /\ b = 0 \/ HeldBytes[b] = NL
           /\ begin = 0 \/ (begin > 0 /\ target[begin] = NL)
           /\ \A i \in b + 1 .. Len(HeldBytes) :
                /\ HeldBytes[i] # NL
                /\ HeldBytes[i] = target[off - Len(HeldBytes) + i]
    BY DEF InStep
  <1> DEFINE begin == off - Len(HeldBytes) + b
  <1>2. begin \in Nat
    BY <1>0, <1>1
  <1>3. begin = 0 \/ (begin > 0 /\ target'[begin] = NL)
    <2>1. begin > 0 => begin \in 1 .. Len(target)
      BY <1>0, <1>2
    <2> QED
      BY <1>1, <2>1
  <1>4. \A i \in b + 1 .. Len(HeldBytes) :
           HeldBytes[i] # NL /\ HeldBytes[i] = target'[off - Len(HeldBytes) + i]
    <2>1. \A i \in b + 1 .. Len(HeldBytes) : off - Len(HeldBytes) + i \in 1 .. Len(target)
      BY <1>0, <1>2
    <2> QED
      BY <1>1, <2>1
  <1>5. off' <= Len(target')
    BY <1>0
  <1> QED
    BY <1>1, <1>3, <1>4, <1>5 DEF InStep

\* A line that Fill brings to its end is torn only if it was out of step, and
\* once it has ended the next one is in step again.
LEMMA FillStep ==
  ASSUME TypeOK, TypeOK', Fill, UNCHANGED replaced,
         Len(file) <= Len(target), \A i \in 1 .. Len(file) : file[i] = target[i]
  PROVE  /\ RestWhole'
         /\ ~FirstTorn
         /\ FirstTorn' => ~InStep /\ InStep'
         /\ InStep => InStep'
  <1> DEFINE m == Len(HeldBytes)
             d == off - m
  <1>0. /\ Len(target) \in Nat /\ off \in Nat /\ m \in Nat
        /\ target \in Seq(Char) /\ HeldBytes \in Seq(Char) /\ HeldBytes' \in Seq(Char)
    BY Lengths, HeldFacts, HeldNext DEF TypeOK
  <1>1. \A i \in 1 .. m : HeldBytes'[i] = HeldBytes[i] /\ HeldBytes[i] # NL
    BY FillHeld
  <1>2. PICK n \in Nat :
           /\ Len(HeldBytes') = m + n
           /\ off' = off + n /\ off + n <= Len(target)
           /\ \A i \in m + 1 .. m + n : HeldBytes'[i] = target[d + i]
    BY FillHeld
  <1>3. UNCHANGED <<target, SavedLines>>
    BY DEF Fill, envVars, SavedLines
  <1>4. LinesOf(target) \subseteq SavedLines
    BY DEF SavedLines
  <1>5. off' - Len(HeldBytes') = d
    BY <1>0, <1>2
  <1> HIDE DEF m, d
  <1>d. d = off - m
    BY DEF d
  <1>6. RestWhole'
    <2> SUFFICES ASSUME NEW e \in 1 .. m + n, NEW b \in 1 .. e - 1,
                        LineAt(HeldBytes', b, e)
                 PROVE  SubSeq(HeldBytes', b + 1, e - 1) \in SavedLines
      BY <1>2, <1>3 DEF RestWhole
    <2>1. HeldBytes'[b] = NL
      BY DEF LineAt
    <2>2. b \in m + 1 .. m + n
      BY <1>0, <1>1, <2>1
    <2>3. /\ b \in 0 .. e - 1 /\ e \in 1 .. Len(HeldBytes')
          /\ \A i \in b + 1 .. e : i \in m + 1 .. m + n
      BY <1>0, <1>2, <2>2
    <2>4. d + b = 0 \/ target[d + b] = NL
      BY <1>2, <2>1, <2>2
    <2>5. d \in Int
      BY <1>0, <1>d
    <2>6. d + b \in 0 .. Len(target) /\ d + e <= Len(target)
      BY <1>0, <1>2, <1>d, <2>2, <2>3
    <2>7. \A i \in b + 1 .. e : HeldBytes'[i] = target[d + i]
      BY <1>2, <2>3
    <2>8. SubSeq(HeldBytes', b + 1, e - 1) \in LinesOf(target)
      BY <1>0, <2>3, <2>4, <2>5, <2>6, <2>7, LineFound
    <2> QED
      BY <1>4, <2>8
  <1>7. ~FirstTorn
    BY <1>1 DEF FirstTorn, LineAt, m
  <1>8. ASSUME InStep
        PROVE  /\ d >= 0
               /\ d = 0 \/ target[d] = NL
               /\ \A i \in 1 .. m + n : HeldBytes'[i] = target[d + i]
    <2>1. PICK b \in 0 .. m :
             /\ b = 0 \/ HeldBytes[b] = NL
             /\ d + b = 0 \/ (d + b > 0 /\ target[d + b] = NL)
             /\ \A i \in b + 1 .. m : HeldBytes[i] = target[d + i]
      BY <1>8 DEF InStep, d, m
    <2>2. b = 0
      BY <1>0, <1>1, <2>1
    <2>3. /\ d >= 0 /\ (d = 0 \/ target[d] = NL)
          /\ \A i \in 1 .. m : HeldBytes[i] = target[d + i]
      BY <1>0, <1>d, <2>1, <2>2
    <2>4. \A i \in 1 .. m + n : i \in 1 .. m \/ i \in m + 1 .. m + n
      BY <1>0
    <2> QED
      BY <1>1, <1>2, <2>3, <2>4
  <1>9. ASSUME InStep, FirstTorn' PROVE FALSE
    <2>1. PICK e \in 1 .. m + n :
             /\ LineAt(HeldBytes', 0, e)
             /\ SubSeq(HeldBytes', 1, e - 1) \notin SavedLines
      BY <1>2, <1>3, <1>9 DEF FirstTorn
    <2>2. /\ d \in Int /\ d + 0 = d /\ d \in 0 .. Len(target) /\ d + e <= Len(target)
          /\ 0 \in 0 .. e - 1 /\ e \in 1 .. Len(HeldBytes')
          /\ \A i \in 0 + 1 .. e : i \in 1 .. m + n
      BY <1>0, <1>2, <1>8, <1>9, <1>d
    <2>3. \A i \in 0 + 1 .. e : HeldBytes'[i] = target[d + i]
      BY <1>8, <1>9, <2>2
    <2>4. SubSeq(HeldBytes', 0 + 1, e - 1) \in LinesOf(target)
      <3> DEFINE z == 0
      <3>1. /\ z \in 0 .. e - 1 /\ LineAt(HeldBytes', z, e)
            /\ d + z \in 0 .. Len(target)
            /\ d + z = 0 \/ target[d + z] = NL
            /\ \A i \in z + 1 .. e : HeldBytes'[i] = target[d + i]
        BY <1>8, <1>9, <2>1, <2>2, <2>3
      <3> HIDE DEF z
      <3>2. SubSeq(HeldBytes', z + 1, e - 1) \in LinesOf(target)
        BY <1>0, <2>2, <3>1, LineFound
      <3> QED
        BY <3>2 DEF z
    <2> QED
      BY <1>4, <2>1, <2>4
  <1>10. ASSUME NEW k \in 1 .. m + n, HeldBytes'[k] = NL
         PROVE  InStep'
    <2> DEFINE S == {i \in 1 .. m + n : HeldBytes'[i] = NL}
    <2>1. PICK b \in S : \A i \in S : i <= b
      <3>1. S \in SUBSET (1 .. m + n) /\ k \in S /\ m + n \in Nat
        BY <1>0, <1>10
      <3> HIDE DEF S
      <3> QED
        BY <3>1, LastPlace
    <2>2. b \in m + 1 .. m + n /\ HeldBytes'[b] = NL
      BY <1>0, <1>1, <2>1
    <2>3. \A i \in b + 1 .. m + n : HeldBytes'[i] # NL /\ HeldBytes'[i] = target[d + i]
      <3>1. \A i \in b + 1 .. m + n : i \in 1 .. m + n /\ i \in m + 1 .. m + n /\ ~(i <= b)
        BY <1>0, <2>2
      <3> QED
        BY <1>2, <2>1, <3>1
    <2>4. /\ b \in 0 .. m + n
          /\ d + b = 0 \/ (d + b > 0 /\ target[d + b] = NL)
      <3>1. target[d + b] = NL
        BY <1>2, <2>2
      <3>2. d + b > 0 \/ d + b = 0
        BY <1>0, <1>d, <2>2
      <3> QED
        BY <1>0, <2>2, <3>1, <3>2
    <2>5. off' <= Len(target')
      BY <1>2, <1>3
    <2> HIDE DEF S
    <2> QED
      BY <1>2, <1>3, <1>5, <2>2, <2>3, <2>4, <2>5 DEF InStep
  <1>11. ASSUME InStep, \A k \in 1 .. m + n : HeldBytes'[k] # NL
         PROVE  InStep'
    <2>1. /\ d + 0 = d /\ 0 \in 0 .. m + n
          /\ d = 0 \/ (d > 0 /\ target[d] = NL)
          /\ \A i \in 0 + 1 .. m + n : i \in 1 .. m + n
      BY <1>0, <1>8, <1>11, <1>d
    <2>2. \A i \in 0 + 1 .. m + n : HeldBytes'[i] # NL /\ HeldBytes'[i] = target[d + i]
      BY <1>8, <1>11, <2>1
    <2>3. off' <= Len(target')
      BY <1>2, <1>3
    <2> QED
      BY <1>2, <1>3, <1>5, <2>1, <2>2, <2>3 DEF InStep
  <1>12. InStep => InStep'
    BY <1>10, <1>11
  <1>13. FirstTorn' => InStep'
    <2>1. FirstTorn' => \E e \in 1 .. m + n : HeldBytes'[e] = NL
      BY <1>2 DEF FirstTorn, LineAt
    <2> QED
      BY <1>10, <2>1
  <1> QED
    BY <1>6, <1>7, <1>9, <1>12, <1>13

\* ReadLine hands over the first line; those behind it are whole.
LEMMA ReadLineStep ==
  ASSUME TypeOK, TypeOK', ReadLine, UNCHANGED replaced, RestWhole
  PROVE  /\ RestWhole'
         /\ ~FirstTorn'
         /\ InStep => InStep'
         /\ \E x \in Seq(Bytes) :
              parsed' = Append(parsed, x) /\ (x \notin SavedLines => FirstTorn)
  <1> DEFINE m == Len(HeldBytes)
  <1>0. /\ off \in Nat /\ m \in Nat
        /\ HeldBytes \in Seq(Char) /\ HeldBytes' \in Seq(Char)
    BY Lengths, HeldFacts, HeldNext
  <1>1. PICK e \in 1 .. m :
           /\ LineAt(HeldBytes, 0, e)
           /\ parsed' = Append(parsed, SubSeq(HeldBytes, 1, e - 1))
           /\ SubSeq(HeldBytes, 1, e - 1) \in Seq(Bytes)
           /\ Len(HeldBytes') = m - e
           /\ \A i \in 1 .. m - e : HeldBytes'[i] = HeldBytes[e + i]
    BY ReadLineHeld
  <1>2. UNCHANGED <<target, off, SavedLines>>
    BY DEF ReadLine, envVars, SavedLines
  <1>3. HeldBytes[e] = NL
    BY <1>1 DEF LineAt
  \* Any line behind the first is a line that was behind it before.
  <1>4. ASSUME NEW k \in 1 .. m - e, NEW b \in 0 .. k - 1,
               b = 0 \/ HeldBytes'[b] = NL, HeldBytes'[k] = NL,
               \A i \in b + 1 .. k - 1 : HeldBytes'[i] # NL
        PROVE  SubSeq(HeldBytes', b + 1, k - 1) \in SavedLines
    <2> DEFINE n == k - 1 - b
               c == e + b
    <2>1. /\ e + k \in 1 .. m /\ c \in 1 .. (e + k) - 1
          /\ b \in 0 .. Len(HeldBytes') /\ n \in 0 .. Len(HeldBytes') - b
          /\ c \in 0 .. Len(HeldBytes) /\ n <= Len(HeldBytes) - c
          /\ b + n = k - 1 /\ c + n = (e + k) - 1
      BY <1>0, <1>1
    <2>2. HeldBytes[c] = NL
      <3>1. b # 0 => b \in 1 .. m - e
        BY <1>0
      <3> QED
        BY <1>1, <1>3, <1>4, <3>1
    <2>3. HeldBytes[e + k] = NL
      BY <1>1, <1>4
    <2>4. ASSUME NEW i \in c + 1 .. (e + k) - 1 PROVE HeldBytes[i] # NL
      <3>1. i - e \in b + 1 .. k - 1 /\ i - e \in 1 .. m - e /\ e + (i - e) = i
        BY <1>0, <1>1
      <3>2. HeldBytes'[i - e] = HeldBytes[e + (i - e)]
        BY <1>1, <3>1
      <3> QED
        BY <1>4, <3>1, <3>2
    <2>5. LineAt(HeldBytes, c, e + k)
      BY <2>2, <2>3, <2>4 DEF LineAt
    <2>6. SubSeq(HeldBytes, c + 1, (e + k) - 1) \in SavedLines
      <3> HIDE DEF c
      <3> QED
        BY <2>1, <2>5 DEF RestWhole
    <2>7. SubSeq(HeldBytes', b + 1, b + n) = SubSeq(HeldBytes, c + 1, c + n)
      <3>1. ASSUME NEW i \in 1 .. n PROVE HeldBytes'[b + i] = HeldBytes[c + i]
        <4>1. b + i \in 1 .. m - e /\ c + i = e + (b + i)
          BY <1>0, <1>1
        <4> QED
          BY <1>1, <4>1
      <3> HIDE DEF n, c
      <3> QED
        BY <1>0, <2>1, <3>1, SamePart
    <2> QED
      BY <2>1, <2>6, <2>7
  <1>5. RestWhole'
    <2> SUFFICES ASSUME NEW k \in 1 .. m - e, NEW b \in 1 .. k - 1,
                        LineAt(HeldBytes', b, k)
                 PROVE  SubSeq(HeldBytes', b + 1, k - 1) \in SavedLines
      BY <1>1, <1>2 DEF RestWhole
    <2> QED
      BY <1>4 DEF LineAt
  <1>6. ~FirstTorn'
    <2> SUFFICES ASSUME NEW k \in 1 .. m - e, LineAt(HeldBytes', 0, k)
                 PROVE  SubSeq(HeldBytes', 1, k - 1) \in SavedLines
      BY <1>1, <1>2 DEF FirstTorn
    <2> DEFINE z == 0
    <2>1. /\ z \in 0 .. k - 1 /\ z = 0
          /\ HeldBytes'[k] = NL
          /\ \A i \in z + 1 .. k - 1 : HeldBytes'[i] # NL
      BY DEF LineAt
    <2> HIDE DEF z
    <2>2. SubSeq(HeldBytes', z + 1, k - 1) \in SavedLines
      BY <1>4, <2>1
    <2> QED
      BY <2>2 DEF z
  <1>7. ASSUME InStep PROVE InStep'
    <2> DEFINE d == off - m
    <2>1. PICK b \in 0 .. m :
             /\ b = 0 \/ HeldBytes[b] = NL
             /\ d + b = 0 \/ (d + b > 0 /\ target[d + b] = NL)
             /\ \A i \in b + 1 .. m : HeldBytes[i] # NL /\ HeldBytes[i] = target[d + i]
      BY <1>7 DEF InStep
    <2>2. b >= e
      <3>1. b < e => e \in b + 1 .. m
        BY <1>0, <1>1
      <3> QED
        BY <1>0, <1>3, <2>1, <3>1
    <2> DEFINE k == b - e
               f == off' - Len(HeldBytes')
    <2>3. /\ k \in 0 .. m - e /\ f = d + e /\ f + k = d + b
          /\ k # 0 => k \in 1 .. m - e /\ e + k = b
      BY <1>0, <1>1, <1>2, <2>1, <2>2
    <2>4. k = 0 \/ HeldBytes'[k] = NL
      <3>1. k # 0 => HeldBytes'[k] = HeldBytes[b] /\ b # 0
        BY <1>0, <1>1, <2>3
      <3> QED
        BY <2>1, <3>1
    <2>5. f + k = 0 \/ (f + k > 0 /\ target'[f + k] = NL)
      BY <1>2, <2>1, <2>3
    <2>6. ASSUME NEW i \in k + 1 .. m - e
          PROVE  HeldBytes'[i] # NL /\ HeldBytes'[i] = target'[f + i]
      <3>1. i \in 1 .. m - e /\ e + i \in b + 1 .. m /\ d + (e + i) = f + i
        BY <1>0, <1>1, <1>2, <2>2, <2>3
      <3>2. HeldBytes'[i] = HeldBytes[e + i]
        BY <1>1, <3>1
      <3>3. HeldBytes[e + i] # NL /\ HeldBytes[e + i] = target[d + (e + i)]
        BY <2>1, <3>1
      <3> QED
        BY <1>2, <3>1, <3>2, <3>3
    <2>7. off' <= Len(target')
      BY <1>2, <1>7 DEF InStep
    <2> HIDE DEF k, d
    <2>8. k \in 0 .. Len(HeldBytes')
      BY <1>1, <2>3
    <2>9. \A i \in k + 1 .. Len(HeldBytes') :
             HeldBytes'[i] # NL /\ HeldBytes'[i] = target'[f + i]
      BY <1>1, <2>6
    <2> QED
      BY <2>4, <2>5, <2>7, <2>8, <2>9 DEF InStep
  <1>8. SubSeq(HeldBytes, 1, e - 1) \notin SavedLines => FirstTorn
    BY <1>1 DEF FirstTorn
  <1> QED
    BY <1>1, <1>5, <1>6, <1>7, <1>8

-----------------------------------------------------------------------------
(* The inductive invariant.                                                *)

InFile ==
  /\ Len(file) <= Len(target)
  /\ \A i \in 1 .. Len(file) : file[i] = target[i]

\* What an edit does.
LEMMA EditFacts ==
  ASSUME EditTypes, Edit
  PROVE  /\ TypeOK' /\ InFile'
         /\ replaced' = Append(replaced, target)
         /\ replaced' \in Seq(Seq(Char)) /\ Len(replaced') = Len(replaced) + 1
         /\ UNCHANGED <<line, buf, off, lim, parsed, queue, watcher, pc>>
         /\ unnotified'
  <1>1. target' \in Seq(Char)
    <2>1. target' \in Contents
      BY DEF Edit
    <2> QED
      BY <2>1, SeqDef, SizeAssumption DEF Contents
  <1>2. /\ file' = << >> /\ saves' = saves + 1 /\ saves < MaxSaves /\ unnotified' = TRUE
        /\ replaced' = Append(replaced, target)
        /\ UNCHANGED <<follow, handle, watcher, queue, user, pc, readVars, failed>>
    BY DEF Edit
  <1>3. TypeOK'
    BY <1>1, <1>2, SizeAssumption DEF EditTypes, TypeOK, readVars
  <1>4. InFile'
    BY <1>1, <1>2, LenProperties DEF InFile
  <1>5. /\ replaced' \in Seq(Seq(Char)) /\ Len(replaced') = Len(replaced) + 1
    BY <1>2, AppendProperties DEF EditTypes, TypeOK
  <1> QED
    BY <1>2, <1>3, <1>4, <1>5 DEF readVars

LEMMA EditTypeStep ==
  ASSUME EditTypes, [EditNext]_editVars
  PROVE  EditTypes'
  <1>1. CASE Edit
    BY <1>1, EditFacts DEF EditTypes
  <1>2. CASE [Next]_vars /\ UNCHANGED replaced
    BY <1>2, TypeStep DEF EditTypes
  <1> QED
    BY <1>1, <1>2 DEF EditNext, editVars

\* What is in the file is the beginning of the content.
LEMMA InFileStep ==
  ASSUME TypeOK, InFile, [Next]_vars
  PROVE  /\ InFile'
         /\ Len(target) <= Len(target')
         /\ \A i \in 1 .. Len(target) : target'[i] = target[i]
  <1>0. Len(target) \in Nat /\ Len(file) \in Nat
    BY Lengths
  <1>1. CASE Extend
    <2>1. PICK b \in Char : target' = Append(target, b)
      BY <1>1 DEF Extend
    <2>2. /\ Len(target') = Len(target) + 1
          /\ \A i \in 1 .. Len(target) : target'[i] = target[i]
          /\ UNCHANGED file
      BY <1>1, <2>1, AppendProperties DEF TypeOK, Extend
    <2>3. \A i \in 1 .. Len(file) : i \in 1 .. Len(target)
      BY <1>0 DEF InFile
    <2> QED
      BY <1>0, <2>2, <2>3 DEF InFile
  <1>2. CASE WriteOut
    <2>1. PICK n \in Len(file) + 1 .. Len(target) : file' = SubSeq(target, 1, n)
      BY <1>2 DEF WriteOut
    <2>2. /\ Len(file') = n
          /\ \A i \in 1 .. n : file'[i] = target[i]
          /\ UNCHANGED target
      BY <1>0, <1>2, <2>1, PrefixFacts DEF TypeOK, WriteOut
    <2> QED
      BY <1>0, <2>1, <2>2 DEF InFile
  <1>3. CASE Truncate
    <2>1. Len(file') = 0 /\ UNCHANGED target
      BY <1>3 DEF Truncate
    <2> QED
      BY <1>0, <2>1 DEF InFile
  <1>4. CASE Fill \/ ReadLine \/ Gather \/ Quiet
    <2>1. UNCHANGED <<target, file>>
      BY <1>4 DEF Fill, ReadLine, Gather, Quiet, envVars
    <2> QED
      BY <1>0, <2>1 DEF InFile
  <1> QED
    BY <1>1, <1>2, <1>3, <1>4, StepKinds

\* A step of followLines keeps the account of torn lines, and an edit adds
\* to it what it may tear.
LEMMA OneForEachStep ==
  ASSUME EditTypes, EditTypes', InFile, RestWhole, OneForEach, [EditNext]_editVars
  PROVE  RestWhole' /\ OneForEach'
  <1>0. /\ TypeOK /\ TypeOK' /\ Len(replaced) \in Nat
        /\ target \in Seq(Char) /\ target' \in Seq(Char) /\ Len(target') \in Nat
        /\ Cardinality(Torn) \in Nat
    BY TornFinite, LenProperties DEF EditTypes, TypeOK
  <1>1. CASE Edit
    <2>1. /\ replaced' = Append(replaced, target)
          /\ Len(replaced') = Len(replaced) + 1
          /\ UNCHANGED <<line, buf, off, parsed>>
      BY <1>1, EditFacts
    <2>2. SavedLines \subseteq SavedLines'
      BY <1>0, <2>1, SavedKept DEF EditTypes
    <2>3. UNCHANGED HeldBytes
      BY <1>0, <2>1, OtherHeld
    <2>4. RestWhole' /\ (FirstTorn' => FirstTorn)
      BY <2>1, <2>2, <2>3, HeldStays
    <2>5. Cardinality(Torn') \in Nat /\ Cardinality(Torn') <= Cardinality(Torn)
      BY <1>0, <2>1, <2>2, TornKept
    <2> QED
      BY <1>0, <2>1, <2>4, <2>5 DEF OneForEach
  <1>2. CASE Fill /\ UNCHANGED replaced
    <2>1. /\ RestWhole' /\ ~FirstTorn
          /\ FirstTorn' => ~InStep /\ InStep'
          /\ InStep => InStep'
      BY <1>0, <1>2, FillStep DEF InFile
    <2>2. SavedLines \subseteq SavedLines' /\ UNCHANGED parsed
      BY <1>2 DEF Fill, envVars, SavedLines
    <2>3. Cardinality(Torn') \in Nat /\ Cardinality(Torn') <= Cardinality(Torn)
      BY <1>0, <2>2, TornKept
    <2> QED
      BY <1>0, <1>2, <2>1, <2>3 DEF OneForEach
  <1>3. CASE ReadLine /\ UNCHANGED replaced
    <2>1. RestWhole' /\ ~FirstTorn' /\ (InStep => InStep')
      BY <1>0, <1>3, ReadLineStep
    <2>2. PICK x \in Seq(Bytes) :
             parsed' = Append(parsed, x) /\ (x \notin SavedLines => FirstTorn)
      BY <1>0, <1>3, ReadLineStep
    <2>3. UNCHANGED SavedLines
      BY <1>3 DEF ReadLine, envVars, SavedLines
    <2>4. /\ Cardinality(Torn') \in Nat
          /\ Cardinality(Torn') <= Cardinality(Torn) + 1
          /\ x \in SavedLines => Cardinality(Torn') <= Cardinality(Torn)
      BY <1>0, <2>2, <2>3, TornMore
    <2> QED
      BY <1>0, <1>3, <2>1, <2>2, <2>4 DEF OneForEach
  <1>4. CASE [Next]_vars /\ ~Fill /\ ~ReadLine /\ UNCHANGED replaced
    <2>1. Extend \/ WriteOut \/ Truncate \/ Gather \/ Quiet
      BY <1>4, StepKinds
    <2>2. UNCHANGED <<off, parsed>> /\ (Gather \/ UNCHANGED <<line, buf>>)
      BY <2>1 DEF Extend, WriteOut, Truncate, Gather, Quiet, readVars
    <2>3. /\ Len(target) <= Len(target')
          /\ \A i \in 1 .. Len(target) : target'[i] = target[i]
      BY <1>0, <1>4, InFileStep
    <2>4. SavedLines \subseteq SavedLines'
      BY <1>0, <1>4, <2>3, SavedKept DEF EditTypes
    <2>5. UNCHANGED HeldBytes
      BY <1>0, <2>2, OtherHeld
    <2>6. RestWhole' /\ (FirstTorn' => FirstTorn)
      BY <2>2, <2>4, <2>5, HeldStays
    <2>7. InStep => InStep'
      BY <1>0, <2>2, <2>3, <2>5, StepStays
    <2>8. Cardinality(Torn') \in Nat /\ Cardinality(Torn') <= Cardinality(Torn)
      BY <1>0, <2>2, <2>4, TornKept
    <2> QED
      BY <1>0, <1>4, <2>6, <2>7, <2>8 DEF OneForEach
  <1> QED
    BY <1>1, <1>2, <1>3, <1>4 DEF EditNext, editVars

LEMMA EditInvStep == EditInv /\ [EditNext]_editVars => EditInv'
  <1> SUFFICES ASSUME EditInv, [EditNext]_editVars PROVE EditInv'
    OBVIOUS
  <1>1. EditTypes /\ InFile /\ RestWhole /\ OneForEach
    BY DEF EditInv, EditTypes, InFile
  <1>2. EditTypes'
    BY <1>1, EditTypeStep
  <1>3. InFile'
    <2>1. CASE Edit
      BY <1>1, <2>1, EditFacts
    <2>2. CASE [Next]_vars
      BY <1>1, <2>2, InFileStep DEF EditTypes
    <2> QED
      BY <2>1, <2>2 DEF EditNext, editVars
  <1>4. RestWhole' /\ OneForEach'
    BY <1>1, <1>2, OneForEachStep
  <1> QED
    BY <1>2, <1>3, <1>4 DEF EditInv, EditTypes, InFile

LEMMA EditInvInit == EditInit => EditInv
  <1> SUFFICES ASSUME EditInit PROVE EditInv
    OBVIOUS
  <1>1. /\ TypeOK
        /\ file = target /\ off = 0 /\ parsed = << >> /\ replaced = << >>
        /\ line = << >> /\ buf = << >>
    BY InitType DEF EditInit, Init
  <1>2. Len(HeldBytes) = 0 /\ Len(target) \in Nat
    BY <1>1, HeldFacts, LenProperties DEF TypeOK
  <1>3. RestWhole /\ ~FirstTorn
    BY <1>2 DEF RestWhole, FirstTorn
  <1>4. InStep
    BY <1>1, <1>2 DEF InStep
  <1>5. Torn = {}
    BY <1>1 DEF Torn
  <1>6. Cardinality(Torn) = 0
    BY <1>5, FS_EmptySet
  <1>7. OneForEach
    BY <1>1, <1>3, <1>4, <1>6 DEF OneForEach
  <1>8. replaced \in Seq(Seq(Char))
    BY <1>1, EmptySeq
  <1> QED
    BY <1>1, <1>2, <1>3, <1>7, <1>8 DEF EditInv

\* Whatever the owner saves on top of the file, and however often.
THEOREM EditInvariance == EditSpec => []EditInv
  BY EditInvInit, EditInvStep, PTL DEF EditSpec

\* Each edit makes at most one torn line, for every content, limit and
\* buffer: followLines is back in step with the first newline it reads.
THEOREM TornOnce == EditSpec => []TornOncePerSave
  <1>1. EditInv => TornOncePerSave
    <2> SUFFICES ASSUME EditInv PROVE TornOncePerSave
      OBVIOUS
    <2>1. Cardinality(Torn) \in Nat /\ Len(replaced) \in Nat
      BY TornFinite, LenProperties DEF EditInv
    <2> QED
      BY <2>1 DEF EditInv, OneForEach, TornOncePerSave
  <1> QED
    BY <1>1, EditInvariance, PTL

-----------------------------------------------------------------------------
(* What does not depend on the content.                                    *)

Limits == ReadAhead /\ Charged /\ LineBound

\* No line is longer than the limit and a buffer, not even one that is put
\* together from two contents.
THEOREM EditBound == EditSpec => []LineBound
  <1>1. EditInit => Limits
    BY InitInv DEF EditInit, Inv, Limits, Charged
  <1>2. EditInv /\ EditInv' /\ Limits /\ [EditNext]_editVars => Limits'
    <2> SUFFICES ASSUME EditInv, EditInv', Limits, [EditNext]_editVars PROVE Limits'
      OBVIOUS
    <2>1. CASE Edit
      <3>1. UNCHANGED <<line, buf, lim, parsed>>
        BY <2>1, EditFacts DEF EditInv, EditTypes
      <3> QED
        BY <3>1 DEF Limits, ReadAhead, Charged, LineBound, Held
    <2>2. CASE [Next]_vars
      BY <2>2, LimitStep DEF EditInv, Limits
    <2> QED
      BY <2>1, <2>2 DEF EditNext, editVars
  <1>3. Limits => LineBound
    BY DEF Limits
  <1> QED
    BY <1>1, <1>2, <1>3, EditInvariance, PTL DEF EditSpec

\* No edit is slept through: what is left to read is announced.
THEOREM EditWakeup == EditSpec => []NoLostWakeup
  <1>1. EditInit => NoLostWakeup
    BY InitInv DEF EditInit, Inv
  <1>2. EditInv /\ EditInv' /\ NoLostWakeup /\ [EditNext]_editVars => NoLostWakeup'
    <2> SUFFICES ASSUME EditInv, EditInv', NoLostWakeup, [EditNext]_editVars
                 PROVE  NoLostWakeup'
      OBVIOUS
    <2>1. CASE Edit
      BY <2>1, EditFacts DEF EditInv, EditTypes, NoLostWakeup
    <2>2. CASE [Next]_vars
      BY <2>2, WakeupStep DEF EditInv
    <2> QED
      BY <2>1, <2>2 DEF EditNext, editVars
  <1> QED
    BY <1>1, <1>2, EditInvariance, PTL DEF EditSpec
=============================================================================
