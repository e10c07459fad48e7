------------------------- MODULE DistributionProofs -------------------------
(* What is followed at the end of a subscription is the remote denylist:   *)
(* the local file is a prefix of it, and a line that is complete in a      *)
(* prefix is the same line of the whole.                                   *)
EXTENDS Distribution, HTTPSubscriberProofs

DistInv ==
  /\ Inv
  /\ begin \in {0, HeaderSize}
  /\ pos \in Nat

\* The lines begin inside the text.
LEMMA BeginBound == begin \in {0, HeaderSize} => begin \in 0 .. MaxRemote
  BY TextAssumption, SubscriberAssumption

\* A part of the text is a sequence of characters, as long as it says.
LEMMA PartFacts ==
  ASSUME NEW b \in 0 .. MaxRemote, NEW n \in 0 .. MaxRemote
  PROVE  /\ Part(b, n) \in Seq(Char)
         /\ Len(Part(b, n)) = IF n >= b THEN n - b ELSE 0
         /\ \A i \in 1 .. n - b : Part(b, n)[i] = Text[b + i]
  <1> USE SubscriberAssumption
  <1>1. \A i \in 1 .. n - b : Part(b, n)[i] = Text[b + i]
    BY DEF Part
  <1>2. \A i \in 1 .. n - b : Text[b + i] \in Char
    BY TextAssumption
  <1>3. CASE n >= b
    <2> DEFINE k == n - b
    <2>1. k \in Nat
      BY <1>3
    <2>2. Part(b, n) \in [1 .. k -> Char]
      BY <1>2 DEF Part
    <2> HIDE DEF k
    <2>3. Part(b, n) \in Seq(Char) /\ Len(Part(b, n)) = k
      BY <2>1, <2>2, TupleFacts
    <2> QED
      BY <1>1, <1>3, <2>3 DEF k
  <1>4. CASE n < b
    <2>1. 1 .. n - b = 1 .. 0
      BY <1>4
    <2>2. Part(b, n) \in [1 .. 0 -> Char]
      BY <2>1 DEF Part
    <2>3. Part(b, n) \in Seq(Char) /\ Len(Part(b, n)) = 0
      BY <2>2, TupleFacts
    <2> QED
      BY <1>1, <1>4, <2>3
  <1> QED
    BY <1>3, <1>4

\* The local file is a part of the text.
LEMMA LocalIsPart ==
  ASSUME DistInv
  PROVE  /\ LocalText = Part(begin, Len(local))
         /\ Len(local) \in 0 .. remote
         /\ remote \in 0 .. MaxRemote
         /\ begin \in 0 .. MaxRemote
  <1>1. Len(local) \in Nat /\ remote \in 0 .. MaxRemote /\ Len(local) <= remote
    BY LenProperties DEF DistInv, Inv, TypeOK, LocalIsPrefix
  <1>2. begin \in 0 .. MaxRemote
    BY BeginBound DEF DistInv
  <1>3. \A i \in 1 .. Len(local) - begin : local[begin + i] = begin + i
    BY <1>1, <1>2, SubscriberAssumption DEF DistInv, Inv, LocalIsPrefix
  <1> DEFINE n == Len(local) - begin
  <1>4. \A i \in 1 .. n : Text[local[begin + i]] = Text[begin + i]
    BY <1>3
  <1> HIDE DEF n
  <1>5. [i \in 1 .. n |-> Text[local[begin + i]]] = [i \in 1 .. n |-> Text[begin + i]]
    BY <1>4
  <1> QED
    BY <1>1, <1>2, <1>5 DEF n, LocalText, Part

\* Publishing extends what is followed; a byte of the header changes nothing.
LEMMA PublishStep ==
  ASSUME DistInv, Publish, UNCHANGED followVars
  PROVE  [Remote!Next]_(Remote!vars)
  <1>1. /\ remote' = remote + 1 /\ remote \in 0 .. MaxRemote /\ remote' \in 0 .. MaxRemote
        /\ begin' = begin /\ begin \in 0 .. MaxRemote
        /\ UNCHANGED <<pos, lines, stopped>>
    BY LocalIsPart, SubscriberAssumption DEF Publish, followVars
  <1> DEFINE c == Part(begin, remote)
             d == Part(begin, remote')
  <1>2. /\ c \in Seq(Char) /\ d \in Seq(Char)
        /\ Len(c) = IF remote >= begin THEN remote - begin ELSE 0
        /\ Len(d) = IF remote' >= begin THEN remote' - begin ELSE 0
        /\ \A i \in 1 .. remote - begin : c[i] = Text[begin + i]
        /\ \A i \in 1 .. remote' - begin : d[i] = Text[begin + i]
    BY <1>1, PartFacts
  <1>3. Part(begin, remote)' = d
    BY <1>1 DEF Part
  <1>4. CASE remote < begin
    <2>1. 1 .. remote - begin = 1 .. remote' - begin
      BY <1>1, <1>4, SubscriberAssumption
    <2>2. c = d
      BY <2>1 DEF Part
    <2> QED
      BY <1>1, <1>3, <2>2 DEF Remote!vars
  <1>5. CASE remote >= begin
    <2> HIDE DEF c, d
    <2>1. /\ remote \in Nat /\ begin \in Nat /\ remote' = remote + 1
          /\ Len(c) = remote - begin /\ Len(d) = remote' - begin
      BY <1>1, <1>2, <1>5, SubscriberAssumption
    <2>2. Len(c) < Len(d)
      BY <2>1
    <2>3. \A i \in 1 .. remote - begin : i \in 1 .. remote' - begin
      BY <2>1
    <2>4. \A i \in 1 .. remote - begin : d[i] = c[i]
      BY <1>2, <2>3, Zenon
    <2>5. Len(c) < Len(d) /\ \A i \in 1 .. Len(c) : d[i] = c[i]
      BY <2>1, <2>2, <2>4
    <2>6. Remote!Extend
      BY <1>1, <1>2, <1>3, <2>5 DEF Remote!Extend, Remote!Char, Char, c
    <2> QED
      BY <2>6 DEF Remote!Next
  <1> QED
    BY <1>1, <1>4, <1>5, SubscriberAssumption

\* Sequences that agree somewhere have the same subsequence there.
LEMMA SameSubSeq ==
  ASSUME NEW S, NEW s, NEW t, NEW m \in Int, NEW n \in Int,
         \A i \in m .. n : s[i] = t[i] /\ t[i] \in S
  PROVE  SubSeq(s, m, n) = SubSeq(t, m, n)
  <1> DEFINE u == SubSeq(s, m, n)
             v == SubSeq(t, m, n)
             k == n - m + 1
  <1>1. \A i \in m .. n : s[i] \in S
    OBVIOUS
  <1>2. /\ u \in Seq(S) /\ Len(u) = IF m <= n THEN k ELSE 0
        /\ \A i \in 1 .. k : u[i] = s[m + i - 1]
    BY <1>1, SubSeqProperties
  <1>3. /\ v \in Seq(S) /\ Len(v) = IF m <= n THEN k ELSE 0
        /\ \A i \in 1 .. k : v[i] = t[m + i - 1]
    BY SubSeqProperties
  <1>4. \A i \in 1 .. k : m + i - 1 \in m .. n
    OBVIOUS
  <1>5. k \in Int /\ (m <= n <=> k >= 1)
    OBVIOUS
  <1> HIDE DEF u, v, k
  <1>6. \A i \in 1 .. k : u[i] = v[i]
    BY <1>2, <1>3, <1>4, Zenon
  <1>7. Len(u) = Len(v) /\ \A i \in 1 .. Len(u) : i \in 1 .. k
    BY <1>2, <1>3, <1>5
  <1>8. \A i \in 1 .. Len(u) : u[i] = v[i]
    BY <1>6, <1>7, Zenon
  <1>9. u = v
    BY <1>2, <1>3, <1>7, <1>8, SeqEqual
  <1> QED
    BY <1>9 DEF u, v

\* A line that is complete in the local file is the same line of the text.
LEMMA HandStep ==
  ASSUME DistInv, Hand
  PROVE  Remote!Emit /\ pos' \in Nat
  <1> DEFINE c == Part(begin, remote)
             d == Part(begin, Len(local))
  <1>1. /\ LocalText = d
        /\ Len(local) \in 0 .. remote /\ remote \in 0 .. MaxRemote
        /\ begin \in 0 .. MaxRemote /\ Len(local) \in 0 .. MaxRemote
        /\ pos \in Nat
    BY LocalIsPart, SubscriberAssumption DEF DistInv
  <1>2. /\ remote' = remote /\ begin' = begin
        /\ ~stopped /\ stopped' = stopped
    BY DEF Hand, Local!Emit, vars
  <1>3. PICK e \in pos + 1 .. Len(d) :
          /\ d[e] = NL
          /\ \A i \in pos + 1 .. e - 1 : d[i] # NL
          /\ lines' = Append(lines, SubSeq(d, pos + 1, e - 1))
          /\ pos' = e
    BY <1>1 DEF Hand, Local!Emit, Local!LineEndsAt
  <1>4. /\ c \in Seq(Char) /\ d \in Seq(Char)
        /\ Len(d) \in Nat /\ Len(c) \in Nat /\ Len(d) <= Len(c)
        /\ \A i \in 1 .. Len(d) : c[i] = d[i]
    <2>1. /\ c \in Seq(Char) /\ d \in Seq(Char)
          /\ Len(c) = IF remote >= begin THEN remote - begin ELSE 0
          /\ Len(d) = IF Len(local) >= begin THEN Len(local) - begin ELSE 0
          /\ \A i \in 1 .. remote - begin : c[i] = Text[begin + i]
          /\ \A i \in 1 .. Len(local) - begin : d[i] = Text[begin + i]
      BY <1>1, PartFacts
    <2> HIDE DEF c, d
    <2>2. /\ remote \in Nat /\ begin \in Nat /\ Len(local) \in Nat /\ Len(local) <= remote
      BY <1>1, SubscriberAssumption
    <2>3. Len(d) \in Nat /\ Len(c) \in Nat /\ Len(d) <= Len(c)
      BY <2>1, <2>2
    <2>4. \A i \in 1 .. Len(d) :
            i \in 1 .. remote - begin /\ i \in 1 .. Len(local) - begin
      BY <2>1, <2>2
    <2>5. \A i \in 1 .. Len(d) : c[i] = d[i]
      BY <2>1, <2>4, Zenon
    <2> QED
      BY <2>1, <2>3, <2>5
  <1>5. Part(begin, remote)' = c
    BY <1>2 DEF Part
  <1> HIDE DEF c, d
  <1>6. e \in pos + 1 .. Len(c) /\ e \in Nat
    BY <1>1, <1>3, <1>4
  <1>7. e \in 1 .. Len(d) /\ \A i \in pos + 1 .. e - 1 : i \in 1 .. Len(d)
    BY <1>1, <1>3, <1>4
  <1>8. c[e] = NL /\ \A i \in pos + 1 .. e - 1 : c[i] # NL
    BY <1>3, <1>4, <1>7, Zenon
  <1>9. SubSeq(c, pos + 1, e - 1) = SubSeq(d, pos + 1, e - 1)
    <2>1. pos + 1 \in Int /\ e - 1 \in Int
      BY <1>1, <1>6
    <2>2. \A i \in pos + 1 .. e - 1 : c[i] = d[i] /\ d[i] \in Char
      BY <1>4, <1>7, ElementOfSeq
    <2> QED
      BY <2>1, <2>2, SameSubSeq
  <1>10. Remote!Emit
    BY <1>2, <1>3, <1>5, <1>6, <1>8, <1>9 DEF Remote!Emit, Remote!LineEndsAt, c
  <1> QED
    BY <1>3, <1>6, <1>10

\* Nothing but a server that publishes changes what there is to follow.
LEMMA RemoteKept ==
  ASSUME [Next]_vars, ~Publish
  PROVE  remote' = remote
  BY DEF Next, New, NewFails, Stop, Crash, Subscriber, Download, Fire, Tick,
         SelectStop, Open, OpenFails, Serve, NothingNew, PassOver, Refuse, Copy,
         CopyEnds, CopyBreaks, vars

\* Every step keeps the invariant, and is one of following the remote denylist.
LEMMA DistStep ==
  ASSUME DistInv, [DistNext]_allVars
  PROVE  DistInv' /\ [Remote!Next]_(Remote!vars)
  <1>1. CASE Subscription
    <2>1. Inv'
      BY <1>1, ServeStep, CopyStep, QuietStep DEF Subscription, DistInv
    <2>2. UNCHANGED <<begin, pos, lines, stopped>>
      BY <1>1 DEF Subscription, followVars
    <2>3. CASE Publish
      BY <1>1, <2>1, <2>2, <2>3, PublishStep DEF DistInv, Subscription
    <2>4. CASE ~Publish
      <3>1. remote' = remote
        BY <1>1, <2>4, RemoteKept DEF Subscription
      <3>2. UNCHANGED Remote!vars
        BY <2>2, <3>1 DEF Remote!vars, Part
      <3> QED
        BY <2>1, <2>2, <3>2 DEF DistInv
    <2> QED
      BY <2>3, <2>4
  <1>2. CASE OpenDenylist \/ UNCHANGED allVars
    <2>1. UNCHANGED vars /\ UNCHANGED <<begin, pos, lines, stopped>>
      BY <1>2 DEF OpenDenylist, allVars, followVars
    <2>2. Inv'
      BY <2>1, QuietStep DEF DistInv, Serve, Copy, vars
    <2>3. UNCHANGED Remote!vars
      BY <2>1 DEF Remote!vars, Part, vars
    <2> QED
      BY <2>1, <2>2, <2>3 DEF DistInv
  <1>3. CASE Hand
    <2>1. UNCHANGED vars /\ begin' = begin
      BY <1>3 DEF Hand
    <2>2. Inv'
      BY <2>1, QuietStep DEF DistInv, Serve, Copy, vars
    <2> QED
      BY <1>3, <2>1, <2>2, HandStep DEF DistInv, Remote!Next
  <1>4. CASE EndFollowing
    <2>1. UNCHANGED vars /\ begin' = begin
      BY <1>4 DEF EndFollowing
    <2>2. ~stopped /\ stopped' = TRUE /\ UNCHANGED <<pos, lines>>
      BY <1>4 DEF EndFollowing, Local!Stop
    <2>3. Inv'
      BY <2>1, QuietStep DEF DistInv, Serve, Copy, vars
    <2>4. Remote!Stop
      BY <2>1, <2>2 DEF Remote!Stop, Part, vars
    <2> QED
      BY <2>1, <2>2, <2>3, <2>4 DEF DistInv, Remote!Next
  <1> QED
    BY <1>1, <1>2, <1>3, <1>4 DEF DistNext

\* Following the local file is following the remote denylist.
THEOREM Distribute == DistSafeSpec => DistributesFeed
  <1>1. DistInit => DistInv
    BY InitInv DEF DistInit, DistInv
  <1>2. DistInit => Remote!Init
    <2> SUFFICES ASSUME DistInit PROVE Remote!Init
      OBVIOUS
    <2>1. remote \in 0 .. MaxRemote /\ begin \in 0 .. MaxRemote
      BY BeginBound DEF DistInit, Init
    <2>2. Part(begin, remote) \in Seq(Char)
      BY <2>1, PartFacts
    <2> QED
      BY <2>2 DEF DistInit, Remote!Init, Remote!Char, Char
  <1>3. DistInv /\ [DistNext]_allVars => DistInv'
    BY DistStep
  <1>4. DistInv /\ [DistNext]_allVars => [Remote!Next]_(Remote!vars)
    BY DistStep
  <1> QED
    BY <1>1, <1>2, <1>3, <1>4, PTL DEF DistSafeSpec, DistributesFeed, Remote!Spec
=============================================================================
