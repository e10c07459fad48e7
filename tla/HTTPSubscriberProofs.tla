------------------------ MODULE HTTPSubscriberProofs ------------------------
(* The local file stays a prefix of the remote denylist, however long both *)
(* grow and however often the process subscribes.                          *)
EXTENDS HTTPSubscriber, SequenceTheorems, TLAPS

LEMMA InitInv == Init => Inv
  <1> SUFFICES ASSUME Init PROVE Inv
    OBVIOUS
  <1>1. /\ << >> \in Seq(Byte)
        /\ Len(<< >>) = 0
    BY EmptySeq
  <1>2. remote \in 0 .. MaxRemote /\ MaxRemote \in Nat /\ MaxLives \in Nat
        /\ local = << >> /\ body = << >> /\ pc = "none"
    BY SubscriberAssumption DEF Init
  <1>3. lives \in 0 .. MaxLives /\ size \in Nat
    BY <1>2 DEF Init
  <1>4. TypeOK
    BY <1>1, <1>2, <1>3 DEF Init, TypeOK
  <1> QED
    BY <1>1, <1>2, <1>4 DEF Inv, LocalIsPrefix

LEMMA TupleFacts ==
  ASSUME NEW S, NEW n \in Nat, NEW f \in [1 .. n -> S]
  PROVE  f \in Seq(S) /\ Len(f) = n
  <1>1. f \in Seq(S)
    BY SeqDef
  <1>2. Len(f) \in Nat /\ DOMAIN f = 1 .. Len(f)
    BY <1>1, LenProperties
  <1>3. DOMAIN f = 1 .. n
    OBVIOUS
  <1> QED
    BY <1>1, <1>2, <1>3

\* What a 206 brings goes on where the file ends.
LEMMA ServeStep ==
  ASSUME Inv, Serve
  PROVE  Inv'
  <1> DEFINE n == remote - size
  <1>1. /\ size = Len(local) /\ Len(local) \in Nat /\ remote \in Nat /\ remote <= MaxRemote
        /\ n \in Nat
        /\ body' = [i \in 1 .. n |-> size + i]
    BY SubscriberAssumption, LenProperties DEF Serve, Served, Inv, TypeOK
  <1>2. body' \in [1 .. n -> Byte]
    <2>1. \A i \in 1 .. n : size + i \in Byte
      BY <1>1, SubscriberAssumption DEF Byte
    <2> QED
      BY <1>1, <2>1
  <1> HIDE DEF n
  <1>3. body' \in Seq(Byte) /\ Len(body') = n
    BY <1>1, <1>2, TupleFacts
  <1>4. Len(local) + n = remote
    BY <1>1 DEF n
  <1>5. \A i \in 1 .. Len(body') : body'[i] = Len(local) + i
    BY <1>1, <1>3
  <1> QED
    BY <1>1, <1>3, <1>4, <1>5 DEF Serve, Inv, TypeOK, LocalIsPrefix

\* A write moves bytes from the front of the one to the end of the other.
LEMMA CopyStep ==
  ASSUME Inv, Copy
  PROVE  Inv'
  <1>1. PICK n \in 1 .. Len(body) :
          /\ local' = local \o SubSeq(body, 1, n)
          /\ body' = SubSeq(body, n + 1, Len(body))
    BY DEF Copy
  <1>2. /\ local \in Seq(Byte) /\ body \in Seq(Byte)
        /\ Len(local) \in Nat /\ Len(body) \in Nat
    BY LenProperties DEF Inv, TypeOK
  <1>3. \A i \in 1 .. Len(body) : body[i] \in Byte
    BY <1>2, ElementOfSeq
  <1> DEFINE part == SubSeq(body, 1, n)
  <1>4. /\ part \in Seq(Byte)
        /\ Len(part) = n
        /\ \A i \in 1 .. n : part[i] = body[i]
    <2>1. /\ part \in Seq(Byte)
          /\ Len(part) = n
          /\ \A i \in 1 .. n - 1 + 1 : part[i] = body[1 + i - 1]
      BY <1>2, <1>3, SubSeqProperties
    <2> QED
      BY <1>2, <2>1
  <1>5. /\ body' \in Seq(Byte)
        /\ Len(body') = Len(body) - n
        /\ \A i \in 1 .. Len(body) - n : body'[i] = body[n + i]
    <2>1. /\ body' \in Seq(Byte)
          /\ Len(body') = IF n + 1 <= Len(body) THEN Len(body) - (n + 1) + 1 ELSE 0
          /\ \A i \in 1 .. Len(body) - (n + 1) + 1 : body'[i] = body[n + 1 + i - 1]
      BY <1>1, <1>2, <1>3, SubSeqProperties
    <2> QED
      BY <1>2, <2>1
  <1>6. local' = local \o part
    BY <1>1
  <1> HIDE DEF part
  <1>7. /\ local' \in Seq(Byte)
        /\ Len(local') = Len(local) + n
        /\ \A i \in 1 .. Len(local) + n :
             local'[i] = IF i <= Len(local) THEN local[i] ELSE part[i - Len(local)]
    <2>1. local \in Seq(Byte) /\ part \in Seq(Byte)
      BY <1>2, <1>4
    <2>2. /\ local \o part \in Seq(Byte)
          /\ Len(local \o part) = Len(local) + Len(part)
          /\ \A i \in 1 .. Len(local) + Len(part) : (local \o part)[i] =
               IF i <= Len(local) THEN local[i] ELSE part[i - Len(local)]
      BY ONLY <2>1, ConcatProperties
    <2>3. Len(part) = n
      BY <1>4
    <2> QED
      BY ONLY <1>6, <2>2, <2>3
  <1>8. /\ \A i \in 1 .. Len(local) : local[i] = i
        /\ \A i \in 1 .. Len(body) : body[i] = Len(local) + i
        /\ Len(local) + Len(body) <= remote
    BY DEF Inv, LocalIsPrefix
  <1>9. ASSUME NEW i \in 1 .. Len(local')
        PROVE  local'[i] = i
    <2>1. CASE i <= Len(local)
      BY <1>2, <1>7, <1>8, <2>1
    <2>2. CASE ~(i <= Len(local))
      <3>1. i - Len(local) \in 1 .. n
        BY <1>2, <1>7, <2>2
      <3>2. local'[i] = body[i - Len(local)]
        BY <1>2, <1>4, <1>7, <2>2, <3>1
      <3>3. body[i - Len(local)] = Len(local) + (i - Len(local))
        BY <1>2, <1>8, <3>1
      <3> QED
        BY <1>2, <3>2, <3>3
    <2> QED
      BY <2>1, <2>2
  <1>10. \A i \in 1 .. Len(body') : body'[i] = Len(local') + i
    BY <1>2, <1>5, <1>7, <1>8
  <1>11. /\ UNCHANGED <<remote, exists, lives, pc, first, size, timer, stopping>>
         /\ pc = "copy"
    BY DEF Copy
  <1>12. remote \in Nat
    BY SubscriberAssumption DEF Inv, TypeOK
  <1>13. Len(local') <= remote' /\ Len(local') + Len(body') <= remote'
    BY <1>2, <1>5, <1>7, <1>8, <1>11, <1>12
  <1>14. TypeOK'
    BY <1>5, <1>7, <1>11 DEF Inv, TypeOK
  <1> QED
    BY <1>9, <1>10, <1>11, <1>13, <1>14 DEF Inv, LocalIsPrefix

\* Every other step leaves the file alone.
LEMMA QuietStep ==
  ASSUME Inv, [Next]_vars, ~Serve, ~Copy
  PROVE  Inv'
  <1> USE SubscriberAssumption DEF Inv, TypeOK, LocalIsPrefix
  <1>0. << >> \in Seq(Byte) /\ Len(<< >>) = 0 /\ Len(local) \in Nat
    BY EmptySeq, LenProperties
  <1>1. CASE Publish
    BY <1>1, LenProperties DEF Publish
  <1>2. CASE New \/ NewFails
    <2>1. /\ UNCHANGED <<remote, local, exists, size, body>>
          /\ lives' \in 0 .. MaxLives
          /\ pc' \in {"select", "open", "ended"}
      BY <1>2 DEF New, NewFails
    <2>2. first' \in BOOLEAN /\ stopping' \in BOOLEAN
      BY <1>2 DEF New, NewFails
    <2>3. timer' \in {"off", "armed", "fired"}
      BY <1>2 DEF New, NewFails
    <2> QED
      BY <2>1, <2>2, <2>3
  <1>7. CASE Stop
    BY <1>7 DEF Stop
  <1>8. CASE Crash
    <2>1. /\ UNCHANGED <<remote, local, exists, lives, size>>
          /\ body' = << >> /\ pc' = "none" /\ timer' = "off"
          /\ first' \in BOOLEAN /\ stopping' \in BOOLEAN
      BY <1>8 DEF Crash
    <2> QED
      BY <1>0, <2>1
  <1>3. CASE Fire \/ Tick \/ SelectStop
    BY <1>3 DEF Fire, Tick, SelectStop
  <1>4. CASE Open
    BY <1>0, <1>4 DEF Open
  <1>5. CASE OpenFails \/ NothingNew \/ PassOver \/ Refuse \/ CopyEnds \/ CopyBreaks
    <2>1. /\ UNCHANGED <<remote, local, exists, lives, size, stopping>>
          /\ body' = << >> /\ pc' \in {"select", "ended"}
      BY <1>5 DEF OpenFails, NothingNew, PassOver, Refuse, CopyEnds, CopyBreaks, Finish
    <2>2. first' \in BOOLEAN
      BY <1>5 DEF OpenFails, NothingNew, PassOver, Refuse, CopyEnds, CopyBreaks, Finish
    <2>3. timer' \in {"off", "armed", "fired"}
      BY <1>5 DEF OpenFails, NothingNew, PassOver, Refuse, CopyEnds, CopyBreaks, Finish
    <2> QED
      BY <1>0, <2>1, <2>2, <2>3
  <1>6. CASE UNCHANGED vars
    BY <1>6 DEF vars
  <1> QED
    BY <1>1, <1>2, <1>3, <1>4, <1>5, <1>6, <1>7, <1>8 DEF Next, Subscriber, Download

\* Inv holds of every state.
THEOREM Invariance == SafeSpec => []Inv
  BY InitInv, ServeStep, CopyStep, QuietStep, PTL DEF SafeSpec

\* No byte of the remote denylist is missing, repeated or out of order in the
\* local file.
THEOREM Prefix == SafeSpec => []LocalIsPrefix
  <1>1. Inv => LocalIsPrefix
    BY DEF Inv
  <1> QED
    BY <1>1, Invariance, PTL
=============================================================================
