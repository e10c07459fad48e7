----------------------------- MODULE GateProofs ------------------------------
(* Proofs about Blocker and Gate, for any files, rules, callers and calls.  *)
EXTENDS Gate, TLAPS

-----------------------------------------------------------------------------
(* The Blocker.                                                            *)

LEMMA BlockerStarts == BlockerInit => BlockerInv
  BY TreesAssumption DEF BlockerInit, BlockerInv, BlockerTypeOK, Covered, Passed,
     Accounted, FailsClosed, Serving, Handle

\* The walk lists what it passes.
LEMMA WalkKeeps ==
  ASSUME BlockerInv, Visit \/ WalkEnds \/ Vanished \/ Unreadable \/ Listed
  PROVE  BlockerInv'
<1> USE DEF BlockerInv, Handle, Serving
<1>1. pc = "walk" /\ parsed = << >>
  BY DEF Covered, Visit, WalkEnds, Vanished, Unreadable, Listed, AtEntry, Walking
<1>2. BlockerTypeOK'
  <2>1. CASE Visit
    <3>1. Here.kind = "deny" => Here.path \in DOMAIN content
      BY <2>1, TreesAssumption DEF Visit, AtEntry, Walking, Here, BlockerTypeOK
    <3>2. files' \in Seq(DOMAIN content) /\ Len(files) <= Len(files')
      <4>1. CASE Here.kind = "deny"
        <5>1. files' = Append(files, Here.path) BY <2>1, <4>1 DEF Visit
        <5> DEFINE S == DOMAIN content  p == Here.path
        <5>2. p \in S /\ files \in Seq(S) BY <3>1, <4>1 DEF BlockerTypeOK
        <5> HIDE DEF S, p
        <5>3. Append(files, p) \in Seq(S) /\ Len(Append(files, p)) = Len(files) + 1
              /\ Len(files) \in Nat
          BY <5>2
        <5> QED BY <5>1, <5>3 DEF S, p
      <4>2. CASE Here.kind # "deny"
        <5>1. files' = files BY <2>1, <4>2 DEF Visit
        <5> QED BY <5>1 DEF BlockerTypeOK
      <4> QED BY <4>1, <4>2
    <3>3. at' \in (Nat \ {0}) \X (Nat \ {0})
      BY <2>1 DEF Visit, BlockerTypeOK
    <3> QED BY <2>1, <3>2, <3>3 DEF Visit, listVars, BlockerTypeOK
  <2>2. CASE WalkEnds \/ Vanished
    <3>1. WalkReturns BY <2>2 DEF WalkEnds, Vanished
    <3>2. at[1] \in Nat /\ at[2] \in Nat /\ ended \in Seq(Nat) BY DEF BlockerTypeOK
    <3>3. ended' \in Seq(Nat) /\ at' \in (Nat \ {0}) \X (Nat \ {0})
      BY <3>1, <3>2 DEF WalkReturns
    <3> QED BY <3>1, <3>3 DEF WalkReturns, listVars, BlockerTypeOK
  <2>3. CASE Unreadable \/ Listed
    BY <2>3 DEF Unreadable, Listed, walkVars, listVars, BlockerTypeOK
  <2> QED BY <2>1, <2>2, <2>3
<1>3. parsed' = << >> /\ live' = live /\ denylists' = denylists /\ errors' = errors
      /\ toClose' = toClose /\ pc' \in {"walk", "open", "failed"}
  BY <1>1 DEF Visit, WalkEnds, Vanished, WalkReturns, Unreadable, Listed, walkVars, listVars,
              AtEntry, Walking
<1>4. live = {} /\ denylists = {} /\ errors = 0
  BY <1>1 DEF BlockerTypeOK, Covered
<1>5. Accounted' /\ FailsClosed'
  BY <1>1, <1>3, <1>4 DEF Accounted, FailsClosed
<1>6. Covered'
  <2>0. at[1] \in Nat /\ at[2] \in Nat /\ ended \in Seq(Nat) /\ Len(ended) + 1 = at[1]
    BY DEF BlockerTypeOK, Covered
  <2>1. Range(files) \subseteq Range(files') /\ tree' = tree
    <3>1. CASE Visit
      <4>1. files' = files \/ files' = Append(files, Here.path) BY <3>1 DEF Visit
      <4>2. files \in Seq(DOMAIN content) BY DEF BlockerTypeOK
      <4>3. \A p : LET q == Append(files, p) IN
              DOMAIN files \subseteq DOMAIN q /\ \A i \in DOMAIN files : q[i] = files[i]
        BY <4>2
      <4>4. DOMAIN files \subseteq DOMAIN files' /\ \A i \in DOMAIN files : files'[i] = files[i]
        BY <4>1, <4>3
      <4> QED BY <3>1, <4>4 DEF Visit, Range
    <3>2. CASE ~Visit
      BY <3>2 DEF WalkEnds, Vanished, WalkReturns, Unreadable, Listed, walkVars, Range
    <3> QED BY <3>1, <3>2
  <2>2. ASSUME NEW d \in DOMAIN tree, NEW n \in DOMAIN tree[d], Passed(d, n)',
               tree[d][n].kind = "deny"
        PROVE  tree[d][n].path \in Range(files')
    <3>0. d \in Nat /\ n \in Nat /\ n <= Len(tree[d]) /\ d <= Len(tree)
      BY TreesAssumption DEF BlockerTypeOK
    <3>1. CASE Passed(d, n) BY <2>1, <2>2, <3>1 DEF Covered
    <3>2. CASE Visit
      <4>1. at' = <<at[1], at[2] + 1>> /\ ended' = ended BY <3>2 DEF Visit
      <4>2. CASE d = at[1] /\ n = at[2]
        <5>1. files' = Append(files, tree[d][n].path)
          BY <2>2, <3>2, <4>2 DEF Visit, Here
        <5>2. files \in Seq(DOMAIN content) BY DEF BlockerTypeOK
        <5>3. LET q == Append(files, tree[d][n].path) IN
                Len(files) + 1 \in DOMAIN q /\ q[Len(files) + 1] = tree[d][n].path
          BY <5>2
        <5> QED BY <5>1, <5>3 DEF Range
      <4>3. CASE ~(d = at[1] /\ n = at[2])
        <5>1. at'[1] = at[1] /\ at'[2] = at[2] + 1 BY <4>1
        <5>2. Passed(d, n) BY <2>0, <2>2, <3>0, <4>1, <4>3, <5>1 DEF Passed
        <5> QED BY <3>1, <5>2
      <4> QED BY <4>2, <4>3
    <3>3. CASE WalkEnds \/ Vanished
      <4>1. ended' = Append(ended, at[2]) /\ at' = <<at[1] + 1, 1>>
        BY <3>3 DEF WalkEnds, Vanished, WalkReturns
      <4>2. Len(ended') = Len(ended) + 1 /\ ended'[Len(ended) + 1] = at[2]
            /\ \A e \in 1 .. Len(ended) : ended'[e] = ended[e]
        BY <2>0, <4>1
      <4>3. CASE d <= Len(ended)
        <5>1. d \in 1 .. Len(ended) BY <2>0, <3>0, <4>3, TreesAssumption DEF BlockerTypeOK
        <5>2. d # at'[1] BY <2>0, <3>0, <4>1, <4>3
        <5>3. n < ended'[d] BY <2>2, <5>2 DEF Passed
        <5>4. Passed(d, n) BY <4>2, <4>3, <5>1, <5>3 DEF Passed
        <5> QED BY <3>1, <5>4
      <4>4. CASE d = Len(ended) + 1
        <5>1. d # at'[1] BY <2>0, <4>1, <4>4
        <5>2. d = at[1] /\ n < at[2] BY <2>0, <2>2, <4>2, <4>4, <5>1 DEF Passed
        <5>3. Passed(d, n) BY <5>2 DEF Passed
        <5> QED BY <3>1, <5>3
      <4>5. CASE d > Len(ended) + 1
        <5>1. n < at'[2] BY <2>0, <2>2, <3>0, <4>2, <4>5 DEF Passed
        <5> QED BY <3>0, <4>1, <5>1, TreesAssumption DEF BlockerTypeOK
      <4> QED BY <2>0, <3>0, <4>3, <4>4, <4>5
    <3>4. CASE Unreadable \/ Listed
      BY <2>2, <3>1, <3>4 DEF Unreadable, Listed, walkVars, Passed
    <3> QED BY <3>2, <3>3, <3>4
  <2>3. Len(ended') + 1 = at'[1]
    BY <2>0 DEF Visit, WalkEnds, Vanished, WalkReturns, Unreadable, Listed, walkVars
  <2>4. pc' \notin {"walk", "failed"} => Len(tree) <= Len(ended')
    <3>0. Len(tree) \in Nat BY TreesAssumption DEF BlockerTypeOK
    <3>1. CASE Listed BY <2>0, <3>0, <3>1 DEF Listed, walkVars
    <3>2. CASE ~Listed
      BY <1>1, <3>2 DEF Visit, WalkEnds, Vanished, WalkReturns, Unreadable, AtEntry, Walking
    <3> QED BY <3>1, <3>2
  <2> QED BY <1>3, <1>4, <2>1, <2>2, <2>3, <2>4 DEF Covered
<1> QED BY <1>2, <1>5, <1>6

\* A file that is opened is in the map, instead of one of the same path.
LEMMA OpenKeeps == ASSUME BlockerInv, Open PROVE BlockerInv'
<1> USE DEF BlockerInv, Handle, Serving, Passed, Open, Opening, Newest, walkVars
<1>0. /\ parsed' \in Seq(Nat) /\ Len(parsed') = Newest
      /\ DOMAIN parsed' = Handle \cup {Newest} /\ Newest \in Nat
  BY DEF BlockerTypeOK
<1>1. BlockerTypeOK'
  <2>1. toClose = {} BY DEF Accounted
  <2>2. denylists' \subseteq Handle \cup {Newest} BY DEF BlockerTypeOK
  <2> QED BY <1>0, <2>1, <2>2 DEF BlockerTypeOK
<1>2. Covered'
  <2>1. ASSUME NEW n \in DOMAIN parsed'
        PROVE  files[n] \in {files[i] : i \in denylists'} \cup broken'
    <3>1. CASE n = Newest BY <3>1
    <3>2. CASE n \in Handle
      <4>1. CASE files[n] = files[Newest] BY <4>1
      <4> QED BY <3>2, <4>1 DEF Covered
    <3> QED BY <3>1, <3>2 DEF BlockerTypeOK
  <2> QED BY <2>1 DEF Covered, BlockerTypeOK
<1>3. Accounted'
  <2>1. ASSUME NEW i \in live'
        PROVE  i \in denylists' \/ \E j \in denylists' : j > i /\ files[j] = files[i]
    <3>1. CASE i = Newest BY <3>1
    <3>2. CASE i \in live
      <4>1. Newest > i BY <3>2 DEF BlockerTypeOK
      <4>2. CASE files[i] = files[Newest] BY <4>1, <4>2
      <4> QED BY <3>2, <4>2 DEF Accounted
    <3> QED BY <3>1, <3>2
  <2> QED BY <2>1 DEF Accounted
<1>4. FailsClosed' BY DEF FailsClosed
<1> QED BY <1>1, <1>2, <1>3, <1>4

\* The rest of NewBlocker.
LEMMA StartKeeps == ASSUME BlockerInv, OpenFails \/ Opened PROVE BlockerInv'
<1> USE DEF BlockerInv, Handle, Serving, Passed, walkVars, listVars
<1>1. CASE OpenFails
  <2> USE <1>1 DEF OpenFails, Opening, Newest
  <2>1. BlockerTypeOK' BY DEF BlockerTypeOK
  <2>2. DOMAIN parsed' = Handle \cup {Newest} /\ Len(parsed') = Len(parsed) + 1
    BY DEF BlockerTypeOK
  <2>4. Covered'
    <3>1. \A d \in DOMAIN tree : \A n \in DOMAIN tree[d] :
            Passed(d, n)' /\ tree[d][n].kind = "deny" => tree[d][n].path \in Range(files)
      BY DEF Covered, Passed
    <3>2. ASSUME NEW n \in Handle \cup {Newest}
          PROVE  files[n] \in {files[i] : i \in denylists} \cup broken'
      BY DEF Covered
    <3>3. /\ errors' <= Len(parsed')
          /\ denylists' = {} <=> errors' = Len(parsed')
      BY <2>2 DEF Covered, BlockerTypeOK
    <3> QED BY <2>2, <3>1, <3>2, <3>3 DEF Covered
  <2>3. Accounted' /\ FailsClosed' BY DEF Accounted, FailsClosed
  <2> QED BY <2>1, <2>3, <2>4
<1>2. CASE Opened
  <2> USE <1>2 DEF Opened
  <2>1. BlockerTypeOK' BY DEF BlockerTypeOK
  <2>2. Covered' BY DEF Covered, BlockerTypeOK
  <2>3. Accounted' BY DEF Accounted
  <2>4. FailsClosed'
    <3>1. /\ denylists = {} <=> errors = Len(files)
          /\ denylists = {} => live = {}
      BY DEF Covered, Accounted, BlockerTypeOK
    <3>2. errors \in Nat /\ Len(files) \in Nat /\ (files # << >> => Len(files) > 0)
      BY DEF BlockerTypeOK
    <3> QED BY <3>1, <3>2 DEF FailsClosed
  <2> QED BY <2>1, <2>2, <2>3, <2>4
<1> QED BY <1>1, <1>2

\* What does not change which Denylists there are.
LEMMA WorkKeeps ==
  ASSUME BlockerInv,
         \/ \E i \in Handle : Parse(i) \/ FollowerEnds(i)
         \/ Close \/ CloseReturns \/ \E i \in toClose : CloseDenylist(i)
  PROVE  BlockerInv'
<1> USE DEF BlockerInv, Handle, Serving, Passed, walkVars, listVars
<1>1. ASSUME NEW i \in Handle, Parse(i) PROVE BlockerInv'
  <2> USE <1>1 DEF Parse
  <2>0. DOMAIN parsed' = DOMAIN parsed /\ Len(parsed') = Len(parsed) BY DEF BlockerTypeOK
  <2>1. BlockerTypeOK'
    <3>1. parsed' \in Seq(Nat)
      <4>1. parsed \in Seq(Nat) /\ parsed[i] + 1 \in Nat BY DEF BlockerTypeOK
      <4> QED BY <4>1
    <3> QED BY <2>0, <3>1 DEF BlockerTypeOK
  <2>2. Covered'
    <3>1. pc # "walk" BY DEF BlockerTypeOK, Covered
    <3> QED BY <2>0, <3>1 DEF Covered
  <2>3. Accounted' /\ FailsClosed' BY DEF Accounted, FailsClosed
  <2> QED BY <2>1, <2>2, <2>3
<1>2. ASSUME NEW i \in Handle, FollowerEnds(i) PROVE BlockerInv'
  <2> USE <1>2 DEF FollowerEnds
  <2>1. BlockerTypeOK' BY DEF BlockerTypeOK
  <2>2. Covered' BY DEF Covered
  <2>3. Accounted' BY DEF Accounted
  <2>4. FailsClosed' BY DEF FailsClosed
  <2> QED BY <2>1, <2>2, <2>3, <2>4
<1>3. CASE Close
  BY <1>3 DEF Close, BlockerTypeOK, Covered, Accounted, FailsClosed
<1>4. CASE CloseReturns
  BY <1>4 DEF CloseReturns, BlockerTypeOK, Covered, Accounted, FailsClosed
<1>5. ASSUME NEW i \in toClose, CloseDenylist(i) PROVE BlockerInv'
  <2> USE <1>5 DEF CloseDenylist
  <2>1. BlockerTypeOK' BY DEF BlockerTypeOK
  <2>2. Covered' BY DEF Covered
  <2>3. Accounted' BY DEF Accounted
  <2>4. FailsClosed' BY DEF FailsClosed
  <2> QED BY <2>1, <2>2, <2>3, <2>4
<1> QED BY <1>1, <1>2, <1>3, <1>4, <1>5

-----------------------------------------------------------------------------
(* The calls.                                                              *)

\* A step of the Blocker, seen from a call in progress: the Denylists stay
\* the same, and each has all the rules it had.
LEMMA BlockerStepsSeen ==
  ASSUME Inv, MakeBlocker \/ Followers \/ Close \/ Closing, Serving
  PROVE  /\ Serving'
         /\ UNCHANGED <<content, files, denylists>>
         /\ Len(parsed') = Len(parsed)
         /\ Handle' = Handle
         /\ \A i \in Handle : parsed[i] <= parsed'[i]
<1> USE DEF Serving, Handle, walkVars, listVars
<1>1. BlockerTypeOK BY DEF Inv, TypeOK
<1>2. ~MakeBlocker
  BY DEF MakeBlocker, Visit, WalkEnds, Vanished, Unreadable, Listed, Open, OpenFails,
         Opened, Opening, AtEntry, Walking
<1>3. ASSUME NEW i \in Handle, Parse(i) 
      PROVE  /\ pc' = pc
             /\ UNCHANGED <<content, files, denylists>>
             /\ Len(parsed') = Len(parsed)
             /\ DOMAIN parsed' = DOMAIN parsed
             /\ \A j \in Handle : parsed[j] <= parsed'[j]
  BY <1>1, <1>3 DEF Parse, BlockerTypeOK
<1> QED BY <1>1, <1>2, <1>3 DEF Followers, FollowerEnds, Close, Closing, CloseReturns,
                                CloseDenylist, BlockerTypeOK
\* What was found stays found while the Blocker works.
LEMMA BlockerStepKeepsCalls ==
  ASSUME Inv, BlockerStep
  PROVE  Inv'
<1> USE DEF Handle
<1>1. BlockerInv'
  BY WalkKeeps, OpenKeeps, StartKeeps, WorkKeeps
  DEF Inv, BlockerStep, MakeBlocker, Followers, Closing
<1>2. UNCHANGED <<inner, callVars>> /\ (MakeBlocker \/ Followers \/ Close \/ Closing)
  BY DEF BlockerStep
<1>3. CASE ~Serving
  <2>1. \A c \in Callers : stage[c] = "idle" BY <1>3 DEF Inv, CallOK
  <2>2. \A c \in Callers : passed[c] = {} /\ refused[c] = {} /\ asked[c] = {} /\ next[c] = 1
    BY <2>1 DEF Inv, CallOK
  <2>3. TypeOK' BY <1>1, <1>2, <2>2 DEF Inv, TypeOK, callVars, BlockerInv
  <2>4. \A c \in Callers : CallOK(c)' BY <1>2, <2>1, <2>2 DEF CallOK, callVars
  <2>5. NoLeak' /\ NoFalseRefusal' BY <1>2, <2>2 DEF NoLeak, NoFalseRefusal, callVars
  <2> QED BY <1>1, <2>3, <2>4, <2>5 DEF Inv
<1>4. CASE Serving
  <2>1. /\ Serving'
        /\ content' = content /\ files' = files /\ denylists' = denylists
        /\ Len(parsed') = Len(parsed)
        /\ Handle' = Handle
        /\ \A i \in Handle : parsed[i] <= parsed'[i]
    BY <1>2, <1>4, BlockerStepsSeen
  <2>2. TypeOK' BY <1>1, <1>2, <2>1 DEF Inv, TypeOK, callVars, BlockerInv
  <2>3. /\ parsed \in Seq(Nat) /\ parsed' \in Seq(Nat)
        /\ begun \in [Callers -> Seq(Nat)] /\ denylists \subseteq Handle
    BY <1>1 DEF Inv, TypeOK, BlockerInv, BlockerTypeOK
  <2>4. \A c, i, item : Before(c, i, item)' = Before(c, i, item)
    BY <1>2, <2>1 DEF Before, Lines, callVars
  <2>5. ASSUME NEW c \in Callers PROVE CallOK(c)'
    <3>1. CallOK(c) BY DEF Inv
    <3>2. ASSUME NEW i \in Handle, stage[c] # "idle" PROVE begun[c][i] <= parsed'[i]
      <4>1. begun[c][i] <= parsed[i] /\ Len(begun[c]) = Len(parsed) BY <3>1, <3>2 DEF CallOK
      <4>2. begun[c][i] \in Nat /\ parsed[i] \in Nat /\ parsed'[i] \in Nat
        BY <2>1, <2>3, <4>1
      <4> QED BY <2>1, <4>1, <4>2
    <3>3. Item(c)' = Item(c) BY <1>2 DEF Item, callVars
    <3> QED BY <1>2, <2>1, <2>4, <3>1, <3>2, <3>3 DEF CallOK, callVars
  <2>6. \A i \in Handle : Book(i) \subseteq Book(i)'
    <3> SUFFICES ASSUME NEW i \in Handle PROVE Book(i) \subseteq Book(i)' OBVIOUS
    <3>1. parsed[i] \in Nat /\ parsed'[i] \in Nat /\ parsed[i] <= parsed'[i] BY <2>1, <2>3
    <3> QED BY <2>1, <3>1 DEF Book, Lines
  <2>7. \A i \in denylists : \A item : About(i, item) \subseteq About(i, item)'
    BY <2>3, <2>6 DEF About
  <2>8. NoLeak'
    BY <1>2, <2>1, <2>4, <2>7 DEF NoLeak, MayPass, Allows, Inv, callVars
  <2>9. NoFalseRefusal'
    BY <1>2, <2>1, <2>7 DEF NoFalseRefusal, MayRefuse, Blocks, Inv, callVars
  <2> QED BY <1>1, <2>2, <2>5, <2>8, <2>9 DEF Inv
<1> QED BY <1>3, <1>4

\* A step of one call is none of the Blocker's or of another call's.
LEMMA CallStepsApart ==
  ASSUME Inv, NEW c \in Callers, UNCHANGED blockerVars, TypeOK', CallOK(c)',
         \A d \in Callers \ {c} :
           /\ stage'[d] = stage[d] /\ kind'[d] = kind[d] /\ want'[d] = want[d]
           /\ next'[d] = next[d] /\ asked'[d] = asked[d] /\ passed'[d] = passed[d]
           /\ refused'[d] = refused[d] /\ begun'[d] = begun[d],
         \A n \in passed'[c] : MayPass(c, want[c][n])',
         \A n \in refused'[c] : MayRefuse(want[c][n])'
  PROVE  Inv'
<1>1. BlockerInv'
  BY DEF Inv, BlockerInv, BlockerTypeOK, Covered, Passed, Accounted, FailsClosed, Serving,
         Handle, blockerVars, walkVars, listVars
<1>2. UNCHANGED <<content, pc, files, parsed, denylists>> /\ Handle' = Handle
  BY DEF blockerVars, walkVars, listVars, Handle
<1>3. ASSUME NEW d \in Callers \ {c} PROVE
        /\ \A i, item : Before(d, i, item)' = Before(d, i, item)
        /\ Item(d)' = Item(d)
  BY <1>2, <1>3 DEF Before, Lines, Item
<1>4. ASSUME NEW d \in Callers \ {c} PROVE CallOK(d)'
  BY <1>2, <1>3 DEF Inv, CallOK, Serving
<1>5. \A i, item : About(i, item)' = About(i, item)
  BY <1>2 DEF About, Book, Lines
<1>6. ASSUME NEW d \in Callers \ {c} PROVE
        /\ \A n \in passed'[d] : MayPass(d, want[d][n])'
        /\ \A n \in refused'[d] : MayRefuse(want[d][n])'
  <2>1. ASSUME NEW n \in passed[d] PROVE MayPass(d, want[d][n])'
    <3>1. MayPass(d, want[d][n]) BY DEF Inv, NoLeak
    <3>2. want'[d] = want[d] OBVIOUS
    <3> QED BY <1>2, <1>3, <1>5, <3>1, <3>2 DEF MayPass
  <2>2. ASSUME NEW n \in refused[d] PROVE MayRefuse(want[d][n])'
    <3>1. MayRefuse(want[d][n]) BY DEF Inv, NoFalseRefusal
    <3>2. want'[d] = want[d] OBVIOUS
    <3> QED BY <1>2, <1>5, <3>1, <3>2 DEF MayRefuse
  <2> QED BY <2>1, <2>2
<1> QED BY <1>1, <1>4, <1>6 DEF Inv, NoLeak, NoFalseRefusal
\* A call begins with nothing let through or refused.
LEMMA BeginKeeps ==
  ASSUME Inv, NEW c \in Callers, NEW how \in {"one", "many", "unchecked"},
         NEW items \in Seq(Items), how = "one" => Len(items) = 1, Begin(c, how, items)
  PROVE  Inv'
<1>0. /\ stage[c] = "idle" /\ passed[c] = {} /\ refused[c] = {} /\ next[c] = 1
      /\ asked[c] = {} /\ parsed \in Seq(Nat) /\ TypeOK
  BY DEF Inv, CallOK, Begin, TypeOK, BlockerTypeOK
<1>1. TypeOK'
  BY <1>0 DEF TypeOK, Begin, BlockerTypeOK, Handle, blockerVars, walkVars, listVars
<1>2. UNCHANGED <<pc, parsed>> /\ Serving
  BY DEF Begin, blockerVars, listVars
<1>3. CallOK(c)'
  <2>1. /\ begun'[c] = parsed /\ kind'[c] = how /\ want'[c] = items
        /\ stage'[c] = IF how = "unchecked" \/ items = << >> THEN "inner" ELSE "check"
        /\ next' = next /\ asked' = asked /\ passed' = passed /\ refused' = refused
    BY <1>0 DEF Begin, TypeOK
  <2>2. \A i \in Handle : parsed[i] <= parsed[i] BY <1>0 DEF Handle
  <2>3. items # << >> => 1 <= Len(items) OBVIOUS
  <2>4. items = << >> => Len(items) = 0 OBVIOUS
  <2> QED BY <1>0, <1>2, <2>1, <2>2, <2>3, <2>4 DEF CallOK, Handle, Serving
<1>4. passed'[c] = {} /\ refused'[c] = {} BY <1>0 DEF Begin
<1>5. UNCHANGED blockerVars BY DEF Begin
<1>6. \A d \in Callers \ {c} :
         /\ stage'[d] = stage[d] /\ kind'[d] = kind[d] /\ want'[d] = want[d]
         /\ next'[d] = next[d] /\ asked'[d] = asked[d] /\ passed'[d] = passed[d]
         /\ refused'[d] = refused[d] /\ begun'[d] = begun[d]
  BY <1>0 DEF Begin, TypeOK
<1> QED BY <1>1, <1>3, <1>4, <1>5, <1>6, CallStepsApart

LEMMA CallKeeps == ASSUME Inv, NEW c \in Callers, Call(c) PROVE Inv'
<1>1. \A k \in Items : <<k>> \in Seq(Items) /\ Len(<<k>>) = 1 OBVIOUS
<1>2. \A ks \in BoundedSeq(Cids, MaxKeys) : ks \in Seq(Items)
  <2>1. SUFFICES ASSUME NEW m \in 0 .. MaxKeys, NEW ks \in [1 .. m -> Cids]
                 PROVE  ks \in Seq(Items)
    BY DEF BoundedSeq, SeqOf
  <2> QED BY <2>1, GateAssumption DEF Items
<1>3. Cids \subseteq Items /\ Paths \subseteq Items BY DEF Items
<1>4. CASE \E ks \in BoundedSeq(Cids, MaxKeys) : Begin(c, "many", ks)
  BY <1>2, <1>4, BeginKeeps
<1>5. CASE \E k \in Items : Begin(c, "one", <<k>>) \/ Begin(c, "unchecked", <<k>>)
  BY <1>1, <1>5, BeginKeeps
<1> QED BY <1>3, <1>4, <1>5 DEF Call, GetBlock, AddBlock, GetBlocks, AddBlocks, DeleteBlock,
           Resolve, ResolveAsync, Publish, ResolveToLastNode, ResolvePath,
           ResolvePathComponents

LEMMA ReturnKeeps == ASSUME Inv, NEW c \in Callers, Return(c) PROVE Inv'
<1>0. TypeOK /\ CallOK(c) BY DEF Inv
<1>1. TypeOK'
  BY <1>0 DEF TypeOK, Return, BlockerTypeOK, Handle, blockerVars, walkVars, listVars
<1>2. /\ stage'[c] = "idle" /\ passed'[c] = {} /\ refused'[c] = {} /\ next'[c] = 1
      /\ asked'[c] = {}
  BY <1>0 DEF Return, TypeOK, CallOK
<1>3. CallOK(c)' BY <1>2 DEF CallOK
<1>5. UNCHANGED blockerVars BY DEF Return
<1>6. \A d \in Callers \ {c} :
         /\ stage'[d] = stage[d] /\ kind'[d] = kind[d] /\ want'[d] = want[d]
         /\ next'[d] = next[d] /\ asked'[d] = asked[d] /\ passed'[d] = passed[d]
         /\ refused'[d] = refused[d] /\ begun'[d] = begun[d]
  BY <1>0 DEF Return, TypeOK
<1> QED BY <1>1, <1>2, <1>3, <1>5, <1>6, CallStepsApart

\* An item is settled: refused for a rule that blocks it, or let through for
\* one that allows it or for want of any.
LEMMA SettleKeeps ==
  ASSUME Inv, NEW c \in Callers, NEW refuse \in BOOLEAN, stage[c] = "check",
         Settle(c, refuse), UNCHANGED <<blockerVars, inner, kind, want, begun>>,
         refuse => MayRefuse(Item(c)),
         ~refuse => MayPass(c, Item(c))
  PROVE  Inv'
<1>0. /\ TypeOK /\ CallOK(c) /\ next[c] \in Nat \ {0} /\ Len(want[c]) \in Nat
      /\ next[c] <= Len(want[c]) /\ kind[c] # "unchecked"
  BY DEF Inv, CallOK, TypeOK
<1>1. TypeOK'
  BY <1>0 DEF TypeOK, Settle, BlockerTypeOK, Handle, blockerVars, walkVars, listVars
<1>2. /\ passed'[c] = IF refuse THEN passed[c] ELSE passed[c] \cup {next[c]}
      /\ refused'[c] = IF refuse THEN refused[c] \cup {next[c]} ELSE refused[c]
      /\ next'[c] = next[c] + 1
      /\ asked'[c] = {}
      /\ stage'[c] = IF refuse /\ kind[c] = "one" THEN "refused"
                     ELSE IF next[c] < Len(want[c]) THEN "check" ELSE "inner"
  BY <1>0 DEF Settle, TypeOK
<1>3. UNCHANGED <<pc, parsed, files, content, denylists>> /\ kind' = kind /\ want' = want
      /\ begun' = begun
  BY DEF blockerVars, walkVars, listVars
<1>4. CallOK(c)'
  <2>1. passed[c] = (1 .. next[c] - 1) \ refused[c] BY <1>0 DEF CallOK
  <2>2. refused[c] \subseteq 1 .. next[c] - 1
    BY <1>0 DEF CallOK
  <2>3. passed'[c] = (1 .. next'[c] - 1) \ refused'[c]
    BY <1>0, <1>2, <2>1, <2>2
  <2> QED BY <1>0, <1>2, <1>3, <2>3 DEF CallOK, Serving, Handle
<1>5. \A i, item : About(i, item)' = About(i, item) /\ Before(c, i, item)' = Before(c, i, item)
  BY <1>3 DEF About, Before, Book, Lines
<1>6. ASSUME NEW n \in passed'[c] PROVE MayPass(c, want[c][n])'
  <2>1. MayPass(c, want[c][n])
    BY <1>2 DEF Inv, NoLeak, Item
  <2> QED BY <1>3, <1>5, <2>1 DEF MayPass
<1>7. ASSUME NEW n \in refused'[c] PROVE MayRefuse(want[c][n])'
  <2>1. MayRefuse(want[c][n])
    BY <1>2 DEF Inv, NoFalseRefusal, Item
  <2> QED BY <1>3, <1>5, <2>1 DEF MayRefuse
<1>8. \A d \in Callers \ {c} :
         /\ stage'[d] = stage[d] /\ kind'[d] = kind[d] /\ want'[d] = want[d]
         /\ next'[d] = next[d] /\ asked'[d] = asked[d] /\ passed'[d] = passed[d]
         /\ refused'[d] = refused[d] /\ begun'[d] = begun[d]
  BY <1>0, <1>3 DEF Settle, TypeOK
<1> QED BY <1>1, <1>4, <1>6, <1>7, <1>8, CallStepsApart
\* The answer of a Denylist is for one of its rules, or it has none.
LEMMA AskKeeps == ASSUME Inv, NEW c \in Callers, Ask(c) PROVE Inv'
<1>0. /\ TypeOK /\ CallOK(c) /\ stage[c] = "check" /\ denylists \subseteq Handle
      /\ parsed \in Seq(Nat) /\ begun \in [Callers -> Seq(Nat)]
  BY DEF Inv, Ask, TypeOK, BlockerTypeOK
<1>1. PICK i \in denylists \ asked[c] : \E status \in Answers(i, Item(c)) :
         IF status = "notfound"
         THEN /\ asked' = [asked EXCEPT ![c] = @ \cup {i}]
              /\ UNCHANGED <<stage, next, passed, refused>>
         ELSE Settle(c, ToError(status))
  BY DEF Ask
<1>2. PICK status \in Answers(i, Item(c)) :
         IF status = "notfound"
         THEN /\ asked' = [asked EXCEPT ![c] = @ \cup {i}]
              /\ UNCHANGED <<stage, next, passed, refused>>
         ELSE Settle(c, ToError(status))
  BY <1>1
<1>3. UNCHANGED <<blockerVars, inner, kind, want, begun>> BY DEF Ask
<1>4. CASE status = "notfound"
  <2>1. About(i, Item(c)) = {} /\ Item(c) \notin Malformed
    BY <1>2, <1>4 DEF Answers
  <2>2. Before(c, i, Item(c)) \subseteq About(i, Item(c))
    <3>1. Serving /\ begun[c][i] <= parsed[i] /\ Len(begun[c]) = Len(parsed)
      BY <1>0 DEF CallOK
    <3>2. begun[c][i] \in Nat /\ parsed[i] \in Nat
      BY <1>0, <3>1 DEF Handle
    <3> QED BY <3>1, <3>2 DEF Before, About, Book, Lines
  <2>3. TypeOK'
    <3>1. Handle' = Handle /\ BlockerTypeOK'
      BY <1>0, <1>3 DEF TypeOK, BlockerTypeOK, Handle, blockerVars, walkVars, listVars
    <3>2. asked' \in [Callers -> SUBSET Handle]
      <4>1. asked' = [asked EXCEPT ![c] = asked[c] \cup {i}] BY <1>2, <1>4
      <4>2. asked \in [Callers -> SUBSET Handle] /\ i \in Handle BY <1>0 DEF TypeOK
      <4> QED BY <4>1, <4>2
    <3> QED BY <1>0, <1>2, <1>3, <1>4, <3>1, <3>2 DEF TypeOK
  <2>4. asked'[c] = asked[c] \cup {i} /\ UNCHANGED <<stage, next, passed, refused>>
    BY <1>0, <1>2, <1>4 DEF TypeOK
  <2>5. UNCHANGED <<pc, parsed, files, content, denylists>>
    BY <1>3 DEF blockerVars, walkVars, listVars
  <2>6. \A j, item : About(j, item)' = About(j, item) /\ Before(c, j, item)' = Before(c, j, item)
    BY <1>3, <2>5 DEF About, Before, Book, Lines
  <2>7. Item(c)' = Item(c) BY <1>3, <2>4 DEF Item
  <2>8. CallOK(c)'
    BY <1>0, <1>3, <2>1, <2>2, <2>4, <2>5, <2>6, <2>7 DEF CallOK, Serving, Handle
  <2>9. ASSUME NEW n \in passed'[c] PROVE MayPass(c, want[c][n])'
    <3>1. MayPass(c, want[c][n]) BY <2>4 DEF Inv, NoLeak
    <3> QED BY <1>3, <2>5, <2>6, <3>1 DEF MayPass
  <2>10. ASSUME NEW n \in refused'[c] PROVE MayRefuse(want[c][n])'
    <3>1. MayRefuse(want[c][n]) BY <2>4 DEF Inv, NoFalseRefusal
    <3> QED BY <1>3, <2>5, <2>6, <3>1 DEF MayRefuse
  <2>11. \A d \in Callers \ {c} :
           /\ stage'[d] = stage[d] /\ kind'[d] = kind[d] /\ want'[d] = want[d]
           /\ next'[d] = next[d] /\ asked'[d] = asked[d] /\ passed'[d] = passed[d]
           /\ refused'[d] = refused[d] /\ begun'[d] = begun[d]
    BY <1>0, <1>2, <1>3, <1>4 DEF TypeOK
  <2> QED BY <1>3, <2>3, <2>8, <2>9, <2>10, <2>11, CallStepsApart
<1>5. CASE status # "notfound"
  <2>1. Settle(c, ToError(status)) BY <1>2, <1>5
  <2>2. CASE About(i, Item(c)) # {}
    <3>1. PICK rule \in About(i, Item(c)) :
            status = IF rule.allow THEN "allowed" ELSE "blocked"
      BY <2>2 DEF Answers
    <3>2. ToError(status) => MayRefuse(Item(c))
      BY <3>1 DEF ToError, MayRefuse, Blocks
    <3>3. ~ToError(status) => MayPass(c, Item(c))
      BY <3>1 DEF ToError, MayPass, Allows
    <3>4. ToError(status) \in BOOLEAN BY DEF ToError
    <3> HIDE DEF ToError
    <3> QED BY <1>0, <1>3, <2>1, <3>2, <3>3, <3>4, SettleKeeps
  <2>3. CASE About(i, Item(c)) = {}
    <3>1. ToError(status) /\ Item(c) \in Malformed
      BY <1>5, <2>3 DEF Answers, ToError
    <3>2. ToError(status) \in BOOLEAN /\ MayRefuse(Item(c)) BY <3>1 DEF ToError, MayRefuse
    <3> QED BY <1>0, <1>3, <2>1, <3>1, <3>2, SettleKeeps
  <2> QED BY <2>2, <2>3
<1> QED BY <1>4, <1>5

LEMMA AskedAllKeeps == ASSUME Inv, NEW c \in Callers, AskedAll(c) PROVE Inv'
<1>1. CallOK(c) /\ stage[c] = "check" BY DEF Inv, AskedAll
<1>2. \A i \in denylists : Before(c, i, Item(c)) = {} /\ Item(c) \notin Malformed
  BY <1>1 DEF CallOK, AskedAll
<1>3. MayPass(c, Item(c)) BY <1>2 DEF MayPass
<1> QED BY <1>1, <1>3, SettleKeeps DEF AskedAll

-----------------------------------------------------------------------------
(* The theorems.                                                           *)

LEMMA Starts == Init => Inv
<1> SUFFICES ASSUME Init PROVE Inv OBVIOUS
<1>1. BlockerInv BY BlockerStarts DEF Init
<1>2. TypeOK
  <2>1. << >> \in Seq(Items) /\ << >> \in Seq(Nat) OBVIOUS
  <2> QED BY <1>1, <2>1 DEF Init, TypeOK, BlockerInv
<1>3. \A c \in Callers : CallOK(c) BY DEF Init, CallOK
<1>4. NoLeak /\ NoFalseRefusal BY DEF Init, NoLeak, NoFalseRefusal
<1> QED BY <1>1, <1>2, <1>3, <1>4 DEF Inv

LEMMA Keeps == Inv /\ [Next]_vars => Inv'
<1> SUFFICES ASSUME Inv, [Next]_vars PROVE Inv' OBVIOUS
<1>1. CASE BlockerStep BY <1>1, BlockerStepKeepsCalls
<1>2. CASE CloseInner \/ UNCHANGED vars
  <2>1. UNCHANGED <<blockerVars, callVars>> /\ inner' \in {"open", "closed"}
    BY <1>2 DEF CloseInner, vars, Inv, TypeOK
  <2> USE DEF blockerVars, walkVars, listVars, callVars, Serving, Handle, Passed
  <2>2. BlockerInv'
    BY <2>1 DEF Inv, BlockerInv, BlockerTypeOK, Covered, Accounted, FailsClosed
  <2>3. TypeOK' BY <2>1, <2>2 DEF Inv, TypeOK, BlockerInv
  <2>4. \A c, i, item : About(i, item)' = About(i, item)
                       /\ Before(c, i, item)' = Before(c, i, item) /\ Item(c)' = Item(c)
    BY <2>1 DEF About, Before, Book, Lines, Item
  <2>5. \A c \in Callers : CallOK(c)' BY <2>1, <2>4 DEF Inv, CallOK
  <2>6. \A c, item : MayPass(c, item)' = MayPass(c, item) /\ MayRefuse(item)' = MayRefuse(item)
    BY <2>1, <2>4 DEF MayPass, MayRefuse
  <2>7. NoLeak' /\ NoFalseRefusal' BY <2>1, <2>6 DEF Inv, NoLeak, NoFalseRefusal
  <2> QED BY <2>2, <2>3, <2>5, <2>7 DEF Inv
<1>3. ASSUME NEW c \in Callers, Call(c) \/ Check(c) \/ Return(c) PROVE Inv'
  BY <1>3, CallKeeps, AskKeeps, AskedAllKeeps, ReturnKeeps DEF Check
<1> QED BY <1>1, <1>2, <1>3 DEF Next

\* The inductive invariant, and with it the types.
THEOREM Invariance == SafeSpec => []Inv
<1> QED BY Starts, Keeps, PTL DEF SafeSpec

\* No call lets through what a Denylist had when the call began, unless one
\* allows it: whatever the number of callers, Denylists and rules.
THEOREM Leakless == SafeSpec => []NoLeak
<1>1. Inv => NoLeak BY DEF Inv
<1> QED BY <1>1, Invariance, PTL

\* Nothing is refused without a rule that blocks it.
THEOREM Fair == SafeSpec => []NoFalseRefusal
<1>1. Inv => NoFalseRefusal BY DEF Inv
<1> QED BY <1>1, Invariance, PTL

\* The wrapped service is called with exactly what was not refused.
THEOREM Handover == SafeSpec => []RestHandedOver
<1>1. Inv => RestHandedOver
  <2> SUFFICES ASSUME Inv, NEW c \in Callers, stage[c] = "inner", kind[c] # "unchecked"
               PROVE  passed[c] = DOMAIN want[c] \ refused[c]
                      /\ (kind[c] = "one" => refused[c] = {})
    BY DEF RestHandedOver
  <2>1. /\ passed[c] = (1 .. next[c] - 1) \ refused[c] /\ next[c] = Len(want[c]) + 1
        /\ kind[c] = "one" => refused[c] = {}
    BY DEF Inv, CallOK
  <2>2. want[c] \in Seq(Items) BY DEF Inv, TypeOK
  <2>3. DOMAIN want[c] = 1 .. Len(want[c]) /\ Len(want[c]) \in Nat BY <2>2
  <2> QED BY <2>1, <2>3
<1> QED BY <1>1, Invariance, PTL

\* Every denylist file that a walk came to is asked, or failed to open.
THEOREM Enforcement == SafeSpec => []EveryFileEnforced
<1>1. Inv => EveryFileEnforced
  <2> SUFFICES ASSUME Inv, Serving, NEW d \in DOMAIN tree, NEW n \in DOMAIN tree[d],
                      Passed(d, n), tree[d][n].kind = "deny"
               PROVE  tree[d][n].path \in {files[i] : i \in denylists} \cup broken
    BY DEF EveryFileEnforced
  <2>1. tree[d][n].path \in Range(files) BY DEF Inv, BlockerInv, Covered
  <2>2. DOMAIN files = Handle
    BY DEF Inv, TypeOK, BlockerInv, BlockerTypeOK, Covered, Handle
  <2> QED BY <2>1, <2>2 DEF Range, Inv, BlockerInv, Covered
<1> QED BY <1>1, Invariance, PTL

\* A Blocker that lets everything pass is not made of files that all failed.
THEOREM Closedness == SafeSpec => []FailsClosed
<1>1. Inv => FailsClosed BY DEF Inv, BlockerInv
<1> QED BY <1>1, Invariance, PTL

\* Close leaves nothing open but what the map had lost before.
THEOREM Closure == SafeSpec => []ClosesAll
<1>1. Inv => ClosesAll BY DEF Inv, BlockerInv, Accounted, ClosesAll
<1> QED BY <1>1, Invariance, PTL
=============================================================================
