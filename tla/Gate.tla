-------------------------------- MODULE Gate --------------------------------
(***************************************************************************)
(* The wrappers (ipfs/blockservice.go, namesys.go, resolver.go) that ask a *)
(* Blocker before they hand a call over to the service they wrap.  A call  *)
(* asks about one item after the other, and of each item one Denylist      *)
(* after the other, in the random order of a map iteration, while their    *)
(* goroutines parse lines and any of them may end or be closed.            *)
(***************************************************************************)
EXTENDS Blocker

CONSTANTS
  Callers,     \* goroutines that call the wrappers
  Cids, Paths, \* what they ask about
  Malformed,   \* the paths that a lookup cannot make sense of
  MaxKeys      \* bound: CIDs in one GetBlocks, blocks in one AddBlocks

ASSUME GateAssumption == Malformed \subseteq Paths /\ MaxKeys \in Nat

VARIABLES
  inner,       \* whether the wrapped block service is "open" or "closed"
  stage,       \* of each caller: "idle", "check", "inner" (in the wrapped
               \* service) or "refused"
  kind,        \* "one", "many" or "unchecked"
  want,        \* the items the call is about
  next,        \* which of them is looked up
  asked,       \* the Denylists that said "not found" of it
  passed,      \* those of them that were let through, by position ...
  refused,     \* ... and those that were not
  begun        \* history: parsed, when the call began

callVars == <<stage, kind, want, next, asked, passed, refused, begun>>
vars == <<blockerVars, inner, callVars>>

Items == Cids \cup Paths

TypeOK ==
  /\ BlockerTypeOK
  /\ inner \in {"open", "closed"}
  /\ stage \in [Callers -> {"idle", "check", "inner", "refused"}]
  /\ kind \in [Callers -> {"one", "many", "unchecked"}]
  /\ want \in [Callers -> Seq(Items)]
  /\ next \in [Callers -> Nat \ {0}]
  /\ asked \in [Callers -> SUBSET Handle]
  /\ passed \in [Callers -> SUBSET Nat]
  /\ refused \in [Callers -> SUBSET Nat]
  /\ begun \in [Callers -> Seq(Nat)]

Init ==
  /\ BlockerInit
  /\ inner = "open"
  /\ stage = [c \in Callers |-> "idle"]
  /\ kind = [c \in Callers |-> "one"]
  /\ want = [c \in Callers |-> << >>]
  /\ next = [c \in Callers |-> 1]
  /\ asked = [c \in Callers |-> {}]
  /\ passed = [c \in Callers |-> {}]
  /\ refused = [c \in Callers |-> {}]
  /\ begun = [c \in Callers |-> << >>]

-----------------------------------------------------------------------------
(* The calls.                                                              *)

Begin(c, how, items) ==
  /\ Serving
  /\ stage[c] = "idle"
  /\ stage' = [stage EXCEPT ![c] = IF how = "unchecked" \/ items = << >>
                                   THEN "inner" ELSE "check"]
  /\ kind' = [kind EXCEPT ![c] = how]
  /\ want' = [want EXCEPT ![c] = items]
  /\ begun' = [begun EXCEPT ![c] = parsed]
  /\ UNCHANGED <<blockerVars, inner, next, asked, passed, refused>>

\* BlockService.
GetBlock(c)    == \E k \in Cids : Begin(c, "one", <<k>>)
AddBlock(c)    == \E k \in Cids : Begin(c, "one", <<k>>)
GetBlocks(c)   == \E ks \in BoundedSeq(Cids, MaxKeys) : Begin(c, "many", ks)
AddBlocks(c)   == \E ks \in BoundedSeq(Cids, MaxKeys) : Begin(c, "many", ks)
DeleteBlock(c) == \E k \in Cids : Begin(c, "unchecked", <<k>>)

\* NameSystem.
Resolve(c)      == \E p \in Paths : Begin(c, "one", <<p>>)
ResolveAsync(c) == \E p \in Paths : Begin(c, "one", <<p>>)
Publish(c)      == \E p \in Paths : Begin(c, "unchecked", <<p>>)

\* Resolver.
ResolveToLastNode(c)     == \E p \in Paths : Begin(c, "one", <<p>>)
ResolvePath(c)           == \E p \in Paths : Begin(c, "one", <<p>>)
ResolvePathComponents(c) == \E p \in Paths : Begin(c, "one", <<p>>)

-----------------------------------------------------------------------------
(* Blocker.IsCidBlocked and IsPathBlocked.                                 *)

Item(c) == want[c][next[c]]

About(i, item) == {rule \in Book(i) : item \in rule.covers}

\* What Denylist i may answer.  It has several rules about an item only if
\* they differ in how they are written; which of them answers is its matter.
Answers(i, item) ==
  IF About(i, item) # {}
  THEN {IF rule.allow THEN "allowed" ELSE "blocked" : rule \in About(i, item)}
  ELSE {IF item \in Malformed THEN "errored" ELSE "notfound"}

\* Mutant: whatever is found is an error.
ToErrorFound(status) == status # "notfound"

\* StatusResponse.ToError.
ToError(status) == status \in {"blocked", "errored"}

\* Mutant: the first refusal ends a call about many, too.
SettleBreak(c, refuse) ==
  /\ passed' = [passed EXCEPT ![c] = IF refuse THEN @ ELSE @ \cup {next[c]}]
  /\ refused' = [refused EXCEPT ![c] = IF refuse THEN @ \cup {next[c]} ELSE @]
  /\ next' = [next EXCEPT ![c] = @ + 1]
  /\ asked' = [asked EXCEPT ![c] = {}]
  /\ stage' = [stage EXCEPT ![c] =
                 IF refuse /\ kind[c] = "one" THEN "refused"
                 ELSE IF ~refuse /\ next[c] < Len(want[c]) THEN "check" ELSE "inner"]

\* The item is let through or refused.  A call about one item ends with a
\* refusal; one about many leaves it out and goes on, and then makes the call.
Settle(c, refuse) ==
  /\ passed' = [passed EXCEPT ![c] = IF refuse THEN @ ELSE @ \cup {next[c]}]
  /\ refused' = [refused EXCEPT ![c] = IF refuse THEN @ \cup {next[c]} ELSE @]
  /\ next' = [next EXCEPT ![c] = @ + 1]
  /\ asked' = [asked EXCEPT ![c] = {}]
  /\ stage' = [stage EXCEPT ![c] =
                 IF refuse /\ kind[c] = "one" THEN "refused"
                 ELSE IF next[c] < Len(want[c]) THEN "check" ELSE "inner"]

\* Mutant: the answer of the first Denylist that is asked is final.
AskOne(c) ==
  /\ stage[c] = "check"
  /\ \E i \in denylists \ asked[c] : \E status \in Answers(i, Item(c)) :
       Settle(c, ToError(status))
  /\ UNCHANGED <<blockerVars, inner, kind, want, begun>>

\* Mutant: a Denylist that said "not found" may be asked again.
AskAgain(c) ==
  /\ stage[c] = "check"
  /\ \E i \in denylists \ asked[c] : \E status \in Answers(i, Item(c)) :
       IF status = "notfound" THEN UNCHANGED <<stage, next, asked, passed, refused>>
       ELSE Settle(c, ToError(status))
  /\ UNCHANGED <<blockerVars, inner, kind, want, begun>>

\* One Denylist is asked; "not found" makes the next one be asked.
Ask(c) ==
  /\ stage[c] = "check"
  /\ \E i \in denylists \ asked[c] : \E status \in Answers(i, Item(c)) :
       IF status = "notfound"
       THEN /\ asked' = [asked EXCEPT ![c] = @ \cup {i}]
            /\ UNCHANGED <<stage, next, passed, refused>>
       ELSE Settle(c, ToError(status))
  /\ UNCHANGED <<blockerVars, inner, kind, want, begun>>

\* None is left to ask.
AskedAll(c) ==
  /\ stage[c] = "check"
  /\ denylists \subseteq asked[c]
  /\ Settle(c, FALSE)
  /\ UNCHANGED <<blockerVars, inner, kind, want, begun>>

\* The wrapped service, or the refusal, returns to the caller.
Return(c) ==
  /\ stage[c] \in {"inner", "refused"}
  /\ stage' = [stage EXCEPT ![c] = "idle"]
  /\ want' = [want EXCEPT ![c] = << >>]
  /\ next' = [next EXCEPT ![c] = 1]
  /\ passed' = [passed EXCEPT ![c] = {}]
  /\ refused' = [refused EXCEPT ![c] = {}]
  /\ begun' = [begun EXCEPT ![c] = << >>]
  /\ UNCHANGED <<blockerVars, inner, kind, asked>>

\* BlockService.Close: the Blocker first, then the wrapped service.
CloseInner ==
  /\ pc = "closed"
  /\ inner = "open"
  /\ inner' = "closed"
  /\ UNCHANGED <<blockerVars, callVars>>

-----------------------------------------------------------------------------
Call(c) ==
  \/ GetBlock(c) \/ GetBlocks(c) \/ AddBlock(c) \/ AddBlocks(c) \/ DeleteBlock(c)
  \/ Resolve(c) \/ ResolveAsync(c) \/ Publish(c)
  \/ ResolveToLastNode(c) \/ ResolvePath(c) \/ ResolvePathComponents(c)

BlockerStep ==
  /\ MakeBlocker \/ Followers \/ Close \/ Closing
  /\ UNCHANGED <<inner, callVars>>

Check(c) == Ask(c) \/ AskedAll(c)

Next == BlockerStep \/ CloseInner \/ \E c \in Callers : Call(c) \/ Check(c) \/ Return(c)

SafeSpec == Init /\ [][Next]_vars

Spec == SafeSpec /\ \A c \in Callers : WF_vars(Check(c))

-----------------------------------------------------------------------------
(* Properties.                                                             *)

Allows(rules) == \E rule \in rules : rule.allow
Blocks(rules) == \E rule \in rules : ~rule.allow

\* What Denylist i had about the item when caller c made its call.
Before(c, i, item) ==
  {rule \in Lines(files[i], begun[c][i]) : item \in rule.covers}

\* Letting an item through is in order: it is allowed, or there was nothing
\* about it.
MayPass(c, item) ==
  \/ \E i \in denylists : Allows(About(i, item))
  \/ /\ \A i \in denylists : Before(c, i, item) = {}
     /\ item \in Malformed => denylists = {}

\* What a call lets through was in no Denylist when the call began, whatever
\* their number and order, and whichever are closed or grow meanwhile, unless
\* one of them allows it; what a lookup cannot make sense of is not let
\* through while there is a Denylist.
NoLeak == \A c \in Callers : \A n \in passed[c] : MayPass(c, want[c][n])

MayRefuse(item) ==
  item \in Malformed \/ \E i \in denylists : Blocks(About(i, item))

\* What is refused is blocked by some Denylist, or is malformed.
NoFalseRefusal == \A c \in Callers : \A n \in refused[c] : MayRefuse(want[c][n])

\* The wrapped service is called with all that was asked for but what was
\* refused, and not at all when a call about one item is refused.
RestHandedOver ==
  \A c \in Callers : stage[c] = "inner" /\ kind[c] # "unchecked" =>
    /\ passed[c] = DOMAIN want[c] \ refused[c]
    /\ kind[c] = "one" => refused[c] = {}

\* Why, as an inductive invariant: a call remembers no more than has been
\* parsed since, it has settled every item before the one it looks up, and it
\* has found nothing about that one in the Denylists it has asked.
CallOK(c) ==
  /\ stage[c] = "idle" => passed[c] = {} /\ refused[c] = {} /\ next[c] = 1 /\ asked[c] = {}
  /\ stage[c] # "idle" =>
       /\ Serving
       /\ Len(begun[c]) = Len(parsed)
       /\ \A i \in Handle : begun[c][i] <= parsed[i]
       /\ refused[c] \subseteq 1 .. next[c] - 1
       /\ kind[c] # "unchecked" => passed[c] = (1 .. next[c] - 1) \ refused[c]
  /\ stage[c] = "check" =>
       /\ kind[c] # "unchecked"
       /\ next[c] <= Len(want[c])
       /\ kind[c] = "one" => refused[c] = {} /\ Len(want[c]) = 1
       /\ \A i \in asked[c] :
            Before(c, i, Item(c)) = {} /\ Item(c) \notin Malformed
  /\ stage[c] = "inner" => asked[c] = {}
  /\ stage[c] = "inner" /\ kind[c] # "unchecked" =>
       /\ next[c] = Len(want[c]) + 1
       /\ kind[c] = "one" => refused[c] = {}
  /\ stage[c] = "inner" /\ kind[c] = "unchecked" => passed[c] = {} /\ refused[c] = {}
  /\ stage[c] = "refused" => asked[c] = {}

Inv ==
  /\ TypeOK
  /\ BlockerInv
  /\ \A c \in Callers : CallOK(c)
  /\ NoLeak
  /\ NoFalseRefusal

\* A call passes the check in the end, however the Denylists grow and whether
\* they are closed.
ChecksEnd == \A c \in Callers : stage[c] = "check" ~> stage[c] # "check"

-----------------------------------------------------------------------------
(* What the comments say and the code does not do.                         *)

\* "Lookup happens in order of the denylist, thus the denylist position
\* during Blocker creation affects which one has preference": nothing is let
\* through that a Denylist blocked, unless that or an earlier one allows it.
EarlierListPreferred ==
  \A c \in Callers : \A n \in passed[c] : \A i \in denylists :
    Blocks(Before(c, i, want[c][n])) =>
      \E j \in denylists : j <= i /\ Allows(About(j, want[c][n]))
=============================================================================
