----------------------------- MODULE Successor ------------------------------
(***************************************************************************)
(* Two HTTPSubscribers of one local file in one process: the first is      *)
(* stopped, and another is started in its place.  Stop (subscription.go)   *)
(* closes a channel and returns: nothing waits for the goroutine, which    *)
(* may be in the middle of a download or find its timer fired as well.     *)
(***************************************************************************)
EXTENDS HTTPSubscriber

\* The locals and fields of the second subscriber.
VARIABLES livesB, pcB, firstB, sizeB, bodyB, timerB, stoppingB

ownA == <<lives, pc, first, size, body, timer, stopping>>
ownB == <<livesB, pcB, firstB, sizeB, bodyB, timerB, stoppingB>>

B == INSTANCE HTTPSubscriber
       WITH lives <- livesB, pc <- pcB, first <- firstB, size <- sizeB,
            body <- bodyB, timer <- timerB, stopping <- stoppingB

PairInit == Init /\ B!Init

\* The first is stopped before the second is started.
Succeed == stopping /\ B!New

PairNext ==
  \/ UNCHANGED ownB /\ (Publish \/ New \/ Stop \/ Subscriber)
  \/ UNCHANGED ownA /\ (Succeed \/ B!Subscriber)

PairSpec == PairInit /\ [][PairNext]_<<vars, ownB>>

\* "download only the missing bytes": no byte of the remote denylist is
\* appended to the local file twice.
OnlyMissingBytes ==
  \A i, j \in 1 .. Len(local) : local[i] = local[j] => i = j
=============================================================================
