-------------------------- MODULE HTTPSubscriber ----------------------------
(***************************************************************************)
(* HTTPSubscriber (subscription.go): keeps a local file in step with a     *)
(* remote denylist that only grows, by asking for the bytes it lacks, at   *)
(* an interval, and appending them.  The process may die at any point and  *)
(* subscribe again.                                                        *)
(*                                                                         *)
(* The remote content is bytes 1, 2, 3, ...: a byte is known by its place. *)
(***************************************************************************)
EXTENDS Integers, Sequences

CONSTANTS
  MaxRemote,   \* bound: bytes the remote denylist ever has
  MaxLives     \* bound: calls to NewHTTPSubscriber

ASSUME SubscriberAssumption == MaxRemote \in Nat /\ MaxLives \in Nat

Byte == 1 .. MaxRemote

VARIABLES
  remote,      \* how many bytes the remote denylist has
  local,       \* the content of localFile
  exists,      \* whether there is a localFile
  lives,       \* calls to NewHTTPSubscriber
  pc,          \* where the constructor or the goroutine of subscribe is
  first,       \* inside the constructor, for the first sync
  size,        \* localFileSize
  body,        \* what the copy has yet to take from resp.Body
  timer,       \* whether it is armed, or has fired and was not received
  stopping     \* stopChannel is closed

vars == <<remote, local, exists, lives, pc, first, size, body, timer, stopping>>

TypeOK ==
  /\ remote \in 0 .. MaxRemote
  /\ local \in Seq(Byte)
  /\ exists \in BOOLEAN
  /\ lives \in 0 .. MaxLives
  /\ pc \in {"none", "select", "open", "request", "copy", "ended"}
  /\ first \in BOOLEAN
  /\ size \in Nat
  /\ body \in Seq(Byte)
  /\ timer \in {"off", "armed", "fired"}
  /\ stopping \in BOOLEAN

Init ==
  /\ remote \in 0 .. MaxRemote
  /\ local = << >>
  /\ exists = FALSE
  /\ lives = 0
  /\ pc = "none"
  /\ first = FALSE
  /\ size = 0
  /\ body = << >>
  /\ timer = "off"
  /\ stopping = FALSE

-----------------------------------------------------------------------------
(* The server, which answers a request for bytes=size- ...                 *)

\* The denylist is appended to.
Publish ==
  /\ remote < MaxRemote
  /\ remote' = remote + 1
  /\ UNCHANGED <<local, exists, lives, pc, first, size, body, timer, stopping>>

\* ... with what there is after the first size bytes.
Served == [i \in 1 .. remote - size |-> size + i]

-----------------------------------------------------------------------------
(* NewHTTPSubscriber, Stop and the end of the process.                     *)

\* The file is looked for: without one, there is a first sync before the
\* constructor returns.
New ==
  /\ pc \in {"none", "ended"}
  /\ lives < MaxLives
  /\ lives' = lives + 1
  /\ first' = ~exists
  /\ pc' = IF exists THEN "select" ELSE "open"
  /\ timer' = IF exists THEN "armed" ELSE "off"
  /\ stopping' = FALSE
  /\ UNCHANGED <<remote, local, exists, size, body>>

\* It cannot be told whether there is a file.
NewFails ==
  /\ pc \in {"none", "ended"}
  /\ lives < MaxLives
  /\ lives' = lives + 1
  /\ pc' = "ended"
  /\ UNCHANGED <<remote, local, exists, first, size, body, timer, stopping>>

\* Whether the constructor has returned a subscriber.
Subscribed == pc \notin {"none", "ended"} /\ ~first

Stop ==
  /\ Subscribed
  /\ ~stopping
  /\ stopping' = TRUE
  /\ UNCHANGED <<remote, local, exists, lives, pc, first, size, body, timer>>

Crash ==
  /\ pc # "none"
  /\ pc' = "none"
  /\ first' = FALSE
  /\ body' = << >>
  /\ timer' = "off"
  /\ stopping' = FALSE
  /\ UNCHANGED <<remote, local, exists, lives, size>>

-----------------------------------------------------------------------------
(* subscribe.                                                              *)

Fire ==
  /\ timer = "armed"
  /\ timer' = "fired"
  /\ UNCHANGED <<remote, local, exists, lives, pc, first, size, body, stopping>>

Tick ==
  /\ pc = "select"
  /\ timer = "fired"
  /\ timer' = "off"
  /\ pc' = "open"
  /\ UNCHANGED <<remote, local, exists, lives, first, size, body, stopping>>

\* Mutant: "break" for "return", which leaves the select but not the loop.
SelectStopBreak ==
  /\ pc = "select"
  /\ stopping
  /\ timer' = "off"
  /\ UNCHANGED <<remote, local, exists, lives, pc, first, size, body, stopping>>

SelectStop ==
  /\ pc = "select"
  /\ stopping
  /\ pc' = "ended"
  /\ timer' = "off"
  /\ UNCHANGED <<remote, local, exists, lives, first, size, body, stopping>>

-----------------------------------------------------------------------------
(* downloadAndAppend.                                                      *)

\* Mutant: an error ends the subscription.
FinishOnError(ok) ==
  /\ pc' = IF ok THEN "select" ELSE "ended"
  /\ timer' = IF ok THEN "armed" ELSE "off"
  /\ first' = FALSE
  /\ body' = << >>

\* It returns: to the constructor, which fails when it failed, or to the
\* loop, which logs an error and sets the timer again.
Finish(ok) ==
  /\ pc' = IF first /\ ~ok THEN "ended" ELSE "select"
  /\ timer' = IF first /\ ~ok THEN "off" ELSE "armed"
  /\ first' = FALSE
  /\ body' = << >>

\* Mutant: the size is taken once, and the bytes appended are not counted.
OpenStale ==
  /\ pc = "open"
  /\ exists' = TRUE
  /\ size' = IF exists THEN size ELSE Len(local)
  /\ pc' = "request"
  /\ UNCHANGED <<remote, local, lives, first, body, timer, stopping>>

\* The file is opened, or created, and its size taken.
Open ==
  /\ pc = "open"
  /\ exists' = TRUE
  /\ size' = Len(local)
  /\ pc' = "request"
  /\ UNCHANGED <<remote, local, lives, first, body, timer, stopping>>

OpenFails ==
  /\ pc = "open"
  /\ Finish(FALSE)
  /\ UNCHANGED <<remote, local, exists, lives, size, stopping>>

\* 206.
Serve ==
  /\ pc = "request"
  /\ size < remote
  /\ body' = Served
  /\ pc' = "copy"
  /\ UNCHANGED <<remote, local, exists, lives, first, size, timer, stopping>>

\* 416: there is nothing after the first size bytes.
NothingNew ==
  /\ pc = "request"
  /\ size >= remote
  /\ Finish(TRUE)
  /\ UNCHANGED <<remote, local, exists, lives, size, stopping>>

\* 200 from a server that takes no ranges, or another answer that is neither
\* 206 nor an error: nothing is appended, and it is no error.
PassOver ==
  /\ pc = "request"
  /\ Finish(TRUE)
  /\ UNCHANGED <<remote, local, exists, lives, size, stopping>>

\* No answer, any other 4xx, or a 5xx.
Refuse ==
  /\ pc = "request"
  /\ Finish(FALSE)
  /\ UNCHANGED <<remote, local, exists, lives, size, stopping>>

\* One write of io.Copy.
Copy ==
  /\ pc = "copy"
  /\ \E n \in 1 .. Len(body) :
       /\ local' = local \o SubSeq(body, 1, n)
       /\ body' = SubSeq(body, n + 1, Len(body))
  /\ UNCHANGED <<remote, exists, lives, pc, first, size, timer, stopping>>

CopyEnds ==
  /\ pc = "copy"
  /\ body = << >>
  /\ Finish(TRUE)
  /\ UNCHANGED <<remote, local, exists, lives, size, stopping>>

\* The connection breaks, or a write fails.
CopyBreaks ==
  /\ pc = "copy"
  /\ Finish(FALSE)
  /\ UNCHANGED <<remote, local, exists, lives, size, stopping>>

-----------------------------------------------------------------------------
Download ==
  \/ Open \/ OpenFails
  \/ Serve \/ NothingNew \/ PassOver \/ Refuse
  \/ Copy \/ CopyEnds \/ CopyBreaks

Subscriber == Download \/ Fire \/ Tick \/ SelectStop

Next == Publish \/ New \/ NewFails \/ Stop \/ Crash \/ Subscriber

SafeSpec == Init /\ [][Next]_vars

\* The goroutine runs and timers fire.  A select with both channels ready
\* takes either at random, so a closed stopChannel is taken in the end; and a
\* server that is asked again and again serves the whole rest at last.
Fairness ==
  /\ WF_vars(Subscriber)
  /\ WF_vars(Fire)
  /\ SF_vars(SelectStop)
  /\ SF_vars(Open)
  /\ SF_vars(Serve)
  /\ SF_vars(Copy)

Spec == SafeSpec /\ Fairness

-----------------------------------------------------------------------------
(* Properties.                                                             *)

\* The local file is a prefix of the remote denylist, with no byte missing,
\* repeated or out of order, whatever broke off and was taken up again.
LocalIsPrefix ==
  /\ Len(local) <= remote
  /\ \A i \in 1 .. Len(local) : local[i] = i

\* Why: what has yet to be copied goes on where the file ends, and so does
\* what a request asks for.
Inv ==
  /\ TypeOK
  /\ LocalIsPrefix
  /\ pc = "request" => size = Len(local)
  /\ Len(local) + Len(body) <= remote
  /\ \A i \in 1 .. Len(body) : body[i] = Len(local) + i

\* What is published arrives, unless the subscription is stopped or the
\* process ends: no failed download ends it.
CatchesUp ==
  \A n \in 1 .. MaxRemote :
    (Subscribed /\ remote >= n) ~> (Len(local) >= n \/ stopping \/ pc = "none")

\* A subscription that is stopped comes to an end.
StopEnds == stopping ~> pc \in {"none", "ended"}
=============================================================================
