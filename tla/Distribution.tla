---------------------------- MODULE Distribution ----------------------------
(***************************************************************************)
(* A denylist on its way from a server to whoever enforces it: an          *)
(* HTTPSubscriber appends to a local file, and a Denylist, here or in      *)
(* another process, opens that file at some moment and follows it.  Of     *)
(* the follower this module knows only what FollowLines is shown to        *)
(* implement, LineFeed, and of the header only where Header lets the       *)
(* lines begin.                                                            *)
(***************************************************************************)
EXTENDS HTTPSubscriber

CONSTANTS
  Bytes, NL,   \* the bytes of a line, and the newline
  Text,        \* what the remote denylist has come to in the end
  HeaderSize   \* the bytes of Text up to and with the header's separator

Char == Bytes \cup {NL}

ASSUME TextAssumption ==
  /\ Text \in [1 .. MaxRemote -> Char]
  /\ HeaderSize \in 1 .. MaxRemote
  /\ Text[HeaderSize] = NL

VARIABLES
  begin,       \* where lines are read from: behind the header, or 0
  opened,      \* whether the denylist has been opened
  pos,         \* bytes, from begin on, whose lines have been parsed
  lines,       \* the lines that have been parsed
  stopped      \* the follower has ended

followVars == <<begin, opened, pos, lines, stopped>>
allVars == <<vars, followVars>>

\* The first n bytes of the remote denylist, without the first b of them.
Part(b, n) == [i \in 1 .. n - b |-> Text[b + i]]

\* What is in the local file from begin on.
LocalText == [i \in 1 .. Len(local) - begin |-> Text[local[begin + i]]]

Local == INSTANCE LineFeed WITH content <- LocalText

DistInit ==
  /\ Init
  /\ begin \in {0, HeaderSize}
  /\ opened = FALSE
  /\ pos = 0
  /\ lines = << >>
  /\ stopped = FALSE

Subscription == Next /\ UNCHANGED followVars

\* The file is opened.  A separator that has not arrived is not found, and
\* then the lines begin at the first byte.
OpenDenylist ==
  /\ ~opened
  /\ exists
  /\ begin = IF Len(local) >= HeaderSize THEN HeaderSize ELSE 0
  /\ opened' = TRUE
  /\ UNCHANGED <<vars, begin, pos, lines, stopped>>

Hand ==
  /\ opened
  /\ UNCHANGED <<vars, begin, opened>>
  /\ Local!Emit

EndFollowing ==
  /\ opened
  /\ UNCHANGED <<vars, begin, opened>>
  /\ Local!Stop

DistNext == Subscription \/ OpenDenylist \/ Hand \/ EndFollowing

DistSafeSpec == DistInit /\ [][DistNext]_allVars

\* The fairness of HTTPSubscriber, and what FollowLines is shown to do with
\* every line.
DistSpec == DistSafeSpec /\ Fairness /\ WF_allVars(Hand)

-----------------------------------------------------------------------------
(* Properties.                                                             *)

Remote == INSTANCE LineFeed WITH content <- Part(begin, remote)

\* To whoever enforces it, the denylist on the server is as good as a file
\* that is being followed: the complete lines of what has been published are
\* parsed in order, each once and whole, whatever downloads broke off in the
\* middle of a line and whoever died and subscribed again.
DistributesFeed == Remote!Spec

\* ... and each of them in the end, unless the subscription is stopped, its
\* process dies or the follower ends.
RulesArrive ==
  \A n \in 1 .. MaxRemote :
    (opened /\ Subscribed /\ remote >= n /\ n > begin /\ Text[n] = NL)
      ~> (begin + pos >= n \/ stopped \/ stopping \/ pc = "none")
=============================================================================
