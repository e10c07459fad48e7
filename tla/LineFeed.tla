------------------------------ MODULE LineFeed ------------------------------
(***************************************************************************)
(* What following a denylist promises, with nothing of how it is done: the *)
(* owner of a denylist extends its content, and the complete lines of that *)
(* content (those that end in a newline) are handed over one by one, in    *)
(* order, each once and whole, until the feed stops.                       *)
(***************************************************************************)
EXTENDS Integers, Sequences

CONSTANTS
  Bytes,      \* the bytes of a line
  NL          \* the newline byte

Char == Bytes \cup {NL}

VARIABLES
  content,    \* what the owner has put on the denylist so far
  pos,        \* how much of it has been handed over, in bytes
  lines,      \* the lines handed over, without their newline
  stopped     \* the feed is over

vars == <<content, pos, lines, stopped>>

TypeOK ==
  /\ content \in Seq(Char)
  /\ pos \in 0 .. Len(content)
  /\ lines \in Seq(Seq(Bytes))
  /\ stopped \in BOOLEAN

Init ==
  /\ content \in Seq(Char)
  /\ pos = 0
  /\ lines = << >>
  /\ stopped = FALSE

\* The content may only grow: what is there stays where it is.
Extend ==
  /\ content' \in Seq(Char)
  /\ Len(content) < Len(content')
  /\ \A i \in 1 .. Len(content) : content'[i] = content[i]
  /\ UNCHANGED <<pos, lines, stopped>>

\* The first line that has not been handed over ends at position e.
LineEndsAt(e) ==
  /\ e \in pos + 1 .. Len(content)
  /\ content[e] = NL
  /\ \A i \in pos + 1 .. e - 1 : content[i] # NL

Emit ==
  /\ ~stopped
  /\ \E e \in pos + 1 .. Len(content) :
       /\ LineEndsAt(e)
       /\ lines' = Append(lines, SubSeq(content, pos + 1, e - 1))
       /\ pos' = e
  /\ UNCHANGED <<content, stopped>>

Stop ==
  /\ ~stopped
  /\ stopped' = TRUE
  /\ UNCHANGED <<content, pos, lines>>

Next == Extend \/ Emit \/ Stop

Spec == Init /\ [][Next]_vars
=============================================================================
