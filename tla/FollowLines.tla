---------------------------- MODULE FollowLines -----------------------------
(***************************************************************************)
(* Denylist.followLines (denylist.go): the goroutine that tails one        *)
(* denylist file.  It reads lines through a bufio.Reader on top of an      *)
(* io.LimitedReader, gathers a line that arrives in pieces, hands every    *)
(* complete line to parseLine, and at the end of the file waits for an     *)
(* fsnotify event.  Around it: NewDenylist / NewDenylistReader, which      *)
(* start it, and Denylist.Close, which any goroutine may call while it     *)
(* runs.                                                                   *)
(*                                                                         *)
(* The file's owner (an editor, an HTTPSubscriber) is the environment.  It *)
(* decides on a content, `target`, that only grows, and makes it visible   *)
(* in the file piece by piece; it may also save on top of the file, i.e.   *)
(* truncate it and write it again.  Offsets count from the first byte      *)
(* after the header, where readHeader leaves the handle.                   *)
(***************************************************************************)
EXTENDS Integers, Sequences

CONSTANTS
  Bytes,         \* the bytes of a line
  NL,            \* the newline byte
  MaxLineSize,   \* maxLineSize
  BufSize,       \* the size of the bufio.Reader's buffer
  QueueLimit,    \* events the kernel queues for a watcher before it drops
  MaxFile,       \* bound: bytes the owner ever puts on the denylist
  MaxSaves       \* bound: times the owner saves on top of the file

ASSUME NLAssumption == NL \notin Bytes

ASSUME SizeAssumption ==
  /\ MaxLineSize \in Nat \ {0}
  /\ BufSize \in Nat \ {0}
  /\ QueueLimit \in Nat \ {0}
  /\ MaxFile \in Nat
  /\ MaxSaves \in Nat

Char == Bytes \cup {NL}
Event == {"write", "other", "overflow"}

VARIABLES
  \* the environment
  target,        \* the content the owner has decided on
  file,          \* the part of it that is visible in the file
  unnotified,    \* the file changed and the kernel has yet to queue the event
  saves,         \* times the owner has saved on top of the file
  \* the handle, the watcher and whoever holds the Denylist
  follow,        \* the `follow` argument of parseAndFollow
  handle,        \* dl.f
  watcher,       \* dl.watcher
  queue,         \* the watcher's events that nobody has received
  user,          \* the goroutine that constructs, uses and closes the Denylist
  \* followLines
  pc,            \* where followLines is
  off,           \* the handle's offset: bytes read from the file
  buf,           \* bytes read and still inside the bufio.Reader
  line,          \* the local `line`: the part of a line gathered so far
  lim,           \* limRdr.N
  parsed,        \* the lines handed to parseLine, oldest first
  failed         \* the error followLines or parseAndFollow ended with

envVars == <<target, file, unnotified, saves>>
readVars == <<off, buf, line, lim, parsed>>
vars == <<envVars, follow, handle, watcher, queue, user, pc, readVars, failed>>

TypeOK ==
  /\ target \in Seq(Char)
  /\ file \in Seq(Char)
  /\ unnotified \in BOOLEAN
  /\ saves \in 0 .. MaxSaves
  /\ follow \in BOOLEAN
  /\ handle \in {"open", "closed"}
  /\ watcher \in {"none", "open", "closed"}
  /\ queue \in Seq(Event)
  /\ user \in {"constructing", "using", "closing", "closed"}
  /\ pc \in {"start", "read", "wait", "done"}
  /\ off \in Nat
  /\ buf \in Seq(Char)
  /\ line \in Seq(Bytes)
  /\ lim \in 0 .. MaxLineSize
  /\ parsed \in Seq(Seq(Bytes))
  /\ failed \in {"none", "start", "watch", "read", "toolong"}

Init ==
  /\ target \in UNION {[1 .. n -> Char] : n \in 0 .. MaxFile}
  /\ file = target
  /\ unnotified = FALSE
  /\ saves = 0
  /\ follow \in BOOLEAN
  /\ handle = "open"
  /\ watcher = "none"
  /\ queue = << >>
  /\ user = "constructing"
  /\ pc = "start"
  /\ off = 0
  /\ buf = << >>
  /\ line = << >>
  /\ lim = MaxLineSize
  /\ parsed = << >>
  /\ failed = "none"

-----------------------------------------------------------------------------
(* The owner of the file, and the kernel that reports what it does.        *)

\* The owner decides on one more byte of content.
Extend ==
  /\ Len(target) < MaxFile
  /\ \E b \in Char : target' = Append(target, b)
  /\ UNCHANGED <<file, unnotified, saves, follow, handle, watcher, queue, user,
                 pc, readVars, failed>>

\* A write(2): more of the content becomes visible, any number of bytes.
WriteOut ==
  /\ \E n \in Len(file) + 1 .. Len(target) : file' = SubSeq(target, 1, n)
  /\ unnotified' = TRUE
  /\ UNCHANGED <<target, saves, follow, handle, watcher, queue, user, pc,
                 readVars, failed>>

\* The owner saves on top of the file: it opens it with O_TRUNC, and
\* WriteOut then writes the content again from its first byte.
Truncate ==
  /\ saves < MaxSaves
  /\ file # << >>
  /\ file' = << >>
  /\ saves' = saves + 1
  /\ unnotified' = TRUE
  /\ UNCHANGED <<target, follow, handle, watcher, queue, user, pc, readVars,
                 failed>>

\* inotify queues an event for an open watcher.  It merges one that equals
\* the newest it holds, and replaces what does not fit by one "overflow".
Enqueue(e) ==
  queue' = IF \/ watcher # "open"
              \/ queue # << >> /\ queue[Len(queue)] \in {e, "overflow"}
           THEN queue
           ELSE Append(queue, IF Len(queue) < QueueLimit THEN e ELSE "overflow")

Notify ==
  /\ unnotified
  /\ unnotified' = FALSE
  /\ Enqueue("write")
  /\ UNCHANGED <<target, file, saves, follow, handle, watcher, user, pc,
                 readVars, failed>>

\* Anything else that happens to the file (chmod, ...).
Touch ==
  /\ watcher = "open"
  /\ Enqueue("other")
  /\ UNCHANGED <<envVars, follow, handle, watcher, user, pc, readVars, failed>>

-----------------------------------------------------------------------------
(* Denylist.Close, by the user in two steps and by followLines on errors.  *)

\* watcher.Close() drops what is queued and closes both channels.  A Denylist
\* that is not followed has no watcher.
WatcherClosed ==
  /\ watcher' = IF watcher = "none" THEN "none" ELSE "closed"
  /\ queue' = << >>

CloseWatcher ==
  /\ user = "using"
  /\ user' = "closing"
  /\ WatcherClosed
  /\ UNCHANGED <<envVars, follow, handle, pc, readVars, failed>>

CloseHandle ==
  /\ user = "closing"
  /\ user' = "closed"
  /\ handle' = "closed"
  /\ UNCHANGED <<envVars, follow, watcher, queue, pc, readVars, failed>>

\* followLines gives up: log the error, dl.Close(), return.  When it runs
\* inside the constructor, its return is the constructor's.
Fail(why) ==
  /\ failed' = why
  /\ pc' = "done"
  /\ WatcherClosed
  /\ handle' = "closed"
  /\ user' = IF user = "constructing" THEN "using" ELSE user

-----------------------------------------------------------------------------
(* parseAndFollow, once the header is read.                                *)

\* follow: watch the file, start the goroutine and return to the caller.
StartFollowing ==
  /\ pc = "start"
  /\ follow
  /\ watcher' = "open"
  /\ pc' = "read"
  /\ user' = "using"
  /\ UNCHANGED <<envVars, follow, handle, queue, readVars, failed>>

\* fsnotify.NewWatcher or watcher.Add fails.
StartFails ==
  /\ pc = "start"
  /\ follow
  /\ Fail("start")
  /\ UNCHANGED <<envVars, follow, readVars>>

\* no follow: read the file in the caller's goroutine.
StartReading ==
  /\ pc = "start"
  /\ ~follow
  /\ pc' = "read"
  /\ UNCHANGED <<envVars, follow, handle, watcher, queue, user, readVars,
                 failed>>

-----------------------------------------------------------------------------
(* followLines.                                                            *)

Smaller(m, n) == IF m <= n THEN m ELSE n

\* Where the first newline among the bytes in the bufio.Reader is.
NewlineAt(e) ==
  /\ e \in 1 .. Len(buf)
  /\ buf[e] = NL
  /\ \A i \in 1 .. e - 1 : buf[i] # NL

NoNewline == \A i \in 1 .. Len(buf) : buf[i] # NL

Unread == IF off < Len(file) THEN Len(file) - off ELSE 0

\* bufio's fill: one read of what fits into the buffer (a full buffer is set
\* aside as a fragment), cut by the limited reader to limRdr.N bytes.
ReadSize == Smaller(BufSize - (Len(buf) % BufSize), Smaller(lim, Unread))

Fill ==
  /\ pc = "read"
  /\ NoNewline
  /\ handle = "open"
  /\ ReadSize > 0
  /\ buf' = buf \o SubSeq(file, off + 1, off + ReadSize)
  /\ off' = off + ReadSize
  /\ lim' = lim - ReadSize
  /\ UNCHANGED <<envVars, follow, handle, watcher, queue, user, pc, line,
                 parsed, failed>>

\* Mutant: limRdr.N is not reset after a line.
ReadLineNoReset ==
  /\ pc = "read"
  /\ \E e \in 1 .. Len(buf) :
       /\ NewlineAt(e)
       /\ parsed' = Append(parsed, line \o SubSeq(buf, 1, e - 1))
       /\ buf' = SubSeq(buf, e + 1, Len(buf))
  /\ line' = << >>
  /\ UNCHANGED <<envVars, follow, handle, watcher, queue, user, pc, off, lim,
                 failed>>

\* Mutant: the pieces gathered in `line` are left out.
ReadLinePartial ==
  /\ pc = "read"
  /\ \E e \in 1 .. Len(buf) :
       /\ NewlineAt(e)
       /\ parsed' = Append(parsed, SubSeq(buf, 1, e - 1))
       /\ buf' = SubSeq(buf, e + 1, Len(buf))
  /\ line' = << >>
  /\ lim' = MaxLineSize
  /\ UNCHANGED <<envVars, follow, handle, watcher, queue, user, pc, off, failed>>

\* Mutant: the newline stays on the line.
ReadLineUntrimmed ==
  /\ pc = "read"
  /\ \E e \in 1 .. Len(buf) :
       /\ NewlineAt(e)
       /\ parsed' = Append(parsed, line \o SubSeq(buf, 1, e))
       /\ buf' = SubSeq(buf, e + 1, Len(buf))
  /\ line' = << >>
  /\ lim' = MaxLineSize
  /\ UNCHANGED <<envVars, follow, handle, watcher, queue, user, pc, off, failed>>

\* ReadString found a newline: the line is complete and goes to parseLine;
\* then `line` and limRdr.N are reset.
ReadLine ==
  /\ pc = "read"
  /\ \E e \in 1 .. Len(buf) :
       /\ NewlineAt(e)
       /\ parsed' = Append(parsed, line \o SubSeq(buf, 1, e - 1))
       /\ buf' = SubSeq(buf, e + 1, Len(buf))
  /\ line' = << >>
  /\ lim' = MaxLineSize
  /\ UNCHANGED <<envVars, follow, handle, watcher, queue, user, pc, off, failed>>

\* The limited reader is exhausted: io.EOF with limRdr.N = 0.
ReadTooLong ==
  /\ pc = "read"
  /\ NoNewline
  /\ lim = 0
  /\ Fail("toolong")
  /\ UNCHANGED <<envVars, follow, readVars>>

\* What a read that ends for want of bytes does with a follower and a reader.
AtEOF ==
  /\ pc = "read"
  /\ NoNewline
  /\ handle = "open"
  /\ lim > 0
  /\ Unread = 0
  /\ buf' = << >>
  /\ IF follow
     THEN pc' = "wait" /\ user' = user
     ELSE pc' = "done" /\ user' = "using"

\* Mutant: the limit starts again with each piece of a line.
ReadEOFReset ==
  /\ AtEOF
  /\ line' = line \o buf
  /\ lim' = MaxLineSize
  /\ UNCHANGED <<envVars, follow, handle, watcher, queue, off, parsed, failed>>

\* Mutant: one short read is taken for the end of the file.
ReadEOFShort ==
  /\ pc = "read"
  /\ NoNewline
  /\ handle = "open"
  /\ lim > 0
  /\ line' = line \o buf
  /\ buf' = << >>
  /\ IF follow
     THEN pc' = "wait" /\ user' = user
     ELSE pc' = "done" /\ user' = "using"
  /\ UNCHANGED <<envVars, follow, handle, watcher, queue, off, lim, parsed,
                 failed>>

\* ReadString reached the end of the file: it returns what it has, which is
\* kept in `line`.  A follower waits for a write, a reader is finished.
ReadEOF ==
  /\ AtEOF
  /\ line' = line \o buf
  /\ UNCHANGED <<envVars, follow, handle, watcher, queue, off, lim, parsed,
                 failed>>

\* The handle has been closed under the reader.
ReadError ==
  /\ pc = "read"
  /\ NoNewline
  /\ lim > 0
  /\ handle = "closed"
  /\ line' = line \o buf
  /\ buf' = << >>
  /\ Fail("read")
  /\ UNCHANGED <<envVars, follow, off, lim, parsed>>

\* Mutant: events that have piled up are dropped with the one received.
WaitEventDrain ==
  /\ pc = "wait"
  /\ queue # << >>
  /\ Head(queue) # "overflow"
  /\ queue' = << >>
  /\ pc' = IF Head(queue) = "write" THEN "read" ELSE "wait"
  /\ UNCHANGED <<envVars, follow, handle, watcher, user, readVars, failed>>

\* waitForWrite receives the oldest event: it returns on a write and keeps
\* waiting on any other.
WaitEvent ==
  /\ pc = "wait"
  /\ queue # << >>
  /\ Head(queue) # "overflow"
  /\ queue' = Tail(queue)
  /\ pc' = IF Head(queue) = "write" THEN "read" ELSE "wait"
  /\ UNCHANGED <<envVars, follow, handle, watcher, user, readVars, failed>>

\* waitForWrite receives fsnotify.ErrEventOverflow from the error channel.
WaitError ==
  /\ pc = "wait"
  /\ queue # << >>
  /\ Head(queue) = "overflow"
  /\ Fail("watch")
  /\ UNCHANGED <<envVars, follow, readVars>>

\* Mutant: a nil error is taken for no error, and the loop goes on.
WaitClosedIgnored ==
  /\ pc = "wait"
  /\ watcher = "closed"
  /\ UNCHANGED vars

\* Both channels are closed: a receive from Events yields an empty event and
\* waitForWrite loops, one from Errors yields nil, and it returns nil.
WaitClosed ==
  /\ pc = "wait"
  /\ watcher = "closed"
  /\ pc' = "read"
  /\ UNCHANGED <<envVars, follow, handle, watcher, queue, user, readVars, failed>>

-----------------------------------------------------------------------------
Environment == Extend \/ WriteOut \/ Truncate \/ Notify \/ Touch

User == CloseWatcher \/ CloseHandle

Follower ==
  \/ StartFollowing \/ StartFails \/ StartReading
  \/ Fill \/ ReadLine \/ ReadTooLong \/ ReadEOF \/ ReadError
  \/ WaitEvent \/ WaitError \/ WaitClosed

Next == Environment \/ User \/ Follower

SafeSpec == Init /\ [][Next]_vars

\* The Go scheduler runs a runnable goroutine, select takes the error branch
\* in the end, a Close that began returns, and a write that the owner began
\* reaches the file and is reported.
Fairness ==
  /\ WF_vars(Follower)
  /\ WF_vars(CloseHandle)
  /\ WF_vars(WriteOut)
  /\ WF_vars(Notify)

Spec == SafeSpec /\ Fairness

-----------------------------------------------------------------------------
(* Properties.                                                             *)

\* Bytes read from the file that are not yet part of a parsed line.
Held == Len(line) + Len(buf)

\* Bytes of the content whose lines have been parsed.
Consumed == off - Held

Feed == INSTANCE LineFeed
          WITH content <- target, pos <- Consumed, lines <- parsed,
               stopped <- pc = "done"

\* followLines implements LineFeed: whatever pieces lines arrive in, whoever
\* saves on top of the file or closes the Denylist meanwhile, parseLine gets
\* the complete lines of the content in order, each once, none torn.
ImplementsFeed == Feed!Spec

\* Once Denylist.Close has returned, the goroutine ends too.
CloseStops == user = "closed" ~> pc = "done"

\* followLines never waits for an event with bytes left to read unless such
\* an event is on its way: bytes that appear between the end of the file and
\* waitForWrite, or before the first read, are announced.
NoLostWakeup ==
  pc = "wait" /\ watcher = "open" /\ off < Len(file) =>
    \/ unnotified
    \/ \E i \in 1 .. Len(queue) : queue[i] \in {"write", "overflow"}

\* The read-ahead of the bufio.Reader spends limRdr.N on bytes of the next
\* lines, yet "line too long" is only said of a line that has not ended
\* after maxLineSize bytes.
LegalLineNeverRejected ==
  failed = "toolong" =>
    /\ Held >= MaxLineSize
    /\ \A i \in Consumed + 1 .. off : target[i] # NL

\* The read-ahead lets a line exceed maxLineSize by less than a buffer.
LineBound ==
  \A i \in 1 .. Len(parsed) : Len(parsed[i]) + 1 < MaxLineSize + BufSize

\* There is no complete line in the file that has not been parsed.
NothingLeft == \A i \in Consumed + 1 .. Len(file) : file[i] # NL

\* The constructor, not asked to follow, returns without an error only when
\* every complete line that is in the file at that moment has been parsed.
ReaderFinishes ==
  [][~follow /\ pc = "read" /\ pc' = "done" /\ failed' = "none"
       => NothingLeft']_vars

\* Why all of this holds, as an inductive invariant: the bytes held are the
\* bytes of the content in front of the handle's offset,
HeldIsContent ==
  /\ Len(file) <= Len(target)
  /\ \A i \in 1 .. Len(file) : file[i] = target[i]
  /\ off <= Len(target)
  /\ Held <= off
  /\ \A i \in 1 .. Len(line) : line[i] = target[Consumed + i]
  /\ \A i \in 1 .. Len(buf) : buf[i] = target[off - Len(buf) + i]

\* what is read ahead is less than a buffer,
ReadAhead ==
  /\ \A i \in 1 .. Len(buf) : buf[i] = NL => Len(buf) - i < BufSize
  /\ lim + Held < MaxLineSize + BufSize

\* and the limited reader has not been charged for more than what is held.
Inv ==
  /\ TypeOK
  /\ HeldIsContent
  /\ ReadAhead
  /\ lim + Held >= MaxLineSize
  /\ LineBound
  /\ NoLostWakeup
  /\ failed = "toolong" => pc = "done"
  /\ LegalLineNeverRejected

-----------------------------------------------------------------------------
(* What the comments say and the code does not do.                         *)

\* NewDenylist: with follow, "any appended rules will be processed" until
\* "the following is no longer needed".
FollowsUntilClosed ==
  \A n \in 1 .. MaxFile :
    (n \in 1 .. Len(target) /\ target[n] = NL)
      ~> (Consumed >= n \/ user # "using" \/ failed = "start" \/ ~follow)
=============================================================================
