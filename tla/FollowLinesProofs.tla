------------------------- MODULE FollowLinesProofs --------------------------
(***************************************************************************)
(* What FollowLines guarantees for every alphabet, limit, buffer and queue *)
(* size: its inductive invariant, what follows from it, and that it        *)
(* implements LineFeed.                                                    *)
(***************************************************************************)
EXTENDS FollowLines, SequenceTheorems, TLAPS

\* A prefix of a sequence is a sequence of that length, element by element.
LEMMA PrefixFacts ==
  ASSUME NEW S, NEW s \in Seq(S), NEW n \in 0 .. Len(s)
  PROVE  /\ SubSeq(s, 1, n) \in Seq(S)
         /\ Len(SubSeq(s, 1, n)) = n
         /\ \A i \in 1 .. n : SubSeq(s, 1, n)[i] = s[i]
  BY SubSeqProperties, ElementOfSeq, LenProperties

\* The same for any part of a sequence.
LEMMA PartFacts ==
  ASSUME NEW S, NEW s \in Seq(S), NEW m \in 1 .. Len(s) + 1, NEW n \in m - 1 .. Len(s)
  PROVE  /\ SubSeq(s, m, n) \in Seq(S)
         /\ Len(SubSeq(s, m, n)) = n - m + 1
         /\ \A i \in 1 .. n - m + 1 : SubSeq(s, m, n)[i] = s[m + i - 1]
  <1>1. Len(s) \in Nat
    BY LenProperties
  <1>2. \A i \in m .. n : s[i] \in S
    BY <1>1, ElementOfSeq
  <1> QED
    BY <1>1, <1>2, SubSeqProperties

\* Bytes without a newline are (part of) a line.
LEMMA LineFacts ==
  ASSUME NEW s \in Seq(Char), \A i \in 1 .. Len(s) : s[i] # NL
  PROVE  s \in Seq(Bytes)
  <1>1. /\ Len(s) \in Nat
        /\ s \in [1 .. Len(s) -> Char]
    BY LenProperties
  <1>2. s \in [1 .. Len(s) -> Bytes]
    BY <1>1 DEF Char
  <1> QED
    BY <1>1, <1>2, SeqDef

\* What ReadString takes out of the buffer up to the first newline, and what
\* it leaves.
LEMMA TakenFacts ==
  ASSUME buf \in Seq(Char), NEW e \in 1 .. Len(buf), NewlineAt(e)
  PROVE  /\ SubSeq(buf, 1, e - 1) \in Seq(Bytes)
         /\ Len(SubSeq(buf, 1, e - 1)) = e - 1
         /\ \A i \in 1 .. e - 1 : SubSeq(buf, 1, e - 1)[i] = buf[i]
         /\ SubSeq(buf, e + 1, Len(buf)) \in Seq(Char)
         /\ Len(SubSeq(buf, e + 1, Len(buf))) = Len(buf) - e
         /\ \A i \in 1 .. Len(buf) - e :
              SubSeq(buf, e + 1, Len(buf))[i] = buf[e + i]
  <1>1. Len(buf) \in Nat
    BY LenProperties
  <1>2. /\ SubSeq(buf, 1, e - 1) \in Seq(Char)
        /\ Len(SubSeq(buf, 1, e - 1)) = e - 1
        /\ \A i \in 1 .. e - 1 : SubSeq(buf, 1, e - 1)[i] = buf[i]
    BY <1>1, PrefixFacts
  <1>3. \A i \in 1 .. Len(SubSeq(buf, 1, e - 1)) :
          SubSeq(buf, 1, e - 1)[i] # NL
    BY <1>2 DEF NewlineAt
  <1>4. SubSeq(buf, 1, e - 1) \in Seq(Bytes)
    BY <1>2, <1>3, LineFacts
  <1>5. /\ SubSeq(buf, e + 1, Len(buf)) \in Seq(Char)
        /\ Len(SubSeq(buf, e + 1, Len(buf))) = Len(buf) - e
        /\ \A i \in 1 .. Len(buf) - e :
             SubSeq(buf, e + 1, Len(buf))[i] = buf[e + 1 + i - 1]
    BY <1>1, PartFacts
  <1>6. \A i \in 1 .. Len(buf) - e : e + 1 + i - 1 = e + i
    BY <1>1
  <1> QED
    BY <1>2, <1>4, <1>5, <1>6

\* One read never brings more than a buffer, the limit or the file allows.
LEMMA ReadSizeFacts ==
  ASSUME TypeOK
  PROVE  /\ ReadSize \in Nat
         /\ ReadSize <= BufSize
         /\ ReadSize <= lim
         /\ ReadSize > 0 => off + ReadSize <= Len(file)
  <1>1. /\ Len(buf) \in Nat /\ Len(file) \in Nat /\ off \in Nat /\ lim \in Nat
        /\ BufSize \in Nat \ {0}
    BY LenProperties, SizeAssumption DEF TypeOK
  <1>2. Len(buf) % BufSize \in 0 .. BufSize - 1
    BY <1>1
  <1> QED
    BY <1>1, <1>2 DEF ReadSize, Smaller, Unread

-----------------------------------------------------------------------------
(* Type correctness.                                                       *)

LEMMA InitType == Init => TypeOK
  <1> SUFFICES ASSUME Init PROVE TypeOK
    OBVIOUS
  <1>1. target \in Seq(Char)
    BY SeqDef, SizeAssumption DEF Init
  <1>2. << >> \in Seq(Bytes) /\ << >> \in Seq(Char) /\ << >> \in Seq(Event)
        /\ << >> \in Seq(Seq(Bytes))
    OBVIOUS
  <1>3. /\ 0 \in 0 .. MaxSaves
        /\ MaxLineSize \in 0 .. MaxLineSize
    BY SizeAssumption
  <1> QED
    BY <1>1, <1>2, <1>3 DEF Init, TypeOK

\* What the kernel does to the queue leaves a queue.
LEMMA EnqueueType ==
  ASSUME TypeOK, NEW e \in Event, Enqueue(e)
  PROVE  queue' \in Seq(Event)
  BY DEF TypeOK, Enqueue, Event

\* Whatever makes followLines give up, the state stays typed.
LEMMA FailType ==
  ASSUME TypeOK, NEW why \in {"start", "watch", "read", "toolong"}, Fail(why)
  PROVE  /\ failed' \in {"none", "start", "watch", "read", "toolong"}
         /\ pc' \in {"start", "read", "wait", "done"}
         /\ watcher' \in {"none", "open", "closed"}
         /\ queue' \in Seq(Event)
         /\ handle' \in {"open", "closed"}
         /\ user' \in {"constructing", "using", "closing", "closed"}
  BY DEF TypeOK, Fail, WatcherClosed

LEMMA TypeStep ==
  ASSUME TypeOK, [Next]_vars
  PROVE  TypeOK'
  <1> USE DEF TypeOK, envVars, readVars
  <1>1. CASE Extend
    BY <1>1 DEF Extend
  <1>2. CASE WriteOut
    <2>1. \A n \in Len(file) + 1 .. Len(target) : SubSeq(target, 1, n) \in Seq(Char)
      BY PrefixFacts, LenProperties
    <2> QED
      BY <1>2, <2>1 DEF WriteOut
  <1>3. CASE Truncate
    BY <1>3, SizeAssumption DEF Truncate
  <1>4. CASE Notify
    BY <1>4, EnqueueType DEF Notify, Event
  <1>5. CASE Touch
    BY <1>5, EnqueueType DEF Touch, Event
  <1>6. CASE CloseWatcher
    BY <1>6 DEF CloseWatcher, WatcherClosed
  <1>7. CASE CloseHandle
    BY <1>7 DEF CloseHandle
  <1>8. CASE StartFollowing
    BY <1>8 DEF StartFollowing
  <1>9. CASE StartFails
    BY <1>9, FailType DEF StartFails
  <1>10. CASE StartReading
    BY <1>10 DEF StartReading
  <1>11. CASE Fill
    <2>1. /\ Len(file) \in Nat /\ off \in Nat /\ lim \in 0 .. MaxLineSize
          /\ ReadSize \in Nat /\ ReadSize <= lim /\ off + ReadSize <= Len(file)
      BY <1>11, ReadSizeFacts, LenProperties DEF Fill
    <2>2. SubSeq(file, off + 1, off + ReadSize) \in Seq(Char)
      BY <2>1, PartFacts
    <2> QED
      BY <1>11, <2>1, <2>2, SizeAssumption DEF Fill
  <1>12. CASE ReadLine
    <2>1. PICK e \in 1 .. Len(buf) :
            /\ NewlineAt(e)
            /\ parsed' = Append(parsed, line \o SubSeq(buf, 1, e - 1))
            /\ buf' = SubSeq(buf, e + 1, Len(buf))
      BY <1>12 DEF ReadLine
    <2>2. /\ SubSeq(buf, 1, e - 1) \in Seq(Bytes)
          /\ SubSeq(buf, e + 1, Len(buf)) \in Seq(Char)
      BY <2>1, TakenFacts
    <2> QED
      BY <1>12, <2>1, <2>2, SizeAssumption DEF ReadLine
  <1>13. CASE ReadTooLong
    BY <1>13, FailType DEF ReadTooLong
  <1>14. CASE ReadEOF
    <2>1. buf \in Seq(Bytes)
      BY <1>14, LineFacts DEF ReadEOF, AtEOF, NoNewline
    <2> QED
      BY <1>14, <2>1 DEF ReadEOF, AtEOF
  <1>15. CASE ReadError
    <2>1. buf \in Seq(Bytes)
      BY <1>15, LineFacts DEF ReadError, NoNewline
    <2>2. line' \in Seq(Bytes) /\ buf' \in Seq(Char)
      BY <1>15, <2>1 DEF ReadError
    <2> QED
      BY <1>15, <2>2, FailType DEF ReadError
  <1>16. CASE WaitEvent
    BY <1>16 DEF WaitEvent
  <1>17. CASE WaitError
    BY <1>17, FailType DEF WaitError
  <1>18. CASE WaitClosed
    BY <1>18 DEF WaitClosed
  <1>19. CASE UNCHANGED vars
    BY <1>19 DEF vars
  <1> QED
    BY <1>1, <1>2, <1>3, <1>4, <1>5, <1>6, <1>7, <1>8, <1>9, <1>10, <1>11,
       <1>12, <1>13, <1>14, <1>15, <1>16, <1>17, <1>18, <1>19
       DEF Next, Environment, User, Follower

-----------------------------------------------------------------------------
(* The bytes that have been read.                                          *)

\* Only two kinds of step other than Fill and ReadLine touch what has been
\* read, and they only move the buffer's bytes to `line`.
Gather ==
  /\ line' = line \o buf
  /\ buf' = << >>
  /\ UNCHANGED <<target, file, off, lim, parsed>>

Quiet == UNCHANGED <<target, file, readVars>>

LEMMA StepKinds ==
  ASSUME [Next]_vars
  PROVE  Extend \/ WriteOut \/ Truncate \/ Fill \/ ReadLine \/ Gather \/ Quiet
  <1> USE DEF Quiet, Gather, envVars, readVars
  <1>1. Environment => Extend \/ WriteOut \/ Truncate \/ Quiet
    BY DEF Environment, Notify, Touch
  <1>2. User => Quiet
    BY DEF User, CloseWatcher, CloseHandle
  <1>3. StartFollowing \/ StartFails \/ StartReading \/ ReadTooLong
        \/ WaitEvent \/ WaitError \/ WaitClosed => Quiet
    BY DEF StartFollowing, StartFails, StartReading, ReadTooLong, WaitEvent,
           WaitError, WaitClosed
  <1>4. ReadEOF \/ ReadError => Gather
    BY DEF ReadEOF, AtEOF, ReadError
  <1>5. UNCHANGED vars => Quiet
    BY DEF vars
  <1> QED
    BY <1>1, <1>2, <1>3, <1>4, <1>5 DEF Next, Follower

\* The lengths that the arithmetic is about.
LEMMA Lengths ==
  ASSUME TypeOK
  PROVE  /\ Len(target) \in Nat /\ Len(file) \in Nat /\ off \in Nat
         /\ Len(line) \in Nat /\ Len(buf) \in Nat
         /\ lim \in Nat /\ MaxLineSize \in Nat \ {0} /\ BufSize \in Nat \ {0}
         /\ Held = Len(line) + Len(buf) /\ Consumed = off - Held
  BY LenProperties, SizeAssumption DEF TypeOK, Held, Consumed

\* What Fill does to the buffer.
LEMMA FillFacts ==
  ASSUME TypeOK, Fill
  PROVE  /\ ReadSize \in Nat /\ ReadSize > 0 /\ ReadSize <= BufSize
         /\ off + ReadSize <= Len(file)
         /\ Len(buf') = Len(buf) + ReadSize
         /\ off' = off + ReadSize
         /\ lim' = lim - ReadSize
         /\ \A i \in 1 .. Len(buf) : buf'[i] = buf[i] /\ buf[i] # NL
         /\ \A i \in 1 .. ReadSize : buf'[Len(buf) + i] = file[off + i]
         /\ UNCHANGED <<target, file, line, parsed>>
  <1>1. /\ ReadSize \in Nat /\ ReadSize > 0 /\ ReadSize <= BufSize
        /\ off + ReadSize <= Len(file)
    BY ReadSizeFacts DEF Fill
  <1>2. Len(buf) \in Nat /\ Len(file) \in Nat /\ off \in Nat
    BY Lengths
  <1>3. /\ file \in Seq(Char) /\ buf \in Seq(Char)
    BY DEF TypeOK
  <1>4. /\ SubSeq(file, off + 1, off + ReadSize) \in Seq(Char)
        /\ Len(SubSeq(file, off + 1, off + ReadSize)) = ReadSize
        /\ \A i \in 1 .. ReadSize :
             SubSeq(file, off + 1, off + ReadSize)[i] = file[off + i]
    <2>1. /\ off + 1 \in 1 .. Len(file) + 1
          /\ off + ReadSize \in (off + 1) - 1 .. Len(file)
          /\ (off + ReadSize) - (off + 1) + 1 = ReadSize
          /\ \A i \in 1 .. ReadSize : (off + 1) + i - 1 = off + i
      BY <1>1, <1>2
    <2> QED
      BY <1>3, <2>1, PartFacts
  <1>5. buf' = buf \o SubSeq(file, off + 1, off + ReadSize)
    BY DEF Fill
  <1>6. /\ Len(buf') = Len(buf) + ReadSize
        /\ \A i \in 1 .. Len(buf) : buf'[i] = buf[i]
        /\ \A i \in 1 .. ReadSize : buf'[Len(buf) + i] = file[off + i]
    BY <1>1, <1>2, <1>3, <1>4, <1>5, ConcatProperties
  <1> QED
    BY <1>1, <1>6 DEF Fill, NoNewline, envVars

\* What a Gather step does to `line`.
LEMMA GatherFacts ==
  ASSUME TypeOK, Gather
  PROVE  /\ Len(buf') = 0
         /\ Len(line') = Len(line) + Len(buf)
         /\ \A i \in 1 .. Len(line) : line'[i] = line[i]
         /\ \A i \in 1 .. Len(buf) : line'[Len(line) + i] = buf[i]
  <1>1. line \in Seq(Char) /\ buf \in Seq(Char)
    BY SeqMonotonic DEF TypeOK, Char
  <1>2. Len(line) \in Nat /\ Len(buf) \in Nat
    BY Lengths
  <1> QED
    BY <1>1, <1>2, ConcatProperties DEF Gather

LEMMA HeldStep ==
  ASSUME TypeOK, TypeOK', HeldIsContent, [Next]_vars
  PROVE  HeldIsContent'
  <1> USE DEF HeldIsContent, Held, Consumed
  <1>1. /\ Len(target) \in Nat /\ Len(file) \in Nat /\ off \in Nat
        /\ Len(line) \in Nat /\ Len(buf) \in Nat
    BY Lengths
  <1>2. CASE Extend
    <2>1. PICK b \in Char : target' = Append(target, b)
      BY <1>2 DEF Extend
    <2>2. /\ Len(target') = Len(target) + 1
          /\ \A i \in 1 .. Len(target) : target'[i] = target[i]
      BY <2>1, AppendProperties DEF TypeOK
    <2>3. UNCHANGED <<file, off, line, buf>>
      BY <1>2 DEF Extend, readVars
    <2>4. /\ \A i \in 1 .. Len(file) : i \in 1 .. Len(target)
          /\ \A i \in 1 .. Len(line) :
               off - (Len(line) + Len(buf)) + i \in 1 .. Len(target)
          /\ \A i \in 1 .. Len(buf) : off - Len(buf) + i \in 1 .. Len(target)
      BY <1>1
    <2>5. /\ \A i \in 1 .. Len(file) : file[i] = target'[i]
          /\ \A i \in 1 .. Len(line) :
               line[i] = target'[off - (Len(line) + Len(buf)) + i]
          /\ \A i \in 1 .. Len(buf) : buf[i] = target'[off - Len(buf) + i]
      BY <2>2, <2>4
    <2>6. Len(file) <= Len(target') /\ off <= Len(target')
      BY <1>1, <2>2
    <2> QED
      BY <1>1, <2>3, <2>5, <2>6
  <1>3. CASE WriteOut
    <2>1. PICK n \in Len(file) + 1 .. Len(target) : file' = SubSeq(target, 1, n)
      BY <1>3 DEF WriteOut
    <2>2. /\ Len(file') = n
          /\ \A i \in 1 .. n : file'[i] = target[i]
      BY <1>1, <2>1, PrefixFacts DEF TypeOK
    <2>3. UNCHANGED <<target, off, line, buf>>
      BY <1>3 DEF WriteOut, readVars
    <2> QED
      BY <1>1, <2>1, <2>2, <2>3
  <1>4. CASE Truncate
    <2>1. /\ Len(file') = 0
          /\ UNCHANGED <<target, off, line, buf>>
      BY <1>4 DEF Truncate, readVars
    <2> QED
      BY <1>1, <2>1
  <1>5. CASE Fill
    <2>1. /\ ReadSize \in Nat
          /\ off + ReadSize <= Len(file)
          /\ Len(buf') = Len(buf) + ReadSize
          /\ off' = off + ReadSize
          /\ \A i \in 1 .. Len(buf) : buf'[i] = buf[i]
          /\ \A i \in 1 .. ReadSize : buf'[Len(buf) + i] = file[off + i]
          /\ UNCHANGED <<target, file, line>>
      BY <1>5, FillFacts
    <2>2. ASSUME NEW i \in 1 .. Len(buf')
          PROVE  buf'[i] = target[off' - Len(buf') + i]
      <3>1. CASE i <= Len(buf)
        <4>1. buf'[i] = buf[i] /\ buf[i] = target[off - Len(buf) + i]
          BY <1>1, <2>1, <3>1
        <4>2. off' - Len(buf') + i = off - Len(buf) + i
          BY <1>1, <2>1
        <4> QED
          BY <2>1, <4>1, <4>2
      <3>2. CASE i > Len(buf)
        <4> DEFINE j == i - Len(buf)
        <4>1. j \in 1 .. ReadSize /\ i = Len(buf) + j
          BY <1>1, <2>1, <3>2
        <4> HIDE DEF j
        <4>2. buf'[i] = file[off + j] /\ file[off + j] = target[off + j]
          BY <1>1, <2>1, <4>1
        <4>3. off' - Len(buf') + i = off + j
          BY <1>1, <2>1, <4>1
        <4> QED
          BY <2>1, <4>2, <4>3
      <3> QED
        BY <1>1, <2>1, <3>1, <3>2
    <2>3. off' - (Len(line') + Len(buf')) = off - (Len(line) + Len(buf))
      BY <1>1, <2>1
    <2> QED
      BY <1>1, <2>1, <2>2, <2>3
  <1>6. CASE ReadLine
    <2>1. PICK e \in 1 .. Len(buf) :
            /\ NewlineAt(e)
            /\ buf' = SubSeq(buf, e + 1, Len(buf))
      BY <1>6 DEF ReadLine
    <2>2. /\ Len(buf') = Len(buf) - e
          /\ \A i \in 1 .. Len(buf) - e : buf'[i] = buf[e + i]
      BY <2>1, TakenFacts DEF TypeOK
    <2>3. Len(line') = 0 /\ UNCHANGED <<target, file, off>>
      BY <1>6 DEF ReadLine, envVars
    <2>4. ASSUME NEW i \in 1 .. Len(buf')
          PROVE  buf'[i] = target[off' - Len(buf') + i]
      <3>1. i \in 1 .. Len(buf) - e /\ e + i \in 1 .. Len(buf)
        BY <1>1, <2>2
      <3>2. buf'[i] = buf[e + i] /\ buf[e + i] = target[off - Len(buf) + (e + i)]
        BY <2>2, <3>1
      <3>3. off' - Len(buf') + i = off - Len(buf) + (e + i)
        BY <1>1, <2>2, <2>3
      <3> QED
        BY <2>3, <3>2, <3>3
    <2>5. Len(line') + Len(buf') <= off'
      BY <1>1, <2>2, <2>3
    <2> QED
      BY <1>1, <2>3, <2>4, <2>5
  <1>7. CASE Gather
    <2>1. /\ Len(buf') = 0
          /\ Len(line') = Len(line) + Len(buf)
          /\ \A i \in 1 .. Len(line) : line'[i] = line[i]
          /\ \A i \in 1 .. Len(buf) : line'[Len(line) + i] = buf[i]
          /\ UNCHANGED <<target, file, off>>
      BY <1>7, GatherFacts DEF Gather
    <2>2. ASSUME NEW i \in 1 .. Len(line')
          PROVE  line'[i] = target[off' - (Len(line') + Len(buf')) + i]
      <3>1. CASE i <= Len(line)
        <4>1. i \in 1 .. Len(line)
          BY <1>1, <2>1, <3>1
        <4>2. line'[i] = line[i]
          BY <2>1, <4>1
        <4>3. line[i] = target[off - (Len(line) + Len(buf)) + i]
          BY <4>1
        <4>4. off' - (Len(line') + Len(buf')) + i
                = off - (Len(line) + Len(buf)) + i
          BY <1>1, <2>1
        <4> QED
          BY <2>1, <4>2, <4>3, <4>4
      <3>2. CASE i > Len(line)
        <4> DEFINE j == i - Len(line)
        <4>1. j \in 1 .. Len(buf) /\ i = Len(line) + j
          BY <1>1, <2>1, <3>2
        <4> HIDE DEF j
        <4>2. line'[i] = buf[j] /\ buf[j] = target[off - Len(buf) + j]
          BY <2>1, <4>1
        <4>3. off' - (Len(line') + Len(buf')) + i = off - Len(buf) + j
          BY <1>1, <2>1, <4>1
        <4> QED
          BY <2>1, <4>2, <4>3
      <3> QED
        BY <1>1, <2>1, <3>1, <3>2
    <2> QED
      BY <1>1, <2>1, <2>2
  <1>8. CASE Quiet
    BY <1>8 DEF Quiet, readVars
  <1> QED
    BY <1>2, <1>3, <1>4, <1>5, <1>6, <1>7, <1>8, StepKinds

\* What is held has no newline once ReadString has looked at all of it.
LEMMA HeldIsOpenLine ==
  ASSUME TypeOK, HeldIsContent, NoNewline
  PROVE  \A i \in Consumed + 1 .. off : target[i] # NL
  <1> SUFFICES ASSUME NEW i \in Consumed + 1 .. off
               PROVE  target[i] # NL
    OBVIOUS
  <1>1. /\ off \in Nat /\ Len(line) \in Nat /\ Len(buf) \in Nat
        /\ Held = Len(line) + Len(buf) /\ Consumed = off - Held
        /\ i \in Int
    BY Lengths
  <1>2. CASE i <= off - Len(buf)
    <2> DEFINE j == i - Consumed
    <2>1. j \in 1 .. Len(line) /\ i = Consumed + j
      BY <1>1, <1>2
    <2> HIDE DEF j
    <2>2. line[j] = target[i]
      BY <2>1 DEF HeldIsContent
    <2>3. line[j] \in Bytes
      BY <2>1, ElementOfSeq DEF TypeOK
    <2> QED
      BY <2>2, <2>3, NLAssumption
  <1>3. CASE i > off - Len(buf)
    <2> DEFINE j == i - (off - Len(buf))
    <2>1. j \in 1 .. Len(buf) /\ i = off - Len(buf) + j
      BY <1>1, <1>3
    <2> HIDE DEF j
    <2>2. buf[j] = target[i]
      BY <2>1 DEF HeldIsContent
    <2> QED
      BY <2>1, <2>2 DEF NoNewline
  <1> QED
    BY <1>1, <1>2, <1>3

-----------------------------------------------------------------------------
(* The line limit.                                                         *)

Charged == lim + Held >= MaxLineSize

LEMMA LimitStep ==
  ASSUME TypeOK, TypeOK', ReadAhead, Charged, LineBound, [Next]_vars
  PROVE  ReadAhead' /\ Charged' /\ LineBound'
  <1> USE DEF ReadAhead, Charged, Held
  <1>1. /\ Len(line) \in Nat /\ Len(buf) \in Nat /\ lim \in Nat
        /\ MaxLineSize \in Nat \ {0} /\ BufSize \in Nat \ {0}
    BY Lengths
  <1>2. CASE Fill
    <2>1. /\ ReadSize \in Nat /\ ReadSize <= BufSize
          /\ Len(buf') = Len(buf) + ReadSize
          /\ lim' = lim - ReadSize
          /\ \A i \in 1 .. Len(buf) : buf'[i] = buf[i] /\ buf[i] # NL
          /\ UNCHANGED <<line, parsed>>
      BY <1>2, FillFacts
    <2>2. \A i \in 1 .. Len(buf') : buf'[i] = NL => Len(buf') - i < BufSize
      BY <1>1, <2>1
    <2>3. lim' + (Len(line') + Len(buf')) = lim + (Len(line) + Len(buf))
      BY <1>1, <2>1
    <2> QED
      BY <2>1, <2>2, <2>3 DEF LineBound
  <1>3. CASE ReadLine
    <2>1. PICK e \in 1 .. Len(buf) :
            /\ NewlineAt(e)
            /\ parsed' = Append(parsed, line \o SubSeq(buf, 1, e - 1))
            /\ buf' = SubSeq(buf, e + 1, Len(buf))
      BY <1>3 DEF ReadLine
    <2>2. /\ Len(line') = 0
          /\ lim' = MaxLineSize
      BY <1>3 DEF ReadLine
    <2>3. Len(buf) - e < BufSize
      BY <2>1 DEF NewlineAt
    <2>4. /\ SubSeq(buf, 1, e - 1) \in Seq(Bytes)
          /\ Len(SubSeq(buf, 1, e - 1)) = e - 1
          /\ Len(buf') = Len(buf) - e
      BY <2>1, TakenFacts DEF TypeOK
    <2>5. ReadAhead' /\ Charged'
      BY <1>1, <2>2, <2>3, <2>4
    <2>6. LineBound'
      <3> DEFINE whole == line \o SubSeq(buf, 1, e - 1)
      <3>1. line \in Seq(Bytes) /\ parsed \in Seq(Seq(Bytes))
        BY DEF TypeOK
      <3>2. whole \in Seq(Bytes) /\ Len(whole) = Len(line) + (e - 1)
        BY <2>4, <3>1, ConcatProperties
      <3>3. parsed' = Append(parsed, whole)
        BY <2>1
      <3> HIDE DEF whole
      <3>4. /\ Len(parsed) \in Nat
            /\ Len(parsed') = Len(parsed) + 1
            /\ \A i \in 1 .. Len(parsed) : parsed'[i] = parsed[i]
            /\ parsed'[Len(parsed) + 1] = whole
        BY <3>1, <3>2, <3>3, AppendProperties, LenProperties
      <3>5. Len(whole) + 1 < MaxLineSize + BufSize
        BY <1>1, <3>2
      <3>6. \A i \in 1 .. Len(parsed') : i \in 1 .. Len(parsed) \/ i = Len(parsed) + 1
        BY <3>4
      <3> QED
        BY <3>4, <3>5, <3>6 DEF LineBound
    <2> QED
      BY <2>5, <2>6
  <1>4. CASE Gather
    <2>1. /\ Len(buf') = 0
          /\ Len(line') = Len(line) + Len(buf)
          /\ UNCHANGED <<lim, parsed>>
      BY <1>4, GatherFacts DEF Gather
    <2> QED
      BY <1>1, <2>1 DEF LineBound
  <1>5. CASE UNCHANGED readVars
    BY <1>5 DEF readVars, LineBound
  <1>6. Extend \/ WriteOut \/ Truncate \/ Quiet => UNCHANGED readVars
    BY DEF Extend, WriteOut, Truncate, Quiet
  <1> QED
    BY <1>2, <1>3, <1>4, <1>5, <1>6, StepKinds

Rejected ==
  /\ failed = "toolong" => pc = "done"
  /\ LegalLineNeverRejected

LEMMA RejectStep ==
  ASSUME TypeOK, TypeOK', HeldIsContent, HeldIsContent', Charged, Rejected,
         [Next]_vars
  PROVE  Rejected'
  <1>1. CASE ReadTooLong
    <2>1. /\ NoNewline /\ lim = 0 /\ pc' = "done"
          /\ UNCHANGED <<target, readVars>>
      BY <1>1 DEF ReadTooLong, Fail, envVars
    <2>2. Held >= MaxLineSize
      BY <2>1, Lengths DEF Charged
    <2>3. \A i \in Consumed + 1 .. off : target[i] # NL
      BY <2>1, HeldIsOpenLine
    <2>4. UNCHANGED <<Held, Consumed>>
      BY <2>1 DEF readVars, Held, Consumed
    <2> QED
      BY <2>1, <2>2, <2>3, <2>4 DEF Rejected, LegalLineNeverRejected, readVars
  <1>2. CASE ~ReadTooLong /\ failed' = "toolong"
    <2>1. failed = "toolong" /\ UNCHANGED <<readVars, pc>>
          /\ (UNCHANGED target \/ Extend)
      <3>1. failed = "toolong" => pc = "done"
        BY DEF Rejected
      <3>2. Environment =>
              UNCHANGED <<readVars, pc, failed>> /\ (UNCHANGED target \/ Extend)
        BY DEF Environment, Extend, WriteOut, Truncate, Notify, Touch, envVars
      <3>3. User => UNCHANGED <<readVars, pc, failed, target>>
        BY DEF User, CloseWatcher, CloseHandle, envVars
      <3>4. Follower => pc # "done"
        BY DEF Follower, StartFollowing, StartFails, StartReading, Fill,
               ReadLine, ReadTooLong, ReadEOF, AtEOF, ReadError, WaitEvent,
               WaitError, WaitClosed
      <3>5. Follower /\ ~ReadTooLong => UNCHANGED failed \/ failed' # "toolong"
        BY DEF Follower, StartFollowing, StartFails, StartReading, Fill,
               ReadLine, ReadEOF, ReadError, WaitEvent, WaitError, WaitClosed,
               Fail
      <3> QED
        BY <1>2, <3>1, <3>2, <3>3, <3>4, <3>5 DEF Next, vars, envVars
    <2>2. UNCHANGED <<Held, Consumed, off>>
      BY <2>1 DEF readVars, Held, Consumed
    <2>3. \A i \in Consumed + 1 .. off : target'[i] = target[i]
      <3>1. CASE UNCHANGED target
        BY <3>1
      <3>2. CASE Extend
        <4>1. PICK b \in Char : target' = Append(target, b)
          BY <3>2 DEF Extend
        <4>2. \A i \in 1 .. Len(target) : target'[i] = target[i]
          BY <4>1, AppendProperties DEF TypeOK
        <4>3. \A i \in Consumed + 1 .. off : i \in 1 .. Len(target)
          BY Lengths DEF HeldIsContent
        <4> QED
          BY <4>2, <4>3
      <3> QED
        BY <2>1, <3>1, <3>2
    <2> QED
      BY <2>1, <2>2, <2>3 DEF Rejected, LegalLineNeverRejected
  <1>3. CASE failed' # "toolong"
    BY <1>3 DEF Rejected, LegalLineNeverRejected
  <1> QED
    BY <1>1, <1>2, <1>3

-----------------------------------------------------------------------------
(* The wakeup.                                                             *)

\* An event that is waiting in the queue, or that the kernel owes.
Announced ==
  \/ unnotified
  \/ \E i \in 1 .. Len(queue) : queue[i] \in {"write", "overflow"}

LEMMA WakeupStep ==
  ASSUME TypeOK, TypeOK', NoLostWakeup, [Next]_vars
  PROVE  NoLostWakeup'
  <1>1. SUFFICES ASSUME pc' = "wait", watcher' = "open", off' < Len(file')
                 PROVE  Announced'
    BY DEF NoLostWakeup, Announced
  <1>2. CASE Extend \/ CloseHandle \/ UNCHANGED vars
    BY <1>1, <1>2 DEF Extend, CloseHandle, vars, envVars, readVars,
                      NoLostWakeup, Announced
  <1>3. CASE WriteOut \/ Truncate
    BY <1>3 DEF WriteOut, Truncate, Announced
  <1>4. CASE Notify
    <2>1. watcher = "open" /\ Enqueue("write") /\ queue \in Seq(Event)
      BY <1>1, <1>4 DEF Notify, TypeOK
    <2>2. CASE queue # << >> /\ queue[Len(queue)] \in {"write", "overflow"}
      <3>1. queue' = queue /\ Len(queue) \in 1 .. Len(queue)
        BY <2>1, <2>2, EmptySeq DEF Enqueue
      <3> QED
        BY <2>2, <3>1 DEF Announced
    <2>3. CASE ~(queue # << >> /\ queue[Len(queue)] \in {"write", "overflow"})
      <3>1. PICK x \in {"write", "overflow"} : queue' = Append(queue, x)
        BY <2>1, <2>3 DEF Enqueue
      <3>2. /\ Len(queue') = Len(queue) + 1
            /\ queue'[Len(queue) + 1] = x
            /\ Len(queue) \in Nat
        BY <2>1, <3>1, AppendProperties, LenProperties DEF Event
      <3>3. Len(queue) + 1 \in 1 .. Len(queue')
        BY <3>2
      <3> QED
        BY <3>2, <3>3 DEF Announced
    <2> QED
      BY <2>2, <2>3
  <1>5. CASE Touch
    <2>1. /\ watcher = "open" /\ Enqueue("other") /\ queue \in Seq(Event)
          /\ UNCHANGED <<pc, off, file, unnotified>>
      BY <1>5 DEF Touch, TypeOK, envVars, readVars
    <2>2. CASE queue' = queue
      BY <1>1, <2>1, <2>2 DEF NoLostWakeup, Announced
    <2>3. CASE queue' # queue
      <3>1. PICK x \in Event : queue' = Append(queue, x)
        BY <2>1, <2>3 DEF Enqueue, Event
      <3>2. /\ Len(queue') = Len(queue) + 1
            /\ \A i \in 1 .. Len(queue) : queue'[i] = queue[i]
            /\ Len(queue) \in Nat
        BY <2>1, <3>1, AppendProperties, LenProperties
      <3>3. \A i \in 1 .. Len(queue) : i \in 1 .. Len(queue')
        BY <3>2
      <3> QED
        BY <1>1, <2>1, <3>2, <3>3 DEF NoLostWakeup, Announced
    <2> QED
      BY <2>2, <2>3
  <1>6. CASE ReadEOF
    <2>1. off >= Len(file) /\ UNCHANGED <<off, file>>
      BY <1>6, Lengths DEF ReadEOF, AtEOF, Unread, envVars
    <2> QED
      BY <1>1, <2>1, Lengths
  <1>7. CASE WaitEvent
    <2>1. /\ queue # << >> /\ Head(queue) = "other" /\ queue' = Tail(queue)
          /\ pc = "wait" /\ UNCHANGED <<watcher, off, file, unnotified>>
      BY <1>1, <1>7 DEF WaitEvent, envVars, readVars, TypeOK, Event
    <2>2. CASE unnotified
      BY <2>1, <2>2 DEF Announced
    <2>3. CASE ~unnotified
      <3>1. PICK i \in 1 .. Len(queue) : queue[i] \in {"write", "overflow"}
        BY <1>1, <2>1, <2>3 DEF NoLostWakeup
      <3>2. /\ Head(queue) = queue[1] /\ Len(queue) \in Nat
            /\ Len(queue') = Len(queue) - 1
            /\ \A k \in 1 .. Len(queue') : queue'[k] = queue[k + 1]
        BY <2>1, HeadTailProperties, LenProperties DEF TypeOK
      <3>3. i # 1
        BY <2>1, <3>1, <3>2
      <3>4. i - 1 \in 1 .. Len(queue') /\ (i - 1) + 1 = i
        BY <3>2, <3>3
      <3>5. queue'[i - 1] \in {"write", "overflow"}
        BY <3>1, <3>2, <3>4
      <3> QED
        BY <3>4, <3>5 DEF Announced
    <2> QED
      BY <2>2, <2>3
  <1>8. Follower /\ ~ReadEOF /\ ~WaitEvent => pc' # "wait"
    BY DEF Follower, StartFollowing, StartFails, StartReading, Fill, ReadLine,
           ReadTooLong, ReadError, WaitError, WaitClosed, Fail
  <1>9. CloseWatcher => watcher' # "open"
    BY DEF CloseWatcher, WatcherClosed
  <1> QED
    BY <1>1, <1>2, <1>3, <1>4, <1>5, <1>6, <1>7, <1>8, <1>9
       DEF Next, Environment, User

-----------------------------------------------------------------------------
(* The invariant and what follows from it.                                 *)

LEMMA InitInv == Init => Inv
  <1> SUFFICES ASSUME Init PROVE Inv
    OBVIOUS
  <1>1. TypeOK
    BY InitType
  <1>2. /\ Len(target) \in Nat /\ file = target
        /\ off = 0 /\ Len(line) = 0 /\ Len(buf) = 0 /\ Len(parsed) = 0
        /\ lim = MaxLineSize /\ pc = "start" /\ failed = "none"
    BY <1>1, LenProperties DEF Init, TypeOK
  <1>3. Held = 0 /\ Consumed = 0
    BY <1>2 DEF Held, Consumed
  <1>4. HeldIsContent
    BY <1>2, <1>3 DEF HeldIsContent
  <1>5. ReadAhead /\ lim + Held >= MaxLineSize
    BY <1>2, <1>3, SizeAssumption DEF ReadAhead
  <1>6. LineBound /\ NoLostWakeup /\ LegalLineNeverRejected
    BY <1>2 DEF LineBound, NoLostWakeup, LegalLineNeverRejected
  <1> QED
    BY <1>1, <1>2, <1>4, <1>5, <1>6 DEF Inv

LEMMA InvStep == Inv /\ [Next]_vars => Inv'
  <1> SUFFICES ASSUME Inv, [Next]_vars PROVE Inv'
    OBVIOUS
  <1>1. TypeOK'
    BY TypeStep DEF Inv
  <1>2. HeldIsContent'
    BY <1>1, HeldStep DEF Inv
  <1>3. ReadAhead' /\ Charged' /\ LineBound'
    BY <1>1, LimitStep DEF Inv, Charged
  <1>4. Rejected'
    BY <1>1, <1>2, RejectStep DEF Inv, Charged, Rejected
  <1>5. NoLostWakeup'
    BY <1>1, WakeupStep DEF Inv
  <1> QED
    BY <1>1, <1>2, <1>3, <1>4, <1>5 DEF Inv, Charged, Rejected

\* The invariant holds of every behaviour of followLines, its callers and the
\* owner of the file.
THEOREM Invariance == SafeSpec => []Inv
  BY InitInv, InvStep, PTL DEF SafeSpec

\* Every variable keeps its type; in particular no line that reaches
\* parseLine has a newline in it.
THEOREM TypeCorrectness == SafeSpec => []TypeOK
  <1>1. Inv => TypeOK
    BY DEF Inv
  <1> QED
    BY <1>1, Invariance, PTL

\* followLines never waits with bytes to read unless an event is coming.
THEOREM Wakeup == SafeSpec => []NoLostWakeup
  <1>1. Inv => NoLostWakeup
    BY DEF Inv
  <1> QED
    BY <1>1, Invariance, PTL

\* The read-ahead never makes followLines reject a line within the limit.
THEOREM Rejection == SafeSpec => []LegalLineNeverRejected
  <1>1. Inv => LegalLineNeverRejected
    BY DEF Inv
  <1> QED
    BY <1>1, Invariance, PTL

\* The read-ahead never lets a line exceed the limit by a whole buffer.
THEOREM Bound == SafeSpec => []LineBound
  <1>1. Inv => LineBound
    BY DEF Inv
  <1> QED
    BY <1>1, Invariance, PTL

\* A constructor that does not follow returns only when the complete lines
\* of the file have all been parsed.
THEOREM ReaderFinishing == SafeSpec => ReaderFinishes
  <1>1. ASSUME Inv, [Next]_vars, ~follow, pc = "read", pc' = "done",
               failed' = "none"
        PROVE  NothingLeft'
    <2>1. ReadEOF
      BY <1>1 DEF Next, Environment, User, Follower, Extend, WriteOut, Truncate,
                  Notify, Touch, CloseWatcher, CloseHandle, StartFollowing,
                  StartFails, StartReading, Fill, ReadLine, ReadTooLong,
                  ReadError, WaitEvent, WaitError, WaitClosed, Fail, vars
    <2>2. /\ NoNewline /\ off >= Len(file)
          /\ UNCHANGED <<target, file, off, lim, parsed>>
      BY <1>1, <2>1, Lengths DEF ReadEOF, AtEOF, Unread, envVars, Inv
    <2>3. Gather
      BY <2>1, <2>2 DEF ReadEOF, AtEOF, Gather
    <2>4. Consumed' = Consumed
      <3>1. Len(line') + Len(buf') = Len(line) + Len(buf)
        BY <1>1, <2>3, GatherFacts, Lengths DEF Inv
      <3> QED
        BY <2>2, <3>1 DEF Consumed, Held
    <2>5. \A i \in Consumed + 1 .. off : target[i] # NL
      BY <1>1, <2>2, HeldIsOpenLine DEF Inv
    <2>6. \A i \in Consumed + 1 .. Len(file) :
            i \in Consumed + 1 .. off /\ i \in 1 .. Len(file)
      BY <1>1, <2>2, Lengths DEF Inv, HeldIsContent
    <2>7. \A i \in Consumed + 1 .. Len(file) : file[i] # NL
      BY <1>1, <2>5, <2>6 DEF Inv, HeldIsContent
    <2> QED
      BY <2>2, <2>4, <2>7 DEF NothingLeft
  <1>2. Inv /\ [Next]_vars =>
          [~follow /\ pc = "read" /\ pc' = "done" /\ failed' = "none"
             => NothingLeft']_vars
    BY <1>1
  <1> QED
    BY <1>2, Invariance, PTL DEF SafeSpec, ReaderFinishes

-----------------------------------------------------------------------------
(* followLines implements LineFeed.                                        *)

LEMMA FeedInit == Init => Feed!Init
  <1> SUFFICES ASSUME Init PROVE Feed!Init
    OBVIOUS
  <1>1. target \in Seq(Feed!Char)
    BY InitType DEF TypeOK, Feed!Char, Char
  <1>2. /\ off = 0 /\ Len(line) = 0 /\ Len(buf) = 0
        /\ parsed = << >> /\ pc = "start"
    BY DEF Init
  <1>3. Consumed = 0
    BY <1>2 DEF Consumed, Held
  <1>4. (pc = "done") = FALSE
    BY <1>2
  <1> QED
    BY <1>1, <1>2, <1>3, <1>4 DEF Feed!Init

\* A step that leaves the content, what is consumed and the lines alone is a
\* stutter of the feed, or its end.
LEMMA FeedQuiet ==
  ASSUME UNCHANGED <<target, Consumed, parsed>>,
         pc = "done" => pc' = "done"
  PROVE  [Feed!Next]_Feed!vars
  <1>1. CASE (pc = "done") = (pc' = "done")
    BY <1>1 DEF Feed!vars
  <1>2. CASE pc # "done" /\ pc' = "done"
    <2>1. Feed!Stop
      BY <1>2 DEF Feed!Stop
    <2> QED
      BY <2>1 DEF Feed!Next
  <1> QED
    BY <1>1, <1>2

\* The line that a ReadLine step completes is the first line of the content
\* that has not been handed over.
LEMMA WholeLine ==
  ASSUME TypeOK, HeldIsContent, NEW e \in 1 .. Len(buf), NewlineAt(e)
  PROVE  \E end \in Consumed + 1 .. Len(target) :
           /\ end = off - Len(buf) + e
           /\ Feed!LineEndsAt(end)
           /\ line \o SubSeq(buf, 1, e - 1) = SubSeq(target, Consumed + 1, end - 1)
  <1> DEFINE end == off - Len(buf) + e
             whole == line \o SubSeq(buf, 1, e - 1)
             part == SubSeq(target, Consumed + 1, end - 1)
  <1>1. /\ Len(target) \in Nat /\ off \in Nat
        /\ Len(line) \in Nat /\ Len(buf) \in Nat
        /\ Consumed = off - (Len(line) + Len(buf))
        /\ Consumed >= 0 /\ off <= Len(target)
    BY Lengths DEF HeldIsContent
  <1>2. /\ end \in Consumed + 1 .. Len(target)
        /\ end - Consumed = Len(line) + e
    BY <1>1
  <1>3. target[end] = NL
    BY DEF HeldIsContent, NewlineAt
  <1>4. /\ whole \in Seq(Bytes)
        /\ Len(whole) = Len(line) + (e - 1)
        /\ \A i \in 1 .. Len(line) : whole[i] = line[i]
        /\ \A i \in 1 .. e - 1 : whole[Len(line) + i] = buf[i]
    <2>1. line \in Seq(Bytes) /\ buf \in Seq(Char)
      BY DEF TypeOK
    <2>2. /\ SubSeq(buf, 1, e - 1) \in Seq(Bytes)
          /\ Len(SubSeq(buf, 1, e - 1)) = e - 1
          /\ \A i \in 1 .. e - 1 : SubSeq(buf, 1, e - 1)[i] = buf[i]
      BY <2>1, TakenFacts
    <2>3. \A i \in 1 .. Len(line) + (e - 1) :
            whole[i] = IF i <= Len(line) THEN line[i]
                       ELSE SubSeq(buf, 1, e - 1)[i - Len(line)]
      BY <2>1, <2>2, ConcatProperties
    <2>4. whole \in Seq(Bytes) /\ Len(whole) = Len(line) + (e - 1)
      BY <2>1, <2>2, ConcatProperties
    <2>5. \A i \in 1 .. Len(line) : whole[i] = line[i]
      BY <1>1, <2>3
    <2>6. ASSUME NEW i \in 1 .. e - 1 PROVE whole[Len(line) + i] = buf[i]
      <3>1. /\ Len(line) + i \in 1 .. Len(line) + (e - 1)
            /\ ~(Len(line) + i <= Len(line))
            /\ (Len(line) + i) - Len(line) = i
        BY <1>1
      <3> QED
        BY <2>2, <2>3, <3>1
    <2> QED
      BY <2>4, <2>5, <2>6
  <1> HIDE DEF whole
  <1>5. ASSUME NEW i \in 1 .. Len(whole)
        PROVE  whole[i] = target[Consumed + i]
    <2>1. CASE i <= Len(line)
      <3>1. i \in 1 .. Len(line)
        BY <1>1, <2>1
      <3> QED
        BY <1>4, <3>1 DEF HeldIsContent
    <2>2. CASE i > Len(line)
      <3> DEFINE j == i - Len(line)
      <3>1. /\ j \in 1 .. e - 1 /\ j \in 1 .. Len(buf)
            /\ i = Len(line) + j
            /\ off - Len(buf) + j = Consumed + i
        BY <1>1, <1>4, <2>2
      <3> HIDE DEF j
      <3>2. whole[i] = buf[j]
        BY <1>4, <3>1
      <3>3. buf[j] = target[off - Len(buf) + j]
        BY <3>1 DEF HeldIsContent
      <3> QED
        BY <3>1, <3>2, <3>3
    <2> QED
      BY <1>1, <1>4, <2>1, <2>2
  <1>6. ASSUME NEW i \in Consumed + 1 .. end - 1
        PROVE  target[i] # NL
    <2> DEFINE k == i - Consumed
    <2>1. k \in 1 .. Len(whole) /\ Consumed + k = i
      BY <1>1, <1>2, <1>4
    <2> HIDE DEF k
    <2>2. whole[k] \in Bytes
      BY <1>4, <2>1, ElementOfSeq
    <2> QED
      BY <1>5, <2>1, <2>2, NLAssumption
  <1>7. whole = part
    <2>1. /\ Consumed + 1 \in 1 .. Len(target) + 1
          /\ end - 1 \in (Consumed + 1) - 1 .. Len(target)
          /\ (end - 1) - (Consumed + 1) + 1 = Len(whole)
      BY <1>1, <1>2, <1>4
    <2>2. /\ part \in Seq(Char)
          /\ Len(part) = Len(whole)
          /\ \A i \in 1 .. Len(whole) : part[i] = target[(Consumed + 1) + i - 1]
      <3>1. /\ part \in Seq(Char)
            /\ Len(part) = (end - 1) - (Consumed + 1) + 1
            /\ \A i \in 1 .. (end - 1) - (Consumed + 1) + 1 :
                 part[i] = target[(Consumed + 1) + i - 1]
        <4>1. target \in Seq(Char)
          BY DEF TypeOK
        <4> HIDE DEF end
        <4> QED
          BY <2>1, <4>1, PartFacts
      <3> QED
        BY <2>1, <3>1
    <2>3. \A i \in 1 .. Len(whole) : (Consumed + 1) + i - 1 = Consumed + i
      BY <1>1
    <2>4. whole \in Seq(Char)
      BY <1>4, SeqMonotonic DEF Char
    <2> HIDE DEF part
    <2>5. \A i \in 1 .. Len(whole) : part[i] = whole[i]
      BY <1>5, <2>2, <2>3
    <2> QED
      BY <2>2, <2>4, <2>5, SeqEqual
  <1>8. Feed!LineEndsAt(end)
    BY <1>2, <1>3, <1>6 DEF Feed!LineEndsAt
  <1> HIDE DEF end
  <1>9. whole = SubSeq(target, Consumed + 1, end - 1)
    BY <1>7 DEF part
  <1> QED
    BY <1>2, <1>8, <1>9 DEF end, whole

LEMMA FeedStep == Inv /\ [Next]_vars => [Feed!Next]_Feed!vars
  <1> SUFFICES ASSUME Inv, [Next]_vars PROVE [Feed!Next]_Feed!vars
    OBVIOUS
  <1>1. TypeOK /\ TypeOK' /\ HeldIsContent
    BY TypeStep DEF Inv
  <1>2. CASE Extend
    <2>1. PICK b \in Char : target' = Append(target, b)
      BY <1>2 DEF Extend
    <2>2. /\ target \in Seq(Char) /\ target' \in Seq(Char)
          /\ Len(target) \in Nat
          /\ Len(target') = Len(target) + 1
          /\ \A i \in 1 .. Len(target) : target'[i] = target[i]
      BY <1>1, <2>1, AppendProperties, LenProperties DEF TypeOK
    <2>3. UNCHANGED <<Consumed, parsed, pc>>
      BY <1>2 DEF Extend, readVars, Consumed, Held
    <2>4. Len(target) < Len(target')
      BY <2>2
    <2>5. target' \in Seq(Feed!Char)
      <3>1. Feed!Char = Char
        BY DEF Feed!Char, Char
      <3> QED
        BY <2>2, <3>1
    <2>6. Feed!Extend
      BY <2>2, <2>3, <2>4, <2>5 DEF Feed!Extend
    <2> QED
      BY <2>6 DEF Feed!Next
  <1>3. CASE ReadLine
    <2>1. PICK e \in 1 .. Len(buf) :
            /\ NewlineAt(e)
            /\ parsed' = Append(parsed, line \o SubSeq(buf, 1, e - 1))
            /\ buf' = SubSeq(buf, e + 1, Len(buf))
      BY <1>3 DEF ReadLine
    <2>2. /\ Len(line') = 0 /\ pc = "read"
          /\ UNCHANGED <<target, off, pc>>
      BY <1>3 DEF ReadLine, envVars
    <2>3. PICK end \in Consumed + 1 .. Len(target) :
            /\ end = off - Len(buf) + e
            /\ Feed!LineEndsAt(end)
            /\ line \o SubSeq(buf, 1, e - 1)
                 = SubSeq(target, Consumed + 1, end - 1)
      BY <1>1, <2>1, WholeLine
    <2>4. Consumed' = end
      <3>1. Len(buf') = Len(buf) - e
        BY <1>1, <2>1, TakenFacts DEF TypeOK
      <3> QED
        BY <1>1, <2>2, <2>3, <3>1, Lengths DEF Consumed, Held
    <2>5. Feed!Emit
      BY <2>1, <2>2, <2>3, <2>4 DEF Feed!Emit
    <2> QED
      BY <2>5 DEF Feed!Next
  <1>4. CASE ~Extend /\ ~ReadLine
    <2>1. UNCHANGED <<target, Consumed, parsed>>
      <3>1. CASE Fill
        <4>1. /\ off' = off + ReadSize /\ Len(buf') = Len(buf) + ReadSize
              /\ ReadSize \in Nat /\ UNCHANGED <<target, line, parsed>>
          BY <1>1, <3>1, FillFacts
        <4>2. off' - (Len(line') + Len(buf')) = off - (Len(line) + Len(buf))
          BY <1>1, <4>1, Lengths
        <4> QED
          BY <4>1, <4>2 DEF Consumed, Held
      <3>2. CASE Gather
        <4>1. Len(line') + Len(buf') = Len(line) + Len(buf)
          BY <1>1, <3>2, GatherFacts, Lengths
        <4> QED
          BY <3>2, <4>1 DEF Gather, Consumed, Held
      <3>3. CASE WriteOut \/ Truncate \/ Quiet
        BY <3>3 DEF WriteOut, Truncate, Quiet, readVars, Consumed, Held
      <3> QED
        BY <1>4, <3>1, <3>2, <3>3, StepKinds
    <2>2. pc = "done" => pc' = "done"
      <3>1. Follower => pc # "done"
        BY DEF Follower, StartFollowing, StartFails, StartReading, Fill,
               ReadLine, ReadTooLong, ReadEOF, AtEOF, ReadError, WaitEvent,
               WaitError, WaitClosed
      <3>2. Environment \/ User \/ UNCHANGED vars => UNCHANGED pc
        BY DEF Environment, User, vars, Extend, WriteOut, Truncate, Notify,
               Touch, CloseWatcher, CloseHandle
      <3> QED
        BY <3>1, <3>2 DEF Next
    <2> QED
      BY <2>1, <2>2, FeedQuiet
  <1> QED
    BY <1>2, <1>3, <1>4

\* followLines implements LineFeed: parseLine gets the complete lines of the
\* content, in order, each once and whole.
THEOREM Implements == SafeSpec => ImplementsFeed
  BY FeedInit, FeedStep, InitInv, InvStep, PTL
     DEF SafeSpec, ImplementsFeed, Feed!Spec
=============================================================================
