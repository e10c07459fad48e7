------------------------------- MODULE Header --------------------------------
(***************************************************************************)
(* DenylistHeader.Decode and readHeader (denylist.go): look for the line   *)
(* "---" within the first maxHeaderSize bytes of a file, which may grow    *)
(* meanwhile, and leave the handle where the rules begin, with the number  *)
(* of lines in front of them.                                              *)
(*                                                                         *)
(* A file only grows here, so bytes are known by their place in it:        *)
(* ReadBytes has gathered, or the bufio.Reader holds, those from           *)
(* headerBytes + 1 to off.                                                 *)
(***************************************************************************)
EXTENDS Integers, Sequences, FiniteSets

CONSTANTS
  Bytes,         \* the bytes of a file
  NL,            \* the newline byte
  Separator,     \* "---\n"
  MaxHeaderSize, \* maxHeaderSize
  BufSize,       \* the size of the bufio.Reader's buffer
  MaxFile        \* bound: bytes the file ever has

ASSUME HeaderAssumption ==
  /\ NL \in Bytes
  /\ Separator \in Seq(Bytes) /\ Separator # << >>
  /\ \A i \in 1 .. Len(Separator) : Separator[i] = NL <=> i = Len(Separator)
  /\ MaxHeaderSize \in Nat
  /\ BufSize \in Nat \ {0}
  /\ MaxFile \in Nat

VARIABLES
  file,          \* the content of the file
  opened,        \* history: how much there was when it was opened
  pc,            \* "decode", "yaml" or "done"
  off,           \* bytes read from the file
  headerBytes,   \* len(h.headerBytes)
  headerLines,   \* h.headerLines
  result,        \* "unknown" at first, then "found", "none" or "failed"
  start          \* where followLines begins to read

vars == <<file, opened, pc, off, headerBytes, headerLines, result, start>>

Init ==
  /\ file \in UNION {[1 .. n -> Bytes] : n \in 0 .. MaxFile}
  /\ opened = Len(file)
  /\ pc = "decode"
  /\ off = 0
  /\ headerBytes = 0
  /\ headerLines = 0
  /\ result = "unknown"
  /\ start = 0

\* The owner appends to the file.
Extend ==
  /\ Len(file) < MaxFile
  /\ \E b \in Bytes : file' = Append(file, b)
  /\ UNCHANGED <<opened, pc, off, headerBytes, headerLines, result, start>>

-----------------------------------------------------------------------------
(* DenylistHeader.Decode.                                                  *)

Decoding == pc = "decode"

\* The line in the bufio.Reader that ends first ends at e.
LineEndsAt(e) ==
  /\ e \in headerBytes + 1 .. off
  /\ file[e] = NL
  /\ \A i \in headerBytes + 1 .. e - 1 : file[i] # NL

NoLine == \A i \in headerBytes + 1 .. off : file[i] # NL

\* limRdr.N
Limit == MaxHeaderSize - off

Smaller(m, n) == IF m <= n THEN m ELSE n

\* bufio's fill: one read of what fits behind the bytes in the buffer (one
\* that is full has been set aside), cut by the limited reader and by what
\* the file has.
ReadSize ==
  Smaller(BufSize - ((off - headerBytes) % BufSize), Smaller(Limit, Len(file) - off))

Fill ==
  /\ Decoding
  /\ NoLine
  /\ ReadSize > 0
  /\ off' = off + ReadSize
  /\ UNCHANGED <<file, opened, pc, headerBytes, headerLines, result, start>>

\* Mutant: a buffer that is full is taken for a line, as ReadSlice gives it.
HeaderLineFull ==
  /\ Decoding
  /\ \E e \in headerBytes + 1 .. off :
       /\ \/ LineEndsAt(e)
          \/ NoLine /\ e = off /\ (off - headerBytes) % BufSize = 0
       /\ SubSeq(file, headerBytes + 1, e) # Separator
       /\ headerBytes' = e
  /\ headerLines' = headerLines + 1
  /\ UNCHANGED <<file, opened, pc, off, result, start>>

\* A line of the header.
HeaderLine ==
  /\ Decoding
  /\ \E e \in headerBytes + 1 .. off :
       /\ LineEndsAt(e)
       /\ SubSeq(file, headerBytes + 1, e) # Separator
       /\ headerBytes' = e
  /\ headerLines' = headerLines + 1
  /\ UNCHANGED <<file, opened, pc, off, result, start>>

\* The separator: the bytes before it are the header's YAML.
SeparatorLine ==
  /\ Decoding
  /\ \E e \in headerBytes + 1 .. off :
       /\ LineEndsAt(e)
       /\ SubSeq(file, headerBytes + 1, e) = Separator
  /\ headerLines' = headerLines + 1
  /\ pc' = "yaml"
  /\ UNCHANGED <<file, opened, off, headerBytes, result, start>>

\* Mutant: what the limit has cut off is not searched for the last line.
NoHeaderEager ==
  /\ Decoding
  /\ (NoLine /\ off = Len(file)) \/ Limit = 0
  /\ headerBytes' = 0
  /\ headerLines' = 0
  /\ pc' = "done"
  /\ result' = "none"
  /\ start' = 0
  /\ UNCHANGED <<file, opened, off>>

\* io.EOF, from the file or the limit: ErrHeaderNotFound, and readHeader goes
\* back to the first byte.
NoHeader ==
  /\ Decoding
  /\ NoLine
  /\ off = Len(file) \/ Limit = 0
  /\ headerBytes' = 0
  /\ headerLines' = 0
  /\ pc' = "done"
  /\ result' = "none"
  /\ start' = 0
  /\ UNCHANGED <<file, opened, off>>

\* The YAML or its version is no good, or there is a read or seek error: the
\* denylist is closed and not used.
Fails ==
  /\ pc # "done"
  /\ pc' = "done"
  /\ result' = "failed"
  /\ UNCHANGED <<file, opened, off, headerBytes, headerLines, start>>

\* Mutant: the separator is taken for a line of rules.
FoundShort ==
  /\ pc = "yaml"
  /\ pc' = "done"
  /\ result' = "found"
  /\ start' = headerBytes
  /\ UNCHANGED <<file, opened, off, headerBytes, headerLines>>

\* readHeader undoes the read-ahead: it goes to the byte after the separator.
Found ==
  /\ pc = "yaml"
  /\ pc' = "done"
  /\ result' = "found"
  /\ start' = headerBytes + Len(Separator)
  /\ UNCHANGED <<file, opened, off, headerBytes, headerLines>>

-----------------------------------------------------------------------------
Next ==
  \/ Extend
  \/ Fill \/ HeaderLine \/ SeparatorLine \/ NoHeader \/ Fails \/ Found

Spec == Init /\ [][Next]_vars

-----------------------------------------------------------------------------
(* Properties.                                                             *)

\* There is a separator on a line of its own of f that ends at byte e.
SeparatorAt(f, e) ==
  /\ e >= Len(Separator)
  /\ e > Len(Separator) => f[e - Len(Separator)] = NL
  /\ \A i \in 1 .. Len(Separator) : f[e - Len(Separator) + i] = Separator[i]

\* The lines among the first n bytes of f.
LinesIn(f, n) == Cardinality({i \in 1 .. n : f[i] = NL})

\* Rules are read from the byte after the first separator, or else from the
\* first byte, and counted on from the lines before that: whatever was read
\* ahead, whichever lines straddle a buffer, and at whatever bytes the file
\* ended meanwhile.
RulesBegin ==
  /\ result = "found" =>
       /\ start \in 1 .. Len(file)
       /\ SeparatorAt(file, start)
       /\ \A e \in 1 .. start - 1 : ~SeparatorAt(file, e)
  /\ result \in {"found", "none"} => headerLines = LinesIn(file, start)

\* A header that was in the file when it was opened is not overlooked, however
\* many reads it takes and up to one that takes all of maxHeaderSize.  (That is
\* the constant, "1MiB per the spec"; the comment on Decode has 1KiB.)
HeaderSeen ==
  result = "none" =>
    \A e \in 1 .. opened : e <= MaxHeaderSize => ~SeparatorAt(file, e)

\* Why, as an inductive invariant: what is behind are whole lines, none of
\* them the separator.
Inv ==
  /\ file \in Seq(Bytes)
  /\ opened \in 0 .. Len(file)
  /\ pc \in {"decode", "yaml", "done"}
  /\ result \in {"unknown", "found", "none", "failed"}
  /\ pc # "done" <=> result = "unknown"
  /\ result = "none" => start = 0
  /\ headerLines \in Nat
  /\ off \in 0 .. Len(file) /\ off <= MaxHeaderSize
  /\ headerBytes \in 0 .. off
  /\ headerBytes > 0 => file[headerBytes] = NL
  /\ pc # "done" => \A e \in 1 .. headerBytes : ~SeparatorAt(file, e)
  /\ pc = "decode" => headerLines = LinesIn(file, headerBytes)
  /\ pc = "yaml" =>
       /\ headerBytes + Len(Separator) <= off
       /\ SeparatorAt(file, headerBytes + Len(Separator))
       /\ headerLines = LinesIn(file, headerBytes) + 1
  /\ RulesBegin
  /\ HeaderSeen
=============================================================================
