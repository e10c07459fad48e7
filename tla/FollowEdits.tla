---------------------------- MODULE FollowEdits -----------------------------
(***************************************************************************)
(* FollowLines with an owner who edits: what is saved on top of the file   *)
(* need not begin with what was there.  The follower's offset then points  *)
(* into another text, and its `line` and buffer hold bytes of the old one. *)
(***************************************************************************)
EXTENDS FollowLines, FiniteSets

VARIABLE replaced    \* history: the contents that were saved over, oldest first

editVars == <<vars, replaced>>

Contents == UNION {[1 .. n -> Char] : n \in 0 .. MaxFile}

\* A denylist that is not followed is read once: edits are a follower's matter.
EditInit ==
  /\ Init
  /\ follow
  /\ replaced = << >>

\* The owner opens the file with O_TRUNC, and WriteOut then writes another
\* content into it.
Edit ==
  /\ saves < MaxSaves
  /\ file # << >>
  /\ target' \in Contents \ {target}
  /\ replaced' = Append(replaced, target)
  /\ file' = << >>
  /\ saves' = saves + 1
  /\ unnotified' = TRUE
  /\ UNCHANGED <<follow, handle, watcher, queue, user, pc, readVars, failed>>

EditNext == Edit \/ (Next /\ UNCHANGED replaced)

EditSpec == EditInit /\ [][EditNext]_editVars /\ Fairness

-----------------------------------------------------------------------------
(* Properties.                                                             *)

\* A line of a content begins behind byte b and ends with the newline at e.
LineAt(c, b, e) ==
  /\ b = 0 \/ c[b] = NL
  /\ c[e] = NL
  /\ \A i \in b + 1 .. e - 1 : c[i] # NL

\* The complete lines of a content.
LinesOf(c) ==
  UNION {{SubSeq(c, b + 1, e - 1) : b \in {b \in 0 .. e - 1 : LineAt(c, b, e)}} :
           e \in 1 .. Len(c)}

SavedLines ==
  LinesOf(target) \cup UNION {LinesOf(replaced[i]) : i \in 1 .. Len(replaced)}

\* "It seems to work when saving on top of a file": each edit makes at most
\* one line that nobody wrote, put together from both texts where the handle
\* stood; followLines finds its way back to whole lines by itself.
Torn == {i \in 1 .. Len(parsed) : parsed[i] \notin SavedLines}

TornOncePerSave == Cardinality(Torn) <= Len(replaced)

\* Why, as an inductive invariant: what has been read and not been parsed
HeldBytes == line \o buf

\* is in step with the content when the line that has yet to end is, so far,
\* a line of it,
InStep ==
  /\ off <= Len(target)
  /\ \E b \in 0 .. Len(HeldBytes) :
       LET begin == off - Len(HeldBytes) + b IN
       /\ b = 0 \/ HeldBytes[b] = NL
       /\ begin = 0 \/ (begin > 0 /\ target[begin] = NL)
       /\ \A i \in b + 1 .. Len(HeldBytes) :
            /\ HeldBytes[i] # NL
            /\ HeldBytes[i] = target[off - Len(HeldBytes) + i]

\* its first line, once it has come to an end, may be torn,
FirstTorn ==
  \E e \in 1 .. Len(HeldBytes) :
    LineAt(HeldBytes, 0, e) /\ SubSeq(HeldBytes, 1, e - 1) \notin SavedLines

\* those behind it are not,
RestWhole ==
  \A e \in 1 .. Len(HeldBytes) : \A b \in 1 .. e - 1 :
    LineAt(HeldBytes, b, e) => SubSeq(HeldBytes, b + 1, e - 1) \in SavedLines

\* and every line that is torn, or may become so, has an edit to blame.
OneForEach ==
  Cardinality(Torn) + (IF FirstTorn THEN 1 ELSE 0) + (IF InStep THEN 0 ELSE 1)
    <= Len(replaced)

EditInv ==
  /\ TypeOK
  /\ replaced \in Seq(Seq(Char))
  /\ Len(file) <= Len(target)
  /\ \A i \in 1 .. Len(file) : file[i] = target[i]
  /\ RestWhole
  /\ OneForEach

\* A line that ends beyond the handle's offset is read in the end, be it the
\* rest of an edited content or one that was appended to it later, unless it
\* is edited away or followLines stops.  What changed in front of the offset
\* is not read again, and this says nothing of it.
AppendedDelivered ==
  \A n \in 1 .. MaxFile :
    (n \in off + 1 .. Len(target) /\ target[n] = NL)
      ~> \/ Consumed >= n
         \/ pc = "done"
         \/ n > Len(target)
         \/ target[n] # NL
=============================================================================
