------------------------------ MODULE Blocker -------------------------------
(***************************************************************************)
(* The life of a Blocker (blocker.go): MakeBlocker (plugin.go) lists the   *)
(* ".deny" files of two directories (util.go), NewBlocker opens and        *)
(* follows each as a Denylist, their rules are parsed while the Blocker is *)
(* in use, and Close closes every one of them.                             *)
(*                                                                         *)
(* A Denylist is known by its place among the files: one file may be       *)
(* listed twice, when both directories are the same.  What a Denylist does *)
(* to answer and to follow is in Denylist and FollowLines; here it is what *)
(* they promise.                                                           *)
(***************************************************************************)
EXTENDS Integers, SequencesExt

CONSTANTS
  Trees,       \* what the two directories may hold: what each walk visits, in
               \* lexical order, the directory itself first:
               \* [path, kind, below], the last for how many of the entries
               \* that come next are inside it
  Contents     \* what the files may hold: a function from a path to the
               \* rules on its lines, [covers, allow]

ASSUME TreesAssumption ==
  \A t \in Trees : Len(t) \in Nat /\ DOMAIN t = 1 .. Len(t) /\
    \A d \in DOMAIN t : Len(t[d]) \in Nat /\ DOMAIN t[d] = 1 .. Len(t[d]) /\
      \A e \in DOMAIN t[d] :
        /\ t[d][e].kind \in {"dir", "deny", "other"}
        /\ t[d][e].below \in 0 .. Len(t[d]) - e
        /\ t[d][e].kind = "deny" => \A c \in Contents : t[d][e].path \in DOMAIN c

VARIABLES
  tree,        \* the two directories
  content,     \* the rules of each file
  pc,          \* "walk", "open", "serve", "closing", "closed" or "failed"
  at,          \* the walk: <<directory, entry>> it visits next
  ended,       \* history: of each walk that is over, the entry it ended at
  files,       \* the denylist files listed so far
  parsed,      \* of each file opened so far, the lines its goroutine has parsed
  running,     \* the Denylists whose goroutine follows its file
  live,        \* the Denylists whose handle and watcher are open
  denylists,   \* blocker.Denylists
  errors,      \* how many files failed to open
  toClose,     \* those of them that Close has not come to
  broken       \* history: the files that failed to open

walkVars == <<tree, content, at, ended, files>>
listVars == <<parsed, running, live, denylists, errors, toClose>>
blockerVars == <<walkVars, pc, listVars, broken>>

\* The rules on the first n lines of a file.
Lines(path, n) == {content[path][m] : m \in 1 .. n}

\* The rules that Denylist i answers by.
Book(i) == Lines(files[i], parsed[i])

Handle == DOMAIN parsed

BlockerTypeOK ==
  /\ tree \in Trees
  /\ content \in Contents
  /\ pc \in {"walk", "open", "serve", "closing", "closed", "failed"}
  /\ at \in (Nat \ {0}) \X (Nat \ {0})
  /\ ended \in Seq(Nat)
  /\ files \in Seq(DOMAIN content)
  /\ parsed \in Seq(Nat)
  /\ Len(parsed) <= Len(files)
  /\ running \subseteq Handle /\ live \subseteq Handle
  /\ denylists \subseteq Handle /\ toClose \subseteq denylists
  /\ errors \in Nat

BlockerInit ==
  /\ tree \in Trees
  /\ content \in Contents
  /\ pc = "walk"
  /\ at = <<1, 1>>
  /\ ended = << >>
  /\ files = << >>
  /\ parsed = << >>
  /\ running = {}
  /\ live = {}
  /\ denylists = {}
  /\ errors = 0
  /\ toClose = {}
  /\ broken = {}

-----------------------------------------------------------------------------
(* GetDenylistFiles: one WalkDir after the other.                          *)

Walking == pc = "walk" /\ at[1] <= Len(tree)
AtEntry == Walking /\ at[2] <= Len(tree[at[1]])
Here == tree[at[1]][at[2]]

\* The next entry: a file is listed for its extension, whether or not it can
\* be read.
Visit ==
  /\ AtEntry
  /\ files' = IF Here.kind = "deny" THEN Append(files, Here.path) ELSE files
  /\ at' = <<at[1], at[2] + 1>>
  /\ UNCHANGED <<tree, content, ended, pc, listVars, broken>>

\* WalkDir returns to GetDenylistFiles, which goes on to the next directory.
WalkReturns ==
  /\ at' = <<at[1] + 1, 1>>
  /\ ended' = Append(ended, at[2])
  /\ UNCHANGED <<tree, content, files, pc, listVars, broken>>

WalkEnds ==
  /\ Walking
  /\ ~AtEntry
  /\ WalkReturns

\* A directory does not exist, or is gone by the time it is read: the whole
\* walk ends there, with what it has, and it is no error.
Vanished ==
  /\ AtEntry
  /\ Here.kind = "dir"
  /\ WalkReturns

\* A directory cannot be read: no Blocker is made.
Unreadable ==
  /\ AtEntry
  /\ Here.kind = "dir"
  /\ pc' = "failed"
  /\ UNCHANGED <<walkVars, listVars, broken>>

Listed ==
  /\ pc = "walk"
  /\ at[1] > Len(tree)
  /\ pc' = "open"
  /\ UNCHANGED <<walkVars, listVars, broken>>

-----------------------------------------------------------------------------
(* NewBlocker.                                                             *)

Opening == pc = "open" /\ Len(parsed) < Len(files)
Newest == Len(parsed) + 1

\* NewDenylist opens, watches and begins to follow the next file; a Denylist
\* of the same path is dropped from the map, and is not closed.
Open ==
  /\ Opening
  /\ parsed' = Append(parsed, 0)
  /\ running' = running \cup {Newest}
  /\ live' = live \cup {Newest}
  /\ denylists' = {i \in denylists : files[i] # files[Newest]} \cup {Newest}
  /\ UNCHANGED <<walkVars, pc, errors, toClose, broken>>

\* Mutant: the first file that fails ends the loop.
OpenFailsBreak ==
  /\ Opening
  /\ parsed' = parsed \o [i \in 1 .. Len(files) - Len(parsed) |-> 0]
  /\ errors' = errors + 1
  /\ broken' = broken \cup {files[Newest]}
  /\ UNCHANGED <<walkVars, pc, running, live, denylists, toClose>>

\* It fails: what it opened is closed again, and the other files are used.
OpenFails ==
  /\ Opening
  /\ parsed' = Append(parsed, 0)
  /\ errors' = errors + 1
  /\ broken' = broken \cup {files[Newest]}
  /\ UNCHANGED <<walkVars, pc, running, live, denylists, toClose>>

\* Mutant: one error is as good as all.
OpenedAny ==
  /\ pc = "open"
  /\ Len(parsed) = Len(files)
  /\ pc' = IF errors > 0 THEN "failed" ELSE "serve"
  /\ UNCHANGED <<walkVars, listVars, broken>>

\* There is a Blocker, unless there are files and all of them failed.
Opened ==
  /\ pc = "open"
  /\ Len(parsed) = Len(files)
  /\ pc' = IF errors > 0 /\ errors = Len(files) THEN "failed" ELSE "serve"
  /\ UNCHANGED <<walkVars, listVars, broken>>

-----------------------------------------------------------------------------
(* The Denylists at work.                                                  *)

\* followLines parses one more line, perhaps one that it had read before its
\* Denylist was closed.
Parse(i) ==
  /\ i \in running
  /\ parsed[i] < Len(content[files[i]])
  /\ parsed' = [parsed EXCEPT ![i] = @ + 1]
  /\ UNCHANGED <<walkVars, pc, running, live, denylists, errors, toClose, broken>>

\* followLines ends on an error and closes its Denylist, or because it was
\* closed.
FollowerEnds(i) ==
  /\ i \in running
  /\ running' = running \ {i}
  /\ live' = live \ {i}
  /\ UNCHANGED <<walkVars, pc, parsed, denylists, errors, toClose, broken>>

-----------------------------------------------------------------------------
(* Blocker.Close.                                                          *)

Close ==
  /\ pc = "serve"
  /\ pc' = "closing"
  /\ toClose' = denylists
  /\ UNCHANGED <<walkVars, parsed, running, live, denylists, errors, broken>>

\* Mutant: an error of one Close, such as that of a Denylist which followLines
\* has closed, ends the loop.
CloseDenylistStops(i) ==
  /\ pc = "closing"
  /\ i \in toClose
  /\ toClose' = IF i \in live THEN toClose \ {i} ELSE {}
  /\ live' = live \ {i}
  /\ UNCHANGED <<walkVars, pc, parsed, running, denylists, errors, broken>>

\* One Denylist.Close, in the order of a map iteration; its error is noted.
CloseDenylist(i) ==
  /\ pc = "closing"
  /\ i \in toClose
  /\ toClose' = toClose \ {i}
  /\ live' = live \ {i}
  /\ UNCHANGED <<walkVars, pc, parsed, running, denylists, errors, broken>>

CloseReturns ==
  /\ pc = "closing"
  /\ toClose = {}
  /\ pc' = "closed"
  /\ UNCHANGED <<walkVars, listVars, broken>>

-----------------------------------------------------------------------------
MakeBlocker ==
  \/ Visit \/ WalkEnds \/ Vanished \/ Unreadable \/ Listed
  \/ Open \/ OpenFails \/ Opened

Followers == \E i \in Handle : Parse(i) \/ FollowerEnds(i)

Closing == CloseReturns \/ \E i \in toClose : CloseDenylist(i)

-----------------------------------------------------------------------------
(* Properties.                                                             *)

\* There is a Blocker to ask.
Serving == pc \in {"serve", "closing", "closed"}

\* A walk has come to entry n of directory d, and gone on.
Passed(d, n) ==
  \/ d <= Len(ended) /\ n < ended[d]
  \/ d = at[1] /\ n < at[2]

\* Every denylist file that a walk came to has a Denylist that is asked, or
\* failed to open: wherever either walk ended, whichever other files fail to
\* open, and whatever is listed twice.  (What a walk does not come to is the
\* matter of NoFileLost.)
EveryFileEnforced ==
  Serving =>
    \A d \in DOMAIN tree : \A n \in DOMAIN tree[d] :
      Passed(d, n) /\ tree[d][n].kind = "deny" =>
        tree[d][n].path \in {files[i] : i \in denylists} \cup broken

\* A Blocker that would let everything pass is only made when there is no
\* denylist, and none is left open when no Blocker is made.
FailsClosed ==
  /\ Serving /\ files # << >> => denylists # {}
  /\ pc = "failed" => live = {}

\* After Close nothing is left open, whatever errors there were on the way,
\* but a Denylist whose file was listed twice and which is in nobody's hands.
ClosesAll ==
  pc = "closed" =>
    \A i \in live : \E j \in denylists : j > i /\ files[j] = files[i]

\* Why, as an inductive invariant.  What a walk has passed is listed, what is
\* listed and opened is in the map, and errors tell whether anything is;
Covered ==
  /\ \A d \in DOMAIN tree : \A n \in DOMAIN tree[d] :
       Passed(d, n) /\ tree[d][n].kind = "deny" => tree[d][n].path \in Range(files)
  /\ Len(ended) + 1 = at[1]
  /\ pc \notin {"walk", "failed"} => Len(tree) <= Len(ended)
  /\ \A n \in Handle : files[n] \in {files[i] : i \in denylists} \cup broken
  /\ errors <= Len(parsed)
  /\ denylists = {} <=> errors = Len(parsed)
  /\ pc = "walk" => parsed = << >>
  /\ Serving => Len(parsed) = Len(files)

\* what is open is in the map or has a successor there, until it is closed.
Accounted ==
  /\ \A i \in live :
       i \in denylists \/ \E j \in denylists : j > i /\ files[j] = files[i]
  /\ pc # "closing" => toClose = {}
  /\ pc = "closing" => live \cap denylists \subseteq toClose
  /\ pc = "closed" => live \cap denylists = {}

BlockerInv ==
  /\ BlockerTypeOK
  /\ Covered
  /\ Accounted
  /\ FailsClosed

-----------------------------------------------------------------------------
(* What the comments say and the code does not do.                         *)

\* The walk of directory d ended at a directory that entry n is inside of.
Gone(d, n) ==
  /\ ended[d] \in DOMAIN tree[d]
  /\ n \in ended[d] .. ended[d] + tree[d][ended[d]].below

\* GetDenylistFilesInDir "returns a list of ".deny" files found in the given
\* directory": all of them, but those whose own directory does not exist.
NoFileLost ==
  pc \notin {"walk", "failed"} =>
    \A d \in DOMAIN tree : \A n \in DOMAIN tree[d] :
      tree[d][n].kind = "deny" /\ ~Gone(d, n) => tree[d][n].path \in Range(files)
=============================================================================
