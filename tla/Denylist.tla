------------------------------ MODULE Denylist ------------------------------
(***************************************************************************)
(* A Denylist (denylist.go) that is followed while it is asked: the        *)
(* goroutine of followLines parses lines and stores their rules, place by  *)
(* place, and any number of goroutines look paths and CIDs up, place by    *)
(* place.  Nothing orders the two but the sync.Map inside each BlocksDB:   *)
(* the map DoubleHashBlocksDB and the slice PathPrefixBlocks are written   *)
(* and read without a lock.                                                *)
(***************************************************************************)
EXTENDS Rules

CONSTANTS
  Rules,       \* the rules that may be appended to the file
  Queries,     \* what may be asked
  Readers,     \* the goroutines that ask
  MaxLines     \* bound: lines appended to the file

\* The rules are those that parseLine tells apart.  A double-hash rule has
\* no path, and one text to be read as one hash or two, a multihash and then
\* a sha2-256 digest.
ASSUME RulesAssumption ==
  \A r \in Rules :
    /\ r.kind \in {"ipfs", "ipns", "path", "dh", "ignored", "blank"}
    /\ r.allow \in BOOLEAN
    /\ r.kind = "dh" =>
         /\ r.raw = << >>
         /\ \E n \in {1, 2} : DOMAIN r.on = 1 .. n
         /\ 2 \in DOMAIN r.on => r.on[2].code = SHA2_256

ASSUME RawAssumption == \A r \in Rules : r.raw \in Seq(RawChar)

\* The subpath of a query is the segments of a path, joined.
ASSUME QueriesAssumption ==
  \A q \in Queries :
    /\ q.api \in {"ipfs", "ipns", "cid"}
    /\ q.api = "cid" => q.sub = << >>
    /\ q.api # "ipns" => q.on \in Cids
    /\ TrimLeft(TrimRight(q.sub)) = q.sub

\* No domain name is a multihash.
ASSUME NamesAssumption ==
  \A r \in Rules : r.kind = "ipns" /\ r.on \notin Cids => \A c \in Cids : c.mh # r.on

ASSUME BoundAssumption == MaxLines \in Nat

VARIABLES
  \* the Denylist
  db,          \* the entries under each key, of all the BlocksDBs, oldest first
  dhCodes,     \* the keys of DoubleHashBlocksDB
  entries,     \* dl.Entries
  \* parseLine
  number,      \* lineNumber
  current,     \* the entry of the line in hand
  pending,     \* the keys it has yet to be stored under
  writing,     \* a write to the unsynchronised map or slice has begun
  \* the readers
  asked,       \* what each reader asks
  step,        \* which of its lookups is next; 0 when it asks nothing
  owed,        \* hash functions that its map iteration has yet to produce
  seen,        \* hash functions that it has produced
  answer,      \* the last StatusResponse, or "none" while it is worked out
  since,       \* history: the entries there were when it asked
  \* the process
  crashed      \* "no", or what stopped it

writerVars == <<db, dhCodes, entries, number, current, pending, writing>>
readerVars == <<asked, step, owed, seen, answer, since>>
vars == <<writerVars, readerVars, crashed>>

Status == {"notfound", "blocked", "allowed"}
NoAnswer == [status |-> "none", line |-> 0]
NoEntry == [line |-> 0]

\* Every key the rules can be stored under.
AllKeys == {PrefixBlocks} \cup UNION {Range(Keys(r)) : r \in Rules}
DhKeys == {k \in AllKeys : k[1] = "dh"}
Codes == {k[2] : k \in DhKeys}
Entries == {Entry(n, r) : n \in 1 .. MaxLines, r \in Rules}

TypeOK ==
  /\ db \in [AllKeys -> Seq(Entries)]
  /\ dhCodes \subseteq Codes
  /\ entries \in Seq(Entries)
  /\ number \in 0 .. MaxLines
  /\ current \in Entries \cup {NoEntry}
  /\ pending \in Seq(AllKeys)
  /\ pending # << >> => current \in Entries
  /\ writing \in BOOLEAN
  /\ writing => pending # << >>
  /\ asked \in [Readers -> Queries]
  /\ step \in [Readers -> Nat]
  /\ \A r \in Readers : step[r] <= Len(Probes(asked[r])) + 1
  /\ owed \in [Readers -> SUBSET Codes]
  /\ seen \in [Readers -> SUBSET Codes]
  /\ DOMAIN answer = Readers
  /\ \A r \in Readers : answer[r].status \in Status \cup {"none"}
  /\ since \in [Readers -> Nat]
  /\ crashed \in {"no", "panic", "race"}

Init ==
  /\ db = [k \in AllKeys |-> << >>]
  /\ dhCodes = {}
  /\ entries = << >>
  /\ number = 0
  /\ current = NoEntry
  /\ pending = << >>
  /\ writing = FALSE
  /\ asked \in [Readers -> Queries]
  /\ step = [r \in Readers |-> 0]
  /\ owed = [r \in Readers |-> {}]
  /\ seen = [r \in Readers |-> {}]
  /\ answer = [r \in Readers |-> NoAnswer]
  /\ since = [r \in Readers |-> 0]
  /\ crashed = "no"

-----------------------------------------------------------------------------
(* parseLine.                                                              *)

\* Mutant: the entry of the line before is stored again.
ParseLineStale ==
  /\ crashed = "no"
  /\ pending = << >>
  /\ number < MaxLines
  /\ number' = number + 1
  /\ \E r \in Rules :
       CASE r.kind = "blank"   -> crashed' = "panic" /\ UNCHANGED pending
         [] r.kind = "ignored" -> UNCHANGED <<pending, crashed>>
         [] Safe(r)            -> UNCHANGED <<pending, crashed>>
         [] OTHER              -> pending' = Keys(r) /\ UNCHANGED crashed
  /\ UNCHANGED <<db, dhCodes, entries, current, writing, readerVars>>

\* The next line has a rule, or is one to pass over.
ParseLine ==
  /\ crashed = "no"
  /\ pending = << >>
  /\ number < MaxLines
  /\ number' = number + 1
  /\ \E r \in Rules :
       CASE r.kind = "blank"   -> crashed' = "panic" /\ UNCHANGED <<current, pending>>
         [] r.kind = "ignored" -> UNCHANGED <<current, pending, crashed>>
         [] Safe(r)            -> UNCHANGED <<current, pending, crashed>>
         [] OTHER -> /\ current' = Entry(number + 1, r)
                     /\ pending' = Keys(r)
                     /\ UNCHANGED crashed
  /\ UNCHANGED <<db, dhCodes, entries, writing, readerVars>>

\* The write that comes first is one to the unsynchronised map ...
NewCode ==
  /\ pending # << >>
  /\ Head(pending) \in DhKeys
  /\ Head(pending)[2] \notin dhCodes

\* ... or to the unsynchronised slice.
NewPrefix ==
  /\ pending # << >>
  /\ Head(pending) = PrefixBlocks

BeginWrite ==
  /\ crashed = "no"
  /\ NewCode \/ NewPrefix
  /\ ~writing
  /\ writing' = TRUE
  /\ UNCHANGED <<db, dhCodes, entries, number, current, pending, readerVars,
                 crashed>>

\* DoubleHashBlocksDB[mhType] = &BlocksDB{}
AddCode ==
  /\ crashed = "no"
  /\ NewCode
  /\ writing
  /\ writing' = FALSE
  /\ dhCodes' = dhCodes \cup {Head(pending)[2]}
  /\ UNCHANGED <<db, entries, number, current, pending, readerVars, crashed>>

\* Mutant: Store replaces what was under the key.
StoreOver ==
  /\ crashed = "no"
  /\ pending # << >>
  /\ ~NewCode
  /\ NewPrefix => writing
  /\ writing' = FALSE
  /\ db' = [db EXCEPT ![Head(pending)] = <<current>>]
  /\ pending' = Tail(pending)
  /\ entries' = IF pending' = << >> THEN Append(entries, current) ELSE entries
  /\ UNCHANGED <<dhCodes, number, current, readerVars, crashed>>

\* BlocksDB.Store, or the append to PathPrefixBlocks; when the entry is in
\* all its places it is appended to dl.Entries.  (Load and Store of the
\* sync.Map are one step: followLines is the only writer.)
Store ==
  /\ crashed = "no"
  /\ pending # << >>
  /\ ~NewCode
  /\ NewPrefix => writing
  /\ writing' = FALSE
  /\ db' = [db EXCEPT ![Head(pending)] = Append(@, current)]
  /\ pending' = Tail(pending)
  /\ entries' = IF pending' = << >> THEN Append(entries, current) ELSE entries
  /\ UNCHANGED <<dhCodes, number, current, readerVars, crashed>>

-----------------------------------------------------------------------------
(* IsPathBlocked and IsCidBlocked, one lookup at a time.                   *)

Load(key) == IF key \in AllKeys THEN db[key] ELSE << >>

\* What a read of a key may find: a slice that is being appended to is the
\* old one or the new one.
Views(key) ==
  IF key = PrefixBlocks /\ NewPrefix /\ writing
  THEN {db[key], Append(db[key], current)}
  ELSE {Load(key)}

Ask(r) ==
  /\ crashed = "no"
  /\ step[r] = 0
  /\ \E q \in Queries : asked' = [asked EXCEPT ![r] = q]
  /\ step' = [step EXCEPT ![r] = 1]
  /\ answer' = [answer EXCEPT ![r] = NoAnswer]
  /\ since' = [since EXCEPT ![r] = Len(entries)]
  /\ owed' = [owed EXCEPT ![r] = {}]
  /\ seen' = [seen EXCEPT ![r] = {}]
  /\ UNCHANGED <<writerVars, crashed>>

Return(r, response) ==
  /\ answer' = [answer EXCEPT ![r] = response]
  /\ step' = [step EXCEPT ![r] = 0]
  /\ UNCHANGED <<owed, seen>>

Looking(r) == step[r] \in 1 .. Len(Probes(asked[r]))
Ranging(r) == step[r] = Len(Probes(asked[r])) + 1

\* The lookups before the double-hash iteration: the first that finds an
\* entry that matches is the answer.  After the last, the iteration begins.
Look(r) ==
  /\ crashed = "no"
  /\ Looking(r)
  /\ LET probe == Probes(asked[r])[step[r]] IN
     \E view \in Views(probe.key) :
       LET response == CheckPathStatus(view, probe.at) IN
       \/ /\ response.status # "notfound"
          /\ Return(r, response)
       \/ /\ response.status = "notfound"
          /\ step' = [step EXCEPT ![r] = @ + 1]
          /\ owed' = [owed EXCEPT ![r] =
                        IF step[r] = Len(Probes(asked[r])) THEN dhCodes ELSE {}]
          /\ UNCHANGED <<seen, answer>>
  /\ UNCHANGED <<writerVars, asked, since, crashed>>

\* checkDoubleHash: the range over DoubleHashBlocksDB produces one more of
\* its keys, perhaps one that was added meanwhile.
Visit(r) ==
  /\ crashed = "no"
  /\ Ranging(r)
  /\ \E code \in dhCodes \ seen[r] :
       LET probe == ModernProbe(asked[r], code)
           response == CheckPathStatus(Load(probe.key), probe.at)
       IN
       \/ /\ response.status # "notfound"
          /\ Return(r, response)
       \/ /\ response.status = "notfound"
          /\ owed' = [owed EXCEPT ![r] = @ \ {code}]
          /\ seen' = [seen EXCEPT ![r] = @ \cup {code}]
          /\ UNCHANGED <<step, answer>>
  /\ UNCHANGED <<writerVars, asked, since, crashed>>

\* Mutant: checkDoubleHash stops at the first hash function.
RangeEndsEarly(r) ==
  /\ crashed = "no"
  /\ Ranging(r)
  /\ seen[r] # {} \/ owed[r] = {}
  /\ Return(r, [status |-> "notfound", line |-> 0])
  /\ UNCHANGED <<writerVars, asked, since, crashed>>

\* The range is over: every key that was there when it began was produced.
RangeEnds(r) ==
  /\ crashed = "no"
  /\ Ranging(r)
  /\ owed[r] = {}
  /\ Return(r, [status |-> "notfound", line |-> 0])
  /\ UNCHANGED <<writerVars, asked, since, crashed>>

\* A lookup touches the map or the slice while it is written: the runtime
\* may notice ("concurrent map read and map write"), or the read may be of a
\* torn slice.
Race(r) ==
  /\ crashed = "no"
  /\ writing
  /\ \/ NewCode /\ Ranging(r)
     \/ NewCode /\ Looking(r) /\ Probes(asked[r])[step[r]].key[1] = "dh"
     \/ NewPrefix /\ Looking(r) /\ Probes(asked[r])[step[r]].key = PrefixBlocks
  /\ crashed' = "race"
  /\ UNCHANGED <<writerVars, readerVars>>

-----------------------------------------------------------------------------
Writer == ParseLine \/ BeginWrite \/ AddCode \/ Store

Reader(r) == Ask(r) \/ Look(r) \/ Visit(r) \/ RangeEnds(r) \/ Race(r)

Next == Writer \/ \E r \in Readers : Reader(r)

Spec == Init /\ [][Next]_vars

-----------------------------------------------------------------------------
(* Properties.                                                             *)

Answered(r) == step[r] = 0 /\ answer[r].status # "none"

\* The entries that have been stored, the one in hand included.
Known == Range(entries) \cup (IF pending = << >> THEN {} ELSE {current})

\* A rule that was in the denylist when a reader asked is not overlooked,
\* whatever is appended while it looks: it answers "not found" only when no
\* such rule is about what it asked.
NoMissedRule ==
  \A r \in Readers :
    Answered(r) /\ answer[r].status = "notfound" =>
      \A i \in 1 .. since[r] :
        Canonical(entries[i].rule) => ~Covers(entries[i].rule, asked[r])

\* "Blocked" and "allowed" are only answered because of a rule that says so
\* of what was asked, and the response names its line.
Justified ==
  \A r \in Readers :
    Answered(r) /\ answer[r].status # "notfound" =>
      \E e \in Known :
        /\ e.line = answer[r].line
        /\ e.rule.allow = (answer[r].status = "allowed")
        /\ Covers(e.rule, asked[r])

\* Of the rules about one CID, name or path, the latest that matched when the
\* reader asked has preference over all earlier ones.
LatestWins ==
  \A r \in Readers : \A e \in Known :
    Answered(r) /\ answer[r].line = e.line =>
      \A i \in 1 .. since[r] :
        /\ entries[i].line > e.line
        /\ Keys(entries[i].rule) = Keys(e.rule)
        => ~Covers(entries[i].rule, asked[r])

\* A rule that ends in an escaped wildcard, and is more than that wildcard,
\* decides about no path but the one that ends in that character.  (When it is
\* nothing else, Matches takes what is left of it for "all paths".)
EscapedStarLiteral ==
  \A r \in Readers : \A e \in Known :
    /\ Answered(r) /\ answer[r].line = e.line
    /\ e.rule.raw # << >> /\ Last(e.rule.raw) = <<"%", Star>>
    /\ TrimLeft(Unescape(e.rule.raw)) # <<Star>>
    => asked[r].sub = e.path.path /\ Last(asked[r].sub) = Star

\* Altogether: whatever is parsed and asked at the same time, the answers are
\* those of a book in which the entry in hand is written last.  Among the rules
\* under one key the later has preference, which is what the documentation says;
\* that a rule in an index looked up earlier has it over one on a later line is
\* what the code does, and what AllowUndoes below is about.
IsAbout(e, q) == Covers(e.rule, q)

Overrules(d, e) ==
  \/ d.line > e.line /\ Keys(d.rule) = Keys(e.rule)
  \/ Canonical(d.rule) /\ Rank(d.rule) < Rank(e.rule)

Certain(e) == Canonical(e.rule)

Book ==
  INSTANCE RuleBook WITH
    book    <- IF pending = << >> THEN entries ELSE Append(entries, current),
    settled <- Len(entries),
    open    <- [r \in Readers |-> step[r] # 0]

ImplementsBook == Book!Spec

\* Why no rule is missed, as an inductive invariant.  An entry is in all its
\* places before it counts as one of dl.Entries:
InPlace(e, key) ==
  /\ e \in Range(db[key])
  /\ key \in DhKeys => key[2] \in dhCodes

Stored ==
  /\ \A i \in 1 .. Len(entries) :
       \A key \in Range(Keys(entries[i].rule)) : InPlace(entries[i], key)
  /\ pending # << >> =>
       \A key \in Range(Keys(current.rule)) :
         key \in Range(pending) \/ InPlace(current, key)

\* a lookup that is over has found none of the entries there were,
Missed(r, probe) ==
  \A i \in 1 .. since[r] :
    probe.key \in Range(Keys(entries[i].rule))
      => ~Matches(entries[i].path, probe.at)

LookedUp ==
  \A r \in Readers : \A j \in 1 .. step[r] - 1 :
    Missed(r, Probes(asked[r])[j])

\* the iteration still owes the hash function of any of them that it would
\* find,
OwesTheRest ==
  \A r \in Readers : Ranging(r) =>
    \A code \in Codes \ owed[r] : Missed(r, ModernProbe(asked[r], code))

\* and "not found" is answered when both are done.
FoundNothing ==
  \A r \in Readers : Answered(r) /\ answer[r].status = "notfound" =>
    /\ \A j \in 1 .. Len(Probes(asked[r])) : Missed(r, Probes(asked[r])[j])
    /\ \A code \in Codes : Missed(r, ModernProbe(asked[r], code))

Inv ==
  /\ TypeOK
  /\ \A r \in Readers : since[r] <= Len(entries)
  /\ Stored
  /\ LookedUp
  /\ OwesTheRest
  /\ FoundNothing

\* Why the answers are those of the book, as an inductive invariant besides
\* Inv.  Lines are in order, the one in hand behind the others:
InOrder ==
  /\ \A i \in 1 .. Len(entries) : entries[i].line <= number
  /\ \A i \in 1 .. Len(entries) : \A j \in 1 .. i - 1 :
       entries[j].line < entries[i].line
  /\ pending # << >> =>
       /\ Range(pending) \subseteq Range(Keys(current.rule))
       /\ current.line = number
       /\ \A i \in 1 .. Len(entries) : entries[i].line < number

\* what is under a key belongs there, and is in that order;
Filed ==
  \A key \in AllKeys : \A n \in 1 .. Len(db[key]) :
    /\ db[key][n] \in Known
    /\ key \in Range(Keys(db[key][n].rule))
    /\ \A m \in 1 .. n - 1 : db[key][m].line <= db[key][n].line

\* and an answer is that of an entry which none has preference over.
Decides(e, q, n, response) ==
  /\ IsAbout(e, q)
  /\ \A j \in 1 .. n : Overrules(entries[j], e) => ~IsAbout(entries[j], q)
  /\ response = [status |-> IF e.rule.allow THEN "allowed" ELSE "blocked",
                 line   |-> e.line]

Decided ==
  \A r \in Readers : Answered(r) =>
    \/ answer[r] = [status |-> "notfound", line |-> 0]
    \/ \E e \in Known : Decides(e, asked[r], since[r], answer[r])

BookInv == InOrder /\ Filed /\ Decided

-----------------------------------------------------------------------------
(* What the comments say and the code does not do.                         *)

\* A Denylist "can parse and follow a denylist file, and can answer questions
\* about blocked or allowed items" at once ("live processing").
AnswersWhileFollowing == crashed # "race"

\* "Allow rules (undo or create exceptions to earlier rules)": what an allow
\* rule is about is not blocked by a rule on an earlier line, when both were
\* in the denylist before the reader asked.
AllowUndoes ==
  \A r \in Readers : \A e \in Known :
    Answered(r) /\ answer[r] = [status |-> "blocked", line |-> e.line] =>
      \A i \in 1 .. since[r] :
        /\ entries[i].rule.allow /\ Canonical(entries[i].rule)
        /\ entries[i].line > e.line
        => ~Covers(entries[i].rule, asked[r])
=============================================================================
