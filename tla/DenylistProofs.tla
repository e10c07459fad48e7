--------------------------- MODULE DenylistProofs ---------------------------
(***************************************************************************)
(* What Denylist guarantees for every set of rules and queries and any     *)
(* number of readers: its inductive invariant, and that no rule is missed. *)
(***************************************************************************)
EXTENDS Denylist, SequenceTheorems, TLAPS

-----------------------------------------------------------------------------
(* The data: what Rules says of sequences, keys and lookups.               *)

\* What is in a sequence after an append.
LEMMA RangeAppend ==
  ASSUME NEW S, NEW s \in Seq(S), NEW e \in S
  PROVE  Range(Append(s, e)) = Range(s) \cup {e}
  <1>1. /\ DOMAIN s = 1 .. Len(s)
        /\ Len(s) \in Nat
        /\ DOMAIN Append(s, e) = 1 .. Len(s) + 1
        /\ \A i \in 1 .. Len(s) : Append(s, e)[i] = s[i]
        /\ Append(s, e)[Len(s) + 1] = e
    BY AppendProperties, LenProperties
  <1>2. \A x : x \in Range(Append(s, e)) => x \in Range(s) \cup {e}
    BY <1>1 DEF Range
  <1>3. \A x : x \in Range(s) \cup {e} => x \in Range(Append(s, e))
    BY <1>1 DEF Range
  <1> QED
    BY <1>2, <1>3

\* What is in a sequence is at its head or in its tail.
LEMMA RangeHeadTail ==
  ASSUME NEW S, NEW s \in Seq(S), s # << >>
  PROVE  Range(s) = {Head(s)} \cup Range(Tail(s))
  <1>1. /\ DOMAIN s = 1 .. Len(s)
        /\ Len(s) \in Nat \ {0}
        /\ DOMAIN Tail(s) = 1 .. Len(s) - 1
        /\ \A i \in 1 .. Len(s) - 1 : Tail(s)[i] = s[i + 1]
        /\ Head(s) = s[1]
    BY HeadTailProperties, LenProperties, EmptySeq
  <1>2. \A x : x \in Range(s) => x \in {Head(s)} \cup Range(Tail(s))
    <2> SUFFICES ASSUME NEW i \in 1 .. Len(s)
                 PROVE  s[i] \in {Head(s)} \cup Range(Tail(s))
      BY <1>1 DEF Range
    <2>1. CASE i = 1
      BY <1>1, <2>1
    <2>2. CASE i # 1
      <3>1. i - 1 \in 1 .. Len(s) - 1 /\ s[i] = Tail(s)[i - 1]
        BY <1>1, <2>2
      <3> QED
        BY <1>1, <3>1 DEF Range
    <2> QED
      BY <2>1, <2>2
  <1>3. \A x : x \in {Head(s)} \cup Range(Tail(s)) => x \in Range(s)
    BY <1>1 DEF Range
  <1> QED
    BY <1>2, <1>3

\* Nothing is in an empty sequence.
LEMMA RangeEmpty == Range(<< >>) = {}
  BY DEF Range

\* The keys of a rule are a sequence of keys the denylist has.
LEMMA KeysFacts ==
  ASSUME NEW rule \in Rules
  PROVE  Keys(rule) \in Seq(AllKeys)
  <1>1. Range(Keys(rule)) \subseteq AllKeys
    BY DEF AllKeys
  <1>2. CASE rule.kind = "dh"
    <2>1. PICK n \in {1, 2} : DOMAIN rule.on = 1 .. n
      BY <1>2, RulesAssumption
    <2>2. Keys(rule) = [i \in 1 .. n |->
                          <<"dh", rule.on[i].code, rule.on[i].text>>]
      BY <1>2, <2>1 DEF Keys
    <2>3. Keys(rule) \in [1 .. n -> AllKeys]
      BY <1>1, <2>2 DEF Range
    <2> QED
      BY <2>3, SeqDef
  <1>3. CASE rule.kind # "dh"
    <2>1. \/ Keys(rule) = << >>
          \/ Keys(rule) = << <<"ipfs", rule.on.mh>> >>
          \/ Keys(rule) = << <<"ipns", StoredName(rule.on)>> >>
          \/ Keys(rule) = << PrefixBlocks >>
          \/ Keys(rule) = << <<"path", rule.raw>> >>
      BY <1>3, RulesAssumption DEF Keys
    <2>2. ASSUME NEW k, Keys(rule) = <<k>>
          PROVE  Keys(rule) \in Seq(AllKeys)
      <3>1. Keys(rule)[1] \in Range(Keys(rule)) /\ Keys(rule)[1] = k
        BY <2>2 DEF Range
      <3> QED
        BY <1>1, <2>2, <3>1
    <2> QED
      BY <2>1, <2>2, EmptySeq
  <1> QED
    BY <1>2, <1>3

\* When CheckPathStatus finds nothing, no entry matches the path.
LEMMA NothingMatches ==
  ASSUME NEW s, NEW p, CheckPathStatus(s, p).status = "notfound"
  PROVE  \A e \in Range(s) : ~Matches(e.path, p)
  BY DEF CheckPathStatus, Range

\* What CheckPathStatus answers.
LEMMA StatusFacts ==
  ASSUME NEW s, NEW p
  PROVE  CheckPathStatus(s, p).status \in Status
  BY DEF CheckPathStatus, Status

\* The lookup about the CID or the name itself.
NameProbe(q) == IF q.api = "cid" THEN CidProbes(q)[1] ELSE NameProbes(q)[1]

\* The lookups a query makes, by their places.
LEMMA ProbesFacts ==
  ASSUME NEW q
  PROVE  /\ Len(Probes(q)) \in Nat
         /\ Len(Probes(q)) >= 2
         /\ Len(Probes(q)) = IF q.api # "cid" /\ q.sub # << >> THEN 4 ELSE 2
         /\ Probes(q)[Len(Probes(q)) - 1] = NameProbe(q)
         /\ Probes(q)[Len(Probes(q))] = LegacyProbe(q)
         /\ q.api # "cid" /\ q.sub # << >> =>
              /\ Probes(q)[1] = Probe(<<"path", q.sub>>, q.sub)
              /\ Probes(q)[2] = Probe(PrefixBlocks, q.sub)
  <1>0. PICK name : NameProbes(q) = << name, LegacyProbe(q) >>
    BY DEF NameProbes, IPNSProbes, IPFSProbes
  <1> DEFINE rest == << name, LegacyProbe(q) >>
             first == << Probe(<<"path", q.sub>>, q.sub), Probe(PrefixBlocks, q.sub) >>
             All == {name, LegacyProbe(q), first[1], first[2]}
  <1>1. rest \in Seq(All) /\ first \in Seq(All) /\ Len(rest) = 2 /\ Len(first) = 2
    OBVIOUS
  <1>2. CASE q.api = "cid"
    BY <1>2 DEF Probes, CidProbes, NameProbe
  <1>3. CASE q.api # "cid" /\ q.sub = << >>
    <2>1. Probes(q) = rest
      <3>1. SubpathProbes(q) = << >>
        BY <1>3 DEF SubpathProbes
      <3>2. Probes(q) = SubpathProbes(q) \o rest
        BY <1>0, <1>3 DEF Probes
      <3> HIDE DEF rest, All
      <3> QED
        BY <1>1, <3>1, <3>2, ConcatEmptySeq
    <2> QED
      BY <1>0, <1>3, <2>1 DEF NameProbe
  <1>4. CASE q.api # "cid" /\ q.sub # << >>
    <2>1. Probes(q) = first \o rest
      BY <1>0, <1>4 DEF Probes, SubpathProbes
    <2>2. /\ Len(Probes(q)) = 4
          /\ Probes(q)[1] = first[1]
          /\ Probes(q)[2] = first[2]
          /\ Probes(q)[3] = rest[1]
          /\ Probes(q)[4] = rest[2]
      <3> HIDE DEF rest, first, All
      <3>1. /\ Len(first \o rest) = Len(first) + Len(rest)
            /\ \A i \in 1 .. Len(first) + Len(rest) :
                 (first \o rest)[i] = IF i <= Len(first) THEN first[i]
                                      ELSE rest[i - Len(first)]
        BY <1>1, ConcatProperties
      <3>2. /\ Len(first \o rest) = 4
            /\ \A i \in 1 .. 4 :
                 (first \o rest)[i] = IF i <= 2 THEN first[i] ELSE rest[i - 2]
        BY <1>1, <3>1
      <3> QED
        BY <2>1, <3>2
    <2> QED
      BY <1>0, <1>4, <2>2 DEF NameProbe
  <1> QED
    BY <1>2, <1>3, <1>4

-----------------------------------------------------------------------------
(* Types.                                                                  *)

LEMMA KeyFacts ==
  /\ PrefixBlocks \in AllKeys
  /\ \A rule \in Rules : Range(Keys(rule)) \subseteq AllKeys
  /\ \A key \in DhKeys : key[2] \in Codes
  BY DEF AllKeys, DhKeys, Codes

LEMMA InitType == Init => TypeOK
  <1> SUFFICES ASSUME Init PROVE TypeOK
    OBVIOUS
  <1>1. \A r \in Readers : step[r] <= Len(Probes(asked[r])) + 1
    BY ProbesFacts DEF Init
  <1>2. /\ << >> \in Seq(Entries)
        /\ << >> \in Seq(AllKeys)
    BY EmptySeq
  <1>3. /\ db \in [AllKeys -> Seq(Entries)]
        /\ entries \in Seq(Entries)
        /\ pending \in Seq(AllKeys)
        /\ pending = << >>
    BY <1>2 DEF Init
  <1>4. number \in 0 .. MaxLines
    BY BoundAssumption DEF Init
  <1> QED
    BY <1>1, <1>3, <1>4 DEF Init, TypeOK, NoAnswer

LEMMA WriterType == TypeOK /\ Writer => TypeOK'
  <1> SUFFICES ASSUME TypeOK, Writer PROVE TypeOK'
    OBVIOUS
  <1> USE DEF TypeOK, readerVars
  <1>1. CASE ParseLine
    <2>1. PICK r \in Rules :
            \/ UNCHANGED <<current, pending>> /\ crashed' \in {"panic", crashed}
            \/ /\ current' = Entry(number + 1, r)
               /\ pending' = Keys(r)
               /\ UNCHANGED crashed
      BY <1>1 DEF ParseLine
    <2>2. number' \in 1 .. MaxLines
      BY <1>1, BoundAssumption DEF ParseLine
    <2>3. Entry(number + 1, r) \in Entries
      BY <1>1, <2>2 DEF ParseLine, Entries
    <2>4. pending = << >>
      BY <1>1 DEF ParseLine
    <2>5. UNCHANGED <<db, dhCodes, entries, writing, asked, step, owed, seen,
                      answer, since>>
      BY <1>1 DEF ParseLine
    <2>6. number' \in 0 .. MaxLines /\ ~writing
      BY <2>2, <2>4, BoundAssumption
    <2>7. /\ current' \in Entries \cup {NoEntry}
          /\ pending' \in Seq(AllKeys)
          /\ pending' # << >> => current' \in Entries
          /\ crashed' \in {"no", "panic", "race"}
      <3>1. Keys(r) \in Seq(AllKeys)
        BY KeysFacts
      <3> QED
        BY <2>1, <2>3, <2>4, <3>1
    <2> QED
      BY <2>5, <2>6, <2>7
  <1>2. CASE BeginWrite
    BY <1>2 DEF BeginWrite, NewCode, NewPrefix
  <1>3. CASE AddCode
    BY <1>3, KeyFacts DEF AddCode, NewCode
  <1>4. CASE Store
    <2>1. pending # << >> /\ current \in Entries
      BY <1>4 DEF Store
    <2>2. Head(pending) \in AllKeys /\ Tail(pending) \in Seq(AllKeys)
      BY <2>1, HeadTailProperties
    <2>3. Append(db[Head(pending)], current) \in Seq(Entries)
      BY <2>1, <2>2, AppendProperties
    <2>4. db' \in [AllKeys -> Seq(Entries)]
      BY <1>4, <2>2, <2>3 DEF Store
    <2>5. entries' \in Seq(Entries)
      <3>1. entries' \in {entries, Append(entries, current)}
        BY <1>4 DEF Store
      <3>2. Append(entries, current) \in Seq(Entries)
        BY <2>1, AppendProperties
      <3> QED
        BY <3>1, <3>2
    <2> QED
      BY <1>4, <2>1, <2>2, <2>4, <2>5 DEF Store
  <1> QED
    BY <1>1, <1>2, <1>3, <1>4 DEF Writer

\* A hit or a miss of a look leaves the reader's variables well typed.
LEMMA ReaderType == TypeOK /\ (\E r \in Readers : Reader(r)) => TypeOK'
  <1> SUFFICES ASSUME TypeOK, NEW r \in Readers, Reader(r) PROVE TypeOK'
    OBVIOUS
  <1> USE DEF TypeOK
  <1>w. CASE UNCHANGED writerVars /\ UNCHANGED crashed /\ ~Race(r)
    <2> USE DEF writerVars
    <2>1. CASE Ask(r)
      <3>1. PICK q \in Queries : asked' = [asked EXCEPT ![r] = q]
        BY <2>1 DEF Ask
      <3>2. asked' \in [Readers -> Queries]
        BY <3>1
      <3>3. Len(entries) \in Nat
        BY LenProperties
      <3>4. \A s \in Readers : step'[s] <= Len(Probes(asked'[s])) + 1
        <4> TAKE s \in Readers
        <4>1. CASE s = r
          BY <2>1, <4>1, ProbesFacts DEF Ask
        <4>2. CASE s # r
          BY <2>1, <4>2 DEF Ask
        <4> QED
          BY <4>1, <4>2
      <3> QED
        BY <1>w, <2>1, <3>2, <3>3, <3>4 DEF Ask, NoAnswer
    <2>2. ASSUME NEW response, Return(r, response), response.status \in Status,
                 UNCHANGED <<asked, since>>
          PROVE  TypeOK'
      <3>1. \A s \in Readers : step'[s] <= Len(Probes(asked'[s])) + 1
        BY <2>2, ProbesFacts DEF Return
      <3> QED
        BY <1>w, <2>2, <3>1 DEF Return
    <2>3. CASE Look(r)
      <3>1. CASE \E response : Return(r, response) /\ response.status \in Status
        BY <2>2, <2>3, <3>1 DEF Look
      <3>2. CASE /\ step' = [step EXCEPT ![r] = @ + 1]
                 /\ owed' = [owed EXCEPT ![r] =
                       IF step[r] = Len(Probes(asked[r])) THEN dhCodes ELSE {}]
                 /\ UNCHANGED <<seen, answer, asked, since>>
        <4>1. \A s \in Readers : step'[s] <= Len(Probes(asked'[s])) + 1
          <5> TAKE s \in Readers
          <5>1. Len(Probes(asked[s])) \in Nat
            BY ProbesFacts
          <5> QED
            BY <2>3, <3>2, <5>1 DEF Look, Looking
        <4> QED
          BY <1>w, <3>2, <4>1
      <3> QED
        BY <2>3, <3>1, <3>2, StatusFacts DEF Look
    <2>4. CASE Visit(r)
      <3>1. CASE \E response : Return(r, response) /\ response.status \in Status
        BY <2>2, <2>4, <3>1 DEF Visit
      <3>2. CASE \E code \in dhCodes :
                   /\ owed' = [owed EXCEPT ![r] = @ \ {code}]
                   /\ seen' = [seen EXCEPT ![r] = @ \cup {code}]
                   /\ UNCHANGED <<step, answer, asked, since>>
        BY <1>w, <3>2
      <3> QED
        BY <2>4, <3>1, <3>2, StatusFacts DEF Visit
    <2>5. CASE RangeEnds(r)
      BY <2>2, <2>5 DEF RangeEnds, Status
    <2> QED
      BY <1>w, <2>1, <2>3, <2>4, <2>5 DEF Reader
  <1>c. CASE Race(r)
    BY <1>c DEF Race, writerVars, readerVars
  <1> QED
    BY <1>w, <1>c DEF Reader, Ask, Look, Visit, RangeEnds

\* Every variable keeps its type.
THEOREM TypeCorrectness == Spec => []TypeOK
  <1>1. TypeOK /\ [Next]_vars => TypeOK'
    <2>1. TypeOK /\ UNCHANGED vars => TypeOK'
      BY DEF TypeOK, vars, writerVars, readerVars
    <2> QED
      BY <2>1, WriterType, ReaderType DEF Next
  <1> QED
    BY <1>1, InitType, PTL DEF Spec

-----------------------------------------------------------------------------
(* The inductive invariant.                                                *)

SinceBound == \A r \in Readers : since[r] <= Len(entries)

\* The entries a reader knows of are entries of rules, and stay as they are.
LEMMA KnownFacts ==
  ASSUME TypeOK, SinceBound, NEW r \in Readers, NEW i \in 1 .. since[r]
  PROVE  /\ i \in 1 .. Len(entries)
         /\ entries[i] \in Entries
         /\ entries[i].rule \in Rules
         /\ entries[i].path = NewBlockedPath(entries[i].rule.raw)
  <1>1. i \in 1 .. Len(entries)
    BY LenProperties DEF TypeOK, SinceBound
  <1>2. entries[i] \in Entries
    BY <1>1, ElementOfSeq DEF TypeOK
  <1> QED
    BY <1>1, <1>2 DEF Entries, Entry

LEMMA InitInv == Init => Inv
  <1> SUFFICES ASSUME Init PROVE Inv
    OBVIOUS
  <1>1. Len(entries) = 0 /\ \A r \in Readers : since[r] = 0 /\ step[r] = 0
    BY EmptySeq DEF Init
  <1>2. \A r \in Readers : ~Answered(r) /\ ~Ranging(r)
    <2> SUFFICES ASSUME NEW r \in Readers PROVE ~Answered(r) /\ ~Ranging(r)
      OBVIOUS
    <2> QED
      BY <1>1, ProbesFacts DEF Init, Answered, Ranging, NoAnswer
  <1>3. Stored
    BY <1>1 DEF Init, Stored
  <1>4. LookedUp
    BY <1>1 DEF LookedUp
  <1> QED
    BY <1>1, <1>2, <1>3, <1>4, InitType DEF Inv, OwesTheRest, FoundNothing

\* InPlace(e, key) after a step, of an e from before it.
InPlaceNext(e, key) ==
  /\ e \in Range(db'[key])
  /\ key \in DhKeys => key[2] \in dhCodes'

\* The keys an entry is under stay the keys it is under.
LEMMA InPlaceStays ==
  ASSUME TypeOK, Writer
  PROVE  \A e : \A key \in AllKeys : InPlace(e, key) => InPlaceNext(e, key)
  <1>1. ASSUME NEW key \in AllKeys
        PROVE  Range(db[key]) \subseteq Range(db'[key])
    <2>1. CASE Store
      <3>1. Head(pending) \in AllKeys /\ current \in Entries
        BY <2>1, HeadTailProperties DEF Store, TypeOK
      <3>2. Range(Append(db[Head(pending)], current))
              = Range(db[Head(pending)]) \cup {current}
        BY <3>1, RangeAppend DEF TypeOK
      <3>3. db' = [db EXCEPT ![Head(pending)] = Append(@, current)]
        BY <2>1 DEF Store
      <3>4. CASE key = Head(pending)
        BY <3>1, <3>2, <3>3, <3>4 DEF TypeOK
      <3>5. CASE key # Head(pending)
        BY <3>3, <3>5 DEF TypeOK
      <3> QED
        BY <3>4, <3>5
    <2>2. CASE UNCHANGED db
      BY <2>2
    <2> QED
      BY <2>1, <2>2 DEF Writer, ParseLine, BeginWrite, AddCode
  <1>2. dhCodes \subseteq dhCodes'
    BY DEF Writer, ParseLine, BeginWrite, AddCode, Store
  <1> QED
    BY <1>1, <1>2 DEF InPlace, InPlaceNext

\* An entry of dl.Entries is in all its places, and the one in hand in all but
\* those it has yet to be stored in.
LEMMA StoredStep == TypeOK /\ Stored /\ Writer => Stored'
  <1> SUFFICES ASSUME TypeOK, Stored, Writer PROVE Stored'
    OBVIOUS
  <1>1. \A i \in 1 .. Len(entries) :
          \A key \in Range(Keys(entries[i].rule)) : InPlaceNext(entries[i], key)
    <2>1. \A i \in 1 .. Len(entries) : entries[i].rule \in Rules
      BY ElementOfSeq DEF TypeOK, Entries, Entry
    <2> QED
      BY <2>1, KeyFacts, InPlaceStays DEF Stored
  <1>2. pending # << >> => current \in Entries /\ current.rule \in Rules
    BY DEF TypeOK, Entries, Entry
  <1>3. pending # << >> =>
          \A key \in Range(Keys(current.rule)) :
            key \in Range(pending) \/ InPlaceNext(current, key)
    BY <1>2, KeyFacts, InPlaceStays DEF Stored
  <1>4. SUFFICES
          /\ \A i \in 1 .. Len(entries') :
               \A key \in Range(Keys(entries'[i].rule)) : InPlaceNext(entries'[i], key)
          /\ pending' # << >> =>
               \A key \in Range(Keys(current'.rule)) :
                 key \in Range(pending') \/ InPlaceNext(current', key)
    BY DEF Stored, InPlace, InPlaceNext
  <1>5. CASE ParseLine
    <2>1. PICK r \in Rules :
            \/ UNCHANGED pending
            \/ /\ current' = Entry(number + 1, r)
               /\ pending' = Keys(r)
      BY <1>5 DEF ParseLine
    <2> QED
      BY <1>1, <1>5, <2>1 DEF ParseLine, Entry
  <1>6. CASE BeginWrite \/ AddCode
    <2>1. UNCHANGED <<entries, current, pending>>
      BY <1>6 DEF BeginWrite, AddCode
    <2> QED
      BY <1>1, <1>3, <2>1
  <1>7. CASE Store
    <2>1. /\ pending # << >> /\ current \in Entries /\ current' = current
          /\ pending' = Tail(pending)
      BY <1>2, <1>7 DEF Store
    <2>2. /\ Head(pending) \in AllKeys
          /\ Range(pending) = {Head(pending)} \cup Range(Tail(pending))
      BY <2>1, HeadTailProperties, RangeHeadTail DEF TypeOK
    <2>3. InPlaceNext(current, Head(pending))
      <3>1. current \in Range(Append(db[Head(pending)], current))
        BY <2>1, <2>2, RangeAppend DEF TypeOK
      <3>2. Head(pending) \in DhKeys => Head(pending)[2] \in dhCodes
        BY <1>7 DEF Store, NewCode
      <3>3. db'[Head(pending)] = Append(db[Head(pending)], current)
        BY <1>7, <2>2 DEF Store, TypeOK
      <3> QED
        BY <1>7, <3>1, <3>2, <3>3 DEF Store, InPlaceNext
    <2>4. \A key \in Range(Keys(current.rule)) :
            key \in Range(Tail(pending)) \/ InPlaceNext(current, key)
      BY <1>3, <2>1, <2>2, <2>3
    <2>5. CASE Tail(pending) # << >>
      <3>1. UNCHANGED entries
        BY <1>7, <2>1, <2>5 DEF Store
      <3> QED
        BY <1>1, <2>1, <2>4, <3>1
    <2>6. CASE Tail(pending) = << >>
      <3>1. entries' = Append(entries, current)
        BY <1>7, <2>1, <2>6 DEF Store
      <3>2. /\ Len(entries') = Len(entries) + 1
            /\ Len(entries) \in Nat
            /\ \A i \in 1 .. Len(entries) : entries'[i] = entries[i]
            /\ entries'[Len(entries) + 1] = current
        BY <2>1, <3>1, AppendProperties, LenProperties DEF TypeOK
      <3>3. \A key \in Range(Keys(current.rule)) : InPlaceNext(current, key)
        BY <2>4, <2>6, RangeEmpty
      <3>4. \A i \in 1 .. Len(entries') :
              i \in 1 .. Len(entries) \/ i = Len(entries) + 1
        BY <3>2
      <3> QED
        BY <1>1, <2>1, <2>6, <3>2, <3>3, <3>4
    <2> QED
      BY <2>5, <2>6
  <1> QED
    BY <1>5, <1>6, <1>7 DEF Writer

\* The denylist only grows under a reader.
LEMMA WriterKeeps ==
  ASSUME TypeOK, SinceBound, Writer
  PROVE  /\ UNCHANGED readerVars
         /\ SinceBound'
         /\ \A r \in Readers : \A i \in 1 .. since[r] : entries'[i] = entries[i]
  <1>1. UNCHANGED readerVars
    BY DEF Writer, ParseLine, BeginWrite, AddCode, Store
  <1>2. CASE UNCHANGED entries
    BY <1>1, <1>2 DEF SinceBound, readerVars
  <1>3. CASE Store /\ entries' = Append(entries, current)
    <2>1. current \in Entries
      BY <1>3 DEF Store, TypeOK
    <2>2. /\ Len(entries') = Len(entries) + 1
          /\ Len(entries) \in Nat
          /\ \A i \in 1 .. Len(entries) : entries'[i] = entries[i]
      BY <1>3, <2>1, AppendProperties, LenProperties DEF TypeOK
    <2> QED
      BY <1>1, <2>2, KnownFacts DEF SinceBound, readerVars, TypeOK
  <1> QED
    BY <1>2, <1>3 DEF Writer, ParseLine, BeginWrite, AddCode, Store

LEMMA WriterStep ==
  Inv /\ Writer => SinceBound' /\ LookedUp' /\ OwesTheRest' /\ FoundNothing'
  <1> SUFFICES ASSUME Inv, Writer
               PROVE  SinceBound' /\ LookedUp' /\ OwesTheRest' /\ FoundNothing'
    OBVIOUS
  <1>1. /\ UNCHANGED <<asked, step, owed, seen, answer, since>>
        /\ SinceBound'
        /\ \A r \in Readers : \A i \in 1 .. since[r] : entries'[i] = entries[i]
    BY WriterKeeps DEF Inv, SinceBound, readerVars
  <1>2. LookedUp'
    BY <1>1 DEF Inv, LookedUp, Missed
  <1>3. OwesTheRest'
    BY <1>1 DEF Inv, OwesTheRest, Ranging, Missed
  <1>4. FoundNothing'
    BY <1>1 DEF Inv, FoundNothing, Answered, Missed
  <1> QED
    BY <1>1, <1>2, <1>3, <1>4

\* A look that finds nothing in one of its views of a key has not missed
\* anything under that key that was there when it asked.
LEMMA NothingMissed ==
  ASSUME Inv, NEW r \in Readers, NEW key, NEW p, NEW view \in Views(key),
         CheckPathStatus(view, p).status = "notfound"
  PROVE  Missed(r, Probe(key, p))
  <1>1. ASSUME NEW i \in 1 .. since[r], key \in Range(Keys(entries[i].rule))
        PROVE  ~Matches(entries[i].path, p)
    <2>1. i \in 1 .. Len(entries) /\ entries[i].rule \in Rules
      BY KnownFacts DEF Inv, SinceBound
    <2>2. key \in AllKeys /\ entries[i] \in Range(db[key])
      BY <1>1, <2>1, KeyFacts DEF Inv, Stored, InPlace
    <2>3. entries[i] \in Range(view)
      <3>1. CASE view = db[key]
        BY <2>2, <3>1
      <3>2. CASE view = Append(db[key], current) /\ NewPrefix
        <4>1. current \in Entries
          BY <3>2 DEF Inv, TypeOK, NewPrefix
        <4> QED
          BY <2>2, <3>2, <4>1, RangeAppend DEF Inv, TypeOK
      <3> QED
        BY <2>2, <3>1, <3>2 DEF Views, Load
    <2> QED
      BY <2>3, NothingMatches
  <1> QED
    BY <1>1 DEF Missed, Probe

\* Nothing is under the double-hashes of a function that is not in use.
LEMMA NothingUnder ==
  ASSUME Inv, NEW r \in Readers, NEW code, code \notin dhCodes
  PROVE  Missed(r, ModernProbe(asked[r], code))
  <1> DEFINE key == <<"dh", code, ModernText(asked[r])>>
  <1>1. ASSUME NEW i \in 1 .. since[r], key \in Range(Keys(entries[i].rule))
        PROVE  FALSE
    <2>1. i \in 1 .. Len(entries) /\ entries[i].rule \in Rules
      BY KnownFacts DEF Inv, SinceBound
    <2>2. key \in DhKeys /\ key[2] = code
      BY <1>1, <2>1, KeyFacts DEF DhKeys
    <2>3. InPlace(entries[i], key)
      BY <1>1, <2>1 DEF Inv, Stored
    <2> QED
      BY <2>2, <2>3 DEF InPlace
  <1> QED
    BY <1>1 DEF Missed, ModernProbe, Probe

\* The invariant of one reader.
ReaderInv(r) ==
  /\ since[r] <= Len(entries)
  /\ \A j \in 1 .. step[r] - 1 : Missed(r, Probes(asked[r])[j])
  /\ Ranging(r) =>
       \A code \in Codes \ owed[r] : Missed(r, ModernProbe(asked[r], code))
  /\ Answered(r) /\ answer[r].status = "notfound" =>
       /\ \A j \in 1 .. Len(Probes(asked[r])) : Missed(r, Probes(asked[r])[j])
       /\ \A code \in Codes : Missed(r, ModernProbe(asked[r], code))

LEMMA ByReader ==
  (\A r \in Readers : ReaderInv(r))
    <=> SinceBound /\ LookedUp /\ OwesTheRest /\ FoundNothing
  BY DEF ReaderInv, SinceBound, LookedUp, OwesTheRest, FoundNothing

\* The lookups of one reader leave what the others have looked up alone.
LEMMA OthersKeep ==
  ASSUME Inv, UNCHANGED entries, NEW s \in Readers,
         asked'[s] = asked[s], step'[s] = step[s], owed'[s] = owed[s],
         answer'[s] = answer[s], since'[s] = since[s]
  PROVE  ReaderInv(s)'
  <1>1. ReaderInv(s)
    BY ByReader DEF Inv, SinceBound
  <1> QED
    BY <1>1 DEF ReaderInv, Missed, Ranging, Answered

\* A hit says nothing of what was missed.
LEMMA HitStep ==
  ASSUME Inv, NEW r \in Readers, NEW response, Return(r, response),
         response.status # "notfound", UNCHANGED <<entries, asked, since>>
  PROVE  ReaderInv(r)'
  <1>1. step'[r] = 0 /\ answer'[r] = response
    BY DEF Return, Inv, TypeOK
  <1>2. ~Ranging(r)'
    BY <1>1, ProbesFacts DEF Ranging
  <1>3. since'[r] <= Len(entries')
    BY DEF Inv
  <1> QED
    BY <1>1, <1>2, <1>3 DEF ReaderInv, Answered

\* A look that finds nothing goes on to the next, or to the iteration over
\* the hash functions in use.
LEMMA LookStep ==
  ASSUME Inv, NEW r \in Readers, Look(r)
  PROVE  ReaderInv(r)'
  <1> DEFINE probe == Probes(asked[r])[step[r]]
  <1>1. PICK view \in Views(probe.key) :
          LET response == CheckPathStatus(view, probe.at) IN
          \/ /\ response.status # "notfound"
             /\ Return(r, response)
          \/ /\ response.status = "notfound"
             /\ step' = [step EXCEPT ![r] = @ + 1]
             /\ owed' = [owed EXCEPT ![r] =
                           IF step[r] = Len(Probes(asked[r])) THEN dhCodes ELSE {}]
             /\ UNCHANGED <<seen, answer>>
    BY DEF Look
  <1>2. UNCHANGED <<entries, asked, since>> /\ Looking(r)
    BY DEF Look, writerVars
  <1>3. CASE CheckPathStatus(view, probe.at).status # "notfound"
    BY <1>1, <1>2, <1>3, HitStep
  <1>4. CASE CheckPathStatus(view, probe.at).status = "notfound"
    <2>1. Missed(r, probe)
      BY <1>4, NothingMissed DEF Missed, Probe
    <2>2. /\ step[r] \in Nat /\ step'[r] = step[r] + 1 /\ answer'[r] = answer[r]
          /\ owed'[r] = IF step[r] = Len(Probes(asked[r])) THEN dhCodes ELSE {}
      BY <1>1, <1>4 DEF Inv, TypeOK
    <2>3. \A j \in 1 .. step'[r] - 1 : Missed(r, Probes(asked[r])[j])
      BY <2>1, <2>2 DEF Inv, LookedUp
    <2>4. Ranging(r)' => \A code \in Codes \ owed'[r] :
                           Missed(r, ModernProbe(asked[r], code))
      <3>1. Ranging(r)' => step[r] = Len(Probes(asked[r]))
        BY <1>2, <2>2, ProbesFacts DEF Ranging
      <3> QED
        BY <2>2, <3>1, NothingUnder
    <2>5. ~Answered(r)'
      BY <2>2 DEF Answered
    <2>6. since'[r] <= Len(entries')
      BY <1>2 DEF Inv
    <2> QED
      BY <1>2, <2>3, <2>4, <2>5, <2>6 DEF ReaderInv, Missed
  <1> QED
    BY <1>3, <1>4

\* The iteration owes one hash function less.
LEMMA VisitStep ==
  ASSUME Inv, NEW r \in Readers, Visit(r)
  PROVE  ReaderInv(r)'
  <1> DEFINE probe(code) == ModernProbe(asked[r], code)
             response(code) == CheckPathStatus(Load(probe(code).key), probe(code).at)
  <1>1. PICK code \in dhCodes :
          \/ /\ response(code).status # "notfound"
             /\ Return(r, response(code))
          \/ /\ response(code).status = "notfound"
             /\ owed' = [owed EXCEPT ![r] = @ \ {code}]
             /\ UNCHANGED <<step, answer>>
    BY DEF Visit
  <1>2. UNCHANGED <<entries, asked, since>> /\ Ranging(r)
    BY DEF Visit, writerVars
  <1>3. CASE response(code).status # "notfound"
    BY <1>1, <1>2, <1>3, HitStep
  <1>4. CASE response(code).status = "notfound"
    <2>1. Missed(r, ModernProbe(asked[r], code))
      <3>1. Load(probe(code).key) \in Views(probe(code).key)
        BY DEF Views, ModernProbe, Probe, PrefixBlocks
      <3> QED
        BY <1>4, <3>1, NothingMissed DEF ModernProbe, Probe
    <2>2. /\ owed'[r] = owed[r] \ {code}
          /\ step'[r] = step[r] /\ answer'[r] = answer[r]
      BY <1>1, <1>4 DEF Inv, TypeOK
    <2>3. \A other \in Codes \ owed'[r] : Missed(r, ModernProbe(asked[r], other))
      BY <1>2, <2>1, <2>2 DEF Inv, OwesTheRest
    <2>4. step[r] # 0
      BY <1>2, ProbesFacts DEF Ranging
    <2>5. \A j \in 1 .. step'[r] - 1 : Missed(r, Probes(asked[r])[j])
      BY <2>2 DEF Inv, LookedUp
    <2>6. since'[r] <= Len(entries')
      BY <1>2 DEF Inv
    <2> QED
      BY <1>2, <2>2, <2>3, <2>4, <2>5, <2>6 DEF ReaderInv, Missed, Answered
  <1> QED
    BY <1>3, <1>4

\* Nothing has been looked up, and nothing missed, when a reader asks.
LEMMA AskStep ==
  ASSUME Inv, NEW r \in Readers, Ask(r)
  PROVE  ReaderInv(r)'
  <1>1. /\ step'[r] = 1 /\ answer'[r] = NoAnswer /\ since'[r] = Len(entries)
        /\ UNCHANGED entries
    BY DEF Ask, Inv, TypeOK, writerVars
  <1>2. ~Ranging(r)'
    <2>1. Len(Probes(asked'[r])) \in Nat /\ Len(Probes(asked'[r])) >= 2
      BY ProbesFacts
    <2> QED
      BY <1>1, <2>1 DEF Ranging
  <1>3. ~Answered(r)'
    BY <1>1 DEF Answered
  <1>4. since'[r] <= Len(entries')
    BY <1>1, LenProperties DEF Inv, TypeOK
  <1> QED
    BY <1>1, <1>2, <1>3, <1>4 DEF ReaderInv

\* The iteration ends when it owes nothing.
LEMMA RangeEndsStep ==
  ASSUME Inv, NEW r \in Readers, RangeEnds(r)
  PROVE  ReaderInv(r)'
  <1>1. /\ Ranging(r) /\ owed[r] = {} /\ UNCHANGED <<entries, asked, since>>
        /\ step'[r] = 0
    BY DEF RangeEnds, writerVars, Return, Inv, TypeOK
  <1>2. ~Ranging(r)'
    BY <1>1, ProbesFacts DEF Ranging
  <1>3. \A j \in 1 .. Len(Probes(asked[r])) : Missed(r, Probes(asked[r])[j])
    BY <1>1, ProbesFacts DEF Inv, LookedUp, Ranging
  <1>4. \A code \in Codes : Missed(r, ModernProbe(asked[r], code))
    BY <1>1 DEF Inv, OwesTheRest
  <1>5. since'[r] <= Len(entries')
    BY <1>1 DEF Inv
  <1> QED
    BY <1>1, <1>2, <1>3, <1>4, <1>5 DEF ReaderInv, Missed

LEMMA ReaderStep == Inv /\ (\E r \in Readers : Reader(r)) => Inv'
  <1> SUFFICES ASSUME Inv, NEW r \in Readers, Reader(r) PROVE Inv'
    OBVIOUS
  <1>1. TypeOK'
    BY ReaderType DEF Inv
  <1>2. UNCHANGED writerVars
    BY DEF Reader, Ask, Look, Visit, RangeEnds, Race
  <1>3. Stored'
    BY <1>2 DEF Inv, Stored, InPlace, writerVars
  <1>4. ASSUME NEW s \in Readers, s # r
        PROVE  ReaderInv(s)'
    <2>1. /\ asked'[s] = asked[s] /\ step'[s] = step[s] /\ owed'[s] = owed[s]
          /\ answer'[s] = answer[s] /\ since'[s] = since[s]
      BY <1>4 DEF Reader, Ask, Look, Visit, RangeEnds, Race, Return, readerVars,
                  Inv, TypeOK
    <2> QED
      BY <1>2, <2>1, OthersKeep DEF writerVars
  <1>5. ReaderInv(r)'
    <2>1. CASE Race(r)
      BY <2>1, <1>2, OthersKeep DEF Race, readerVars, writerVars
    <2> QED
      BY <2>1, AskStep, LookStep, VisitStep, RangeEndsStep DEF Reader
  <1>6. \A s \in Readers : ReaderInv(s)'
    BY <1>4, <1>5
  <1>7. SinceBound' /\ LookedUp' /\ OwesTheRest' /\ FoundNothing'
    BY <1>6 DEF ReaderInv, SinceBound, LookedUp, OwesTheRest, FoundNothing
  <1> QED
    BY <1>1, <1>3, <1>7 DEF Inv, SinceBound

\* Inv holds of every state and is why no rule is missed.
THEOREM Invariance == Spec => []Inv
  <1>1. Inv /\ Writer => Inv'
    BY WriterType, StoredStep, WriterStep DEF Inv, SinceBound
  <1>2. Inv /\ UNCHANGED vars => Inv'
    <2> SUFFICES ASSUME Inv, UNCHANGED vars PROVE Inv'
      OBVIOUS
    <2>1. TypeOK'
      BY DEF Inv, TypeOK, vars, writerVars, readerVars
    <2>2. Stored'
      BY DEF Inv, Stored, InPlace, vars, writerVars
    <2>3. \A r \in Readers : ReaderInv(r)'
      BY OthersKeep DEF vars, writerVars, readerVars
    <2>4. SinceBound' /\ LookedUp' /\ OwesTheRest' /\ FoundNothing'
      BY <2>3 DEF ReaderInv, SinceBound, LookedUp, OwesTheRest, FoundNothing
    <2> QED
      BY <2>1, <2>2, <2>4 DEF Inv, SinceBound
  <1>3. Inv /\ [Next]_vars => Inv'
    BY <1>1, <1>2, ReaderStep DEF Next
  <1> QED
    BY <1>3, InitInv, PTL DEF Spec

-----------------------------------------------------------------------------
(* No rule is missed.                                                      *)

\* A path that is empty matches an empty one.
LEMMA EmptyMatches == Matches(NewBlockedPath(<< >>), << >>)
  <1>1. Unescape(<< >>) = << >>
    <2>1. DOMAIN << >> = 1 .. 0
      OBVIOUS
    <2>2. Unescape(<< >>) \in [1 .. 0 -> {}]
      BY <2>1 DEF Unescape
    <2>3. Unescape(<< >>) \in Seq({})
      BY <2>2, SeqDef
    <2>4. Len(Unescape(<< >>)) = 0
      BY <2>2, <2>3, LenProperties
    <2> QED
      BY <2>3, <2>4, EmptySeq
  <1> QED
    BY <1>1 DEF Matches, NewBlockedPath, TrimLeft, TrimRight

\* A canonical rule that covers a query is under a key that one of the lookups
\* of the query loads, with a path that matches what it is checked for.
LEMMA CoversFacts ==
  ASSUME NEW rule \in Rules, NEW q \in Queries, Canonical(rule), Covers(rule, q)
  PROVE  \/ \E j \in 1 .. Len(Probes(q)) :
              /\ Probes(q)[j].key \in Range(Keys(rule))
              /\ Matches(NewBlockedPath(rule.raw), Probes(q)[j].at)
         \/ \E code \in Codes :
              /\ ModernProbe(q, code).key \in Range(Keys(rule))
              /\ Matches(NewBlockedPath(rule.raw), ModernProbe(q, code).at)
  <1> DEFINE bpath == NewBlockedPath(rule.raw)
             Found(j) == /\ Probes(q)[j].key \in Range(Keys(rule))
                         /\ Matches(bpath, Probes(q)[j].at)
  <1>0. /\ Len(Probes(q)) \in Nat /\ Len(Probes(q)) >= 2
        /\ Probes(q)[Len(Probes(q)) - 1] = NameProbe(q)
        /\ Probes(q)[Len(Probes(q))] = LegacyProbe(q)
    BY ProbesFacts
  <1>s. \A k : k \in Range(<<k>>)
    BY DEF Range
  <1>1. CASE /\ rule.kind = "path"
             /\ q.api # "cid" /\ q.sub # << >>
             /\ Matches(bpath, q.sub)
    <2>1. /\ Probes(q)[1] = Probe(<<"path", q.sub>>, q.sub)
          /\ Probes(q)[2] = Probe(PrefixBlocks, q.sub)
      BY <1>1, ProbesFacts
    <2>2. CASE bpath.prefix
      <3>1. Keys(rule) = << PrefixBlocks >>
        BY <1>1, <2>2 DEF Keys
      <3>2. Found(2)
        BY <1>1, <1>s, <2>1, <3>1 DEF Probe
      <3> QED
        BY <1>0, <3>2
    <2>3. CASE ~bpath.prefix
      <3>1. Keys(rule) = << <<"path", rule.raw>> >>
        BY <1>1, <2>3 DEF Keys
      <3>2. rule.raw = bpath.path
        BY <1>1, <2>3 DEF Canonical
      <3>3. bpath.path # <<Star>>
        <4>1. rule.raw # << >> /\ rule.raw[Len(rule.raw)] = Star => bpath.prefix
          BY DEF NewBlockedPath
        <4>2. <<Star>> # << >> /\ <<Star>>[Len(<<Star>>)] = Star
          OBVIOUS
        <4> HIDE DEF bpath
        <4> QED
          BY <2>3, <3>2, <4>1, <4>2
      <3>4. bpath.path = TrimLeft(TrimRight(q.sub))
        BY <1>1, <2>3, <3>3 DEF Matches
      <3>5. rule.raw = q.sub
        BY <3>2, <3>4, QueriesAssumption
      <3>6. Found(1)
        BY <1>1, <1>s, <2>1, <3>1, <3>5 DEF Probe
      <3> QED
        BY <1>0, <3>6
    <2> QED
      BY <2>2, <2>3
  <1>2. CASE /\ rule.kind = "ipfs"
             /\ q.api # "ipns"
             /\ rule.on.mh = q.on.mh
             /\ Matches(bpath, q.sub)
    <2>1. Keys(rule) = << <<"ipfs", q.on.mh>> >>
      BY <1>2 DEF Keys
    <2>2. Found(Len(Probes(q)) - 1)
      BY <1>0, <1>2, <1>s, <2>1, QueriesAssumption
         DEF NameProbe, NameProbes, IPFSProbes, CidProbes, Probe
    <2> QED
      BY <1>0, <2>2
  <1>3. CASE /\ rule.kind = "ipns"
             /\ q.api = "ipns"
             /\ SameName(rule.on, q.on)
             /\ Matches(bpath, q.sub)
    <2>1. StoredName(rule.on) = LookupName(q.on)
      BY <1>3 DEF Canonical, SameName, StoredName, LookupName
    <2>2. Keys(rule) = << <<"ipns", LookupName(q.on)>> >>
      BY <1>3, <2>1 DEF Keys
    <2>3. Found(Len(Probes(q)) - 1)
      BY <1>0, <1>3, <1>s, <2>2 DEF NameProbe, NameProbes, IPNSProbes, Probe
    <2> QED
      BY <1>0, <2>3
  <1>4. CASE /\ rule.kind = "dh"
             /\ \E i \in DOMAIN rule.on :
                  \/ rule.on[i].text = ModernText(q)
                  \/ rule.on[i].text = LegacyText(q) /\ rule.on[i].code = SHA2_256
    <2>1. PICK i \in DOMAIN rule.on :
            \/ rule.on[i].text = ModernText(q)
            \/ rule.on[i].text = LegacyText(q) /\ rule.on[i].code = SHA2_256
      BY <1>4
    <2>2. <<"dh", rule.on[i].code, rule.on[i].text>> \in Range(Keys(rule))
      BY <1>4, <2>1 DEF Keys, Range
    <2>3. Matches(bpath, << >>)
      BY <1>4, EmptyMatches, RulesAssumption
    <2>4. CASE rule.on[i].text = ModernText(q)
      <3>1. rule.on[i].code \in Codes
        BY <2>2, KeyFacts DEF DhKeys, Codes
      <3> QED
        BY <2>2, <2>3, <2>4, <3>1 DEF ModernProbe, Probe
    <2>5. CASE rule.on[i].text = LegacyText(q) /\ rule.on[i].code = SHA2_256
      <3>1. Found(Len(Probes(q)))
        BY <1>0, <2>2, <2>3, <2>5 DEF LegacyProbe, Probe
      <3> QED
        BY <1>0, <3>1
    <2> QED
      BY <2>1, <2>4, <2>5
  <1> QED
    BY <1>1, <1>2, <1>3, <1>4 DEF Covers

\* Whatever the rules, the queries and the number of readers, "not found" is
\* never the answer when a (canonical) rule that was there is about what was
\* asked.
THEOREM NothingOverlooked == Spec => []NoMissedRule
  <1>1. Inv => NoMissedRule
    <2> SUFFICES ASSUME Inv, NEW r \in Readers,
                        Answered(r), answer[r].status = "notfound",
                        NEW i \in 1 .. since[r],
                        Canonical(entries[i].rule), Covers(entries[i].rule, asked[r])
                 PROVE  FALSE
      BY DEF NoMissedRule
    <2>1. /\ entries[i].rule \in Rules
          /\ entries[i].path = NewBlockedPath(entries[i].rule.raw)
          /\ asked[r] \in Queries
      BY KnownFacts DEF Inv, SinceBound, TypeOK
    <2>2. /\ \A j \in 1 .. Len(Probes(asked[r])) : Missed(r, Probes(asked[r])[j])
          /\ \A code \in Codes : Missed(r, ModernProbe(asked[r], code))
      BY DEF Inv, FoundNothing
    <2> QED
      BY <2>1, <2>2, CoversFacts DEF Missed
  <1> QED
    BY <1>1, Invariance, PTL
=============================================================================
