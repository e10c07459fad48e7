--------------------------- MODULE RuleBookProofs ---------------------------
(***************************************************************************)
(* Denylist implements RuleBook: whatever is found is justified and not    *)
(* overruled, for every set of rules and queries and number of readers.    *)
(***************************************************************************)
EXTENDS DenylistProofs, WellFoundedInduction

-----------------------------------------------------------------------------
(* What is found in a sequence of entries.                                 *)

\* A set of places has a last one.
LEMMA MaxFacts ==
  ASSUME NEW n \in Nat, NEW S \in SUBSET (1 .. n), S # {}
  PROVE  Max(S) \in S /\ \A i \in S : i <= Max(S)
  <1> DEFINE R == {ss \in Nat \X Nat : ss[1] < ss[2]}
             T == {n - i : i \in S}
  <1>0. \A i \in S : i \in Nat /\ n - i \in Nat
    OBVIOUS
  <1>1. IsWellFoundedOn(R, Nat)
    BY NatLessThanWellFounded DEF OpToRel
  <1>2. T \subseteq Nat /\ T # {}
    BY <1>0
  <1>3. \E x \in T : \A y \in T : ~ (<<y, x>> \in R)
    <2> HIDE DEF T, R
    <2> QED
      BY <1>1, <1>2, WFMin
  <1>4. PICK x \in T : \A y \in T : ~(y < x)
    BY <1>2, <1>3
  <1>5. PICK m \in S : x = n - m
    BY <1>4
  <1>6. ASSUME NEW i \in S PROVE m >= i
    <2>1. n - i \in T /\ ~(n - i < n - m)
      BY <1>4, <1>5
    <2> QED
      BY <1>0, <1>5, <2>1
  <1>7. \E k \in S : \A i \in S : k >= i
    BY <1>6
  <1>8. Max(S) \in S /\ \A i \in S : Max(S) >= i
    BY <1>7 DEF Max
  <1> QED
    BY <1>0, <1>8

Verdict(e) ==
  [status |-> IF e.rule.allow THEN "allowed" ELSE "blocked", line |-> e.line]

\* CheckPathStatus finds the last entry that matches.
LEMMA LastMatch ==
  ASSUME NEW view \in Seq(Entries), NEW p, CheckPathStatus(view, p).status # "notfound"
  PROVE  \E m \in 1 .. Len(view) :
           /\ Matches(view[m].path, p)
           /\ \A i \in 1 .. Len(view) : Matches(view[i].path, p) => i <= m
           /\ CheckPathStatus(view, p) = Verdict(view[m])
  <1> DEFINE hits == {i \in DOMAIN view : Matches(view[i].path, p)}
  <1>1. DOMAIN view = 1 .. Len(view) /\ Len(view) \in Nat
    BY LenProperties
  <1>2. hits # {} /\ CheckPathStatus(view, p) = Verdict(view[Max(hits)])
    BY DEF CheckPathStatus, Verdict
  <1>3. hits \in SUBSET (1 .. Len(view))
    BY <1>1
  <1>4. Max(hits) \in hits /\ \A i \in hits : i <= Max(hits)
    <2> HIDE DEF hits
    <2> QED
      BY <1>1, <1>2, <1>3, MaxFacts
  <1>5. /\ Max(hits) \in 1 .. Len(view)
        /\ Matches(view[Max(hits)].path, p)
        /\ \A i \in 1 .. Len(view) : Matches(view[i].path, p) => i <= Max(hits)
    BY <1>1, <1>4
  <1> HIDE DEF hits
  <1> QED
    BY <1>2, <1>5

\* What a reader may see under a key: all that is stored there, in order, and
\* perhaps the entry in hand.
LEMMA ViewFacts ==
  ASSUME TypeOK, InOrder, Filed, NEW key \in AllKeys, NEW view \in Views(key)
  PROVE  /\ view \in Seq(Entries)
         /\ Range(db[key]) \subseteq Range(view)
         /\ \A n \in 1 .. Len(view) :
              /\ view[n] \in Known
              /\ key \in Range(Keys(view[n].rule))
              /\ \A m \in 1 .. n - 1 : view[m].line <= view[n].line
  <1>0. db[key] \in Seq(Entries) /\ Len(db[key]) \in Nat
    BY LenProperties DEF TypeOK
  <1>1. CASE view = db[key]
    BY <1>0, <1>1 DEF Filed
  <1>2. CASE view = Append(db[key], current) /\ key = PrefixBlocks /\ NewPrefix
    <2>1. pending # << >> /\ key \in Range(pending) /\ current \in Entries
      BY <1>2, RangeHeadTail DEF NewPrefix, TypeOK
    <2>2. /\ Len(view) = Len(db[key]) + 1
          /\ \A n \in 1 .. Len(db[key]) : view[n] = db[key][n]
          /\ view[Len(view)] = current
          /\ view \in Seq(Entries)
      BY <1>0, <1>2, <2>1, AppendProperties
    <2>3. Range(view) = Range(db[key]) \cup {current}
      BY <1>0, <1>2, <2>1, RangeAppend
    <2>4. current \in Known /\ key \in Range(Keys(current.rule))
      BY <2>1 DEF Known, InOrder
    <2>5. ASSUME NEW n \in 1 .. Len(db[key]) PROVE view[n].line <= current.line
      <3>1. view[n] \in Known
        BY <2>2 DEF Filed
      <3>2. CASE view[n] = current
        BY <2>1, <3>2 DEF Entries, Entry
      <3>3. CASE view[n] # current
        <4>1. PICK i \in 1 .. Len(entries) : view[n] = entries[i]
          BY <3>1, <3>3, LenProperties DEF Known, Range, TypeOK
        <4>2. entries[i].line < number /\ current.line = number
          BY <2>1, <4>1 DEF InOrder
        <4>3. entries[i] \in Entries
          BY <4>1, ElementOfSeq DEF TypeOK
        <4> QED
          BY <4>1, <4>2, <4>3 DEF Entries, Entry, TypeOK
      <3> QED
        BY <3>2, <3>3
    <2>6. ASSUME NEW n \in 1 .. Len(view)
          PROVE  /\ view[n] \in Known
                 /\ key \in Range(Keys(view[n].rule))
                 /\ \A m \in 1 .. n - 1 : view[m].line <= view[n].line
      <3>1. CASE n \in 1 .. Len(db[key])
        <4>1. \A m \in 1 .. n - 1 : m \in 1 .. Len(db[key])
          BY <1>0, <3>1
        <4> QED
          BY <2>2, <3>1, <4>1 DEF Filed
      <3>2. CASE n = Len(db[key]) + 1
        <4>1. view[n] = current /\ \A m \in 1 .. n - 1 : m \in 1 .. Len(db[key])
          BY <1>0, <2>2, <3>2
        <4> QED
          BY <2>4, <2>5, <4>1
      <3> QED
        BY <1>0, <2>2, <3>1, <3>2
    <2> QED
      BY <2>2, <2>3, <2>6
  <1> QED
    BY <1>1, <1>2 DEF Views, Load

\* The entry that a lookup finds is known and belongs under its key, and no
\* later one that was settled when the reader asked matches as well.
LEMMA HitFacts ==
  ASSUME TypeOK, SinceBound, Stored, InOrder, Filed,
         NEW r \in Readers, NEW key, NEW view \in Views(key), NEW p,
         CheckPathStatus(view, p).status # "notfound"
  PROVE  \E e \in Known :
           /\ CheckPathStatus(view, p) = Verdict(e)
           /\ key \in Range(Keys(e.rule))
           /\ Matches(e.path, p)
           /\ \A i \in 1 .. since[r] :
                /\ key \in Range(Keys(entries[i].rule))
                /\ Matches(entries[i].path, p)
                => entries[i].line <= e.line
  <1>1. key \in AllKeys
    <2> SUFFICES ASSUME key \notin AllKeys PROVE FALSE
      OBVIOUS
    <2>1. view = << >>
      BY KeyFacts DEF Views, Load
    <2>2. DOMAIN view = {}
      BY <2>1
    <2> QED
      BY <2>2 DEF CheckPathStatus
  <1>2. /\ view \in Seq(Entries)
        /\ Range(db[key]) \subseteq Range(view)
        /\ \A n \in 1 .. Len(view) :
             /\ view[n] \in Known
             /\ key \in Range(Keys(view[n].rule))
             /\ \A m \in 1 .. n - 1 : view[m].line <= view[n].line
    BY <1>1, ViewFacts
  <1>3. PICK m \in 1 .. Len(view) :
           /\ Matches(view[m].path, p)
           /\ \A i \in 1 .. Len(view) : Matches(view[i].path, p) => i <= m
           /\ CheckPathStatus(view, p) = Verdict(view[m])
    BY <1>2, LastMatch
  <1>4. ASSUME NEW i \in 1 .. since[r], key \in Range(Keys(entries[i].rule)),
               Matches(entries[i].path, p)
        PROVE  entries[i].line <= view[m].line
    <2>1. i \in 1 .. Len(entries)
      BY KnownFacts
    <2>2. entries[i] \in Range(view)
      BY <1>2, <1>4, <2>1 DEF Stored, InPlace
    <2>3. PICK n \in 1 .. Len(view) : entries[i] = view[n]
      BY <1>2, <2>2, LenProperties DEF Range
    <2>4. n <= m
      BY <1>3, <1>4, <2>3
    <2>5. CASE n = m
      <3>1. view[m] \in Entries
        BY <1>2, ElementOfSeq
      <3> QED
        BY <2>3, <2>5, <3>1 DEF Entries, Entry
    <2>6. CASE n < m
      <3>1. n \in 1 .. m - 1
        BY <2>6
      <3> QED
        BY <1>2, <2>3, <3>1
    <2> QED
      BY <2>4, <2>5, <2>6
  <1> QED
    BY <1>2, <1>3, <1>4

-----------------------------------------------------------------------------
(* What is under the keys that a query looks up.                           *)

\* The lookups of a query.
Lookups(q) ==
  {Probes(q)[j] : j \in 1 .. Len(Probes(q))} \cup {ModernProbe(q, code) : code \in Codes}

\* The rank of a rule is that of its keys.
KeyRank(key) ==
  CASE key[1] = "path" -> 1
    [] key[1] = "prefix" -> 2
    [] key[1] \in {"ipfs", "ipns"} -> 3
    [] OTHER -> 4

LEMMA RankOfKeys ==
  ASSUME NEW rule \in Rules, NEW key \in Range(Keys(rule))
  PROVE  /\ Rank(rule) = KeyRank(key)
         /\ key[1] = "ipfs" <=> rule.kind = "ipfs"
         /\ key[1] = "ipns" <=> rule.kind = "ipns"
         /\ key[1] = "path" <=> rule.kind = "path" /\ ~NewBlockedPath(rule.raw).prefix
         /\ key[1] = "prefix" <=> rule.kind = "path" /\ NewBlockedPath(rule.raw).prefix
         /\ key[1] = "dh" <=> rule.kind = "dh"
         /\ rule.kind = "ipfs" => key = <<"ipfs", rule.on.mh>>
         /\ rule.kind = "ipns" => key = <<"ipns", StoredName(rule.on)>>
         /\ key[1] = "path" => key = <<"path", rule.raw>>
         /\ key[1] = "prefix" => key = PrefixBlocks
         /\ rule.kind = "dh" =>
              \E i \in DOMAIN rule.on : key = <<"dh", rule.on[i].code, rule.on[i].text>>
  <1>0. \A a, b : b \in Range(<<a>>) => b = a
    BY DEF Range
  <1>1. CASE rule.kind = "ipfs"
    <2>1. key = <<"ipfs", rule.on.mh>>
      BY <1>0, <1>1 DEF Keys
    <2> QED
      BY <1>1, <2>1 DEF Rank, KeyRank
  <1>2. CASE rule.kind = "ipns"
    <2>1. key = <<"ipns", StoredName(rule.on)>>
      BY <1>0, <1>2 DEF Keys
    <2> QED
      BY <1>2, <2>1 DEF Rank, KeyRank
  <1>3. CASE rule.kind = "path" /\ ~NewBlockedPath(rule.raw).prefix
    <2>1. key = <<"path", rule.raw>>
      BY <1>0, <1>3 DEF Keys
    <2> QED
      BY <1>3, <2>1 DEF Rank, KeyRank
  <1>4. CASE rule.kind = "path" /\ NewBlockedPath(rule.raw).prefix
    <2>1. key = PrefixBlocks
      BY <1>0, <1>4 DEF Keys
    <2> QED
      BY <1>4, <2>1 DEF Rank, KeyRank, PrefixBlocks
  <1>5. CASE rule.kind = "dh"
    <2>1. \E i \in DOMAIN rule.on : key = <<"dh", rule.on[i].code, rule.on[i].text>>
      BY <1>5 DEF Keys, Range
    <2> QED
      BY <1>5, <2>1 DEF Rank, KeyRank
  <1>6. CASE rule.kind \in {"blank", "ignored"}
    <2>1. Keys(rule) = << >>
      BY <1>6 DEF Keys
    <2> QED
      BY <2>1, RangeEmpty
  <1> QED
    BY <1>1, <1>2, <1>3, <1>4, <1>5, <1>6, RulesAssumption

HasSubpath(q) == q.api # "cid" /\ q.sub # << >>

\* The lookups of a query, by their places.
LEMMA ProbesShape ==
  ASSUME NEW q
  PROVE  /\ Len(Probes(q)) = 4 \/ Len(Probes(q)) = 2
         /\ Len(Probes(q)) = 4 => HasSubpath(q)
         /\ Probes(q)[Len(Probes(q))] = LegacyProbe(q)
         /\ Probes(q)[Len(Probes(q)) - 1] = NameProbe(q)
         /\ HasSubpath(q) => /\ Probes(q)[1] = Probe(<<"path", q.sub>>, q.sub)
                             /\ Probes(q)[2] = Probe(PrefixBlocks, q.sub)
  <1>1. CASE HasSubpath(q)
    BY <1>1, ProbesFacts DEF HasSubpath
  <1>2. CASE ~HasSubpath(q)
    <2>1. Len(Probes(q)) = 2
      BY <1>2, ProbesFacts DEF HasSubpath
    <2>2. /\ Probes(q)[Len(Probes(q))] = LegacyProbe(q)
          /\ Probes(q)[Len(Probes(q)) - 1] = NameProbe(q)
      BY ProbesFacts
    <2> QED
      BY <1>2, <2>1, <2>2
  <1> QED
    BY <1>1, <1>2

\* The lookups of a query, one by one.
LEMMA LookupForms ==
  ASSUME NEW q \in Queries, NEW probe \in Lookups(q)
  PROVE  \/ q.api # "cid" /\ q.sub # << >> /\ probe = Probe(<<"path", q.sub>>, q.sub)
         \/ q.api # "cid" /\ q.sub # << >> /\ probe = Probe(PrefixBlocks, q.sub)
         \/ q.api # "ipns" /\ probe = Probe(<<"ipfs", q.on.mh>>, q.sub)
         \/ q.api = "ipns" /\ probe = Probe(<<"ipns", LookupName(q.on)>>, q.sub)
         \/ probe = Probe(<<"dh", SHA2_256, LegacyText(q)>>, << >>)
         \/ \E code \in Codes : probe = Probe(<<"dh", code, ModernText(q)>>, << >>)
  <1>1. CASE \E code \in Codes : probe = ModernProbe(q, code)
    BY <1>1 DEF ModernProbe
  <1>2. CASE \E j \in 1 .. Len(Probes(q)) : probe = Probes(q)[j]
    <2>1. PICK j \in 1 .. Len(Probes(q)) : probe = Probes(q)[j]
      BY <1>2
    <2>0. Len(Probes(q)) = 4 \/ Len(Probes(q)) = 2
      BY ProbesShape
    <2>2. CASE j = Len(Probes(q))
      BY <2>1, <2>2, ProbesFacts DEF LegacyProbe
    <2>3. CASE j = Len(Probes(q)) - 1
      <3>1. probe = NameProbe(q)
        BY <2>1, <2>3, ProbesFacts
      <3>2. q.api = "cid" => q.sub = << >>
        BY QueriesAssumption
      <3> QED
        BY <3>1, <3>2, QueriesAssumption
           DEF NameProbe, NameProbes, CidProbes, IPFSProbes, IPNSProbes
    <2>4. CASE j < Len(Probes(q)) - 1
      <3>1. Len(Probes(q)) = 4 /\ (j = 1 \/ j = 2)
        <4>1. CASE Len(Probes(q)) = 4
          BY <2>4, <4>1
        <4>2. CASE Len(Probes(q)) = 2
          BY <2>4, <4>2
        <4> QED
          BY <2>0, <4>1, <4>2
      <3>2. HasSubpath(q)
        BY <3>1, ProbesShape
      <3>3. probe = Probes(q)[1] \/ probe = Probes(q)[2]
        BY <2>1, <3>1
      <3> QED
        BY <3>2, <3>3, ProbesShape DEF HasSubpath
    <2>5. \/ j = Len(Probes(q)) \/ j = Len(Probes(q)) - 1 \/ j < Len(Probes(q)) - 1
      BY <2>0
    <2> QED
      BY <2>2, <2>3, <2>4, <2>5
  <1> QED
    BY <1>1, <1>2 DEF Lookups

\* Lookups are made in the order of the ranks.
LEMMA RanksAscend ==
  ASSUME NEW q \in Queries, NEW i \in 1 .. Len(Probes(q)), NEW j \in 1 .. i
  PROVE  KeyRank(Probes(q)[j].key) <= KeyRank(Probes(q)[i].key)
  <1> DEFINE n == Len(Probes(q))
             rank(k) == KeyRank(Probes(q)[k].key)
  <1>1. rank(n) = 4
    <2>1. Probes(q)[n] = LegacyProbe(q)
      BY ProbesShape
    <2> QED
      BY <2>1 DEF LegacyProbe, Probe, KeyRank
  <1>2. rank(n - 1) = 3
    <2>1. Probes(q)[n - 1] = NameProbe(q)
      BY ProbesShape
    <2>2. NameProbe(q).key[1] \in {"ipfs", "ipns"}
      BY DEF NameProbe, NameProbes, CidProbes, IPFSProbes, IPNSProbes, Probe
    <2> QED
      BY <2>1, <2>2 DEF KeyRank
  <1>3. n = 4 => rank(1) = 1 /\ rank(2) = 2
    <2> SUFFICES ASSUME n = 4 PROVE rank(1) = 1 /\ rank(2) = 2
      OBVIOUS
    <2>1. /\ Probes(q)[1] = Probe(<<"path", q.sub>>, q.sub)
          /\ Probes(q)[2] = Probe(PrefixBlocks, q.sub)
      BY ProbesShape
    <2> QED
      BY <2>1 DEF KeyRank, Probe, PrefixBlocks
  <1>4. n = 4 \/ n = 2
    BY ProbesShape
  <1> HIDE DEF rank, n
  <1>5. i \in 1 .. n /\ j \in 1 .. i
    BY DEF n
  <1>6. rank(j) <= rank(i)
    BY <1>1, <1>2, <1>3, <1>4, <1>5
  <1> QED
    BY <1>6 DEF rank

\* A rule that covers a query and is under a key it looks up is found there:
\* its path matches what the entries are checked for.
LEMMA KeyedMatches ==
  ASSUME NEW rule \in Rules, NEW q \in Queries, NEW probe \in Lookups(q),
         probe.key \in Range(Keys(rule)), Covers(rule, q)
  PROVE  Matches(NewBlockedPath(rule.raw), probe.at)
  <1>1. CASE rule.kind = "dh"
    <2>1. probe.key[1] = "dh"
      BY <1>1, RankOfKeys
    <2>2. probe.at = << >>
      BY <2>1, LookupForms DEF Probe, PrefixBlocks
    <2> QED
      BY <1>1, <2>2, EmptyMatches, RulesAssumption
  <1>2. CASE rule.kind # "dh"
    <2>1. probe.key[1] # "dh"
      BY <1>2, RankOfKeys
    <2>2. probe.at = q.sub
      BY <2>1, LookupForms DEF Probe
    <2> QED
      BY <1>2, <2>2 DEF Covers
  <1> QED
    BY <1>1, <1>2

\* What is under such a key and matches is about the query.
LEMMA KeyedCovers ==
  ASSUME NEW rule \in Rules, NEW q \in Queries, NEW probe \in Lookups(q),
         probe.key \in Range(Keys(rule)), Matches(NewBlockedPath(rule.raw), probe.at)
  PROVE  Covers(rule, q)
  <1> DEFINE key == probe.key
  <1>1. CASE q.api # "cid" /\ q.sub # << >> /\ probe = Probe(<<"path", q.sub>>, q.sub)
    <2>1. key[1] = "path"
      BY <1>1 DEF Probe
    <2>2. rule.kind = "path"
      BY <2>1, RankOfKeys
    <2> QED
      BY <1>1, <2>2 DEF Covers, Probe
  <1>2. CASE q.api # "cid" /\ q.sub # << >> /\ probe = Probe(PrefixBlocks, q.sub)
    <2>1. key[1] = "prefix"
      BY <1>2 DEF Probe, PrefixBlocks
    <2>2. rule.kind = "path"
      BY <2>1, RankOfKeys
    <2> QED
      BY <1>2, <2>2 DEF Covers, Probe
  <1>3. CASE q.api # "ipns" /\ probe = Probe(<<"ipfs", q.on.mh>>, q.sub)
    <2>1. key = <<"ipfs", q.on.mh>> /\ key[1] = "ipfs"
      BY <1>3 DEF Probe
    <2>2. rule.kind = "ipfs" /\ key = <<"ipfs", rule.on.mh>>
      BY <2>1, RankOfKeys
    <2>3. rule.on.mh = q.on.mh
      BY <2>1, <2>2
    <2> QED
      BY <1>3, <2>2, <2>3 DEF Covers, Probe
  <1>4. CASE q.api = "ipns" /\ probe = Probe(<<"ipns", LookupName(q.on)>>, q.sub)
    <2>1. key = <<"ipns", LookupName(q.on)>> /\ key[1] = "ipns"
      BY <1>4 DEF Probe
    <2>2. rule.kind = "ipns" /\ key = <<"ipns", StoredName(rule.on)>>
      BY <2>1, RankOfKeys
    <2>3. StoredName(rule.on) = LookupName(q.on)
      BY <2>1, <2>2
    <2>4. SameName(rule.on, q.on)
      <3>1. CASE rule.on \in Cids
        BY <2>3, <3>1 DEF SameName, StoredName, LookupName
      <3>2. CASE rule.on \notin Cids
        <4>1. rule.on = LookupName(q.on)
          BY <2>3, <3>2 DEF StoredName
        <4>2. q.on \notin Cids
          BY <2>2, <3>2, <4>1, NamesAssumption DEF LookupName
        <4>3. ~NoDots(rule.on)
          BY <3>2, <4>1, <4>2 DEF LookupName, NoDots, toDNSLinkFQDN
        <4> QED
          BY <3>2, <4>1, <4>3 DEF SameName, LookupName
      <3> QED
        BY <3>1, <3>2
    <2> QED
      BY <1>4, <2>2, <2>4 DEF Covers, Probe
  <1>5. ASSUME NEW code, NEW text,
               probe = Probe(<<"dh", code, text>>, << >>),
               text = ModernText(q) \/ (text = LegacyText(q) /\ code = SHA2_256)
        PROVE  Covers(rule, q)
    <2>1. key = <<"dh", code, text>> /\ key[1] = "dh"
      BY <1>5 DEF Probe
    <2>2. rule.kind = "dh"
      BY <2>1, RankOfKeys
    <2>3. PICK i \in DOMAIN rule.on : key = <<"dh", rule.on[i].code, rule.on[i].text>>
      BY <2>2, RankOfKeys
    <2>4. rule.on[i].code = code /\ rule.on[i].text = text
      BY <2>1, <2>3
    <2> QED
      BY <1>5, <2>2, <2>4 DEF Covers
  <1>6. CASE probe = Probe(<<"dh", SHA2_256, LegacyText(q)>>, << >>)
    BY <1>5, <1>6
  <1>7. CASE \E code \in Codes : probe = Probe(<<"dh", code, ModernText(q)>>, << >>)
    BY <1>5, <1>7
  <1> HIDE DEF key
  <1> QED
    BY <1>1, <1>2, <1>3, <1>4, <1>6, <1>7, LookupForms

\* What is known are entries of rules.
LEMMA KnownEntries ==
  ASSUME TypeOK, NEW e \in Known
  PROVE  /\ e \in Entries
         /\ e.rule \in Rules
         /\ e.path = NewBlockedPath(e.rule.raw)
  <1>1. e \in Entries
    <2>1. CASE pending # << >> /\ e = current
      BY <2>1 DEF TypeOK
    <2>2. CASE e \in Range(entries)
      <3>1. PICK i \in 1 .. Len(entries) : e = entries[i]
        BY <2>2, LenProperties DEF TypeOK, Range
      <3> QED
        BY <3>1, ElementOfSeq DEF TypeOK
    <2> QED
      BY <2>1, <2>2 DEF Known
  <1> QED
    BY <1>1 DEF Entries, Entry

\* A settled, canonical rule that is about the query and of a lower rank than
\* a key would have been found before that key is looked up.
LEMMA RankOrder ==
  ASSUME NEW rule \in Rules, NEW q \in Queries, Canonical(rule), Covers(rule, q),
         NEW n \in Nat,
         \A j \in 1 .. Len(Probes(q)) :
           /\ Probes(q)[j].key \in Range(Keys(rule))
           /\ Matches(NewBlockedPath(rule.raw), Probes(q)[j].at)
           => j >= n
  PROVE  /\ n \in 1 .. Len(Probes(q)) => Rank(rule) >= KeyRank(Probes(q)[n].key)
         /\ n > Len(Probes(q)) => Rank(rule) >= 4
  <1>0. Len(Probes(q)) \in Nat
    BY ProbesFacts
  <1>1. CASE \E j \in 1 .. Len(Probes(q)) :
               /\ Probes(q)[j].key \in Range(Keys(rule))
               /\ Matches(NewBlockedPath(rule.raw), Probes(q)[j].at)
    <2>1. PICK j \in 1 .. Len(Probes(q)) :
               /\ Probes(q)[j].key \in Range(Keys(rule))
               /\ Matches(NewBlockedPath(rule.raw), Probes(q)[j].at)
      BY <1>1
    <2>2. j >= n
      BY <2>1
    <2>3. ~(n > Len(Probes(q)))
      BY <1>0, <2>2
    <2>4. Rank(rule) = KeyRank(Probes(q)[j].key)
      BY <2>1, RankOfKeys
    <2>5. ASSUME n \in 1 .. Len(Probes(q))
          PROVE  KeyRank(Probes(q)[n].key) <= KeyRank(Probes(q)[j].key)
      <3>1. n \in 1 .. j
        BY <1>0, <2>2, <2>5
      <3> QED
        BY <3>1, RanksAscend
    <2>6. KeyRank(Probes(q)[j].key) \in Nat
      BY DEF KeyRank
    <2>7. ASSUME n \in 1 .. Len(Probes(q))
          PROVE  Rank(rule) >= KeyRank(Probes(q)[n].key)
      <3>1. KeyRank(Probes(q)[n].key) \in Nat
        BY DEF KeyRank
      <3> QED
        BY <2>4, <2>5, <2>6, <2>7, <3>1
    <2> QED
      BY <2>3, <2>7
  <1>2. CASE \E code \in Codes :
               /\ ModernProbe(q, code).key \in Range(Keys(rule))
               /\ Matches(NewBlockedPath(rule.raw), ModernProbe(q, code).at)
    <2>1. PICK code \in Codes : ModernProbe(q, code).key \in Range(Keys(rule))
      BY <1>2
    <2>2. Rank(rule) = KeyRank(ModernProbe(q, code).key)
      BY <2>1, RankOfKeys
    <2>3. Rank(rule) = 4
      BY <2>2 DEF ModernProbe, Probe, KeyRank
    <2>4. \A key : KeyRank(key) \in Nat /\ KeyRank(key) <= 4
      BY DEF KeyRank
    <2> QED
      BY <2>3, <2>4
  <1> QED
    BY <1>1, <1>2, CoversFacts

-----------------------------------------------------------------------------
(* An entry that is found decides.                                         *)

\* What a lookup finds, of those that go before it nothing was found: it is
\* the n-th of the query, or one for a hash function.
LEMMA Deciding ==
  ASSUME Inv, InOrder, Filed, NEW r \in Readers, NEW n \in Nat, NEW probe,
         \A j \in 1 .. n - 1 : j \in 1 .. Len(Probes(asked[r])) =>
           Missed(r, Probes(asked[r])[j]),
         \/ n \in 1 .. Len(Probes(asked[r])) /\ probe = Probes(asked[r])[n]
         \/ /\ n > Len(Probes(asked[r]))
            /\ \E code \in Codes : probe = ModernProbe(asked[r], code),
         NEW view \in Views(probe.key),
         CheckPathStatus(view, probe.at).status # "notfound"
  PROVE  \E e \in Known :
           Decides(e, asked[r], since[r], CheckPathStatus(view, probe.at))
  <1> DEFINE q == asked[r]
  <1>0. q \in Queries /\ Len(Probes(q)) \in Nat /\ SinceBound
    BY ProbesFacts DEF Inv, TypeOK, SinceBound
  <1>1. probe \in Lookups(q)
    BY DEF Lookups
  <1>2. PICK e \in Known :
           /\ CheckPathStatus(view, probe.at) = Verdict(e)
           /\ probe.key \in Range(Keys(e.rule))
           /\ Matches(e.path, probe.at)
           /\ \A i \in 1 .. since[r] :
                /\ probe.key \in Range(Keys(entries[i].rule))
                /\ Matches(entries[i].path, probe.at)
                => entries[i].line <= e.line
    BY <1>0, HitFacts DEF Inv
  <1>3. e \in Entries /\ e.rule \in Rules /\ e.path = NewBlockedPath(e.rule.raw)
    BY KnownEntries DEF Inv
  <1>4. Covers(e.rule, q)
    BY <1>0, <1>1, <1>2, <1>3, KeyedCovers
  <1>5. ASSUME NEW i \in 1 .. since[r], Covers(entries[i].rule, q),
               entries[i].line > e.line, Keys(entries[i].rule) = Keys(e.rule)
        PROVE  FALSE
    <2>1. /\ entries[i] \in Entries /\ entries[i].rule \in Rules
          /\ entries[i].path = NewBlockedPath(entries[i].rule.raw)
      BY <1>0, KnownFacts DEF Inv
    <2>2. probe.key \in Range(Keys(entries[i].rule))
      BY <1>2, <1>5
    <2>3. Matches(entries[i].path, probe.at)
      BY <1>0, <1>1, <1>5, <2>1, <2>2, KeyedMatches
    <2>4. entries[i].line <= e.line
      BY <1>2, <2>2, <2>3
    <2>5. entries[i].line \in Nat /\ e.line \in Nat
      BY <1>3, <2>1 DEF Entries, Entry
    <2> QED
      BY <1>5, <2>4, <2>5
  <1>6. ASSUME NEW i \in 1 .. since[r], Covers(entries[i].rule, q),
               Canonical(entries[i].rule), Rank(entries[i].rule) < Rank(e.rule)
        PROVE  FALSE
    <2>1. /\ entries[i].rule \in Rules
          /\ entries[i].path = NewBlockedPath(entries[i].rule.raw)
      BY <1>0, KnownFacts DEF Inv
    <2>2. ASSUME NEW j \in 1 .. Len(Probes(q)),
                 Probes(q)[j].key \in Range(Keys(entries[i].rule)),
                 Matches(NewBlockedPath(entries[i].rule.raw), Probes(q)[j].at)
          PROVE  j >= n
      <3> SUFFICES ASSUME j \in 1 .. n - 1 PROVE FALSE
        BY <1>0
      <3>1. Missed(r, Probes(q)[j])
        OBVIOUS
      <3> QED
        BY <2>1, <2>2, <3>1 DEF Missed
    <2>3. /\ n \in 1 .. Len(Probes(q)) =>
               Rank(entries[i].rule) >= KeyRank(Probes(q)[n].key)
          /\ n > Len(Probes(q)) => Rank(entries[i].rule) >= 4
      BY <1>0, <1>6, <2>1, <2>2, RankOrder
    <2>4. Rank(e.rule) = KeyRank(probe.key)
      BY <1>2, <1>3, RankOfKeys
    <2>5. KeyRank(probe.key) \in Nat /\ KeyRank(probe.key) <= 4
      BY DEF KeyRank
    <2>6. Rank(entries[i].rule) \in Nat
      BY DEF Rank
    <2>7. Rank(entries[i].rule) >= KeyRank(probe.key)
      BY <2>3, <2>5, <2>6
    <2> QED
      BY <1>6, <2>4, <2>5, <2>6, <2>7
  <1>7. \A j \in 1 .. since[r] : Overrules(entries[j], e) => ~IsAbout(entries[j], q)
    BY <1>5, <1>6 DEF Overrules, IsAbout
  <1> QED
    BY <1>2, <1>4, <1>7 DEF Decides, IsAbout, Verdict

-----------------------------------------------------------------------------
(* BookInv.                                                                *)

LEMMA KnownLines ==
  ASSUME TypeOK, InOrder, NEW e \in Known
  PROVE  e.line \in Nat /\ e.line <= number
  <1>1. e.line \in Nat
    BY KnownEntries DEF Entries, Entry
  <1>2. CASE pending # << >> /\ e = current
    BY <1>1, <1>2 DEF InOrder, TypeOK
  <1>3. CASE e \in Range(entries)
    <2>1. PICK i \in 1 .. Len(entries) : e = entries[i]
      BY <1>3, LenProperties DEF TypeOK, Range
    <2> QED
      BY <1>1, <2>1 DEF InOrder
  <1> QED
    BY <1>1, <1>2, <1>3 DEF Known

\* Storing an entry, in one of its places or the last, makes none known.
LEMMA StoreKnown ==
  ASSUME TypeOK, Store
  PROVE  /\ Known' = Known
         /\ pending # << >> /\ current' = current /\ current \in Entries
         /\ Range(pending') \subseteq Range(pending)
         /\ entries' = entries \/ (entries' = Append(entries, current) /\ pending' = << >>)
  <1>1. pending # << >> /\ current' = current /\ pending' = Tail(pending)
    BY DEF Store
  <1>2. current \in Entries /\ Range(pending) = {Head(pending)} \cup Range(Tail(pending))
    BY <1>1, RangeHeadTail DEF TypeOK
  <1>3. CASE pending' = << >>
    <2>1. entries' = Append(entries, current)
      BY <1>3 DEF Store
    <2>2. Range(entries') = Range(entries) \cup {current}
      BY <1>2, <2>1, RangeAppend DEF TypeOK
    <2>3. Known' = Range(entries')
      BY <1>3 DEF Known
    <2>4. Known = Range(entries) \cup {current}
      BY <1>1 DEF Known
    <2> QED
      BY <1>1, <1>2, <1>3, <2>1, <2>2, <2>3, <2>4
  <1>4. CASE pending' # << >>
    <2>1. entries' = entries
      BY <1>4 DEF Store
    <2> QED
      BY <1>1, <1>2, <1>4, <2>1 DEF Known
  <1> QED
    BY <1>3, <1>4

\* What is known is known for good.
LEMMA KnownStays ==
  ASSUME TypeOK, Writer
  PROVE  Known \subseteq Known'
  <1>1. CASE ParseLine
    BY <1>1 DEF ParseLine, Known
  <1>2. CASE BeginWrite \/ AddCode
    BY <1>2 DEF BeginWrite, AddCode, Known
  <1>3. CASE Store
    BY <1>3, StoreKnown
  <1> QED
    BY <1>1, <1>2, <1>3 DEF Writer

LEMMA InOrderStep == TypeOK /\ InOrder /\ Writer => InOrder'
  <1> SUFFICES ASSUME TypeOK, InOrder, Writer PROVE InOrder'
    OBVIOUS
  <1>0. /\ Len(entries) \in Nat /\ number \in Nat
        /\ \A i \in 1 .. Len(entries) : entries[i] \in Entries /\ entries[i].line \in Nat
    BY ElementOfSeq, LenProperties DEF TypeOK, Entries, Entry
  <1>1. CASE ParseLine
    <2>1. number' = number + 1 /\ entries' = entries /\ pending = << >>
      BY <1>1 DEF ParseLine
    <2>2. PICK r \in Rules :
            \/ pending' = << >>
            \/ current' = Entry(number + 1, r) /\ pending' = Keys(r)
      BY <1>1 DEF ParseLine
    <2>3. pending' # << >> =>
            /\ Range(pending') \subseteq Range(Keys(current'.rule))
            /\ current'.line = number'
      BY <2>1, <2>2 DEF Entry
    <2>4. \A i \in 1 .. Len(entries) : entries[i].line < number'
      BY <1>0, <2>1 DEF InOrder
    <2> QED
      BY <1>0, <2>1, <2>3, <2>4 DEF InOrder
  <1>2. CASE BeginWrite \/ AddCode
    BY <1>2 DEF BeginWrite, AddCode, InOrder
  <1>3. CASE Store
    <2>1. /\ pending # << >> /\ current' = current /\ current \in Entries
          /\ Range(pending') \subseteq Range(pending)
          /\ number' = number
      BY <1>3, StoreKnown DEF Store
    <2>2. CASE entries' = entries
      BY <2>1, <2>2 DEF InOrder
    <2>3. CASE entries' = Append(entries, current) /\ pending' = << >>
      <3>1. /\ Len(entries') = Len(entries) + 1
            /\ \A i \in 1 .. Len(entries) : entries'[i] = entries[i]
            /\ entries'[Len(entries) + 1] = current
        BY <2>1, <2>3, AppendProperties DEF TypeOK
      <3>2. current.line = number
        BY <2>1 DEF InOrder
      <3>3. ASSUME NEW i \in 1 .. Len(entries')
            PROVE  /\ entries'[i].line <= number
                   /\ \A j \in 1 .. i - 1 : entries'[j].line < entries'[i].line
        <4>1. CASE i \in 1 .. Len(entries)
          <5>1. \A j \in 1 .. i - 1 : j \in 1 .. Len(entries)
            BY <1>0, <4>1
          <5> QED
            BY <3>1, <4>1, <5>1 DEF InOrder
        <4>2. CASE i = Len(entries) + 1
          <5>1. \A j \in 1 .. i - 1 : j \in 1 .. Len(entries)
            BY <1>0, <4>2
          <5>2. \A j \in 1 .. Len(entries) : entries[j].line < number
            BY <2>1 DEF InOrder
          <5> QED
            BY <1>0, <3>1, <3>2, <4>2, <5>1, <5>2
        <4> QED
          BY <1>0, <3>1, <4>1, <4>2
      <3> QED
        BY <2>1, <2>3, <3>3 DEF InOrder
    <2> QED
      BY <1>3, <2>2, <2>3, StoreKnown
  <1> QED
    BY <1>1, <1>2, <1>3 DEF Writer

LEMMA FiledStep == TypeOK /\ InOrder /\ Filed /\ Writer => Filed'
  <1> SUFFICES ASSUME TypeOK, InOrder, Filed, Writer PROVE Filed'
    OBVIOUS
  <1>1. CASE UNCHANGED db
    BY <1>1, KnownStays DEF Filed
  <1>2. CASE Store
    <2> DEFINE head == Head(pending)
    <2>1. /\ pending # << >> /\ current \in Entries /\ Known' = Known
          /\ head \in AllKeys /\ head \in Range(pending)
      BY <1>2, StoreKnown, HeadTailProperties, RangeHeadTail DEF TypeOK
    <2>2. db' = [db EXCEPT ![head] = Append(@, current)]
      BY <1>2 DEF Store
    <2>3. current \in Known /\ head \in Range(Keys(current.rule)) /\ current.line = number
      BY <2>1 DEF Known, InOrder
    <2>4. ASSUME NEW key \in AllKeys, NEW n \in 1 .. Len(db'[key])
          PROVE  /\ db'[key][n] \in Known
                 /\ key \in Range(Keys(db'[key][n].rule))
                 /\ \A m \in 1 .. n - 1 : db'[key][m].line <= db'[key][n].line
      <3>1. CASE key # head
        <4>1. db'[key] = db[key]
          BY <2>2, <3>1 DEF TypeOK
        <4> QED
          BY <4>1 DEF Filed
      <3>2. CASE key = head
        <4>1. /\ Len(db[key]) \in Nat
              /\ Len(db'[key]) = Len(db[key]) + 1
              /\ \A i \in 1 .. Len(db[key]) : db'[key][i] = db[key][i]
              /\ db'[key][Len(db[key]) + 1] = current
          <5>1. db[key] \in Seq(Entries) /\ db'[key] = Append(db[key], current)
            BY <2>1, <2>2, <3>2 DEF TypeOK
          <5> HIDE DEF head
          <5> QED
            BY <2>1, <5>1, AppendProperties, LenProperties
        <4>2. CASE n \in 1 .. Len(db[key])
          <5>1. \A m \in 1 .. n - 1 : m \in 1 .. Len(db[key])
            BY <4>1, <4>2
          <5> QED
            BY <4>1, <4>2, <5>1 DEF Filed
        <4>3. CASE n = Len(db[key]) + 1
          <5>1. \A m \in 1 .. n - 1 : m \in 1 .. Len(db[key])
            BY <4>1, <4>3
          <5>2. \A m \in 1 .. Len(db[key]) : db[key][m].line <= number
            BY KnownLines DEF Filed
          <5> QED
            BY <2>3, <3>2, <4>1, <4>3, <5>1, <5>2
        <4> QED
          BY <4>1, <4>2, <4>3
      <3> QED
        BY <3>1, <3>2
    <2> QED
      BY <2>1, <2>4 DEF Filed
  <1> QED
    BY <1>1, <1>2 DEF Writer, ParseLine, BeginWrite, AddCode

\* An answer stays right while the denylist grows.
LEMMA DecidedStep == Inv /\ Decided /\ Writer => Decided'
  <1> SUFFICES ASSUME Inv, Decided, Writer PROVE Decided'
    OBVIOUS
  <1>1. /\ UNCHANGED <<asked, step, answer, since>>
        /\ \A r \in Readers : \A i \in 1 .. since[r] : entries'[i] = entries[i]
    BY WriterKeeps DEF Inv, SinceBound, readerVars
  <1>2. Known \subseteq Known'
    BY KnownStays DEF Inv
  <1> SUFFICES ASSUME NEW r \in Readers, Answered(r)',
                      answer'[r] # [status |-> "notfound", line |-> 0]
               PROVE  \E e \in Known' : Decides(e, asked[r], since[r], answer[r])'
    BY <1>1 DEF Decided, Decides
  <1>3. PICK e \in Known : Decides(e, asked[r], since[r], answer[r])
    BY <1>1 DEF Decided, Answered
  <1>4. Decides(e, asked[r], since[r], answer[r])'
    BY <1>1, <1>3 DEF Decides
  <1> QED
    BY <1>2, <1>4

\* The answer that a reader returns is that of an entry.
LEMMA LookDecides ==
  ASSUME Inv, InOrder, Filed, NEW r \in Readers, Look(r)
  PROVE  \/ /\ step'[r] = step[r] + 1 /\ step[r] \in Nat /\ step[r] # 0
            /\ answer'[r] = answer[r]
         \/ /\ \E e \in Known : Decides(e, asked[r], since[r], answer'[r])
            /\ Return(r, answer'[r])
            /\ answer'[r].status # "notfound"
            /\ step[r] # 0 /\ step'[r] = 0
  <1> DEFINE probe == Probes(asked[r])[step[r]]
  <1>1. PICK view \in Views(probe.key) :
          LET response == CheckPathStatus(view, probe.at) IN
          \/ /\ response.status # "notfound"
             /\ Return(r, response)
          \/ /\ response.status = "notfound"
             /\ step' = [step EXCEPT ![r] = @ + 1]
             /\ UNCHANGED answer
    BY DEF Look
  <1>2. step[r] \in 1 .. Len(Probes(asked[r])) /\ step[r] \in Nat /\ step[r] # 0
    BY ProbesFacts DEF Look, Looking
  <1>3. CASE CheckPathStatus(view, probe.at).status # "notfound"
    <2>1. \A j \in 1 .. step[r] - 1 : Missed(r, Probes(asked[r])[j])
      BY DEF Inv, LookedUp
    <2>2. \E e \in Known :
             Decides(e, asked[r], since[r], CheckPathStatus(view, probe.at))
      BY <1>2, <1>3, <2>1, Deciding
    <2>3. Return(r, CheckPathStatus(view, probe.at))
      BY <1>1, <1>3
    <2>4. answer'[r] = CheckPathStatus(view, probe.at) /\ step'[r] = 0
      BY <2>3 DEF Return, Inv, TypeOK
    <2> QED
      BY <1>2, <1>3, <2>2, <2>3, <2>4
  <1>4. CASE CheckPathStatus(view, probe.at).status = "notfound"
    BY <1>1, <1>2, <1>4 DEF Inv, TypeOK
  <1> QED
    BY <1>3, <1>4

LEMMA VisitDecides ==
  ASSUME Inv, InOrder, Filed, NEW r \in Readers, Visit(r)
  PROVE  \/ /\ step'[r] = step[r] /\ step[r] # 0
            /\ answer'[r] = answer[r]
         \/ /\ \E e \in Known : Decides(e, asked[r], since[r], answer'[r])
            /\ Return(r, answer'[r])
            /\ answer'[r].status # "notfound"
            /\ step[r] # 0 /\ step'[r] = 0
  <1> DEFINE probe(code) == ModernProbe(asked[r], code)
             response(code) == CheckPathStatus(Load(probe(code).key), probe(code).at)
  <1>1. PICK code \in dhCodes :
          \/ /\ response(code).status # "notfound"
             /\ Return(r, response(code))
          \/ /\ response(code).status = "notfound"
             /\ UNCHANGED <<step, answer>>
    BY DEF Visit
  <1>2. /\ step[r] = Len(Probes(asked[r])) + 1 /\ step[r] \in Nat
        /\ Len(Probes(asked[r])) \in Nat
    BY ProbesFacts DEF Visit, Ranging
  <1>3. CASE response(code).status # "notfound"
    <2>0. code \in Codes
      BY DEF Inv, TypeOK
    <2>1. \A j \in 1 .. step[r] - 1 : Missed(r, Probes(asked[r])[j])
      BY DEF Inv, LookedUp
    <2>2. Load(probe(code).key) \in Views(probe(code).key)
      BY DEF Views, ModernProbe, Probe, PrefixBlocks
    <2>3. step[r] > Len(Probes(asked[r]))
      BY <1>2
    <2>4. \E e \in Known : Decides(e, asked[r], since[r], response(code))
      BY <1>2, <1>3, <2>0, <2>1, <2>2, <2>3, Deciding
    <2>5. Return(r, response(code))
      BY <1>1, <1>3
    <2>6. answer'[r] = response(code) /\ step'[r] = 0
      BY <2>5 DEF Return, Inv, TypeOK
    <2> HIDE DEF response, probe
    <2> QED
      BY <1>2, <1>3, <2>4, <2>5, <2>6
  <1>4. CASE response(code).status = "notfound"
    <2> HIDE DEF response, probe
    <2> QED
      BY <1>1, <1>2, <1>4
  <1> QED
    BY <1>3, <1>4

LEMMA ReaderDecides ==
  Inv /\ BookInv /\ (\E r \in Readers : Reader(r)) => Decided'
  <1> SUFFICES ASSUME Inv, InOrder, Filed, Decided, NEW r \in Readers, Reader(r),
                      NEW s \in Readers, Answered(s)',
                      answer'[s] # [status |-> "notfound", line |-> 0]
               PROVE  \E e \in Known' : Decides(e, asked[s], since[s], answer[s])'
    BY DEF BookInv, Decided, Decides
  <1>1. UNCHANGED <<entries, current, pending>>
    BY DEF Reader, Ask, Look, Visit, RangeEnds, Race, writerVars
  <1>2. SUFFICES \E e \in Known : Decides(e, asked'[s], since'[s], answer'[s])
    BY <1>1 DEF Decides, Known
  <1>3. CASE /\ asked'[s] = asked[s] /\ since'[s] = since[s]
             /\ answer'[s] = answer[s] /\ step'[s] = step[s]
    BY <1>3 DEF Decided, Answered
  <1>4. CASE s # r
    <2>1. /\ asked'[s] = asked[s] /\ since'[s] = since[s]
          /\ answer'[s] = answer[s] /\ step'[s] = step[s]
      BY <1>4 DEF Reader, Ask, Look, Visit, RangeEnds, Race, Return, readerVars,
                  Inv, TypeOK
    <2> QED
      BY <1>3, <2>1
  <1>5. CASE s = r
    <2>1. CASE Ask(r)
      <3>1. answer'[r] = NoAnswer
        BY <2>1 DEF Ask, Inv, TypeOK
      <3> QED
        BY <1>5, <3>1 DEF Answered, NoAnswer
    <2>2. CASE Look(r)
      <3>1. asked' = asked /\ since' = since
        BY <2>2 DEF Look
      <3>2. step[r] \in Nat /\ step'[r] = 0
        BY <1>5 DEF Answered, Inv, TypeOK
      <3> QED
        BY <1>5, <2>2, <3>1, <3>2, LookDecides
    <2>3. CASE Visit(r)
      <3>1. asked' = asked /\ since' = since /\ step'[r] = 0
        BY <1>5, <2>3 DEF Visit, Answered
      <3> QED
        BY <1>5, <2>3, <3>1, VisitDecides
    <2>4. CASE RangeEnds(r)
      BY <1>5, <2>4 DEF RangeEnds, Return, Inv, TypeOK
    <2>5. CASE Race(r)
      BY <1>3, <2>5 DEF Race, readerVars
    <2> QED
      BY <2>1, <2>2, <2>3, <2>4, <2>5 DEF Reader
  <1> QED
    BY <1>4, <1>5

LEMMA InitBook == Init => BookInv
  <1> SUFFICES ASSUME Init PROVE BookInv
    OBVIOUS
  <1>1. /\ Len(entries) = 0 /\ pending = << >>
        /\ \A key \in AllKeys : Len(db[key]) = 0
        /\ \A r \in Readers : answer[r] = NoAnswer
    BY EmptySeq DEF Init
  <1>2. InOrder
    BY <1>1 DEF InOrder
  <1>3. Filed
    BY <1>1 DEF Filed
  <1>4. Decided
    BY <1>1 DEF Decided, Answered, NoAnswer
  <1> QED
    BY <1>2, <1>3, <1>4 DEF BookInv

\* BookInv holds of every state: what is found is right.
THEOREM BookInvariance == Spec => []BookInv
  <1>1. Inv /\ BookInv /\ Writer => BookInv'
    BY InOrderStep, FiledStep, DecidedStep DEF Inv, BookInv
  <1>2. Inv /\ BookInv /\ (\E r \in Readers : Reader(r)) => BookInv'
    <2> SUFFICES ASSUME Inv, BookInv, NEW r \in Readers, Reader(r)
                 PROVE  InOrder' /\ Filed'
      BY ReaderDecides DEF BookInv
    <2>1. UNCHANGED writerVars
      BY DEF Reader, Ask, Look, Visit, RangeEnds, Race
    <2> QED
      BY <2>1 DEF BookInv, InOrder, Filed, Known, writerVars
  <1>3. BookInv /\ UNCHANGED vars => BookInv'
    <2> SUFFICES ASSUME BookInv, UNCHANGED vars PROVE BookInv'
      OBVIOUS
    <2>1. InOrder' /\ Filed'
      BY DEF BookInv, InOrder, Filed, Known, vars, writerVars
    <2>2. Decided'
      BY DEF BookInv, Decided, Decides, Answered, Known, vars, writerVars, readerVars
    <2> QED
      BY <2>1, <2>2 DEF BookInv
  <1>4. Inv /\ BookInv /\ [Next]_vars => BookInv'
    BY <1>1, <1>2, <1>3 DEF Next
  <1> QED
    BY <1>4, InitBook, Invariance, PTL DEF Spec

-----------------------------------------------------------------------------
(* What follows of the answers.                                            *)

\* No two entries are on one line.
LEMMA OneEntryPerLine ==
  ASSUME TypeOK, InOrder, NEW d \in Known, NEW e \in Known, d.line = e.line
  PROVE  d = e
  <1>1. CASE d \in Range(entries) /\ e \in Range(entries)
    <2>1. PICK i \in 1 .. Len(entries) : d = entries[i]
      BY <1>1, LenProperties DEF TypeOK, Range
    <2>2. PICK j \in 1 .. Len(entries) : e = entries[j]
      BY <1>1, LenProperties DEF TypeOK, Range
    <2>3. d.line \in Nat /\ e.line \in Nat
      BY KnownLines
    <2>4. CASE i < j
      <3>1. i \in 1 .. j - 1
        BY <2>4
      <3> QED
        BY <2>1, <2>2, <2>3, <3>1 DEF InOrder
    <2>5. CASE j < i
      <3>1. j \in 1 .. i - 1
        BY <2>5
      <3> QED
        BY <2>1, <2>2, <2>3, <3>1 DEF InOrder
    <2> QED
      BY <2>1, <2>2, <2>4, <2>5
  <1>2. ASSUME pending # << >>, NEW x \in Range(entries)
        PROVE  x.line # current.line
    <2>1. PICK i \in 1 .. Len(entries) : x = entries[i]
      BY <1>2, LenProperties DEF TypeOK, Range
    <2>2. x.line < number /\ current.line = number
      BY <1>2, <2>1 DEF InOrder
    <2>3. x.line \in Nat /\ number \in Nat
      BY <1>2, KnownLines DEF Known, TypeOK
    <2> QED
      BY <2>2, <2>3
  <1> QED
    BY <1>1, <1>2 DEF Known

\* The entry on the line of an answer is the one that decided.
LEMMA TheDecider ==
  ASSUME Inv, BookInv, NEW r \in Readers, Answered(r), NEW e \in Known,
         answer[r].line = e.line
  PROVE  Decides(e, asked[r], since[r], answer[r])
  <1>1. e.line \in Nat /\ e.line # 0
    BY KnownEntries DEF Inv, Entries, Entry
  <1>2. answer[r] # [status |-> "notfound", line |-> 0]
    BY <1>1
  <1>3. PICK d \in Known : Decides(d, asked[r], since[r], answer[r])
    BY <1>2 DEF BookInv, Decided
  <1>4. d.line = e.line
    BY <1>3 DEF Decides
  <1>5. d = e
    BY <1>4, OneEntryPerLine DEF Inv, BookInv
  <1> QED
    BY <1>3, <1>5

\* Whatever is found is what a rule says of what was asked, on the line that
\* the response names.
THEOREM Justification == Spec => []Justified
  <1>1. Inv /\ BookInv => Justified
    <2> SUFFICES ASSUME Inv, BookInv, NEW r \in Readers, Answered(r),
                        answer[r].status # "notfound"
                 PROVE  \E e \in Known :
                          /\ e.line = answer[r].line
                          /\ e.rule.allow = (answer[r].status = "allowed")
                          /\ Covers(e.rule, asked[r])
      BY DEF Justified
    <2>1. PICK e \in Known : Decides(e, asked[r], since[r], answer[r])
      BY DEF BookInv, Decided
    <2>2. e.line = answer[r].line /\ Covers(e.rule, asked[r])
      BY <2>1 DEF Decides, IsAbout
    <2>3. e.rule.allow \in BOOLEAN
      BY KnownEntries, RulesAssumption DEF Inv
    <2>4. e.rule.allow = (answer[r].status = "allowed")
      BY <2>1, <2>3 DEF Decides
    <2> QED
      BY <2>2, <2>4
  <1> QED
    BY <1>1, Invariance, BookInvariance, PTL

\* Of the rules under one key, the latest decides.
THEOREM Latest == Spec => []LatestWins
  <1>1. Inv /\ BookInv => LatestWins
    BY TheDecider DEF LatestWins, Decides, Overrules, IsAbout
  <1> QED
    BY <1>1, Invariance, BookInvariance, PTL

-----------------------------------------------------------------------------
(* What escapes come to.                                                   *)

\* Unescaping keeps the length, and leaves characters.
LEMMA UnescapeFacts ==
  ASSUME NEW raw \in Seq(RawChar)
  PROVE  /\ Unescape(raw) \in Seq(PathChar)
         /\ Len(Unescape(raw)) = Len(raw)
         /\ \A c \in PathChar, i \in 1 .. Len(raw) :
              raw[i] = <<"%", c>> => Unescape(raw)[i] = c
  <1>1. /\ DOMAIN raw = 1 .. Len(raw) /\ Len(raw) \in Nat
        /\ \A i \in 1 .. Len(raw) : raw[i] \in RawChar
    BY LenProperties, ElementOfSeq
  <1>2. \A i \in 1 .. Len(raw) :
          raw[i] \in PathChar \/ \E c \in PathChar : raw[i] = <<"%", c>>
    BY <1>1 DEF RawChar
  <1>3. \A i \in 1 .. Len(raw) :
          /\ Unescape(raw)[i] \in PathChar
          /\ \A c \in PathChar : raw[i] = <<"%", c>> => Unescape(raw)[i] = c
    <2> SUFFICES ASSUME NEW i \in 1 .. Len(raw)
                 PROVE  /\ Unescape(raw)[i] \in PathChar
                        /\ \A c \in PathChar : raw[i] = <<"%", c>> => Unescape(raw)[i] = c
      OBVIOUS
    <2>0. Unescape(raw)[i] = IF raw[i] \in PathChar
                             THEN IF raw[i] = Plus THEN Space ELSE raw[i]
                             ELSE raw[i][2]
      BY <1>1 DEF Unescape
    <2>1. CASE raw[i] \in PathChar
      <3>1. Space \in PathChar
        BY DEF PathChar
      <3>2. \A c \in PathChar : raw[i] # <<"%", c>>
        BY <2>1, CharAssumption
      <3> QED
        BY <2>0, <2>1, <3>1, <3>2
    <2>2. CASE raw[i] \notin PathChar
      <3>1. PICK c \in PathChar : raw[i] = <<"%", c>>
        BY <1>2, <2>2
      <3>2. Unescape(raw)[i] = c
        BY <2>0, <2>2, <3>1
      <3>3. \A d \in PathChar : raw[i] = <<"%", d>> => d = c
        BY <3>1
      <3> QED
        BY <3>2, <3>3
    <2> QED
      BY <2>1, <2>2
  <1>4. Unescape(raw) \in [1 .. Len(raw) -> PathChar]
    BY <1>1, <1>3 DEF Unescape
  <1>5. Unescape(raw) \in Seq(PathChar)
    BY <1>1, <1>4, SeqDef
  <1> QED
    BY <1>1, <1>3, <1>4, <1>5, LenProperties

\* Trimming slashes leaves a last character that is none, and all before it.
LEMMA TrimKeepsLast ==
  ASSUME NEW S, NEW s \in Seq(S), s # << >>, Last(s) # Slash
  PROVE  LET t == TrimRight(TrimLeft(s))
         IN t \in Seq(S) /\ t # << >> /\ Last(t) = Last(s) /\ t = TrimLeft(s)
  <1>1. Len(s) \in Nat /\ Len(s) > 0
    BY EmptySeq, LenProperties
  <1>2. CASE s[1] = Slash
    <2>1. Len(s) > 1
      BY <1>1, <1>2 DEF Last
    <2>2. /\ Tail(s) \in Seq(S) /\ Len(Tail(s)) = Len(s) - 1
          /\ \A i \in 1 .. Len(Tail(s)) : Tail(s)[i] = s[i + 1]
      BY HeadTailProperties
    <2>3. Tail(s) # << >> /\ Tail(s)[Len(s) - 1] = s[Len(s)]
      <3>1. Len(s) - 1 \in 1 .. Len(Tail(s))
        BY <1>1, <2>1, <2>2
      <3>2. Tail(s)[Len(s) - 1] = s[Len(s) - 1 + 1]
        BY <2>2, <3>1
      <3>3. Tail(s) # << >>
        <4>1. Tail(s) \in Seq(S) /\ Len(Tail(s)) # 0
          BY <1>1, <2>1, <2>2
        <4> DEFINE t == Tail(s)
        <4>2. t \in Seq(S) /\ Len(t) # 0
          BY <4>1
        <4> HIDE DEF t
        <4>3. t # << >>
          BY <4>2
        <4> QED
          BY <4>3 DEF t
      <3> QED
        BY <1>1, <3>2, <3>3
    <2>4. TrimLeft(s) = Tail(s)
      BY <1>2 DEF TrimLeft
    <2>5. TrimRight(TrimLeft(s)) = Tail(s)
      BY <2>2, <2>3, <2>4 DEF TrimRight, Last
    <2> QED
      BY <2>2, <2>3, <2>4, <2>5 DEF Last
  <1>3. CASE s[1] # Slash
    BY <1>3 DEF TrimLeft, TrimRight, Last
  <1> QED
    BY <1>2, <1>3

\* A rule that ends in an escaped wildcard is one for a single path, which
\* ends in that character.
LEMMA EscapedStar ==
  ASSUME NEW rule \in Rules, rule.raw # << >>, Last(rule.raw) = <<"%", Star>>
  PROVE  LET bpath == NewBlockedPath(rule.raw)
         IN /\ ~bpath.prefix /\ Last(bpath.path) = Star
            /\ bpath.path = TrimLeft(Unescape(rule.raw))
  <1> DEFINE raw == rule.raw
             text == Unescape(raw)
  <1>1. raw \in Seq(RawChar) /\ Len(raw) \in Nat /\ Len(raw) > 0
    BY RawAssumption, EmptySeq, LenProperties
  <1>2. Star \in PathChar /\ raw[Len(raw)] = <<"%", Star>>
    BY DEF PathChar, Last
  <1>3. raw[Len(raw)] # Star
    BY <1>2, CharAssumption
  <1>4. text \in Seq(PathChar) /\ Len(text) = Len(raw) /\ Last(text) = Star
    <2> HIDE DEF raw
    <2> QED
      BY <1>1, <1>2, UnescapeFacts DEF Last
  <1>5. text # << >> /\ Last(text) # Slash
    BY <1>1, <1>4, CharAssumption, EmptySeq
  <1>6. /\ Last(TrimRight(TrimLeft(text))) = Star
        /\ TrimRight(TrimLeft(text)) = TrimLeft(text)
    <2> HIDE DEF text
    <2> QED
      BY <1>4, <1>5, TrimKeepsLast
  <1>7. NewBlockedPath(raw) = [path |-> TrimRight(TrimLeft(text)), prefix |-> FALSE]
    BY <1>3 DEF NewBlockedPath
  <1> QED
    BY <1>6, <1>7

\* Such a rule, when it is more than that wildcard, decides about that path
\* alone.
THEOREM EscapedStarIsLiteral == Spec => []EscapedStarLiteral
  <1>1. Inv /\ BookInv => EscapedStarLiteral
    <2> SUFFICES ASSUME Inv, BookInv, NEW r \in Readers, NEW e \in Known,
                        Answered(r), answer[r].line = e.line,
                        e.rule.raw # << >>, Last(e.rule.raw) = <<"%", Star>>,
                        TrimLeft(Unescape(e.rule.raw)) # <<Star>>
                 PROVE  asked[r].sub = e.path.path /\ Last(asked[r].sub) = Star
      BY DEF EscapedStarLiteral
    <2>1. e.rule \in Rules /\ e.path = NewBlockedPath(e.rule.raw) /\ asked[r] \in Queries
      BY KnownEntries DEF Inv, TypeOK
    <2>2. ~e.path.prefix /\ Last(e.path.path) = Star /\ e.path.path # <<Star>>
      BY <2>1, EscapedStar
    <2>3. Covers(e.rule, asked[r])
      BY TheDecider DEF Decides, IsAbout
    <2>4. Matches(e.path, asked[r].sub)
      BY <2>1, <2>3, RulesAssumption DEF Covers
    <2>5. TrimLeft(TrimRight(asked[r].sub)) = asked[r].sub
      BY <2>1, QueriesAssumption
    <2>6. asked[r].sub = e.path.path
      BY <2>2, <2>4, <2>5 DEF Matches
    <2> QED
      BY <2>2, <2>6
  <1> QED
    BY <1>1, Invariance, BookInvariance, PTL

-----------------------------------------------------------------------------
(* Denylist implements RuleBook.                                           *)

\* What Book calls the book, and its open questions.
TheBook == IF pending = << >> THEN entries ELSE Append(entries, current)
Open == [r \in Readers |-> step[r] # 0]

LEMMA InitBookInit == Init => Book!Init
  <1> SUFFICES ASSUME Init PROVE Book!Init
    OBVIOUS
  <1>1. TheBook = << >> /\ Len(entries) = 0
    BY EmptySeq DEF Init, TheBook
  <1>2. Open = [r \in Readers |-> FALSE]
    BY DEF Init, Open
  <1>3. /\ asked \in [Readers -> Queries]
        /\ since = [r \in Readers |-> 0]
        /\ answer = [r \in Readers |-> [status |-> "none", line |-> 0]]
    BY DEF Init, NoAnswer
  <1> QED
    BY <1>1, <1>2, <1>3 DEF Book!Init, TheBook, Open

\* Known entries are in the book, settled ones where they are in dl.Entries.
LEMMA BookFacts ==
  ASSUME TypeOK, SinceBound
  PROVE  /\ \A e \in Known : \E i \in 1 .. Len(TheBook) : TheBook[i] = e
         /\ \A r \in Readers : \A j \in 1 .. since[r] : TheBook[j] = entries[j]
  <1>0. Len(entries) \in Nat /\ \A r \in Readers : \A j \in 1 .. since[r] : j \in 1 .. Len(entries)
    BY LenProperties, KnownFacts DEF TypeOK
  <1>1. \A e \in Range(entries) : \E i \in 1 .. Len(entries) : entries[i] = e
    BY LenProperties DEF TypeOK, Range
  <1>2. CASE pending = << >>
    BY <1>1, <1>2 DEF TheBook, Known
  <1>3. CASE pending # << >>
    <2>1. TheBook = Append(entries, current) /\ current \in Entries
      BY <1>3 DEF TheBook, TypeOK
    <2>2. /\ Len(TheBook) = Len(entries) + 1
          /\ \A i \in 1 .. Len(entries) : TheBook[i] = entries[i]
          /\ TheBook[Len(entries) + 1] = current
      BY <2>1, AppendProperties DEF TypeOK
    <2>3. ASSUME NEW e \in Known PROVE \E i \in 1 .. Len(TheBook) : TheBook[i] = e
      <3>1. CASE e = current
        BY <1>0, <2>2, <3>1
      <3>2. CASE e \in Range(entries)
        <4>1. PICK i \in 1 .. Len(entries) : entries[i] = e
          BY <1>1, <3>2
        <4>2. i \in 1 .. Len(TheBook)
          BY <1>0, <2>2
        <4> QED
          BY <2>2, <4>1, <4>2
      <3> QED
        BY <3>1, <3>2 DEF Known
    <2> QED
      BY <1>0, <2>2, <2>3
  <1> QED
    BY <1>2, <1>3

\* A step that leaves the book and the questions alone is a stutter.
LEMMA Stutter ==
  ASSUME UNCHANGED <<TheBook, Len(entries), asked, Open, since, answer>>
  PROVE  UNCHANGED Book!vars
  BY DEF Book!vars, TheBook, Open

\* followLines writes an entry when it parses the line, and settles it when it
\* has stored it in the last place.
LEMMA WriterRefines ==
  ASSUME Inv, InOrder, Writer
  PROVE  Book!Write \/ Book!Settle \/ UNCHANGED Book!vars
  <1>0. /\ UNCHANGED <<asked, since, answer>> /\ Open' = Open
        /\ entries \in Seq(Entries) /\ Len(entries) \in Nat
    BY WriterKeeps, LenProperties DEF Inv, SinceBound, readerVars, Open, TypeOK
  <1>1. CASE ParseLine
    <2>1. PICK r \in Rules :
            \/ UNCHANGED pending
            \/ current' = Entry(number + 1, r) /\ pending' = Keys(r)
      BY <1>1 DEF ParseLine
    <2>2. /\ pending = << >> /\ entries' = entries /\ number < MaxLines
          /\ number \in Nat
      BY <1>1 DEF ParseLine, Inv, TypeOK
    <2>3. CASE pending' = << >>
      BY <1>0, <2>2, <2>3, Stutter DEF TheBook
    <2>4. CASE pending' # << >>
      <3>1. current' = Entry(number + 1, r)
        BY <2>1, <2>2, <2>4
      <3>2. current' \in Entries /\ current'.line = number + 1
        <4>1. number + 1 \in 1 .. MaxLines
          BY <2>2, BoundAssumption
        <4> QED
          BY <3>1, <4>1 DEF Entries, Entry
      <3>3. TheBook = entries /\ TheBook' = Append(entries, current')
        BY <2>2, <2>4 DEF TheBook
      <3>4. \A i \in 1 .. Len(entries) : entries[i].line < number + 1
        <4>1. \A i \in 1 .. Len(entries) : entries[i] \in Entries /\ entries[i].line <= number
          BY <1>0, ElementOfSeq DEF InOrder
        <4> QED
          BY <2>2, <4>1 DEF Entries, Entry
      <3>5. Len(entries') = Len(entries)
        BY <2>2
      <3>6. Book!Write
        BY <1>0, <3>2, <3>3, <3>4, <3>5 DEF Book!Write, TheBook, Open
      <3> QED
        BY <3>6
    <2> QED
      BY <2>3, <2>4
  <1>2. CASE BeginWrite \/ AddCode
    <2>1. UNCHANGED <<entries, current, pending>>
      BY <1>2 DEF BeginWrite, AddCode
    <2> QED
      BY <1>0, <2>1, Stutter DEF TheBook
  <1>3. CASE Store
    <2>1. /\ pending # << >> /\ current' = current /\ current \in Entries
          /\ entries' = IF pending' = << >> THEN Append(entries, current) ELSE entries
      BY <1>3, StoreKnown DEF Store, Inv
    <2>2. TheBook' = TheBook /\ TheBook = Append(entries, current)
      BY <2>1 DEF TheBook
    <2>3. CASE pending' # << >>
      BY <1>0, <2>1, <2>2, <2>3, Stutter
    <2>4. CASE pending' = << >>
      <3>1. Len(entries') = Len(entries) + 1 /\ Len(TheBook) = Len(entries) + 1
        BY <1>0, <2>1, <2>2, <2>4, AppendProperties
      <3>2. Len(entries) < Len(TheBook)
        BY <1>0, <3>1
      <3>3. Book!Settle
        BY <1>0, <2>2, <3>1, <3>2 DEF Book!Settle, TheBook, Open
      <3> QED
        BY <3>3
    <2> QED
      BY <2>3, <2>4
  <1> QED
    BY <1>1, <1>2, <1>3 DEF Writer

\* The reader that returns a response closes its question.
LEMMA ReturnCloses ==
  ASSUME Inv, NEW r \in Readers, NEW response, Return(r, response), step[r] # 0,
         UNCHANGED <<writerVars, asked, since>>
  PROVE  Book!Answer(r, response)
  <1>1. Open[r] /\ Open' = [Open EXCEPT ![r] = FALSE]
    BY DEF Return, Open, Inv, TypeOK
  <1>2. TheBook' = TheBook /\ Len(entries') = Len(entries)
    BY DEF TheBook, writerVars
  <1>3. answer' = [answer EXCEPT ![r] = response]
    BY DEF Return
  <1> QED
    BY <1>1, <1>2, <1>3 DEF Book!Answer, TheBook, Open

\* An entry that decides is found in the book.
LEMMA DecidesFound ==
  ASSUME Inv, NEW r \in Readers, NEW e \in Known, NEW response,
         Decides(e, asked[r], since[r], response), Book!Answer(r, response)
  PROVE  Book!Found(r)
  <1>1. /\ \E i \in 1 .. Len(TheBook) : TheBook[i] = e
        /\ \A j \in 1 .. since[r] : TheBook[j] = entries[j]
    BY BookFacts DEF Inv, SinceBound
  <1>2. PICK i \in 1 .. Len(TheBook) : TheBook[i] = e
    BY <1>1
  <1>3. IsAbout(TheBook[i], asked[r])
    BY <1>2 DEF Decides
  <1>4. \A j \in 1 .. since[r] :
          Overrules(TheBook[j], TheBook[i]) => ~IsAbout(TheBook[j], asked[r])
    BY <1>1, <1>2 DEF Decides
  <1>5. response = [status |-> IF TheBook[i].rule.allow THEN "allowed" ELSE "blocked",
                    line   |-> TheBook[i].line]
    BY <1>2 DEF Decides
  <1> QED
    BY <1>3, <1>4, <1>5 DEF Book!Found, Book!Answer, TheBook

LEMMA ReaderRefines ==
  ASSUME Inv, BookInv, NEW r \in Readers, Reader(r), NoMissedRule'
  PROVE  Book!Ask(r) \/ Book!Found(r) \/ Book!NotFound(r) \/ UNCHANGED Book!vars
  <1>0. UNCHANGED writerVars /\ TheBook' = TheBook /\ Len(entries') = Len(entries)
    BY DEF Reader, Ask, Look, Visit, RangeEnds, Race, writerVars, TheBook
  <1>1. CASE Ask(r)
    <2>1. ~Open[r] /\ Open' = [Open EXCEPT ![r] = TRUE]
      <3>1. /\ step[r] = 0 /\ step'[r] = 1
            /\ \A s \in Readers : s # r => step'[s] = step[s]
        BY <1>1 DEF Ask, Inv, TypeOK
      <3>2. r \in DOMAIN Open /\ Open = [s \in Readers |-> step[s] # 0]
        BY DEF Open
      <3>3. Open' = [s \in Readers |-> (step'[s] # 0)]
        BY DEF Open
      <3>4. [Open EXCEPT ![r] = TRUE] = [s \in Readers |-> (step'[s] # 0)]
        <4>1. \A s \in Readers : (step'[s] # 0) = (s = r \/ step[s] # 0)
          BY <3>1
        <4> QED
          BY <3>2, <4>1
      <3> QED
        BY <3>1, <3>2, <3>3, <3>4
    <2>2. Book!Ask(r)
      BY <1>0, <1>1, <2>1 DEF Book!Ask, Ask, TheBook, Open, NoAnswer
    <2> QED
      BY <2>2
  <1>2. ASSUME NEW response, Return(r, response), step[r] # 0,
               UNCHANGED <<writerVars, asked, since>>,
               \E e \in Known : Decides(e, asked[r], since[r], response)
        PROVE  Book!Found(r)
    BY <1>2, DecidesFound, ReturnCloses
  <1>3. CASE Look(r)
    <2>1. UNCHANGED <<writerVars, asked, since>>
      BY <1>3 DEF Look
    <2>2. CASE /\ \E e \in Known : Decides(e, asked[r], since[r], answer'[r])
               /\ Return(r, answer'[r]) /\ step[r] # 0
      BY <1>2, <2>1, <2>2
    <2>3. CASE step'[r] = step[r] + 1 /\ step[r] \in Nat
      <3>1. step' = [step EXCEPT ![r] = @ + 1] /\ UNCHANGED answer
        <4>1. step'[r] # 0
          BY <2>3
        <4> QED
          BY <1>3, <4>1 DEF Look, Return, Inv, TypeOK
      <3>2. Open' = Open
        <4>1. step[r] \in Nat /\ step[r] # 0 /\ step'[r] # 0
          BY <1>3, <3>1, ProbesFacts DEF Look, Looking, Inv, TypeOK
        <4>2. \A s \in Readers : s # r => step'[s] = step[s]
          BY <3>1 DEF Inv, TypeOK
        <4> QED
          BY <4>1, <4>2 DEF Open
      <3> QED
        BY <1>0, <2>1, <3>1, <3>2, Stutter
    <2> QED
      BY <1>3, <2>2, <2>3, LookDecides DEF BookInv
  <1>4. CASE Visit(r)
    <2>1. UNCHANGED <<writerVars, asked, since>> /\ step[r] # 0
      BY <1>4, ProbesFacts DEF Visit, Ranging
    <2>2. CASE \E e \in Known : Decides(e, asked[r], since[r], answer'[r])
      <3>1. CASE Return(r, answer'[r])
        BY <1>2, <2>1, <2>2, <3>1
      <3>2. CASE ~Return(r, answer'[r])
        <4>1. step'[r] = step[r] /\ step[r] # 0
          BY <1>4, <3>2, VisitDecides DEF BookInv
        <4>2. UNCHANGED <<step, answer>>
          BY <1>4, <4>1 DEF Visit, Return, Inv, TypeOK
        <4> QED
          BY <1>0, <2>1, <4>2, Stutter DEF Open
      <3> QED
        BY <3>1, <3>2
    <2>3. CASE ~ \E e \in Known : Decides(e, asked[r], since[r], answer'[r])
      <3>1. step'[r] = step[r]
        BY <1>4, <2>3, VisitDecides DEF BookInv
      <3>2. UNCHANGED <<step, answer>>
        BY <1>4, <2>1, <3>1 DEF Visit, Return, Inv, TypeOK
      <3> QED
        BY <1>0, <2>1, <3>2, Stutter DEF Open
    <2> QED
      BY <2>2, <2>3
  <1>5. CASE RangeEnds(r)
    <2> DEFINE response == [status |-> "notfound", line |-> 0]
    <2>1. /\ Return(r, response) /\ UNCHANGED <<writerVars, asked, since>>
          /\ step[r] # 0
      BY <1>5, ProbesFacts DEF RangeEnds, Ranging
    <2>2. Book!Answer(r, response)
      BY <2>1, ReturnCloses
    <2>3. answer'[r] = response /\ step'[r] = 0
      BY <2>1 DEF Return, Inv, TypeOK
    <2>5. \A j \in 1 .. since[r] :
            Canonical(entries[j].rule) => ~Covers(entries[j].rule, asked[r])
      BY <2>1, <2>3 DEF NoMissedRule, Answered, writerVars
    <2>6. \A j \in 1 .. since[r] : TheBook[j] = entries[j]
      BY BookFacts DEF Inv, SinceBound
    <2>7. \A j \in 1 .. since[r] :
            Certain(TheBook[j]) => ~IsAbout(TheBook[j], asked[r])
      BY <2>5, <2>6 DEF Certain, IsAbout
    <2>8. Book!NotFound(r)
      BY <2>2, <2>7 DEF Book!NotFound, TheBook
    <2> QED
      BY <2>8
  <1>6. CASE Race(r)
    BY <1>0, <1>6, Stutter DEF Race, readerVars, Open
  <1> QED
    BY <1>1, <1>3, <1>4, <1>5, <1>6 DEF Reader

\* Whatever is appended and asked meanwhile, a denylist answers as the book.
THEOREM Refinement == Spec => ImplementsBook
  <1>1. Inv /\ BookInv /\ NoMissedRule' /\ [Next]_vars => [Book!Next]_(Book!vars)
    <2> SUFFICES ASSUME Inv, BookInv, NoMissedRule', [Next]_vars
                 PROVE  [Book!Next]_(Book!vars)
      OBVIOUS
    <2>1. CASE Writer
      BY <2>1, WriterRefines DEF BookInv, Book!Next
    <2>2. CASE \E r \in Readers : Reader(r)
      BY <2>2, ReaderRefines DEF Book!Next
    <2>3. CASE UNCHANGED vars
      <3>1. UNCHANGED <<TheBook, Len(entries), asked, Open, since, answer>>
        BY <2>3 DEF vars, writerVars, readerVars, TheBook, Open
      <3> QED
        BY <3>1, Stutter
    <2> QED
      BY <2>1, <2>2, <2>3 DEF Next
  <1> QED
    BY <1>1, InitBookInit, Invariance, BookInvariance, NothingOverlooked, PTL
       DEF Spec, ImplementsBook, Book!Spec
=============================================================================
