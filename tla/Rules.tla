------------------------------- MODULE Rules --------------------------------
(***************************************************************************)
(* The rules of a denylist as data: how parseLine (denylist.go) turns a    *)
(* line into an Entry and chooses the keys it is stored under, how a       *)
(* BlockedPath is made and matched (entry.go), and which keys each lookup  *)
(* (IsPathBlocked, IsCidBlocked) probes, in order.                         *)
(*                                                                         *)
(* A path is a sequence of characters, with "/", "*" and "+" among them.    *)
(* In a rule a character may also be escaped ("%2A"), written <<"%", c>>.  *)
(* CIDs are records; a hash is the text it hashes, tagged with the code of *)
(* its function, since nothing here depends on collisions.                 *)
(***************************************************************************)
EXTENDS Integers, SequencesExt

CONSTANTS
  Letters,     \* characters with no meaning in a path
  Slash, Star, \* "/" and "*"
  Plus, Space, \* "+" and " ", for which url.QueryUnescape takes a "+"
  Cids,        \* [mh, codec, version]: what cid.Decode can return
  SafeCids,    \* the CIDs that are never blocked
  SHA2_256     \* the hash function of legacy double-hashes

PathChar == Letters \cup {Slash, Star, Plus, Space}
Path == Seq(PathChar)

\* What is written in a rule: characters, some of them escaped.
RawChar == PathChar \cup {<<"%", c>> : c \in PathChar}

\* "/" and "*" are two characters, and one that is escaped is not one that
\* stands for itself.
ASSUME CharAssumption ==
  /\ Slash # Star
  /\ \A c \in PathChar : <<"%", c>> \notin PathChar

-----------------------------------------------------------------------------
(* BlockedPath.                                                            *)

\* url.QueryUnescape.
Unescape(raw) ==
  [i \in DOMAIN raw |->
     IF raw[i] \in PathChar THEN IF raw[i] = Plus THEN Space ELSE raw[i]
     ELSE raw[i][2]]

\* strings.TrimPrefix(_, "/") and strings.TrimSuffix(_, "/").
TrimLeft(s) == IF s # << >> /\ s[1] = Slash THEN Tail(s) ELSE s
TrimRight(s) == IF s # << >> /\ s[Len(s)] = Slash THEN Front(s) ELSE s

\* Mutant: the wildcard is looked for after the escapes are gone.
NewBlockedPathLate(raw) ==
  LET text == Unescape(raw)
      wild == raw # << >> /\ text[Len(raw)] = Star
      body == IF wild THEN TrimRight(Front(text)) ELSE text
  IN [path   |-> TrimRight(TrimLeft(body)),
      prefix |-> wild]

\* A trailing "/*" or "*" makes the rule a prefix rule.
NewBlockedPath(raw) ==
  LET wild == raw # << >> /\ raw[Len(raw)] = Star
      body == IF wild THEN TrimRight(Front(raw)) ELSE raw
  IN [path   |-> TrimRight(TrimLeft(Unescape(body))),
      prefix |-> wild]

Matches(bpath, p) ==
  LET path == TrimLeft(TrimRight(p)) IN
  \/ bpath.path = <<Star>>
  \/ bpath.prefix /\ IsPrefix(bpath.path, path)
  \/ bpath.path = path

-----------------------------------------------------------------------------
(* Rules and entries.                                                      *)

(***************************************************************************)
(* A line that parses is [kind, on, raw, allow]:                           *)
(*   "ipfs"  /ipfs/<cid>[/path], /ipld/<cid>[/path]    on = the CID        *)
(*   "ipns"  /ipns/<name>[/path]                       on = the name       *)
(*   "path"  anything else, as a path                  on = nothing        *)
(*   "dh"    //<hash>   on = the hashes the text can be read as: a         *)
(*           multihash in base58 and a sha2-256 digest in hex, or both, in *)
(*           this order                                                    *)
(* Any other line is "blank" (white space only), or is "ignored": it is    *)
(* empty, a comment, or does not parse.                                    *)
(***************************************************************************)

\* An IPNS name is a key (a CID) or a domain name: [form, host], where the
\* form "label" is the host with its dots and dashes escaped, as one label.
NoDots(name) == name \notin Cids /\ name.form = "label"

\* The key an IPNS rule is stored under ...
StoredName(name) == IF name \in Cids THEN name.mh ELSE name

toDNSLinkFQDN(label) == [form |-> "fqdn", host |-> label.host]

\* ... and the key a name is looked up by.
LookupName(name) ==
  IF name \in Cids THEN name.mh
  ELSE IF NoDots(name) THEN toDNSLinkFQDN(name) ELSE name

\* Where all the path rules with a wildcard are: PathPrefixBlocks.
PrefixBlocks == <<"prefix">>

\* The places a rule is stored in.
Keys(rule) ==
  CASE rule.kind = "ipfs" -> << <<"ipfs", rule.on.mh>> >>
    [] rule.kind = "ipns" -> << <<"ipns", StoredName(rule.on)>> >>
    [] rule.kind = "path" ->
         IF NewBlockedPath(rule.raw).prefix THEN << PrefixBlocks >>
         ELSE << <<"path", rule.raw>> >>
    [] rule.kind = "dh" ->
         [i \in DOMAIN rule.on |-> <<"dh", rule.on[i].code, rule.on[i].text>>]
    [] OTHER -> << >>

\* The Entry of the rule on line n.
Entry(n, rule) ==
  [line |-> n, rule |-> rule, path |-> NewBlockedPath(rule.raw)]

\* Rules about known empty blocks and directories are left out.
Safe(rule) == rule.kind = "ipfs" /\ rule.on \in SafeCids

\* Mutant: entries are searched in the order of the file.
CheckPathStatusFirst(entries, p) ==
  LET hits == {i \in DOMAIN entries : Matches(entries[i].path, p)}
  IN IF hits = {} THEN [status |-> "notfound", line |-> 0]
     ELSE LET e == entries[Min(hits)]
          IN [status |-> IF e.rule.allow THEN "allowed" ELSE "blocked",
              line   |-> e.line]

\* Entries.CheckPathStatus: the latest entry that matches decides.
CheckPathStatus(entries, p) ==
  LET hits == {i \in DOMAIN entries : Matches(entries[i].path, p)}
  IN IF hits = {} THEN [status |-> "notfound", line |-> 0]
     ELSE LET e == entries[Max(hits)]
          IN [status |-> IF e.rule.allow THEN "allowed" ELSE "blocked",
              line   |-> e.line]

-----------------------------------------------------------------------------
(* Lookups.                                                                *)

(***************************************************************************)
(* A query is [api, on, sub]:                                              *)
(*   "ipfs"  IsPathBlocked(/ipfs/<cid>[/sub]), or /ipld                    *)
(*   "ipns"  IsPathBlocked(/ipns/<name>[/sub])                             *)
(*   "cid"   IsCidBlocked(cid), where sub is empty                         *)
(***************************************************************************)

\* <base32 CIDv1>/<sub>, and <domain name>/<sub>.
LegacyText(q) ==
  IF q.on \in Cids THEN <<"v1", [mh |-> q.on.mh, codec |-> q.on.codec], q.sub>>
  ELSE <<"name", q.on, q.sub>>

\* <base58 multihash>[/<sub>], and /ipns/<domain name>[/<sub>].
ModernText(q) ==
  IF q.on \in Cids THEN <<"v0", q.on.mh, q.sub>> ELSE <<"ipns", q.on, q.sub>>

\* One lookup in one place: the key, and the path its entries are checked for.
Probe(key, p) == [key |-> key, at |-> p]

LegacyProbe(q) == Probe(<<"dh", SHA2_256, LegacyText(q)>>, << >>)

\* IsSubpathBlocked, which only a path with a subpath goes through.
SubpathProbes(q) ==
  IF q.sub = << >> THEN << >>
  ELSE << Probe(<<"path", q.sub>>, q.sub), Probe(PrefixBlocks, q.sub) >>

\* IsIPNSPathBlocked.
IPNSProbes(q) == << Probe(<<"ipns", LookupName(q.on)>>, q.sub), LegacyProbe(q) >>

\* Mutant: the entries are not checked for the subpath.
IPFSProbesBare(q) == << Probe(<<"ipfs", q.on.mh>>, << >>), LegacyProbe(q) >>

\* isIPFSIPLDPathBlocked.
IPFSProbes(q) == << Probe(<<"ipfs", q.on.mh>>, q.sub), LegacyProbe(q) >>

\* IsCidBlocked.
CidProbes(q) == << Probe(<<"ipfs", q.on.mh>>, << >>), LegacyProbe(q) >>

\* The lookups about the CID or the name itself.
NameProbes(q) == IF q.api = "ipns" THEN IPNSProbes(q) ELSE IPFSProbes(q)

\* The lookups in the order in which they are made ...
Probes(q) ==
  IF q.api = "cid" THEN CidProbes(q) ELSE SubpathProbes(q) \o NameProbes(q)

\* ... before a last one for each hash function in use, in the random order
\* of a map iteration.
ModernProbe(q, code) == Probe(<<"dh", code, ModernText(q)>>, << >>)

-----------------------------------------------------------------------------
(* What a rule is about, whatever it is stored under.                      *)

SameName(a, b) == LookupName(a) = LookupName(b)

\* Whether the rule is about what is asked for.
Covers(rule, q) ==
  LET bpath == NewBlockedPath(rule.raw) IN
  \/ /\ rule.kind = "path"
     /\ q.api # "cid" /\ q.sub # << >>
     /\ Matches(bpath, q.sub)
  \/ /\ rule.kind = "ipfs"
     /\ q.api # "ipns"
     /\ rule.on.mh = q.on.mh
     /\ Matches(bpath, q.sub)
  \/ /\ rule.kind = "ipns"
     /\ q.api = "ipns"
     /\ SameName(rule.on, q.on)
     /\ Matches(bpath, q.sub)
  \/ /\ rule.kind = "dh"
     /\ \E i \in DOMAIN rule.on :
          \/ rule.on[i].text = ModernText(q)
          \/ rule.on[i].text = LegacyText(q) /\ rule.on[i].code = SHA2_256

\* Which of the indexes a rule is in decides before its line does, since a
\* lookup ends with the first index that has an answer.
Rank(rule) ==
  CASE rule.kind = "path" -> IF NewBlockedPath(rule.raw).prefix THEN 2 ELSE 1
    [] rule.kind \in {"ipfs", "ipns"} -> 3
    [] OTHER -> 4

\* A rule by path without a wildcard is stored under its own text, and one
\* about a domain name under the name as written.  A rule is canonical when
\* that is the text a lookup uses.
Canonical(rule) ==
  /\ rule.kind = "path" =>
       LET bpath == NewBlockedPath(rule.raw)
       IN bpath.prefix \/ rule.raw = bpath.path
  /\ rule.kind = "ipns" => ~NoDots(rule.on)
=============================================================================
