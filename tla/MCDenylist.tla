---------------------------- MODULE MCDenylist ------------------------------
(* Denylist with a handful of rules of every kind that overlap.            *)
EXTENDS Denylist

CONSTANTS x, y, m1, m2, m3, dagpb, raw, blake3, host, unknown

\* Two CIDs of one multihash, an IPNS key, and a known empty block with a
\* sibling.
c1 == [mh |-> m1, codec |-> dagpb, version |-> 1]
c2 == [mh |-> m1, codec |-> raw, version |-> 1]
key == [mh |-> m2, codec |-> raw, version |-> 1]
empty == [mh |-> m3, codec |-> raw, version |-> 1]
sibling == [mh |-> m3, codec |-> dagpb, version |-> 1]
MCCids == {c1, c2, key, empty, sibling}
MCSafeCids == {empty}

fqdn == [form |-> "fqdn", host |-> host]
label == [form |-> "label", host |-> host]

Rule(kind, on, path, allow) ==
  [kind |-> kind, on |-> on, raw |-> path, allow |-> allow]

Block(kind, on, path) == Rule(kind, on, path, FALSE)
Allow(kind, on, path) == Rule(kind, on, path, TRUE)

Hash(code, text) == [code |-> code, text |-> text]

Query(api, on, sub) == [api |-> api, on |-> on, sub |-> sub]

Ignored == Block("ignored", << >>, << >>)
Blank == Block("blank", << >>, << >>)

\* Rules about one CID and one path, to have more than two of them interact ...
FewRules ==
  { Block("ipfs", c1, << >>), Allow("ipfs", c2, <<Star>>),
    Block("path", << >>, <<x, Star>>),
    Allow("path", << >>, <<x>>),
    Block("dh", <<Hash(SHA2_256, <<"v0", m1, << >>>>)>>, << >>),
    Allow("dh", <<Hash(blake3, <<"v0", m1, << >>>>)>>, << >>) }

FewQueries == { Query("ipfs", c1, <<x>>), Query("cid", c1, << >>) }

\* ... and those that go through every index and every form.
MCRules == FewRules \cup
  { Block("ipfs", c1, <<x, Star>>), Block("ipfs", empty, << >>), Block("ipfs", sibling, << >>),
    Block("ipfs", c1, <<x, Plus, Slash, <<"%", Star>>, Star>>),
    Block("ipfs", c1, <<x, <<"%", Star>>>>), Block("ipfs", c1, <<<<"%", Star>>>>),
    Block("path", << >>, <<x, y>>),
    Allow("path", << >>, <<x, Slash, Star>>), Allow("path", << >>, <<Slash, x, y, Star>>),
    Block("ipns", key, << >>), Allow("ipns", key, <<Star>>),
    Block("ipns", fqdn, <<x>>),
    Block("dh", <<Hash(blake3, unknown),
                  Hash(SHA2_256, <<"v0", m1, << >>>>)>>, << >>),
    Block("dh", <<Hash(SHA2_256, <<"v1", [mh |-> m1, codec |-> raw], <<x>>>>)>>, << >>),
    Allow("dh", <<Hash(blake3, <<"ipns", fqdn, << >>>>)>>, << >>),
    Ignored, Blank }

MCQueries == FewQueries \cup
  { Query("ipfs", c1, << >>), Query("ipfs", c2, <<x>>), Query("ipfs", c1, <<x, y>>),
    Query("ipfs", c1, <<x, Space, Slash, Star, y>>), Query("ipfs", c1, <<x, Star>>),
    Query("ipns", key, << >>), Query("ipns", key, <<x, y>>),
    Query("ipns", label, << >>), Query("ipns", fqdn, <<x>>),
    Query("cid", c2, << >>), Query("cid", empty, << >>) }

\* Two lines of any kind, and MaxLines of those about one CID and one path.
Bound ==
  \/ number <= 2
  \/ /\ \A e \in Known : e.rule \in FewRules
     /\ \A r \in Readers : asked[r] \in FewQueries

MCSpec == Init /\ [][Next /\ Bound']_vars
=============================================================================
