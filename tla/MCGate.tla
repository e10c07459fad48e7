------------------------------- MODULE MCGate --------------------------------
(* Gate with four arrangements of denylist files and the rules that two    *)
(* denylists disagree in.                                                  *)
EXTENDS Gate

CONSTANTS f, g, k1, k2, p1, bad

Dir(n) == [path |-> "/", kind |-> "dir", below |-> n]
Other(p) == [path |-> p, kind |-> "other", below |-> 0]
Deny(p) == [path |-> p, kind |-> "deny", below |-> 0]

\* A file in a subdirectory and one behind it; two files with an empty
\* subdirectory between; one in each directory; and the same directory twice.
MCTrees ==
  { << <<Dir(3), Dir(1), Deny(f), Deny(g)>>, <<Dir(0)>> >>,
    << <<Dir(3), Deny(f), Dir(0), Deny(g)>>, <<Dir(0)>> >>,
    << <<Dir(2), Other("x"), Deny(f)>>, <<Dir(1), Deny(g)>> >>,
    << <<Dir(1), Deny(f)>>, <<Dir(1), Deny(f)>> >> }

Rule(covers, allow) == [covers |-> covers, allow |-> allow]

\* A CID and a path to it, and a path that does not parse.
Block == Rule({k1, p1, bad}, FALSE)
Allow == Rule({k1, p1}, TRUE)
Later == Rule({k2}, FALSE)

Content(atF, atG) == (f :> atF) @@ (g :> atG)

MCContents ==
  { Content(<<Block, Later>>, << >>), Content(<<Block>>, <<Allow>>),
    Content(<<Later>>, <<Block, Allow>>) }
=============================================================================
