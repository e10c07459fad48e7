--------------------------- MODULE MCDistribution ---------------------------
(* Distribution for TLC: a header of a line, and two lines of rules.       *)
EXTENDS Distribution

CONSTANT a

MCText == <<NL, a, NL, a, NL>>
=============================================================================
