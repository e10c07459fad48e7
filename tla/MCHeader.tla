------------------------------ MODULE MCHeader -------------------------------
(* Header with a separator of two bytes.                                   *)
EXTENDS Header

CONSTANTS dash, a

MCBytes == {dash, a, NL}
MCSeparator == <<dash, NL>>
=============================================================================
