--------------------------- MODULE MCStateDocument ---------------------------
(* Small instances of StateDocument for TLC.                               *)
EXTENDS StateDocument

CONSTANTS b1, b2
=============================================================================
