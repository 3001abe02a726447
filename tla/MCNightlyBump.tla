--------------------------- MODULE MCNightlyBump ----------------------------
(* Small instances of NightlyBump for TLC: one file that names the pin, one  *)
(* that names none or is missing, in either order.                           *)
EXTENDS NightlyBump, TLC

CONSTANTS f1, f2

MCNightlyFiles == <<f1, f2>>
=============================================================================
