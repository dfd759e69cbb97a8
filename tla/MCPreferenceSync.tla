--------------------------- MODULE MCPreferenceSync ---------------------------
(* Instances of PreferenceSync for TLC. *)
EXTENDS PreferenceSync

CONSTANTS a, b, theme, width, t1, t2
=============================================================================
