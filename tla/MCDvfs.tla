------------------------------- MODULE MCDvfs -------------------------------
(* Three frequencies, with a narrow and a wide gap, for TLC. *)
EXTENDS Dvfs

MCfreqTable == [level \in 0..2 |-> CASE level = 0 -> 2 [] level = 1 -> 3 [] level = 2 -> 6]
MCLeast     == -1
=============================================================================
