----------------------------- MODULE MCRepository -----------------------------
(***************************************************************************)
(* The repository of configurations, on a small instance: two              *)
(* configurations, a copy that was given any name, and one named after the *)
(* first configuration, with a suffix.                                     *)
(***************************************************************************)
EXTENDS ConfigRepository

CONSTANTS c1, c2, backup, c1_bak

TwoConfigs == {c1, c2}
TwoNames == {backup, c1_bak}
BeforeTheDot == [n \in TwoConfigs \cup TwoNames |-> IF n = c1_bak THEN c1 ELSE n]
=============================================================================
