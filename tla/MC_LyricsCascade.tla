-------------------------- MODULE MC_LyricsCascade --------------------------
(***************************************************************************)
(* Instances of LyricsCascade for TLC.                                     *)
(***************************************************************************)
EXTENDS LyricsCascade

DefaultPlan == <<"catalog", "remote", "speechkit">>
=============================================================================
