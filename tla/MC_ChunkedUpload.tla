------------------------- MODULE MC_ChunkedUpload -------------------------
(***************************************************************************)
(* Instances of ChunkedUpload for TLC.                                     *)
(***************************************************************************)
EXTENDS ChunkedUpload
=============================================================================
