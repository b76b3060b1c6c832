--------------------------- MODULE MC_BlobSweep ---------------------------
(***************************************************************************)
(* Instances of BlobSweep for TLC.                                         *)
(***************************************************************************)
EXTENDS BlobSweep, MC_AudioBlobs
=============================================================================
