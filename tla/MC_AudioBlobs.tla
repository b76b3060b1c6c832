--------------------------- MODULE MC_AudioBlobs ---------------------------
(***************************************************************************)
(* Instances of AudioBlobs for TLC.                                        *)
(***************************************************************************)
EXTENDS AudioBlobs, TLC

CONSTANTS raw, mp3

\* Every source transcodes into one mp3; the raw file is another content.
RawOf == [t \in Imported |-> raw]
Mp3Of == [t \in Track |-> mp3]

Symmetry == Permutations(Session) \cup Permutations(Imported)
              \cup Permutations(Track \ Imported)
=============================================================================
