--------------------------- MODULE MCLogPipeline ---------------------------
(* Constant values for model-checking LogPipeline. *)
EXTENDS LogPipeline, TLC

CONSTANTS s1, s2

StreamSymmetry == Permutations(Stream)
=============================================================================
