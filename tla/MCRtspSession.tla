--------------------------- MODULE MCRtspSession ---------------------------
(* RtspSession for TLC: the API threads are interchangeable.               *)
EXTENDS RtspSession, TLC

CallerSymmetry == Permutations(Callers)
=============================================================================
