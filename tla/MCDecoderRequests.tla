------------------------- MODULE MCDecoderRequests -------------------------
EXTENDS DecoderRequests, TLC

\* The decoders are interchangeable.
Symmetry == Permutations(Decoders)
=============================================================================
