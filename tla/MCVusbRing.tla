----------------------------- MODULE MCVusbRing -----------------------------
EXTENDS VusbRing, TLC
\* Neither the shadows nor the pending_req structures are ordered.
RingSymmetry == Permutations(Shadows) \cup Permutations(Preqs)
=============================================================================
