---------------------------- MODULE MCVusbFront ----------------------------
EXTENDS VusbFront, TLC
\* Nothing but the order of the first free list tells shadows apart, and what
\* is checked speaks of all of them alike: of states that differ only in which
\* shadow is which, one is enough.
ShadowSymmetry == Permutations(Shadows)
=============================================================================
