------------------------------- MODULE MCE820 -------------------------------
(* The memory log for TLC, below the 1 MB mark.                            *)
EXTENDS E820

LogRegionsDef == {[base |-> 1, len |-> 1]}
=============================================================================
