----------------------------- MODULE MCVusbBack -----------------------------
EXTENDS VusbBackChannel, TLC
CONSTANTS d1, d2, out, iso, int, cancel
\* A long OUT transfer, which is indirect, and an IN transfer to the first
\* device; an IN transfer and a cancel to the second.  The IN transfers have
\* no timeout and are as many as the pending_reqs.
MCDevOf == out :> d1 @@ iso :> d1 @@ int :> d2 @@ cancel :> d2
=============================================================================
