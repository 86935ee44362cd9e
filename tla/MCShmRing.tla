----------------------------- MODULE MCShmRing -----------------------------
(* Instances of the shared-memory ring for TLC.                              *)
EXTENDS ShmProps

CONSTANTS r1, r2

MCLen == {1, 2}
MCModes == BOOLEAN
MCBlocking == {TRUE}
=============================================================================
