---------------------------- MODULE MCExecTimer ----------------------------
(* A timer whose callback may ask for two intervals, keep the current one *)
(* or, as AuthCallback does for an expired key, return a negative one.    *)
EXTENDS ExecTimer

CONSTANTS L1, L2, L3

MCLoops == {L1, L2, L3}
MCIntervals == {0, 1, 2}
MCSignedIntervals == {-1, 0, 1, 2}
=============================================================================
