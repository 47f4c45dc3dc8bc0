----------------------------- MODULE MCListener -----------------------------
(* Small instances of Listener for TLC.                                    *)
EXTENDS Listener

CONSTANTS r1, r2, r3
=============================================================================
