----------------------------- MODULE MCRingBuffer -----------------------------
(* A buffer of three slots and nine pushes: every index wraps several times,   *)
(* with pops at any point.                                                    *)
EXTENDS RingBuffer
=============================================================================
