---------------------------- MODULE MCEaseProbe ----------------------------
(***************************************************************************)
(* Two probers: p1 on both channels, p2 on the second only, so that the    *)
(* buffers hold one and two results.                                       *)
(***************************************************************************)
EXTENDS EaseProbe

CONSTANTS p1, p2, c1, c2

MCChannelsOf(p) == IF p = p1 THEN <<c1, c2>> ELSE <<c2>>
=============================================================================
