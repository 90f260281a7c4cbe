----------------------------- MODULE MCHandover -----------------------------
(* Two anchors for TLC. *)
EXTENDS Handover

CONSTANTS a1, a2
MCAnchors == {a1, a2}

=============================================================================
