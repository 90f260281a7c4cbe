-------------------------- MODULE MCRepeatedAttempts --------------------------
(* Three peers compete for two entries; times double, up to 3 s: 1, 2, 3. *)
EXTENDS RepeatedAttempts

CONSTANTS p1, p2, p3
MCPeer == {p1, p2, p3}

\* A second, and a little less: one and full seconds stop short of the timer's end.
MCSteps == {997, 1000}
=============================================================================
