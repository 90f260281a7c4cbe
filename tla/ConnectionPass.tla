--------------------------- MODULE ConnectionPass ---------------------------
(***************************************************************************)
(* What handing a connection over promises to the peer device that is       *)
(* connected: one anchor at a time transmits to it, the one that owns the   *)
(* connection, and the connection changes its owner only while nobody does. *)
(***************************************************************************)
CONSTANTS Anchors
VARIABLES owner, sending

Init    == owner \in Anchors /\ sending = TRUE
Suspend == sending /\ sending' = FALSE /\ UNCHANGED owner
Resume  == ~sending /\ sending' = TRUE /\ UNCHANGED owner
Pass    == ~sending /\ sending' = TRUE /\ owner' \in Anchors \ {owner}

Next == Suspend \/ Resume \/ Pass
Spec == Init /\ [][Next]_<<owner, sending>>

=============================================================================
