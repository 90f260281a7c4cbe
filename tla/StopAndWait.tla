----------------------------- MODULE StopAndWait -----------------------------
(***************************************************************************)
(* What FSCI transmission with acknowledgements promises to the callers of *)
(* WritePhysicalDevice: frames go out in the order they were put, one at a *)
(* time, and each is sent at least once and at most 1 + NumberOfRetries    *)
(* times before the next one is touched.                                   *)
(***************************************************************************)
EXTENDS Naturals, Sequences

CONSTANTS Frames, NoFrame, MaxSends

VARIABLES
  queue,    \* frames put and not yet taken
  current,  \* the frame in transmission, or NoFrame
  sends     \* how often current has been sent

vars == <<queue, current, sends>>

Init == queue = <<>> /\ current = NoFrame /\ sends = 0

Submit(f) ==
  /\ queue' = Append(queue, f)
  /\ UNCHANGED <<current, sends>>

Begin ==
  /\ current = NoFrame /\ queue # <<>>
  /\ current' = Head(queue) /\ queue' = Tail(queue)
  /\ sends' = 0

Send ==
  /\ current # NoFrame /\ sends < MaxSends
  /\ sends' = sends + 1
  /\ UNCHANGED <<queue, current>>

\* Acknowledged or given up.
Finish ==
  /\ current # NoFrame /\ sends > 0
  /\ current' = NoFrame /\ sends' = 0
  /\ UNCHANGED queue

Next == (\E f \in Frames : Submit(f)) \/ Begin \/ Send \/ Finish

Spec == Init /\ [][Next]_vars

=============================================================================
