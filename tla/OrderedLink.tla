---------------------------- MODULE OrderedLink ----------------------------
(***************************************************************************)
(* What a caller of Send may rely on, whatever the network and the         *)
(* scheduler do: messages leave in the order of the Send calls.  A message *)
(* may be lost, and over TCP the last one may come again (the client       *)
(* retransmits after a broken pipe), but none comes before it was sent and *)
(* no older message ever follows a newer one.                              *)
(***************************************************************************)
EXTENDS Naturals, Sequences

CONSTANT MayRepeat   \* may the latest message be received again?

VARIABLES
    sent,      \* number of Send calls so far: message k is the k-th call
    received   \* the messages received, oldest first

vars == <<sent, received>>

\* The oldest message that may still be received.
Floor ==
    IF received = <<>> THEN 1
    ELSE received[Len(received)] + (IF MayRepeat THEN 0 ELSE 1)

Init == sent = 0 /\ received = <<>>

Submit == sent' = sent + 1 /\ UNCHANGED received

Receive == \E m \in Floor..sent : received' = Append(received, m) /\ UNCHANGED sent

Next == Submit \/ Receive

Spec == Init /\ [][Next]_vars
=============================================================================
