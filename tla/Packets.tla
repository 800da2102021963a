------------------------------ MODULE Packets ------------------------------
(***************************************************************************)
(* What one connection does to reach and use protected packets: the two    *)
(* proposals are negotiated, and when the selection is usable the keys of  *)
(* one direction are installed and packets flow under AES-GCM.             *)
(***************************************************************************)
EXTENDS Gcm, Negotiation

vars == <<gcmVars, negotiationVars>>

Init == GcmInitAt(0) /\ NegotiationInit

Negotiates == NegotiateProposals /\ UNCHANGED gcmVars

\* New keys are taken into use; the counter starts where the derived IV says.
InstallKeys(counter) ==
    /\ ProposalsDone
    /\ start' = counter
    /\ sender' = Direction(counter) /\ receiver' = Direction(counter)
    /\ UNCHANGED <<sealed, wire, arrived, delivered, failed, faults>>

Protected == verdict = "protected" /\ GcmNext /\ UNCHANGED negotiationVars

Next ==
    \/ Negotiates
    \/ \E counter \in 0 .. CounterMax : InstallKeys(counter)
    \/ Protected

\* The receiver is polled and reads as long as bytes are on their way.
Fairness ==
    /\ WF_vars(Arrive /\ verdict = "protected" /\ UNCHANGED negotiationVars)
    /\ WF_vars(Open /\ verdict = "protected" /\ UNCHANGED negotiationVars)

Spec == Init /\ [][Next]_vars /\ Fairness
=============================================================================
