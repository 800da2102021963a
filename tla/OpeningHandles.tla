--------------------------- MODULE OpeningHandles ---------------------------
(***************************************************************************)
(* The opening engine and the handles it gives to the application, shown   *)
(* to implement the reference model it is fuzzed against (OpeningModel).   *)
(* The engine is Opening's; the variable added here is history only.       *)
(***************************************************************************)
EXTENDS Opening

CONSTANTS MaxInserts,  \* bound on the handles ever issued
          MaxQueued    \* bound on undrained outgoing messages

\* A slot's generation comes round again after GenerationMod channels.
ASSUME HandlesBound == MaxInserts \in Nat /\ MaxInserts < GenerationMod

VARIABLE issued  \* every handle returned by open or an IncomingOpen event

HInit == Init /\ issued = {}

\* A slot that turned live got a new channel and its handle was given out.
Created == {i \in DOMAIN slots' : slots'[i].state.phase # "None"
                                  /\ i \notin LiveSlots}

Record ==
    issued' = issued \cup
        {[index |-> i, generation |-> slots'[i].generation] : i \in Created}

HNext ==
    /\ Next /\ Record
    /\ Cardinality(issued') <= MaxInserts
    /\ Len(outgoing') <= MaxQueued

HSpec == HInit /\ [][HNext]_<<vars, issued>>

----------------------------------------------------------------------------
(* The engine implements the reference model it is fuzzed against.         *)

HandleOf(i) == [index |-> i, generation |-> slots[i].generation]
LiveChannels ==
    {[handle |-> HandleOf(i), phase |-> Phase(i), local |-> slots[i].state.local,
      peer |-> slots[i].state.peer] : i \in LiveSlots}

Reference == INSTANCE OpeningModel WITH
    nextLocal <- IF numbersExhausted THEN MaxNumber + 1 ELSE nextLocal,
    channels <- LiveChannels,
    handles <- issued,
    expectedOutgoing <- outgoing

\* Every step of the engine is a step of the reference model, which knows
\* neither slots nor counters: no handle is issued twice, so a stale one
\* "cannot alias a newer channel that reused the same slot"; numbers are
\* handed out in order and never again; a channel is established only from a
\* pending open of its own and ends only with the transport; a late reply
\* costs a tombstone and nothing else; and what is sent is what is due.
ImplementsModel == Reference!Spec

PeerMessages ==
    {OpenMsg(p) : p \in Number}
    \cup {ConfirmMsg(x[1], x[2]) : x \in Number \X Number}
    \cup {FailureMsg(n) : n \in Number}

\* The engine's answer to every call and every message is the one the model
\* predicts, although the engine decides by counters that it maintains and
\* by a scan of slots.  One answer is left out: once the last number has been
\* handed out, next_local cannot tell it from a number never allocated, and
\* a reply that names it is ReplyToIncoming where the model says
\* UnknownRecipient.
AnswersAgree ==
    /\ OpenError = Reference!OpenError
    /\ \A h \in Handle : \A ph \in {"PendingOutgoing", "PendingIncoming"} :
          HandleError(h, ph) = Reference!PhaseError(h, ph)
    /\ \A m \in PeerMessages :
          \/ Violation(m) = Reference!Violation(m)
          \/ numbersExhausted /\ m.recipient = MaxNumber
             /\ Violation(m) = "ReplyToIncoming"
============================================================================
