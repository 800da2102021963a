---------------------------- MODULE HandshakeRun ----------------------------
(***************************************************************************)
(* run_handshake_on of tatami_ssh_tcp (io/handshake.rs): the blocking      *)
(* driver of the client handshake.  It calls step until there is nothing   *)
(* to do, writes what is queued, asks the policy, and reads only when step *)
(* says NeedMore; one deadline covers every read and write.                *)
(*                                                                         *)
(* A read delivers one unit of input (see Handshake).  An Interrupted read *)
(* or a partial write changes nothing and is a stuttering step.            *)
(***************************************************************************)
EXTENDS Handshake

VARIABLES
    end,      \* HandshakeEnd, "None" while the driver runs
    expired   \* the deadline has passed

runVars == <<vars, end, expired>>

End == {"None", "Finished", "TimedOut", "Io"}
Running == end = "None"
NeedMore ==
    /\ outcome = "None" /\ out = <<>> /\ pendingOutcome = "None"
    /\ phase # "TrustDecision"
    /\ inbox = <<>>

EndWith(e) == end' = e /\ UNCHANGED expired

\* An iteration of step's loop.
StepOn == Running /\ Step /\ UNCHANGED <<end, expired>>

Finished == Running /\ outcome # "None" /\ EndWith("Finished") /\ UNCHANGED vars

\* Step::Send: take_output, then write_all_by.
WriteAll ==
    /\ Running /\ outcome = "None"
    /\ TakeOutput
    /\ UNCHANGED <<end, expired>>
\* The kernel may time a connection out by itself, before the deadline.
WriteFails ==
    /\ Running /\ outcome = "None"
    /\ TakeOutput
    /\ EndWith("TimedOut") \/ EndWith("Io")

\* Step::TrustDecisionRequired
Decide ==
    /\ Running /\ out = <<>>
    /\ ProvideTrusted \/ ProvideUntrusted
    /\ UNCHANGED <<end, expired>>

Read ==
    /\ Running /\ NeedMore /\ ~expired
    /\ \E m \in Input : Feed(m)
    /\ UNCHANGED <<end, expired>>
ReadEof ==
    /\ Running /\ NeedMore /\ ~expired
    /\ InputEnded
    /\ EndWith("Finished")
ReadFails ==
    /\ Running /\ NeedMore
    /\ EndWith("TimedOut") \/ EndWith("Io")
    /\ UNCHANGED vars
\* Only a failing read ends the wait.
FaultyReadTimesOut == FALSE /\ UNCHANGED runVars
\* The deadline passed before the read or during it.
ReadTimesOut ==
    /\ Running /\ NeedMore /\ expired
    /\ EndWith("TimedOut")
    /\ UNCHANGED vars

Expire == ~expired /\ expired' = TRUE /\ UNCHANGED <<vars, end>>

RunInit == Init /\ end = "None" /\ expired = FALSE

\* What the driver does by itself; the rest is up to the server.
Drive == StepOn \/ Finished \/ WriteAll \/ Decide \/ ReadTimesOut
RunNext == Drive \/ WriteFails \/ Read \/ ReadEof \/ ReadFails \/ Expire

\* The driver is one thread, the clock runs, and the trust policy answers.
\* Nothing is asked of the server.
RunSpec == RunInit /\ [][RunNext]_runVars /\ WF_runVars(Drive) /\ WF_runVars(Expire)

\* The run ends, whatever the server sends or withholds: the budgets bound
\* what it can make the client consume and the deadline bounds its silence.
RunEnds == <>(end # "None")

----------------------------------------------------------------------------
(* The driven handshake implements the model it is fuzzed against.  The    *)
(* outcome is the model's when the last message that goes with it has been *)
(* queued.                                                                 *)

Reference == INSTANCE HandshakeModel WITH
    stage <- IF pendingOutcome = "None" THEN phase ELSE "Finished",
    outcome <- IF pendingOutcome = "None" THEN outcome ELSE pendingOutcome,
    unprotectedReceived <- preKexPackets,
    clientMessages <- Tail(sent \o out)

\* However the steps, the writes, the decision and the reads interleave, the
\* client sends the messages, counts the packets and reports the findings
\* and the outcome that the model derives from what the server sent.
FollowsModel == Reference!Spec
=============================================================================
