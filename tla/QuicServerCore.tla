--------------------------- MODULE QuicServerCore ---------------------------
(***************************************************************************)
(* ServerCore of tatami_ssh_quic (diag/server.rs): one endpoint, many      *)
(* connections, no I/O.  A caller feeds it datagrams, fires its timers and *)
(* shuts it down; every handshake attempt must be decided exactly once,    *)
(* whichever of completion, loss, deadline and shutdown comes first, and   *)
(* the one slot through which the TLS resolver passes a ClientHello must   *)
(* never carry it to another connection.                                   *)
(*                                                                         *)
(* quinn-proto is external: a call into it yields any of the events        *)
(* QuinnEvents allows.  Datagrams are not modelled, nor are the counters   *)
(* of datagrams; the time is kept as whether an attempt's deadline passed. *)
(***************************************************************************)
EXTENDS Integers, FiniteSets, Sequences

CONSTANTS
    MaxConcurrent,      \* DiagServerConfig::max_concurrent
    RequireValidation,  \* DiagServerConfig::require_validation
    MaxIncoming         \* bound: Initials that produce an Incoming

\* DiagServerConfig::validate
ASSUME CoreConfig ==
    /\ MaxConcurrent \in Nat \ {0}
    /\ RequireValidation \in BOOLEAN
    /\ MaxIncoming \in Nat

VARIABLES
    attempts,   \* the map from a connection handle to its attempt
    stats,      \* CoreStats, without the counters of datagrams
    pending,    \* observations decided and not yet drained
    accepting,
    slot,       \* whose ClientHello the resolver recorded, or NoHello
    abandoned,  \* handshakes cut short by shutdown, which returns their number
    recorded    \* history: how many observations were made of an attempt

coreVars == <<attempts, stats, pending, accepting, slot, abandoned, recorded>>

Keys == 1..MaxIncoming
Ids == 1..MaxIncoming
NoHello == 0

Outcome == {"Completed", "Failed", "TimedOut", "Shutdown", "AcceptFailed"}
CloseReason == {"LocalAfterHandshake", "LocalDeadline", "LocalShutdown",
                "ConnectionLost", "NotEstablished"}

Attempt == [id : Ids, conn : {"open", "closed"}, due : BOOLEAN, decided : BOOLEAN,
            outcome : Outcome, close : CloseReason, offered : Ids \cup {NoHello}]

Undecided == {k \in DOMAIN attempts : ~attempts[k].decided}
handshaking == Cardinality(Undecided)

----------------------------------------------------------------------------
(* quinn-proto and rustls, as the core uses them.                          *)

\* What a datagram may make of a connection.  The resolver sees a
\* ClientHello, once more after a HelloRetryRequest; nothing completes
\* before it did; a closed connection can still be lost (a stateless reset).
QuinnEvents(a) ==
    {ev \in [hello : BOOLEAN, connected : BOOLEAN, lost : BOOLEAN, drained : {FALSE}] :
        /\ ev.hello => a.conn = "open"
        /\ ev.connected => a.conn = "open" /\ (ev.hello \/ a.offered # NoHello)}

\* What its timers may: the idle timer loses it, which also drains it, and
\* the close timer drains a closed one.
TimerEvents(a) ==
    {ev \in [hello : {FALSE}, connected : {FALSE}, lost : BOOLEAN, drained : BOOLEAN] :
        IF a.conn = "open" THEN ev.drained = ev.lost ELSE ~ev.lost}

NoEvents == [hello |-> FALSE, connected |-> FALSE, lost |-> FALSE, drained |-> FALSE]

\* RecordingResolver::resolve writes the slot during the call.
Resolved(id, hello) == IF hello THEN id ELSE slot

----------------------------------------------------------------------------
(* What a handler does to one attempt, with the stats, the pending         *)
(* observations and the history: s threads the four.                       *)

Handling(a) == [att |-> a, stats |-> stats, pending |-> pending, recorded |-> recorded]

Observation(a) == [id |-> a.id, outcome |-> a.outcome, close |-> a.close,
                   offered |-> a.offered]

Counted(s, which) == [s EXCEPT !.stats[which] = @ + 1]
Closed(s) == [s EXCEPT !.att.conn = "closed"]

\* The deadline of a decided attempt is not looked at again.
Decide(s, outcome, close) ==
    LET a == [s.att EXCEPT !.decided = TRUE, !.due = FALSE,
                           !.outcome = outcome, !.close = close]
    IN [s EXCEPT !.att = a,
                 !.pending = Append(@, Observation(a)),
                 !.recorded[a.id] = @ + 1]

\* A record left in the slot is attached whoever wrote it, and the slot is
\* empty afterwards.
AttachHello(a, rec) ==
    IF rec = NoHello THEN a ELSE [a EXCEPT !.offered = rec]

OnConnected(s) ==
    Closed(IF s.att.decided THEN s
           ELSE Decide(Counted(s, "completed"), "Completed", "LocalAfterHandshake"))

\* The loss of a decided attempt is decided again.
FaultyOnLost(s) == Closed(Decide(Counted(s, "failed"), "Failed", "ConnectionLost"))

OnLost(s) ==
    Closed(IF s.att.decided THEN s
           ELSE Decide(Counted(s, "failed"), "Failed", "ConnectionLost"))

\* The events are polled in the order quinn queues them: a loss is last.
Drive(s, ev) ==
    LET c == IF ev.connected THEN OnConnected(s) ELSE s
    IN IF ev.lost THEN OnLost(c) ELSE c

\* A drained connection leaves the map at the end of drive.
Commit(k, s, ev) ==
    /\ attempts' = IF ev.drained
                   THEN [j \in DOMAIN attempts \ {k} |-> attempts[j]]
                   ELSE [j \in DOMAIN attempts \cup {k} |->
                            IF j = k THEN s.att ELSE attempts[j]]
    /\ stats' = s.stats
    /\ pending' = s.pending
    /\ recorded' = s.recorded

----------------------------------------------------------------------------
(* handle_datagram.                                                        *)

ConnectionEvent(k) ==
    /\ k \in DOMAIN attempts
    /\ \E ev \in QuinnEvents(attempts[k]) :
          LET a == attempts[k]
              hello == Resolved(a.id, ev.hello)
          IN Commit(k, Drive(Handling(AttachHello(a, hello)), ev), ev)
    /\ slot' = NoHello
    /\ UNCHANGED <<accepting, abandoned>>

\* handle_incoming.  A Retry is not counted as accepted or refused; it never
\* fails, since an address that is not validated may be retried.
Incoming(which) == /\ stats.incoming < MaxIncoming
                   /\ stats' = [stats EXCEPT !.incoming = @ + 1, ![which] = @ + 1]

Retry ==
    /\ RequireValidation
    /\ Incoming("retries")
    /\ UNCHANGED <<attempts, pending, accepting, slot, abandoned, recorded>>

AtCapacity == ~accepting \/ handshaking >= MaxConcurrent

Refuse ==
    /\ AtCapacity
    /\ Incoming("dropped")
    /\ UNCHANGED <<attempts, pending, accepting, slot, abandoned, recorded>>

NewAttempt(id) ==
    [id |-> id, conn |-> "open", due |-> FALSE, decided |-> FALSE,
     outcome |-> "TimedOut", close |-> "NotEstablished", offered |-> NoHello]

\* The endpoint gives it a vacant handle of its slab.
VacantKey == CHOOSE k \in Keys : k \notin DOMAIN attempts

Accepted == [stats EXCEPT !.incoming = @ + 1, !.accepted = @ + 1]
NextId == stats.accepted + 1

\* Endpoint::accept succeeds; the first Initial may hold the ClientHello, and
\* what came with it may lose the connection before it is first driven.  It
\* cannot be complete: the server has not answered yet.
AcceptOk ==
    /\ ~AtCapacity
    /\ stats.incoming < MaxIncoming
    /\ \E ev \in QuinnEvents(NewAttempt(NextId)) :
          LET a == AttachHello(NewAttempt(NextId), Resolved(NextId, ev.hello))
              s == [Handling(a) EXCEPT !.stats = [Accepted EXCEPT !.observed = @ + 1]]
          IN ~ev.connected /\ Commit(VacantKey, Drive(s, ev), ev)
    /\ slot' = NoHello
    /\ UNCHANGED <<accepting, abandoned>>

\* The ClientHello of a failed attempt stays in the slot.
FaultyAcceptErr ==
    /\ ~AtCapacity
    /\ stats.incoming < MaxIncoming
    /\ LET a == [NewAttempt(NextId) EXCEPT !.outcome = "AcceptFailed"]
       IN /\ pending' = Append(pending, Observation(a))
          /\ recorded' = [recorded EXCEPT ![a.id] = @ + 1]
    /\ stats' = [Accepted EXCEPT !.failed = @ + 1]
    /\ \E hello \in BOOLEAN : slot' = Resolved(NextId, hello)
    /\ UNCHANGED <<attempts, accepting, abandoned>>

\* Endpoint::accept fails: the attempt is recorded at once, with the
\* ClientHello if one was seen.
AcceptErr ==
    /\ ~AtCapacity
    /\ stats.incoming < MaxIncoming
    /\ \E hello \in BOOLEAN :
          LET a == AttachHello([NewAttempt(NextId) EXCEPT !.outcome = "AcceptFailed"],
                               Resolved(NextId, hello))
          IN /\ pending' = Append(pending, Observation(a))
             /\ recorded' = [recorded EXCEPT ![a.id] = @ + 1]
    /\ stats' = [Accepted EXCEPT !.failed = @ + 1]
    /\ slot' = NoHello
    /\ UNCHANGED <<attempts, accepting, abandoned>>

HandleIncoming == Retry \/ Refuse \/ AcceptOk \/ AcceptErr

----------------------------------------------------------------------------
(* handle_timeouts and shutdown: the body of their loops.                  *)

\* The clock reaches the attempt's deadline.
DeadlinePasses(k) ==
    /\ k \in Undecided
    /\ ~attempts[k].due
    /\ attempts' = [attempts EXCEPT ![k].due = TRUE]
    /\ UNCHANGED <<stats, pending, accepting, slot, abandoned, recorded>>

\* The deadline is left to quinn's idle timer.
FaultyTimeout(k) ==
    /\ k \in DOMAIN attempts
    /\ \E ev \in TimerEvents(attempts[k]) :
          Commit(k, Drive(Handling(attempts[k]), ev), ev)
    /\ UNCHANGED <<accepting, slot, abandoned>>

\* A connection its timer just lost is not closed for its deadline: the
\* loss is the outcome.
Timeout(k) ==
    /\ k \in DOMAIN attempts
    /\ \E ev \in TimerEvents(attempts[k]) :
          LET a == attempts[k]
              s == Handling(a)
              deadline == ~a.decided /\ a.due /\ a.conn = "open" /\ ~ev.lost
              d == IF deadline
                   THEN Closed(Decide(Counted(s, "timedOut"), "TimedOut", "LocalDeadline"))
                   ELSE s
          IN Commit(k, Drive(d, ev), ev)
    /\ UNCHANGED <<accepting, slot, abandoned>>

ShutdownOne(k) ==
    /\ k \in DOMAIN attempts
    /\ LET s == Handling(attempts[k])
           d == IF attempts[k].decided THEN s
                ELSE Closed(Decide(s, "Shutdown", "LocalShutdown"))
       IN Commit(k, Drive(d, NoEvents), NoEvents)
    /\ abandoned' = IF attempts[k].decided THEN abandoned ELSE abandoned + 1
    /\ accepting' = FALSE
    /\ UNCHANGED slot

StopAccepting ==
    /\ accepting' = FALSE
    /\ UNCHANGED <<attempts, stats, pending, slot, abandoned, recorded>>

\* drain_observations
DrainOne ==
    /\ pending # <<>>
    /\ pending' = Tail(pending)
    /\ UNCHANGED <<attempts, stats, accepting, slot, abandoned, recorded>>

CoreInit ==
    /\ attempts = <<>>
    /\ stats = [incoming |-> 0, accepted |-> 0, observed |-> 0, completed |-> 0,
                failed |-> 0, timedOut |-> 0, dropped |-> 0, retries |-> 0]
    /\ pending = <<>>
    /\ accepting = TRUE
    /\ slot = NoHello
    /\ abandoned = 0
    /\ recorded = [id \in Ids |-> 0]

\* The core under any caller.
CoreNext ==
    \/ HandleIncoming
    \/ \E k \in Keys : \/ ConnectionEvent(k) \/ DeadlinePasses(k)
                       \/ Timeout(k) \/ ShutdownOne(k)
    \/ StopAccepting
    \/ DrainOne

CoreSpec == CoreInit /\ [][CoreNext]_coreVars

----------------------------------------------------------------------------
(* Properties.                                                             *)

Stats == [incoming : Nat, accepted : Nat, observed : Nat, completed : Nat,
          failed : Nat, timedOut : Nat, dropped : Nat, retries : Nat]
Observations == [id : Ids, outcome : Outcome, close : CloseReason,
                 offered : Ids \cup {NoHello}]

CoreTypeOK ==
    /\ DOMAIN attempts \subseteq Keys
    /\ \A k \in DOMAIN attempts : attempts[k] \in Attempt
    /\ stats \in Stats
    /\ pending \in Seq(Observations)
    /\ accepting \in BOOLEAN
    /\ slot \in Ids \cup {NoHello}
    /\ abandoned \in Nat
    /\ recorded \in [Ids -> Nat]

InProgress(id) == \E k \in Undecided : attempts[k].id = id

\* Every accepted attempt is recorded exactly once and counted under exactly
\* one outcome, as soon as it is no longer in progress, whichever of
\* completion, loss, deadline, shutdown and a failed accept came first and
\* however they coincide (drive, handle_timeouts, shutdown).  An attempt in
\* progress has a connection that is still open: only such a one can run
\* into its deadline.  No more than max_concurrent are ever in progress.
DecidedOnce ==
    /\ \A id \in Ids :
          recorded[id] = IF id <= stats.accepted /\ ~InProgress(id) THEN 1 ELSE 0
    /\ \A k \in DOMAIN attempts : attempts[k].decided = (attempts[k].conn = "closed")
    /\ stats.accepted = stats.completed + stats.failed + stats.timedOut
                        + abandoned + handshaking
    /\ stats.incoming = stats.retries + stats.dropped + stats.accepted
    /\ handshaking <= MaxConcurrent

\* "Exact: the core is single-threaded and the slot is emptied after every
\* such call" (attach_hello): a record never holds the ClientHello of
\* another attempt, and that of a completed handshake holds its own.
HelloBelongs ==
    /\ \A k \in DOMAIN attempts : attempts[k].offered \in {NoHello, attempts[k].id}
    /\ \A i \in DOMAIN pending :
          /\ pending[i].offered \in {NoHello, pending[i].id}
          /\ pending[i].outcome = "Completed" => pending[i].offered # NoHello

=============================================================================
