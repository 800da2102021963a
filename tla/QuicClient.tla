----------------------------- MODULE QuicClient -----------------------------
(***************************************************************************)
(* The QUIC handshake client of tatami_ssh_quic: ClientCore and run        *)
(* (diag/client.rs) with the verifiers rustls calls (diag/tls.rs).  One    *)
(* connection is brought to an outcome by completion, loss or the          *)
(* deadline, whichever comes first, and then closed by the peer or, after  *)
(* a linger period, locally.                                               *)
(*                                                                         *)
(* quinn-proto and rustls are external: a datagram may carry the TLS       *)
(* handshake any distance forward and may end the connection.  What the    *)
(* server presents is arbitrary.                                           *)
(***************************************************************************)
EXTENDS KnownHosts

VARIABLES
    trust,      \* how the server's identity is judged (ClientTrust)
    presented,  \* what the server presents, or Nothing before it does
    tls,        \* how far the TLS handshake is
    conn,       \* the connection of quinn-proto: "open" or "closed"
    due,        \* whether the handshake deadline has passed
    linger,     \* linger_until: "None", "Running" or "Due"
    slot,       \* the verifier's record for the report
    decided,
    outcome,    \* ClientOutcome
    result,     \* what run returned: "None", "Io" or "Ok"
    loop        \* where run is

clientVars == <<trust, presented, tls, conn, due, linger, slot, decided, outcome,
                result, loop>>

Nothing == [check |-> "none"]

\* A raw public key or a certificate, the scheme of the TLS signature, and
\* whether the signature verifies.
Presentable == [form : {"raw", "certificate"}, key : Keys,
                scheme : {"ed25519", "rsa_pss", "rsa_pkcs1"}, valid : BOOLEAN]

----------------------------------------------------------------------------
(* Verification: ServerCertVerifier for each ClientTrust that the command  *)
(* line can configure.  A pinned certificate and a chain to a pinned root  *)
(* are one case: the key of a certificate stands for what the pin accepts. *)

\* The policy of an SSH trust configuration.
PolicyDecides(t, key) ==
    IF t.mode = "pin" THEN DecidePin(t.pin, key) ELSE Decide(t.applicable, key)

\* SshHostKeyVerifier::verify_server_cert: its record and its verdict.
Judged(p) == [check |-> "judged", key |-> p.key, decision |-> PolicyDecides(trust, p.key)]
NotConvertible == [check |-> "not_convertible"]

VerifyServerCert(p) ==
    IF trust.mode = "certificate"
    THEN [record |-> Nothing, ok |-> p.form = "certificate" /\ p.key = trust.pin]
    ELSE IF p.form # "raw" THEN [record |-> NotConvertible, ok |-> FALSE]
    ELSE [record |-> Judged(p), ok |-> Judged(p).decision.trusted]

SchemeMatchesKey(scheme, type) ==
    <<type, scheme>> \in {<<"ed25519", "ed25519">>, <<"rsa", "rsa_pss">>,
                          <<"ecdsa_p256", "ecdsa_nistp256">>}

\* verify_tls13_signature.  For a certificate it is webpki's.
VerifySignature(p) ==
    /\ trust.mode # "certificate" => SchemeMatchesKey(p.scheme, KeyType[p.key])
    /\ p.valid

----------------------------------------------------------------------------
(* ClientCore.  s threads what one call into the core changes.             *)

State == [tls |-> tls, conn |-> conn, linger |-> linger, slot |-> slot,
          decided |-> decided, outcome |-> outcome]

NewOutcome == [handshake |-> "TimedOut", alpn |-> FALSE, exporter |-> FALSE,
               close |-> "pending", identity |-> Nothing]

\* decide takes the verifier's record.
Decided(s, handshake) ==
    [s EXCEPT !.decided = TRUE,
              !.outcome.handshake = handshake,
              !.outcome.identity = s.slot,
              !.slot = Nothing]

\* The events drive polls, each with what it does.  HandshakeDataReady is
\* ignored: the ALPN is reported only once the handshake completed.
FaultyOnDataReady(s) == [s EXCEPT !.outcome.alpn = TRUE]

OnDataReady(s) == s

OnConnected(s) ==
    LET r == [s EXCEPT !.outcome.alpn = TRUE, !.outcome.exporter = TRUE]
    IN IF s.decided THEN r ELSE [Decided(r, "Completed") EXCEPT !.linger = "Running"]

\* The loss after the deadline's own close replaces the outcome.
FaultyOnLost(s, reason) ==
    [Decided(s, IF reason = "TimedOut" THEN "TimedOut" ELSE "Failed")
        EXCEPT !.outcome.close = reason, !.linger = "None", !.conn = "closed"]

\* An idle timeout is a timeout, not a failure of the peer.
OnLost(s, reason) ==
    LET d == IF s.decided THEN s
             ELSE Decided(s, IF reason = "TimedOut" THEN "TimedOut" ELSE "Failed")
    IN [d EXCEPT !.outcome.close = reason, !.linger = "None", !.conn = "closed"]

\* handle_datagram.  The handshake of an open connection goes from "start"
\* over "data" (EncryptedExtensions) to "done"; on the way from "data" the
\* verifier is called.  A refusal by it, or by the signature check, loses
\* the connection; the peer may end an open or a closing one at any time.
ReachData(s) == OnDataReady([s EXCEPT !.tls = "data"])

Verify(s, p) ==
    LET v == VerifyServerCert(p)
        r == [s EXCEPT !.tls = "done",
                       !.slot = IF v.record = Nothing THEN s.slot ELSE v.record]
    IN IF v.ok /\ VerifySignature(p) THEN OnConnected(r) ELSE OnLost(r, "TlsError")

\* What one datagram may make of s, by how far it carries the handshake.
Datagram(s, p) ==
    LET reached == (IF s.conn = "open" /\ s.tls = "start" THEN {ReachData(s)} ELSE {})
        data == reached \cup (IF s.conn = "open" /\ s.tls = "data" THEN {s} ELSE {})
        verified == {Verify(d, p) : d \in data}
        progress == {s} \cup reached \cup verified
    IN progress \cup {OnLost(r, "Peer") : r \in {q \in progress : q.outcome.close # "TlsError"}}

\* The deadline is only checked against an idle connection.
FaultyOnDeadline(s) == s

\* handle_timeouts: the deadline of an undecided handshake, unless the
\* connection was just lost, in which case the loss decides it.
OnDeadline(s) ==
    IF ~s.decided /\ due /\ s.conn = "open"
    THEN [Decided(s, "TimedOut") EXCEPT !.outcome.close = "Deadline", !.conn = "closed"]
    ELSE s

OnLinger(s) ==
    IF s.linger = "Due" /\ s.conn = "open"
    THEN [s EXCEPT !.outcome.close = "AfterHandshake", !.conn = "closed", !.linger = "None"]
    ELSE s

\* The idle timer of quinn-proto may fire first: its event is polled by
\* drive, after the checks, which see the closed connection.
Timers(s) ==
    LET idle == [s EXCEPT !.conn = "closed"]
    IN {OnLinger(OnDeadline(s))}
       \cup (IF s.conn = "open" THEN {OnLost(OnLinger(OnDeadline(idle)), "TimedOut")} ELSE {})

IsFinished == decided /\ conn = "closed"

Become(s) ==
    /\ tls' = s.tls /\ conn' = s.conn /\ linger' = s.linger
    /\ slot' = s.slot /\ decided' = s.decided /\ outcome' = s.outcome

coreState == <<tls, conn, linger, slot, decided, outcome>>

----------------------------------------------------------------------------
(* run: send, stop when finished, receive or time out, fire the timers.    *)

SendAll ==
    /\ loop = "Send"
    /\ \/ loop' = "Returned" /\ result' = "Io"
       \/ IF IsFinished THEN loop' = "Returned" /\ result' = "Ok"
                        ELSE loop' = "Receive" /\ UNCHANGED result
    /\ UNCHANGED <<trust, presented, due, coreState>>

\* A datagram, none, or a socket error.  The server fixes what it presents
\* with its first flight.
Receive ==
    /\ loop = "Receive"
    /\ \/ /\ loop' = "Timeouts"
          /\ presented' \in IF presented = Nothing THEN Presentable ELSE {presented}
          /\ \E s \in Datagram(State, presented') : Become(s)
          /\ UNCHANGED result
       \/ loop' = "Timeouts" /\ UNCHANGED <<presented, result, coreState>>
       \/ loop' = "Returned" /\ result' = "Io" /\ UNCHANGED <<presented, coreState>>
    /\ UNCHANGED <<trust, due>>

HandleTimeouts ==
    /\ loop = "Timeouts"
    /\ loop' = "Send"
    /\ \E s \in Timers(State) : Become(s)
    /\ UNCHANGED <<trust, presented, due, result>>

RunStep == SendAll \/ Receive \/ HandleTimeouts

\* The clock reaches the deadline or the end of the linger period.
DeadlinePasses ==
    /\ loop \notin {"NotStarted", "Returned"}
    /\ ~due
    /\ due' = TRUE
    /\ UNCHANGED <<trust, presented, coreState, result, loop>>

LingerPasses ==
    /\ loop # "Returned"
    /\ linger = "Running"
    /\ linger' = "Due"
    /\ UNCHANGED <<trust, presented, tls, conn, due, slot, decided, outcome, result, loop>>

ClientInit ==
    /\ trust = [mode |-> "none"]
    /\ presented = Nothing
    /\ tls = "start" /\ conn = "open" /\ due = FALSE /\ linger = "None"
    /\ slot = Nothing /\ decided = FALSE /\ outcome = NewOutcome
    /\ result = "None" /\ loop = "NotStarted"

----------------------------------------------------------------------------
(* Properties.                                                             *)

\* The result and the identity of a decided handshake never change: a
\* completion, a loss, an idle timeout and the deadline may all come in one
\* call, and the loss of a decided connection only says how it was closed.
OutcomeFinal ==
    [][decided => /\ decided'
                  /\ outcome'.handshake = outcome.handshake
                  /\ outcome'.identity = outcome.identity]_clientVars

\* "ALPN arrives in EncryptedExtensions before the server is authenticated;
\* report it only once the handshake completed" (drive): what the connection
\* negotiated is reported for no other outcome, and then the connection had
\* a verified signature.
ReportsAuthenticated ==
    outcome.alpn \/ outcome.exporter =>
        /\ decided /\ outcome.handshake = "Completed"
        /\ presented.valid
        /\ trust.mode # "certificate" =>
              outcome.identity.check = "judged" /\ outcome.identity.decision.trusted
=============================================================================
