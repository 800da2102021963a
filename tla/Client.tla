------------------------------- MODULE Client -------------------------------
(***************************************************************************)
(* tatami-client: the command line (bin/tatami-client.rs), the trust       *)
(* configuration (trust.rs, host/files.rs) and the three commands          *)
(* (client.rs, quic_diag/client.rs), from the arguments to the exit        *)
(* status.  The QUIC handshake is that of QuicClient.  Of the TCP          *)
(* handshake and of the probe, which Handshake and Probe model, only the   *)
(* end is kept, as those modules show it can be.                           *)
(*                                                                         *)
(* An option and its value are one argument; options that only tune the    *)
(* run are left out, and "unknown" stands for every option a command does  *)
(* not take and for every invalid value.                                   *)
(***************************************************************************)
EXTENDS QuicClient, SequencesExt

CONSTANTS
    CommandLines,  \* argument vectors
    Hosts,         \* hosts as typed
    Ports,         \* and ports
    Pins,          \* fingerprints given on the command line
    Files          \* what --known-hosts may name: sequences of lines

ASSUME ClientConfig ==
    /\ CommandLines \subseteq Seq(STRING)
    /\ Hosts \subseteq Seq(STRING)
    /\ Ports \subseteq STRING \ {"*"}
    /\ \A lines \in Files :
          /\ Len(lines) \in Nat /\ DOMAIN lines = 1..Len(lines)
          /\ \A i \in DOMAIN lines :
                /\ lines[i].key \in Keys
                /\ \A j \in DOMAIN lines[i].hosts.list :
                      /\ lines[i].hosts.list[j].negated \in BOOLEAN
                      /\ lines[i].hosts.list[j].text \in Seq(STRING)

VARIABLES
    pc,        \* where main is
    command,   \* the parsed command
    given,     \* history: the arguments
    vouched,   \* history: what the trust source says of each key
    unusable,  \* history: whether a line of the file read is in error
    report,    \* the report's completion
    status     \* the exit status, or -1

mainVars == <<pc, command, given, vouched, unusable, report, status>>
vars == <<clientVars, mainVars>>

----------------------------------------------------------------------------
(* The command line.                                                       *)

Transports == {"tcp", "quic"}
CertificateOptions == {"cert-sha256", "root-cert"}
TrustOptions == {"host-key-sha256", "known-hosts"} \cup CertificateOptions

\* select_transport, before the rest is parsed and whatever it holds: every
\* --transport must name one ("bogus" does not), and repeats must agree.
Selected(args) ==
    LET t == Range(args) \cap (Transports \cup {"bogus"})
    IN CASE t = {} -> "tcp"
         [] Cardinality(t) = 1 -> CHOOSE x \in t : TRUE
         [] OTHER -> "conflict"

Takes == [probe |-> {"host", "tcp"},
          tcp   |-> {"host", "tcp", "host-key-sha256", "known-hosts"},
          quic  |-> {"host", "quic", "alpn"} \cup TrustOptions]

\* set_once
SetOnce(o, arg) ==
    IF o.trust # "none" THEN [o EXCEPT !.stop = "error"] ELSE [o EXCEPT !.trust = arg]

\* One argument of parse_probe, parse_tcp_handshake or parse_quic_handshake.
ParseArg(mode, o, arg) ==
    IF o.stop # "no" THEN o
    ELSE IF arg = "help" THEN [o EXCEPT !.stop = "help"]
    ELSE IF arg \notin Takes[mode] \/ (arg = "host" /\ o.host) THEN [o EXCEPT !.stop = "error"]
    ELSE CASE arg = "host" -> [o EXCEPT !.host = TRUE]
           [] arg = "alpn" -> [o EXCEPT !.alpn = TRUE]
           [] arg \in TrustOptions -> SetOnce(o, arg)
           [] OTHER -> o

NoOptions == [stop |-> "no", host |-> FALSE, alpn |-> FALSE, trust |-> "none"]

ParseOptions(mode, args) ==
    LET parse[i \in 0..Len(args)] ==
          IF i = 0 THEN NoOptions ELSE ParseArg(mode, parse[i - 1], args[i])
    IN parse[Len(args)]

\* What is required once the options are read.
Complete(mode, o) ==
    /\ o.stop = "no"
    /\ o.host
    /\ mode = "quic" => o.alpn
    /\ mode # "probe" => o.trust # "none"

Parsed(mode, args) ==
    LET o == ParseOptions(mode, args)
    IN IF o.stop = "help" THEN [name |-> "help", trust |-> "none"]
       ELSE IF Complete(mode, o) THEN [name |-> mode, trust |-> o.trust]
       ELSE [name |-> "usage", trust |-> "none"]

\* parse_args
ParseArgs(args) ==
    IF args = <<>> THEN [name |-> "usage", trust |-> "none"]
    ELSE CASE Head(args) \in {"help", "version"} -> [name |-> "help", trust |-> "none"]
           [] Head(args) = "probe" -> Parsed("probe", Tail(args))
           [] Head(args) = "handshake" /\ Selected(Tail(args)) \in Transports ->
                 Parsed(Selected(Tail(args)), Tail(args))
           [] OTHER -> [name |-> "usage", trust |-> "none"]

----------------------------------------------------------------------------
(* main.                                                                   *)

\* history: where an argument stands.
Places(args, a) == {i \in DOMAIN args : args[i] = a}

Exit(code) == pc' = "Exit" /\ status' = code

\* Help and version are printed at once, a usage error is status 2.
Main ==
    /\ pc = "Start"
    /\ \E args \in CommandLines :
          /\ command' = ParseArgs(args)
          /\ given' = [trusts |-> [a \in TrustOptions |-> Cardinality(Places(args, a))],
                       transports |-> {t \in Transports : Places(args, t) # {}}]
    /\ CASE command'.name = "help" -> Exit(0)
         [] command'.name = "usage" -> Exit(2)
         [] command'.name = "probe" -> pc' = "Connect" /\ UNCHANGED status
         [] OTHER -> pc' = "Prepare" /\ UNCHANGED status
    /\ UNCHANGED <<clientVars, vouched, unusable, report>>

Report(completion) == pc' = "Emit" /\ report' = completion

\* TrustConfig::prepare, before anything is resolved or connected: a pin, or
\* the whole file read, validated and bound to the typed host and port.  A
\* certificate pin needs no preparation.
PreparePin ==
    /\ pc = "Prepare"
    /\ command.trust # "known-hosts"
    /\ \E pin \in Pins :
          /\ trust' = [mode |-> IF command.trust \in CertificateOptions
                                THEN "certificate" ELSE "pin",
                       pin |-> pin]
          /\ vouched' = [k \in Keys |-> DecidePin(pin, k)]
    /\ pc' = "Connect"
    /\ UNCHANGED <<presented, coreState, due, result, loop, command, given, unusable,
                   report, status>>

\* read_bounded fails: no regular file, too large, an I/O error.
FileUnreadable ==
    /\ pc = "Prepare"
    /\ command.trust = "known-hosts"
    /\ Report("io_error")
    /\ UNCHANGED <<clientVars, command, given, vouched, unusable, status>>

PrepareFile ==
    /\ pc = "Prepare"
    /\ command.trust = "known-hosts"
    /\ \E lines \in Files, host \in Hosts, port \in Ports :
          /\ unusable' = \E i \in DOMAIN lines : ErrorAt(lines, i) # "none"
          /\ vouched' = Expected(lines, NameOf(host, port))
          /\ CASE ParseError(lines) # "none" -> Report(ParseError(lines)) /\ UNCHANGED trust
               [] ParseError(lines) = "none" /\ ~LookupNameOk(host, port) ->
                     Report("invalid_lookup_name") /\ UNCHANGED trust
               [] OTHER -> /\ trust' = [mode |-> "known_hosts",
                                        applicable |-> PolicyForName(Entries(lines),
                                                                     NameOf(host, port))]
                           /\ pc' = "Connect"
                           /\ UNCHANGED report
    /\ UNCHANGED <<presented, coreState, due, result, loop, command, given, status>>

\* Name resolution and the TCP connection; for QUIC resolution only, the
\* socket and the core following in run.
ConnectFails ==
    /\ pc = "Connect"
    /\ Report("connect_failed")
    /\ UNCHANGED <<clientVars, command, given, vouched, unusable, status>>

QuicRun ==
    /\ pc = "Connect"
    /\ command.name = "quic"
    /\ pc' = "Handshake"
    /\ loop' = "Send"
    /\ UNCHANGED <<trust, presented, coreState, due, result, command, given, vouched,
                   unusable, report, status>>

QuicStep ==
    /\ pc = "Handshake"
    /\ RunStep
    /\ UNCHANGED mainVars

\* The report keeps the outcome, or that none could be reached.
QuicReport ==
    /\ pc = "Handshake"
    /\ loop = "Returned"
    /\ Report(IF result # "Ok" THEN "io_error"
              ELSE IF outcome.handshake = "Completed" THEN "complete" ELSE "incomplete")
    /\ UNCHANGED <<clientVars, command, given, vouched, unusable, status>>

\* A TCP handshake that could not start, or ended: the host is judged after
\* its signature verified, and only a trusted one completes.
TcpHandshake ==
    /\ pc = "Connect"
    /\ command.name = "tcp"
    /\ \E p \in Presentable :
          /\ presented' = p
          /\ \/ Report("incomplete")
             \/ p.valid /\ ~PolicyDecides(trust, p.key).trusted /\ Report("host_not_trusted")
             \/ p.valid /\ PolicyDecides(trust, p.key).trusted /\ Report("complete")
    /\ UNCHANGED <<trust, coreState, due, result, loop, command, given, vouched,
                   unusable, status>>

ProbeRun ==
    /\ pc = "Connect"
    /\ command.name = "probe"
    /\ \E c \in {"complete", "incomplete"} : Report(c)
    /\ UNCHANGED <<clientVars, command, given, vouched, unusable, status>>

\* The report is written; if that fails the status is 1.
Emit ==
    /\ pc = "Emit"
    /\ \/ Exit(IF report = "complete" THEN 0 ELSE 1)
       \/ Exit(1)
    /\ UNCHANGED <<clientVars, command, given, vouched, unusable, report>>

Clock ==
    /\ DeadlinePasses \/ LingerPasses
    /\ UNCHANGED mainVars

Exited == pc = "Exit" /\ UNCHANGED vars

Init ==
    /\ ClientInit
    /\ pc = "Start"
    /\ command = [name |-> "none", trust |-> "none"]
    /\ given = [trusts |-> [a \in TrustOptions |-> 0], transports |-> {}]
    /\ vouched = [k \in Keys |-> Untrusted("unknown_host", NoLine)] /\ unusable = FALSE
    /\ report = "none" /\ status = -1

Program == \/ Main \/ PreparePin \/ FileUnreadable \/ PrepareFile \/ ConnectFails
           \/ QuicRun \/ QuicStep \/ QuicReport \/ TcpHandshake \/ ProbeRun \/ Emit

Next == Program \/ Clock \/ Exited

\* One thread whose waits are bounded, and a clock.  Nothing is asked of the
\* server or of the network.
Spec == Init /\ [][Next]_vars /\ WF_vars(Program)
        /\ WF_vars(DeadlinePasses /\ UNCHANGED mainVars)
        /\ WF_vars(LingerPasses /\ UNCHANGED mainVars)

----------------------------------------------------------------------------
(* Properties.                                                             *)

\* Status 0 of a handshake: its one trust source vouches for the key, and
\* the server proved that it holds it.  For a known_hosts file this is read
\* off the file itself: no line of it is in error, a plain line that is
\* about the typed host and port lists the key, and no @revoked line that is
\* about them does, wherever it stands.
TrustedOnlyAsListed ==
    status = 0 /\ command.name \in Transports =>
        /\ presented.valid /\ vouched[presented.key].trusted
        /\ ~unusable
        /\ command.trust \notin CertificateOptions /\ command.name = "quic" =>
              presented.form = "raw"

\* The policy neither misses a line that is about the host nor counts one
\* that is not: for every key its decision, with its reason and its line, is
\* the one the reference reads off the file, so a host that is listed is also
\* accepted.
PolicyExact ==
    trust.mode = "known_hosts" =>
        \A k \in Keys : Decide(trust.applicable, k) = vouched[k]

\* "policies are never combined by accident" (set_once): nothing is connected
\* unless exactly one trust option and one transport were given, and the
\* policy in force is that of the option.
OneTrustSource ==
    pc \in {"Connect", "Handshake"} /\ command.name # "probe" =>
        /\ given.trusts = [a \in TrustOptions |-> IF a = command.trust THEN 1 ELSE 0]
        /\ given.transports \subseteq {command.name}
        /\ trust.mode = (CASE command.trust = "host-key-sha256" -> "pin"
                           [] command.trust = "known-hosts" -> "known_hosts"
                           [] OTHER -> "certificate")

\* Trust is exactly what the command line configured, and a server is called
\* trusted only if that source vouches for the key it authenticated with.
TrustAsConfigured == OneTrustSource /\ TrustedOnlyAsListed

\* The program ends, whatever the server sends or withholds.
ProgramExits == <>(pc = "Exit")
=============================================================================
