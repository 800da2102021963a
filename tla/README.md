# Verification of tatami-ssh

TLA+ models of the parts of tatami-ssh that keep state and are hard to test, TLC
configurations that check them on small instances, and TLAPS proofs of the
properties that matter most. Paths below are relative to `crates/` unless they
start with `fuzz/`.

## 1. Inventory

| component | state | operations | hard behaviour |
|---|---|---|---|
| channel-opening engine, `tatami_ssh_connection/src/opening.rs` | slots with generations, free stack, number counter, tombstones, outgoing queue, three counters | open, cancel, accept, refuse, transport_lost, next_outgoing, three message handlers | replies racing cancels, limits, number exhaustion, reuse of slots, loss of the transport |
| client handshake, `tatami_ssh_tcp/src/handshake.rs` | phase, input and output buffers, outcome and pending outcome, secrets, strict-KEX flags, sequence numbers, budgets | feed, take_output, provide_trust, input_ended, step | any order of host calls, hostile order of packets, trust gate, output before outcome, lifetime of secrets |
| handshake driver, `tatami_ssh_tcp/src/io/{handshake,seam}.rs` | socket, deadline | run_handshake_on, write_all_by | deadline against endless or silent servers |
| TCP diagnostic listener, `tatami_ssh_tcp/src/io/listener.rs` | accept-loop locals; shared stop flag, active count, records_dropped, bounded channel; sink flag and error slot | run, try_emit, workers, sink thread, StopHandle::stop | threads, full channel, wedged or failing sink, abandoned workers |
| initial-packet observer, `tatami_ssh_tcp/src/{observer,initial,ident}.rs`, driven by `io/listener.rs` | input buffer, identification reader, packet budgets, outcome; the record of the connection | feed, step, input_ended; drive | stream cut anywhere, limits at their edge, end of input, stop flag and deadline at every point |
| client probe, `tatami_ssh_tcp/src/{probe,initial,ident,io}.rs` | the same, and the prelude counters | the same; connect, run_probe, drive | the same, lines before the identification, failing connection attempts |
| protected packets, `tatami_ssh_tcp/src/gcm.rs` | 64-bit invocation counter of a direction | seal, open | counter exhaustion, packets cut, lost, repeated or altered, length arithmetic of the framing |
| negotiation, `tatami_ssh_tcp/src/negotiate.rs` | none | negotiate, StrictKex::evaluate, check_profile | order of preference, markers that are not methods, guesses |
| exchange hash, `tatami_ssh_tcp/src/transcript.rs` | none | hashing, derivation | none beyond its caller |
| known hosts and trust, `tatami_ssh_keys/src/{known_hosts,trust}.rs`, `tatami_ssh_openssh_compat`, `tatami_ssh/src/trust.rs` | parsed entries, the applicable ones | parse, lookup name, bind, decide | precedence of revoked, negated, CA and matching entries; one bad line spoils the file |
| host keys, `tatami_ssh_keys/src/{blob,rsa,ecdsa,ed25519,host_key,spki}.rs` | none | parse, convert, verify | strict formats: one value, one encoding |
| wire codecs, `tatami_ssh_wire/src/*` | none | encode, decode | length arithmetic, truncation, canonical integers |
| QUIC diagnostic server, `tatami_ssh_quic/src/diag/server.rs` | attempts, statistics, pending observations, resolver slot, sink channel | handle_datagram, handle_timeouts, shutdown, run | completion, loss, deadline and shutdown in one call; decide once; sink thread |
| QUIC diagnostic client, `tatami_ssh_quic/src/diag/{client,tls}.rs` | one connection, verifier slot, outcome | handle_datagram, handle_timeouts, finish, run | lossy network, deadline and linger period, what was learnt before authentication |
| client program, `tatami_ssh/src/bin/tatami-client.rs`, `client.rs`, `quic_diag/client.rs`, `trust.rs` | arguments, trust source, exit status | parse, prepare, three commands | exactly one trust source; status 0 only when authenticated |
| server program, `tatami_ssh/src/bin/tatami-server.rs`, `server.rs` | none of its own | arguments, rendering of records | none beyond the two servers |
| reference models of the fuzz targets, `fuzz/protocol`, `fuzz/wire-core` | what a tested component must report | one per fuzzed component | they are the project's own statement of what is correct |
| user authentication, `tatami_ssh_auth` | none | none (documentation only) | none |

How they interact: `tatami-client` runs the probe, the handshake driver or the
QUIC client; the driver feeds the handshake, and both handshakes ask a
`HostTrustPolicy` (known hosts, fingerprints) for the decision. `tatami-server`
runs the listener, whose workers run the observer, or the QUIC server; the
records of both go through a bounded channel to a sink thread that renders them.
The opening engine is used by a binding that the repository does not contain
yet. The handshake, the engine and the QUIC cores are sans-I/O state machines
called from one thread; the listener and the QUIC server's `run` are where
threads meet.

The hazards these behaviours expose the code to, each at its line and with the
properties that would catch it, are listed in `PROJECT.json`.

## 2. Modules

| module | models | state and actions |
|---|---|---|
| `Opening` | the opening engine against an arbitrary peer | variables are the fields of `OpeningEngine`; one action per method, or per branch where a method has branches with different effects (`Accept`/`AcceptExhausted`, `HandleOpen`/`HandleOpenByLimit`, `HandleConfirmation`/`HandleLateConfirmation`). Rejected calls change nothing and are the negated guards |
| `OpeningModel` | `opening_model` of `fuzz/protocol/src/state_support.rs` | the abstract registry: a set of channels, no slots, generations or counters |
| `OpeningHandles` | `ChannelHandle` as the application sees it | `Opening` with the handles issued as history, and the refinement mapping to `OpeningModel` |
| `OpeningPair` | two engines, two bindings, a transport that may fail | two instances of `Opening`; the bindings (external) send, deliver, report loss and reconnect |
| `Handshake` | `ClientHandshake` with any order of host calls and an arbitrary server | variables are the struct's fields; one action per host call and per branch of the handlers that one iteration of `step` reaches |
| `HandshakeModel` | `Model` of `fuzz/protocol/fuzz_targets/tcp_handshake.rs` | goes through a server's items and keeps what the report must say; no buffer, secrets or sequence numbers |
| `HandshakeRun` | `run_handshake_on` | `Handshake` with the order of calls, deadline and socket of the driver, and the refinement mapping to `HandshakeModel` |
| `Listener`, `ListenerMC` | `Listener::run`, its workers and its sink thread | one action per atomic operation on shared state, with the thread-local work up to the next one |
| `Initial` | what the observer and the probe share: `InputBuffer`, `IdentificationReader`, `decode_initial_packet`, `InitialPackets` | operators; what a peer sends is a constant set of exchanges |
| `StreamModel` | the reference readers and `stream_gen::expect` of `fuzz/protocol/src/tcp_support.rs` | operators over a finished stream |
| `Observer`, `ObserverMC` | `Observer`, `observe_connection` and `drive` of a listener worker | variables are the fields of `Observer` and `Observation`; one action per branch of `step` and per outcome of a read. The peer's bytes are a stream of lines and packets with positions, of which a read delivers any number that it asked for |
| `Probe`, `ProbeMC` | `Probe`, `connect`, `run_probe` and `drive` of `io.rs` | the same for `Probe` and `ProbeRun` |
| `Gcm` | `AeadDirection::seal` and `open`, and the stream between two of them | counters, sealed packets, the stream and how much of it arrived; packets are lost, repeated or altered at most `MaxFaults` times |
| `Negotiate`, `NegotiateModel` | `negotiate`, `StrictKex::evaluate`, `check_profile`; `negotiate_ref` of `fuzz/protocol/src/kex_support.rs` | operators over lists of names |
| `Negotiation` | a KEXINIT of this client meets a server's (`handshake.rs`) | the two proposals, the selection and what becomes of it; the server proposes any lists within `MaxNames` and `MaxOthers` |
| `Packets` | one connection: negotiation, then a protected direction | composes `Gcm` and `Negotiation` |
| `Wire`, `Keys` | the codecs; host-key formats, their conversions and `verify` | operators that return a value or the code's error with its offset |
| `WireRef`, `KeysRef` | the oracles of `fuzz/wire-core` and of `key_blobs.rs`, `spki_conversion.rs` | the same questions answered from computed offsets |
| `Formats` | a payload between its writer and its reader | it starts as an encoding; `Alter`, `Insert`, `Delete` and `Cut` damage it, then it is received |
| `KnownHosts` | `known_hosts.rs`, `trust.rs` and the reference of `fuzz_targets/known_hosts.rs` | parsing as far as it decides the fate of a file, binding, matching, deciding |
| `QuicClient` | `ClientCore`, `run` and the verifiers of `tls.rs` | variables are the fields of the core; one action per datagram, timer and driver step |
| `Client`, `ClientMC` | `tatami-client` from arguments to exit status | composes `KnownHosts` and `QuicClient`; of the TCP handshake and the probe only the end is kept |
| `QuicServerCore` | `ServerCore` | attempts, statistics, pending observations, resolver slot; one action per call with whatever events quinn-proto yields in it |
| `QuicServer` | `DiagServer::run` and its sink thread | composes the core with the loop, the channel and the sink |

`OpeningProofs`, `OpeningPairProofs`, `HandshakeProofs`, `ListenerProofs`,
`ObserverProofs`, `ProbeProofs`, `QuicServerProofs` and `ClientProofs` hold the
theorems (section 4).

Definitions called `Faulty...` are plausible bugs in the definition that follows
them. They are used by nothing; replacing the definition by them makes some
property fail, which shows that the property depends on the code being right.

### What the models abstract

* Opening: channel types, windows, descriptions, reason codes (carried verbatim,
  never tested). Numbers and generations keep their arithmetic (`MaxNumber` for
  `u32::MAX`, `GenerationMod` for 2^32).
* Handshake: a unit of input is a line or a packet; its `content` says how it
  fares in decoding, key agreement and signature verification. The byte budget is
  nondeterministic (`PreKexLimit` may fire on any packet). Failures of the random
  number generator, of local encoding and of `send_protected` (an exhausted GCM
  counter after a few packets) are left out.
* HandshakeRun: interrupted reads and partial writes stutter. The trust policy
  may answer either way.
* Listener: time is nondeterministic; a worker's observation is one step (it is
  the `Observer` module); workers are alike, so `workers` counts how many are at
  each place instead of naming them. A panicking sink is left out, so
  `Disconnected` does not occur.
* Initial, Observer, Probe: a line is its class (supported, other version,
  malformed, text), its length with the terminator, and how many of its bytes
  tell whether it starts with `SSH-`; a packet is its two length fields, its
  message and whether the decoder accepts it. Contents, anomalies and times are
  left out. Identification limits below the four bytes of the prefix are left
  out, and `read_chunk` is positive (the listener's configuration refuses zero,
  the probe raises it to one). Name resolution and `Probe::new` may fail.
* Gcm: a packet is its lengths, its nonce counter and whether it still is what
  was sealed; a tag verifies exactly then (the cipher is external). The counter
  keeps its width (`CounterMax` for 2^64 - 1).
* Wire, Keys: a byte is one of 16 values, a uint32 is two bytes, key lengths are
  scaled with them, and names, object identifiers and DER tags are one byte. Every
  comparison, carry and length check of the codecs is kept at that radix.
* KnownHosts: of a line its fate, marker, host field and key are kept; base64 and
  the HMAC of hashed names are external. Matching is character by character, as
  in the code.
* QuicClient, QuicServerCore: quinn-proto and rustls are external: a call into
  them yields any of the events they may yield. Time is whether a deadline has
  passed.
* QuicServer: between the places in `Local` the run thread touches nothing
  shared, so steps of the sink thread and the stop handle are not interleaved
  there: each has the same effect just before or after.
* Client: options that only tune a run are left out, and so is rendering.

## 3. Runs

| run | instance | checks | states |
|---|---|---|---|
| `opening` | 2+2 pending, 3 channels, 3 numbers, 1 tombstone, 4 channels ever created, generations mod 5, 2 undrained messages | `RegistryExact`, `NumbersUnique`, `AnswersAgree`, refinement `ImplementsModel` | 121,231 |
| `opening_pair` | 2 numbers, 2 channels, 1 tombstone a side | `HonestPeerNeverAccused`, `PairAgrees`, `OpensResolved` | 264,816 |
| `listener` | channel of 1, 3 connections; 2 workers and a limit of 3, or 1 worker and a limit of 4 | `RunAccounted`, `OverloadExact`, `Terminates` | 688,220 |
| `listener_sink_error` | the same with 2 connections | `SinkFailureHasError`, violated | |
| `handshake` | buffer of 1 unit, 5 packets before and 2 after the key change, sequence numbers mod 4 | `TrustGate`, `SecretsWhenNeeded`, `SequenceNumbers`, `ScriptFollowed` | 395,782 |
| `handshake_run` | 4 packets before the key change, sequence numbers mod 5 | `StrictTranscript`, `RunEnds`, refinement `FollowsModel` | 107,936 |
| `observer` | identification line of 12, packets of 72, 3 packets or 104 bytes, reads of 40 | `InputBounded`, `AsExpected`, `RecordAgrees`, `DriveReturns` | 439,628 |
| `probe` | the same, 2 prelude lines of 90 bytes, 94 in all; 0 or 3 addresses, 2 of them tried | `ProbeExact`, `AsExpected`, `RunReturns` | 127,003 |
| `quic_server` | capacity 1, 2 incoming connections, channel of 1, limit 1 or 3 | `DecidedOnce`, `HelloBelongs`, `StoppedAccounts`, `RunSettles` | 458,146 |
| `client` | every argument vector of up to four options; files of up to three lines | `TrustAsConfigured`, `PolicyExact`, `ReportsAuthenticated`, `OutcomeFinal`, `ProgramExits` | 277,837 |
| `packets` | counters of 2 bits, blocks of 4, payloads of 2 and 9, 2 packets on the stream, 1 fault; server lists of up to 2 of 6, 3, 2 and 1 names | `NonceNeverReused`, `DeliveredInOrder`, `HonestFraming`, `NegotiationSound`, `SealedArrives` | 1,352,230 |
| `formats` | up to 2 extensions, up to 2 faults, the bytes 0, 3 and 8 put in, payloads of up to 12 bytes damaged twice | `DecodesAsReference`, `OneEncoding` | 764,532 |

Each property is described by the comment above its definition.

Why the bounds are enough.

* `opening`: every limit is reached, the number space runs out, slots are vacated
  in any order and taken again, a tombstone is evicted and consumed. Generations
  do not wrap, see below.
* `opening_pair`: two opens a side cross, are cancelled and refused, numbers run
  out, and the transport is lost and replaced with opens outstanding.
* `listener`: both workers and the sink race the shutdown, a connection is
  dropped at capacity, the channel fills at every emission; the second
  configuration goes on after drops, so overload is reported twice.
* `handshake`: the longest legal exchange before NEWKEYS has four packets
  (KEXINIT, wrong guess, reply, NEWKEYS), so five leave one for an intruder in
  every place. With sequence numbers mod 4 a wrap under strict KEX happens, on
  the fourth packet; with 2^32 the strict rules end the exchange long before, and
  `handshake_run` takes them mod 5 so that the wrap does not cut the longest
  strict exchange short.
* `observer`, `probe`: every read delivers any number of bytes up to what was
  asked, so all cuts happen. KEXINIT with empty name lists takes 72 bytes,
  exactly the packet limit; two packets of 16 before it make 104, exactly the
  byte budget, one of 24 and one of 16 exceed it; a fourth packet exceeds the
  packet budget. Lines are just within, at and just beyond each of their limits.
  The probe's second connect attempt follows a failed one and the third address
  is never tried. The longest stretch a probe may have to hold, a prelude line, is longer there
  than a packet, in the observer it is the packet.
* `quic_server`: one attempt holds the capacity while the other is refused,
  dropped or accepted after it; deadline, loss, completion and shutdown meet in
  one call, the loss of a connection in the call that accepts it included; the
  channel is full or free at every emission. Two refused attempts in two overload
  records need a third connection, which is left to the theorem.
* `client`: four options are enough to give two trust sources, two transports or
  one of them twice, in any order; the files make revocations, negations, other
  algorithms, CA lines, hashed names and broken lines meet; patterns have up to
  three characters, which is where `*` and `?` interact.
* `packets`: every starting counter is tried, so it is exhausted after 0 to 3
  packets; the payloads make padding minimal and maximal, and the larger one
  exceeds the receiver's cap.
* `formats`: a message may claim more extensions than it holds, or fewer, or more
  than the limit; two faults are enough for a length and its contents to change
  together; the bytes put in are zero, a small value and one with the high bit,
  which is what the integer rules tell apart.

The violation run, `listener_sink_error`: the sink thread publishes the failed
flag before the error (`io/listener.rs:412`), so an accept loop without workers
can report `SinkFailed` with no error, which `tests/observer_loopback.rs` asserts
never happens. The QUIC server stores the two in the same order
(`diag/server.rs:967-970`).

Met while modelling and not given a run of their own:

* `Listener::run` reads `records_dropped` a second time (`listener.rs:574`) after
  it queued the summary, so the summary returned may count a record of an
  abandoned worker that the delivered one does not, although the documentation
  says it "Returns the same summary that was delivered" (lines 382-383).
  `RunAccounted` therefore asks for equality only when no worker was abandoned.
* `dropped_reported` advances even if the overload record was lost to a full
  channel (`listener.rs:457`); those drops appear in no `dropped_since_last`,
  documented as "Drops since the previous overload record." `OverloadExact`
  therefore does not ask that each record counts from the one before it, but that
  no drop is in two of them and that each gap has a record of its own in
  `records_dropped`; both kinds of gap, between two records and before the
  summary, occur in the run.
* Once all channel numbers are handed out, a reply that names the last one after
  it was cancelled and evicted is reported as `ReplyToIncoming`, where the fuzz
  model says `UnknownRecipient`. `AnswersAgree` leaves that one answer out.
* After 2^32 reuses of a slot its generation wraps and an old handle resolves
  again; the refinement holds below the wrap (`MaxInserts` is less than
  `GenerationMod`).

### Fairness

* `OpeningPair`: the bindings drain, deliver, report loss and reconnect, and the
  application decides every `IncomingOpen`, as that event's documentation
  demands. Nobody has to open or cancel; the transport may fail for ever.
* `Listener`: the accept loop is a thread whose waits are all bounded by a poll
  interval or a grace period, and a worker's by its connection deadline; there is
  one condition per place a worker can be at. Nothing is asked of the sink in
  `RunReturns`; `SinkDrains` has the sink's progress as its premise.
* `QuicServer`: the run thread, whose waits are bounded, and the clock (grace
  period, handshake deadlines). Nothing is asked of the sink or the network.
* `HandshakeRun`: the driver is one thread, the clock runs, and the policy
  answers. Nothing is asked of the server.
* `Observer`, `Probe`: the driver is one thread; its writes, reads and connection
  attempts end by a timeout, and the clock runs. Nothing is asked of the peer: a
  read that delivers something need not happen.
* `Client`: the program is one thread and the clock runs (deadline, linger
  period); no datagram has to arrive.
* `Packets`: bytes of the stream arrive and the receiver opens what it has;
  nothing is asked of the sender.

## 4. Proofs

All theorems hold for every value of the constants that meets the named
assumptions, which say that limits are natural numbers (and positive where the
code refuses zero); what is assumed beyond that is said below.

`OpeningProofs` (any peer; any limits, number space and generation modulus):
`TypeCorrect`, `RegistryCorrect` (the cached counters equal what the slots hold
and are within the limits, the slot vector never outgrows `max_channels`, the free
stack holds exactly the vacant slots) and `NumbersCorrect` (local numbers unique
among channels and tombstones, peer numbers among channels). `IndInv` is their
conjunction with types. None is inductive alone: the limit on the slot vector
needs the free stack to be exact (insert appends only when no vacant slot exists,
so the length is the live count), the limit on the counters needs them to equal
what they count, and uniqueness of local numbers needs every number in use to
have been allocated. The lemmas `InsertSlot`, `SetStateTable`, `RemoveSlotTable`
and `TransportLostTable` say what the ways of changing the table do; each action
is then a step.

The same module proves that the engine is the fuzz target's model
(`OpeningModel`). `AnswersCorrect`: the model's channels are the live slots
(`ChannelOf` is injective, so the counts are equal), hence every answer agrees.
`ImplementsModelCorrect`: each action is the model's action for the same call. The
one thing that does not follow from `IndInv` is that a handle is fresh;
`HandlesInv` says that the handles issued are exactly the pairs (slot,
generation) in the pasts of the slots, so the number of handles issued bounds
every generation and, by the assumption `HandlesBound` (fewer handles than a
generation has values), none wraps. Past 2^32 reuses of one slot the statement is
false of the code.

`OpeningPairProofs` (two engines, any limits and number space, every interleaving
of calls, deliveries and losses): `HonestCorrect` and `PairCorrect`. What one side
can know of the other is abstracted to a record: its numbers by phase, the numbers
it allocated, its tombstones and the opens it cancelled. `OneWay` relates the
opener x of one direction, its peer y, and the two streams (in flight, then
queued):

* in every state: only allocated numbers are under way or known to the peer; each
  is announced once; an open has at most one answer coming, and none while its OPEN
  is under way or it waits at the peer; every tombstone stands for a cancelled open
  with no more cancelled since than there are tombstones behind it (`Buried`), so
  an evicted one was cancelled at least `MaxTombstones` cancels ago (`LongAgo`);
* with the transport up: the answer to every pending open is coming (`Coming`), and
  a channel of y is one of x, or x will hear of it, or cancelled it (`Agreed`);
* a side not yet told of a loss still knows what it may be answered (`Expected`); a
  side that was told has nothing pending but what it will send (`Queued`) and
  answers nothing of before (`Forgotten`). These guards are what makes a
  reconnection sound: the two sides are told at different times.

`Pair` adds that no message occurs twice in a stream. The lemmas are per event and
per role (what an event of x does to the direction x opens, and to the one it
answers); the part about the state then shows, action by action, that each engine's
step is that event, with the lemmas on what a call tells at the end of
`OpeningProofs`.

`HandshakeProofs` (any server, any order of host calls, any budgets, any
sequence-number modulus above three):

* `TrustGateHolds` and `SecretsCorrect`. The gate is not inductive: `GateInv` adds
  what each phase knows about `newkeysSent` and the signature, and ties the queued
  messages to `newkeysSent`.
* `SequenceCorrect`: `CountInv` adds the count in every phase before NEWKEYS.
* `ScriptCorrect`: `ScriptInv` says how many messages of the script each phase has
  queued (`Said(n)`), `PendingInv` what an outcome that waits for its output
  stands for; `IsPrefix` is replaced by its elementwise form, which the provers
  handle.
* `TranscriptCorrect`: `TranscriptInv` gives the packets received so far in each
  phase of a strict exchange, and that `preKexPackets` counts them.

The same module proves `FollowsModelCorrect`, the refinement of `HandshakeModel` by
the driven handshake. `DrivenInvariance` carries the invariants over (the driver
only restricts the order of calls); then the initial states correspond, and each
action of the driver maps to a step of the model or to none: a read that
delivers a unit to the handling of that item, the writes to nothing. Assumption
beyond `HandshakeConfig`: `SequenceMod > 4`, so that a strict exchange of four
packets does not wrap the counter; for 2^32 this holds.

`ListenerProofs` (any capacity, channel bound, number of connections, every
interleaving): `AccountsCorrect` and `OverloadCorrect`. `ListenerInv` adds to the
properties that the limit is looked at once per turn (`BelowLimit`), that a run
which abandoned no worker has none left (`NoneAbandoned`, which is what a worker
releasing its capacity last gives), when the summary exists and agrees with the
counter (`SummaryInv`), that nothing is queued after Stopped unless a worker was
abandoned (`StoppedInv`), and what the overload reports so far, sent or lost,
cover (`OverloadInv`, with `Covered` for the place between a report and the
assignment of `dropped_reported`): the gaps in the records queued, and the one
still open after the last of them (`Pending`), were each counted. A lost report
opens at most one gap and adds one to `records_dropped`; a record that is queued
turns the open gap into one of the log's.

`QuicServerProofs`: `DecidedCorrect` and `HelloCorrect`, and `RunUsesCore`
(`DiagServer::run` only makes the calls of the core, so what is proved of the core
holds in it). `CoreInv` adds that two entries of the map never stand for one
attempt and that identifiers were given out (`IdsInv`), and that between calls the
resolver's slot is empty (`SlotInv`). The handlers for events of quinn-proto are
treated once as operators on an attempt; each call of the core is then a
composition of them.

The second half is `StoppedCorrect` (any channel bound, whatever the sink does).
`RunInv` follows an attempt from its decision to its record: no attempt has two
records, pending or queued, and those that have neither (`Missing`) are no more than
`recordsDropped` (`RecordsInv`, with `Grows` for what a call of the core does to the
observations); the shutdown leaves nothing in progress and the last drain nothing
pending (`PlaceInv`); the overload records cover `droppedReported`, from the last
report on everything (`OverloadInv`); Stopped is the last record and the summary
still holds when it is queued (`StoppedInv`).

`ObserverProofs` (any limits and read sizes, any exchange, cut anywhere):
`TypeCorrect` and `InputAlwaysBounded` (from `ReadsAlwaysFit`: `InputOverflow`
does not occur, `EveryByteAccounted` and `BudgetsAlwaysHeld`), and `RecordCorrect`
(`RecordAgrees`) and `ExpectationMet` (`AsExpected`). The inductive
invariant adds that the counters of `InitialPackets` are positions in the stream
(`packets` is the number of packets gone past, `bytes` where the front one
starts), which ties the budgets to what was really consumed, and that the driver
reads only when the observer said NeedMore; from that and the checks on partial
input follows that less is buffered than a line or a packet takes, so there is
room. The first lemmas say what the decoders' answers imply about the number of
buffered bytes. For the record, `RecordInv` adds that what the driver has copied so
far is what the observer went past (the message that ends an observation is not
counted), and that the stage has been copied wherever the driver may give up.

`ExpectationMet` compares an observer that sees a growing buffer with the reference
that sees the finished stream. `LineAgrees` and `PacketAgrees` say that a verdict on
the front line or packet, also on an unfinished one, is the reference's verdict on
it; `ExpectedLines` and `ExpectedPackets` what the reference expects once the first
k lines or packets are known to be gone past (its `Min` of the positions that end a
stream exists by the well-foundedness of the naturals, `MinIs`); `LineFits` and
`PacketFits` that a whole stream holds every line and packet whole, so an end of
input that finds one unfinished came early. `FollowInv` then says that what the
observer went past the reference goes past, and that the end it reached is the one
the reference gives to the line or packet at the front (`Explained`).

Assumptions: `InitialAssumption` (lines and packets follow one
another without gaps) and `ObserverAssumption` (the identification limit holds the
four bytes of the prefix).

`ProbeProofs` (any limits and read sizes, any exchange of the server, cut anywhere,
any number of addresses): `TypeCorrect`, `ProbeCorrect` (`ProbeExact`),
`ExpectationMet` (`AsExpected`) and `NeverWaitsTooLong` (the probe asks for more input only while what it holds is
undecided and within the limits). `Inv` says that the stage is the one the front of
the stream calls for, that the prelude counters are the number and the position of
the front line until the identification and do not change after it, that the
counters of `InitialPackets` are positions as in the observer, and that the driver
reads only when the probe said NeedMore. `RunInv` adds the driver's side: the events
handed over so far, that the run has an end exactly when the driver returned, the
stage recorded wherever it may give up, and the connection attempts. The lemmas on
the decoders and on the reference are those of `ObserverProofs` again, and
`FollowInv` is the observer's with any number of prelude lines before the
identification: `Observer` and `Probe` name their
variables alike, as the code does, and cannot be extended together. Assumptions:
`InitialAssumption` and `ProbeAssumption` (the same for the probe's limits).

The end of `HandshakeProofs` is about protected packets (`Gcm`; any block size,
padding rule, counter width, payloads and faults of the stream): `NoncesUnique`,
`DeliveryInOrder`, `FramingAgrees`. `GcmInv` relates the sender's counter to the
number sealed (`SenderCounts`, `SealedInTurn`), the receiver's to the number
delivered (`ReceiverFollows`), and what is intact on the stream to what was sealed
(`IntactWasSealed`). Assumptions: `FramingConstants` (the minimal padding fits in a
block, the smallest packet is one block), as in the code.

Last, it is about negotiation (`Negotiation`; any server proposal, over any names
and up to any length, against any proposal of this client): `NegotiationCorrect`
(`NegotiationSound`). The code computes the answer: the first of the client's names
that the server has, list by list, returning at the first list that fails. The
reference states, by positions in the two proposals, which name an answer may carry
and when each error is due. `FirstInMeaning` says that what the code finds is the
least index; `SelectionSelected` that each list of the selection is one the reference
allows, `ErrorOfFirst` and `VerdictAgrees` that both name the same list when one
fails, and `SameFirstMeaning` that the reference's test for a wrong guess holds
exactly when the two first eligible names are equal.
Assumption: `NegotiationConstants` (the bounds are numbers). The steps `Packets`
takes on these variables are those of `NegotiationSpec`.

`ClientProofs` (any keys, command line, file, server, network and clock):

* `ReportsCorrect` and the action property `OutcomeStays`. `ClientInv` adds that a
  handshake decided on an open connection is over in TLS, so that it is not
  verified again, and that a completed one was authenticated (`Sound`), through
  every composition of the core's handlers.
* `GlobExact`: for every pattern and every name without a star, `glob_match` gives
  what the table of `glob_ref` gives. The two are tied through alignments: a list of
  cut points of the name, one per pattern character, where a star takes any piece and
  every other character one that it accepts (`Fits`). The table holds TRUE
  exactly where such a list exists (`GlobRefMeaning`). The loop keeps only the star
  seen last; its invariant is that, if there is an alignment at all, there is one
  through the current position or through a later cut of that star, so that earlier
  stars need not be retried (`GlobMatchMeaning`). Both functions are shown to exist
  as defined, the loop by the order in which it makes progress (`LoopExists`). The
  library's induction theorems cannot be instantiated; the lemma `Least` (a
  non-empty set of naturals has a least member) gives each induction as a least
  counterexample instead.
* `PolicyCorrect` (`PolicyExact`): the decision over the entries that bind kept is the
  one that the reference reads off the file, with its reason and its line
  (precedence, negation, first and last line, CA and revoked entries).
  `NameHasNoStar` provides the hypothesis of `GlobExact`: the name looked up has no
  star, as `lookup_name` refuses one.
* `TrustCorrect` (`TrustAsConfigured`). `OptionsReadFrom` says what the parser's
  result implies about the arguments: at most one trust option, in one place, and
  the one it returns. `GivenInv` carries that from the parse to the end of the
  program; `TrustInv` follows the key the server presented, from the verifier (QUIC)
  or the key exchange (TCP) through the report to the status. It rests on
  `ClientInv` and on `PolicyExact`.

Assumption `ClientConfig`: arguments are strings, hosts and patterns sequences of
characters, a port is not a star, each line names one of the keys.

### Only model-checked

* Liveness: `OpensResolved`, `Terminates`, `RunEnds`, `DriveReturns`, `RunReturns`,
  `RunSettles`, `ProgramExits`, `SealedArrives`.
* `DecodesAsReference` and `OneEncoding`: each compares two recursive readers of
  a message, and their recursions follow the data too closely for one alignment
  argument like that of `GlobExact` or of `ExpectationMet`; TLC compares them on
  every input within the bounds.

## 5. Plan

Nothing that is modelled waits for a run, and every safety property but the two
above is proved. To prove those, the readers of `Wire` and their oracles in
`WireRef` would first have to be stated as functions of the offset, as the lines
and packets of `Initial` are.

## 6. Not modelled

* Tests in the source files, and the input generators, assertions about texts and
  harness code of `fuzz/` (its reference models are modelled).
* Exchange hash, key derivation, ciphers and signatures: straight-line calls into
  libraries; the models keep which secrets exist and which checks come in which
  order.
* Key files, fingerprints and SSHFP records; TLS configurations and identity
  files. One observation about the latter: a crash between writing the certificate
  and the key leaves a directory that later loads refuse.
* Rendering of reports and JSON, the server program's arguments, file reading,
  name resolution beyond its failing.
* User authentication (no code yet), `scripts/`, `assets/`.
