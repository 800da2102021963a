------------------------------ MODULE Formats ------------------------------
(***************************************************************************)
(* What happens to a payload between its writer and its reader: it starts  *)
(* as the encoding of a message, a key or a signature, and a peer or the   *)
(* path may change a byte, insert one, remove one or cut the end off.  The *)
(* codecs have no state, so that the payload is the only thing that moves. *)
(***************************************************************************)
EXTENDS KeysRef, Functions, TLC

CONSTANTS
    Faults,       \* bound: how often a payload is changed
    ShortPayload, \* bound: a longer payload is changed once
    FaultBytes    \* the bytes a change puts in

ASSUME FormatsConfig ==
    Faults \in Nat /\ ShortPayload \in Nat /\ FaultBytes \subseteq Byte

VARIABLES
    kind,      \* what the payload was made as, and is read as
    value,     \* what it was made from
    payload,
    faults,
    read       \* what the reader makes of it: <<>> until it is read

vars == <<kind, value, payload, faults, read>>

----------------------------------------------------------------------------
(* What is encoded: a message with at most one field that is not plain.    *)

Plain(type) ==
    CASE type = "u32"  -> 6
      [] type = "bool" -> FALSE
      [] type = "cookie" -> [i \in 1..CookieLen |-> 7]
      [] type = "rest" -> <<>>
      [] OTHER -> <<LetterS>>

Others(type) ==
    CASE type = "u32"  -> {0, MaxU32}
      [] type = "bool" -> {TRUE}
      [] type = "cookie" -> {}
      [] type = "rest" -> {<<NUL, Comma>>}
      [] type = "name_list" -> {<<>>, <<Dash, Comma, 6>>}
      [] OTHER -> {<<>>, <<NUL, Comma, Radix - 1>>}

\* Every list of a KEXINIT is read alike: two of them vary.
Varied(k) == Range(Reads[k]) \ (NameLists \ {"kex", "lang_sc"})

Messages(k) ==
    LET plain == [f \in Range(Reads[k]) |-> Plain(TypeOf(f))]
    IN {plain} \cup UNION {{[plain EXCEPT ![f] = v] : v \in Others(TypeOf(f))}
                           : f \in Varied(k)}

Pairs == [name : {SigAlgsName, <<6>>}, value : {<<>>, <<6, Comma, 7>>, <<Comma>>}]
Idents == [version : {<<6>>, <<Comma, 7>>}, software : {<<6>>, <<7, 7>>},
           comments : {<<>>, <<<<>>>>, <<<<Space, Dash>>>>}]

SomeKeys == {Ed25519(<<0, 9>>), Ed25519(<<Radix - 1, 1>>), EcdsaP256(<<Uncompressed, 9, 0>>)}
            \cup {Rsa(e, <<8, 1>>) : e \in {<<1>>, <<3>>, <<9>>, <<1, 1>>, <<1, 0, 1>>}}
            \cup {Rsa(<<3>>, n) : n \in {<<1, 1>>, <<2, 1>>, <<2, 2>>, <<3, 0, 1>>,
                                         <<4, 0, 1>>}}

\* A key, the scheme it signed with, the one negotiated, what the provider
\* supports, and the signature.
SomeSignatures ==
    LET Signed(key, by, sig) == [key : {key}, by : {by}, sig : {sig}, scheme : Schemes,
                                 provider : {{}, Schemes}]
        rsa == Rsa(<<3>>, <<8, 1>>)
    IN Signed(Ed25519(<<0, 9>>), "Ed25519", <<0, 9>>)
       \cup UNION {Signed(rsa, by, sig) : by \in {"RsaSha2_512", "RsaSha2_256"},
                                          sig \in {<<0, 9>>, <<7, 7>>}}
       \cup Signed(EcdsaP256(<<Uncompressed, 9, 0>>), "EcdsaP256Sha256", <<0, 9, 3, 0>>)

SignatureBytes(v) ==
    IF v.key.type = "EcdsaP256"
    THEN SshString(MpintBody(SubSeq(v.sig, 1, ScalarLen)))
         \o SshString(MpintBody(SubSeq(v.sig, ScalarLen + 1, 2 * ScalarLen)))
    ELSE v.sig
SignatureBlob(v) == SshString(SchemeName[v.by]) \o SshString(SignatureBytes(v))

Made(k, v, bytes) == kind = k /\ value = v /\ payload = bytes /\ faults = 0 /\ read = <<>>

Init ==
    \/ \E k \in Kinds : \E m \in Messages(k) : Made(k, m, Encode(k, m, MaxU32).bytes)
    \/ \E n \in 0..(MaxExtensions + 1) : \E pairs \in [1..n -> Pairs] :
          Made("ExtInfo", pairs, EncodeExtInfo(pairs, MaxU32).bytes)
    \/ \E id \in Idents : Made("Ident", id, EncodeIdent(id, MaxU32).bytes)
    \/ \E key \in SomeKeys : Made("Key", key, HandBlob(key))
    \/ \E key \in SomeKeys : Made("Spki", key, HandSpki(key))
    \/ \E s \in SomeSignatures : Made("Signature", s, SignatureBlob(s))

----------------------------------------------------------------------------
(* Faults.                                                                 *)

Change(new) ==
    /\ read = <<>>
    /\ faults < IF Len(payload) <= ShortPayload THEN Faults ELSE 1
    /\ faults' = faults + 1
    /\ payload' = new
    /\ UNCHANGED <<kind, value, read>>

Alter == \E i \in DOMAIN payload, b \in FaultBytes : Change([payload EXCEPT ![i] = b])
Insert == \E i \in 1..(Len(payload) + 1), b \in FaultBytes : Change(InsertAt(payload, i, b))
Delete == \E i \in DOMAIN payload : Change(RemoveAt(payload, i))
Cut == \E n \in 0..(Len(payload) - 1) : Change(SubSeq(payload, 1, n))

----------------------------------------------------------------------------
(* Reading.                                                                *)

Signed(in) ==
    LET s == DecodeSignature(in)
    IN IF s.ok THEN Verify(value.key, value.scheme, s.value, value.provider, value.sig)
       ELSE s

Decoded ==
    CASE kind = "ExtInfo"   -> DecodeExtInfo(payload)
      [] kind = "Ident"     -> ParseIdent(payload)
      [] kind = "Key"       -> ParseKey(payload)
      [] kind = "Spki"      -> HostKeyFromSpki(payload)
      [] kind = "Signature" -> Signed(payload)
      [] OTHER              -> Decode(kind, payload)

Receive ==
    /\ read = <<>>
    /\ read' = <<Decoded>>
    /\ UNCHANGED <<kind, value, payload, faults>>

Next == Alter \/ Insert \/ Delete \/ Cut \/ Receive

Spec == Init /\ [][Next]_vars

----------------------------------------------------------------------------
(* Properties.                                                             *)

\* The payload the codecs would write for what was read.
Encoded(v) ==
    CASE kind = "ExtInfo" -> EncodeExtInfo(v, MaxU32).bytes
      [] kind = "Ident"   -> EncodeIdent(v, MaxU32).bytes
      [] kind = "Key"     -> ToBlob(v)
      [] kind = "Spki"    -> HostKeySpki(v)
      [] OTHER            -> Encode(kind, v, MaxU32).bytes

\* A boolean is written as 0 or 1 and read as any byte.
Normal(in) ==
    LET flag == CASE kind = "Debug" -> 2
                  [] kind = "KexInit" -> Len(in) - U32Len
                  [] OTHER -> 0
    IN [i \in DOMAIN in |-> IF i = flag /\ in[i] # 0 THEN 1 ELSE in[i]]

\* d is what the oracles of the fuzz targets say of the payload: the same
\* value, or the same error at the same offset (for an identification, the
\* same verdict; for a SubjectPublicKeyInfo, that it is exactly what the
\* harness writes for an acceptable key).
AsReference(d) ==
    CASE kind = "Ident" -> RefIdent(payload) = IF d.ok THEN <<d.value>> ELSE <<>>
      [] kind = "Spki" ->
            /\ d.ok => Acceptable(d.value) /\ payload = HandSpki(d.value)
            /\ faults = 0 => d.ok = Acceptable(value)
      [] kind = "ExtInfo" ->
            /\ d = RefExtInfo(payload)
            /\ d.ok => ServerSigAlgs(d.value) = RefServerSigAlgs(d.value)
      [] kind = "Key" -> d = RefHostKey(payload)
      [] kind = "Signature" ->
            \A f \in {RefFields(<<"algorithm", "signature">>, payload)} :
                d = RefVerify(value.key, value.scheme, f, value.provider, value.sig)
      [] OTHER ->
            \A at \in {Offsets(RefLayout[kind], payload, 1)} :
                d = RefDecode(kind, payload, at)

\* Whatever became of a payload, the codec says of it what the oracle says;
\* and Mpint::is_canonical agrees with its oracle on the bytes, taken as an
\* integer.
DecodesAsReference ==
    /\ \A d \in Range(read) : AsReference(d)
    /\ IsCanonical(payload) = RefIsCanonical(payload)

\* What was written is read back, and what is read could only have been
\* written one way: an accepted payload is the encoding of its value, but
\* for the byte of a true boolean.
RoundTrip(d) ==
    /\ faults = 0 /\ kind \notin {"ExtInfo", "Key", "Spki", "Signature"} => d = Ok(value)
    /\ kind = "ExtInfo" /\ faults = 0 =>
          IF Len(value) > MaxExtensions THEN ~d.ok ELSE d.value = value
    /\ d.ok /\ kind # "Signature" => Encoded(d.value) = Normal(payload)

\* A message is written exactly when the buffer holds all of it.
CapacityExact ==
    faults = 0 /\ kind \in Kinds =>
        \A cap \in 0..Len(payload) :
            Encode(kind, value, cap).ok = (cap = Len(payload))

\* A key has one SSH blob and one SubjectPublicKeyInfo, each converts to the
\* other, and neither is ever taken for the other.
KeyIdentity(d) ==
    /\ kind = "Key" /\ d.ok =>
          /\ \A spki \in {HostKeySpki(d.value)} : HostKeyFromSpki(spki) = d
          /\ ~HostKeyFromSpki(payload).ok
    /\ kind = "Spki" /\ d.ok =>
          /\ \A blob \in {ToBlob(d.value)} : ParseKey(blob) = d
          /\ ~ParseKey(payload).ok

\* Of a genuine signature only one blob verifies, under the scheme it was
\* made with; an RSA signature may come without its leading zeros.
OneSignature(d) ==
    kind = "Signature" /\ d.ok =>
        \E drop \in 0..Len(SignatureBytes(value)) :
            /\ drop > 0 => value.key.type = "Rsa"
            /\ \A i \in 1..drop : SignatureBytes(value)[i] = 0
            /\ payload = SshString(SchemeName[value.scheme])
                         \o SshString(SubSeq(SignatureBytes(value), drop + 1,
                                             Len(SignatureBytes(value))))

\* One value, one encoding: messages, keys and signatures (the encoders and
\* strict decoders of tatami_ssh_wire and tatami_ssh_keys).
OneEncoding ==
    /\ CapacityExact
    /\ \A d \in Range(read) : RoundTrip(d) /\ KeyIdentity(d) /\ OneSignature(d)
============================================================================
