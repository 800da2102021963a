-------------------------------- MODULE Keys --------------------------------
(***************************************************************************)
(* Host keys of tatami_ssh_keys: public-key and signature blobs (blob.rs,  *)
(* rsa.rs, ecdsa.rs, ed25519.rs), the key they denote and the order of     *)
(* checks of verify (host_key.rs), and the conversion from and to a        *)
(* SubjectPublicKeyInfo (spki.rs).  Like the wire codecs they keep no      *)
(* state.                                                                  *)
(*                                                                         *)
(* Lengths are scaled to bytes of four bits; names, object identifiers and *)
(* tags are one byte each.  The cryptography is external: which points are *)
(* valid, and which signature a provider accepts.                          *)
(***************************************************************************)
EXTENDS Wire

PublicKeyLen == 2      \* ED25519_PUBLIC_KEY_LEN
SignatureLen == 2      \* ED25519_SIGNATURE_LEN
PointLen == 3          \* P256_POINT_LEN
ScalarLen == 2         \* P256_SCALAR_LEN
MinModulusBits == 6
MaxModulusBits == 10
MaxExponentBytes == 2
Uncompressed == 4      \* the first byte of an uncompressed point

KeyTypes == {"Ed25519", "Rsa", "EcdsaP256"}
TypeName == [Ed25519 |-> <<5>>, Rsa |-> <<6>>, EcdsaP256 |-> <<7>>]
Curve == <<4>>

Schemes == {"Ed25519", "EcdsaP256Sha256", "RsaSha2_512", "RsaSha2_256"}
SchemeName == [Ed25519 |-> <<5>>, EcdsaP256Sha256 |-> <<7>>, RsaSha2_512 |-> <<8>>,
               RsaSha2_256 |-> <<9>>]
KeyTypeOf(scheme) ==
    CASE scheme = "Ed25519" -> "Ed25519"
      [] scheme = "EcdsaP256Sha256" -> "EcdsaP256"
      [] OTHER -> "Rsa"

Ed25519(key)   == [type |-> "Ed25519", key |-> key]
Rsa(e, n)      == [type |-> "Rsa", e |-> e, n |-> n]
EcdsaP256(pt)  == [type |-> "EcdsaP256", point |-> pt]

\* External: VerifyingKey::from_bytes
ValidPoint(key) == key[1] # Radix - 1

----------------------------------------------------------------------------
(* What each key type accepts.                                             *)

Ed25519FromBytes(key) == IF ValidPoint(key) THEN Ok(Ed25519(key)) ELSE Err(<<"InvalidKey">>)

BitLen(m) ==
    IF m = <<>> THEN 0
    ELSE (Len(m) - 1) * 4 + First({k \in 0..4 : m[1] < 2^k})
Even(m) == m # <<>> /\ Last(m) % 2 = 0
LeadingZero(m) == m # <<>> /\ m[1] = 0

RsaFromComponents(e, n) ==
    IF LeadingZero(e) THEN Err(<<"NonCanonicalInteger", "e">>)
    ELSE IF LeadingZero(n) THEN Err(<<"NonCanonicalInteger", "n">>)
    ELSE IF e = <<>> \/ Len(e) > MaxExponentBytes \/ Even(e) \/ (Len(e) = 1 /\ e[1] < 3)
    THEN Err(<<"RsaExponent">>)
    ELSE IF BitLen(n) \notin MinModulusBits..MaxModulusBits \/ Even(n)
    THEN Err(<<"RsaModulus", BitLen(n)>>)
    ELSE Ok(Rsa(e, n))

EcdsaFromPoint(pt) ==
    IF Len(pt) # PointLen \/ pt[1] # Uncompressed THEN Err(<<"PointEncoding">>)
    ELSE Ok(EcdsaP256(pt))

----------------------------------------------------------------------------
(* Blobs.                                                                  *)

Start == Read(NoFields, 0)

\* Redundant leading zeros are accepted.
FaultyPositive(f, name) ==
    IF ~f.ok THEN f
    ELSE IF StripLeadingZeros(f.value[name]) = <<>> \/ IsNegative(f.value[name])
    THEN Err(<<"NonCanonicalInteger", name>>)
    ELSE [f EXCEPT !.value[name] = StripLeadingZeros(@)]

\* Of a canonical positive integer only the sign byte is removed.
Positive(f, name) ==
    IF ~f.ok THEN f
    ELSE IF f.value[name] = <<>> \/ IsNegative(f.value[name]) \/ ~IsCanonical(f.value[name])
    THEN Err(<<"NonCanonicalInteger", name>>)
    ELSE [f EXCEPT !.value[name] = StripLeadingZeros(@)]

\* The named strings of a blob in their order, to its end; each of the
\* integers among them is checked as it is read.
BlobFields(layout, in) ==
    LET read[k \in 0..Len(layout)] ==
            IF k = 0 THEN Start
            ELSE IF layout[k] \in {"e", "n", "r", "s"}
            THEN Positive(StringField(read[k - 1], layout[k], in), layout[k])
            ELSE StringField(read[k - 1], layout[k], in)
    IN Finish(read[Len(layout)], in)

Ed25519FromBlob(b) ==
    IF ~b.ok THEN b
    ELSE IF Len(b.value.key) # PublicKeyLen
    THEN Err(<<"WrongLength", "key", PublicKeyLen, Len(b.value.key)>>)
    ELSE Ed25519FromBytes(b.value.key)

RsaFromBlob(b) == IF b.ok THEN RsaFromComponents(b.value.e, b.value.n) ELSE b

EcdsaFromBlob(b) ==
    IF ~b.ok THEN b
    ELSE IF b.value.curve # Curve THEN Err(<<"CurveMismatch">>)
    ELSE EcdsaFromPoint(b.value.Q)

\* HostKey::parse: the algorithm name decides who reads the blob again.
KeyOf(start, in) ==
    IF ~start.ok THEN start
    ELSE CASE start.value.algorithm = TypeName.Ed25519 ->
                 Ed25519FromBlob(BlobFields(<<"algorithm", "key">>, in))
           [] start.value.algorithm = TypeName.Rsa ->
                 RsaFromBlob(BlobFields(<<"algorithm", "e", "n">>, in))
           [] start.value.algorithm = TypeName.EcdsaP256 ->
                 EcdsaFromBlob(BlobFields(<<"algorithm", "curve", "Q">>, in))
           [] OTHER -> Err(<<"UnsupportedAlgorithm", start.value.algorithm>>)
ParseKey(in) == KeyOf(StringField(Start, "algorithm", in), in)

\* to_blob: the buffer is sized exactly.
ToBlob(key) ==
    LET S(w, bytes) == WriteString(w, bytes, MaxU32)
        name == S(Written(<<>>), TypeName[key.type])
    IN (CASE key.type = "Ed25519"   -> S(name, key.key)
          [] key.type = "Rsa"       -> S(S(name, MpintPositive(key.e)), MpintPositive(key.n))
          [] key.type = "EcdsaP256" -> S(S(name, Curve), key.point)).bytes

----------------------------------------------------------------------------
(* Signatures.                                                             *)

DecodeSignature(in) == BlobFields(<<"algorithm", "signature">>, in)

Padded(m, n) == [i \in 1..n |-> IF i <= n - Len(m) THEN 0 ELSE m[i - (n - Len(m))]]

FixedSignature(in) ==
    LET rs == BlobFields(<<"r", "s">>, in)
    IN IF ~rs.ok THEN rs
       ELSE IF Len(rs.value.r) > ScalarLen THEN Err(<<"ScalarTooLong", "r">>)
       ELSE IF Len(rs.value.s) > ScalarLen THEN Err(<<"ScalarTooLong", "s">>)
       ELSE Ok(Padded(rs.value.r, ScalarLen) \o Padded(rs.value.s, ScalarLen))

\* The signature as it reaches the cryptography.
Prepare(key, sig) ==
    CASE key.type = "Ed25519" ->
            IF Len(sig) = SignatureLen THEN Ok(sig)
            ELSE Err(<<"WrongLength", "signature", SignatureLen, Len(sig)>>)
      [] key.type = "Rsa" ->
            IF Len(sig) \in 1..Len(key.n) THEN Ok(Padded(sig, Len(key.n)))
            ELSE Err(<<"WrongLength", "signature", Len(key.n), Len(sig)>>)
      [] key.type = "EcdsaP256" -> FixedSignature(sig)

\* genuine is the one signature the cryptography accepts.
Checked(prepared, genuine) ==
    IF ~prepared.ok THEN Err(<<"MalformedSignature", prepared.error>>)
    ELSE IF prepared.value = genuine THEN Ok("verified") ELSE Err(<<"Invalid">>)

\* verify of a decoded signature blob.  The provider supports a set of
\* schemes.
Verify(key, scheme, sig, provider, genuine) ==
    IF sig.algorithm # SchemeName[scheme]
    THEN Err(<<"UnexpectedSignatureAlgorithm", sig.algorithm>>)
    ELSE IF KeyTypeOf(scheme) # key.type THEN Err(<<"AlgorithmMismatch", sig.algorithm>>)
    ELSE IF key.type # "Ed25519" /\ scheme \notin provider
    THEN Err(<<"ProviderUnavailable", scheme>>)
    ELSE Checked(Prepare(key, sig.signature), genuine)

----------------------------------------------------------------------------
(* SubjectPublicKeyInfo: a strict reader of DER.                           *)

TagInteger == 2
TagBitString == 3
TagNull == 5
TagOid == 6
TagSequence == 12
OidEd25519 == <<1>>
OidRsa == <<2>>
OidEc == <<3>>
OidPrime256v1 == <<4>>

LongForm(n) == Radix \div 2 + n

\* Der::read: one element with its tag, in the shortest form of its length.
DerRead(rest, tag, field) ==
    LET first == rest[2]
        long == IF first \in {LongForm(1), LongForm(2)} THEN first - LongForm(0) ELSE 0
        len == IF long = 0 THEN first ELSE FromBe(SubSeq(rest, 3, 2 + long))
        after == SubSeq(rest, 3 + long, Len(rest))
    IN IF rest = <<>> THEN Err(<<"Truncated", field>>)
       ELSE IF rest[1] # tag THEN Err(<<"UnexpectedTag", field, tag, rest[1]>>)
       ELSE IF Len(rest) = 1 THEN Err(<<"Truncated", field>>)
       ELSE IF HighBit(first) /\ long = 0 THEN Err(<<"NonCanonicalLength", field>>)
       ELSE IF Len(rest) < 2 + long THEN Err(<<"Truncated", field>>)
       ELSE IF \/ long = 1 /\ ~HighBit(len)
               \/ long = 2 /\ len < Radix
       THEN Err(<<"NonCanonicalLength", field>>)
       ELSE IF Len(after) < len THEN Err(<<"Truncated", field>>)
       ELSE [ok |-> TRUE, content |-> SubSeq(after, 1, len),
             rest |-> SubSeq(after, len + 1, Len(after))]

\* A read that must consume everything.
DerOnly(in, tag, field) ==
    LET d == DerRead(in, tag, field)
    IN IF d.ok /\ d.rest # <<>> THEN Err(<<"TrailingBytes", field, Len(d.rest)>>) ELSE d

IsDerPositive(v) ==
    /\ v # <<>> /\ v # <<0>> /\ ~HighBit(v[1])
    /\ Len(v) > 1 /\ v[1] = 0 => HighBit(v[2])

DerPositive(d, field) ==
    IF ~d.ok THEN d
    ELSE IF ~IsDerPositive(d.content) THEN Err(<<"NonCanonicalInteger", field>>)
    ELSE [d EXCEPT !.content = IF @[1] = 0 THEN Tail(@) ELSE @]
DerPositiveInteger(in, field) == DerPositive(DerRead(in, TagInteger, field), field)

\* The error of a refused key, as an SpkiError.
RsaSpkiError(k) ==
    IF k.ok \/ k.error[1] = "RsaModulus" THEN k ELSE Err(<<"RsaExponent">>)

RsaFromSpki(key) ==
    LET seq == DerOnly(key, TagSequence, "RSAPublicKey")
        n == DerPositiveInteger(seq.content, "modulus")
        e == DerPositiveInteger(n.rest, "publicExponent")
    IN IF ~seq.ok THEN seq
       ELSE IF ~n.ok THEN n
       ELSE IF ~e.ok THEN e
       ELSE IF e.rest # <<>> THEN Err(<<"TrailingBytes", "RSAPublicKey body", Len(e.rest)>>)
       ELSE RsaSpkiError(RsaFromComponents(e.content, n.content))

\* The key of a BIT STRING, by algorithm: the parameters are checked first,
\* then the unused bits, then the key.
KeyFromSpki(oid, params, unused, key) ==
    LET null == DerRead(params, TagNull, "RSA parameters")
        curve == DerRead(params, TagOid, "EC parameters")
        bits == Err(<<"NonZeroUnusedBits", unused>>)
    IN CASE oid = OidEd25519 ->
              IF params # <<>> THEN Err(<<"ParametersPresent">>)
              ELSE IF unused # 0 THEN bits
              ELSE IF Len(key) # PublicKeyLen THEN Err(<<"WrongKeyLength", Len(key)>>)
              ELSE Ed25519FromBytes(key)
         [] oid = OidRsa ->
              IF ~null.ok \/ null.content # <<>> \/ null.rest # <<>>
              THEN Err(<<"ParametersInvalid">>)
              ELSE IF unused # 0 THEN bits
              ELSE RsaFromSpki(key)
         [] oid = OidEc ->
              IF ~curve.ok \/ curve.rest # <<>> THEN Err(<<"ParametersInvalid">>)
              ELSE IF curve.content # OidPrime256v1 THEN Err(<<"UnsupportedCurve">>)
              ELSE IF unused # 0 THEN bits
              ELSE EcdsaFromPoint(key)
         [] OTHER -> Err(<<"UnsupportedAlgorithm">>)

\* host_key_from_spki
HostKeyFromSpki(spki) ==
    LET body == DerOnly(spki, TagSequence, "SubjectPublicKeyInfo")
        alg == DerRead(body.content, TagSequence, "AlgorithmIdentifier")
        oid == DerRead(alg.content, TagOid, "algorithm OID")
        bits == DerRead(alg.rest, TagBitString, "subjectPublicKey")
    IN IF ~body.ok THEN body
       ELSE IF ~alg.ok THEN alg
       ELSE IF ~oid.ok THEN oid
       ELSE IF ~bits.ok THEN bits
       ELSE IF bits.rest # <<>>
       THEN Err(<<"TrailingBytes", "SubjectPublicKeyInfo body", Len(bits.rest)>>)
       ELSE IF bits.content = <<>> THEN Err(<<"Truncated", "subjectPublicKey">>)
       ELSE KeyFromSpki(oid.content, oid.rest, bits.content[1], Tail(bits.content))

\* The bytes of a length, by the shortest form.
DerLength ==
    [n \in 0..MaxU32 |->
        CASE n < Radix \div 2 -> <<n>>
          [] n >= Radix \div 2 /\ n < Radix -> <<LongForm(1), n>>
          [] n >= Radix -> <<LongForm(2)>> \o ToBe(n)]

Tlv(tag, content) == <<tag>> \o DerLength[Len(content)] \o content

DerInteger(m) == Tlv(TagInteger, IF IsNegative(m) THEN <<0>> \o m ELSE m)

\* The constants ED25519_SPKI_PREFIX and P256_SPKI_PREFIX
Ed25519SpkiPrefix ==
    <<TagSequence, LongForm(1), 10, TagSequence, 3, TagOid, 1, 1, TagBitString, 3, 0>>
P256SpkiPrefix ==
    <<TagSequence, LongForm(1), 14, TagSequence, 6, TagOid, 1, 3, TagOid, 1, 4,
      TagBitString, 4, 0>>

HostKeySpki(key) ==
    CASE key.type = "Ed25519"   -> Ed25519SpkiPrefix \o key.key
      [] key.type = "EcdsaP256" -> P256SpkiPrefix \o key.point
      [] key.type = "Rsa" ->
            Tlv(TagSequence,
                Tlv(TagSequence, Tlv(TagOid, OidRsa) \o Tlv(TagNull, <<>>))
                \o Tlv(TagBitString, <<0>> \o Tlv(TagSequence, DerInteger(key.n)
                                                               \o DerInteger(key.e))))
=============================================================================
