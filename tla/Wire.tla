-------------------------------- MODULE Wire --------------------------------
(***************************************************************************)
(* The codecs of tatami_ssh_wire: the reader and writer of the primitive   *)
(* types (primitives.rs), name lists (namelist.rs), the identification     *)
(* string (ident.rs) and the message payloads (transport.rs, channel.rs,   *)
(* kex.rs, kexinit.rs, ext_info.rs).  They keep no state: this module      *)
(* defines what each call returns, errors included.                        *)
(*                                                                         *)
(* A byte is a number below Radix = 16, a uint32 is two bytes wide, and    *)
(* the bytes the grammars tell apart have fixed values, given below.       *)
(* A message is a function from the names of its fields to their values; a *)
(* result is [ok |-> TRUE, value, ...] or [ok |-> FALSE, error].           *)
(***************************************************************************)
EXTENDS Integers, SequencesExt, FiniteSets

CONSTANTS
    CookieLen,      \* COOKIE_LEN
    MaxExtensions   \* max_extensions, as the caller of validate chooses it

ASSUME WireConfig == CookieLen \in Nat /\ MaxExtensions \in Nat

Radix == 16
Byte == 0..(Radix - 1)
HighBit(b) == b >= Radix \div 2
U32Len == 2
MaxU32 == Radix * Radix - 1
\* of one byte or two
FromBe(bytes) == IF Len(bytes) = 1 THEN bytes[1] ELSE bytes[1] * Radix + bytes[2]
ToBe(v) == <<v \div Radix, v % Radix>>

\* The bytes a grammar names, then two more printable ones; those with the
\* high bit set are not US-ASCII.
NUL == 0
CRLF == 1
Space == 2
Comma == 3
Dash == 4
LetterS == 5
IsNameByte(b) == b \in {Dash, LetterS, 6, 7}
IsTokenByte(b) == b \in {Comma, LetterS, 6, 7}
IsForbiddenByte(b) == b \in {NUL, CRLF}

Ok(value) == [ok |-> TRUE, value |-> value]
Err(error) == [ok |-> FALSE, error |-> error]

Positions(s, b) == {i \in DOMAIN s : s[i] = b}
First(S) == CHOOSE i \in S : \A j \in S : i <= j

----------------------------------------------------------------------------
(* Name lists.                                                             *)

IsValidName(name) == name # <<>> /\ \A i \in DOMAIN name : IsNameByte(name[i])

\* A comma at the end of the list is not noticed.
FaultyEmptyNameAt(body) ==
    {i \in Positions(body, Comma) : i = 1 \/ body[i - 1] = Comma}

\* An offset at which a name is missing: a comma with no name before it, or
\* the end of a list that ends in a comma.
EmptyNameAt(body) ==
    {i \in Positions(body, Comma) : i = 1 \/ body[i - 1] = Comma}
    \cup {i \in {Len(body) + 1} : body[i - 1] = Comma}
NonAsciiAt(body) == {i \in DOMAIN body : ~IsNameByte(body[i]) /\ body[i] # Comma}

\* NameList::parse: the first offence in the order of the bytes.
ParseNameList(body) ==
    IF body = <<>> THEN Ok(body)
    ELSE LET bad == EmptyNameAt(body) \cup NonAsciiAt(body)
         IN IF bad = {} THEN Ok(body)
            ELSE Err(<<IF First(bad) \in NonAsciiAt(body) THEN "NameListNonAscii"
                       ELSE "NameListEmptyName", First(bad) - 1>>)

\* The names of a parsed list, as Names::next cuts them.
Names(body) ==
    IF body = <<>> THEN <<>>
    ELSE LET ends == Positions(body, Comma) \cup {Len(body) + 1}
             Before(i) == {j \in ends : j < i}
             Name(i) == SubSeq(body, 1 + Max({0} \cup Before(i)), i - 1)
         IN [k \in 1..Cardinality(ends) |->
                Name(CHOOSE i \in ends : Cardinality(Before(i)) = k - 1)]

----------------------------------------------------------------------------
(* Reader.  A read starts at an offset and returns the offset after it; on *)
(* failure the cursor stays where it was.                                  *)

Read(value, pos) == [ok |-> TRUE, value |-> value, pos |-> pos]

ReadBytes(in, pos, n) ==
    IF n > Len(in) - pos
    THEN Err(<<"Truncated", n, Len(in) - pos>>)
    ELSE Read(SubSeq(in, pos + 1, pos + n), pos + n)

ReadU8(in, pos) ==
    LET b == ReadBytes(in, pos, 1) IN IF b.ok THEN Read(b.value[1], b.pos) ELSE b
ReadBool(in, pos) ==
    LET b == ReadU8(in, pos) IN IF b.ok THEN Read(b.value # 0, b.pos) ELSE b
ReadU32(in, pos) ==
    LET b == ReadBytes(in, pos, U32Len) IN IF b.ok THEN Read(FromBe(b.value), b.pos) ELSE b

\* What follows the length prefix len.
StringBody(len, in) ==
    IF ~len.ok THEN len
    ELSE IF len.value > Len(in) - len.pos
    THEN Err(<<"LengthOverflow", len.value, Len(in) - len.pos>>)
    ELSE Read(SubSeq(in, len.pos + 1, len.pos + len.value), len.pos + len.value)
ReadString(in, pos) == StringBody(ReadU32(in, pos), in)

NameListIn(s) ==
    IF ~s.ok THEN s
    ELSE IF ParseNameList(s.value).ok THEN s
    ELSE Err(<<"InvalidEncoding", ParseNameList(s.value).error>>)
ReadNameList(in, pos) == NameListIn(ReadString(in, pos))

ReadField(type, in, pos) ==
    CASE type = "u32"       -> ReadU32(in, pos)
      [] type = "bool"      -> ReadBool(in, pos)
      [] type = "string"    -> ReadString(in, pos)
      [] type = "name_list" -> ReadNameList(in, pos)
      [] type = "cookie"    -> ReadBytes(in, pos, CookieLen)
      [] type = "rest"      -> Read(SubSeq(in, pos + 1, Len(in)), Len(in))

----------------------------------------------------------------------------
(* Writer: w is what was written, and every write first reserves.          *)

Written(bytes) == [ok |-> TRUE, bytes |-> bytes]

Write(w, bytes, cap) ==
    IF ~w.ok THEN w
    ELSE IF Len(bytes) > cap - Len(w.bytes)
    THEN Err(<<"InsufficientCapacity", Len(bytes), cap - Len(w.bytes)>>)
    ELSE Written(w.bytes \o bytes)

WriteString(w, bytes, cap) ==
    IF w.ok /\ Len(bytes) > MaxU32 THEN Err(<<"LengthOverflow", Len(bytes)>>)
    ELSE Write(w, ToBe(Len(bytes)) \o bytes, cap)

\* The names are checked, then joined again.
WriteNameList(w, names, cap) ==
    LET bad == {i \in DOMAIN names : ~IsValidName(names[i])}
        joined[k \in 0..Len(names)] ==
            CASE k = 0 -> <<>>
              [] k = 1 -> names[1]
              [] OTHER -> joined[k - 1] \o <<Comma>> \o names[k]
    IN IF w.ok /\ bad # {} THEN Err(<<"InvalidName", First(bad) - 1>>)
       ELSE WriteString(w, joined[Len(names)], cap)

WriteField(type, w, v, cap) ==
    CASE type = "u32"       -> Write(w, ToBe(v), cap)
      [] type = "bool"      -> Write(w, IF v THEN <<1>> ELSE <<0>>, cap)
      [] type = "string"    -> WriteString(w, v, cap)
      [] type = "name_list" -> WriteNameList(w, Names(v), cap)
      [] type \in {"cookie", "rest"} -> Write(w, v, cap)

----------------------------------------------------------------------------
(* Mpint.                                                                  *)

IsNegative(m) == m # <<>> /\ HighBit(m[1])

StripLeadingZeros(m) ==
    LET nonzero == {i \in DOMAIN m : m[i] # 0}
    IN IF nonzero = {} THEN <<>> ELSE SubSeq(m, First(nonzero), Len(m))

IsCanonical(m) ==
    CASE m = <<>> \/ Len(m) = 1       -> m # <<0>>
      [] Len(m) > 1 /\ m[1] = 0         -> HighBit(m[2])
      [] Len(m) > 1 /\ m[1] = Radix - 1 -> ~HighBit(m[2])
      [] OTHER -> TRUE

\* The body write_mpint_positive writes.
MpintPositive(magnitude) ==
    LET m == StripLeadingZeros(magnitude)
    IN IF IsNegative(m) THEN <<0>> \o m ELSE m

----------------------------------------------------------------------------
(* Whole messages.  A layout lists the fields in the order in which they   *)
(* are read, or written.                                                   *)

\* The message numbers of msg.rs, renumbered to fit a byte.
Number == [Disconnect |-> 1, Ignore |-> 2, Unimplemented |-> 3, Debug |-> 4,
           ServiceRequest |-> 5, ServiceAccept |-> 6, ExtInfo |-> 7, KexInit |-> 8,
           NewKeys |-> 9, KexEcdhInit |-> 10, KexEcdhReply |-> 11, ChannelOpen |-> 12,
           ChannelOpenConfirmation |-> 13, ChannelOpenFailure |-> 14]
Kinds == DOMAIN Number \ {"ExtInfo"}

NameLists == {"kex", "host_key", "enc_cs", "enc_sc", "mac_cs", "mac_sc",
              "comp_cs", "comp_sc", "lang_cs", "lang_sc"}

TypeOf(field) ==
    CASE field \in NameLists -> "name_list"
      [] field = "cookie" -> "cookie"
      [] field = "type_specific" -> "rest"
      [] field \in {"always_display", "first_kex_packet_follows"} -> "bool"
      [] field \in {"reason_code", "sequence_number", "sender_channel", "recipient_channel",
                    "initial_window_size", "maximum_packet_size", "reserved"} -> "u32"
      [] OTHER -> "string"

TransportReads ==
    [Disconnect     |-> <<"reason_code", "description", "language_tag">>,
     Ignore         |-> <<"data">>,
     Unimplemented  |-> <<"sequence_number">>,
     Debug          |-> <<"always_display", "message", "language_tag">>,
     ServiceRequest |-> <<"service_name">>,
     ServiceAccept  |-> <<"service_name">>]

TransportWrites ==
    [Disconnect     |-> <<"reason_code", "description", "language_tag">>,
     Ignore         |-> <<"data">>,
     Unimplemented  |-> <<"sequence_number">>,
     Debug          |-> <<"always_display", "message", "language_tag">>,
     ServiceRequest |-> <<"service_name">>,
     ServiceAccept  |-> <<"service_name">>]

ChannelReads ==
    [ChannelOpen |->
        <<"channel_type", "sender_channel", "initial_window_size",
          "maximum_packet_size", "type_specific">>,
     ChannelOpenConfirmation |->
        <<"recipient_channel", "sender_channel", "initial_window_size",
          "maximum_packet_size", "type_specific">>,
     ChannelOpenFailure |->
        <<"recipient_channel", "reason_code", "description", "language_tag">>]

ChannelWrites ==
    [ChannelOpen |->
        <<"channel_type", "sender_channel", "initial_window_size",
          "maximum_packet_size", "type_specific">>,
     ChannelOpenConfirmation |->
        <<"recipient_channel", "sender_channel", "initial_window_size",
          "maximum_packet_size", "type_specific">>,
     ChannelOpenFailure |->
        <<"recipient_channel", "reason_code", "description", "language_tag">>]

KexReads ==
    [KexEcdhInit  |-> <<"client_ephemeral">>,
     KexEcdhReply |-> <<"host_key_blob", "server_ephemeral", "signature_blob">>,
     NewKeys      |-> <<>>]

KexWrites ==
    [KexEcdhInit  |-> <<"client_ephemeral">>,
     KexEcdhReply |-> <<"host_key_blob", "server_ephemeral", "signature_blob">>,
     NewKeys      |-> <<>>]

KexInitReads ==
    [KexInit |-> <<"cookie", "kex", "host_key", "enc_cs", "enc_sc", "mac_cs", "mac_sc",
                   "comp_cs", "comp_sc", "lang_cs", "lang_sc",
                   "first_kex_packet_follows", "reserved">>]

\* name_lists, between the cookie and the flag
KexInitWrites ==
    [KexInit |-> <<"cookie", "kex", "host_key", "enc_cs", "enc_sc", "mac_cs", "mac_sc",
                   "comp_cs", "comp_sc", "lang_cs", "lang_sc",
                   "first_kex_packet_follows", "reserved">>]

Reads == TransportReads @@ ChannelReads @@ KexReads @@ KexInitReads
Writes == TransportWrites @@ ChannelWrites @@ KexWrites @@ KexInitWrites

NoFields == <<>>

ExpectMessage(kind, in) ==
    IF in = <<>> THEN Err(<<"Empty">>)
    ELSE IF in[1] # Number[kind] THEN Err(<<"UnexpectedMessage", Number[kind], in[1]>>)
    ELSE Read(NoFields, 1)

\* One field, with its name and offset attached to an error.
Took(d, name, f) ==
    IF f.ok THEN Read(d.value @@ (name :> f.value), f.pos)
    ELSE Err(<<"Field", name, d.pos, f.error>>)

Field(d, name, in) ==
    IF d.ok THEN Took(d, name, ReadField(TypeOf(name), in, d.pos)) ELSE d
StringField(d, name, in) ==
    IF d.ok THEN Took(d, name, ReadString(in, d.pos)) ELSE d

Finish(d, in) ==
    IF ~d.ok THEN d
    ELSE IF d.pos = Len(in) THEN Ok(d.value)
    ELSE Err(<<"TrailingBytes", Len(in) - d.pos>>)

Decode(kind, in) ==
    LET fields[k \in 0..Len(Reads[kind])] ==
            IF k = 0 THEN ExpectMessage(kind, in)
            ELSE Field(fields[k - 1], Reads[kind][k], in)
    IN Finish(fields[Len(Reads[kind])], in)

Encode(kind, msg, cap) ==
    LET fields[k \in 0..Len(Writes[kind])] ==
            IF k = 0 THEN Write(Written(<<>>), <<Number[kind]>>, cap)
            ELSE LET name == Writes[kind][k]
                 IN WriteField(TypeOf(name), fields[k - 1], msg[name], cap)
    IN fields[Len(Writes[kind])]

----------------------------------------------------------------------------
(* EXT_INFO: a message of its own, with a count that the peer chooses.     *)

MinPairLen == 2 * U32Len

ReadPair(d, in) ==
    IF ~d.ok THEN d
    ELSE LET p == StringField(StringField(Read(NoFields, d.pos), "name", in), "value", in)
         IN IF p.ok THEN Read(Append(d.value, p.value), p.pos) ELSE p

\* ExtInfo::decode and to_owned: the count must fit what is left and the
\* caller's limit, and exactly that many pairs must be there.
DecodeExtInfo(in) ==
    LET start == ExpectMessage("ExtInfo", in)
        count == IF start.ok THEN ReadU32(in, start.pos) ELSE start
        left == Len(in) - count.pos
        pairs[k \in 0..count.value] ==
            IF k = 0 THEN Read(<<>>, count.pos)
            ELSE LET d == pairs[k - 1]
                 IN IF d.ok /\ d.pos = Len(in)
                    THEN Err(<<"CountMismatch", count.value, k - 1>>)
                    ELSE ReadPair(d, in)
    IN IF ~start.ok THEN start
       ELSE IF ~count.ok THEN Err(<<"Field", "nr-extensions", start.pos, count.error>>)
       ELSE IF count.value > left \div MinPairLen
       THEN Err(<<"Field", "nr-extensions", start.pos,
                  <<"LengthOverflow", count.value, left>>>>)
       ELSE IF count.value > MaxExtensions
       THEN Err(<<"TooManyExtensions", count.value, MaxExtensions>>)
       ELSE Finish(pairs[count.value], in)

\* server_sig_algs, of an accepted message: the first value of that name.
SigAlgsName == <<LetterS>>
ServerSigAlgs(pairs) ==
    LET found == SelectSeq(pairs, LAMBDA p : p.name = SigAlgsName)
    IN IF found = <<>> THEN "None" ELSE ParseNameList(found[1].value)

EncodeExtInfo(pairs, cap) ==
    LET written[k \in 0..Len(pairs)] ==
            IF k = 0
            THEN Write(Write(Written(<<>>), <<Number.ExtInfo>>, cap), ToBe(Len(pairs)), cap)
            ELSE WriteString(WriteString(written[k - 1], pairs[k].name, cap),
                             pairs[k].value, cap)
    IN written[Len(pairs)]

----------------------------------------------------------------------------
(* The identification string.  Absent comments are <<>>, comments c <<c>>. *)

Prefix == <<LetterS, Dash>>
IsVersionToken(t) == t # <<>> /\ \A i \in DOMAIN t : IsTokenByte(t[i])

ParseIdent(in) ==
    LET rest == SubSeq(in, Len(Prefix) + 1, Len(in))
        dashes == Positions(rest, Dash)
        version == SubSeq(rest, 1, First(dashes) - 1)
        after == SubSeq(rest, First(dashes) + 1, Len(rest))
        spaces == Positions(after, Space)
        software == IF spaces = {} THEN after ELSE SubSeq(after, 1, First(spaces) - 1)
        comments == IF spaces = {} THEN <<>>
                    ELSE <<SubSeq(after, First(spaces) + 1, Len(after))>>
    IN IF \E i \in DOMAIN in : IsForbiddenByte(in[i]) THEN Err("ControlCharacter")
       ELSE IF ~IsPrefix(Prefix, in) THEN Err("MissingPrefix")
       ELSE IF dashes = {} THEN Err("MissingSeparator")
       ELSE IF ~IsVersionToken(version) THEN Err("BadProtocolVersion")
       ELSE IF ~IsVersionToken(software) THEN Err("BadSoftwareVersion")
       ELSE Ok([version |-> version, software |-> software, comments |-> comments])

EncodeIdent(id, cap) ==
    LET tail == IF id.comments = <<>> THEN <<>> ELSE <<Space>> \o id.comments[1]
        all == Prefix \o id.version \o <<Dash>> \o id.software \o tail
    IN IF ~IsVersionToken(id.version) THEN Err(<<"BadProtocolVersion">>)
       ELSE IF ~IsVersionToken(id.software) THEN Err(<<"BadSoftwareVersion">>)
       ELSE IF \E i \in DOMAIN tail : IsForbiddenByte(tail[i]) THEN Err(<<"BadComments">>)
       ELSE Write(Written(<<>>), all, cap)
=============================================================================
