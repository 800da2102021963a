------------------------------ MODULE ProbeMC ------------------------------
(***************************************************************************)
(* What servers send in the probe's run: up to three lines before a last   *)
(* one, some at the limits and some beyond, and after an identification    *)
(* packets of every kind.                                                  *)
(***************************************************************************)
EXTENDS Probe

P(packetLength, paddingLength, message, wellFormed) ==
    [packetLength |-> packetLength, paddingLength |-> paddingLength,
     message |-> message, wellFormed |-> wellFormed, from |-> 0]
L(class, tell, len) == [class |-> class, tell |-> tell, len |-> len, from |-> 0]

KexInit == P(68, 4, "KexInit", TRUE)
Ignore  == P(12, 6, "Ignore", TRUE)
Debug   == P(20, 9, "Debug", TRUE)
Lasts   ==
    { KexInit, P(20, 4, "Disconnect", TRUE), P(12, 6, "Unimplemented", FALSE),
      P(20, 6, "KexMethod", TRUE), P(12, 6, "Other", TRUE), P(12, 11, "Other", FALSE),
      P(69, 4, "KexInit", TRUE), P(76, 4, "KexInit", TRUE), P(4, 4, "Other", TRUE),
      P(12, 3, "Other", TRUE) }

\* Around a line limit of 90 and a total of 94; "SSH" and LF is four bytes of
\* text that four bytes tell from an identification.
Texts == { L("Text", 4, 4), L("Text", 1, 5), L("Text", 2, 90), L("Text", 1, 91) }
LastLines == { L("Ssh2", 4, 12), L("Ssh2", 4, 13), L("OtherVersion", 4, 10),
               L("Invalid", 4, 5) }
Ident == L("Ssh2", 4, 10)

PlacedLines(ls) ==
    LET from[i \in 1..Len(ls)] == IF i = 1 THEN 0 ELSE from[i-1] + ls[i-1].len
    IN [i \in 1..Len(ls) |-> [ls[i] EXCEPT !.from = from[i]]]
PlacedPackets(ps) ==
    LET from[i \in 1..Len(ps)] == IF i = 1 THEN 0 ELSE from[i-1] + PacketLen(ps[i-1])
    IN [i \in 1..Len(ps) |-> [ps[i] EXCEPT !.from = from[i]]]
Exchange(ls, ps) ==
    LET lines == PlacedLines(ls)
        placed == PlacedPackets(ps)
        n == Len(ps)
        linesLen == lines[Len(ls)].from + lines[Len(ls)].len
    IN [lines |-> lines, packets |-> placed, linesLen |-> linesLen,
        size |-> linesLen + IF n = 0 THEN 0 ELSE placed[n].from + PacketLen(placed[n])]

UpTo(n, S) == UNION {[1..k -> S] : k \in 0..n}
\* A long line comes last but for the identification.
Preludes == UpTo(2, {L("Text", 1, 1), L("Text", 4, 4)}) \union
            {<<t>> : t \in Texts} \union {<<s, t>> : s \in {L("Text", 4, 4), L("Text", 1, 5)}, t \in Texts} \union
            {<<L("Text", 1, 1), L("Text", 4, 4), L("Text", 1, 1)>>}
Bodies == {<<last>> : last \in Lasts} \union {<<Ignore, last>> : last \in Lasts} \union
          {<<Debug, KexInit, Ignore>>, <<Ignore, KexInit, Ignore>>,
           <<Ignore, Ignore, KexInit>>, <<Ignore, Ignore, Ignore, Ignore>>,
           <<Debug, Ignore, Debug, KexInit>>}

MCExchanges ==
    { Exchange(p, <<>>) : p \in Preludes \ {<<>>} } \union
    { Exchange(Append(p, Ident), <<Ignore>>) : p \in Preludes } \union
    { Exchange(Append(p, l), <<>>) : p \in UpTo(1, Texts), l \in LastLines } \union
    { Exchange(Append(p, Ident), b) : p \in UpTo(1, {L("Text", 4, 4)}), b \in Bodies }
=============================================================================
