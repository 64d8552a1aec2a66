----------------------------- MODULE IcmpReply -----------------------------
(***************************************************************************)
(* The way back: an ICMP message quotes the head of a probe, the engine    *)
(* finds the probe by it (deconstruct_unix.c, probe.c) and prints a reply, *)
(* the client parses the reply (cmdpipe.c) and accounts for it at the hop  *)
(* (net.c).                                                                *)
(*                                                                         *)
(* A message is a record: its kind, the router it is from, the time it     *)
(* took, how many bytes of the probe's own header it quotes, and the       *)
(* extension objects behind the quotation.                                 *)
(***************************************************************************)
EXTENDS Integers, Sequences, SequencesExt

CONSTANTS
    MaxMplsLabels,   \* labels the engine decodes
    MaxLabels        \* labels the client remembers

ASSUME LabelAssumption == MaxMplsLabels \in Nat /\ MaxLabels \in Nat

MinOf(a, b) == IF a < b THEN a ELSE b
MaxOf(a, b) == IF a > b THEN a ELSE b

-----------------------------------------------------------------------------
(* Which probe it answers.  `seqs' are the sequence numbers of the probes the  *)
(* engine waits for.                                                           *)

(* The fields of the quoted header that may hold the number, in the order they *)
(* are looked at.  Faulty: the checksum is not.                                *)
UdpFields_PortsOnly(header) == <<header.dstport, header.srcport>>
UdpFields(header) == <<header.dstport, header.srcport, header.checksum>>

Fields(protocol, header, self) ==
    CASE protocol = "udp"  -> UdpFields(header)
      [] protocol = "icmp" -> IF header.id = self THEN <<header.sequence>> ELSE <<>>
      [] OTHER             -> <<header.srcport>>

(* Eight bytes of the header, whatever the protocol; but for SCTP over IPv6    *)
(* the room is compared with that of an IPv4 header, and so always enough.     *)
EnoughQuoted(message, packet) ==
    message.quoted >= 8 \/ (packet.protocol = "sctp" /\ packet.version = 6)

(* The first field that holds the number of a probe decides.                   *)
FoundProbe(seqs, message, packet, self) ==
    LET fields == Fields(packet.protocol, packet.header, self)
        First(i) == fields[i] \in seqs /\ \A j \in 1..i - 1 : fields[j] \notin seqs
    IN  IF message.kind # "echo" /\ ~EnoughQuoted(message, packet) THEN {}
        ELSE {fields[i] : i \in {k \in DOMAIN fields : First(k)}}

(* The result which is printed.  The error queue of an unprivileged socket has  *)
(* errors only, and each is taken for an expired probe.                         *)
Result(raw, message) ==
    IF message.kind = "echo" THEN "reply"
    ELSE IF ~raw THEN "ttl-expired"
    ELSE CASE message.kind = "expired" -> "ttl-expired"
           [] message.kind = "port"    -> "reply"
           [] message.kind = "unreach" -> "no-route"

-----------------------------------------------------------------------------
(* MPLS labels: an entry is three bytes and a time to live, an object has a     *)
(* class and a length in bytes.                                                 *)

Byte0(l) == l.label \div 4096
Byte1(l) == (l.label \div 16) % 256
Byte2(l) == (l.label % 16) * 16 + l.tc * 2 + l.s
Entry(l) == <<Byte0(l), Byte1(l), Byte2(l), l.ttl>>

(* Faulty: the class bits are left in place.                                    *)
TrafficClass_Unshifted(b) == ((b \div 2) % 8) * 2
TrafficClass(b) == (b \div 2) % 8

LabelOf(e) ==
    [label |-> e[1] * 4096 + e[2] * 16 + e[3] \div 16,
     tc |-> TrafficClass(e[3]), s |-> e[3] % 2, ttl |-> e[4]]

ObjectHeader == 4

(* The chain is walked to its first MPLS object, and given up at an object that  *)
(* is too short to be one or reaches beyond the message.                         *)
Before(chain, i) == FoldLeft(LAMBDA n, o : n + o.len, 0, SubSeq(chain, 1, i))
WellFormed(chain, size, i) == chain[i].len >= ObjectHeader /\ Before(chain, i) <= size
FirstMpls(chain, size) ==
    {i \in DOMAIN chain : /\ chain[i].class = 1
                          /\ \A j \in 1..i - 1 : chain[j].class # 1
                          /\ \A j \in 1..i : WellFormed(chain, size, j)}

DecodeObject(object) ==
    LET n == MinOf(MaxMplsLabels, (object.len - ObjectHeader) \div 4)
    IN  [i \in 1..n |-> LabelOf(object.entries[i])]

(* They are looked for in whatever is received, an echo too; but the errors that *)
(* an unprivileged engine takes from the error queue have no extensions.         *)
DecodeLabels(raw, message) ==
    LET found == FirstMpls(message.chain, message.size)
    IN  IF (~raw /\ message.kind # "echo") \/ found = {} THEN <<>>
        ELSE DecodeObject(message.chain[CHOOSE i \in found : TRUE])

(* As text: the fields of all labels, separated by commas.                       *)
LabelFields(l) == <<l.label, l.tc, l.s, l.ttl>>
MplsText(labels) ==
    [k \in 1..4 * Len(labels) |-> LabelFields(labels[(k + 3) \div 4])[1 + ((k - 1) % 4)]]

(* ...and back, four fields a label.  What is left over makes none.              *)
ParseMpls(text) ==
    [i \in 1..MinOf(MaxLabels, Len(text) \div 4) |->
        [label |-> text[4 * i - 3], tc |-> text[4 * i - 2], s |-> text[4 * i - 1],
         ttl |-> text[4 * i]]]

-----------------------------------------------------------------------------
(* The reply line, and what the client understands of it.                        *)

Reply(token, raw, message, af) ==
    [token |-> token, name |-> Result(raw, message),
     args |-> << <<IF af = 6 THEN "ip-6" ELSE "ip-4", message.from>>,
                 <<"round-trip-time", message.rtt>> >>
              \o IF DecodeLabels(raw, message) = <<>> THEN <<>>
                 ELSE << <<"mpls", MplsText(DecodeLabels(raw, message))>> >>]

Failed(reply) == reply.name \in {"no-route", "network-down"}

ReplyArgument(reply, name, default) ==
    LET at == {i \in DOMAIN reply.args : reply.args[i][1] = name}
    IN  IF at = {} THEN default ELSE reply.args[CHOOSE i \in at : TRUE][2]

-----------------------------------------------------------------------------
(* The hop: its first address with the labels that came with it, an error, and   *)
(* statistics in microseconds.  All are whole numbers; a mean is truncated.      *)

NewHop == [addr |-> "none", mpls |-> <<>>, err |-> FALSE, returned |-> 0,
           last |-> 0, best |-> 0, worst |-> 0, avg |-> 0, ssd |-> 0,
           jitter |-> 0, jworst |-> 0, javg |-> 0, jinta |-> 0]

Away(n, d) == IF n >= 0 THEN n \div d ELSE -((-n) \div d)   \* C's division
Abs(n) == IF n < 0 THEN -n ELSE n

(* The first answer has no jitter.  Faulty: it is taken against a time of zero.   *)
Jitter_FromZero(hop, t) == Abs(t - hop.last)
Jitter(hop, t) == IF hop.returned < 1 THEN 0 ELSE Abs(t - hop.last)

(* avg + (t - avg) / n in floating point, truncated as it is assigned.            *)
Mean(avg, t, n) == Away(avg * (n - 1) + t, n)

Returned(hop, reply) ==
    LET t == ReplyArgument(reply, "round-trip-time", 0)
        n == hop.returned + 1
        first == hop.returned < 1
        oldavg == IF first THEN 0 ELSE hop.avg
        avg == Mean(oldavg, t, n)
        jitter == Jitter(hop, t)
        new == hop.addr = "none"
    IN  [addr |-> IF new THEN reply.args[1][2] ELSE hop.addr,
         mpls |-> IF new THEN ParseMpls(ReplyArgument(reply, "mpls", <<>>)) ELSE hop.mpls,
         err |-> Failed(reply),
         returned |-> n, last |-> t,
         best |-> IF first THEN t ELSE MinOf(hop.best, t),
         worst |-> IF first THEN t ELSE MaxOf(hop.worst, t),
         avg |-> avg,
         ssd |-> (IF first THEN 0 ELSE hop.ssd) + (t - oldavg) * (t - avg),
         jitter |-> jitter,
         jworst |-> IF first THEN jitter ELSE MaxOf(hop.jworst, jitter),
         javg |-> hop.javg + Away(jitter - hop.javg, n),
         jinta |-> LET j == IF first THEN 0 ELSE hop.jinta
                   IN  j + jitter - (j + 8) \div 16]
=============================================================================
