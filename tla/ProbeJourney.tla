---------------------------- MODULE ProbeJourney ----------------------------
(***************************************************************************)
(* The journey of a probe through both programs: the settings of the       *)
(* client become a command, the command a packet, a router quotes the      *)
(* packet, the engine finds the probe, and the reply is accounted for at   *)
(* the hop.  Settings, ProbePacket and IcmpReply say what each stage does; *)
(* this module lets the user change the settings between any two probes.   *)
(* The pipe between the programs is PacketPipe's subject: here it delivers *)
(* at once.                                                                *)
(***************************************************************************)
EXTENDS Settings, ProbePacket, IcmpReply, FiniteSets

CONSTANTS
    Machines,      \* the sockets an engine may be able to open, its SCTP, its rights
    Lines, Keys,   \* what the user may say
    Messages,      \* what a router may answer
    KernelErrors,  \* what the kernel may say to a packet
    MaxKeys,       \* keys
    MaxSent,       \* commands
    MaxFlying,     \* unanswered at a time
    MaxHeard       \* answers

(* A time is negative if the clock is set back while the probe is under way. *)
ASSUME JourneyAssumption ==
    /\ \A m \in Machines : m.sctp \in BOOLEAN /\ m.marks \in BOOLEAN
    /\ \A line \in Lines : line \in Seq(Options)
    /\ Keys \subseteq KeyStrokes
    /\ \A m \in Messages : m.rtt \in Int
    /\ KernelErrors \subseteq PacketErrors

MinSequence == 33000

VARIABLES
    engine, family,    \* the sockets the engine has, the IP version of the target
    settings, keys,    \* ctl, and how many keys have changed it
    phase,             \* "running", "ended"
    why, by,           \* the reply, or the signal, which ended the client; and who
                       \* refused: mtr-packet, or the kernel it asked
    batch,             \* batch_at: the next hop to probe, from 0
    size,              \* packetsize: of this round
    sockets,           \* the engine's shared sockets
    sent,              \* commands so far
    flying,            \* probes, each with its packet and what it was asked to be
    hops,              \* host[]
    heard              \* the answers each hop has had, in order

vars == <<engine, family, settings, keys, phase, why, by, batch, size, sockets, sent, flying,
          hops, heard>>

NumHeard == FoldFunctionOnSet(LAMBDA s, n : Len(s) + n, 0, heard, DOMAIN heard)

(* The options are parsed, the engine starts and is asked for the features     *)
(* they need, and the table is reset.                                          *)
Init ==
    /\ \E m \in Machines : engine = Engine(m.can, m.sctp, m.marks)
    /\ family \in {4, 6}
    /\ \E line \in Lines : ~LineRejected(line) /\ settings = ParseLine(line)
    /\ \A i \in DOMAIN FeaturesAsked(settings, family) :
          Supports(engine, FeaturesAsked(settings, family)[i])
    /\ phase = "running" /\ why = "none" /\ by = "nobody" /\ keys = 0
    /\ batch = settings.fstTTL - 1 /\ size = 0
    /\ sockets = [s \in SharedSockets |-> FreshSocket]
    /\ sent = 0 /\ flying = {}
    /\ hops = [h \in 0..MaxHost - 1 |-> NewHop]
    /\ heard = [h \in 0..MaxHost - 1 |-> <<>>]

(* The user types.                                                             *)
KeyAction ==
    /\ phase = "running" /\ settings.Interactive /\ keys < MaxKeys
    /\ \E k \in Keys : settings' = Typed(settings, k) /\ settings' # settings
    /\ keys' = keys + 1
    /\ UNCHANGED <<engine, family, phase, why, by, batch, size, sockets, sent, flying, hops,
                   heard>>

-----------------------------------------------------------------------------
(* One probe.                                                                 *)

(* A negative size is a range to draw from, which rand() % 0 cannot.          *)
Drawable(s) == s.cpacketsize # -MinPacket
DrawnSizes(s) ==
    IF s.cpacketsize >= 0 THEN {s.cpacketsize}
    ELSE MinPacket..MinPacket + Abs(s.cpacketsize + MinPacket) - 1
(* The ends of the range stand for it.                                        *)
Extremes(S) == {n \in S : (n - 1) \notin S \/ (n + 1) \notin S}
RoundSizes == IF batch < settings.fstTTL THEN Extremes(DrawnSizes(settings)) ELSE {size}

(* Likewise a negative pattern is drawn anew, and stays negative.             *)
RoundPatterns ==
    IF batch < settings.fstTTL /\ settings.bitpattern < 0
    THEN {-256, -511} ELSE {settings.bitpattern}

(* Where the batch goes on.  Faulty: a limit that is passed is not a limit.   *)
AtLimit_Exactly(b, s) == b = s.maxTTL - 1
AtLimit(b, s)         == b >= s.maxTTL - 1

(* n_unknown: silent hops, counted on from MaxHost where the target has been   *)
(* met, which is more than -U usually is.                                      *)
Met == {h \in settings.fstTTL - 1..batch - 1 : hops[h].addr = "target"}
Silent == {h \in settings.fstTTL - 1..batch - 1 : hops[h].addr = "none"}
n_unknown ==
    IF Met = {} THEN Cardinality(Silent)
    ELSE MaxHost + Cardinality({h \in Silent : \A t \in Met : t < h})
NextBatch ==
    IF \/ hops[batch].addr = "target" \/ n_unknown > settings.maxUnknown
       \/ AtLimit(batch, settings)
    THEN settings.fstTTL - 1 ELSE batch + 1

(* What a reply that tells of an error does to the client: it ends, but that    *)
(* no route to the target, or no network, is taken for an answer of nobody's.  *)
Fails(error, who) ==
    IF error \in {"no-route", "network-down"} THEN UNCHANGED <<phase, why, by>>
    ELSE phase' = "ended" /\ why' = error /\ by' = who

Send(s, n) ==
    LET seq     == MinSequence + sent
        command == SendProbeCommand(s, family, seq, batch + 1, n)
        p       == Params(command)
        error   == IF Parses(command) THEN SendError(engine, p) ELSE "unparsed"
        socket  == IF IsStream(p) THEN StreamSocket(p)
                   ELSE SetOptions(engine, sockets[SendSocket(engine, p)], p)
    IN  IF error # "none"
        THEN Fails(error, "mtr-packet") /\ UNCHANGED <<sockets, flying>>
        ELSE /\ sockets' = IF IsStream(p) THEN sockets
                           ELSE [sockets EXCEPT ![SendSocket(engine, p)] = socket]
             /\ \/ /\ flying' = flying \cup
                       {[hop |-> batch, packet |-> OnWire(engine, socket, p, seq),
                         asked |-> [s EXCEPT !.cpacketsize = n]]}
                   /\ UNCHANGED <<phase, why, by>>
                \/ \E e \in KernelErrors : Fails(e, "kernel") /\ UNCHANGED flying

SendBatch ==
    /\ phase = "running" /\ sent < MaxSent /\ Cardinality(flying) < MaxFlying
    /\ batch < settings.fstTTL => Drawable(settings)
    /\ \E n \in RoundSizes, b \in RoundPatterns :
         LET s == [settings EXCEPT !.bitpattern = b]
         IN  size' = n /\ settings' = s /\ Send(s, Abs(n))
    /\ batch' = NextBatch
    /\ sent' = sent + 1
    /\ UNCHANGED <<engine, family, keys, hops, heard>>

DivideByZero ==
    /\ phase = "running" /\ batch < settings.fstTTL /\ ~Drawable(settings)
    /\ phase' = "ended" /\ why' = "SIGFPE" /\ by' = "mtr"
    /\ UNCHANGED <<engine, family, settings, keys, batch, size, sockets, sent, flying,
                   hops, heard>>

-----------------------------------------------------------------------------
(* The network, and the way back.                                             *)

IsRaw(f) == engine.ip[f.packet.version] = "raw"
Sequences == {f.packet.sequence : f \in flying}

(* Messages a probe can bring about: an unprivileged engine hears nothing of   *)
(* the quotations of its stream sockets.                                       *)
Answers(f) ==
    {m \in Messages : /\ m.kind = "echo" => f.packet.protocol = "icmp"
                      /\ m.kind = "port" => f.packet.protocol = "udp"
                      /\ f.packet.protocol \in {"tcp", "sctp"} => IsRaw(f)}

(* The reply to f's message is accounted for at the probe it is found to be.   *)
Found(seqs) == CHOOSE g \in flying : g.packet.sequence \in seqs
Hear(f, m) ==
    LET found == FoundProbe(Sequences, m, f.packet, Self)
        g     == Found(found)
        reply == Reply(g.packet.sequence, IsRaw(f), m, family)
    IN  IF found = {} THEN flying' = flying \ {f} /\ UNCHANGED <<hops, heard>>
        ELSE /\ flying' = flying \ {f, g}
             /\ hops' = [hops EXCEPT ![g.hop] = Returned(@, reply)]
             /\ heard' = [heard EXCEPT ![f.hop] = Append(@, [m |-> m, raw |-> IsRaw(f)])]

Answer ==
    /\ phase = "running" /\ NumHeard < MaxHeard
    /\ \E f \in flying : \E m \in Answers(f) : Hear(f, m)
    /\ UNCHANGED <<engine, family, settings, keys, phase, why, by, batch, size, sockets, sent>>

Lose ==
    /\ phase = "running"
    /\ \E f \in flying : flying' = flying \ {f}
    /\ UNCHANGED <<engine, family, settings, keys, phase, why, by, batch, size, sockets, sent,
                   hops, heard>>

Next ==
    \/ KeyAction
    \/ SendBatch \/ DivideByZero
    \/ Answer \/ Lose

Spec == Init /\ [][Next]_vars

-----------------------------------------------------------------------------
(* Properties                                                                 *)

(* Every hop that is probed has an entry in the table, whatever -f, -m and the *)
(* keys for them say, in whatever order, and though a key may lower the last   *)
(* hop below the one a round has come to (net_send_batch).                     *)
ProbesStayInTable ==
    /\ 1 <= settings.fstTTL /\ settings.fstTTL <= settings.maxTTL /\ settings.maxTTL < MaxHost
    /\ batch \in 0..MaxHost - 1
    /\ \A f \in flying : f.hop \in 0..MaxHost - 1

(* What the client accepts mtr-packet does not refuse of its own (a refusal    *)
(* ends the client; the kernel may refuse what it likes), but for three        *)
(* things: a packet larger than its buffer, and, though it answers that it     *)
(* supports marks, a mark it has no right to set, or that its IPv4 sockets     *)
(* without privileges do not take.  And the client itself ends of a random     *)
(* size up to 28, which a key may ask for.                                     *)
RefusedOnlyFor ==
    why # "none" /\ by # "kernel" =>
      \/ why = "invalid-argument" /\ Abs(size) > PacketBufferSize
      \/ why = "permission-denied" /\ settings.mark # 0 /\ ~engine.marks
      \/ why = "unexpected-error" /\ settings.mark # 0 /\ family = 4 /\ engine.ip[4] = "dgram"
      \/ why = "SIGFPE" /\ settings.cpacketsize = -MinPacket /\ keys > 0

(* A probe leaves with the time to live of its hop, and with the type of       *)
(* service, mark, pattern and protocol that were set when it was sent, though   *)
(* probes share their sockets and settings change between them; raw ones have   *)
(* the size that was asked for, unless that is too small to hold the headers.   *)
SentAsAsked ==
    \A f \in flying :
      /\ f.packet.ttl = f.hop + 1
      /\ f.packet.tos = f.asked.tos /\ f.packet.mark = f.asked.mark
      /\ f.packet.fill = f.asked.bitpattern % 256 /\ f.packet.protocol = f.asked.mtrtype
      /\ IsRaw(f) /\ f.packet.protocol \in {"icmp", "udp"} /\ f.asked.cpacketsize >= 60
           => f.packet.size = f.asked.cpacketsize

(* A message that quotes eight bytes of a probe is credited to that probe and   *)
(* no other, wherever its number had to be put: but for UDP over raw IPv6 with   *)
(* both ports given, where the kernel overwrites the checksum that holds it.     *)
(* (Ports that are sequence numbers themselves, from 33000 on, are not asked     *)
(* for here: those are looked for in the wrong field.)                           *)
QuoteFindsProbe ==
    \A f \in flying : \A m \in Answers(f) :
      m.quoted >= 8 =>
        \/ FoundProbe(Sequences, m, f.packet, Self) = {f.packet.sequence}
        \/ /\ f.packet.version = 6 /\ IsRaw(f) /\ f.packet.protocol = "udp"
           /\ f.asked.remoteport # 0 /\ f.asked.localport # 0

(* The statistics of a hop agree with each other, whatever the order of the     *)
(* answers, truncation, clocks set back and all: best <= average <= worst, a     *)
(* variance is not negative, and no jitter is larger than what lies between the  *)
(* best and the worst (net_process_ping).                                        *)
StatisticsAgree(hop) ==
    hop.returned > 0 =>
        /\ hop.best <= hop.avg /\ hop.avg <= hop.worst
        /\ hop.ssd >= 0 /\ hop.jinta >= 0
        /\ hop.javg <= hop.jworst
        /\ hop.jworst <= hop.worst - hop.best
HopStatisticsAgree == \A h \in DOMAIN hops : StatisticsAgree(hops[h])

(* What a hop shows is what was heard of it: the labels its first answer had    *)
(* on the wire (as many as both programs have room for), as many answers, the   *)
(* last time.                                                                   *)
Wire(m) == LET mpls == {i \in DOMAIN m.chain : m.chain[i].class = 1}
           IN  IF mpls = {} THEN <<>> ELSE m.chain[Min(mpls)].labels
Shown(a) ==
    IF ~a.raw /\ a.m.kind # "echo" THEN <<>>
    ELSE SubSeq(Wire(a.m), 1, Lower(Len(Wire(a.m)), Lower(MaxMplsLabels, MaxLabels)))
HopIsWhatWasHeard ==
    \A h \in DOMAIN hops :
      /\ hops[h].returned = Len(heard[h])
      /\ heard[h] # <<>> =>
           /\ hops[h].mpls = Shown(heard[h][1]) /\ hops[h].addr = heard[h][1].m.from
           /\ hops[h].last = heard[h][Len(heard[h])].m.rtt

=============================================================================
