---------------------------- MODULE ProbePacket ----------------------------
(***************************************************************************)
(* What mtr-packet does with one send-probe command: the arguments are     *)
(* decoded (command.c, cmdparse.c), a packet is constructed                *)
(* (construct_unix.c) and sent through the sockets that were opened when   *)
(* the engine started (probe_unix.c).  Those sockets are shared by all     *)
(* probes: what is set on one for a probe is still set for the next.       *)
(*                                                                         *)
(* An engine is a record: ip[v] says which sockets IP version v has, sctp  *)
(* whether SCTP sockets exist, and marks whether the kernel lets it mark   *)
(* packets.  The bytes of a packet are the fields which a property tells   *)
(* apart; sequence numbers stand for the two bytes they are sent as.       *)
(***************************************************************************)
EXTENDS Integers, Sequences, SequencesExt

CONSTANTS
    PacketBufferSize,   \* the buffer a packet is constructed in
    Self,               \* getpid(), as an ICMP id and as a source port
    KernelSum           \* a UDP checksum computed by the kernel

(* The buffer has room for the largest headers.                               *)
ASSUME PacketAssumption == PacketBufferSize \in Nat /\ PacketBufferSize >= 52

MaxCommandArguments == 16

-----------------------------------------------------------------------------
(* Start: raw sockets if they can be opened, or the unprivileged kind.  After *)
(* that the rights of a setuid program, and all capabilities where libcap is  *)
(* built in, are dropped: the right to mark packets is another matter than    *)
(* the sockets that are open by then.                                         *)
SocketsOf(can, v) ==
    IF <<"raw", v>> \in can THEN "raw"
    ELSE IF <<"dgram", v>> \in can THEN "dgram" ELSE "absent"

Engine(can, sctp, marks) ==
    [ip |-> [v \in {4, 6} |-> SocketsOf(can, v)], sctp |-> sctp, marks |-> marks]

SharedSockets == {4, 6} \X {"icmp", "udp"}
FreshSocket == [tos |-> 0, ttl |-> 64, mark |-> 0, port |-> 0, checksum |-> FALSE]

(* The raw IPv4 socket sends both protocols.                                  *)
SendSocket(engine, p) ==
    IF p.version = 4 /\ engine.ip[4] = "raw" THEN <<4, "icmp">> ELSE <<p.version, p.protocol>>

IsVersionSupported(engine, v) == v \in {4, 6} /\ engine.ip[v] # "absent"
IsProtocolSupported(engine, protocol) ==
    protocol \in {"icmp", "udp", "tcp"} \/ (protocol = "sctp" /\ engine.sctp)

(* The answer to check-support.                                               *)
Supports(engine, feature) ==
    \/ feature \in {"send-probe", "mark"}
    \/ feature = "ip-4" /\ IsVersionSupported(engine, 4)
    \/ feature = "ip-6" /\ IsVersionSupported(engine, 6)
    \/ IsProtocolSupported(engine, feature)

-----------------------------------------------------------------------------
(* The command.                                                               *)

Parses(command) == Len(command.args) <= MaxCommandArguments

Protocols == {"icmp", "udp", "tcp", "sctp"}

(* Arguments are decoded in order: the last of a name counts, and an unknown  *)
(* name is passed over.                                                       *)
Given(args, names) == \E i \in DOMAIN args : args[i][1] \in names
LastOf(args, names) ==
    CHOOSE i \in DOMAIN args : /\ args[i][1] \in names
                               /\ \A j \in DOMAIN args : args[j][1] \in names => j <= i
Argument(args, names, default) ==
    IF Given(args, names) THEN args[LastOf(args, names)][2] ELSE default

(* Every protocol must be known and no local port privileged.  Faulty: a port  *)
(* that needs no privilege is taken for one that does.                        *)
Privileged_Inclusive(port) == port <= 1024
Privileged(port)           == port < 1024
Decodes(arg) ==
    /\ arg[1] = "protocol" => arg[2] \in Protocols
    /\ arg[1] = "local-port" => ~Privileged(arg[2])

Remote == {"ip-4", "ip-6"}
RemoteVersion(args) ==
    IF ~Given(args, Remote) THEN 0 ELSE IF args[LastOf(args, Remote)][1] = "ip-6" THEN 6 ELSE 4

Params(command) ==
    LET args == command.args
    IN  [ok        |-> \A i \in DOMAIN args : Decodes(args[i]),
         version   |-> RemoteVersion(args),
         protocol  |-> Argument(args, {"protocol"}, "icmp"),
         port      |-> Argument(args, {"port"}, 0),
         localport |-> Argument(args, {"local-port"}, 0),
         tos       |-> Argument(args, {"tos"}, 0),
         mark      |-> Argument(args, {"mark"}, 0),
         size      |-> Argument(args, {"size"}, 64),
         fill      |-> Argument(args, {"bit-pattern"}, 0) % 256,
         ttl       |-> Argument(args, {"ttl"}, 255)]

Validates(engine, p) ==
    IsVersionSupported(engine, p.version) /\ IsProtocolSupported(engine, p.protocol)

-----------------------------------------------------------------------------
(* The packet.                                                                *)

IsStream(p) == p.protocol \in {"tcp", "sctp"}
Raw(engine, p) == engine.ip[p.version] = "raw"

IpHeader(v)   == IF v = 6 THEN 40 ELSE 20
InnerHeader(p) == IF p.protocol = "icmp" THEN 8 ELSE 12   \* UDP keeps room for a sequence
AtLeast(a, b) == IF a > b THEN a ELSE b

(* The size as it is asked for counts the IP header if the socket is raw; the  *)
(* engine writes that of IPv4 itself, and leaves that of IPv6 to the kernel.   *)
PacketSize(engine, p) ==
    IF IsStream(p) THEN 0
    ELSE AtLeast(p.size, InnerHeader(p) + IF Raw(engine, p) THEN IpHeader(p.version) ELSE 0)
         - IF p.version = 6 /\ Raw(engine, p) THEN IpHeader(6) ELSE 0

(* Where the sequence number goes: set_udp_ports.                              *)
UdpPorts(p, seq) ==
    [srcport  |-> IF p.localport # 0 THEN p.localport ELSE IF p.port # 0 THEN seq ELSE Self,
     dstport  |-> IF p.port # 0 THEN p.port ELSE seq,
     checksum |-> IF p.port # 0 /\ p.localport # 0 THEN seq ELSE 0]

IcmpHeader(seq) == [id |-> Self, sequence |-> seq]

(* A stream socket is bound to the sequence number, and goes to port 80 when   *)
(* no port is given.                                                           *)
StreamPorts(p, seq) ==
    [srcport |-> seq, dstport |-> IF p.port = 0 THEN 80 ELSE p.port, checksum |-> KernelSum]

(* The options which constructing the packet sets on the shared socket.  A     *)
(* mark is only set when there is one.  Faulty: so is a type of service.       *)
TosOn_IfAny(engine, p, old) ==
    IF p.version = 4 /\ Raw(engine, p) THEN old
    ELSE IF p.tos = 0 THEN old ELSE p.tos
TosOn(engine, p, old) == IF p.version = 4 /\ Raw(engine, p) THEN old ELSE p.tos
SetOptions(engine, socket, p) ==
    [tos  |-> TosOn(engine, p, socket.tos),
     ttl  |-> IF p.version = 4 /\ Raw(engine, p) THEN socket.ttl ELSE p.ttl,
     mark |-> IF p.mark = 0 THEN socket.mark ELSE p.mark,
     port |-> IF p.protocol = "icmp" /\ ~Raw(engine, p) THEN Self ELSE socket.port,
     checksum |-> socket.checksum
                  \/ (p.version = 6 /\ p.protocol = "udp" /\ Raw(engine, p))]

StreamSocket(p) == [FreshSocket EXCEPT !.tos = p.tos, !.ttl = p.ttl, !.mark = p.mark]

(* What the kernel puts on the wire, and a router quotes: its own UDP checksum  *)
(* if it was told to, its own ICMP id on an unprivileged socket.  (Under an     *)
(* unprivileged UDP socket the header above is the payload, and that is what    *)
(* the error queue returns.)                                                    *)
Quoted(engine, socket, p, seq) ==
    IF IsStream(p) THEN StreamPorts(p, seq)
    ELSE IF p.protocol = "udp"
    THEN [UdpPorts(p, seq) EXCEPT !.checksum = IF socket.checksum THEN KernelSum ELSE @]
    ELSE [IcmpHeader(seq) EXCEPT !.id = IF Raw(engine, p) THEN @ ELSE socket.port]

(* An IPv4 header of our own, or one the kernel makes of the socket's options.  *)
OnWire(engine, socket, p, seq) ==
    LET own == p.version = 4 /\ Raw(engine, p) /\ ~IsStream(p)
    IN  [version |-> p.version, protocol |-> p.protocol, sequence |-> seq,
         tos |-> IF own THEN p.tos ELSE socket.tos,
         ttl |-> IF own THEN p.ttl ELSE socket.ttl,
         mark |-> socket.mark, fill |-> p.fill,
         size |-> PacketSize(engine, p) + IF p.version = 6 /\ Raw(engine, p)
                                          THEN IpHeader(6) ELSE 0,
         header |-> Quoted(engine, socket, p, seq)]

(* Why construct_packet or setsockopt fails, in the words of the reply.  The    *)
(* unprivileged IPv4 engine sets the mark on descriptor 0, which is no socket.  *)
MarkError(engine, p) ==
    IF p.mark = 0 THEN "none"
    ELSE IF p.version = 4 /\ ~Raw(engine, p) /\ ~IsStream(p) THEN "unexpected-error"
    ELSE IF engine.marks THEN "none" ELSE "permission-denied"

SendError(engine, p) ==
    IF \/ ~p.ok \/ ~Validates(engine, p)
       \/ PacketSize(engine, p) > PacketBufferSize
    THEN "invalid-argument" ELSE MarkError(engine, p)

(* What the kernel may still say to bind, connect or sendto, as                 *)
(* report_packet_error puts it.                                                 *)
PacketErrors ==
    {"invalid-argument", "network-down", "no-route", "permission-denied", "address-in-use",
     "address-not-available", "unexpected-error"}
=============================================================================
