---------------------------- MODULE ProbeEngine ----------------------------
(***************************************************************************)
(* The event loop of mtr-packet (packet/packet.c main) and the table of    *)
(* outstanding probes it serves (packet/probe.c, packet/probe_unix.c).     *)
(*                                                                         *)
(* A client writes command lines to the process's stdin and reads response *)
(* lines from its stdout.  A `send-probe' command allocates a probe, puts  *)
(* a packet on the network and is answered later: by a packet which the    *)
(* raw socket receives, by the completion of the probe's own TCP socket,   *)
(* or by the expiry of its timeout.  Every other command is answered where *)
(* it is dispatched.                                                       *)
(*                                                                         *)
(* An engine that could open raw sockets hears every ICMP packet of the    *)
(* host there.  One that could not sends through sockets whose errors the  *)
(* kernel keeps in a queue beside that of the packets (MSG_ERRQUEUE).      *)
(*                                                                         *)
(* Commands are numbered in the order the client writes them, so the pipe  *)
(* holds taken+1..written and the command buffer dispatched+1..taken.      *)
(* Probes enter the list at its head in dispatch order, so of two probes   *)
(* the one with the larger number is found first.                          *)
(*                                                                         *)
(* Time is kept per probe, as what remains until its timeout: 0 when the   *)
(* deadline is now, -1 when it has passed.                                 *)
(***************************************************************************)
EXTENDS Integers, Sequences, FiniteSets

CONSTANTS
    MaxRequests,      \* bound: commands the client writes
    MaxProbes,        \* MAX_PROBES, probe.h
    MinPort, MaxPort, \* MIN_PORT and MAX_PORT, probe_unix.h
    Pid,              \* the source port of a UDP probe without a local port
    DestPort,         \* the destination port a client asks for (-P)
    LocalPort,        \* the local port a client asks for (-L)
    Kinds,            \* kinds of command the client writes
    Timeouts,         \* timeouts the client asks for
    ConnectOutcomes,  \* outcomes of open_stream_socket on this platform
    PacketTypes,      \* results of the packets the network returns
    MaxArrivals       \* bound: packets and errors that arrive

Requests == 1..MaxRequests
Ports    == MinPort..MaxPort

DatagramKinds  == {"icmp", "udp", "udp-port", "udp-ports"}
ProbeKinds     == DatagramKinds \cup {"tcp"}
ImmediateKinds == {"check", "malformed"}

ASSUME ConstantsAssumption ==
    /\ MaxRequests \in Nat
    /\ MaxProbes \in Nat \ {0}
    /\ MinPort \in Nat \ {0} /\ MaxPort \in Nat /\ MinPort < MaxPort
    /\ Pid \in Nat /\ DestPort \in Nat /\ LocalPort \in Nat
    /\ Kinds \subseteq ProbeKinds \cup ImmediateKinds
    /\ Timeouts \subseteq Nat
    /\ ConnectOutcomes \subseteq
         {"inprogress", "connected", "inuse", "refused", "error"}
    /\ PacketTypes \subseteq {"reply", "ttl-expired", "no-route"}
    /\ MaxArrivals \in Nat

Results == {"reply", "ttl-expired", "no-route", "no-reply", "packet-error",
            "probes-exhausted", "invalid-argument", "feature-support",
            "command-parse-error"}

(* Packets of other processes: their pings, and their UDP and TCP packets. *)
Foreign     == 0
ForeignPort == -1
(* No socket (platform.socket = 0) and no timeout (select waits forever). *)
NoSocket == 0
Forever  == -1

VARIABLES
    pc,                       \* where main() is in its loop
    privileged,               \* the sockets are raw (init_net_state_privileged)
    \* the client and its pipe
    written, closed,          \* commands written; stdin closed by the client
    kind, timeout,            \* what each command asks for
    \* the command stream
    command_pipe_open, taken, dispatched,
    \* the probe table, struct net_state_t
    outstanding_probes, outstanding_probe_count, next_sequence,
    sequence, socket, left,
    tries,                    \* trytimes - MIN_PORT of the send_probe loop
    errno_in_use,             \* errno is EADDRINUSE
    reading, flag,            \* the sockets still to be read, in order, and
                              \* whether MSG_ERRQUEUE is set for the first
    sleep,                    \* what remains of the select() timeout
    due,                      \* history: probes whose reply was at hand when
                              \* select() returned
    \* the operating system
    open,                     \* open stream sockets, <<request, port>>
    conn,                     \* state of the connection of a probe's socket
    \* the network
    sent,                     \* probes which left the host, with their port
    inbox, arrivals,          \* packets and errors queued at the sockets
    pending,                  \* the error a socket reports first (SO_ERROR)
    \* stdout
    printed, flushed          \* response lines in the stdio buffer; written

clientVars == <<written, closed, kind, timeout>>
streamVars == <<command_pipe_open, taken, dispatched>>
tableVars  == <<outstanding_probes, outstanding_probe_count, sequence,
                socket, left, open, conn>>
seqVars    == <<next_sequence>>
netVars    == <<sent, inbox, arrivals, pending>>
loopVars   == <<tries, errno_in_use>>
waitVars   == <<sleep, due>>
recvVars   == <<reading, flag>>
vars == <<pc, privileged, clientVars, streamVars, tableVars, seqVars, loopVars, recvVars,
          waitVars, netVars, printed, flushed>>

----------------------------------------------------------------------------
(* Probes, packets and answers *)

(* Faulty variant: the wrap comes one number late. *)
NextSequence_WrapsLate(s) == IF s > MaxPort THEN MinPort ELSE s + 1

(* Sequence numbers run through the port range and wrap. *)
NextSequence(s) == IF s + 1 > MaxPort THEN MinPort ELSE s + 1

DrawSequence == next_sequence' = NextSequence(next_sequence)

TakeSequence(r) ==
    /\ sequence' = [sequence EXCEPT ![r] = next_sequence]
    /\ DrawSequence

(* Where a packet carries the sequence number of its probe, in the order   *)
(* the receiver tries the fields: the ICMP sequence, the TCP source port,  *)
(* or the UDP destination port, source port and checksum.                  *)
Keys(k, s) ==
    CASE k = "udp"       -> <<s, Pid, 0>>
      [] k = "udp-port"  -> <<DestPort, s, 0>>
      [] k = "udp-ports" -> <<DestPort, LocalPort, s>>
      [] OTHER           -> <<s>>

(* find_probe: the newest outstanding probe with that sequence number. *)
FindProbe(r, key) ==
    /\ r \in outstanding_probes
    /\ sequence[r] = key
    /\ \A q \in outstanding_probes : sequence[q] = key => q <= r

(* Faulty variant: the ICMP id is not compared. *)
Finds_AnyId(packet, r) ==
    \E i \in DOMAIN packet.keys :
        /\ FindProbe(r, packet.keys[i])
        /\ \A j \in 1..(i - 1), q \in outstanding_probes :
              sequence[q] # packet.keys[j]

(* The fields are tried in order and the first which finds a probe counts; *)
(* an ICMP packet with the id of another process finds none.               *)
Finds(packet, r) ==
    /\ packet.own_id
    /\ \E i \in DOMAIN packet.keys :
          /\ FindProbe(r, packet.keys[i])
          /\ \A j \in 1..(i - 1), q \in outstanding_probes :
                sequence[q] # packet.keys[j]

(* Which socket hears of a probe, and in which order they are read.        *)
Sockets == {"raw", "icmp", "udp"}
SocketOf(k) == IF privileged THEN "raw" ELSE IF k = "icmp" THEN "icmp" ELSE "udp"
RecvSockets == IF privileged THEN <<"raw">> ELSE <<"icmp", "udp">>

(* The process has gone.                                                   *)
Gone == pc \in {"exited", "failed"}

Line(result, cause) == [result |-> result, cause |-> cause]

(* printf of one response line for request r. *)
Respond(r, result, cause) ==
    printed' = [printed EXCEPT ![r] = Append(@, Line(result, cause))]

(* LIST_REMOVE; before it the faulty variant which omits it. *)
ListRemove_Omitted(S) == outstanding_probes' = outstanding_probes
ListRemove(S)         == outstanding_probes' = outstanding_probes \ S

(* platform_free_probe closes the socket if one was opened; faulty: leaks.  *)
CloseSockets_Omitted(S) == open' = open
CloseSockets(S)         == open' = open \ {<<r, socket[r]>> : r \in S}

(* Answer the probes of S, each with its line, and free them: out of the   *)
(* list, the count decremented, the socket closed if one is open.          *)
RespondAndFree(S, line) ==
    /\ printed' = [r \in Requests |->
                     IF r \in S THEN Append(printed[r], line[r])
                                ELSE printed[r]]
    /\ ListRemove(S)
    /\ outstanding_probe_count' = outstanding_probe_count - Cardinality(S)
    /\ CloseSockets(S)
    /\ sequence' = [r \in Requests |-> IF r \in S THEN 0 ELSE sequence[r]]
    /\ socket'   = [r \in Requests |-> IF r \in S THEN NoSocket ELSE socket[r]]
    /\ left'     = [r \in Requests |-> IF r \in S THEN 0 ELSE left[r]]
    /\ conn'     = [r \in Requests |-> IF r \in S THEN "none" ELSE conn[r]]

----------------------------------------------------------------------------
Init ==
    /\ pc = "select" /\ privileged \in BOOLEAN
    /\ written = 0 /\ closed = FALSE
    /\ kind = [r \in Requests |-> "none"]
    /\ timeout = [r \in Requests |-> 0]
    /\ command_pipe_open = TRUE /\ taken = 0 /\ dispatched = 0
    /\ outstanding_probes = {} /\ outstanding_probe_count = 0
    /\ next_sequence = MinPort
    /\ sequence = [r \in Requests |-> 0]
    /\ socket = [r \in Requests |-> NoSocket]
    /\ left = [r \in Requests |-> 0]
    /\ tries = 0 /\ errno_in_use = FALSE
    /\ sleep = Forever
    /\ reading = <<>> /\ flag = FALSE
    /\ due = {}
    /\ open = {}
    /\ conn = [r \in Requests |-> "none"]
    /\ sent = {} /\ inbox = {} /\ arrivals = 0
    /\ pending = [at \in Sockets |-> "none"]
    /\ printed = [r \in Requests |-> <<>>]
    /\ flushed = [r \in Requests |-> <<>>]

----------------------------------------------------------------------------
(* The client, the network, the kernel and the clock *)

(* The client writes its next command line. *)
WriteCommand(k, t) ==
    /\ ~closed /\ written < MaxRequests
    /\ written' = written + 1
    /\ kind' = [kind EXCEPT ![written + 1] = k]
    /\ timeout' = [timeout EXCEPT ![written + 1] = t]
    /\ UNCHANGED <<pc, privileged, recvVars, closed, streamVars, tableVars, seqVars, loopVars,
                   waitVars, netVars, printed, flushed>>

(* The client closes the write end of stdin, or dies. *)
CloseStdin ==
    /\ ~closed
    /\ closed' = TRUE
    /\ UNCHANGED <<pc, privileged, recvVars, written, kind, timeout, streamVars, tableVars,
                   seqVars, loopVars, waitVars, netVars, printed, flushed>>

(* A packet at a socket, or an error, with the field that says which.      *)
Packet(keys, own_id, type, cause, at, errno) ==
    [keys |-> keys, own_id |-> own_id, type |-> type, cause |-> cause,
     socket |-> at, errno |-> errno]

(* A packet returns for a probe which left the host: soon, after the probe *)
(* has been answered, or a second time.                                    *)
ReplyTo(s, type) ==
    Packet(Keys(kind[s.req], s.port), TRUE, type, s.req, "raw", "none")

(* Raw sockets hear what other processes bring about too: the echo of a    *)
(* ping, with an ICMP id of its own; and the quotation of a UDP or TCP     *)
(* packet, which has a port where ours have their number.                  *)
ForeignPacket(s) == Packet(<<s>>, FALSE, "reply", Foreign, "raw", "none")
ForeignQuotation(s, type) ==
    Packet(<<s>>, TRUE, type, ForeignPort, "raw", "none")

(* The kernel gives the others the echoes of their own pings, and the      *)
(* errors which their own packets have met, all printed alike.  errno is    *)
(* known if it is one the receive loop knows.                              *)
EchoOf(s) ==
    Packet(Keys(kind[s.req], s.port), TRUE, "reply", s.req, "icmp", "none")
ErrorOf(s, errno) ==
    Packet(Keys(kind[s.req], s.port), TRUE, "ttl-expired", s.req,
           SocketOf(kind[s.req]), errno)

(* What may come of the packets sent, and of those of others.              *)
Heard ==
    IF privileged
      THEN {ReplyTo(s, type) : s \in sent, type \in PacketTypes}
             \cup {ForeignPacket(s) : s \in Ports}
             \cup {ForeignQuotation(s, type) : s \in Ports, type \in PacketTypes}
      ELSE {EchoOf(s) : s \in {t \in sent : kind[t.req] = "icmp"}}
             \cup {ErrorOf(s, errno) : s \in {t \in sent : kind[t.req] # "tcp"},
                                      errno \in {"known", "unknown"}}

Arrive(packet) ==
    /\ ~Gone /\ arrivals < MaxArrivals
    /\ inbox' = inbox \cup {packet}
    /\ pending' = IF packet.errno = "none" THEN pending
                  ELSE [pending EXCEPT ![packet.socket] = packet.errno]
    /\ arrivals' = arrivals + 1
    /\ UNCHANGED <<pc, privileged, recvVars, clientVars, streamVars, tableVars,
                   seqVars, loopVars, waitVars, sent, printed, flushed>>

(* The kernel finishes a connection attempt on a probe's socket. *)
FinishConnect(r, outcome) ==
    /\ ~Gone /\ conn[r] = "pending"
    /\ conn' = [conn EXCEPT ![r] = outcome]
    /\ UNCHANGED <<pc, privileged, recvVars, clientVars, streamVars, outstanding_probes,
                   outstanding_probe_count, sequence, socket, left, open,
                   seqVars, loopVars, waitVars, netVars, printed, flushed>>

(* Time passes: every deadline and the select timeout come nearer. *)
Tick ==
    /\ ~Gone
    /\ \/ sleep > 0
       \/ \E r \in outstanding_probes : left[r] >= 0
    /\ left' = [r \in Requests |->
                  IF r \in outstanding_probes /\ left[r] >= 0
                    THEN left[r] - 1 ELSE left[r]]
    /\ sleep' = IF sleep > 0 THEN sleep - 1 ELSE sleep
    /\ UNCHANGED <<due, pc, privileged, recvVars, clientVars, streamVars, outstanding_probes,
                   outstanding_probe_count, sequence, socket, open, conn,
                   seqVars, loopVars, netVars, printed, flushed>>

Environment ==
    \/ \E k \in Kinds, t \in Timeouts : WriteCommand(k, t)
    \/ CloseStdin
    \/ \E packet \in Heard : Arrive(packet)
    \/ \E r \in Requests, outcome \in {"up", "refused", "failed"} :
          FinishConnect(r, outcome)

----------------------------------------------------------------------------
(* The loop of main() *)

(* A probe's socket has become writable. *)
Completed(r) == conn[r] \in {"up", "refused", "failed"}

(* A packet at the raw socket, or an error that a socket is about to report *)
(* and whose errno is known, will be read.  What else an unprivileged        *)
(* socket has may be left behind an error that comes first.                  *)
WillBeRead(packet) ==
    privileged \/ (packet.errno # "none" /\ pending[packet.socket] # "none")

(* wait_for_activity returns: a descriptor is ready or the timeout is over. *)
(* stdin stays in the read set after end of file, when it is always ready.  *)
WakeUp ==
    /\ pc = "select"
    /\ \/ written > taken \/ closed
       \/ inbox # {}
       \/ \E r \in outstanding_probes : Completed(r)
       \/ sleep = 0
    /\ pc' = "recv"
    /\ reading' = RecvSockets
    /\ sleep' = Forever
    /\ due' = {r \in outstanding_probes :
                 \/ Completed(r)
                 \/ \E packet \in inbox : Finds(packet, r) /\ WillBeRead(packet)}
    /\ UNCHANGED <<privileged, flag, clientVars, streamVars, tableVars, seqVars,
                   loopVars, netVars, printed, flushed>>

Errors(S, at)  == {packet \in S : packet.socket = at /\ packet.errno # "none"}
Packets(S, at) == {packet \in S : packet.socket = at /\ packet.errno = "none"}

(* recvmsg returns the pending error of the socket before anything else.     *)
(* Of the two it knows the loop turns to the error queue, for as long as it   *)
(* reads this socket; any other ends the process.                            *)
RecvError ==
    /\ pc = "recv" /\ reading # <<>> /\ ~flag
    /\ LET at == Head(reading)
       IN  /\ pending[at] # "none"
           /\ pending' = [pending EXCEPT ![at] = "none"]
           /\ IF pending[at] = "known"
                THEN flag' = TRUE /\ UNCHANGED <<pc, flushed>>
                ELSE pc' = "failed" /\ flushed' = printed /\ UNCHANGED flag
    /\ UNCHANGED <<privileged, reading, clientVars, streamVars, tableVars, seqVars,
                   loopVars, waitVars, sent, inbox, arrivals, printed>>

(* What recvmsg may return next: of the error queue, or of the other.        *)
Readable(S) ==
    IF reading = <<>> THEN {}
    ELSE IF flag THEN Errors(S, Head(reading))
    ELSE IF pending[Head(reading)] = "none" THEN Packets(S, Head(reading)) ELSE {}

(* receive_replies_from_recv_socket: one packet, or one error, of the socket. *)
(* An error that is left in the queue is pending again.                      *)
ReceivePacket(packet) ==
    /\ pc = "recv" /\ packet \in Readable(inbox)
    /\ inbox' = inbox \ {packet}
    /\ IF ~flag THEN UNCHANGED pending
       ELSE LET more == Errors(inbox \ {packet}, packet.socket)
            IN  \E errno \in IF more = {} THEN {"none"} ELSE {e.errno : e \in more} :
                  pending' = [pending EXCEPT ![packet.socket] = errno]
    /\ \/ \E r \in outstanding_probes :
            /\ Finds(packet, r)
            /\ RespondAndFree({r}, [q \in {r} |-> Line(packet.type, packet.cause)])
       \/ /\ \A r \in outstanding_probes : ~Finds(packet, r)
          /\ UNCHANGED <<tableVars, printed>>
    /\ UNCHANGED <<pc, privileged, recvVars, clientVars, streamVars, seqVars,
                   loopVars, waitVars, sent, arrivals, flushed>>

(* recvmsg returns EAGAIN, of the queue it is told to read; faulty: the loop  *)
(* stops before that.                                                        *)
RecvDrained_Early == TRUE
RecvDrained ==
    /\ Readable(inbox) = {}
    /\ flag \/ pending[Head(reading)] = "none"

NextSocket ==
    /\ pc = "recv" /\ reading # <<>> /\ RecvDrained
    /\ reading' = Tail(reading) /\ flag' = FALSE
    /\ UNCHANGED <<pc, privileged, clientVars, streamVars, tableVars, seqVars,
                   loopVars, waitVars, netVars, printed, flushed>>

(* The sockets have been read; the probes' own sockets are polled, and those *)
(* which have connected or were refused are answered, or failed.            *)
PollProbeSockets ==
    /\ pc = "recv" /\ reading = <<>>
    /\ pc' = "read"
    /\ LET done == {r \in outstanding_probes : Completed(r)}
       IN  RespondAndFree(done,
             [r \in done |-> Line(IF conn[r] = "failed" THEN "packet-error"
                                                        ELSE "reply", r)])
    /\ errno_in_use' = FALSE
    /\ UNCHANGED <<privileged, recvVars, clientVars, streamVars, seqVars, tries,
                   waitVars, netVars, flushed>>

(* An empty pipe whose writer has gone reads as end of file. *)
AtEof == taken = written /\ closed

(* read_commands: some of what is in the pipe, end of file, or EAGAIN. *)
ReadCommands ==
    /\ pc = "read"
    /\ pc' = "timeouts"
    /\ \/ command_pipe_open /\ taken' \in (taken + 1)..written
          /\ UNCHANGED command_pipe_open
       \/ command_pipe_open /\ AtEof
          /\ command_pipe_open' = FALSE
          /\ UNCHANGED taken
       \/ command_pipe_open /\ taken = written /\ ~AtEof
          /\ UNCHANGED <<command_pipe_open, taken>>
       \/ ~command_pipe_open /\ UNCHANGED <<command_pipe_open, taken>>
    /\ UNCHANGED <<privileged, recvVars, clientVars, dispatched, tableVars, seqVars, loopVars,
                   waitVars, netVars, printed, flushed>>

(* check_probe_timeouts: strictly past the deadline. *)
Expired(r) == left[r] < 0

CheckProbeTimeouts ==
    /\ pc = "timeouts"
    /\ pc' = "dispatch"
    /\ LET late == {r \in outstanding_probes : Expired(r)}
       IN  RespondAndFree(late, [r \in late |-> Line("no-reply", r)])
    /\ UNCHANGED <<privileged, recvVars, clientVars, streamVars, seqVars, loopVars, waitVars,
                   netVars, flushed>>

(* dispatch_buffer_commands: the next command line of the buffer. *)
NextCommand(r) ==
    /\ pc = "dispatch"
    /\ dispatched < taken
    /\ r = dispatched + 1
    /\ dispatched' = r

(* A line that does not parse, check-support, and the errors found while   *)
(* the arguments are decoded: one line, and nothing else changes.          *)
DispatchImmediate(r) ==
    /\ NextCommand(r)
    /\ \/ kind[r] = "malformed" /\ Respond(r, "command-parse-error", r)
       \/ kind[r] = "check" /\ \/ Respond(r, "feature-support", r)
                               \/ Respond(r, "invalid-argument", r)
    /\ UNCHANGED <<pc, privileged, recvVars, clientVars, command_pipe_open, taken, tableVars,
                   seqVars, loopVars, waitVars, netVars, flushed>>

(* alloc_probe finds the table full. *)
TableFull == outstanding_probe_count >= MaxProbes

DispatchExhausted(r) ==
    /\ NextCommand(r) /\ kind[r] \in ProbeKinds
    /\ TableFull
    /\ Respond(r, "probes-exhausted", r)
    /\ UNCHANGED <<pc, privileged, recvVars, clientVars, command_pipe_open, taken, tableVars,
                   seqVars, loopVars, waitVars, netVars, flushed>>

(* send_probe fails after alloc_probe: the addresses do not resolve, or a   *)
(* datagram cannot be constructed or sent, of which a pending error is one  *)
(* cause: sendto reports it.  The probe is freed at once; its sequence       *)
(* number stays used.                                                       *)
DispatchUnsendable(r) ==
    /\ NextCommand(r) /\ kind[r] \in ProbeKinds
    /\ ~TableFull
    /\ \/ Respond(r, "invalid-argument", r)
       \/ kind[r] \in DatagramKinds /\ Respond(r, "packet-error", r)
    /\ pending' \in {pending, [pending EXCEPT ![SocketOf(kind[r])] = "none"]}
    /\ DrawSequence
    /\ errno_in_use' \in {errno_in_use, FALSE}
    /\ UNCHANGED <<pc, privileged, recvVars, clientVars, command_pipe_open, taken, tableVars,
                   tries, waitVars, sent, inbox, arrivals, flushed>>

(* alloc_probe and platform_alloc_probe: a list entry, a sequence number. *)
AllocProbe(r) ==
    /\ ~TableFull
    /\ outstanding_probes' = outstanding_probes \cup {r}
    /\ outstanding_probe_count' = outstanding_probe_count + 1
    /\ TakeSequence(r)
    /\ left' = [left EXCEPT ![r] = timeout[r]]

(* send_probe of an ICMP or UDP probe which leaves the host. *)
DispatchDatagram(r) ==
    /\ NextCommand(r) /\ kind[r] \in DatagramKinds
    /\ pending[SocketOf(kind[r])] = "none"
    /\ AllocProbe(r)
    /\ sent' = sent \cup {[req |-> r, port |-> next_sequence]}
    /\ UNCHANGED <<pc, privileged, recvVars, clientVars, command_pipe_open, taken, socket, open,
                   conn, loopVars, waitVars, inbox, arrivals, pending, printed, flushed>>

(* send_probe of a TCP probe enters its loop over local ports. *)
DispatchStream(r) ==
    /\ NextCommand(r) /\ kind[r] = "tcp"
    /\ AllocProbe(r)
    /\ pc' = "construct"
    /\ tries' = 0
    /\ UNCHANGED <<privileged, recvVars, clientVars, command_pipe_open, taken, socket, open, conn,
                   errno_in_use, waitVars, netVars, printed, flushed>>

(***************************************************************************)
(* The loop over local ports in send_probe, for a TCP probe.  A connect     *)
(* that succeeds at once leaves errno as it was: as an earlier round, or    *)
(* the probe before, left it.                                              *)
(***************************************************************************)

(* The next round tries the next port; the loop gives up after              *)
(* MAX_PORT - MIN_PORT rounds.                                              *)
LastTry == tries + 1 >= MaxPort - MinPort

(* open_stream_socket succeeded: the probe records the new socket. *)
OpenSocket(r, state) ==
    /\ socket' = [socket EXCEPT ![r] = sequence[r]]
    /\ open' = open \cup {<<r, sequence[r]>>}
    /\ conn' = [conn EXCEPT ![r] = state]
    /\ sent' = sent \cup {[req |-> r, port |-> sequence[r]]}

ConstructInProgress(r) ==
    /\ OpenSocket(r, "pending")
    /\ pc' = "dispatch" /\ tries' = 0 /\ errno_in_use' = FALSE
    /\ UNCHANGED <<sequence, seqVars, left, outstanding_probes,
                   outstanding_probe_count, printed>>

(* connect succeeds at once, which the loop takes for a port in use when   *)
(* errno still says so.                                                     *)
ConstructConnected(r) ==
    /\ OpenSocket(r, "up")
    /\ IF errno_in_use
         THEN TakeSequence(r) ELSE UNCHANGED <<sequence, seqVars>>
    /\ IF errno_in_use /\ ~LastTry
         THEN pc' = pc /\ tries' = tries + 1
         ELSE pc' = "dispatch" /\ tries' = 0
    /\ UNCHANGED <<errno_in_use, left, outstanding_probes, outstanding_probe_count, printed>>

(* bind or connect returns EADDRINUSE: another port, while there is one. *)
ConstructInUse(r) ==
    /\ sent' = sent /\ errno_in_use' = TRUE
    /\ IF LastTry
         THEN /\ pc' = "dispatch" /\ tries' = 0
              /\ DrawSequence
              /\ RespondAndFree({r}, [q \in {r} |-> Line("packet-error", q)])
         ELSE /\ pc' = pc /\ tries' = tries + 1
              /\ TakeSequence(r)
              /\ UNCHANGED <<outstanding_probes, outstanding_probe_count,
                             socket, left, open, conn, printed>>

(* Any other error ends the loop; a refused connection reached its host.   *)
ConstructFailed(r, result) ==
    /\ pc' = "dispatch" /\ tries' = 0 /\ errno_in_use' = FALSE
    /\ RespondAndFree({r}, [q \in {r} |-> Line(result, q)])
    /\ UNCHANGED <<seqVars, sent>>

Construct(r) ==
    /\ pc = "construct" /\ r = dispatched
    /\ \/ "inprogress" \in ConnectOutcomes /\ ConstructInProgress(r)
       \/ "connected" \in ConnectOutcomes /\ ConstructConnected(r)
       \/ "inuse" \in ConnectOutcomes /\ ConstructInUse(r)
       \/ "refused" \in ConnectOutcomes /\ ConstructFailed(r, "reply")
       \/ "error" \in ConnectOutcomes /\ ConstructFailed(r, "packet-error")
    /\ UNCHANGED <<privileged, recvVars, clientVars, streamVars, waitVars, inbox, arrivals, pending,
                   flushed>>

(* get_next_probe_timeout: what is left of the soonest timeout, which       *)
(* normalize_timeval clamps to zero when it is over.                        *)
Clamp(t) == IF t < 0 THEN 0 ELSE t

(* The soonest deadline; faulty: the latest. *)
Soonest_Latest(r) == \A q \in outstanding_probes : left[r] >= left[q]
Soonest(r)        == \A q \in outstanding_probes : left[r] <= left[q]

(* Faulty variant: select is never given a timeout. *)
SelectTimeout_Never(t) == t = Forever

SelectTimeout(t) ==
    IF outstanding_probes = {}
      THEN t = Forever
      ELSE \E r \in outstanding_probes : Soonest(r) /\ t = Clamp(left[r])

(* Exit once stdin has ended and every probe has reported; faulty: as soon  *)
(* as it has ended.                                                         *)
MayExit_AtEof == ~command_pipe_open
MayExit       == ~command_pipe_open /\ outstanding_probe_count = 0

(* fflush before waiting. *)
Flush == flushed' = printed

(* The buffer holds no more commands.  With stdin at its end and nothing    *)
(* outstanding the process returns from main; otherwise it writes its       *)
(* responses and goes back to wait_for_activity.                            *)
EndOfLoop ==
    /\ pc = "dispatch" /\ dispatched = taken
    /\ Flush
    /\ due' = {}
    /\ IF MayExit
         THEN pc' = "exited" /\ UNCHANGED sleep
         ELSE pc' = "select" /\ sleep' \in {t \in {Forever} \cup
                {Clamp(left[r]) : r \in outstanding_probes} : SelectTimeout(t)}
    /\ UNCHANGED <<privileged, recvVars, clientVars, streamVars, tableVars, seqVars, loopVars,
                   netVars, printed>>

Engine ==
    \/ WakeUp
    \/ RecvError
    \/ \E packet \in inbox : ReceivePacket(packet)
    \/ NextSocket
    \/ PollProbeSockets
    \/ ReadCommands
    \/ CheckProbeTimeouts
    \/ \E r \in Requests : DispatchImmediate(r)
    \/ \E r \in Requests : DispatchExhausted(r)
    \/ \E r \in Requests : DispatchUnsendable(r)
    \/ \E r \in Requests : DispatchDatagram(r)
    \/ \E r \in Requests : DispatchStream(r)
    \/ \E r \in Requests : Construct(r)
    \/ EndOfLoop

(* The process has gone; the state does not change any more. *)
Exited == Gone /\ UNCHANGED vars

Next == Environment \/ Tick \/ Engine \/ Exited

(* The process keeps running and time keeps passing.  Nothing is assumed of *)
(* the client or of the network.                                            *)
Spec == Init /\ [][Next]_vars /\ WF_vars(Engine) /\ WF_vars(Tick)

----------------------------------------------------------------------------
(* Properties *)

Causes  == Requests \cup {Foreign, ForeignPort}
Errnos  == {"none", "known", "unknown"}
Lines   == [result : Results, cause : Causes]
Arrivals ==
    [keys : Seq(Nat), own_id : BOOLEAN, type : PacketTypes \cup {"reply", "ttl-expired"},
     cause : Causes, socket : Sockets, errno : Errnos]

(* Every variable holds values of its type. *)
TypeOK ==
    /\ pc \in {"select", "recv", "read", "timeouts", "dispatch", "construct",
               "exited", "failed"}
    /\ privileged \in BOOLEAN
    /\ written \in 0..MaxRequests /\ closed \in BOOLEAN
    /\ kind \in [Requests -> Kinds \cup {"none"}]
    /\ timeout \in [Requests -> Nat]
    /\ command_pipe_open \in BOOLEAN
    /\ taken \in 0..written /\ dispatched \in 0..taken
    /\ outstanding_probes \in SUBSET (1..dispatched)
    /\ outstanding_probe_count \in Nat
    /\ next_sequence \in Ports
    /\ sequence \in [Requests -> Ports \cup {0}]
    /\ socket \in [Requests -> Ports \cup {NoSocket}]
    /\ left \in [Requests -> Nat \cup {-1}]
    /\ tries \in 0..(MaxPort - MinPort - 1) /\ errno_in_use \in BOOLEAN
    /\ sleep \in Nat \cup {Forever}
    /\ due \in SUBSET Requests
    /\ open \in SUBSET (Requests \X Ports)
    /\ conn \in [Requests -> {"none", "pending", "up", "refused", "failed"}]
    /\ sent \in SUBSET [req : Requests, port : Ports]
    /\ inbox \in SUBSET Arrivals
    /\ pending \in [Sockets -> Errnos]
    /\ reading \in {<<>>, <<"raw">>, <<"udp">>, <<"icmp", "udp">>} /\ flag \in BOOLEAN
    /\ arrivals \in 0..MaxArrivals
    /\ printed \in [Requests -> Seq(Lines)]
    /\ flushed \in [Requests -> Seq(Lines)]

(* The counter which decides whether a probe can be allocated, and whether  *)
(* the process may exit, is the length of the list (alloc_probe and         *)
(* free_probe keep both), and never exceeds MAX_PROBES.                     *)
CountIsListLength ==
    /\ outstanding_probe_count = Cardinality(outstanding_probes)
    /\ outstanding_probe_count <= MaxProbes

(* However replies, timeouts, socket events and errors interleave, a command *)
(* that has been dispatched is either still an outstanding probe or has got  *)
(* exactly one response line; no command is answered twice and none loses    *)
(* its answer.                                                               *)
OneAnswerPerCommand ==
    \A r \in Requests :
        Len(printed[r]) =
            IF r <= dispatched /\ r \notin outstanding_probes THEN 1 ELSE 0

(* When the process exits, every command the client wrote has been answered *)
(* and its answer written, though the loop may notice end of file with       *)
(* probes in flight and commands in its buffer.                              *)
NothingLostAtExit ==
    pc = "exited" => \A r \in 1..written : Len(flushed[r]) = 1

(* The process never sleeps past the deadline of a probe, and never hands   *)
(* select a negative timeout (the assertion in wait_for_activity).           *)
WakesByDeadline ==
    pc = "select" /\ outstanding_probes # {} =>
        /\ sleep >= 0
        /\ \A r \in outstanding_probes : sleep <= Clamp(left[r])

(* The process never blocks with a response still in its stdio buffer.      *)
FlushedBeforeSelect == pc = "select" => flushed = printed

(* Every open stream socket belongs to an outstanding probe which will close *)
(* it: none is leaked by a retry, an error path or a late reply.             *)
NoSocketLeak ==
    open = {<<r, socket[r]>> : r \in {q \in outstanding_probes :
                                        socket[q] # NoSocket}}

(* A response line tells of the probe of its own command, whatever arrives   *)
(* late, twice or for another process's ping (respond_to_probe: "respond to   *)
(* the command request which sent the probe").  Only the quotation of a UDP   *)
(* or TCP packet which another process sent through the port that is a        *)
(* probe's number is taken for the probe's, and only by raw sockets.          *)
CreditedToSender ==
    \A r \in Requests, i \in 1..MaxRequests :
        i \in DOMAIN printed[r] =>
            \/ printed[r][i].cause = r
            \/ printed[r][i].cause = ForeignPort /\ privileged

(* The loop over ports makes no further round once it has a socket           *)
(* (send_probe: "no retry if we succeed").                                   *)
NoRetryIfWeSucceed == pc = "construct" => socket[dispatched] = NoSocket

(* A reply which was at hand when select returned is never lost to the       *)
(* timeout, however late the process got to run: replies are received        *)
(* before timeouts are checked.  At hand is what raw sockets hold, what the   *)
(* error queue of a socket holds that has an error to report, and a stream    *)
(* socket that is done.  (The echoes of an unprivileged engine wait behind    *)
(* its errors: once recvmsg has reported one the loop reads errors only.)     *)
QueuedReplyBeatsTimeout ==
    pc = "timeouts" => due \cap outstanding_probes = {}

(* The engine implements the abstract service, safety and liveness: whatever *)
(* becomes of its probes every command the client writes is answered once,   *)
(* in output that is flushed before the engine sleeps, and once stdin is      *)
(* closed the process ends, after its last probe.  An engine without raw      *)
(* sockets may fail, of an error which the receive loop does not know.        *)
Service == INSTANCE CommandService
             WITH asked   <- written,
                  answers <- [r \in Requests |-> Len(flushed[r])],
                  stopped <- Gone,
                  fragile <- ~privileged
ImplementsCommandService == Service!Spec

============================================================================
