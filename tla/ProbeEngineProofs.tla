------------------------- MODULE ProbeEngineProofs -------------------------
(***************************************************************************)
(* Theorems about the event loop of mtr-packet, for every table size, port *)
(* range, number of commands and packets.                                  *)
(*                                                                         *)
(* One inductive invariant, IInv, carries them all: next to the properties *)
(* themselves it says that a probe in the list has a port, that the loop   *)
(* over ports works on a probe which is in the list, and what the program  *)
(* knows about its input once that has ended.                              *)
(*                                                                         *)
(* Over it: the engine's steps are those of CommandService; a reply at     *)
(* hand is received before its probe can time out; each stream socket is   *)
(* held by one probe of the list; and a line tells of its own command's    *)
(* probe until numbers come round.                                         *)
(***************************************************************************)
EXTENDS ProbeEngine, FiniteSetTheorems, SequenceTheorems, TLAPS

(* A probe in the list has a sequence number (platform_alloc_probe). *)
ProbesSequenced == \A r \in outstanding_probes : sequence[r] \in Ports

(* The loop over ports in send_probe works on the probe just allocated. *)
ConstructsOutstanding ==
    pc = "construct" => dispatched \in outstanding_probes

(* read_commands reports end of file when nothing more can be read. *)
PipeEndedForGood == ~command_pipe_open => closed /\ taken = written

(* main returns with its buffer dispatched and its list of probes empty. *)
ExitedForGood ==
    pc = "exited" =>
        /\ ~command_pipe_open
        /\ dispatched = taken
        /\ outstanding_probes = {}
        /\ flushed = printed

(* The part of TypeOK about the probe table and what it prints. *)
TableTyped ==
    /\ outstanding_probe_count \in Nat
    /\ sequence \in [Requests -> Ports \cup {0}]
    /\ socket \in [Requests -> Ports \cup {NoSocket}]
    /\ left \in [Requests -> Nat \cup {-1}]
    /\ open \in SUBSET (Requests \X Ports)
    /\ conn \in [Requests -> {"none", "pending", "up", "refused", "failed"}]
    /\ printed \in [Requests -> Seq(Lines)]

IInv ==
    /\ TypeOK
    /\ CountIsListLength
    /\ OneAnswerPerCommand
    /\ FlushedBeforeSelect
    /\ WakesByDeadline
    /\ ProbesSequenced
    /\ ConstructsOutstanding
    /\ PipeEndedForGood
    /\ ExitedForGood

----------------------------------------------------------------------------
(* The operators *)

(* The next sequence number is again in the port range, wrap or not. *)
LEMMA NextSequenceType ==
    ASSUME NEW s \in Ports PROVE NextSequence(s) \in Ports
BY ConstantsAssumption DEF Ports, NextSequence

(* A packet carries its probe's number in a sequence of port numbers. *)
LEMMA KeysType ==
    ASSUME NEW k, NEW s \in Ports PROVE Keys(k, s) \in Seq(Nat)
BY ConstantsAssumption DEF Ports, Keys

(* The list holds commands the client has written. *)
LEMMA ProbesAreRequests ==
    ASSUME TypeOK
    PROVE  /\ outstanding_probes \subseteq Requests
           /\ outstanding_probes \subseteq 1..dispatched
BY ConstantsAssumption DEF TypeOK, Requests

(* A list of probes is finite, and so is what is left of it when some are   *)
(* freed; the count goes down by as many.                                   *)
LEMMA ProbesFinite ==
    ASSUME TypeOK, NEW S \in SUBSET outstanding_probes
    PROVE  /\ IsFiniteSet(outstanding_probes) /\ IsFiniteSet(S)
           /\ Cardinality(outstanding_probes \ S) =
                Cardinality(outstanding_probes) - Cardinality(S)
           /\ Cardinality(S) \in Nat /\ Cardinality(outstanding_probes) \in Nat
           /\ Cardinality(outstanding_probes \ S) \in Nat
<1>1. IsFiniteSet(1..dispatched)
  BY FS_Interval DEF TypeOK
<1>2. IsFiniteSet(outstanding_probes)
  BY <1>1, FS_Subset DEF TypeOK
<1>3. IsFiniteSet(S) /\ IsFiniteSet(outstanding_probes \ S)
  BY <1>2, FS_Subset
<1>4. Cardinality(S \cup (outstanding_probes \ S)) =
        Cardinality(S) + Cardinality(outstanding_probes \ S)
          - Cardinality(S \cap (outstanding_probes \ S))
  BY <1>3, FS_Union
<1>5. /\ S \cup (outstanding_probes \ S) = outstanding_probes
      /\ S \cap (outstanding_probes \ S) = {}
  OBVIOUS
<1>6. /\ Cardinality(S) \in Nat /\ Cardinality(outstanding_probes) \in Nat
      /\ Cardinality(outstanding_probes \ S) \in Nat
  BY <1>2, <1>3, FS_CardinalityType
<1>7. Cardinality(outstanding_probes) =
        Cardinality(S) + Cardinality(outstanding_probes \ S) - 0
  BY <1>4, <1>5, FS_EmptySet
<1> QED
  BY <1>2, <1>3, <1>6, <1>7

(* Answering and freeing some of the listed probes keeps the table well     *)
(* formed, its count exact, and gives each of them its only answer.         *)
LEMMA FreeKeepsTable ==
    ASSUME TypeOK, CountIsListLength, OneAnswerPerCommand, ProbesSequenced,
           NEW S \in SUBSET outstanding_probes, NEW line \in [S -> Lines],
           RespondAndFree(S, line), dispatched' = dispatched
    PROVE  /\ outstanding_probes' = outstanding_probes \ S
           /\ outstanding_probes' \in SUBSET (1..dispatched)
           /\ TableTyped'
           /\ CountIsListLength'
           /\ OneAnswerPerCommand'
           /\ ProbesSequenced'
<1>1. outstanding_probes' = outstanding_probes \ S
  BY DEF RespondAndFree, ListRemove
<1>2. CountIsListLength' /\ outstanding_probe_count' \in Nat
  <2>1. outstanding_probe_count' = outstanding_probe_count - Cardinality(S)
    BY DEF RespondAndFree
  <2> QED
    BY <1>1, <2>1, ProbesFinite, ConstantsAssumption DEF CountIsListLength
<1>3. printed' \in [Requests -> Seq(Lines)]
  <2>1. printed \in [Requests -> Seq(Lines)] /\ S \subseteq Requests
    BY ProbesAreRequests DEF TypeOK
  <2>2. printed' = [r \in Requests |->
                      IF r \in S THEN Append(printed[r], line[r])
                                 ELSE printed[r]]
    BY DEF RespondAndFree
  <2> QED
    BY <2>1, <2>2
<1>4. OneAnswerPerCommand'
  <2> SUFFICES ASSUME NEW r \in Requests
               PROVE  Len(printed'[r]) =
                        IF r <= dispatched /\ r \notin outstanding_probes'
                          THEN 1 ELSE 0
    BY DEF OneAnswerPerCommand
  <2>1. printed[r] \in Seq(Lines)
    BY DEF TypeOK
  <2>2. CASE r \in S
    <3>1. printed'[r] = Append(printed[r], line[r]) /\ line[r] \in Lines
      BY <2>2 DEF RespondAndFree
    <3>2. Len(printed'[r]) = Len(printed[r]) + 1
      BY <2>1, <3>1
    <3>3. r \in 1..dispatched
      BY <2>2 DEF TypeOK
    <3> QED
      BY <1>1, <2>2, <3>2, <3>3 DEF OneAnswerPerCommand
  <2>3. CASE r \notin S
    BY <1>1, <2>3 DEF RespondAndFree, OneAnswerPerCommand
  <2> QED
    BY <2>2, <2>3
<1>5. /\ sequence' \in [Requests -> Ports \cup {0}]
      /\ socket' \in [Requests -> Ports \cup {NoSocket}]
      /\ left' \in [Requests -> Nat \cup {-1}]
      /\ conn' \in [Requests -> {"none", "pending", "up", "refused", "failed"}]
  <2>1. sequence' \in [Requests -> Ports \cup {0}]
    BY DEF RespondAndFree, TypeOK
  <2>2. socket' \in [Requests -> Ports \cup {NoSocket}]
    BY DEF RespondAndFree, TypeOK
  <2>3. left' \in [Requests -> Nat \cup {-1}]
    BY DEF RespondAndFree, TypeOK
  <2>4. conn' \in [Requests -> {"none", "pending", "up", "refused", "failed"}]
    BY DEF RespondAndFree, TypeOK
  <2> QED
    BY <2>1, <2>2, <2>3, <2>4
<1>6. open' \in SUBSET (Requests \X Ports)
  BY DEF RespondAndFree, CloseSockets, TypeOK
<1>7. ProbesSequenced'
  <2> SUFFICES ASSUME NEW r \in outstanding_probes' PROVE sequence'[r] \in Ports
    BY DEF ProbesSequenced
  <2>1. r \in Requests /\ r \in outstanding_probes /\ r \notin S
    BY <1>1, ProbesAreRequests
  <2> QED
    BY <2>1 DEF RespondAndFree, ProbesSequenced
<1> QED
  BY <1>1, <1>2, <1>3, <1>4, <1>5, <1>6, <1>7, ProbesAreRequests DEF TableTyped

(* Putting a new probe at the head of the list keeps the table well formed. *)
LEMMA AllocKeepsTable ==
    ASSUME TypeOK, CountIsListLength, OneAnswerPerCommand, ProbesSequenced,
           NEW r \in Requests, NextCommand(r), AllocProbe(r), printed' = printed
    PROVE  /\ outstanding_probes' \in SUBSET (1..r)
           /\ outstanding_probe_count' \in Nat
           /\ next_sequence' \in Ports
           /\ sequence' \in [Requests -> Ports \cup {0}]
           /\ left' \in [Requests -> Nat \cup {-1}]
           /\ r \in outstanding_probes'
           /\ CountIsListLength'
           /\ OneAnswerPerCommand'
           /\ ProbesSequenced'
<1>1. /\ outstanding_probes' = outstanding_probes \cup {r}
      /\ outstanding_probe_count' = outstanding_probe_count + 1
      /\ ~TableFull
  BY DEF AllocProbe
<1>2. r = dispatched + 1 /\ dispatched' = r /\ r \notin outstanding_probes
  BY ProbesAreRequests DEF NextCommand, TypeOK
<1>3. CountIsListLength' /\ outstanding_probe_count' \in Nat
  <2>1. Cardinality(outstanding_probes \cup {r}) = Cardinality(outstanding_probes) + 1
    BY <1>2, ProbesFinite, FS_AddElement
  <2>2. outstanding_probe_count = Cardinality(outstanding_probes)
    BY DEF CountIsListLength
  <2>3. outstanding_probe_count \in Nat
    BY DEF TypeOK
  <2> QED
    BY <1>1, <2>1, <2>2, <2>3, ConstantsAssumption DEF CountIsListLength, TableFull
<1>4. OneAnswerPerCommand'
  BY <1>1, <1>2, ProbesAreRequests DEF OneAnswerPerCommand, Requests, TypeOK
<1>5. next_sequence' \in Ports
  BY NextSequenceType DEF AllocProbe, TakeSequence, DrawSequence, TypeOK
<1>6. /\ sequence' \in [Requests -> Ports \cup {0}]
      /\ left' \in [Requests -> Nat \cup {-1}]
  BY DEF AllocProbe, TakeSequence, TypeOK
<1>7. ProbesSequenced'
  BY <1>1, ProbesAreRequests DEF ProbesSequenced, AllocProbe, TakeSequence, TypeOK
<1>8. outstanding_probes' \in SUBSET (1..r)
  BY <1>1, <1>2, ProbesAreRequests DEF TypeOK
<1> QED
  BY <1>1, <1>3, <1>4, <1>5, <1>6, <1>7, <1>8

----------------------------------------------------------------------------
(* The client, the network, the kernel and the clock *)

(* Writing a command or closing stdin disturbs only what is known of the    *)
(* client.                                                                  *)
LEMMA ClientStep ==
    ASSUME IInv, CloseStdin \/ \E k \in Kinds, t \in Timeouts : WriteCommand(k, t)
    PROVE  IInv'
<1>1. CASE CloseStdin
  BY <1>1 DEF IInv, CloseStdin, TypeOK, CountIsListLength, OneAnswerPerCommand,
       FlushedBeforeSelect, WakesByDeadline, ProbesSequenced,
       ConstructsOutstanding, PipeEndedForGood, ExitedForGood, streamVars,
       tableVars, seqVars, loopVars, waitVars, netVars, recvVars
<1>2. ASSUME NEW k \in Kinds, NEW t \in Timeouts, WriteCommand(k, t)
      PROVE  IInv'
  <2>1. TypeOK'
    <3>1. /\ written' \in 0..MaxRequests
          /\ taken' \in 0..written' /\ dispatched' \in 0..taken'
      BY <1>2, ConstantsAssumption DEF IInv, WriteCommand, TypeOK, streamVars,
           recvVars
    <3>2. kind' \in [Requests -> Kinds \cup {"none"}]
      BY <1>2 DEF IInv, WriteCommand, TypeOK
    <3>3. timeout' \in [Requests -> Nat]
      BY <1>2, ConstantsAssumption DEF IInv, WriteCommand, TypeOK
    <3>4. /\ UNCHANGED <<pc, privileged, recvVars, closed, command_pipe_open, tableVars>>
          /\ UNCHANGED <<dispatched, seqVars, loopVars, waitVars, netVars, printed, flushed>>
      BY <1>2 DEF WriteCommand, streamVars
    <3>5. TypeOK
      BY DEF IInv
    <3> QED
      BY <3>1, <3>2, <3>3, <3>4, <3>5, SMTT(40) DEF TypeOK, tableVars, seqVars,
           loopVars, waitVars, netVars, recvVars
  <2>2. ~closed
    BY <1>2 DEF WriteCommand
  <2> QED
    BY <1>2, <2>1, <2>2 DEF IInv, WriteCommand, CountIsListLength,
         OneAnswerPerCommand, FlushedBeforeSelect, WakesByDeadline,
         ProbesSequenced, ConstructsOutstanding, PipeEndedForGood,
         ExitedForGood, streamVars, tableVars, loopVars, waitVars
<1> QED
  BY <1>1, <1>2

(* What arrives is a packet or an error of its type.                        *)
LEMMA HeardType ==
    ASSUME TypeOK, NEW packet \in Heard PROVE packet \in Arrivals
<1>1. ASSUME NEW s \in sent
      PROVE  /\ s.port \in Ports /\ s.req \in Requests
             /\ Keys(kind[s.req], s.port) \in Seq(Nat)
             /\ SocketOf(kind[s.req]) \in Sockets
  BY KeysType DEF TypeOK, SocketOf, Sockets
<1>2. ASSUME NEW s \in sent, NEW type \in PacketTypes PROVE ReplyTo(s, type) \in Arrivals
  BY <1>1 DEF ReplyTo, Packet, Arrivals, Causes, Sockets, Errnos
<1>3. ASSUME NEW s \in Ports, NEW type \in PacketTypes
      PROVE  ForeignQuotation(s, type) \in Arrivals
  <2>1. <<s>> \in Seq(Nat)
    BY ConstantsAssumption DEF Ports
  <2> QED
    BY <2>1 DEF ForeignQuotation, Packet, Arrivals, Causes, Sockets, Errnos
<1>4. ASSUME NEW s \in Ports PROVE ForeignPacket(s) \in Arrivals
  <2>1. <<s>> \in Seq(Nat)
    BY ConstantsAssumption DEF Ports
  <2> QED
    BY <2>1 DEF ForeignPacket, Packet, Arrivals, Causes, Sockets, Errnos
<1>5. ASSUME NEW s \in sent PROVE EchoOf(s) \in Arrivals
  BY <1>1 DEF EchoOf, Packet, Arrivals, Causes, Sockets, Errnos
<1>6. ASSUME NEW s \in sent, NEW errno \in {"known", "unknown"}
      PROVE  ErrorOf(s, errno) \in Arrivals
  BY <1>1, <1>6 DEF ErrorOf, Packet, Arrivals, Causes, Errnos
<1> QED
  BY <1>2, <1>3, <1>4, <1>5, <1>6 DEF Heard

(* A packet only joins those of its socket, and an error is pending there.  *)
LEMMA NetworkStep ==
    ASSUME IInv, NEW packet \in Heard, Arrive(packet) PROVE IInv'
<1>1. packet \in Arrivals
  BY HeardType DEF IInv
<1>2. inbox' \in SUBSET Arrivals /\ arrivals' \in 0..MaxArrivals
  BY <1>1, ConstantsAssumption DEF IInv, TypeOK, Arrive
<1>3. pending' \in [Sockets -> Errnos]
  BY <1>1 DEF IInv, TypeOK, Arrive, Arrivals
<1>4. TypeOK'
  BY <1>2, <1>3 DEF IInv, Arrive, TypeOK, clientVars, streamVars,
       tableVars, seqVars, loopVars, waitVars, recvVars
<1> QED
  BY <1>4 DEF IInv, Arrive, CountIsListLength, OneAnswerPerCommand,
       FlushedBeforeSelect, WakesByDeadline, ProbesSequenced,
       ConstructsOutstanding, PipeEndedForGood, ExitedForGood, clientVars,
       streamVars, tableVars, waitVars

(* The kernel completes a connection. *)
LEMMA KernelStep ==
    ASSUME IInv, NEW r \in Requests, NEW outcome \in {"up", "refused", "failed"},
           FinishConnect(r, outcome)
    PROVE  IInv'
BY DEF IInv, FinishConnect, TypeOK, CountIsListLength, OneAnswerPerCommand,
     FlushedBeforeSelect, WakesByDeadline, ProbesSequenced,
     ConstructsOutstanding, PipeEndedForGood, ExitedForGood, clientVars,
     streamVars, seqVars, loopVars, waitVars, netVars, recvVars

(* As time passes the select timeout shrinks with the deadlines. *)
LEMMA TickStep ==
    ASSUME IInv, Tick PROVE IInv'
<1>1. /\ left' = [r \in Requests |->
                   IF r \in outstanding_probes /\ left[r] >= 0
                     THEN left[r] - 1 ELSE left[r]]
      /\ sleep' = IF sleep > 0 THEN sleep - 1 ELSE sleep
      /\ outstanding_probes' = outstanding_probes /\ pc' = pc
  BY DEF Tick
<1>2. left \in [Requests -> Nat \cup {-1}] /\ sleep \in Nat \cup {-1}
  BY DEF IInv, TypeOK, Forever
<1>3. left' \in [Requests -> Nat \cup {-1}] /\ sleep' \in Nat \cup {Forever}
  BY <1>1, <1>2 DEF Forever
<1>4. TypeOK'
  BY <1>3 DEF IInv, Tick, TypeOK, clientVars, streamVars, seqVars, loopVars, netVars,
       recvVars
<1>5. WakesByDeadline'
  BY <1>1, <1>2, ProbesAreRequests DEF IInv, WakesByDeadline, Clamp
<1> QED
  BY <1>4, <1>5 DEF IInv, Tick, CountIsListLength, OneAnswerPerCommand,
       FlushedBeforeSelect, ProbesSequenced, ConstructsOutstanding,
       PipeEndedForGood, ExitedForGood, clientVars, streamVars

----------------------------------------------------------------------------
(* The loop of main() *)

(* select returns. *)
LEMMA WakeUpStep ==
    ASSUME IInv, WakeUp PROVE IInv'
<1>1. due' \in SUBSET Requests
  BY ProbesAreRequests DEF IInv, WakeUp
<1>2. reading' \in {<<>>, <<"raw">>, <<"udp">>, <<"icmp", "udp">>} /\ flag' = flag
  BY DEF WakeUp, RecvSockets
<1>3. TypeOK'
  BY <1>1, <1>2 DEF IInv, WakeUp, TypeOK, clientVars, streamVars, tableVars, seqVars,
       loopVars, netVars
<1> QED
  BY <1>3 DEF IInv, WakeUp, CountIsListLength, OneAnswerPerCommand,
       FlushedBeforeSelect, WakesByDeadline, ProbesSequenced,
       ConstructsOutstanding, PipeEndedForGood, ExitedForGood, clientVars,
       streamVars, tableVars

(* A socket reports its error, and the loop goes on or the process ends.    *)
LEMMA RecvErrorStep ==
    ASSUME IInv, RecvError PROVE IInv'
<1>1. /\ pc = "recv" /\ pc' \in {"recv", "failed"} /\ flag' \in BOOLEAN
      /\ flushed' \in {flushed, printed}
  BY DEF RecvError, IInv, TypeOK
<1>2. pending' \in [Sockets -> Errnos]
  BY DEF RecvError, IInv, TypeOK, Errnos
<1>3. TypeOK'
  BY <1>1, <1>2 DEF IInv, RecvError, TypeOK, clientVars, streamVars, tableVars,
       seqVars, loopVars, waitVars
<1> QED
  BY <1>1, <1>3 DEF IInv, RecvError, CountIsListLength, OneAnswerPerCommand,
       FlushedBeforeSelect, WakesByDeadline, ProbesSequenced,
       ConstructsOutstanding, PipeEndedForGood, ExitedForGood, clientVars,
       streamVars, tableVars

(* Nothing comes after the only one.                                        *)
LEMMA TailOfOne == ASSUME NEW x PROVE Tail(<<x>>) = <<>>
<1>1. <<x>> \in Seq({x}) /\ <<x>> # <<>> /\ Len(<<x>>) = 1
  OBVIOUS
<1>2. Tail(<<x>>) \in Seq({x}) /\ Len(Tail(<<x>>)) = 0
  BY <1>1, HeadTailProperties
<1>3. Tail(<<x>>) # <<>> => Len(Tail(<<x>>)) \in Nat \ {0}
  BY <1>2, EmptySeq
<1> QED
  BY <1>2, <1>3

(* The sockets that are left to be read, after the first of them.           *)
LEMMA TailOfReading ==
    ASSUME TypeOK, reading # <<>>
    PROVE  Tail(reading) \in {<<>>, <<"raw">>, <<"udp">>, <<"icmp", "udp">>}
<1>1. reading = <<"icmp", "udp">> => Tail(reading) = <<"udp">>
  OBVIOUS
<1>2. reading = <<"raw">> => Tail(reading) = <<>>
  BY TailOfOne
<1>3. reading = <<"udp">> => Tail(reading) = <<>>
  BY TailOfOne
<1>4. reading \in {<<>>, <<"raw">>, <<"udp">>, <<"icmp", "udp">>}
  BY DEF TypeOK
<1> QED
  BY <1>1, <1>2, <1>3, <1>4

(* A socket has been read, and the next one is.                             *)
LEMMA NextSocketStep ==
    ASSUME IInv, NextSocket PROVE IInv'
<1>1. TypeOK'
  BY TailOfReading DEF IInv, NextSocket, TypeOK, clientVars, streamVars, tableVars,
     seqVars, loopVars, waitVars, netVars
<1> QED
  BY <1>1 DEF IInv, NextSocket, CountIsListLength, OneAnswerPerCommand,
       FlushedBeforeSelect, WakesByDeadline, ProbesSequenced,
       ConstructsOutstanding, PipeEndedForGood, ExitedForGood, clientVars,
       streamVars, tableVars, waitVars

(* What is read of an error queue leaves an error pending that is in it.    *)
LEMMA PendingTyped ==
    ASSUME TypeOK, NEW packet \in inbox, ReceivePacket(packet)
    PROVE  pending' \in [Sockets -> Errnos]
<1>1. CASE ~flag
  BY <1>1 DEF ReceivePacket, TypeOK
<1>2. CASE flag
  <2> DEFINE more == Errors(inbox \ {packet}, packet.socket)
  <2>1. PICK errno \in IF more = {} THEN {"none"} ELSE {e.errno : e \in more} :
              pending' = [pending EXCEPT ![packet.socket] = errno]
    BY <1>2 DEF ReceivePacket
  <2>2. \A e \in more : e.errno \in Errnos
    BY DEF Errors, TypeOK, Arrivals
  <2>3. errno \in Errnos
    BY <2>1, <2>2 DEF Errnos
  <2> QED
    BY <2>1, <2>3 DEF TypeOK
<1> QED
  BY <1>1, <1>2

(* A packet answers the probe it finds, if any. *)
LEMMA ReceiveStep ==
    ASSUME IInv, NEW packet \in inbox, ReceivePacket(packet) PROVE IInv'
<1>0. pending' \in [Sockets -> Errnos] /\ UNCHANGED <<pc, privileged>>
  BY PendingTyped DEF IInv, ReceivePacket
<1>1. ASSUME NEW r \in outstanding_probes,
             RespondAndFree({r}, [q \in {r} |-> Line(packet.type, packet.cause)])
      PROVE  IInv'
  <2> DEFINE line == [q \in {r} |-> Line(packet.type, packet.cause)]
  <2>1. line \in [{r} -> Lines]
    <3>1. packet.type \in Results /\ packet.cause \in Causes
      BY ConstantsAssumption DEF IInv, TypeOK, Arrivals, Results
    <3> QED
      BY <3>1 DEF Line, Lines
  <2>2. RespondAndFree({r}, line) /\ dispatched' = dispatched
    BY <1>1 DEF ReceivePacket, streamVars
  <2> HIDE DEF line
  <2>3. /\ outstanding_probes' \in SUBSET (1..dispatched)
        /\ TableTyped' /\ CountIsListLength' /\ OneAnswerPerCommand'
        /\ ProbesSequenced'
    BY <2>1, <2>2, FreeKeepsTable DEF IInv
  <2>4. TypeOK'
    BY <1>0, <2>3 DEF IInv, ReceivePacket, TypeOK, TableTyped, clientVars, streamVars,
         seqVars, loopVars, waitVars, recvVars
  <2> QED
    BY <2>3, <2>4 DEF IInv, ReceivePacket, FlushedBeforeSelect, WakesByDeadline,
         ConstructsOutstanding, PipeEndedForGood, ExitedForGood, clientVars,
         streamVars
<1>2. CASE UNCHANGED <<tableVars, printed>>
  <2>1. TypeOK'
    BY <1>0, <1>2 DEF IInv, ReceivePacket, TypeOK, clientVars, streamVars, tableVars,
         seqVars, loopVars, waitVars, recvVars
  <2> QED
    BY <1>2, <2>1 DEF IInv, ReceivePacket, CountIsListLength, OneAnswerPerCommand,
         FlushedBeforeSelect, WakesByDeadline, ProbesSequenced,
         ConstructsOutstanding, PipeEndedForGood, ExitedForGood, clientVars,
         streamVars, tableVars
<1> QED
  BY <1>1, <1>2 DEF ReceivePacket

(* Polling answers and frees the probes whose sockets have completed. *)
LEMMA PollStep ==
    ASSUME IInv, PollProbeSockets PROVE IInv'
<1> DEFINE done == {r \in outstanding_probes : Completed(r)}
           line == [r \in done |->
                      Line(IF conn[r] = "failed" THEN "packet-error"
                                                 ELSE "reply", r)]
<1>1. line \in [done -> Lines]
  BY ProbesAreRequests DEF IInv, Line, Lines, Results, Causes
<1>2. RespondAndFree(done, line) /\ dispatched' = dispatched
  BY DEF PollProbeSockets, streamVars
<1>3. done \in SUBSET outstanding_probes
  OBVIOUS
<1> HIDE DEF done, line
<1>4. /\ outstanding_probes' \in SUBSET (1..dispatched)
      /\ TableTyped' /\ CountIsListLength' /\ OneAnswerPerCommand'
      /\ ProbesSequenced'
  BY <1>1, <1>2, <1>3, FreeKeepsTable DEF IInv
<1>5. TypeOK'
  BY <1>4 DEF IInv, PollProbeSockets, TypeOK, TableTyped, clientVars, streamVars,
       seqVars, waitVars, netVars, recvVars
<1> QED
  BY <1>4, <1>5 DEF IInv, PollProbeSockets, FlushedBeforeSelect, WakesByDeadline,
       ConstructsOutstanding, PipeEndedForGood, ExitedForGood, clientVars,
       streamVars

(* Reading takes commands from the pipe, or learns that it has ended. *)
LEMMA ReadStep ==
    ASSUME IInv, ReadCommands PROVE IInv'
<1>1. /\ taken \in 0..written /\ dispatched \in 0..taken
      /\ written \in Nat /\ command_pipe_open \in BOOLEAN
  BY DEF IInv, TypeOK
<1>2. taken' \in 0..written /\ dispatched \in 0..taken'
  BY <1>1 DEF ReadCommands
<1>3. command_pipe_open' \in BOOLEAN
  BY <1>1 DEF ReadCommands
<1>4. ~command_pipe_open' => closed /\ taken' = written
  BY DEF IInv, ReadCommands, PipeEndedForGood, AtEof
<1>5. TypeOK'
  BY <1>2, <1>3 DEF IInv, ReadCommands, TypeOK, clientVars, tableVars, seqVars,
       loopVars, waitVars, netVars, recvVars
<1> QED
  BY <1>4, <1>5 DEF IInv, ReadCommands, CountIsListLength, OneAnswerPerCommand,
       FlushedBeforeSelect, WakesByDeadline, ProbesSequenced,
       ConstructsOutstanding, PipeEndedForGood, ExitedForGood, clientVars,
       tableVars

(* Checking timeouts answers and frees the probes which are late. *)
LEMMA TimeoutsStep ==
    ASSUME IInv, CheckProbeTimeouts PROVE IInv'
<1> DEFINE late == {r \in outstanding_probes : Expired(r)}
           line == [r \in late |-> Line("no-reply", r)]
<1>1. line \in [late -> Lines]
  BY ProbesAreRequests DEF IInv, Line, Lines, Results, Causes
<1>2. RespondAndFree(late, line) /\ dispatched' = dispatched
  BY DEF CheckProbeTimeouts, streamVars
<1>3. late \in SUBSET outstanding_probes
  OBVIOUS
<1> HIDE DEF late, line
<1>4. /\ outstanding_probes' \in SUBSET (1..dispatched)
      /\ TableTyped' /\ CountIsListLength' /\ OneAnswerPerCommand'
      /\ ProbesSequenced'
  BY <1>1, <1>2, <1>3, FreeKeepsTable DEF IInv
<1>5. TypeOK'
  BY <1>4 DEF IInv, CheckProbeTimeouts, TypeOK, TableTyped, clientVars,
       streamVars, seqVars, loopVars, waitVars, netVars, recvVars
<1> QED
  BY <1>4, <1>5 DEF IInv, CheckProbeTimeouts, FlushedBeforeSelect,
       WakesByDeadline, ConstructsOutstanding, PipeEndedForGood, ExitedForGood,
       clientVars, streamVars

(* A command which leaves no probe behind gets its one line at once. *)
LEMMA AnswerKeepsTable ==
    ASSUME TypeOK, OneAnswerPerCommand, NEW r \in Requests, NextCommand(r),
           NEW result \in Results, Respond(r, result, r),
           outstanding_probes' = outstanding_probes
    PROVE  /\ printed' \in [Requests -> Seq(Lines)]
           /\ OneAnswerPerCommand'
           /\ dispatched' \in 0..taken
           /\ outstanding_probes \in SUBSET (1..dispatched')
<1>1. r = dispatched + 1 /\ dispatched' = r /\ r <= taken
  BY DEF NextCommand, TypeOK
<1>2. printed \in [Requests -> Seq(Lines)] /\ Line(result, r) \in Lines
  BY DEF TypeOK, Line, Lines, Causes
<1>3. printed' = [printed EXCEPT ![r] = Append(@, Line(result, r))]
  BY DEF Respond
<1>4. printed' \in [Requests -> Seq(Lines)]
  BY <1>2, <1>3
<1>5. dispatched \in Nat
  BY DEF TypeOK
<1>6. OneAnswerPerCommand'
  <2> SUFFICES ASSUME NEW q \in Requests
               PROVE  Len(printed'[q]) =
                        IF q <= r /\ q \notin outstanding_probes THEN 1 ELSE 0
    BY <1>1 DEF OneAnswerPerCommand
  <2>1. CASE q = r
    <3>1. r \notin outstanding_probes /\ ~(r <= dispatched)
      BY <1>1, ProbesAreRequests DEF TypeOK
    <3>2. Len(printed[r]) = 0 /\ printed[r] \in Seq(Lines)
      BY <1>2, <3>1 DEF OneAnswerPerCommand
    <3>3. printed'[r] = Append(printed[r], Line(result, r))
      BY <1>2, <1>3
    <3> QED
      BY <1>1, <1>2, <1>5, <2>1, <3>1, <3>2, <3>3
  <2>2. CASE q # r
    <3>1. printed'[q] = printed[q]
      BY <1>2, <1>3, <2>2
    <3>2. q <= r <=> q <= dispatched
      BY <1>1, <1>5, <2>2, ConstantsAssumption DEF Requests
    <3>3. Len(printed[q]) =
            IF q <= dispatched /\ q \notin outstanding_probes THEN 1 ELSE 0
      BY DEF OneAnswerPerCommand
    <3> QED
      BY <3>1, <3>2, <3>3
  <2> QED
    BY <2>1, <2>2
<1> QED
  BY <1>1, <1>4, <1>6, ProbesAreRequests DEF TypeOK

(* The three ways in which a dispatched command is answered at once. *)
LEMMA DispatchAnsweredStep ==
    ASSUME IInv, NEW r \in Requests,
           DispatchImmediate(r) \/ DispatchExhausted(r) \/ DispatchUnsendable(r)
    PROVE  IInv'
<1>1. PICK result \in Results : NextCommand(r) /\ Respond(r, result, r)
  BY DEF DispatchImmediate, DispatchExhausted, DispatchUnsendable, Results
<1>2. /\ UNCHANGED <<pc, privileged, recvVars, clientVars, command_pipe_open, taken,
                     tableVars, tries, waitVars, sent, inbox, arrivals, flushed>>
      /\ UNCHANGED next_sequence \/ DrawSequence
      /\ errno_in_use' \in {errno_in_use, FALSE}
      /\ pending' \in {pending, [pending EXCEPT ![SocketOf(kind[r])] = "none"]}
  BY DEF DispatchImmediate, DispatchExhausted, DispatchUnsendable, NextCommand,
     seqVars, loopVars, netVars
<1>3. pc = "dispatch"
  BY <1>1 DEF NextCommand
<1>4. /\ printed' \in [Requests -> Seq(Lines)]
      /\ OneAnswerPerCommand'
      /\ dispatched' \in 0..taken
      /\ outstanding_probes \in SUBSET (1..dispatched')
  BY <1>1, <1>2, AnswerKeepsTable DEF IInv, tableVars
<1>5. /\ next_sequence' \in Ports /\ errno_in_use' \in BOOLEAN
      /\ pending' \in [Sockets -> Errnos]
  <2>1. next_sequence' \in Ports
    BY <1>2, NextSequenceType DEF DrawSequence, IInv, TypeOK
  <2>2. errno_in_use' \in BOOLEAN
    BY <1>2 DEF IInv, TypeOK
  <2>3. pending' \in [Sockets -> Errnos]
    BY <1>2 DEF IInv, TypeOK, Errnos
  <2> QED
    BY <2>1, <2>2, <2>3
<1>6. TypeOK'
  <2>1. TypeOK
    BY DEF IInv
  <2> QED
    BY <1>2, <1>4, <1>5, <2>1, SMTT(40) DEF TypeOK, clientVars, tableVars, waitVars,
         recvVars
<1> QED
  BY <1>2, <1>3, <1>4, <1>6 DEF IInv, CountIsListLength, FlushedBeforeSelect,
       WakesByDeadline, ProbesSequenced, ConstructsOutstanding,
       PipeEndedForGood, ExitedForGood, clientVars, tableVars, waitVars

(* A probe enters the list, and its packet the network or its port loop. *)
LEMMA DispatchProbeStep ==
    ASSUME IInv, NEW r \in Requests, DispatchDatagram(r) \/ DispatchStream(r)
    PROVE  IInv'
<1>1. /\ NextCommand(r) /\ AllocProbe(r)
      /\ UNCHANGED <<privileged, recvVars, clientVars, command_pipe_open, taken, socket,
                     open, conn, errno_in_use, waitVars, inbox, arrivals, pending,
                     printed, flushed>>
      /\ tries' \in {tries, 0}
      /\ sent' \in {sent, sent \cup {[req |-> r, port |-> next_sequence]}}
      /\ pc' \in {"dispatch", "construct"}
  BY DEF DispatchDatagram, DispatchStream, NextCommand, loopVars, netVars
<1>2. /\ outstanding_probes' \in SUBSET (1..r)
      /\ outstanding_probe_count' \in Nat
      /\ next_sequence' \in Ports
      /\ sequence' \in [Requests -> Ports \cup {0}]
      /\ left' \in [Requests -> Nat \cup {-1}]
      /\ r \in outstanding_probes'
      /\ CountIsListLength' /\ OneAnswerPerCommand' /\ ProbesSequenced'
  BY <1>1, AllocKeepsTable DEF IInv
<1>3. dispatched' = r /\ r \in 0..taken
  BY <1>1 DEF NextCommand, IInv, TypeOK
<1>4. tries' \in 0..(MaxPort - MinPort - 1)
  BY <1>1, ConstantsAssumption DEF IInv, TypeOK
<1>5. sent' \in SUBSET [req : Requests, port : Ports]
  BY <1>1 DEF IInv, TypeOK
<1>6. TypeOK'
  BY <1>1, <1>2, <1>3, <1>4, <1>5 DEF IInv, TypeOK, clientVars, waitVars,
       recvVars
<1> QED
  BY <1>1, <1>2, <1>3, <1>6 DEF IInv, FlushedBeforeSelect, WakesByDeadline,
       ConstructsOutstanding, PipeEndedForGood, ExitedForGood, clientVars

(* A round of the port loop which keeps the probe: it may record a socket   *)
(* and take another sequence number, and goes on or ends.                   *)
LEMMA RoundKeepsProbe ==
    ASSUME IInv, NEW r \in outstanding_probes, pc = "construct", r = dispatched,
           UNCHANGED <<privileged, recvVars, clientVars, streamVars, outstanding_probes,
                       outstanding_probe_count, left, waitVars, inbox, arrivals,
                       pending, printed, flushed>>,
           UNCHANGED <<sequence, seqVars>> \/ TakeSequence(r),
           \/ UNCHANGED <<socket, open, conn, sent>>
           \/ OpenSocket(r, "pending") \/ OpenSocket(r, "up"),
           pc' \in {"construct", "dispatch"},
           tries' \in 0..(MaxPort - MinPort - 1), errno_in_use' \in BOOLEAN
    PROVE  IInv'
<1>1. r \in Requests /\ sequence[r] \in Ports
  BY ProbesAreRequests DEF IInv, ProbesSequenced
<1>2. /\ sequence' \in [Requests -> Ports \cup {0}]
      /\ next_sequence' \in Ports
      /\ \A q \in outstanding_probes : sequence'[q] \in Ports
  <2>1. /\ sequence \in [Requests -> Ports \cup {0}]
        /\ next_sequence \in Ports
        /\ \A q \in outstanding_probes : sequence[q] \in Ports
    BY DEF IInv, TypeOK, ProbesSequenced
  <2>2. CASE UNCHANGED <<sequence, seqVars>>
    BY <2>1, <2>2 DEF seqVars
  <2>3. CASE TakeSequence(r)
    <3>1. next_sequence' \in Ports
      BY <2>1, <2>3, NextSequenceType DEF TakeSequence, DrawSequence
    <3>2. sequence' = [sequence EXCEPT ![r] = next_sequence]
      BY <2>3 DEF TakeSequence
    <3>3. /\ sequence' \in [Requests -> Ports \cup {0}]
          /\ \A q \in outstanding_probes : sequence'[q] \in Ports
      BY <1>1, <2>1, <3>2
    <3> QED
      BY <3>1, <3>3
  <2> QED
    BY <2>2, <2>3
<1>3. /\ socket' \in [Requests -> Ports \cup {NoSocket}]
      /\ open' \in SUBSET (Requests \X Ports)
      /\ conn' \in [Requests -> {"none", "pending", "up", "refused", "failed"}]
      /\ sent' \in SUBSET [req : Requests, port : Ports]
  <2>1. /\ socket \in [Requests -> Ports \cup {NoSocket}]
        /\ open \in SUBSET (Requests \X Ports)
        /\ conn \in [Requests -> {"none", "pending", "up", "refused", "failed"}]
        /\ sent \in SUBSET [req : Requests, port : Ports]
    BY DEF IInv, TypeOK
  <2>2. ASSUME NEW state \in {"pending", "up"}, OpenSocket(r, state)
        PROVE  /\ socket' \in [Requests -> Ports \cup {NoSocket}]
               /\ open' \in SUBSET (Requests \X Ports)
               /\ conn' \in [Requests -> {"none", "pending", "up", "refused", "failed"}]
               /\ sent' \in SUBSET [req : Requests, port : Ports]
    <3>1. socket' \in [Requests -> Ports \cup {NoSocket}]
      BY <1>1, <2>1, <2>2 DEF OpenSocket
    <3>2. open' \in SUBSET (Requests \X Ports)
      BY <1>1, <2>1, <2>2 DEF OpenSocket
    <3>3. conn' \in [Requests -> {"none", "pending", "up", "refused", "failed"}]
      BY <1>1, <2>1, <2>2 DEF OpenSocket
    <3>4. sent' \in SUBSET [req : Requests, port : Ports]
      BY <1>1, <2>1, <2>2 DEF OpenSocket
    <3> QED
      BY <3>1, <3>2, <3>3, <3>4
  <2> QED
    BY <2>1, <2>2
<1>4. TypeOK'
  BY <1>2, <1>3 DEF IInv, TypeOK, clientVars, streamVars, waitVars, recvVars
<1> QED
  BY <1>2, <1>4 DEF IInv, CountIsListLength, OneAnswerPerCommand,
       FlushedBeforeSelect, WakesByDeadline, ProbesSequenced,
       ConstructsOutstanding, PipeEndedForGood, ExitedForGood, clientVars,
       streamVars, waitVars

(* A round which ends the loop with an answer frees the probe. *)
LEMMA RoundFreesProbe ==
    ASSUME IInv, NEW r \in outstanding_probes, NEW result \in Results,
           RespondAndFree({r}, [q \in {r} |-> Line(result, q)]),
           UNCHANGED <<privileged, recvVars, clientVars, streamVars, waitVars, netVars,
                       flushed>>,
           UNCHANGED seqVars \/ DrawSequence,
           pc = "construct", pc' = "dispatch", tries' = 0, errno_in_use' \in BOOLEAN
    PROVE  IInv'
<1> DEFINE line == [q \in {r} |-> Line(result, q)]
<1>1. line \in [{r} -> Lines]
  BY ProbesAreRequests DEF IInv, Line, Lines, Causes
<1>2. RespondAndFree({r}, line) /\ dispatched' = dispatched
  BY DEF streamVars
<1> HIDE DEF line
<1>3. /\ outstanding_probes' \in SUBSET (1..dispatched)
      /\ TableTyped' /\ CountIsListLength' /\ OneAnswerPerCommand'
      /\ ProbesSequenced'
  BY <1>1, <1>2, FreeKeepsTable DEF IInv
<1>4. /\ next_sequence' \in Ports
      /\ tries' \in 0..(MaxPort - MinPort - 1)
  BY NextSequenceType, ConstantsAssumption DEF IInv, TypeOK, DrawSequence, seqVars,
       recvVars
<1>5. TypeOK'
  BY <1>3, <1>4 DEF IInv, TypeOK, TableTyped, clientVars, streamVars, waitVars,
       netVars, recvVars
<1> QED
  BY <1>3, <1>5 DEF IInv, FlushedBeforeSelect, WakesByDeadline,
       ConstructsOutstanding, PipeEndedForGood, ExitedForGood, clientVars,
       streamVars, waitVars

(* Every outcome of open_stream_socket is a round of one kind or the other. *)
LEMMA ConstructStep ==
    ASSUME IInv, NEW r \in Requests, Construct(r) PROVE IInv'
<1>1. /\ pc = "construct" /\ r = dispatched /\ r \in outstanding_probes
      /\ UNCHANGED <<privileged, recvVars, clientVars, streamVars, waitVars, inbox,
                     arrivals, pending, flushed>>
  BY DEF Construct, IInv, ConstructsOutstanding
<1>2. /\ tries \in 0..(MaxPort - MinPort - 1) /\ errno_in_use \in BOOLEAN
      /\ MinPort \in Nat /\ MaxPort \in Nat /\ MinPort < MaxPort
  BY ConstantsAssumption DEF IInv, TypeOK
<1>3. CASE ConstructInProgress(r)
  <2>1. tries' = 0 /\ errno_in_use' = FALSE
    BY <1>3 DEF ConstructInProgress
  <2>2. tries' \in 0..(MaxPort - MinPort - 1)
    BY <1>2, <2>1
  <2> QED
    BY <1>1, <1>3, <2>1, <2>2, RoundKeepsProbe DEF ConstructInProgress
<1>4. CASE ConstructConnected(r)
  <2>1. errno_in_use' \in BOOLEAN
    BY <1>2, <1>4 DEF ConstructConnected
  <2>2. tries' \in 0..(MaxPort - MinPort - 1) /\ pc' \in {"construct", "dispatch"}
    BY <1>1, <1>2, <1>4 DEF ConstructConnected, LastTry
  <2> QED
    BY <1>1, <1>4, <2>1, <2>2, RoundKeepsProbe DEF ConstructConnected
<1>5. CASE ConstructInUse(r)
  <2>1. CASE LastTry
    BY <1>1, <1>5, <2>1, RoundFreesProbe DEF ConstructInUse, netVars, Results
  <2>2. CASE ~LastTry
    <3>1. tries' = tries + 1 /\ errno_in_use' = TRUE
      BY <1>5, <2>2 DEF ConstructInUse
    <3>2. tries' \in 0..(MaxPort - MinPort - 1)
      BY <1>2, <2>2, <3>1 DEF LastTry
    <3> QED
      BY <1>1, <1>5, <2>2, <3>1, <3>2, RoundKeepsProbe DEF ConstructInUse
  <2> QED
    BY <2>1, <2>2
<1>6. ASSUME NEW result \in {"reply", "packet-error"}, ConstructFailed(r, result)
      PROVE  IInv'
  BY <1>1, <1>6, RoundFreesProbe DEF ConstructFailed, netVars, Results
<1> QED
  BY <1>3, <1>4, <1>5, <1>6 DEF Construct

(* At the end of the loop main returns, or flushes and waits no longer than *)
(* the soonest deadline.                                                    *)
LEMMA EndOfLoopStep ==
    ASSUME IInv, EndOfLoop PROVE IInv'
<1>1. /\ flushed' = printed /\ printed' = printed /\ dispatched = taken
      /\ UNCHANGED <<privileged, recvVars, clientVars, streamVars, tableVars, seqVars,
                     loopVars, netVars>>
      /\ due' = {}
  BY DEF EndOfLoop, Flush
<1>2. left \in [Requests -> Nat \cup {-1}] /\ outstanding_probes \subseteq Requests
  BY ProbesAreRequests DEF IInv, TypeOK
<1>3. CASE MayExit /\ pc' = "exited" /\ UNCHANGED sleep
  <2>1. outstanding_probes = {}
    BY <1>3, ProbesFinite, FS_EmptySet DEF MayExit, IInv, CountIsListLength
  <2>2. TypeOK'
    BY <1>1, <1>3 DEF IInv, TypeOK, clientVars, streamVars, tableVars, seqVars,
         loopVars, netVars, recvVars
  <2> QED
    BY <1>1, <1>3, <2>1, <2>2 DEF IInv, MayExit, CountIsListLength,
         OneAnswerPerCommand, FlushedBeforeSelect, WakesByDeadline,
         ProbesSequenced, ConstructsOutstanding, PipeEndedForGood, ExitedForGood,
         clientVars, streamVars, tableVars
<1>4. CASE /\ pc' = "select"
           /\ sleep' \in {t \in {Forever} \cup {Clamp(left[r]) : r \in outstanding_probes} :
                           SelectTimeout(t)}
  <2>1. SelectTimeout(sleep') /\ sleep' \in Nat \cup {Forever}
    BY <1>2, <1>4 DEF Clamp
  <2>2. TypeOK'
    BY <1>1, <1>4, <2>1 DEF IInv, TypeOK, clientVars, streamVars, tableVars,
         seqVars, loopVars, netVars, recvVars
  <2>3. ASSUME outstanding_probes # {}
        PROVE  sleep' >= 0 /\ \A r \in outstanding_probes : sleep' <= Clamp(left[r])
    BY <1>2, <2>1, <2>3 DEF SelectTimeout, Soonest, Clamp
  <2>4. WakesByDeadline' /\ FlushedBeforeSelect'
    BY <1>1, <2>3 DEF WakesByDeadline, FlushedBeforeSelect, tableVars, Clamp
  <2> QED
    BY <1>1, <1>4, <2>2, <2>4 DEF IInv, CountIsListLength, OneAnswerPerCommand,
         ProbesSequenced, ConstructsOutstanding, PipeEndedForGood, ExitedForGood,
         clientVars, streamVars, tableVars
<1> QED
  BY <1>3, <1>4 DEF EndOfLoop

----------------------------------------------------------------------------
(* The theorems *)

LEMMA InitIInv == Init => IInv
<1> SUFFICES ASSUME Init PROVE IInv
  OBVIOUS
<1>1. TypeOK
  <2>1. /\ next_sequence \in Ports
        /\ tries \in 0..(MaxPort - MinPort - 1)
        /\ written \in 0..MaxRequests /\ arrivals \in 0..MaxArrivals
    BY ConstantsAssumption DEF Init, Ports
  <2>2. /\ printed \in [Requests -> Seq(Lines)]
        /\ flushed \in [Requests -> Seq(Lines)]
    BY DEF Init
  <2>3. /\ kind \in [Requests -> Kinds \cup {"none"}]
        /\ timeout \in [Requests -> Nat]
        /\ sequence \in [Requests -> Ports \cup {0}]
        /\ socket \in [Requests -> Ports \cup {NoSocket}]
        /\ left \in [Requests -> Nat \cup {-1}]
        /\ conn \in [Requests -> {"none", "pending", "up", "refused", "failed"}]
    BY DEF Init, NoSocket
  <2>4. taken \in 0..written /\ dispatched \in 0..taken
    BY DEF Init
  <2>5. /\ closed \in BOOLEAN /\ command_pipe_open \in BOOLEAN
        /\ errno_in_use \in BOOLEAN /\ privileged \in BOOLEAN /\ flag \in BOOLEAN
    BY Zenon DEF Init
  <2>6. pending \in [Sockets -> Errnos]
    BY DEF Init, Errnos
  <2> QED
    BY <2>1, <2>2, <2>3, <2>4, <2>5, <2>6 DEF Init, TypeOK, Forever
<1>2. CountIsListLength
  BY FS_EmptySet, ConstantsAssumption DEF Init, CountIsListLength
<1>3. OneAnswerPerCommand
  BY ConstantsAssumption DEF Init, OneAnswerPerCommand, Requests
<1> QED
  BY <1>1, <1>2, <1>3 DEF Init, IInv, FlushedBeforeSelect, WakesByDeadline,
       ProbesSequenced, ConstructsOutstanding, PipeEndedForGood, ExitedForGood

LEMMA NextIInv == IInv /\ [Next]_vars => IInv'
<1> SUFFICES ASSUME IInv, [Next]_vars PROVE IInv'
  OBVIOUS
<1>1. CASE Environment
  BY <1>1, ClientStep, NetworkStep, KernelStep DEF Environment
<1>2. CASE Tick
  BY <1>2, TickStep
<1>3. CASE Engine
  BY <1>3, WakeUpStep, RecvErrorStep, ReceiveStep, NextSocketStep, PollStep, ReadStep, TimeoutsStep,
     DispatchAnsweredStep, DispatchProbeStep, ConstructStep, EndOfLoopStep
     DEF Engine
<1>4. CASE UNCHANGED vars
  <2>1. TypeOK'
    BY <1>4 DEF IInv, TypeOK, vars, clientVars, streamVars, tableVars, seqVars,
         loopVars, waitVars, netVars, recvVars
  <2> QED
    BY <1>4, <2>1 DEF IInv, vars, CountIsListLength, OneAnswerPerCommand,
         FlushedBeforeSelect, WakesByDeadline, ProbesSequenced,
         ConstructsOutstanding, PipeEndedForGood, ExitedForGood, clientVars,
         streamVars, tableVars, waitVars
<1> QED
  BY <1>1, <1>2, <1>3, <1>4 DEF Next, Exited

(* The inductive invariant holds of every state of the event loop. *)
THEOREM Invariance == Spec => []IInv
BY InitIInv, NextIInv, PTL DEF Spec

(* Every variable keeps its type. *)
THEOREM TypeCorrect == Spec => []TypeOK
<1>1. IInv => TypeOK
  BY DEF IInv
<1> QED
  BY <1>1, Invariance, PTL

(* The count on which allocation and exit depend is the length of the list, *)
(* and never more than MAX_PROBES (alloc_probe, free_probe).                *)
THEOREM CountCorrect == Spec => []CountIsListLength
<1>1. IInv => CountIsListLength
  BY DEF IInv
<1> QED
  BY <1>1, Invariance, PTL

(* No command is answered twice, and none that has been dispatched is        *)
(* without both its probe and its answer.                                   *)
THEOREM AnsweredOnce == Spec => []OneAnswerPerCommand
<1>1. IInv => OneAnswerPerCommand
  BY DEF IInv
<1> QED
  BY <1>1, Invariance, PTL

(* main returns only when each command the client wrote has its answer, and *)
(* the answer has been written.                                             *)
THEOREM AllAnsweredAtExit == Spec => []NothingLostAtExit
<1>1. IInv => NothingLostAtExit
  <2> SUFFICES ASSUME IInv, pc = "exited", NEW r \in 1..written
               PROVE  Len(flushed[r]) = 1
    BY DEF NothingLostAtExit
  <2>1. /\ ~command_pipe_open /\ dispatched = taken
        /\ outstanding_probes = {} /\ flushed = printed
    BY DEF IInv, ExitedForGood
  <2>2. r \in Requests /\ r <= dispatched
    BY <2>1, ConstantsAssumption DEF IInv, TypeOK, PipeEndedForGood, Requests
  <2> QED
    BY <2>1, <2>2 DEF IInv, OneAnswerPerCommand
<1> QED
  BY <1>1, Invariance, PTL

(* select never waits past a deadline, nor with a negative timeout.         *)
THEOREM DeadlineKept == Spec => []WakesByDeadline
<1>1. IInv => WakesByDeadline
  BY DEF IInv
<1> QED
  BY <1>1, Invariance, PTL

(* select never waits while a response is in the stdio buffer.              *)
THEOREM FlushedFirst == Spec => []FlushedBeforeSelect
<1>1. IInv => FlushedBeforeSelect
  BY DEF IInv
<1> QED
  BY <1>1, Invariance, PTL

----------------------------------------------------------------------------
(* The sockets that are read *)

(* Raw sockets hold no errors, an unprivileged engine has none of them, and  *)
(* MSG_ERRQUEUE is set only while a socket that reported an error is read.   *)
RecvInv ==
    /\ \A packet \in inbox : /\ packet.socket = "raw" <=> privileged
                             /\ privileged => packet.errno = "none"
    /\ pending["raw"] = "none"
    /\ flag => ~privileged /\ pc = "recv" /\ reading # <<>>
    /\ pc = "recv" => reading \in IF privileged
                                   THEN {<<"raw">>, <<>>}
                                   ELSE {<<"icmp", "udp">>, <<"udp">>, <<>>}

(* What arrives at the sockets of an engine is for those it has.            *)
LEMMA HeardAtSocket ==
    ASSUME NEW packet \in Heard
    PROVE  /\ packet.socket = "raw" <=> privileged
           /\ privileged => packet.errno = "none"
           /\ packet.errno # "none" => packet.socket # "raw"
<1>1. CASE privileged
  BY <1>1 DEF Heard, ReplyTo, ForeignPacket, ForeignQuotation, Packet
<1>2. CASE ~privileged
  BY <1>2 DEF Heard, EchoOf, ErrorOf, Packet, SocketOf
<1> QED
  BY <1>1, <1>2

LEMMA NextRecvInv == IInv /\ RecvInv /\ [Next]_vars => RecvInv'
<1> SUFFICES ASSUME IInv, RecvInv, [Next]_vars PROVE RecvInv'
  OBVIOUS
<1>0. pending \in [Sockets -> Errnos] /\ "raw" \in Sockets
  BY DEF IInv, TypeOK, Sockets
<1>1. CASE UNCHANGED <<inbox, privileged, pending, reading, flag>>
           /\ (pc' = pc \/ (~flag /\ pc' # "recv"))
  BY <1>1 DEF RecvInv
<1>2. ASSUME NEW k \in Kinds, NEW t \in Timeouts, WriteCommand(k, t) PROVE RecvInv'
  <2>1. UNCHANGED <<inbox, privileged, pending, reading, flag, pc>>
    BY <1>2 DEF WriteCommand, recvVars, netVars
  <2> QED
    BY <1>1, <2>1
<1>3. CASE CloseStdin \/ Tick \/ UNCHANGED vars
           \/ \E r \in Requests, outcome \in {"up", "refused", "failed"} : FinishConnect(r, outcome)
  <2>1. UNCHANGED <<inbox, privileged, pending, reading, flag, pc>>
    BY <1>3 DEF CloseStdin, Tick, FinishConnect, vars, recvVars, netVars
  <2> QED
    BY <1>1, <2>1
<1>4. ASSUME NEW packet \in Heard, Arrive(packet) PROVE RecvInv'
  <2>1. inbox' = inbox \cup {packet} /\ UNCHANGED <<privileged, reading, flag, pc>>
    BY <1>4 DEF Arrive, recvVars
  <2>2. pending'["raw"] = "none"
    BY <1>0, <1>4, HeardAtSocket DEF Arrive, RecvInv
  <2> QED
    BY <2>1, <2>2, HeardAtSocket DEF RecvInv
<1>5. CASE WakeUp
  <2>1. /\ pc = "select" /\ reading' = RecvSockets
        /\ UNCHANGED <<inbox, privileged, pending, flag>>
    BY <1>5 DEF WakeUp, netVars
  <2>2. ~flag
    BY <2>1 DEF RecvInv
  <2> QED
    BY <2>1, <2>2 DEF RecvInv, RecvSockets
<1>6. CASE RecvError
  <2>1. /\ pc = "recv" /\ reading # <<>> /\ UNCHANGED <<inbox, privileged, reading>>
        /\ pending[Head(reading)] # "none" /\ ~flag
        /\ pending' = [pending EXCEPT ![Head(reading)] = "none"]
        /\ pc' = pc \/ (~flag' /\ pc' = "failed")
    BY <1>6 DEF RecvError
  <2>2. ~privileged
    BY <2>1 DEF RecvInv
  <2>3. pending'["raw"] = "none"
    BY <1>0, <2>1 DEF RecvInv
  <2> QED
    BY <2>1, <2>2, <2>3 DEF RecvInv
<1>7. ASSUME NEW packet \in inbox, ReceivePacket(packet) PROVE RecvInv'
  <2>1. inbox' = inbox \ {packet} /\ UNCHANGED <<privileged, reading, flag, pc>>
    BY <1>7 DEF ReceivePacket, recvVars
  <2>2. pending'["raw"] = "none"
    BY <1>0, <1>7 DEF ReceivePacket, RecvInv
  <2> QED
    BY <2>1, <2>2 DEF RecvInv
<1>8. CASE NextSocket
  <2>1. /\ pc = "recv" /\ reading # <<>> /\ reading' = Tail(reading) /\ flag' = FALSE
        /\ UNCHANGED <<pc, inbox, privileged, pending>>
    BY <1>8 DEF NextSocket, netVars
  <2>2. reading' \in IF privileged THEN {<<"raw">>, <<>>}
                                    ELSE {<<"icmp", "udp">>, <<"udp">>, <<>>}
    <3>1. CASE privileged
      <4>1. reading = <<"raw">>
        BY <2>1, <3>1 DEF RecvInv
      <4>. QED
        BY <2>1, <3>1, <4>1, TailOfOne
    <3>2. CASE ~privileged
      <4>1. reading \in {<<"icmp", "udp">>, <<"udp">>}
        BY <2>1, <3>2 DEF RecvInv
      <4>2. reading = <<"icmp", "udp">> => Tail(reading) = <<"udp">>
        OBVIOUS
      <4>3. reading = <<"udp">> => Tail(reading) = <<>>
        BY TailOfOne
      <4>. QED
        BY <2>1, <3>2, <4>1, <4>2, <4>3
    <3>. QED
      BY <3>1, <3>2
  <2> QED
    BY <2>1, <2>2 DEF RecvInv
<1>9. CASE PollProbeSockets
  <2>1. reading = <<>> /\ pc' = "read" /\ UNCHANGED <<inbox, privileged, pending, reading, flag>>
    BY <1>9 DEF PollProbeSockets, recvVars, netVars
  <2> QED
    BY <1>1, <2>1 DEF RecvInv
<1>10. CASE ReadCommands \/ CheckProbeTimeouts \/ EndOfLoop
  <2>1. pc # "recv" /\ pc' # "recv" /\ UNCHANGED <<inbox, privileged, pending, reading, flag>>
    BY <1>10 DEF ReadCommands, CheckProbeTimeouts, EndOfLoop, recvVars, netVars
  <2> QED
    BY <1>1, <2>1 DEF RecvInv
<1>11. ASSUME NEW r \in Requests,
              DispatchImmediate(r) \/ DispatchExhausted(r) \/ DispatchDatagram(r)
                \/ DispatchStream(r)
       PROVE  RecvInv'
  <2>1. pc # "recv" /\ pc' # "recv" /\ UNCHANGED <<inbox, privileged, pending, reading, flag>>
    BY <1>11 DEF DispatchImmediate, DispatchExhausted, DispatchDatagram, DispatchStream,
       NextCommand, recvVars, netVars
  <2> QED
    BY <1>1, <2>1 DEF RecvInv
<1>12. ASSUME NEW r \in Requests, DispatchUnsendable(r) PROVE RecvInv'
  <2>1. /\ pc # "recv" /\ pc' = pc /\ UNCHANGED <<inbox, privileged, reading, flag>>
        /\ pending' \in {pending, [pending EXCEPT ![SocketOf(kind[r])] = "none"]}
    BY <1>12 DEF DispatchUnsendable, NextCommand, recvVars
  <2>2. pending'["raw"] = "none"
    BY <1>0, <2>1 DEF RecvInv
  <2> QED
    BY <2>1, <2>2 DEF RecvInv
<1>13. ASSUME NEW r \in Requests, Construct(r) PROVE RecvInv'
  <2>1. pc # "recv" /\ pc' # "recv" /\ UNCHANGED <<inbox, privileged, pending, reading, flag>>
    BY <1>13 DEF Construct, ConstructInProgress, ConstructConnected, ConstructInUse,
       ConstructFailed, recvVars
  <2> QED
    BY <1>1, <2>1 DEF RecvInv
<1> QED
  BY <1>2, <1>3, <1>4, <1>5, <1>6, <1>7, <1>8, <1>9, <1>10, <1>11, <1>12, <1>13
     DEF Next, Environment, Engine, Exited

LEMMA RecvInvariant == Spec => []RecvInv
<1>1. Init => RecvInv
  BY DEF Init, RecvInv, Sockets
<1> QED
  BY <1>1, NextRecvInv, Invariance, PTL DEF Spec

(* An engine with raw sockets does not fail.                                *)
LEMMA RawNeverFails ==
    ASSUME RecvInv, RecvError PROVE ~privileged
<1>1. pc = "recv" /\ reading # <<>> /\ pending[Head(reading)] # "none"
  BY DEF RecvError
<1>2. privileged => Head(reading) = "raw"
  BY <1>1 DEF RecvInv
<1> QED
  BY <1>1, <1>2 DEF RecvInv

----------------------------------------------------------------------------
(* The event loop of mtr-packet implements CommandService: each of its     *)
(* steps is one of the service or changes nothing the client can see.      *)
(* Only flushing shows anything, so that the step which answers is the end *)
(* of an iteration, with all that was printed since the one before.        *)

(* What has been written to stdout is at most one line for each command,    *)
(* and only for commands that are over.                                     *)
FlushedIsOver ==
    \A r \in Requests :
        /\ Len(flushed[r]) \in {0, 1}
        /\ Len(flushed[r]) = 1 => r <= dispatched /\ r \notin outstanding_probes

(* How far the commands have come (from TypeOK).                            *)
LEMMA Counted ==
    ASSUME TypeOK
    PROVE  /\ written \in 0..MaxRequests /\ taken \in 0..written
           /\ dispatched \in 0..taken /\ dispatched \in Nat
           /\ \A r \in outstanding_probes : r <= dispatched
           /\ MaxRequests \in Nat
BY ConstantsAssumption DEF TypeOK

LEMMA FlushedStable ==
    ASSUME TypeOK, FlushedIsOver, flushed' = flushed,
           dispatched' = dispatched \/ dispatched' = dispatched + 1,
           \A r \in outstanding_probes' : r \in outstanding_probes \/ r = dispatched + 1
    PROVE  FlushedIsOver'
BY Counted DEF FlushedIsOver, Requests

(* A step that frees probes, and prints what becomes of them.               *)
LEMMA FreeKeepsFlushed ==
    ASSUME TypeOK, FlushedIsOver, flushed' = flushed, dispatched' = dispatched,
           NEW S \in SUBSET outstanding_probes, NEW line, RespondAndFree(S, line)
    PROVE  FlushedIsOver'
BY FlushedStable DEF RespondAndFree, ListRemove

(* A flush writes what has been printed.                                    *)
LEMMA FlushKeeps ==
    ASSUME IInv, flushed' = printed, dispatched' = dispatched,
           outstanding_probes' = outstanding_probes
    PROVE  FlushedIsOver'
<1>2. \A r \in Requests :
        /\ Len(printed[r]) \in {0, 1}
        /\ Len(printed[r]) = 1 => r <= dispatched /\ r \notin outstanding_probes
  <2> SUFFICES ASSUME NEW r \in Requests
               PROVE  /\ Len(printed[r]) \in {0, 1}
                      /\ Len(printed[r]) = 1 => r <= dispatched /\ r \notin outstanding_probes
    OBVIOUS
  <2>1. Len(printed[r]) = IF r <= dispatched /\ r \notin outstanding_probes THEN 1 ELSE 0
    BY DEF IInv, OneAnswerPerCommand
  <2> QED
    BY <2>1
<1> QED
  BY <1>2 DEF FlushedIsOver

LEMMA NextFlushed == IInv /\ FlushedIsOver /\ [Next]_vars => FlushedIsOver'
<1> SUFFICES ASSUME IInv, FlushedIsOver, [Next]_vars PROVE FlushedIsOver'
  OBVIOUS
<1> TypeOK /\ ConstructsOutstanding
  BY DEF IInv
<1>1. CASE Environment
  BY <1>1, FlushedStable DEF Environment, WriteCommand, CloseStdin, Arrive,
     FinishConnect, tableVars, streamVars
<1>2. CASE Tick
  BY <1>2, FlushedStable DEF Tick, streamVars
<1>3. CASE WakeUp \/ ReadCommands \/ NextSocket
  BY <1>3, FlushedStable DEF WakeUp, ReadCommands, NextSocket, tableVars, streamVars
<1>4. ASSUME NEW packet \in inbox, ReceivePacket(packet) PROVE FlushedIsOver'
  BY <1>4, FlushedStable, FreeKeepsFlushed DEF ReceivePacket, tableVars, streamVars
<1>5. CASE PollProbeSockets
  BY <1>5, FreeKeepsFlushed DEF PollProbeSockets, streamVars
<1>6. CASE CheckProbeTimeouts
  BY <1>6, FreeKeepsFlushed DEF CheckProbeTimeouts, streamVars
<1>7. ASSUME NEW r \in Requests,
             DispatchImmediate(r) \/ DispatchExhausted(r) \/ DispatchUnsendable(r)
      PROVE  FlushedIsOver'
  BY <1>7, FlushedStable DEF DispatchImmediate, DispatchExhausted,
     DispatchUnsendable, NextCommand, tableVars
<1>8. ASSUME NEW r \in Requests, DispatchDatagram(r) \/ DispatchStream(r)
      PROVE  FlushedIsOver'
  BY <1>8, FlushedStable DEF DispatchDatagram, DispatchStream, NextCommand,
     AllocProbe
<1>9. ASSUME NEW r \in Requests, Construct(r) PROVE FlushedIsOver'
  <2>1. flushed' = flushed /\ dispatched' = dispatched /\ r = dispatched /\ pc = "construct"
    BY <1>9 DEF Construct, streamVars
  <2>2. {r} \in SUBSET outstanding_probes
    BY <2>1 DEF ConstructsOutstanding
  <2>3. CASE UNCHANGED outstanding_probes
    BY <2>1, <2>3, FlushedStable
  <2>4. ASSUME NEW line, RespondAndFree({r}, line) PROVE FlushedIsOver'
    BY <2>1, <2>2, <2>4, FreeKeepsFlushed
  <2> QED
    BY <1>9, <2>3, <2>4 DEF Construct, ConstructInProgress, ConstructConnected,
       ConstructInUse, ConstructFailed
<1>10. CASE EndOfLoop
  BY <1>10, FlushKeeps DEF EndOfLoop, Flush, streamVars, tableVars
<1>12. CASE RecvError
  BY <1>12, FlushedStable, FlushKeeps DEF RecvError, streamVars, tableVars
<1>11. CASE UNCHANGED vars
  BY <1>11, FlushedStable DEF IInv, vars, tableVars, streamVars
<1> QED
  BY <1>1, <1>2, <1>3, <1>4, <1>5, <1>6, <1>7, <1>8, <1>9, <1>10, <1>11, <1>12
     DEF Next, Engine, Exited

----------------------------------------------------------------------------
LEMMA InitRefines == Init => Service!Init
<1>1. Init => privileged \in BOOLEAN /\ ~Gone
  BY DEF Init, Gone
<1>2. Init => written = 0 /\ closed = FALSE
  BY DEF Init
<1>3. Init => [r \in Requests |-> Len(flushed[r])] = [r \in Requests |-> 0]
  BY DEF Init
<1>4. (~privileged) \in BOOLEAN
  OBVIOUS
<1>6. Init => Gone = FALSE
  BY <1>1
<1>5. ASSUME Init PROVE Service!Init
  <2>1. (~privileged) \in BOOLEAN /\ Gone = FALSE /\ written = 0 /\ closed = FALSE
    BY <1>2, <1>4, <1>5, <1>6
  <2>2. [r \in Requests |-> Len(flushed[r])] = [r \in Service!Requests |-> 0]
    BY <1>3, <1>5 DEF Service!Requests, Requests
  <2> QED
    BY <2>1, <2>2, Zenon DEF Service!Init
<1> QED
  BY <1>5

(* What has been printed since the last flush are answers to commands which *)
(* had none: to all of these, if nothing more is in the buffer or the list. *)
LEMMA FlushReceives ==
    ASSUME IInv, FlushedIsOver, ~Gone, flushed' = printed,
           UNCHANGED <<written, closed, privileged>>
    PROVE  \E S \in SUBSET Service!Requests :
              /\ Service!Receive(S)
              /\ S = {} => [r \in Requests |-> Len(flushed'[r])] =
                             [r \in Requests |-> Len(flushed[r])]
              /\ dispatched = written /\ outstanding_probes = {} => S = Service!Unanswered
<1> DEFINE answers == [r \in Requests |-> Len(flushed[r])]
<1> PICK S \in SUBSET Requests :
           S = {r \in Requests : Len(flushed[r]) = 0 /\ Len(printed[r]) = 1}
  OBVIOUS
<1>2. \A r \in Requests : Len(printed[r]) = IF r \in S THEN 1 ELSE Len(flushed[r])
  BY DEF IInv, OneAnswerPerCommand, FlushedIsOver
<1>3. [r \in Requests |-> Len(printed[r])] =
        [r \in Requests |-> IF r \in S THEN 1 ELSE answers[r]]
  BY <1>2
<1>4. S \subseteq {r \in 1..written : answers[r] = 0}
  BY Counted DEF IInv, OneAnswerPerCommand, Requests
<1>5. S \in SUBSET Service!Requests
  BY DEF Service!Requests, Requests
<1>6. Service!Receive(S)
  BY <1>3, <1>4 DEF Service!Receive, Service!Unanswered, Service!Requests, Requests
<1>7. ASSUME S = {} PROVE [r \in Requests |-> Len(flushed'[r])] = answers
  BY <1>3, <1>7
<1>8. ASSUME dispatched = written, outstanding_probes = {}
      PROVE  S = {r \in 1..written : answers[r] = 0}
  <2> SUFFICES ASSUME NEW r \in 1..written, Len(flushed[r]) = 0 PROVE r \in S
    BY <1>4, Counted DEF IInv, Requests
  <2>1. r \in Requests /\ r <= dispatched /\ r \notin outstanding_probes
    BY <1>8, Counted DEF IInv, Requests
  <2> QED
    BY <2>1 DEF IInv, OneAnswerPerCommand
<1>9. dispatched = written /\ outstanding_probes = {} => S = Service!Unanswered
  BY <1>4, <1>8, Counted DEF Service!Unanswered, Service!Requests, Requests, IInv
<1> QED
  BY <1>5, <1>6, <1>7, <1>9

(* The end of an iteration answers, and at the exit ends the service.       *)
LEMMA EndOfLoopRefines ==
    ASSUME IInv, FlushedIsOver, EndOfLoop
    PROVE  Service!Next \/ UNCHANGED Service!vars
<1>1. /\ ~Gone /\ flushed' = printed /\ UNCHANGED <<written, closed, privileged>>
      /\ dispatched = taken
  BY DEF EndOfLoop, Flush, clientVars, Gone
<1>2. PICK S \in SUBSET Service!Requests :
              /\ Service!Receive(S)
              /\ S = {} => [r \in Requests |-> Len(flushed'[r])] =
                             [r \in Requests |-> Len(flushed[r])]
              /\ dispatched = written /\ outstanding_probes = {} => S = Service!Unanswered
  BY <1>1, FlushReceives
<1>3. CASE pc' = "select"
  <2>1. UNCHANGED Gone
    BY <1>1, <1>3 DEF Gone
  <2>2. CASE S = {}
    BY <1>1, <1>2, <2>1, <2>2 DEF Service!vars
  <2>3. CASE S # {}
    BY <1>2, <2>1, <2>3 DEF Service!Answer, Service!Next
  <2> QED
    BY <2>2, <2>3
<1>4. CASE pc' = "exited"
  <2>1. ~command_pipe_open /\ outstanding_probe_count = 0
    BY <1>4 DEF EndOfLoop, MayExit
  <2>2. closed /\ taken = written /\ outstanding_probes = {}
    <3>1. IsFiniteSet(outstanding_probes) /\ Cardinality(outstanding_probes) = 0
      BY <2>1, ProbesFinite DEF IInv, CountIsListLength
    <3> QED
      BY <2>1, <3>1, FS_EmptySet DEF IInv, PipeEndedForGood
  <2>3. Gone'
    BY <1>4 DEF Gone
  <2>4. Service!End(S)
    BY <1>1, <1>2, <2>2, <2>3 DEF Service!End
  <2> QED
    BY <2>4 DEF Service!Next
<1> QED
  BY <1>3, <1>4 DEF EndOfLoop

(* An error which is not known fails the service, that of raw sockets never. *)
LEMMA RecvErrorRefines ==
    ASSUME IInv, FlushedIsOver, RecvInv, RecvError
    PROVE  Service!Next \/ UNCHANGED Service!vars
<1>1. ~Gone /\ UNCHANGED <<written, closed, privileged>>
  BY DEF RecvError, clientVars, Gone
<1>2. CASE UNCHANGED <<pc, flushed>>
  BY <1>1, <1>2 DEF Service!vars, Gone
<1>3. CASE pc' = "failed" /\ flushed' = printed
  <2>1. PICK S \in SUBSET Service!Requests : Service!Receive(S)
    BY <1>1, <1>3, FlushReceives
  <2>2. Gone' /\ ~privileged
    BY <1>3, RawNeverFails DEF Gone
  <2>3. Service!Fail(S)
    BY <2>1, <2>2 DEF Service!Fail
  <2> QED
    BY <2>3 DEF Service!Next
<1> QED
  BY <1>2, <1>3 DEF RecvError

LEMMA NextRefines ==
    IInv /\ FlushedIsOver /\ RecvInv /\ [Next]_vars => [Service!Next]_(Service!vars)
<1> SUFFICES ASSUME IInv, FlushedIsOver, RecvInv, [Next]_vars
             PROVE  Service!Next \/ UNCHANGED Service!vars
  OBVIOUS
<1>1. CASE UNCHANGED <<written, closed, flushed, privileged, Gone>>
  BY <1>1 DEF Service!vars
<1>2. ASSUME NEW k \in Kinds, NEW t \in Timeouts, WriteCommand(k, t) PROVE Service!Ask
  BY <1>2 DEF WriteCommand, Service!Ask, Gone
<1>3. CASE CloseStdin
  BY <1>3 DEF CloseStdin, Service!Close, Service!Next, Gone
<1>4. CASE EndOfLoop
  BY <1>4, EndOfLoopRefines
<1>5. CASE \/ \E packet : Arrive(packet)
           \/ \E r \in Requests, outcome \in {"up", "refused", "failed"} : FinishConnect(r, outcome)
           \/ Tick \/ UNCHANGED vars
  <2>1. UNCHANGED <<written, closed, flushed, privileged, pc>>
    BY <1>5 DEF Arrive, FinishConnect, Tick, vars, clientVars
  <2> QED
    BY <1>1, <2>1 DEF Gone
<1>6. CASE WakeUp \/ NextSocket \/ (\E packet \in inbox : ReceivePacket(packet)) \/ PollProbeSockets
           \/ ReadCommands \/ CheckProbeTimeouts
  <2>1. UNCHANGED <<written, closed, flushed, privileged>>
    BY <1>6 DEF WakeUp, NextSocket, ReceivePacket, PollProbeSockets, ReadCommands,
       CheckProbeTimeouts, clientVars
  <2>2. /\ pc \in {"select", "recv", "read", "timeouts"}
        /\ pc' \in {"recv", "read", "timeouts", "dispatch"}
    BY <1>6 DEF WakeUp, NextSocket, ReceivePacket, PollProbeSockets, ReadCommands,
       CheckProbeTimeouts
  <2> QED
    BY <1>1, <2>1, <2>2 DEF Gone
<1>7. ASSUME NEW r \in Requests,
             \/ DispatchImmediate(r) \/ DispatchExhausted(r) \/ DispatchUnsendable(r)
             \/ DispatchDatagram(r) \/ DispatchStream(r)
      PROVE  Service!Next \/ UNCHANGED Service!vars
  <2>1. UNCHANGED <<written, closed, flushed, privileged>>
    BY <1>7 DEF DispatchImmediate, DispatchExhausted, DispatchUnsendable,
       DispatchDatagram, DispatchStream, clientVars
  <2>2. pc = "dispatch" /\ pc' \in {"dispatch", "construct"}
    BY <1>7 DEF DispatchImmediate, DispatchExhausted, DispatchUnsendable,
       DispatchDatagram, DispatchStream, NextCommand
  <2> QED
    BY <1>1, <2>1, <2>2 DEF Gone
<1>8. ASSUME NEW r \in Requests, Construct(r)
      PROVE  Service!Next \/ UNCHANGED Service!vars
  BY <1>1, <1>8 DEF Construct, ConstructInProgress, ConstructConnected,
     ConstructInUse, ConstructFailed, clientVars, Gone
<1>9. CASE RecvError
  BY <1>9, RecvErrorRefines
<1> QED
  BY <1>2, <1>3, <1>4, <1>5, <1>6, <1>7, <1>8, <1>9
     DEF Next, Engine, Environment, Exited, Service!Next

(* The engine is a CommandService: no command gets a second line, whatever  *)
(* becomes of its probe, and the process ends with nothing left unanswered. *)
(* That every command is answered in the end is liveness, and checked.      *)
THEOREM Refinement == Spec => Service!Init /\ [][Service!Next]_(Service!vars)
<1>1. Init => FlushedIsOver
  BY DEF Init, FlushedIsOver
<1> QED
  BY <1>1, NextFlushed, InitRefines, NextRefines, Invariance, RecvInvariant, PTL DEF Spec

----------------------------------------------------------------------------
(* A reply and its timeout *)

(* The sockets that are still to be read.                                   *)
Unread == {reading[i] : i \in DOMAIN reading}

(* What will be read of them: all that raw sockets hold; of the others the   *)
(* errors, if one is still to be reported or has been.                      *)
ToBeRead(packet) ==
    /\ packet.socket \in Unread
    /\ ~privileged => /\ packet.errno # "none"
                      /\ \/ pending[packet.socket] # "none"
                         \/ flag /\ packet.socket = Head(reading)

(* A reply is at hand: at the probe's socket, or where it will be read.     *)
AtHand(r) ==
    Completed(r) \/ \E packet \in inbox : Finds(packet, r) /\ ToBeRead(packet)

(* From select() to check_probe_timeouts: what was at hand when it returned *)
(* still is while replies are received, and has been received thereafter.   *)
QInv ==
    /\ pc = "recv" => \A r \in due \cap outstanding_probes : AtHand(r)
    /\ pc \in {"read", "timeouts"} => due \cap outstanding_probes = {}

LEMMA HeadsOfReading ==
    ASSUME RecvInv, pc = "recv", reading # <<>>
    PROVE  Head(reading) \in IF privileged THEN {"raw"} ELSE {"icmp", "udp"}
<1>1. reading = <<"raw">> => Head(reading) = "raw"
  OBVIOUS
<1>2. reading = <<"udp">> => Head(reading) = "udp"
  OBVIOUS
<1>3. reading = <<"icmp", "udp">> => Head(reading) = "icmp"
  OBVIOUS
<1> QED
  BY <1>1, <1>2, <1>3 DEF RecvInv

LEMMA UnreadSockets ==
    ASSUME RecvInv, pc = "recv"
    PROVE  Unread = IF privileged THEN IF reading = <<>> THEN {} ELSE {"raw"}
                    ELSE IF reading = <<>> THEN {}
                    ELSE IF Head(reading) = "udp" THEN {"udp"} ELSE {"icmp", "udp"}
<1>1. reading = <<>> => Unread = {}
  BY DEF Unread
<1>2. reading = <<"raw">> => Unread = {"raw"}
  BY DEF Unread
<1>3. reading = <<"udp">> => Unread = {"udp"} /\ Head(reading) = "udp"
  BY DEF Unread
<1>4. reading = <<"icmp", "udp">> => Unread = {"icmp", "udp"} /\ Head(reading) = "icmp"
  BY DEF Unread
<1> QED
  BY <1>1, <1>2, <1>3, <1>4 DEF RecvInv

(* Nothing happened to the list or its numbers: what a packet finds is the  *)
(* same.                                                                    *)
LEMMA FindsStable ==
    ASSUME NEW packet, NEW r, Finds(packet, r),
           UNCHANGED <<outstanding_probes, sequence>>
    PROVE  Finds(packet, r)'
BY DEF Finds, FindProbe

(* A packet finds one probe: the newest with the first number that any has. *)
LEMMA FindsOne ==
    ASSUME TypeOK, NEW packet \in Arrivals, NEW q, NEW r,
           Finds(packet, q), Finds(packet, r)
    PROVE  q = r
<1>1. PICK i \in DOMAIN packet.keys :
        /\ FindProbe(q, packet.keys[i])
        /\ \A j \in 1..(i - 1), p \in outstanding_probes : sequence[p] # packet.keys[j]
  BY DEF Finds
<1>2. PICK k \in DOMAIN packet.keys :
        /\ FindProbe(r, packet.keys[k])
        /\ \A j \in 1..(k - 1), p \in outstanding_probes : sequence[p] # packet.keys[j]
  BY DEF Finds
<1>3. i \in Nat \ {0} /\ k \in Nat \ {0}
  BY DEF Arrivals
<1>4. q \in outstanding_probes /\ r \in outstanding_probes
  BY <1>1, <1>2 DEF FindProbe
<1>5. i = k
  <2>1. ~(i < k)
    BY <1>1, <1>2, <1>3, <1>4 DEF FindProbe
  <2>2. ~(k < i)
    BY <1>1, <1>2, <1>3, <1>4 DEF FindProbe
  <2> QED
    BY <1>3, <2>1, <2>2
<1>6. q <= r /\ r <= q
  BY <1>1, <1>2, <1>4, <1>5 DEF FindProbe
<1> QED
  BY <1>4, <1>6, ProbesAreRequests DEF Requests

(* When others are freed, a packet still finds the probe it found.          *)
LEMMA FindsLeft ==
    ASSUME TypeOK, NEW S \in SUBSET outstanding_probes, NEW line,
           RespondAndFree(S, line), NEW packet, NEW r \in outstanding_probes',
           Finds(packet, r)
    PROVE  Finds(packet, r)'
<1>1. outstanding_probes' = outstanding_probes \ S
  BY DEF RespondAndFree, ListRemove
<1>2. \A q \in outstanding_probes' : sequence'[q] = sequence[q]
  BY <1>1, ProbesAreRequests DEF RespondAndFree
<1> QED
  BY <1>1, <1>2 DEF Finds, FindProbe

(* Reading one packet leaves the others to be read.                         *)
LEMMA OthersToBeRead ==
    ASSUME IInv, RecvInv, NEW packet \in inbox, ReceivePacket(packet),
           NEW other \in inbox, ToBeRead(other)
    PROVE  ToBeRead(other)'
<1>1. /\ pc = "recv" /\ packet \in Readable(inbox) /\ UNCHANGED <<privileged, reading, flag>>
  BY DEF ReceivePacket, recvVars
<1>2. Unread' = Unread
  BY <1>1 DEF Unread
<1>3. CASE ~flag
  <2>1. pending' = pending
    BY <1>3 DEF ReceivePacket
  <2> QED
    BY <1>1, <1>2, <2>1 DEF ToBeRead
<1>4. CASE flag
  <2>1. packet.socket = Head(reading)
    BY <1>1, <1>4 DEF Readable, Errors
  <2>2. \E errno : pending' = [pending EXCEPT ![packet.socket] = errno]
    BY <1>4 DEF ReceivePacket
  <2>3. other.socket # packet.socket => pending'[other.socket] = pending[other.socket]
    BY <2>2 DEF IInv, TypeOK, Arrivals
  <2> QED
    BY <1>1, <1>2, <1>4, <2>1, <2>3 DEF ToBeRead
<1> QED
  BY <1>3, <1>4

(* Receiving a packet answers the one probe it finds and no other.          *)
LEMMA ReceiveKeepsQueued ==
    ASSUME IInv, RecvInv, QInv, NEW packet \in inbox, ReceivePacket(packet) PROVE QInv'
<1>1. pc = "recv" /\ pc' = "recv" /\ due' = due /\ inbox' = inbox \ {packet}
  BY DEF ReceivePacket, waitVars
<1>2. packet \in Arrivals
  BY DEF IInv, TypeOK
<1>3. CASE UNCHANGED tableVars /\ \A r \in outstanding_probes : ~Finds(packet, r)
  <2> SUFFICES ASSUME NEW r \in due \cap outstanding_probes PROVE AtHand(r)'
    BY <1>1, <1>3 DEF QInv, tableVars
  <2>1. CASE Completed(r)
    BY <1>3, <2>1 DEF AtHand, Completed, tableVars
  <2>2. ASSUME NEW other \in inbox, Finds(other, r), ToBeRead(other) PROVE AtHand(r)'
    <3>1. other \in inbox'
      BY <1>1, <1>3, <2>2
    <3>2. Finds(other, r)'
      BY <1>3, <2>2, FindsStable DEF tableVars
    <3>3. ToBeRead(other)'
      BY <2>2, OthersToBeRead
    <3> QED
      BY <3>1, <3>2, <3>3 DEF AtHand
  <2> QED
    BY <1>1, <2>1, <2>2 DEF QInv, AtHand
<1>4. ASSUME NEW q \in outstanding_probes, Finds(packet, q),
             RespondAndFree({q}, [p \in {q} |-> Line(packet.type, packet.cause)])
      PROVE  QInv'
  <2>1. outstanding_probes' = outstanding_probes \ {q}
    BY <1>4 DEF RespondAndFree, ListRemove
  <2> SUFFICES ASSUME NEW r \in due \cap outstanding_probes, r # q PROVE AtHand(r)'
    BY <1>1, <2>1 DEF QInv
  <2>2. r \in Requests /\ r \in outstanding_probes'
    BY <2>1, ProbesAreRequests DEF IInv
  <2>3. CASE Completed(r)
    BY <1>4, <2>2, <2>3 DEF AtHand, Completed, RespondAndFree
  <2>4. ASSUME NEW other \in inbox, Finds(other, r), ToBeRead(other) PROVE AtHand(r)'
    <3>1. other # packet
      BY <1>2, <1>4, <2>4, FindsOne DEF IInv
    <3>2. Finds(other, r)'
      BY <1>4, <2>2, <2>4, FindsLeft DEF IInv
    <3>3. ToBeRead(other)'
      BY <2>4, OthersToBeRead
    <3> QED
      BY <1>1, <3>1, <3>2, <3>3 DEF AtHand
  <2> QED
    BY <1>1, <2>3, <2>4 DEF QInv, AtHand
<1> QED
  BY <1>3, <1>4 DEF ReceivePacket

(* When the loop goes on to the next socket, nothing that would be read is  *)
(* left at the one before.                                                  *)
LEMMA NextSocketLeavesNone ==
    ASSUME IInv, RecvInv, QInv, NextSocket PROVE QInv'
<1>1. /\ pc = "recv" /\ pc' = "recv" /\ reading # <<>> /\ reading' = Tail(reading)
      /\ UNCHANGED <<due, outstanding_probes, sequence, conn, inbox, pending, privileged>>
  BY DEF NextSocket, waitVars, tableVars, netVars
<1>2. Readable(inbox) = {} /\ (flag \/ pending[Head(reading)] = "none")
  BY DEF NextSocket, RecvDrained
<1>3. ASSUME NEW packet \in inbox, ToBeRead(packet)
      PROVE  ~privileged /\ packet.socket # Head(reading)
  <2>1. CASE privileged
    <3>1. reading = <<"raw">> /\ Head(reading) = "raw" /\ ~flag
      BY <1>1, <2>1 DEF RecvInv
    <3>2. packet \in Packets(inbox, Head(reading))
      BY <2>1, <3>1 DEF RecvInv, Packets
    <3>3. Readable(inbox) = Packets(inbox, Head(reading))
      BY <1>1, <3>1 DEF Readable, RecvInv
    <3> QED
      BY <1>2, <3>2, <3>3
  <2>2. ASSUME ~privileged, packet.socket = Head(reading) PROVE FALSE
    <3>1. packet.errno # "none"
      BY <1>3, <2>2 DEF ToBeRead
    <3>2. flag
      BY <1>2, <1>3, <2>2 DEF ToBeRead
    <3>3. packet \in Errors(inbox, Head(reading))
      BY <2>2, <3>1 DEF Errors
    <3> QED
      BY <1>1, <1>2, <3>2, <3>3 DEF Readable
  <2> QED
    BY <2>1, <2>2
<1>4. ASSUME NEW packet \in inbox, ToBeRead(packet) PROVE ToBeRead(packet)'
  <2>1. ~privileged /\ packet.socket # Head(reading)
    BY <1>3, <1>4
  <2>2. packet.errno # "none" /\ pending[packet.socket] # "none" /\ packet.socket \in Unread
    BY <1>4, <2>1 DEF ToBeRead
  <2>3. Head(reading) # "udp" /\ packet.socket = "udp"
    BY <1>1, <2>1, <2>2, UnreadSockets, HeadsOfReading
  <2>4. reading' = <<"udp">>
    <3>1. reading \in {<<"icmp", "udp">>, <<"udp">>}
      BY <1>1, <2>1 DEF RecvInv
    <3>2. reading # <<"udp">>
      <4>1. reading = <<"udp">> => Head(reading) = "udp"
        OBVIOUS
      <4> QED
        BY <2>3, <4>1
    <3>3. reading = <<"icmp", "udp">> => Tail(reading) = <<"udp">>
      OBVIOUS
    <3> QED
      BY <1>1, <3>1, <3>2, <3>3
  <2>5. packet.socket \in Unread'
    BY <2>3, <2>4 DEF Unread
  <2> QED
    BY <1>1, <2>1, <2>2, <2>5 DEF ToBeRead
<1>5. ASSUME NEW r \in due \cap outstanding_probes PROVE AtHand(r)'
  <2>1. AtHand(r)
    BY <1>1 DEF QInv
  <2>2. Completed(r) => Completed(r)'
    BY <1>1 DEF Completed
  <2>3. ASSUME NEW packet \in inbox, Finds(packet, r), ToBeRead(packet)
        PROVE  Finds(packet, r)' /\ ToBeRead(packet)'
    BY <1>1, <1>4, <2>3, FindsStable
  <2> QED
    BY <1>1, <2>1, <2>2, <2>3 DEF AtHand
<1> QED
  BY <1>1, <1>5 DEF QInv

(* An error that is reported is then read from the queue.                   *)
LEMMA ReportedIsRead ==
    ASSUME IInv, RecvInv, QInv, RecvError PROVE QInv'
<1>1. /\ pc = "recv" /\ reading # <<>> /\ ~flag
      /\ pending' = [pending EXCEPT ![Head(reading)] = "none"]
      /\ UNCHANGED <<due, outstanding_probes, sequence, conn, inbox, reading, privileged>>
  BY DEF RecvError, waitVars, tableVars
<1>2. CASE pc' = "failed"
  BY <1>2 DEF QInv
<1>3. CASE flag' /\ pc' = pc
  <2>1. ASSUME NEW packet \in inbox, ToBeRead(packet) PROVE ToBeRead(packet)'
    <3>1. Unread' = Unread
      BY <1>1 DEF Unread
    <3>2. packet.socket # Head(reading) => pending'[packet.socket] = pending[packet.socket]
      BY <1>1 DEF IInv, TypeOK, Arrivals
    <3> QED
      BY <1>1, <1>3, <2>1, <3>1, <3>2 DEF ToBeRead
  <2>2. ASSUME NEW r \in due \cap outstanding_probes PROVE AtHand(r)'
    <3>1. AtHand(r)
      BY <1>1 DEF QInv
    <3>2. Completed(r) => Completed(r)'
      BY <1>1 DEF Completed
    <3>3. ASSUME NEW packet \in inbox, Finds(packet, r), ToBeRead(packet)
          PROVE  Finds(packet, r)' /\ ToBeRead(packet)'
      BY <1>1, <2>1, <3>3, FindsStable
    <3> QED
      BY <1>1, <3>1, <3>2, <3>3 DEF AtHand
  <2> QED
    BY <1>1, <1>3, <2>2 DEF QInv
<1> QED
  BY <1>2, <1>3 DEF RecvError

(* When select returns, what will be read is at sockets that are unread.    *)
LEMMA WakeUpAtHand ==
    ASSUME IInv, RecvInv, WakeUp PROVE QInv'
<1>1. /\ pc' = "recv" /\ reading' = RecvSockets
      /\ due' = {r \in outstanding_probes :
                   \/ Completed(r)
                   \/ \E packet \in inbox : Finds(packet, r) /\ WillBeRead(packet)}
      /\ UNCHANGED <<outstanding_probes, sequence, conn, inbox, pending, privileged>>
  BY DEF WakeUp, tableVars, netVars
<1>2. ASSUME NEW packet \in inbox, WillBeRead(packet) PROVE ToBeRead(packet)'
  <2>1. packet.socket \in Sockets /\ (packet.socket = "raw" <=> privileged)
    BY DEF IInv, TypeOK, Arrivals, RecvInv
  <2>2. CASE privileged
    <3>1. reading' = <<"raw">>
      BY <1>1, <2>2 DEF RecvSockets
    <3> QED
      BY <1>1, <2>1, <2>2, <3>1 DEF ToBeRead, Unread
  <2>3. CASE ~privileged
    <3>1. reading' = <<"icmp", "udp">>
      BY <1>1, <2>3 DEF RecvSockets
    <3>2. packet.socket \in Unread'
      BY <2>1, <2>3, <3>1 DEF Unread, Sockets
    <3> QED
      BY <1>1, <1>2, <2>3, <3>2 DEF ToBeRead, WillBeRead
  <2> QED
    BY <2>2, <2>3
<1>3. ASSUME NEW r \in due' PROVE AtHand(r)'
  <2>1. Completed(r) => Completed(r)'
    BY <1>1 DEF Completed
  <2>2. ASSUME NEW packet \in inbox, Finds(packet, r), WillBeRead(packet)
        PROVE  Finds(packet, r)' /\ ToBeRead(packet)'
    BY <1>1, <1>2, <2>2, FindsStable
  <2> QED
    BY <1>1, <1>3, <2>1, <2>2 DEF AtHand
<1> QED
  BY <1>1, <1>3 DEF QInv

(* With the sockets read, whatever is still at hand is at the probes' own   *)
(* sockets, all of which are polled.                                        *)
LEMMA PollLeavesNone ==
    ASSUME RecvInv, QInv, PollProbeSockets PROVE QInv'
<1>1. pc = "recv" /\ reading = <<>> /\ pc' = "read" /\ due' = due
  BY DEF PollProbeSockets, waitVars
<1>2. outstanding_probes' = outstanding_probes \ {r \in outstanding_probes : Completed(r)}
  BY DEF PollProbeSockets, RespondAndFree, ListRemove
<1>3. Unread = {}
  BY <1>1 DEF Unread
<1> QED
  BY <1>1, <1>2, <1>3 DEF QInv, AtHand, ToBeRead

LEMMA NextQInv == IInv /\ RecvInv /\ QInv /\ [Next]_vars => QInv'
<1> SUFFICES ASSUME IInv, RecvInv, QInv, [Next]_vars PROVE QInv'
  OBVIOUS
<1>1. CASE /\ UNCHANGED <<pc, due, outstanding_probes, sequence>>
           /\ UNCHANGED <<reading, flag, privileged>>
           /\ inbox \subseteq inbox'
           /\ \A at \in Sockets : pending[at] # "none" => pending'[at] # "none"
           /\ \A r \in outstanding_probes : Completed(r) => Completed(r)'
  <2> SUFFICES ASSUME NEW r \in outstanding_probes, AtHand(r) PROVE AtHand(r)'
    BY <1>1 DEF QInv
  <2>1. Unread' = Unread
    BY <1>1 DEF Unread
  <2>2. ASSUME NEW packet \in inbox, ToBeRead(packet) PROVE ToBeRead(packet)'
    <3>1. packet.socket \in Sockets
      BY DEF IInv, TypeOK, Arrivals
    <3> QED
      BY <1>1, <2>1, <2>2, <3>1 DEF ToBeRead
  <2> QED
    BY <1>1, <2>2, FindsStable DEF AtHand
<1>2. CASE Environment
  <2>1. ASSUME NEW k \in Kinds, NEW t \in Timeouts, WriteCommand(k, t) PROVE QInv'
    BY <1>1, <2>1 DEF WriteCommand, waitVars, tableVars, netVars, recvVars, Completed
  <2>2. CASE CloseStdin
    BY <1>1, <2>2 DEF CloseStdin, waitVars, tableVars, netVars, recvVars, Completed
  <2>3. ASSUME NEW packet \in Heard, Arrive(packet) PROVE QInv'
    <3>1. packet.socket \in Sockets
      BY HeardType DEF IInv, Arrivals
    <3>2. \A at \in Sockets : pending[at] # "none" => pending'[at] # "none"
      BY <2>3, <3>1 DEF Arrive, IInv, TypeOK
    <3> QED
      BY <1>1, <2>3, <3>2 DEF Arrive, waitVars, tableVars, recvVars, Completed
  <2>4. ASSUME NEW r \in Requests, NEW outcome \in {"up", "refused", "failed"},
               FinishConnect(r, outcome)
        PROVE  QInv'
    BY <1>1, <2>4, ProbesAreRequests
       DEF IInv, TypeOK, FinishConnect, waitVars, netVars, Completed,
       recvVars
  <2> QED
    BY <1>2, <2>1, <2>2, <2>3, <2>4 DEF Environment
<1>3. CASE Tick
  BY <1>1, <1>3 DEF Tick, netVars, recvVars, Completed
<1>4. CASE WakeUp
  BY <1>4, WakeUpAtHand
<1>5. CASE \E packet \in inbox : ReceivePacket(packet)
  BY <1>5, ReceiveKeepsQueued
<1>6. CASE PollProbeSockets
  BY <1>6, PollLeavesNone
<1>7. CASE ReadCommands
  BY <1>7 DEF ReadCommands, QInv, tableVars, waitVars
<1>8. CASE pc' \notin {"recv", "read", "timeouts"}
  BY <1>8 DEF QInv
<1>9. CASE CheckProbeTimeouts
  BY <1>8, <1>9 DEF CheckProbeTimeouts
<1>10. ASSUME NEW r \in Requests,
              \/ DispatchImmediate(r) \/ DispatchExhausted(r) \/ DispatchUnsendable(r)
              \/ DispatchDatagram(r) \/ DispatchStream(r)
       PROVE  QInv'
  BY <1>8, <1>10 DEF DispatchImmediate, DispatchExhausted, DispatchUnsendable,
     DispatchDatagram, DispatchStream, NextCommand
<1>11. ASSUME NEW r \in Requests, Construct(r) PROVE QInv'
  BY <1>8, <1>11 DEF Construct, ConstructInProgress, ConstructConnected,
     ConstructInUse, ConstructFailed
<1>12. CASE EndOfLoop
  BY <1>8, <1>12 DEF EndOfLoop
<1>13. CASE UNCHANGED vars
  BY <1>1, <1>13 DEF vars, waitVars, tableVars, netVars, recvVars, Completed
<1>14. CASE RecvError \/ NextSocket
  BY <1>14, ReportedIsRead, NextSocketLeavesNone
<1> QED
  BY <1>2, <1>3, <1>4, <1>5, <1>6, <1>7, <1>9, <1>10, <1>11, <1>12, <1>13, <1>14
     DEF Next, Engine, Exited

(* A reply which was at hand when select returned is received before        *)
(* timeouts are checked (main: receive_replies, then check_probe_timeouts). *)
THEOREM ReplyBeforeTimeout == Spec => []QueuedReplyBeatsTimeout
<1>1. Init => QInv
  BY DEF Init, QInv
<1>2. QInv => QueuedReplyBeatsTimeout
  BY DEF QInv, QueuedReplyBeatsTimeout
<1> QED
  BY <1>1, <1>2, NextQInv, Invariance, RecvInvariant, PTL DEF Spec

----------------------------------------------------------------------------
(* A socket and its probe *)

(* A request which is not in the list has no socket, the open sockets are   *)
(* those of the list, and the loop over ports has none yet.                 *)
SocketsOwned ==
    /\ \A r \in Requests \ outstanding_probes : socket[r] = NoSocket
    /\ NoSocketLeak
    /\ NoRetryIfWeSucceed

(* A connect() that succeeds at once is the one exception (see              *)
(* ConstructConnected).                                                     *)
SInv == "connected" \notin ConnectOutcomes => SocketsOwned

(* Steps that open and free nothing. *)
LEMMA SocketsStable ==
    ASSUME SocketsOwned, UNCHANGED <<outstanding_probes, socket, open>>,
           pc' = "construct" => pc = "construct" /\ dispatched' = dispatched
    PROVE  SocketsOwned'
BY DEF SocketsOwned, NoSocketLeak, NoRetryIfWeSucceed

(* A probe is freed with its socket.                                        *)
LEMMA FreeKeepsSockets ==
    ASSUME IInv, SocketsOwned, NEW S \in SUBSET outstanding_probes, NEW line,
           RespondAndFree(S, line), pc' # "construct"
    PROVE  SocketsOwned'
<1>1. /\ outstanding_probes' = outstanding_probes \ S
      /\ open' = open \ {<<r, socket[r]>> : r \in S}
      /\ socket' = [r \in Requests |-> IF r \in S THEN NoSocket ELSE socket[r]]
  BY DEF RespondAndFree, ListRemove, CloseSockets
<1>2. outstanding_probes \subseteq Requests
  BY ProbesAreRequests DEF IInv
<1>3. \A r \in Requests \ outstanding_probes' : socket'[r] = NoSocket
  BY <1>1 DEF SocketsOwned
<1>4. NoSocketLeak'
  <2>1. open = {<<r, socket[r]>> : r \in {q \in outstanding_probes : socket[q] # NoSocket}}
    BY DEF SocketsOwned, NoSocketLeak
  <2>2. open' = {<<r, socket[r]>> : r \in {q \in outstanding_probes \ S : socket[q] # NoSocket}}
    BY <1>1, <2>1
  <2>3. \A q \in outstanding_probes' : socket'[q] = socket[q]
    BY <1>1, <1>2
  <2> QED
    BY <1>1, <2>2, <2>3 DEF NoSocketLeak
<1> QED
  BY <1>3, <1>4 DEF SocketsOwned, NoRetryIfWeSucceed

(* A probe enters the list without a socket.                                *)
LEMMA AllocKeepsSockets ==
    ASSUME IInv, SocketsOwned, NEW r \in Requests, NextCommand(r), AllocProbe(r),
           UNCHANGED <<socket, open>>
    PROVE  SocketsOwned'
<1>1. outstanding_probes' = outstanding_probes \cup {r} /\ dispatched' = r
  BY DEF AllocProbe, NextCommand
<1>2. r \notin outstanding_probes
  BY ProbesAreRequests DEF IInv, TypeOK, NextCommand
<1>3. socket[r] = NoSocket
  BY <1>2 DEF SocketsOwned
<1>4. NoSocketLeak'
  <2>1. {q \in outstanding_probes' : socket'[q] # NoSocket} =
          {q \in outstanding_probes : socket[q] # NoSocket}
    BY <1>1, <1>3
  <2> QED
    BY <2>1 DEF SocketsOwned, NoSocketLeak
<1> QED
  BY <1>1, <1>3, <1>4 DEF SocketsOwned, NoRetryIfWeSucceed

(* The loop over ports gives its probe a socket once, and ends then.        *)
LEMMA ConstructKeepsSockets ==
    ASSUME IInv, SocketsOwned, "connected" \notin ConnectOutcomes,
           NEW r \in Requests, Construct(r)
    PROVE  SocketsOwned'
<1>1. pc = "construct" /\ r = dispatched /\ dispatched' = dispatched
  BY DEF Construct, streamVars
<1>2. r \in outstanding_probes /\ socket[r] = NoSocket
  BY <1>1 DEF IInv, ConstructsOutstanding, SocketsOwned, NoRetryIfWeSucceed
<1>3. CASE ConstructInProgress(r)
  <2>1. /\ socket' = [socket EXCEPT ![r] = sequence[r]]
        /\ open' = open \cup {<<r, sequence[r]>>}
        /\ outstanding_probes' = outstanding_probes /\ pc' = "dispatch"
    BY <1>3 DEF ConstructInProgress, OpenSocket
  <2>2. sequence[r] # NoSocket
    BY <1>2, ConstantsAssumption DEF IInv, ProbesSequenced, Ports, NoSocket
  <2>3. socket'[r] = sequence[r] /\ \A q \in Requests \ {r} : socket'[q] = socket[q]
    BY <2>1 DEF IInv, TypeOK
  <2>4. outstanding_probes \subseteq Requests
    BY ProbesAreRequests DEF IInv
  <2>5. {q \in outstanding_probes' : socket'[q] # NoSocket} =
          {q \in outstanding_probes : socket[q] # NoSocket} \cup {r}
    BY <1>2, <2>1, <2>2, <2>3, <2>4
  <2>6. open = {<<q, socket[q]>> : q \in {p \in outstanding_probes : socket[p] # NoSocket}}
    BY DEF SocketsOwned, NoSocketLeak
  <2>7. \A q \in {p \in outstanding_probes : socket[p] # NoSocket} : socket'[q] = socket[q]
    BY <1>2, <2>3, <2>4
  <2>8. NoSocketLeak'
    BY <2>1, <2>3, <2>5, <2>6, <2>7 DEF NoSocketLeak
  <2> QED
    BY <1>2, <2>1, <2>3, <2>8 DEF SocketsOwned, NoRetryIfWeSucceed
<1>4. CASE ConstructInUse(r)
  <2>1. CASE LastTry
    BY <1>2, <1>4, <2>1, FreeKeepsSockets DEF ConstructInUse
  <2>2. CASE ~LastTry
    BY <1>1, <1>4, <2>2, SocketsStable DEF ConstructInUse
  <2> QED
    BY <2>1, <2>2
<1>5. ASSUME NEW result, ConstructFailed(r, result) PROVE SocketsOwned'
  BY <1>2, <1>5, FreeKeepsSockets DEF ConstructFailed
<1> QED
  BY <1>3, <1>4, <1>5 DEF Construct

LEMMA NextSInv == IInv /\ SInv /\ [Next]_vars => SInv'
<1> SUFFICES ASSUME IInv, SocketsOwned, "connected" \notin ConnectOutcomes, [Next]_vars
             PROVE  SocketsOwned'
  BY DEF SInv
<1>1. CASE Environment
  BY <1>1, SocketsStable DEF Environment, WriteCommand, CloseStdin, Arrive, FinishConnect,
     tableVars, streamVars
<1>2. CASE Tick
  BY <1>2, SocketsStable DEF Tick, streamVars
<1>3. CASE WakeUp \/ ReadCommands \/ EndOfLoop \/ RecvError \/ NextSocket
  BY <1>3, SocketsStable DEF WakeUp, ReadCommands, EndOfLoop, RecvError, NextSocket, tableVars
<1>4. ASSUME NEW packet \in inbox, ReceivePacket(packet) PROVE SocketsOwned'
  BY <1>4, SocketsStable, FreeKeepsSockets DEF ReceivePacket, tableVars
<1>5. CASE PollProbeSockets \/ CheckProbeTimeouts
  BY <1>5, FreeKeepsSockets DEF PollProbeSockets, CheckProbeTimeouts
<1>6. ASSUME NEW r \in Requests,
             DispatchImmediate(r) \/ DispatchExhausted(r) \/ DispatchUnsendable(r)
      PROVE  SocketsOwned'
  BY <1>6, SocketsStable DEF DispatchImmediate, DispatchExhausted, DispatchUnsendable,
     NextCommand, tableVars
<1>7. ASSUME NEW r \in Requests, DispatchDatagram(r) \/ DispatchStream(r)
      PROVE  SocketsOwned'
  BY <1>7, AllocKeepsSockets DEF DispatchDatagram, DispatchStream
<1>8. ASSUME NEW r \in Requests, Construct(r) PROVE SocketsOwned'
  BY <1>8, ConstructKeepsSockets
<1>9. CASE UNCHANGED vars
  BY <1>9, SocketsStable DEF vars, tableVars, streamVars
<1> QED
  BY <1>1, <1>2, <1>3, <1>4, <1>5, <1>6, <1>7, <1>8, <1>9 DEF Next, Engine, Exited

LEMMA SocketsInvariant == Spec => []SInv
<1>1. Init => SInv
  BY DEF Init, SInv, SocketsOwned, NoSocketLeak, NoRetryIfWeSucceed, NoSocket
<1> QED
  BY <1>1, NextSInv, Invariance, PTL DEF Spec

(* Where no connect() succeeds at once, every open stream socket is held by *)
(* one probe of the list, whatever retries and errors came before: none is  *)
(* leaked (platform_free_probe closes what open_stream_socket opened).      *)
THEOREM SocketsKept == Spec => []("connected" \notin ConnectOutcomes => NoSocketLeak)
<1>1. SInv => ("connected" \notin ConnectOutcomes => NoSocketLeak)
  BY DEF SInv, SocketsOwned
<1> QED
  BY <1>1, SocketsInvariant, PTL

(* ... and the loop of send_probe goes on only without a socket.            *)
THEOREM RetriesUnsent == Spec => []("connected" \notin ConnectOutcomes => NoRetryIfWeSucceed)
<1>1. SInv => ("connected" \notin ConnectOutcomes => NoRetryIfWeSucceed)
  BY DEF SInv, SocketsOwned
<1> QED
  BY <1>1, SocketsInvariant, PTL

----------------------------------------------------------------------------
(* A line and the probe it tells of *)

(* Ports which a client may ask for are not also sequence numbers, and no   *)
(* connect() succeeds at once.                                              *)
PortsApart ==
    /\ {Pid, DestPort, LocalPort} \cap Ports = {}
    /\ "connected" \notin ConnectOutcomes

(* The sequence has not come round: no two probes that left the host had    *)
(* the same number.                                                         *)
NumbersUnshared == \A s, t \in sent : s.port = t.port => s.req = t.req

(* What arrives with our id quotes a probe that left the host, or, at a raw  *)
(* socket, a UDP or TCP packet of another process.                          *)
Quotes(packet, s) == packet.cause = s.req /\ packet.keys = Keys(kind[s.req], s.port)
Quoting(packet) ==
    packet.own_id => \/ packet.cause = ForeignPort /\ privileged
                     \/ \E s \in sent : Quotes(packet, s)

(* The probes of the list have left the host under the number they have,    *)
(* but for the one which the loop over ports is at.                         *)
Left(r) == [req |-> r, port |-> sequence[r]] \in sent
Leaving(r) == pc = "construct" /\ r = dispatched

Sendings ==
    /\ \A s \in sent : s.req <= dispatched
    /\ \A packet \in inbox : Quoting(packet)
    /\ \A r \in outstanding_probes : Left(r) \/ Leaving(r)
    /\ NumbersUnshared => CreditedToSender
CInv == PortsApart => Sendings

(* What is heard of a probe stays so: the command keeps its kind.           *)
LEMMA QuotingStays ==
    ASSUME NEW packet, Quoting(packet), sent \subseteq sent', privileged' = privileged,
           \A s \in sent : kind'[s.req] = kind[s.req]
    PROVE  Quoting(packet)'
BY DEF Quoting, Quotes

(* Fewer probes with a number in common were fewer before.                  *)
LEMMA SharedStays ==
    ASSUME sent \subseteq sent', NumbersUnshared' PROVE NumbersUnshared
BY DEF NumbersUnshared

(* A line of a command tells of the command's own probe, or of a packet that *)
(* another process sent through a port in range.                            *)
Credit(r, cause) == cause = r \/ (cause = ForeignPort /\ privileged)

(* A packet with our id finds the probe it quotes: no other field can hold  *)
(* a sequence number, and no other probe has that number.                   *)
LEMMA FindsQuoted ==
    ASSUME IInv, Sendings, PortsApart, NumbersUnshared, pc # "construct",
           NEW packet \in inbox, NEW r \in outstanding_probes, Finds(packet, r)
    PROVE  Credit(r, packet.cause)
<1> SUFFICES ASSUME ~(packet.cause = ForeignPort /\ privileged) PROVE packet.cause = r
  BY DEF Credit
<1>1. PICK i \in DOMAIN packet.keys : sequence[r] = packet.keys[i] /\ packet.own_id
  BY DEF Finds, FindProbe
<1>2. PICK s \in sent : packet.cause = s.req /\ packet.keys = Keys(kind[s.req], s.port)
  BY <1>1 DEF Sendings, Quoting, Quotes
<1>3. sequence[r] \in Ports /\ 0 \notin Ports
  BY ConstantsAssumption DEF IInv, ProbesSequenced, Ports
<1>4. Keys(kind[s.req], s.port)[i] \in {s.port, Pid, DestPort, LocalPort, 0}
  <2>1. i \in DOMAIN Keys(kind[s.req], s.port)
    BY <1>2
  <2>. QED
    BY <2>1 DEF Keys
<1>5. sequence[r] = s.port
  BY <1>1, <1>2, <1>3, <1>4 DEF PortsApart
<1>6. PICK t \in sent : t = [req |-> r, port |-> sequence[r]]
  BY DEF Sendings, Left, Leaving
<1>. QED
  BY <1>2, <1>5, <1>6 DEF NumbersUnshared

(* Lines which tell of their own commands are added to those that do.       *)
LEMMA CreditsAdded ==
    ASSUME IInv, CreditedToSender, NEW S, NEW line, privileged' = privileged,
           \A r \in S : Credit(r, line[r].cause),
           printed' = [r \in Requests |->
                         IF r \in S THEN Append(printed[r], line[r]) ELSE printed[r]]
    PROVE  CreditedToSender'
<1> SUFFICES ASSUME NEW r \in Requests, NEW i \in 1..MaxRequests, i \in DOMAIN printed'[r]
             PROVE  Credit(r, printed'[r][i].cause)
  BY DEF CreditedToSender, Credit
<1>1. CASE r \notin S
  BY <1>1 DEF CreditedToSender, Credit
<1>2. CASE r \in S
  <2>1. printed[r] \in Seq(Lines) /\ printed'[r] = Append(printed[r], line[r])
    BY <1>2 DEF IInv, TypeOK
  <2>2. i \in DOMAIN printed[r] \/ printed'[r][i] = line[r]
    BY <2>1
  <2>3. i \in DOMAIN printed[r] => printed'[r][i] = printed[r][i]
    BY <2>1
  <2>. QED
    BY <1>2, <2>2, <2>3 DEF CreditedToSender, Credit
<1>. QED
  BY <1>1, <1>2

(* Steps that send, free and answer nothing.                                *)
LEMMA SendingsStable ==
    ASSUME IInv, Sendings,
           UNCHANGED <<outstanding_probes, sequence, sent, printed, privileged>>,
           \A r \in outstanding_probes : Leaving(r) => Leaving(r)',
           dispatched' \in Nat, dispatched <= dispatched', inbox' \subseteq inbox,
           \A r \in 1..dispatched : kind'[r] = kind[r]
    PROVE  Sendings'
<1>1. \A s \in sent : s.req \in 1..dispatched
  BY DEF IInv, TypeOK, Sendings, Requests
<1>2. \A packet \in inbox' : Quoting(packet)'
  BY <1>1, QuotingStays DEF Sendings
<1>3. \A s \in sent' : s.req <= dispatched'
  BY <1>1 DEF IInv, TypeOK
<1>4. \A r \in outstanding_probes' : Left(r)' \/ Leaving(r)'
  BY DEF Sendings, Left
<1>5. NumbersUnshared' => CreditedToSender'
  BY SharedStays DEF Sendings, CreditedToSender
<1>. QED
  BY <1>2, <1>3, <1>4, <1>5 DEF Sendings

(* Probes that have left the host are answered, each with a line about it.  *)
LEMMA FreeKeepsSendings ==
    ASSUME IInv, Sendings, NEW S \in SUBSET outstanding_probes, NEW line,
           RespondAndFree(S, line), NumbersUnshared => \A r \in S : Credit(r, line[r].cause),
           \A r \in outstanding_probes \ S : Left(r),
           UNCHANGED <<sent, kind, dispatched, privileged>>, inbox' \subseteq inbox
    PROVE  Sendings'
<1>1. outstanding_probes' = outstanding_probes \ S
  BY DEF RespondAndFree, ListRemove
<1>2. \A r \in outstanding_probes' : sequence'[r] = sequence[r]
  BY <1>1, ProbesAreRequests DEF IInv, RespondAndFree
<1>3. \A packet \in inbox' : Quoting(packet)'
  BY QuotingStays DEF Sendings
<1>4. ASSUME NumbersUnshared' PROVE CreditedToSender'
  <2>1. NumbersUnshared
    BY <1>4, SharedStays
  <2>2. printed' = [r \in Requests |->
                      IF r \in S THEN Append(printed[r], line[r]) ELSE printed[r]]
    BY DEF RespondAndFree
  <2>. QED
    BY <2>1, <2>2, CreditsAdded DEF Sendings
<1>. QED
  BY <1>1, <1>2, <1>3, <1>4 DEF Sendings, Left

(* A command is answered where it is dispatched.                            *)
LEMMA RespondKeepsSendings ==
    ASSUME IInv, Sendings, NEW r \in Requests, NEW result, NextCommand(r),
           Respond(r, result, r),
           UNCHANGED <<outstanding_probes, sequence, sent, inbox, kind, privileged>>
    PROVE  Sendings'
<1>1. /\ \A packet \in inbox' : Quoting(packet)'
      /\ \A q \in outstanding_probes' : Left(q)'
  BY QuotingStays DEF Sendings, Left, Leaving, NextCommand
<1>2. dispatched \in Nat /\ dispatched' = dispatched + 1
  BY DEF IInv, TypeOK, NextCommand
<1>3. \A s \in sent' : s.req \in Nat /\ s.req <= dispatched'
  BY <1>2 DEF IInv, TypeOK, Sendings, Requests
<1>4. ASSUME NumbersUnshared' PROVE CreditedToSender'
  <2> DEFINE only == {r}
             line == [q \in only |-> Line(result, r)]
  <2>1. printed' = [q \in Requests |->
                      IF q \in only THEN Append(printed[q], line[q]) ELSE printed[q]]
    BY DEF Respond, IInv, TypeOK
  <2>2. \A q \in only : Credit(q, line[q].cause)
    BY DEF Line, Credit
  <2>3. CreditedToSender
    BY <1>4, SharedStays DEF Sendings
  <2>. HIDE DEF line, only
  <2>. QED
    BY <2>1, <2>2, <2>3, CreditsAdded
<1>. QED
  BY <1>1, <1>3, <1>4 DEF Sendings

(* A probe enters the list, and leaves the host at once or after the loop   *)
(* over ports.                                                              *)
LEMMA AllocKeepsSendings ==
    ASSUME IInv, Sendings, NEW r \in Requests, DispatchDatagram(r) \/ DispatchStream(r)
    PROVE  Sendings'
<1>1. /\ NextCommand(r) /\ AllocProbe(r) /\ UNCHANGED <<inbox, kind, printed, privileged>>
      /\ sent \subseteq sent' /\ sent' \subseteq sent \cup {[req |-> r, port |-> next_sequence]}
  BY DEF DispatchDatagram, DispatchStream, clientVars, netVars
<1>2. /\ outstanding_probes' = outstanding_probes \cup {r} /\ sequence'[r] = next_sequence
      /\ \A q \in outstanding_probes \ {r} : sequence'[q] = sequence[q]
  BY <1>1, ProbesAreRequests DEF IInv, TypeOK, AllocProbe, TakeSequence
<1>3. dispatched \in Nat /\ r = dispatched + 1 /\ dispatched' = r /\ pc = "dispatch"
  BY <1>1 DEF IInv, TypeOK, NextCommand
<1>4. \A s \in sent' : s.req <= dispatched'
  <2>1. \A s \in sent : s.req \in Nat /\ s.req <= dispatched
    BY DEF IInv, TypeOK, Sendings, Requests
  <2>. QED
    BY <1>1, <1>3, <2>1
<1>5. \A packet \in inbox' : Quoting(packet)'
  BY <1>1, QuotingStays DEF Sendings
<1>6. Left(r)' \/ Leaving(r)'
  BY <1>2, <1>3 DEF DispatchDatagram, DispatchStream, Left, Leaving
<1>7. \A q \in outstanding_probes \ {r} : Left(q)'
  BY <1>1, <1>2, <1>3 DEF Sendings, Left, Leaving
<1>. QED
  BY <1>1, <1>2, <1>4, <1>5, <1>6, <1>7, SharedStays DEF Sendings, CreditedToSender

(* The loop over ports sends its probe under the number it has then, takes  *)
(* another number, or answers it.                                           *)
LEMMA ConstructKeepsSendings ==
    ASSUME IInv, Sendings, PortsApart, NEW r \in Requests, Construct(r)
    PROVE  Sendings'
<1>1. /\ pc = "construct" /\ r = dispatched /\ r \in outstanding_probes
      /\ UNCHANGED <<dispatched, kind, inbox, privileged>>
  BY DEF Construct, IInv, ConstructsOutstanding, streamVars, clientVars
<1>2. \A q \in outstanding_probes \ {r} : Left(q)
  BY <1>1 DEF Sendings, Leaving
<1>3. CASE ConstructInProgress(r)
  <2>1. /\ sent' = sent \cup {[req |-> r, port |-> sequence[r]]}
        /\ UNCHANGED <<outstanding_probes, sequence, printed>>
    BY <1>3 DEF ConstructInProgress, OpenSocket
  <2>2. \A s \in sent' : s.req <= dispatched'
    BY <1>1, <2>1 DEF Sendings, IInv, TypeOK
  <2>3. \A packet \in inbox' : Quoting(packet)'
    BY <1>1, <2>1, QuotingStays DEF Sendings
  <2>4. \A q \in outstanding_probes' : Left(q)'
    BY <1>2, <2>1 DEF Left
  <2>5. NumbersUnshared' => CreditedToSender'
    BY <1>1, <2>1, SharedStays DEF Sendings, CreditedToSender
  <2>. QED
    BY <2>2, <2>3, <2>4, <2>5 DEF Sendings
<1>4. CASE ConstructInUse(r)
  <2>1. CASE LastTry
    <3>1. RespondAndFree({r}, [q \in {r} |-> Line("packet-error", q)]) /\ sent' = sent
      BY <1>4, <2>1 DEF ConstructInUse
    <3>. QED
      BY <1>1, <1>2, <3>1, FreeKeepsSendings DEF Line, Credit
  <2>2. CASE ~LastTry
    <3>1. /\ UNCHANGED <<pc, sent, outstanding_probes, printed>>
          /\ \A q \in outstanding_probes \ {r} : sequence'[q] = sequence[q]
      BY <1>4, <2>2, ProbesAreRequests DEF ConstructInUse, TakeSequence, IInv, TypeOK
    <3>2. \A packet \in inbox' : Quoting(packet)'
      BY <1>1, <3>1, QuotingStays DEF Sendings
    <3>3. Leaving(r)' /\ \A q \in outstanding_probes' \ {r} : Left(q)'
      BY <1>1, <1>2, <3>1 DEF Left, Leaving
    <3>. QED
      BY <1>1, <3>1, <3>2, <3>3, SharedStays DEF Sendings, CreditedToSender
  <2>. QED
    BY <2>1, <2>2
<1>5. ASSUME NEW result, ConstructFailed(r, result) PROVE Sendings'
  BY <1>1, <1>2, <1>5, FreeKeepsSendings DEF ConstructFailed, Line, Credit
<1>. QED
  BY <1>3, <1>4, <1>5 DEF Construct, PortsApart

(* What returns for a probe quotes it; a stranger's ping has not our id.    *)
LEMMA ArriveKeepsSendings ==
    ASSUME IInv, Sendings, NEW packet \in Heard, Arrive(packet)
    PROVE  Sendings'
<1>0. Quoting(packet)
  <2>1. CASE privileged
    BY <2>1 DEF Heard, ReplyTo, ForeignPacket, ForeignQuotation, Packet, Quoting, Quotes
  <2>2. CASE ~privileged
    BY <2>2 DEF Heard, EchoOf, ErrorOf, Packet, Quoting, Quotes
  <2>. QED
    BY <2>1, <2>2
<1>2. UNCHANGED <<sent, kind, dispatched, outstanding_probes, sequence, printed, pc, privileged>>
  BY DEF Arrive, clientVars, streamVars, tableVars
<1>3. \A p \in inbox' : Quoting(p)'
  BY <1>0, <1>2, QuotingStays DEF Arrive, Sendings
<1>. QED
  BY <1>2, <1>3, SharedStays DEF Sendings, Left, Leaving, CreditedToSender

(* Packets, sockets and deadlines answer probes which have left the host.   *)
LEMMA RoundKeepsSendings ==
    ASSUME IInv, Sendings, PortsApart,
           \/ \E packet \in inbox : ReceivePacket(packet)
           \/ PollProbeSockets \/ CheckProbeTimeouts
    PROVE  Sendings'
<1>1. /\ pc # "construct" /\ UNCHANGED <<sent, kind, dispatched, privileged>>
      /\ inbox' \subseteq inbox
  BY DEF ReceivePacket, PollProbeSockets, CheckProbeTimeouts, clientVars, streamVars, netVars
<1>2. \A r \in outstanding_probes : Left(r)
  BY <1>1 DEF Sendings, Leaving
<1>3. ASSUME NEW packet \in inbox, ReceivePacket(packet) PROVE Sendings'
  <2>1. CASE UNCHANGED <<tableVars, printed>>
    <3>1. UNCHANGED <<outstanding_probes, sequence, printed>>
      BY <2>1 DEF tableVars
    <3>2. dispatched' = dispatched /\ dispatched \in Nat
      BY <1>1 DEF IInv, TypeOK
    <3>. QED
      BY <1>1, <3>1, <3>2, SendingsStable DEF Leaving
  <2>2. ASSUME NEW r \in outstanding_probes, Finds(packet, r),
               RespondAndFree({r}, [q \in {r} |-> Line(packet.type, packet.cause)])
        PROVE  Sendings'
    <3>1. NumbersUnshared => Credit(r, packet.cause)
      BY <1>1, <2>2, FindsQuoted
    <3>. QED
      BY <1>1, <1>2, <2>2, <3>1, FreeKeepsSendings DEF Line
  <2>. QED
    BY <1>3, <2>1, <2>2 DEF ReceivePacket
<1>4. CASE PollProbeSockets
  BY <1>1, <1>2, <1>4, FreeKeepsSendings DEF PollProbeSockets, Line, Credit
<1>5. CASE CheckProbeTimeouts
  BY <1>1, <1>2, <1>5, FreeKeepsSendings DEF CheckProbeTimeouts, Line, Credit
<1>. QED
  BY <1>3, <1>4, <1>5

LEMMA NextCInv == IInv /\ CInv /\ [Next]_vars => CInv'
<1> SUFFICES ASSUME IInv, Sendings, PortsApart, [Next]_vars PROVE Sendings'
  BY DEF CInv, PortsApart
<1>0. dispatched \in Nat /\ written \in Nat /\ dispatched <= written
  BY DEF IInv, TypeOK
<1>1. ASSUME NEW k \in Kinds, NEW t \in Timeouts, WriteCommand(k, t) PROVE Sendings'
  <2>1. \A r \in 1..dispatched : kind'[r] = kind[r]
    BY <1>0, <1>1, ConstantsAssumption DEF WriteCommand, IInv, TypeOK, Requests
  <2>. QED
    BY <1>0, <1>1, <2>1, SendingsStable DEF WriteCommand, tableVars, streamVars, netVars, Leaving
<1>2. CASE CloseStdin \/ Tick \/ \E r \in Requests, outcome \in {"up", "refused", "failed"} :
                                   FinishConnect(r, outcome)
  BY <1>0, <1>2, SendingsStable DEF CloseStdin, Tick, FinishConnect, tableVars, streamVars,
     netVars, clientVars, Leaving
<1>3. CASE Environment
  BY <1>1, <1>2, <1>3, ArriveKeepsSendings DEF Environment
<1>4. CASE WakeUp \/ ReadCommands \/ EndOfLoop \/ RecvError \/ NextSocket
  <2>1. /\ UNCHANGED <<outstanding_probes, sequence, sent, printed, privileged>>
        /\ UNCHANGED <<dispatched, inbox, kind>>
    BY <1>4 DEF WakeUp, ReadCommands, EndOfLoop, RecvError, NextSocket, tableVars,
       streamVars, netVars, clientVars
  <2>2. pc # "construct"
    BY <1>4 DEF WakeUp, ReadCommands, EndOfLoop, RecvError, NextSocket
  <2>. QED
    BY <1>0, <2>1, <2>2, SendingsStable DEF Leaving
<1>5. ASSUME NEW r \in Requests,
             DispatchImmediate(r) \/ DispatchExhausted(r) \/ DispatchUnsendable(r)
      PROVE  Sendings'
  BY <1>5, RespondKeepsSendings DEF DispatchImmediate, DispatchExhausted, DispatchUnsendable,
     tableVars, netVars, clientVars
<1>6. CASE UNCHANGED vars
  BY <1>0, <1>6, SendingsStable DEF vars, tableVars, streamVars, netVars, clientVars, Leaving
<1>. QED
  BY <1>2, <1>3, <1>4, <1>5, <1>6, RoundKeepsSendings, AllocKeepsSendings,
     ConstructKeepsSendings DEF Next, Engine, Exited

(* Until two probes have had the same number, a response line tells of the  *)
(* probe of its own command, whatever arrives late, twice or for others'    *)
(* pings, or of a packet that another process sent through a port in range   *)
(* (receive_packet, find_probe, respond_to_probe): if ports a client may    *)
(* ask for are not also sequence numbers, and no connect() succeeds at once. *)
THEOREM RepliesCredited == Spec => [](PortsApart /\ NumbersUnshared => CreditedToSender)
<1>1. Init => CInv
  BY DEF Init, CInv, Sendings, CreditedToSender
<1>2. CInv => (PortsApart /\ NumbersUnshared => CreditedToSender)
  BY DEF CInv, Sendings
<1>. QED
  BY <1>1, <1>2, NextCInv, Invariance, PTL DEF Spec

============================================================================
