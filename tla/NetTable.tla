----------------------------- MODULE NetTable -----------------------------
(***************************************************************************)
(* The table of hops which mtr keeps (ui/net.c): the probes it has sent to *)
(* each hop, the answers credited to it, the strip of recent round trips,  *)
(* and the batches in which hops are probed.                               *)
(*                                                                         *)
(* A probe is a command to mtr-packet, tagged with a sequence number; the  *)
(* answer comes back under that number, whenever mtr-packet has it, after  *)
(* resets of the table and after later probes.  mtr-packet answers each    *)
(* command once (CommandService), so a probe leaves in_flight once.        *)
(*                                                                         *)
(* Hops are counted from 0, as in the code.  A round trip time stands for  *)
(* the probe it was measured of, and the statistics drawn from it (best,   *)
(* average, jitter) are left out.                                          *)
(***************************************************************************)
EXTENDS Integers, Sequences, FiniteSets

CONSTANTS
    MaxHost,                   \* the size of the table, mtr.h
    FstTTL, MaxTTL,            \* ctl->fstTTL, ctl->maxTTL (-f, -m)
    MaxUnknown,                \* ctl->maxUnknown (-U)
    MinSequence, MaxSequence,  \* sequence numbers are MinSequence..MaxSequence-1
    SavedPings,                \* SAVED_PINGS, the length of a strip
    MaxPath,                   \* MAXPATH, addresses remembered of a hop
    Routers, Targets,          \* addresses that answer; those traced to
    MaxQueries, MaxResets      \* bounds: probes sent, resets of the table

Addresses == Routers \cup Targets
Hops      == 0..(MaxHost - 1)
SeqNumbers == MinSequence..(MaxSequence - 1)
Columns   == 1..SavedPings

ASSUME NetAssumption ==
    /\ MaxHost \in Nat /\ FstTTL \in Nat \ {0} /\ MaxTTL \in Nat
    /\ FstTTL <= MaxTTL /\ MaxTTL <= MaxHost
    /\ MaxUnknown \in Nat \ {0}
    /\ MinSequence \in Nat /\ MaxSequence \in Nat /\ MinSequence < MaxSequence
    /\ SavedPings \in Nat \ {0} /\ MaxPath \in Nat \ {0}
    /\ MaxQueries \in Nat /\ MaxResets \in Nat

VARIABLES
    host,             \* per hop: xmit, returned, sent, up, transit, err, addrs
    sequence,         \* per sequence number: index, transit, saved_seq
    next_sequence,
    saved, saved_seq_offset,   \* the strip of each hop
    batch_at, numhosts,
    remoteaddress,    \* the address traced to
    in_flight,        \* commands mtr-packet has not answered
    queries,          \* history: probes sent
    epoch,            \* history: resets
    mixed             \* history: an answer came under a number shared with others

vars == <<host, sequence, next_sequence, saved, saved_seq_offset, batch_at,
          numhosts, remoteaddress, in_flight, queries, epoch, mixed>>

----------------------------------------------------------------------------
(* A column of the strip: nothing was sent (-2), sent and not answered (-1), *)
(* or answered, by the n-th probe to the hop.                                *)
Blank == -2
Sent  == -1

FreshHost == [xmit |-> 0, returned |-> 0, sent |-> FALSE, up |-> FALSE,
              transit |-> FALSE, err |-> FALSE, addrs |-> <<>>]

FreshHosts  == [h \in Hops |-> FreshHost]
FreshStrips == [h \in Hops |-> [c \in Columns |-> Blank]]
FreshOffset == 2 - SavedPings
FreshOffsets == [h \in Hops |-> FreshOffset]

(* host[h].addr: unspecified while no address has answered. *)
Unknown(H, h)        == H[h].addrs = <<>>
HasAddr(H, h, addr)  == H[h].addrs # <<>> /\ H[h].addrs[1] = addr

(* The wrap of new_sequence. *)
NextSequence(s) == IF s + 1 >= MaxSequence THEN MinSequence ELSE s + 1

(* net_save_increment: every hop's strip moves one column, with its offset. *)
(* Faulty: the offset is forgotten.                                         *)
Shift(strip) == [c \in Columns |-> IF c < SavedPings THEN strip[c + 1] ELSE Blank]
NextOffset_Forgotten(offset) == offset
NextOffset(offset) == offset + 1

(* net_save_xmit: a new column when the last one of this hop is in use. *)
SaveXmit(S, O, at) ==
    LET full  == S[at][SavedPings] # Blank
        moved == [h \in Hops |-> IF full THEN Shift(S[h]) ELSE S[h]]
    IN  /\ saved' = [moved EXCEPT ![at][SavedPings] = Sent]
        /\ saved_seq_offset' = [h \in Hops |-> IF full THEN NextOffset(O[h]) ELSE O[h]]

(* net_save_return: a round trip older than the strip is dropped. *)
SaveReturn(at, saved_seq, value) ==
    LET c == saved_seq - saved_seq_offset[at] + 1
    IN  saved' = IF c \in Columns THEN [saved EXCEPT ![at][c] = value] ELSE saved

----------------------------------------------------------------------------
(* Sending *)

(* save_sequence, what it does to the hop. *)
Queried(h) == [h EXCEPT !.xmit = @ + 1, !.transit = TRUE,
                        !.up = @ /\ ~h.sent, !.sent = TRUE]

(* The commands in flight, where those under number s share it from now on. *)
Shared(s) == {IF q.seq = s THEN [q EXCEPT !.shared = TRUE] ELSE q : q \in in_flight}

(* net_send_query: a sequence number for the hop, and the command.  The     *)
(* query remembers what it was sent for, which the reply will not tell.      *)
SendQuery(H, Q, at, resets) ==
    /\ host' = [H EXCEPT ![at] = Queried(@)]
    /\ sequence' = [Q EXCEPT ![next_sequence] =
                      [index |-> at, transit |-> TRUE, saved_seq |-> H[at].xmit + 1]]
    /\ next_sequence' = NextSequence(next_sequence)
    /\ queries' = queries + 1
    /\ in_flight' = Shared(next_sequence) \cup
         {[seq |-> next_sequence, index |-> at, saved_seq |-> H[at].xmit + 1,
           shared |-> \E q \in in_flight : q.seq = next_sequence,
           epoch |-> resets]}

(* The hops of the batch before this one which have no address. *)
UnknownBefore(H, at) == {i \in (FstTTL - 1)..(at - 1) : Unknown(H, i)}

(* The hops before this one at the address traced to. *)
TargetBefore(H, at, target) == {i \in (FstTTL - 1)..(at - 1) : HasAddr(H, i, target)}

(* n_unknown: a hop at the target makes it MaxHost, and it counts on from there. *)
Unknowns(H, at, target) ==
    IF TargetBefore(H, at, target) = {} THEN Cardinality(UnknownBefore(H, at))
    ELSE MaxHost + Cardinality({i \in UnknownBefore(H, at) :
                                  \A j \in TargetBefore(H, at, target) : j < i})

(* A round ends at its target, behind too many silent hops, or at the limit. *)
LastOfRound(H, at, target) ==
    \/ HasAddr(H, at, target)
    \/ Unknowns(H, at, target) > MaxUnknown
    \/ at >= MaxTTL - 1

(* net_send_batch, on the table as net_reset has just left it, or as it is. *)
SendBatchFrom(H, Q, S, O, at, width, target, resets) ==
    /\ queries < MaxQueries
    /\ SendQuery(H, Q, at, resets)
    /\ SaveXmit(S, O, at)
    /\ IF LastOfRound(H, at, target)
         THEN numhosts' = at + 1 /\ batch_at' = FstTTL - 1
         ELSE numhosts' = width /\ batch_at' = at + 1

(* The interval is over (select_loop). *)
SendBatch ==
    /\ SendBatchFrom(host, sequence, saved, saved_seq_offset, batch_at, numhosts,
                     remoteaddress, epoch)
    /\ UNCHANGED <<remoteaddress, epoch, mixed>>

----------------------------------------------------------------------------
(* Answers *)

(* mark_sequence_complete: the number is known, and awaits its answer;      *)
(* faulty: whether it does is not asked.                                    *)
Awaited_Always(seq) == TRUE
Awaited(seq) == sequence[seq].transit

(* The addresses of a hop: the first stays first, others join while there is *)
(* room.                                                                     *)
AddAddr(addrs, addr) ==
    IF Len(addrs) = MaxPath \/ \E i \in DOMAIN addrs : addrs[i] = addr
      THEN addrs ELSE Append(addrs, addr)

Returned(h, addr, err) ==
    [h EXCEPT !.returned = @ + 1, !.sent = FALSE, !.up = TRUE,
              !.transit = FALSE, !.err = err, !.addrs = AddAddr(@, addr)]

(* net_process_ping: a reply to q, with the address it came from. *)
ProcessPing(q, addr, err) ==
    /\ q \in in_flight
    /\ in_flight' = in_flight \ {q}
    /\ mixed' = (mixed \/ q.shared)
    /\ LET index == sequence[q.seq].index
       IN  \/ /\ Awaited(q.seq)
              /\ sequence' = [sequence EXCEPT ![q.seq].transit = FALSE]
              /\ host' = [host EXCEPT ![index] = Returned(@, addr, err)]
              /\ SaveReturn(index, sequence[q.seq].saved_seq, q.saved_seq)
           \/ ~Awaited(q.seq) /\ UNCHANGED <<sequence, host, saved>>
    /\ UNCHANGED <<next_sequence, saved_seq_offset, batch_at, numhosts,
                   remoteaddress, queries, epoch>>

(* `no-reply', and an error without an address, change nothing. *)
NoReply(q) ==
    /\ q \in in_flight
    /\ in_flight' = in_flight \ {q}
    /\ UNCHANGED <<host, sequence, next_sequence, saved, saved_seq_offset,
                   batch_at, numhosts, remoteaddress, queries, epoch, mixed>>

----------------------------------------------------------------------------
(* Starting over *)

(* net_reset leaves no number awaited; faulty: it leaves them all as they are. *)
ForgetSequences_Omitted == sequence
ForgetSequences == [s \in SeqNumbers |-> [sequence[s] EXCEPT !.transit = FALSE]]

(* The user resets the counters; commands in flight stay in flight. *)
NetReset ==
    /\ epoch < MaxResets
    /\ host' = FreshHosts
    /\ sequence' = ForgetSequences
    /\ saved' = FreshStrips /\ saved_seq_offset' = FreshOffsets
    /\ batch_at' = FstTTL - 1 /\ numhosts' = 10
    /\ epoch' = epoch + 1
    /\ UNCHANGED <<next_sequence, remoteaddress, in_flight, queries, mixed>>

(* The user names another target: a reset, and a first batch at once. *)
NetReopen(target) ==
    /\ epoch < MaxResets
    /\ remoteaddress' = target
    /\ epoch' = epoch + 1 /\ mixed' = mixed
    /\ SendBatchFrom(FreshHosts, ForgetSequences, FreshStrips, FreshOffsets,
                     FstTTL - 1, 10, target, epoch + 1)

Init ==
    /\ host = FreshHosts
    /\ sequence = [s \in SeqNumbers |-> [index |-> 0, transit |-> FALSE, saved_seq |-> 0]]
    /\ next_sequence = MinSequence
    /\ saved = FreshStrips /\ saved_seq_offset = FreshOffsets
    /\ batch_at = FstTTL - 1 /\ numhosts = 10
    /\ remoteaddress \in Targets
    /\ in_flight = {} /\ queries = 0 /\ epoch = 0 /\ mixed = FALSE

Next ==
    \/ SendBatch
    \/ \E q \in in_flight, addr \in Addresses, err \in BOOLEAN : ProcessPing(q, addr, err)
    \/ \E q \in in_flight : NoReply(q)
    \/ NetReset
    \/ \E target \in Targets : NetReopen(target)

Spec == Init /\ [][Next]_vars

----------------------------------------------------------------------------
(* Properties *)

NetDrop(h) == (host[h].xmit - IF host[h].transit THEN 1 ELSE 0) - host[h].returned

(* The packets counted as lost at a hop are never fewer than none, though    *)
(* one bit stands for all its probes in flight, answers come late and out of *)
(* order, and resets and the reuse of numbers cut answers off (net_drop,     *)
(* net_loss).                                                                *)
LossNeverNegative == \A h \in Hops : NetDrop(h) >= 0

(* An answer counts for the hop its probe was sent to and for no other, and  *)
(* counts for nothing once the table has been reset, however late it comes,  *)
(* unless its sequence number came round again while it was in flight.       *)
CreditStep ==
    \A q \in in_flight, addr \in Addresses, err \in BOOLEAN :
        /\ ProcessPing(q, addr, err)
        /\ ~q.shared
        => \A h \in Hops :
             host'[h].returned = host[h].returned +
               IF h = q.index /\ q.epoch = epoch THEN 1 ELSE 0

(* ... in every step.                                                        *)
CreditedToItsHop == [][CreditStep]_vars

(* The strip of a hop which every round has probed shows, in each column,    *)
(* the probe sent in that column or its answer: answers that arrive after    *)
(* the strips have moved on are not written into another probe's column      *)
(* (net_save_return), unless one came under a number in use again.           *)
SavedInOwnColumn ==
    ~mixed => \A h \in Hops :
        host[h].xmit > 0 /\ saved_seq_offset[h] - FreshOffset = host[h].xmit - 1 =>
            \A n \in 1..host[h].xmit :
                LET c == SavedPings - (host[h].xmit - n)
                IN  c \in Columns => saved[h][c] \in {Sent, n}

============================================================================
