-------------------------- MODULE NetTableProofs --------------------------
(***************************************************************************)
(* Theorems about the table of hops, for every size of the table, range of *)
(* sequence numbers, and number of probes and resets: a loss is never      *)
(* negative, an answer counts for the hop its probe was sent to, and in    *)
(* the strip of a hop it stays in the column of that probe.                *)
(*                                                                         *)
(* None is inductive.  The first needs that the sequence numbers still     *)
(* awaiting an answer for a hop are no more than its probes without one;   *)
(* the second, what a number's entry says of the command in flight under   *)
(* it, when there is one such command.                                     *)
(***************************************************************************)
EXTENDS NetTable, FiniteSetTheorems, TLAPS

HostRecord == [xmit : Nat, returned : Nat, sent : BOOLEAN, up : BOOLEAN,
               transit : BOOLEAN, err : BOOLEAN, addrs : Seq(Addresses)]
Hosts == [Hops -> HostRecord]

Entries == [SeqNumbers -> [index : Hops, transit : BOOLEAN, saved_seq : Nat]]

Queries(e) == [seq : SeqNumbers, index : Hops, saved_seq : Nat, shared : BOOLEAN,
               epoch : 0..e]

(* The variables the two theorems are about.                                *)
TableTyped ==
    /\ host \in Hosts /\ sequence \in Entries
    /\ next_sequence \in SeqNumbers
    /\ batch_at \in (FstTTL - 1)..(MaxTTL - 1)
    /\ epoch \in Nat
    /\ in_flight \in SUBSET Queries(epoch)

(* The numbers under which an answer would count for hop h.                 *)
AwaitedFor(Q, h) == {s \in SeqNumbers : Q[s].transit /\ Q[s].index = h}

(* Each number awaited is one of the hop's probes without an answer, and so *)
(* is the one its bit in transit stands for.                                *)
Accounted(H, Q) ==
    \A h \in Hops :
        /\ H[h].returned + Cardinality(AwaitedFor(Q, h)) <= H[h].xmit
        /\ H[h].transit => H[h].returned < H[h].xmit

(* A command alone with its number is what the number's entry is about, and *)
(* is awaited if and only if no reset came since.                           *)
Traced(Q, F, e) ==
    \A q \in F : ~q.shared =>
        /\ \A p \in F : p.seq = q.seq => p = q
        /\ q.epoch = e => Q[q.seq].transit /\ Q[q.seq].index = q.index
        /\ q.epoch # e => ~Q[q.seq].transit

IInv == TableTyped /\ Accounted(host, sequence) /\ Traced(sequence, in_flight, epoch)

----------------------------------------------------------------------------
LEMMA FirstHop == (FstTTL - 1)..(MaxTTL - 1) \subseteq Hops /\ FstTTL - 1 \in Hops
BY NetAssumption DEF Hops

LEMMA AwaitedFinite ==
    ASSUME NEW Q, NEW h
    PROVE  /\ IsFiniteSet(AwaitedFor(Q, h))
           /\ Cardinality(AwaitedFor(Q, h)) \in Nat
<1>1. IsFiniteSet(SeqNumbers)
  BY NetAssumption, FS_Interval DEF SeqNumbers
<1>2. AwaitedFor(Q, h) \in SUBSET SeqNumbers
  BY DEF AwaitedFor
<1>3. IsFiniteSet(AwaitedFor(Q, h))
  BY <1>1, <1>2, FS_Subset
<1> QED
  BY <1>3, FS_CardinalityType

(* net_reset: a table without probes, and no number awaited.                *)
LEMMA Fresh ==
    ASSUME NEW Q \in Entries, \A s \in SeqNumbers : ~Q[s].transit
    PROVE  FreshHosts \in Hosts /\ Accounted(FreshHosts, Q)
<1>1. \A h \in Hops : Cardinality(AwaitedFor(Q, h)) = 0
  BY FS_EmptySet DEF AwaitedFor
<1>2. <<>> \in Seq(Addresses)
  OBVIOUS
<1> QED
  BY <1>1, <1>2 DEF FreshHosts, FreshHost, Hosts, HostRecord, Accounted

LEMMA Forgotten ==
    ASSUME TableTyped, Traced(sequence, in_flight, epoch)
    PROVE  /\ ForgetSequences \in Entries
           /\ \A s \in SeqNumbers : ~ForgetSequences[s].transit
           /\ Traced(ForgetSequences, in_flight, epoch + 1)
<1>1. /\ ForgetSequences \in Entries
      /\ \A s \in SeqNumbers : ~ForgetSequences[s].transit
  BY DEF ForgetSequences, TableTyped, Entries
<1>2. \A q \in in_flight : q.epoch # epoch + 1 /\ q.seq \in SeqNumbers
  BY DEF TableTyped, Queries
<1> QED
  BY <1>1, <1>2 DEF Traced

LEMMA QueriedTyped ==
    ASSUME NEW h \in HostRecord
    PROVE  /\ Queried(h) \in HostRecord
           /\ Queried(h).xmit = h.xmit + 1
           /\ Queried(h).returned = h.returned
<1> DEFINE up == h.up /\ ~h.sent
<1>1. up \in BOOLEAN
  OBVIOUS
<1>2. Queried(h) = [h EXCEPT !.xmit = h.xmit + 1, !.transit = TRUE, !.up = up, !.sent = TRUE]
  BY DEF Queried
<1> HIDE DEF up
<1>3. Queried(h) = [xmit |-> h.xmit + 1, returned |-> h.returned, sent |-> TRUE, up |-> up,
                    transit |-> TRUE, err |-> h.err, addrs |-> h.addrs]
  BY <1>2 DEF HostRecord
<1> QED
  BY <1>1, <1>3 DEF HostRecord

(* One more probe to hop `at', under the next number, whatever that number  *)
(* stood for.                                                               *)
LEMMA SentAccounted ==
    ASSUME next_sequence \in SeqNumbers,
           NEW H \in Hosts, NEW Q \in Entries, NEW at \in Hops, NEW resets,
           Accounted(H, Q), SendQuery(H, Q, at, resets)
    PROVE  host' \in Hosts /\ sequence' \in Entries /\ Accounted(host', sequence')
<1>1. /\ host' = [H EXCEPT ![at] = Queried(@)]
      /\ sequence' = [Q EXCEPT ![next_sequence] =
                        [index |-> at, transit |-> TRUE, saved_seq |-> H[at].xmit + 1]]
  BY DEF SendQuery
<1>2. H[at] \in HostRecord
  BY DEF Hosts
<1>3. /\ Queried(H[at]) \in HostRecord
      /\ Queried(H[at]).xmit = H[at].xmit + 1
      /\ Queried(H[at]).returned = H[at].returned
  BY <1>2, QueriedTyped
<1>4. host' \in Hosts /\ sequence' \in Entries
  BY <1>1, <1>2, <1>3 DEF Hosts, HostRecord, Entries
<1> SUFFICES ASSUME NEW h \in Hops
             PROVE  /\ host'[h].returned + Cardinality(AwaitedFor(sequence', h)) <= host'[h].xmit
                    /\ host'[h].transit => host'[h].returned < host'[h].xmit
  BY <1>4 DEF Accounted
<1>5. /\ H[h].returned + Cardinality(AwaitedFor(Q, h)) <= H[h].xmit
      /\ H[h].transit => H[h].returned < H[h].xmit
  BY DEF Accounted
<1>6. /\ H[h].returned \in Nat /\ H[h].xmit \in Nat
      /\ Cardinality(AwaitedFor(Q, h)) \in Nat
      /\ Cardinality(AwaitedFor(sequence', h)) \in Nat
  BY AwaitedFinite DEF Hosts, HostRecord
<1>7. CASE h = at
  <2>1. AwaitedFor(sequence', h) = AwaitedFor(Q, h) \cup {next_sequence}
    BY <1>1, <1>7 DEF AwaitedFor, Entries
  <2>2. Cardinality(AwaitedFor(sequence', h)) <= Cardinality(AwaitedFor(Q, h)) + 1
    <3>1. IsFiniteSet(AwaitedFor(Q, h))
      BY AwaitedFinite
    <3>2. Cardinality(AwaitedFor(Q, h) \cup {next_sequence}) =
            IF next_sequence \in AwaitedFor(Q, h) THEN Cardinality(AwaitedFor(Q, h))
            ELSE Cardinality(AwaitedFor(Q, h)) + 1
      BY <3>1, FS_AddElement
    <3> QED
      BY <1>6, <2>1, <3>2
  <2>3. host'[h] = Queried(H[at])
    BY <1>1, <1>7 DEF Hosts
  <2>4. host'[h].xmit = H[h].xmit + 1 /\ host'[h].returned = H[h].returned
    BY <1>3, <1>7, <2>3
  <2>5. Cardinality(AwaitedFor(Q, h)) >= 0
    BY <1>6
  <2> QED
    BY <1>5, <1>6, <2>2, <2>4, <2>5
<1>8. CASE h # at
  <2>1. AwaitedFor(sequence', h) \in SUBSET AwaitedFor(Q, h)
    BY <1>1, <1>8 DEF AwaitedFor, Entries
  <2>2. Cardinality(AwaitedFor(sequence', h)) <= Cardinality(AwaitedFor(Q, h))
    BY <2>1, AwaitedFinite, FS_Subset
  <2>3. host'[h] = H[h]
    BY <1>1, <1>8 DEF Hosts
  <2> QED
    BY <1>5, <1>6, <2>2, <2>3
<1> QED
  BY <1>7, <1>8

(* A command that finds its number free is alone with it.                   *)
LEMMA SentTraced ==
    ASSUME in_flight \in SUBSET Queries(epoch), next_sequence \in SeqNumbers,
           NEW H \in Hosts, NEW Q \in Entries, NEW at \in Hops, NEW resets \in Nat,
           epoch <= resets, epoch \in Nat,
           Traced(Q, in_flight, resets), SendQuery(H, Q, at, resets)
    PROVE  in_flight' \in SUBSET Queries(resets) /\ Traced(sequence', in_flight', resets)
<1> DEFINE new == [seq |-> next_sequence, index |-> at, saved_seq |-> H[at].xmit + 1,
                   shared |-> \E q \in in_flight : q.seq = next_sequence,
                   epoch |-> resets]
<1>1. /\ in_flight' = Shared(next_sequence) \cup {new}
      /\ sequence' = [Q EXCEPT ![next_sequence] =
                        [index |-> at, transit |-> TRUE, saved_seq |-> H[at].xmit + 1]]
  BY DEF SendQuery
<1>2. \A q \in Shared(next_sequence) :
         /\ q \in Queries(epoch)
         /\ q.seq = next_sequence => q.shared /\ new.shared
         /\ q.seq # next_sequence => q \in in_flight
  BY DEF Shared, Queries
<1>3. H[at].xmit + 1 \in Nat
  BY DEF Hosts, HostRecord
<1>4. in_flight' \in SUBSET Queries(resets)
  <2> DEFINE shared == \E q \in in_flight : q.seq = next_sequence
  <2>1. shared \in BOOLEAN
    OBVIOUS
  <2>2. new = [seq |-> next_sequence, index |-> at, saved_seq |-> H[at].xmit + 1,
               shared |-> shared, epoch |-> resets]
    OBVIOUS
  <2> HIDE DEF shared, new
  <2>3. new \in Queries(resets)
    BY <1>3, <2>1, <2>2 DEF Queries
  <2>4. Queries(epoch) \subseteq Queries(resets)
    BY DEF Queries
  <2> QED
    BY <1>1, <1>2, <2>3, <2>4
<1> SUFFICES ASSUME NEW q \in in_flight', ~q.shared
             PROVE  /\ \A p \in in_flight' : p.seq = q.seq => p = q
                    /\ q.epoch = resets => sequence'[q.seq].transit /\ sequence'[q.seq].index = q.index
                    /\ q.epoch # resets => ~sequence'[q.seq].transit
  BY <1>4 DEF Traced
<1>5. CASE q = new
  BY <1>1, <1>2, <1>5 DEF Entries
<1>6. CASE q # new
  <2>1. q \in in_flight /\ q.seq # next_sequence
    BY <1>1, <1>2, <1>6
  <2>2. q.seq \in SeqNumbers
    BY <2>1 DEF Queries
  <2>3. sequence'[q.seq] = Q[q.seq]
    BY <1>1, <2>1, <2>2 DEF Entries
  <2>4. \A p \in in_flight' : p.seq = q.seq => p \in in_flight
    BY <1>1, <1>2, <2>1
  <2> QED
    BY <2>1, <2>3, <2>4 DEF Traced
<1> QED
  BY <1>5, <1>6

----------------------------------------------------------------------------
(* net_send_batch, from the table as it is or as a reset leaves it.         *)
LEMMA BatchKeepsInvariant ==
    ASSUME NEW H \in Hosts, NEW Q \in Entries, NEW S, NEW O,
           NEW at \in (FstTTL - 1)..(MaxTTL - 1), NEW width, NEW target,
           NEW resets \in Nat, epoch \in Nat, epoch <= resets, epoch' = resets,
           in_flight \in SUBSET Queries(epoch), next_sequence \in SeqNumbers,
           Accounted(H, Q), Traced(Q, in_flight, resets),
           SendBatchFrom(H, Q, S, O, at, width, target, resets)
    PROVE  IInv'
<1>1. SendQuery(H, Q, at, resets)
  BY DEF SendBatchFrom
<1>2. at \in Hops
  BY FirstHop
<1>3. host' \in Hosts /\ sequence' \in Entries /\ Accounted(host', sequence')
  BY <1>1, <1>2, SentAccounted
<1>4. in_flight' \in SUBSET Queries(resets) /\ Traced(sequence', in_flight', resets)
  BY <1>1, <1>2, SentTraced
<1>5. next_sequence' \in SeqNumbers
  BY <1>1, NetAssumption DEF SendQuery, NextSequence, SeqNumbers
<1>6. batch_at' \in (FstTTL - 1)..(MaxTTL - 1)
  BY NetAssumption DEF SendBatchFrom, LastOfRound
<1> QED
  BY <1>3, <1>4, <1>5, <1>6 DEF IInv, TableTyped, Accounted, AwaitedFor, Traced, Queries

LEMMA ReturnedTyped ==
    ASSUME NEW h \in HostRecord, NEW addr \in Addresses, NEW err \in BOOLEAN
    PROVE  /\ Returned(h, addr, err) \in HostRecord
           /\ Returned(h, addr, err).xmit = h.xmit
           /\ Returned(h, addr, err).returned = h.returned + 1
           /\ ~Returned(h, addr, err).transit
<1>1. AddAddr(h.addrs, addr) \in Seq(Addresses)
  BY DEF AddAddr, HostRecord
<1> DEFINE failed == err
<1>2. failed \in BOOLEAN
  OBVIOUS
<1>3. Returned(h, addr, err) =
        [h EXCEPT !.returned = h.returned + 1, !.sent = FALSE, !.up = TRUE,
                  !.transit = FALSE, !.err = failed, !.addrs = AddAddr(h.addrs, addr)]
  BY DEF Returned
<1> HIDE DEF failed
<1>4. Returned(h, addr, err) =
        [xmit |-> h.xmit, returned |-> h.returned + 1, sent |-> FALSE, up |-> TRUE,
         transit |-> FALSE, err |-> failed, addrs |-> AddAddr(h.addrs, addr)]
  BY <1>3 DEF HostRecord
<1> QED
  BY <1>1, <1>2, <1>4 DEF HostRecord

(* An answer takes one number from those awaited for the hop it counts for. *)
LEMMA AnswerAccounted ==
    ASSUME host \in Hosts, sequence \in Entries, Accounted(host, sequence),
           NEW s \in SeqNumbers, sequence[s].transit,
           NEW addr \in Addresses, NEW err \in BOOLEAN,
           sequence' = [sequence EXCEPT ![s].transit = FALSE],
           host' = [host EXCEPT ![sequence[s].index] = Returned(@, addr, err)]
    PROVE  host' \in Hosts /\ sequence' \in Entries /\ Accounted(host', sequence')
<1> DEFINE index == sequence[s].index
<1>1. index \in Hops /\ host[index] \in HostRecord
  BY DEF Entries, Hosts
<1>2. /\ Returned(host[index], addr, err) \in HostRecord
      /\ Returned(host[index], addr, err).xmit = host[index].xmit
      /\ Returned(host[index], addr, err).returned = host[index].returned + 1
      /\ ~Returned(host[index], addr, err).transit
  BY <1>1, ReturnedTyped
<1>3. host' = [host EXCEPT ![index] = Returned(host[index], addr, err)]
  OBVIOUS
<1> HIDE DEF index
<1>4. host' \in Hosts
  BY <1>1, <1>2, <1>3 DEF Hosts
<1>5. sequence' \in Entries
  BY DEF Entries
<1> SUFFICES ASSUME NEW h \in Hops
             PROVE  /\ host'[h].returned + Cardinality(AwaitedFor(sequence', h)) <= host'[h].xmit
                    /\ host'[h].transit => host'[h].returned < host'[h].xmit
  BY <1>4, <1>5 DEF Accounted
<1>6. /\ host[h].returned + Cardinality(AwaitedFor(sequence, h)) <= host[h].xmit
      /\ host[h].transit => host[h].returned < host[h].xmit
  BY DEF Accounted
<1>7. /\ host[h].returned \in Nat /\ host[h].xmit \in Nat
      /\ IsFiniteSet(AwaitedFor(sequence, h)) /\ Cardinality(AwaitedFor(sequence, h)) \in Nat
  BY AwaitedFinite DEF Hosts, HostRecord
<1>8. AwaitedFor(sequence', h) = AwaitedFor(sequence, h) \ {s}
  BY DEF AwaitedFor, Entries
<1>9. Cardinality(AwaitedFor(sequence', h)) =
        IF s \in AwaitedFor(sequence, h) THEN Cardinality(AwaitedFor(sequence, h)) - 1
        ELSE Cardinality(AwaitedFor(sequence, h))
  BY <1>7, <1>8, FS_RemoveElement
<1>10. CASE h = index
  <2>1. s \in AwaitedFor(sequence, h)
    BY <1>10 DEF AwaitedFor, index
  <2>2. host'[h] = Returned(host[index], addr, err)
    BY <1>3, <1>10 DEF Hosts
  <2>3. /\ host'[h].xmit = host[h].xmit /\ host'[h].returned = host[h].returned + 1
        /\ ~host'[h].transit
    BY <1>2, <1>10, <2>2
  <2> QED
    BY <1>6, <1>7, <1>9, <2>1, <2>3
<1>11. CASE h # index
  <2>1. s \notin AwaitedFor(sequence, h)
    BY <1>11 DEF AwaitedFor, index
  <2>2. host'[h] = host[h]
    BY <1>3, <1>11 DEF Hosts
  <2> QED
    BY <1>6, <1>7, <1>9, <2>1, <2>2
<1> QED
  BY <1>10, <1>11

LEMMA AnswerKeepsInvariant ==
    ASSUME IInv, NEW q \in in_flight, NEW addr \in Addresses, NEW err \in BOOLEAN,
           ProcessPing(q, addr, err)
    PROVE  IInv'
<1>1. q.seq \in SeqNumbers
  BY DEF IInv, TableTyped, Queries
<1>2. in_flight' = in_flight \ {q} /\ UNCHANGED <<next_sequence, batch_at, epoch>>
  BY DEF ProcessPing
<1>3. host' \in Hosts /\ sequence' \in Entries /\ Accounted(host', sequence')
  <2>1. CASE sequence[q.seq].transit
    BY <1>1, <2>1, AnswerAccounted DEF IInv, TableTyped, ProcessPing, Awaited
  <2>2. CASE ~sequence[q.seq].transit
    BY <2>2 DEF IInv, TableTyped, ProcessPing, Awaited
  <2> QED
    BY <2>1, <2>2
<1>4. \A s \in SeqNumbers : s # q.seq => sequence'[s] = sequence[s]
  BY DEF ProcessPing, IInv, TableTyped, Entries
<1>5. Traced(sequence', in_flight', epoch)
  <2> SUFFICES ASSUME NEW r \in in_flight, r # q, ~r.shared
               PROVE  r.seq # q.seq /\ r.seq \in SeqNumbers
    BY <1>2, <1>4 DEF IInv, Traced
  <2> QED
    BY DEF IInv, Traced, TableTyped, Queries
<1> QED
  BY <1>2, <1>3, <1>5 DEF IInv, TableTyped, Accounted, AwaitedFor, Traced, Queries

LEMMA InitIInv == Init => IInv
<1> SUFFICES ASSUME Init PROVE IInv
  OBVIOUS
<1>1. sequence \in Entries /\ \A s \in SeqNumbers : ~sequence[s].transit
  BY FirstHop, NetAssumption DEF Init, Entries, Hops
<1>2. host \in Hosts /\ Accounted(host, sequence)
  BY <1>1, Fresh DEF Init
<1> QED
  BY <1>1, <1>2, NetAssumption DEF Init, IInv, TableTyped, Traced, SeqNumbers

LEMMA NextIInv == IInv /\ [Next]_vars => IInv'
<1> SUFFICES ASSUME IInv, [Next]_vars PROVE IInv'
  OBVIOUS
<1>1. CASE SendBatch
  BY <1>1, BatchKeepsInvariant DEF IInv, TableTyped, SendBatch
<1>2. ASSUME NEW q \in in_flight, NEW addr \in Addresses, NEW err \in BOOLEAN,
             ProcessPing(q, addr, err)
      PROVE  IInv'
  BY <1>2, AnswerKeepsInvariant
<1>3. ASSUME NEW q \in in_flight, NoReply(q) PROVE IInv'
  BY <1>3 DEF NoReply, IInv, TableTyped, Accounted, AwaitedFor, Traced, Queries
<1>4. CASE NetReset
  <2>1. FreshHosts \in Hosts /\ Accounted(FreshHosts, ForgetSequences)
    BY Forgotten, Fresh DEF IInv
  <2>2. Queries(epoch) \subseteq Queries(epoch + 1)
    BY DEF IInv, TableTyped, Queries
  <2>3. batch_at' \in (FstTTL - 1)..(MaxTTL - 1)
    BY <1>4, NetAssumption DEF NetReset
  <2>4. TableTyped'
    BY <1>4, <2>1, <2>2, <2>3, Forgotten DEF NetReset, IInv, TableTyped
  <2>5. Accounted(host', sequence') /\ Traced(sequence', in_flight', epoch')
    BY <1>4, <2>1, Forgotten DEF NetReset, IInv
  <2> QED
    BY <2>4, <2>5 DEF IInv, Accounted, AwaitedFor, Traced
<1>5. ASSUME NEW target \in Targets, NetReopen(target) PROVE IInv'
  <2>1. FreshHosts \in Hosts /\ Accounted(FreshHosts, ForgetSequences)
    BY Forgotten, Fresh DEF IInv
  <2>2. FstTTL - 1 \in (FstTTL - 1)..(MaxTTL - 1)
    BY NetAssumption
  <2>3. epoch + 1 \in Nat /\ epoch <= epoch + 1
    BY DEF IInv, TableTyped
  <2> QED
    BY <1>5, <2>1, <2>2, <2>3, Forgotten, BatchKeepsInvariant DEF IInv, TableTyped, NetReopen
<1>6. CASE UNCHANGED vars
  BY <1>6 DEF vars, IInv, TableTyped, Accounted, AwaitedFor, Traced, Queries
<1> QED
  BY <1>1, <1>2, <1>3, <1>4, <1>5, <1>6 DEF Next

(* The inductive invariant of the table of hops.                            *)
THEOREM Invariance == Spec => []IInv
BY InitIInv, NextIInv, PTL DEF Spec

(* Whatever answers come late, out of order, after a reset or under a       *)
(* number in use again, the loss net_drop counts is never negative.         *)
THEOREM LossCounted == Spec => []LossNeverNegative
<1>1. IInv => LossNeverNegative
  <2> SUFFICES ASSUME IInv, NEW h \in Hops PROVE NetDrop(h) >= 0
    BY DEF LossNeverNegative
  <2>1. host[h].xmit \in Nat /\ host[h].returned \in Nat
    BY DEF IInv, TableTyped, Hosts, HostRecord
  <2>2. /\ host[h].returned + Cardinality(AwaitedFor(sequence, h)) <= host[h].xmit
        /\ host[h].transit => host[h].returned < host[h].xmit
    BY DEF IInv, Accounted
  <2> QED
    BY <2>1, <2>2, AwaitedFinite DEF NetDrop
<1> QED
  BY <1>1, Invariance, PTL

(* An answer which had its number to itself counts for the hop its probe    *)
(* was sent to, and not at all when a reset came between (net_process_ping, *)
(* mark_sequence_complete).                                                 *)
THEOREM AnswerCredited == Spec => CreditedToItsHop
<1>1. IInv /\ [Next]_vars => [CreditStep]_vars
  <2> SUFFICES ASSUME IInv, NEW q \in in_flight, NEW addr \in Addresses, NEW err \in BOOLEAN,
                      ProcessPing(q, addr, err), ~q.shared, NEW h \in Hops
               PROVE  host'[h].returned = host[h].returned +
                        IF h = q.index /\ q.epoch = epoch THEN 1 ELSE 0
    BY DEF CreditStep
  <2>1. host[h] \in HostRecord /\ host[h].returned \in Nat /\ q.seq \in SeqNumbers
    BY DEF IInv, TableTyped, Hosts, HostRecord, Queries
  <2>2. CASE q.epoch = epoch
    <3>1. sequence[q.seq].transit /\ sequence[q.seq].index = q.index
      BY <2>2 DEF IInv, Traced
    <3>2. host' = [host EXCEPT ![q.index] = Returned(host[q.index], addr, err)]
      BY <3>1 DEF ProcessPing, Awaited
    <3>3. h # q.index => host'[h] = host[h]
      BY <3>2 DEF IInv, TableTyped, Hosts
    <3>4. h = q.index => host'[h] = Returned(host[h], addr, err)
      BY <3>2 DEF IInv, TableTyped, Hosts
    <3> QED
      BY <2>1, <2>2, <3>3, <3>4, ReturnedTyped
  <2>3. CASE q.epoch # epoch
    <3>1. host' = host
      BY <2>3 DEF IInv, Traced, ProcessPing, Awaited
    <3> QED
      BY <2>1, <2>3, <3>1
  <2> QED
    BY <2>2, <2>3
<1> QED
  BY <1>1, Invariance, PTL DEF Spec, CreditedToItsHop

----------------------------------------------------------------------------
(* The strips                                                               *)

Strips == [Hops -> [Columns -> Int]]
Offsets == [Hops -> Int]

(* The last column of a hop's strip is in use; how often it has moved on.   *)
Full(strip) == strip[SavedPings] # Blank
Moves(offset) == offset - FreshOffset

(* A strip moves on at least as often as its hop is probed: for every probe *)
(* but the first, by that probe or, before it, by another hop's.            *)
MovesOn(strip, offset, xmit) ==
    /\ Full(strip) => xmit >= 1 /\ Moves(offset) >= xmit - 1
    /\ ~Full(strip) => Moves(offset) >= xmit

(* ... and if no oftener, the hop has been probed in every round.           *)
InStep(strip, offset, xmit) == Moves(offset) = IF Full(strip) THEN xmit - 1 ELSE xmit

(* Then the column in which net_save_return looks for a probe is its own.   *)
OwnColumns(strip, offset, xmit) ==
    InStep(strip, offset, xmit) =>
        \A n \in 1..xmit :
            n - offset + 1 \in Columns => strip[n - offset + 1] \in {Sent, n}

(* A number awaited stands for one of the probes of its hop, ...            *)
Numbered(H, Q) ==
    \A s \in SeqNumbers : Q[s].transit =>
        Q[s].saved_seq \in Nat \ {0} /\ Q[s].saved_seq <= H[Q[s].index].xmit

(* ... which is the one the only command under that number was sent for.    *)
Recalled(Q, F, e) ==
    \A q \in F : ~q.shared /\ q.epoch = e => Q[q.seq].saved_seq = q.saved_seq

StripsMoveOn(H, S, O) == \A h \in Hops : MovesOn(S[h], O[h], H[h].xmit)
StripsAreOwn(H, S, O) == \A h \in Hops : OwnColumns(S[h], O[h], H[h].xmit)

StripInv ==
    /\ saved \in Strips /\ saved_seq_offset \in Offsets /\ mixed \in BOOLEAN
    /\ StripsMoveOn(host, saved, saved_seq_offset)
    /\ Numbered(host, sequence)
    /\ Recalled(sequence, in_flight, epoch)
    /\ mixed \/ StripsAreOwn(host, saved, saved_seq_offset)

(* What a strip is after it has moved on one column. *)
LEMMA Shifted ==
    ASSUME NEW strip \in [Columns -> Int]
    PROVE  /\ Shift(strip) \in [Columns -> Int]
           /\ Shift(strip)[SavedPings] = Blank
           /\ \A c \in Columns : c # SavedPings =>
                 c + 1 \in Columns /\ Shift(strip)[c] = strip[c + 1]
BY NetAssumption DEF Shift, Columns, Blank

(* net_save_increment, for a hop that is not the one probed. *)
LEMMA OtherMoved ==
    ASSUME NEW strip \in [Columns -> Int], NEW offset \in Int, NEW xmit \in Nat,
           MovesOn(strip, offset, xmit)
    PROVE  /\ MovesOn(Shift(strip), offset + 1, xmit)
           /\ OwnColumns(strip, offset, xmit) => OwnColumns(Shift(strip), offset + 1, xmit)
<1>1. /\ ~Full(Shift(strip)) /\ SavedPings \in Nat \ {0}
      /\ Moves(offset) = offset - (2 - SavedPings)
      /\ Moves(offset + 1) = offset + 1 - (2 - SavedPings)
  BY Shifted, NetAssumption DEF Full, Moves, FreshOffset
<1>2. Moves(offset + 1) >= xmit
  BY <1>1 DEF MovesOn
<1>3. ASSUME OwnColumns(strip, offset, xmit), InStep(Shift(strip), offset + 1, xmit),
             NEW n \in 1..xmit, n - (offset + 1) + 1 \in Columns
      PROVE  Shift(strip)[n - (offset + 1) + 1] \in {Sent, n}
  <2>1. Moves(offset + 1) = xmit
    BY <1>1, <1>3 DEF InStep
  <2>2. InStep(strip, offset, xmit)
    BY <1>1, <2>1 DEF InStep, MovesOn
  <2> DEFINE c == n - (offset + 1) + 1
  <2>3. c # SavedPings /\ c + 1 = n - offset + 1
    BY <1>1, <2>1
  <2>4. c \in Columns
    BY <1>3
  <2>. HIDE DEF c
  <2>5. c + 1 \in Columns /\ Shift(strip)[c] = strip[c + 1]
    BY <2>3, <2>4, Shifted
  <2>6. strip[c + 1] \in {Sent, n}
    BY <1>3, <2>2, <2>3, <2>5 DEF OwnColumns
  <2>. QED
    BY <2>5, <2>6 DEF c
<1>. QED
  BY <1>1, <1>2, <1>3 DEF MovesOn, OwnColumns

(* net_save_xmit for the hop that is probed, ... *)
LEMMA SentInNewColumn ==
    ASSUME NEW strip \in [Columns -> Int], NEW offset \in Int, NEW xmit \in Nat,
           MovesOn(strip, offset, xmit), Full(strip),
           NEW new, new = [Shift(strip) EXCEPT ![SavedPings] = Sent]
    PROVE  /\ new \in [Columns -> Int]
           /\ MovesOn(new, offset + 1, xmit + 1)
           /\ OwnColumns(strip, offset, xmit) => OwnColumns(new, offset + 1, xmit + 1)
<1>1. /\ SavedPings \in Nat \ {0} /\ SavedPings \in Columns
      /\ Moves(offset) = offset - (2 - SavedPings)
      /\ Moves(offset + 1) = offset + 1 - (2 - SavedPings)
  BY NetAssumption DEF Moves, FreshOffset, Columns
<1>2. /\ new \in [Columns -> Int] /\ new[SavedPings] = Sent
      /\ \A c \in Columns : c # SavedPings => c + 1 \in Columns /\ new[c] = strip[c + 1]
  BY <1>1, Shifted DEF Sent
<1>3. Full(new)
  BY <1>2 DEF Full, Sent, Blank
<1>4. Moves(offset + 1) >= xmit
  BY <1>1 DEF MovesOn
<1>5. ASSUME OwnColumns(strip, offset, xmit), InStep(new, offset + 1, xmit + 1),
             NEW n \in 1..xmit + 1, n - (offset + 1) + 1 \in Columns
      PROVE  new[n - (offset + 1) + 1] \in {Sent, n}
  <2>1. Moves(offset + 1) = xmit
    BY <1>1, <1>3, <1>5 DEF InStep
  <2>2. InStep(strip, offset, xmit)
    BY <1>1, <2>1 DEF InStep
  <2> DEFINE c == n - (offset + 1) + 1
  <2>3. c + 1 = n - offset + 1 /\ (c = SavedPings <=> n = xmit + 1)
    BY <1>1, <2>1
  <2>4. c \in Columns
    BY <1>5
  <2>. HIDE DEF c
  <2>5. CASE c = SavedPings
    BY <1>2, <2>5 DEF c
  <2>6. CASE c # SavedPings
    <3>1. n \in 1..xmit
      BY <2>3, <2>6
    <3>2. c + 1 \in Columns /\ new[c] = strip[c + 1]
      BY <1>2, <2>4, <2>6
    <3>3. strip[c + 1] \in {Sent, n}
      BY <1>5, <2>2, <2>3, <3>1, <3>2 DEF OwnColumns
    <3>. QED
      BY <3>2, <3>3 DEF c
  <2>. QED
    BY <2>5, <2>6
<1>. QED
  BY <1>2, <1>3, <1>4, <1>5 DEF MovesOn, OwnColumns

(* ... where its last column is in use and where it is not. *)
LEMMA SentInFreeColumn ==
    ASSUME NEW strip \in [Columns -> Int], NEW offset \in Int, NEW xmit \in Nat,
           MovesOn(strip, offset, xmit), ~Full(strip),
           NEW new, new = [strip EXCEPT ![SavedPings] = Sent]
    PROVE  /\ new \in [Columns -> Int]
           /\ MovesOn(new, offset, xmit + 1)
           /\ OwnColumns(strip, offset, xmit) => OwnColumns(new, offset, xmit + 1)
<1>1. /\ SavedPings \in Nat \ {0} /\ SavedPings \in Columns
      /\ Moves(offset) = offset - (2 - SavedPings)
  BY NetAssumption DEF Moves, FreshOffset, Columns
<1>2. /\ new \in [Columns -> Int] /\ new[SavedPings] = Sent
      /\ \A c \in Columns : c # SavedPings => new[c] = strip[c]
  BY <1>1 DEF Sent
<1>3. Full(new)
  BY <1>2 DEF Full, Sent, Blank
<1>4. Moves(offset) >= xmit
  BY <1>1 DEF MovesOn
<1>5. ASSUME OwnColumns(strip, offset, xmit), InStep(new, offset, xmit + 1),
             NEW n \in 1..xmit + 1, n - offset + 1 \in Columns
      PROVE  new[n - offset + 1] \in {Sent, n}
  <2>1. Moves(offset) = xmit
    BY <1>1, <1>3, <1>5 DEF InStep
  <2>2. InStep(strip, offset, xmit)
    BY <1>1, <2>1 DEF InStep
  <2> DEFINE c == n - offset + 1
  <2>3. c = SavedPings <=> n = xmit + 1
    BY <1>1, <2>1
  <2>4. c \in Columns
    BY <1>5
  <2>. HIDE DEF c
  <2>5. CASE c = SavedPings
    BY <1>2, <2>5 DEF c
  <2>6. CASE c # SavedPings
    <3>1. n \in 1..xmit
      BY <2>3, <2>6
    <3>2. new[c] = strip[c]
      BY <1>2, <2>4, <2>6
    <3>3. strip[c] \in {Sent, n}
      BY <1>5, <2>2, <2>4, <3>1 DEF OwnColumns, c
    <3>. QED
      BY <3>2, <3>3 DEF c
  <2>. QED
    BY <2>5, <2>6
<1>. QED
  BY <1>2, <1>3, <1>4, <1>5 DEF MovesOn, OwnColumns

(* net_save_return: the round trip goes into the probe's own column, and no  *)
(* column in use becomes free, nor a free last column used.                  *)
LEMMA ReturnInColumn ==
    ASSUME NEW strip \in [Columns -> Int], NEW offset \in Int, NEW xmit \in Nat,
           MovesOn(strip, offset, xmit), NEW seq \in Nat \ {0}, seq <= xmit,
           seq - offset + 1 \in Columns, NEW value \in Nat,
           NEW new, new = [strip EXCEPT ![seq - offset + 1] = value]
    PROVE  /\ new \in [Columns -> Int]
           /\ MovesOn(new, offset, xmit)
           /\ value = seq /\ OwnColumns(strip, offset, xmit) => OwnColumns(new, offset, xmit)
<1> DEFINE c == seq - offset + 1
<1>1. /\ SavedPings \in Nat \ {0} /\ SavedPings \in Columns
      /\ Moves(offset) = offset - (2 - SavedPings)
  BY NetAssumption DEF Moves, FreshOffset, Columns
<1>2. c = SavedPings => Moves(offset) <= xmit - 1
  BY <1>1
<1>3. c \in Columns /\ new = [strip EXCEPT ![c] = value] /\ c \in Int /\ seq = c + offset - 1
  OBVIOUS
<1>. HIDE DEF c
<1>4. new \in [Columns -> Int] /\ \A k \in Columns : new[k] = IF k = c THEN value ELSE strip[k]
  BY <1>3
<1>5. Full(new) <=> Full(strip)
  <2>1. CASE c = SavedPings
    <3>1. Full(strip)
      BY <1>1, <1>2, <2>1 DEF MovesOn
    <3>2. Full(new)
      BY <1>1, <1>4, <2>1 DEF Full, Blank
    <3>. QED
      BY <3>1, <3>2
  <2>2. CASE c # SavedPings
    BY <1>1, <1>4, <2>2 DEF Full
  <2>. QED
    BY <2>1, <2>2
<1>6. ASSUME value = seq, OwnColumns(strip, offset, xmit), InStep(new, offset, xmit),
             NEW n \in 1..xmit, n - offset + 1 \in Columns
      PROVE  new[n - offset + 1] \in {Sent, n}
  <2>1. strip[n - offset + 1] \in {Sent, n}
    BY <1>5, <1>6 DEF InStep, OwnColumns
  <2>2. n - offset + 1 = c => n = seq
    BY <1>3
  <2>. QED
    BY <1>4, <1>6, <2>1, <2>2
<1>. QED
  BY <1>4, <1>5, <1>6 DEF MovesOn, OwnColumns

(* net_reset: strips as they begin. *)
LEMMA FreshStripsMoveOn ==
    /\ FreshStrips \in Strips /\ FreshOffsets \in Offsets
    /\ StripsMoveOn(FreshHosts, FreshStrips, FreshOffsets)
    /\ StripsAreOwn(FreshHosts, FreshStrips, FreshOffsets)
<1>1. /\ \A h \in Hops : /\ FreshHosts[h].xmit = 0 /\ FreshOffsets[h] = FreshOffset
                         /\ FreshStrips[h] = [c \in Columns |-> Blank]
      /\ FreshOffset \in Int /\ SavedPings \in Columns /\ Moves(FreshOffset) = 0
  BY NetAssumption DEF FreshHosts, FreshHost, FreshOffsets, FreshStrips, FreshOffset,
                       Columns, Moves
<1>2. FreshStrips \in Strips /\ FreshOffsets \in Offsets
  BY <1>1 DEF FreshStrips, FreshOffsets, Strips, Offsets, Blank
<1>3. ~Full([c \in Columns |-> Blank])
  BY <1>1 DEF Full
<1>4. StripsMoveOn(FreshHosts, FreshStrips, FreshOffsets)
  BY <1>1, <1>3 DEF StripsMoveOn, MovesOn
<1>5. StripsAreOwn(FreshHosts, FreshStrips, FreshOffsets)
  BY <1>1 DEF StripsAreOwn, OwnColumns
<1>. QED
  BY <1>2, <1>4, <1>5

(* net_save_xmit, for all strips. *)
LEMMA SentStrips ==
    ASSUME NEW H \in Hosts, NEW S \in Strips, NEW O \in Offsets, NEW at \in Hops,
           StripsMoveOn(H, S, O), SaveXmit(S, O, at),
           host' = [H EXCEPT ![at] = Queried(@)]
    PROVE  /\ saved' \in Strips /\ saved_seq_offset' \in Offsets
           /\ StripsMoveOn(host', saved', saved_seq_offset')
           /\ StripsAreOwn(H, S, O) => StripsAreOwn(host', saved', saved_seq_offset')
<1> DEFINE full == Full(S[at])
           moved == [h \in Hops |-> IF full THEN Shift(S[h]) ELSE S[h]]
<1>1. /\ saved' = [moved EXCEPT ![at] = [@ EXCEPT ![SavedPings] = Sent]]
      /\ saved_seq_offset' = [h \in Hops |-> IF full THEN O[h] + 1 ELSE O[h]]
  BY DEF SaveXmit, Full, NextOffset
<1>2. \A h \in Hops : S[h] \in [Columns -> Int] /\ O[h] \in Int /\ H[h] \in HostRecord
                      /\ H[h].xmit \in Nat /\ MovesOn(S[h], O[h], H[h].xmit)
  BY DEF Strips, Offsets, Hosts, HostRecord, StripsMoveOn
<1>3. \A h \in Hops : host'[h].xmit = IF h = at THEN H[h].xmit + 1 ELSE H[h].xmit
  BY <1>2, QueriedTyped DEF Hosts
<1>4. /\ \A h \in Hops : h # at => saved'[h] = moved[h]
      /\ saved'[at] = [moved[at] EXCEPT ![SavedPings] = Sent]
      /\ DOMAIN saved' = Hops /\ saved' = [h \in Hops |-> saved'[h]]
  BY <1>1
<1>5. \A h \in Hops : moved[h] = IF full THEN Shift(S[h]) ELSE S[h]
  OBVIOUS
<1>6. \A h \in Hops : saved_seq_offset'[h] = IF full THEN O[h] + 1 ELSE O[h]
  BY <1>1
<1>. HIDE DEF moved, full
<1>7. ASSUME NEW h \in Hops
      PROVE  /\ saved'[h] \in [Columns -> Int] /\ saved_seq_offset'[h] \in Int
             /\ MovesOn(saved'[h], saved_seq_offset'[h], host'[h].xmit)
             /\ OwnColumns(S[h], O[h], H[h].xmit) =>
                   OwnColumns(saved'[h], saved_seq_offset'[h], host'[h].xmit)
  <2>1. CASE h = at /\ full
    <3>1. /\ saved'[h] = [Shift(S[h]) EXCEPT ![SavedPings] = Sent]
          /\ saved_seq_offset'[h] = O[h] + 1 /\ host'[h].xmit = H[h].xmit + 1 /\ Full(S[h])
      BY <1>3, <1>4, <1>5, <1>6, <2>1 DEF full
    <3>2. PICK new : new = [Shift(S[h]) EXCEPT ![SavedPings] = Sent]
      OBVIOUS
    <3>3. /\ S[h] \in [Columns -> Int] /\ O[h] \in Int /\ H[h].xmit \in Nat
          /\ MovesOn(S[h], O[h], H[h].xmit)
      BY <1>2
    <3>4. /\ new \in [Columns -> Int] /\ MovesOn(new, O[h] + 1, H[h].xmit + 1)
          /\ OwnColumns(S[h], O[h], H[h].xmit) => OwnColumns(new, O[h] + 1, H[h].xmit + 1)
      BY <3>1, <3>2, <3>3, SentInNewColumn
    <3>5. saved'[h] = new /\ O[h] + 1 \in Int
      BY <3>1, <3>2, <3>3
    <3>. QED
      BY <3>1, <3>4, <3>5
  <2>2. CASE h = at /\ ~full
    <3>1. /\ saved'[h] = [S[h] EXCEPT ![SavedPings] = Sent]
          /\ saved_seq_offset'[h] = O[h] /\ host'[h].xmit = H[h].xmit + 1 /\ ~Full(S[h])
      BY <1>3, <1>4, <1>5, <1>6, <2>2 DEF full
    <3>2. PICK new : new = [S[h] EXCEPT ![SavedPings] = Sent]
      OBVIOUS
    <3>3. /\ S[h] \in [Columns -> Int] /\ O[h] \in Int /\ H[h].xmit \in Nat
          /\ MovesOn(S[h], O[h], H[h].xmit)
      BY <1>2
    <3>4. /\ new \in [Columns -> Int] /\ MovesOn(new, O[h], H[h].xmit + 1)
          /\ OwnColumns(S[h], O[h], H[h].xmit) => OwnColumns(new, O[h], H[h].xmit + 1)
      BY <3>1, <3>2, <3>3, SentInFreeColumn
    <3>5. saved'[h] = new /\ O[h] \in Int
      BY <3>1, <3>2, <3>3
    <3>. QED
      BY <3>1, <3>4, <3>5
  <2>3. CASE h # at /\ full
    <3>1. /\ saved'[h] = Shift(S[h])
          /\ saved_seq_offset'[h] = O[h] + 1 /\ host'[h].xmit = H[h].xmit
      BY <1>3, <1>4, <1>5, <1>6, <2>3
    <3>. QED
      BY <1>2, <3>1, Shifted, OtherMoved
  <2>4. CASE h # at /\ ~full
    <3>1. /\ saved'[h] = S[h]
          /\ saved_seq_offset'[h] = O[h] /\ host'[h].xmit = H[h].xmit
      BY <1>3, <1>4, <1>5, <1>6, <2>4
    <3>. QED
      BY <1>2, <3>1
  <2>. QED
    BY <2>1, <2>2, <2>3, <2>4
<1>8. saved' \in Strips
  BY <1>4, <1>7 DEF Strips
<1>9. saved_seq_offset' \in Offsets
  BY <1>1, <1>2 DEF Offsets
<1>. QED
  BY <1>7, <1>8, <1>9 DEF StripsMoveOn, StripsAreOwn

(* net_send_query: the number stands for the probe just sent. *)
LEMMA SentRecalled ==
    ASSUME next_sequence \in SeqNumbers, in_flight \in SUBSET Queries(epoch),
           NEW H \in Hosts, NEW Q \in Entries, NEW at \in Hops, NEW resets,
           Numbered(H, Q), Recalled(Q, in_flight, resets), SendQuery(H, Q, at, resets)
    PROVE  Numbered(host', sequence') /\ Recalled(sequence', in_flight', resets)
<1> DEFINE new == [seq |-> next_sequence, index |-> at, saved_seq |-> H[at].xmit + 1,
                   shared |-> \E q \in in_flight : q.seq = next_sequence,
                   epoch |-> resets]
<1>1. /\ in_flight' = Shared(next_sequence) \cup {new}
      /\ host' = [H EXCEPT ![at] = Queried(@)]
      /\ sequence' = [Q EXCEPT ![next_sequence] =
                        [index |-> at, transit |-> TRUE, saved_seq |-> H[at].xmit + 1]]
  BY DEF SendQuery
<1>2. \A h \in Hops : H[h] \in HostRecord /\ H[h].xmit \in Nat
  BY DEF Hosts, HostRecord
<1>3. \A h \in Hops : host'[h].xmit = IF h = at THEN H[h].xmit + 1 ELSE H[h].xmit
  BY <1>1, <1>2, QueriedTyped DEF Hosts
<1>4. /\ sequence'[next_sequence].saved_seq = H[at].xmit + 1
      /\ sequence'[next_sequence].index = at
      /\ \A s \in SeqNumbers : s # next_sequence => sequence'[s] = Q[s]
  BY <1>1 DEF Entries
<1>5. \A s \in SeqNumbers : Q[s].index \in Hops
  BY DEF Entries
<1>6. Numbered(host', sequence')
  <2> SUFFICES ASSUME NEW s \in SeqNumbers, sequence'[s].transit
               PROVE  /\ sequence'[s].saved_seq \in Nat \ {0}
                      /\ sequence'[s].saved_seq <= host'[sequence'[s].index].xmit
    BY DEF Numbered
  <2>1. CASE s = next_sequence
    BY <1>2, <1>3, <1>4, <2>1
  <2>2. CASE s # next_sequence
    <3>1. sequence'[s] = Q[s] /\ Q[s].transit /\ Q[s].index \in Hops
      BY <1>4, <1>5, <2>2
    <3>2. Q[s].saved_seq \in Nat \ {0} /\ Q[s].saved_seq <= H[Q[s].index].xmit
      BY <3>1 DEF Numbered
    <3> QED
      BY <1>2, <1>3, <3>1, <3>2
  <2> QED
    BY <2>1, <2>2
<1>7. \A q \in Shared(next_sequence) :
         /\ q.seq \in SeqNumbers
         /\ q.seq = next_sequence => q.shared
         /\ q.seq # next_sequence => q \in in_flight
  BY DEF Shared, Queries
<1>8. Recalled(sequence', in_flight', resets)
  <2> SUFFICES ASSUME NEW q \in in_flight', ~q.shared, q.epoch = resets
               PROVE  sequence'[q.seq].saved_seq = q.saved_seq
    BY DEF Recalled
  <2>1. CASE q = new
    BY <1>4, <2>1
  <2>2. CASE q # new
    <3>1. q \in in_flight /\ q.seq # next_sequence /\ q.seq \in SeqNumbers
      BY <1>1, <1>7, <2>2
    <3> QED
      BY <1>4, <3>1 DEF Recalled
  <2> QED
    BY <2>1, <2>2
<1> QED
  BY <1>6, <1>8

LEMMA BatchKeepsStrips ==
    ASSUME NEW H \in Hosts, NEW Q \in Entries, NEW S \in Strips, NEW O \in Offsets,
           NEW at \in (FstTTL - 1)..(MaxTTL - 1), NEW width, NEW target,
           NEW resets \in Nat, epoch' = resets, mixed \in BOOLEAN, mixed' = mixed,
           in_flight \in SUBSET Queries(epoch), next_sequence \in SeqNumbers,
           StripsMoveOn(H, S, O), Numbered(H, Q), Recalled(Q, in_flight, resets),
           mixed \/ StripsAreOwn(H, S, O),
           SendBatchFrom(H, Q, S, O, at, width, target, resets)
    PROVE  StripInv'
<1>1. SendQuery(H, Q, at, resets) /\ SaveXmit(S, O, at) /\ host' = [H EXCEPT ![at] = Queried(@)]
  BY DEF SendBatchFrom, SendQuery
<1>2. at \in Hops
  BY FirstHop
<1>3. /\ saved' \in Strips /\ saved_seq_offset' \in Offsets
      /\ StripsMoveOn(host', saved', saved_seq_offset')
      /\ StripsAreOwn(H, S, O) => StripsAreOwn(host', saved', saved_seq_offset')
  BY <1>1, <1>2, SentStrips
<1>4. Numbered(host', sequence') /\ Recalled(sequence', in_flight', resets)
  BY <1>1, <1>2, SentRecalled
<1> QED
  BY <1>3, <1>4 DEF StripInv, StripsMoveOn, StripsAreOwn, Numbered, Recalled

LEMMA AnswerKeepsStrips ==
    ASSUME IInv, StripInv, NEW q \in in_flight, NEW addr \in Addresses, NEW err \in BOOLEAN,
           ProcessPing(q, addr, err)
    PROVE  StripInv'
<1> DEFINE entry == sequence[q.seq]
           at == entry.index
           c == entry.saved_seq - saved_seq_offset[at] + 1
<1>1. /\ q.seq \in SeqNumbers /\ q.saved_seq \in Nat /\ q.shared \in BOOLEAN
      /\ at \in Hops /\ saved_seq_offset \in Offsets /\ saved \in Strips
  BY DEF IInv, TableTyped, Queries, Entries, StripInv
<1>2. /\ in_flight' = in_flight \ {q} /\ UNCHANGED <<saved_seq_offset, epoch>>
      /\ mixed' = (mixed \/ q.shared) /\ mixed \in BOOLEAN
  BY DEF ProcessPing, StripInv
<1>3. CASE ~Awaited(q.seq)
  <2>1. UNCHANGED <<sequence, host, saved>>
    BY <1>3 DEF ProcessPing
  <2> QED
    BY <1>1, <1>2, <2>1
       DEF StripInv, StripsMoveOn, StripsAreOwn, Numbered, Recalled
<1>4. CASE Awaited(q.seq)
  <2>1. /\ sequence' = [sequence EXCEPT ![q.seq].transit = FALSE]
        /\ host' = [host EXCEPT ![at] = Returned(@, addr, err)]
        /\ SaveReturn(at, entry.saved_seq, q.saved_seq)
    BY <1>4 DEF ProcessPing
  <2>2. saved' = IF c \in Columns THEN [saved EXCEPT ![at][c] = q.saved_seq] ELSE saved
    BY <2>1 DEF SaveReturn
  <2>3. \A h \in Hops : host[h] \in HostRecord /\ host[h].xmit \in Nat
    BY DEF IInv, TableTyped, Hosts, HostRecord
  <2>4. \A h \in Hops : host'[h].xmit = host[h].xmit
    BY <1>1, <2>1, <2>3, ReturnedTyped DEF IInv, TableTyped, Hosts
  <2>5. entry.saved_seq \in Nat \ {0} /\ entry.saved_seq <= host[at].xmit
    BY <1>1, <1>4 DEF Awaited, StripInv, Numbered
  <2>6. ~mixed' => entry.saved_seq = q.saved_seq
    <3> SUFFICES ASSUME ~q.shared PROVE entry.saved_seq = q.saved_seq
      BY <1>2
    <3>1. q.epoch = epoch
      BY <1>4 DEF Awaited, IInv, Traced
    <3> QED
      BY <3>1 DEF StripInv, Recalled
  <2>7. Numbered(host', sequence') /\ Recalled(sequence', in_flight', epoch)
    <3>1. \A s \in SeqNumbers : /\ sequence'[s].saved_seq = sequence[s].saved_seq
                                /\ sequence'[s].index = sequence[s].index
                                /\ sequence'[s].transit => sequence[s].transit
                                /\ sequence[s].index \in Hops
      BY <2>1 DEF IInv, TableTyped, Entries
    <3>2. \A r \in in_flight : r.seq \in SeqNumbers
      BY DEF IInv, TableTyped, Queries
    <3>3. Numbered(host', sequence')
      BY <2>4, <3>1 DEF StripInv, Numbered
    <3>4. Recalled(sequence', in_flight', epoch)
      BY <1>2, <3>1, <3>2 DEF StripInv, Recalled
    <3> QED
      BY <3>3, <3>4
  <2>8. /\ saved' \in Strips
        /\ StripsMoveOn(host', saved', saved_seq_offset)
        /\ ~mixed' => StripsAreOwn(host', saved', saved_seq_offset)
    <3>1. CASE c \notin Columns
      BY <1>1, <1>2, <2>2, <2>4, <3>1 DEF StripInv, StripsMoveOn, StripsAreOwn
    <3>2. CASE c \in Columns
      <4> DEFINE strip == [saved[at] EXCEPT ![c] = q.saved_seq]
      <4>1. saved[at] \in [Columns -> Int] /\ saved_seq_offset[at] \in Int
        BY <1>1 DEF Strips, Offsets
      <4>2. MovesOn(saved[at], saved_seq_offset[at], host[at].xmit) /\ host[at].xmit \in Nat
        BY <1>1, <2>3 DEF StripInv, StripsMoveOn
      <4>3. saved' = [saved EXCEPT ![at] = strip]
        BY <2>2, <3>2
      <4>4. /\ strip \in [Columns -> Int]
            /\ MovesOn(strip, saved_seq_offset[at], host[at].xmit)
            /\ entry.saved_seq = q.saved_seq /\ OwnColumns(saved[at], saved_seq_offset[at], host[at].xmit)
                 => OwnColumns(strip, saved_seq_offset[at], host[at].xmit)
        BY <1>1, <2>5, <3>2, <4>1, <4>2, ReturnInColumn, SMTT(30)
      <4>. HIDE DEF strip, at, entry, c
      <4>5. saved' \in Strips
        BY <1>1, <4>3, <4>4 DEF Strips
      <4>6. \A h \in Hops : saved'[h] = IF h = at THEN strip ELSE saved[h]
        BY <1>1, <4>3 DEF Strips
      <4>7. StripsMoveOn(host', saved', saved_seq_offset)
        BY <2>4, <4>4, <4>6 DEF StripInv, StripsMoveOn
      <4>8. ~mixed' => StripsAreOwn(host', saved', saved_seq_offset)
        BY <1>1, <1>2, <2>4, <2>6, <4>4, <4>6 DEF StripInv, StripsAreOwn
      <4> QED
        BY <4>5, <4>7, <4>8
    <3> QED
      BY <3>1, <3>2
  <2> QED
    BY <1>1, <1>2, <2>7, <2>8 DEF StripInv, StripsMoveOn, StripsAreOwn, Numbered, Recalled
<1> QED
  BY <1>3, <1>4

(* A reset makes every number unawaited, and no command is of its time. *)
LEMMA ForgottenRecalled ==
    ASSUME TableTyped
    PROVE  Numbered(FreshHosts, ForgetSequences) /\ Recalled(ForgetSequences, in_flight, epoch + 1)
<1>1. \A s \in SeqNumbers : ~ForgetSequences[s].transit
  BY DEF ForgetSequences, TableTyped, Entries
<1>2. \A q \in in_flight : q.epoch # epoch + 1
  BY DEF TableTyped, Queries
<1> QED
  BY <1>1, <1>2 DEF Numbered, Recalled

LEMMA NextStrips == IInv /\ StripInv /\ [Next]_vars => StripInv'
<1> SUFFICES ASSUME IInv, StripInv, [Next]_vars PROVE StripInv'
  OBVIOUS
<1>1. CASE SendBatch
  BY <1>1, BatchKeepsStrips DEF IInv, TableTyped, StripInv, SendBatch
<1>2. ASSUME NEW q \in in_flight, NEW addr \in Addresses, NEW err \in BOOLEAN,
             ProcessPing(q, addr, err)
      PROVE  StripInv'
  BY <1>2, AnswerKeepsStrips
<1>3. ASSUME NEW q \in in_flight, NoReply(q) PROVE StripInv'
  BY <1>3 DEF NoReply, StripInv, StripsMoveOn, StripsAreOwn, Numbered, Recalled
<1>4. CASE NetReset
  <2>1. /\ host' = FreshHosts /\ sequence' = ForgetSequences
        /\ saved' = FreshStrips /\ saved_seq_offset' = FreshOffsets
        /\ epoch' = epoch + 1 /\ UNCHANGED <<in_flight, mixed>>
    BY <1>4 DEF NetReset
  <2>2. Numbered(host', sequence') /\ Recalled(sequence', in_flight', epoch')
    BY <2>1, ForgottenRecalled DEF IInv
  <2>3. /\ saved' \in Strips /\ saved_seq_offset' \in Offsets
        /\ StripsMoveOn(host', saved', saved_seq_offset')
        /\ StripsAreOwn(host', saved', saved_seq_offset')
    BY <2>1, FreshStripsMoveOn
  <2> QED
    BY <2>1, <2>2, <2>3 DEF StripInv, StripsMoveOn, StripsAreOwn, Numbered, Recalled
<1>5. ASSUME NEW target \in Targets, NetReopen(target) PROVE StripInv'
  <2>1. FreshHosts \in Hosts /\ ForgetSequences \in Entries
    BY Forgotten, Fresh DEF IInv
  <2>2. FstTTL - 1 \in (FstTTL - 1)..(MaxTTL - 1)
    BY NetAssumption
  <2>3. epoch + 1 \in Nat
    BY DEF IInv, TableTyped
  <2>4. Numbered(FreshHosts, ForgetSequences) /\ Recalled(ForgetSequences, in_flight, epoch + 1)
    BY ForgottenRecalled DEF IInv
  <2> QED
    BY <1>5, <2>1, <2>2, <2>3, <2>4, FreshStripsMoveOn, BatchKeepsStrips
       DEF IInv, TableTyped, StripInv, NetReopen
<1>6. CASE UNCHANGED vars
  BY <1>6 DEF vars, StripInv, StripsMoveOn, StripsAreOwn, Numbered, Recalled
<1> QED
  BY <1>1, <1>2, <1>3, <1>4, <1>5, <1>6 DEF Next

LEMMA InitStrips == Init => StripInv
<1> SUFFICES ASSUME Init PROVE StripInv
  OBVIOUS
<1>1. Numbered(host, sequence) /\ Recalled(sequence, in_flight, epoch)
  BY DEF Init, Numbered, Recalled
<1> QED
  BY <1>1, FreshStripsMoveOn DEF Init, StripInv

(* Whatever answers come late, and however the strips of the hops move, the  *)
(* strip of a hop probed in every round shows each probe's own answer        *)
(* (net_save_xmit, net_save_increment, net_save_return).                     *)
THEOREM SavedInColumn == Spec => []SavedInOwnColumn
<1>1. IInv /\ StripInv => SavedInOwnColumn
  <2> SUFFICES ASSUME IInv, StripInv, ~mixed, NEW h \in Hops,
                      host[h].xmit > 0,
                      saved_seq_offset[h] - FreshOffset = host[h].xmit - 1,
                      NEW n \in 1..host[h].xmit,
                      SavedPings - (host[h].xmit - n) \in Columns
               PROVE  saved[h][SavedPings - (host[h].xmit - n)] \in {Sent, n}
    BY DEF SavedInOwnColumn
  <2>1. /\ host[h].xmit \in Nat /\ saved_seq_offset[h] \in Int /\ SavedPings \in Nat
        /\ FreshOffset = 2 - SavedPings
    BY NetAssumption DEF IInv, TableTyped, Hosts, HostRecord, StripInv, Offsets, FreshOffset
  <2>2. Full(saved[h])
    BY <2>1 DEF StripInv, StripsMoveOn, MovesOn, Moves
  <2>3. InStep(saved[h], saved_seq_offset[h], host[h].xmit)
    BY <2>2 DEF InStep, Moves
  <2>4. SavedPings - (host[h].xmit - n) = n - saved_seq_offset[h] + 1
    BY <2>1
  <2> QED
    BY <2>3, <2>4 DEF StripInv, StripsAreOwn, OwnColumns
<1>2. IInv /\ StripInv /\ [Next]_vars => StripInv'
  BY NextStrips
<1> QED
  BY <1>1, <1>2, InitStrips, Invariance, PTL DEF Spec
============================================================================
