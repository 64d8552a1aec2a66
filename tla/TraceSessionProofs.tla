------------------------ MODULE TraceSessionProofs ------------------------
(***************************************************************************)
(* Theorems about one connection at the web server and the page at its     *)
(* other end, for any number of children, of clicks and of hops.           *)
(*                                                                         *)
(* The properties are not inductive: that no timer of an earlier child is   *)
(* left set needs to be known while no child is known, and that a child    *)
(* which is forgotten for another's sake was started early needs to be     *)
(* known while it still is `process'.                                      *)
(***************************************************************************)
EXTENDS TraceSystem, SequenceTheorems, WellFoundedInduction, TLAPS

(* The child a connection knows has been told nothing yet. *)
KnownRuns == process # Undefined => child[process] = "running"

(* An open connection without a child has no timer (clearTimeout). *)
NoTimerWithoutChild == connected /\ process = Undefined => timers = {}

(* If an earlier child is still there, the known one was started too early. *)
KnownAloneOrEarly ==
    process # Undefined => Open \subseteq {process} \/ process \in early

IInv ==
    /\ TypeOK
    /\ TimerGuardsProcess
    /\ OrphansExplained
    /\ KnownRuns
    /\ NoTimerWithoutChild
    /\ KnownAloneOrEarly

----------------------------------------------------------------------------
(* What is undefined is no child. *)
LEMMA UndefinedIsNoChild == Undefined \notin Children /\ Children \subseteq Nat
BY SessionAssumption DEF Undefined, Children

(* A connection starts without children. *)
LEMMA InitIInv == Init => IInv
BY SessionAssumption, UndefinedIsNoChild DEF Init, IInv, TypeOK, TimerGuardsProcess,
   OrphansExplained, KnownRuns, NoTimerWithoutChild, KnownAloneOrEarly,
   Undefined, Children

(* START *)
LEMMA StartStep == IInv /\ Start => IInv'
<1> SUFFICES ASSUME IInv, Start PROVE IInv'
  OBVIOUS
<1> USE SessionAssumption DEF Undefined, Children
<1>1. TypeOK'
  BY DEF IInv, TypeOK, Start
<1>2. TimerGuardsProcess'
  BY DEF IInv, TypeOK, Start, NoTimerWithoutChild, TimerGuardsProcess
<1>3. OrphansExplained'
  BY DEF IInv, TypeOK, Start, OrphansExplained
<1>4. KnownRuns' /\ NoTimerWithoutChild'
  BY DEF IInv, TypeOK, Start, KnownRuns, NoTimerWithoutChild
<1>5. KnownAloneOrEarly'
  BY DEF IInv, TypeOK, Start, Open, KnownAloneOrEarly
<1>. QED
  BY <1>1, <1>2, <1>3, <1>4, <1>5 DEF IInv

(* SIGINT for the known child: it stays open, and runs no more. *)
LEMMA KillStep ==
    ASSUME IInv, process # Undefined, Kill
    PROVE  /\ process \in Children
           /\ child' \in [Children -> {"none", "running", "signalled", "closed"}]
           /\ child'[process] = "signalled"
           /\ \A c \in Children : c # process => child'[c] = child[c]
           /\ \A c \in Children : child'[c] = "none" <=> child[c] = "none"
BY SessionAssumption DEF IInv, TypeOK, KnownRuns, Kill, Undefined, Children

(* STOP *)
LEMMA StopStep == IInv /\ Stop => IInv'
<1> SUFFICES ASSUME IInv, Stop PROVE IInv'
  OBVIOUS
<1>0. process # Undefined /\ Kill
  BY DEF Stop
<1>1. TypeOK'
  BY KillStep, <1>0, SessionAssumption
     DEF IInv, TypeOK, Stop, ClearTimeout, Undefined
<1>2. OrphansExplained'
  BY KillStep, <1>0 DEF IInv, Stop, OrphansExplained
<1>3. NoTimerWithoutChild'
  BY <1>0 DEF IInv, Stop, TimerGuardsProcess, NoTimerWithoutChild, ClearTimeout
<1>4. TimerGuardsProcess' /\ KnownRuns' /\ KnownAloneOrEarly'
  BY DEF Stop, TimerGuardsProcess, KnownRuns, KnownAloneOrEarly
<1>. QED
  BY <1>1, <1>2, <1>3, <1>4 DEF IInv

(* The browser goes. *)
LEMMA DisconnectStep == IInv /\ Disconnect => IInv'
<1> SUFFICES ASSUME IInv, Disconnect PROVE IInv'
  OBVIOUS
<1>1. CASE process # Undefined
  <2>0. Kill
    BY <1>1 DEF Disconnect
  <2>1. TypeOK'
    <3>1. connected' = FALSE /\ process' = Undefined
      BY <1>1 DEF Disconnect
    <3>2. connected' \in BOOLEAN /\ (connected \/ process = Undefined)'
      BY <3>1
    <3>3. /\ child' \in [Children -> {"none", "running", "signalled", "closed"}]
          /\ \A c \in Children : child'[c] = "none" <=> c > spawned'
          /\ process' \in 0..spawned'
      BY KillStep, <1>1, <2>0, <3>1, SessionAssumption
         DEF IInv, TypeOK, Disconnect, Undefined
    <3>4. UNCHANGED <<spawned, timeout, timers, noisy, early>>
      BY DEF Disconnect
    <3>. QED
      BY <3>2, <3>3, <3>4 DEF IInv, TypeOK
  <2>2. OrphansExplained'
    BY KillStep, <1>1, <2>0 DEF IInv, Disconnect, OrphansExplained
  <2>3. TimerGuardsProcess' /\ KnownRuns' /\ KnownAloneOrEarly' /\ NoTimerWithoutChild'
    BY <1>1 DEF Disconnect, TimerGuardsProcess, KnownRuns, KnownAloneOrEarly,
                NoTimerWithoutChild
  <2>. QED
    BY <2>1, <2>2, <2>3 DEF IInv
<1>2. CASE process = Undefined
  BY <1>2, SessionAssumption
     DEF Disconnect, IInv, TypeOK, OrphansExplained, TimerGuardsProcess, KnownRuns,
         KnownAloneOrEarly, NoTimerWithoutChild, Undefined
<1>. QED
  BY <1>1, <1>2

(* A timer fires: the known child is the one it was set for. *)
LEMMA TimeoutStep == ASSUME IInv, NEW c \in Children, Timeout(c) PROVE IInv'
<1>1. CASE process # Undefined
  <2>0. Kill
    BY <1>1 DEF Timeout
  <2>1. TypeOK'
    BY KillStep, <1>1, <2>0, SessionAssumption
       DEF IInv, TypeOK, Timeout, Undefined, Children
  <2>2. OrphansExplained'
    BY KillStep, <1>1, <2>0 DEF IInv, Timeout, OrphansExplained
  <2>3. NoTimerWithoutChild'
    BY <1>1 DEF IInv, Timeout, TimerGuardsProcess, NoTimerWithoutChild
  <2>4. TimerGuardsProcess' /\ KnownRuns' /\ KnownAloneOrEarly'
    BY <1>1 DEF Timeout, TimerGuardsProcess, KnownRuns, KnownAloneOrEarly
  <2>. QED
    BY <2>1, <2>2, <2>3, <2>4 DEF IInv
<1>2. CASE process = Undefined
  BY <1>2, SessionAssumption
     DEF Timeout, IInv, TypeOK, OrphansExplained, TimerGuardsProcess, KnownRuns,
         KnownAloneOrEarly, NoTimerWithoutChild, Undefined
<1>. QED
  BY <1>1, <1>2

(* A child's output changes nothing. *)
LEMMA StdoutStep == ASSUME IInv, NEW c \in Children, StdoutData(c) PROVE IInv'
BY SessionAssumption
   DEF StdoutData, vars, IInv, TypeOK, OrphansExplained, TimerGuardsProcess, KnownRuns,
       KnownAloneOrEarly, NoTimerWithoutChild, Undefined, Open, Children

(* A child writes to stderr: the known child is forgotten. *)
LEMMA StderrStep == ASSUME IInv, NEW c \in Children, StderrData(c) PROVE IInv'
<1>1. TypeOK'
  BY SessionAssumption
     DEF StderrData, ClearTimeout, IInv, TypeOK, Undefined, Children, Open
<1>2. OrphansExplained'
  BY UndefinedIsNoChild
     DEF StderrData, IInv, TypeOK, OrphansExplained, KnownAloneOrEarly
<1>3. NoTimerWithoutChild'
  BY DEF StderrData, IInv, TimerGuardsProcess, NoTimerWithoutChild, ClearTimeout
<1>4. TimerGuardsProcess' /\ KnownRuns' /\ KnownAloneOrEarly'
  BY DEF StderrData, TimerGuardsProcess, KnownRuns, KnownAloneOrEarly
<1>. QED
  BY <1>1, <1>2, <1>3, <1>4 DEF IInv

(* A child ends: the known child is forgotten. *)
LEMMA CloseStep == ASSUME IInv, NEW c \in Children, Close(c) PROVE IInv'
<1>1. TypeOK'
  BY SessionAssumption
     DEF Close, ClearTimeout, IInv, TypeOK, Undefined, Children, Open
<1>2. OrphansExplained'
  BY UndefinedIsNoChild
     DEF Close, IInv, TypeOK, OrphansExplained, KnownAloneOrEarly
<1>3. NoTimerWithoutChild'
  BY DEF Close, IInv, TimerGuardsProcess, NoTimerWithoutChild, ClearTimeout
<1>4. TimerGuardsProcess' /\ KnownRuns' /\ KnownAloneOrEarly'
  BY DEF Close, TimerGuardsProcess, KnownRuns, KnownAloneOrEarly
<1>. QED
  BY <1>1, <1>2, <1>3, <1>4 DEF IInv

(* Every handler, and a step that changes nothing, keeps the invariant. *)
LEMMA NextIInv == IInv /\ [Next]_vars => IInv'
<1> SUFFICES ASSUME IInv, [Next]_vars PROVE IInv'
  OBVIOUS
<1>1. CASE UNCHANGED vars
  BY <1>1 DEF vars, IInv, TypeOK, OrphansExplained, TimerGuardsProcess, KnownRuns,
              KnownAloneOrEarly, NoTimerWithoutChild, Open
<1>2. CASE Next
  BY <1>2, StartStep, StopStep, DisconnectStep, TimeoutStep, StdoutStep, StderrStep,
     CloseStep DEF Next
<1>. QED
  BY <1>1, <1>2

(* The inductive invariant holds throughout a connection's life. *)
THEOREM Invariance == Spec => []IInv
<1>. QED
  BY InitIInv, NextIInv, PTL DEF Spec

(* All state of a connection keeps its type, and a closed one knows no child. *)
THEOREM TypeCorrect == Spec => []TypeOK
<1>1. IInv => TypeOK
  BY DEF IInv
<1>. QED
  BY Invariance, <1>1, PTL

(* Whatever stops, errors and late exits came before, a known child is      *)
(* guarded by its own timer and by no other (setTimeout, clearTimeout).      *)
THEOREM TimerCorrect == Spec => []TimerGuardsProcess
<1>1. IInv => TimerGuardsProcess
  BY DEF IInv
<1>. QED
  BY Invariance, <1>1, PTL

(* A running child unknown to its connection has written to stderr, or was  *)
(* started before an earlier child had closed; there is no third way.        *)
THEOREM OrphansCorrect == Spec => []OrphansExplained
<1>1. IInv => OrphansExplained
  BY DEF IInv
<1>. QED
  BY Invariance, <1>1, PTL

----------------------------------------------------------------------------
(* The page's table *)

(* Among places there is a first. *)
LEMMA FirstPlace ==
    ASSUME NEW S \in SUBSET Nat, S # {}
    PROVE  \E i \in S : \A j \in S : i <= j
<1>1. PICK i \in S : \A j \in S : <<j, i>> \notin OpToRel(<, Nat)
  BY NatLessThanWellFounded, WFMin
<1>2. \A j \in S : ~(j < i)
  BY <1>1 DEF OpToRel
<1>. QED
  BY <1>2

(* Where updateTable puts a hop which is not there. *)
LEMMA FirstAboveFound ==
    ASSUME NEW rows \in Seq(Row), NEW line \in Row, IndexOf(rows, line) = {}
    PROVE  /\ FirstAbove(rows, line) \in 1..Len(rows) + 1
           /\ \A j \in 1..FirstAbove(rows, line) - 1 : rows[j].hop < line.hop
           /\ FirstAbove(rows, line) <= Len(rows) =>
                 rows[FirstAbove(rows, line)].hop > line.hop
<1>1. /\ Len(rows) \in Nat /\ DOMAIN rows = 1..Len(rows) /\ line.hop \in Nat
      /\ \A i \in 1..Len(rows) : rows[i].hop \in Nat /\ rows[i].hop # line.hop
  <2>1. Len(rows) \in Nat /\ DOMAIN rows = 1..Len(rows) /\ \A i \in 1..Len(rows) : rows[i] \in Row
    BY LenProperties, ElementOfSeq
  <2>2. \A r \in Row : r.hop \in Nat
    BY DEF Row
  <2>3. \A i \in 1..Len(rows) : rows[i].hop # line.hop
    BY <2>1 DEF IndexOf
  <2>. QED
    BY <2>1, <2>2, <2>3
<1> DEFINE Above == {i \in 1..Len(rows) : rows[i].hop > line.hop}
           Fits(i) == /\ \A j \in 1..i - 1 : rows[j].hop < line.hop
                      /\ i <= Len(rows) => rows[i].hop > line.hop
<1>2. \E i \in 1..Len(rows) + 1 : Fits(i)
  <2>1. CASE Above = {}
    <3>1. Fits(Len(rows) + 1) /\ Len(rows) + 1 \in 1..Len(rows) + 1
      BY <1>1, <2>1
    <3>. QED
      BY <3>1
  <2>2. CASE Above # {}
    <3>1. Above \in SUBSET Nat
      BY <1>1
    <3>2. PICK i \in Above : \A j \in Above : i <= j
      BY <2>2, <3>1, FirstPlace
    <3>3. Fits(i) /\ i \in 1..Len(rows) + 1
      BY <1>1, <3>2
    <3>. QED
      BY <3>3
  <2>. QED
    BY <2>1, <2>2
<1>3. FirstAbove(rows, line) = CHOOSE i \in 1..Len(rows) + 1 : Fits(i)
  BY DEF FirstAbove
<1>4. FirstAbove(rows, line) \in 1..Len(rows) + 1 /\ Fits(FirstAbove(rows, line))
  <2>. HIDE DEF Fits
  <2>. QED
    BY <1>2, <1>3
<1>. QED
  BY <1>4

LEMMA Inserted ==
    ASSUME NEW S, NEW rows \in Seq(S), NEW line \in S, NEW i \in 1..Len(rows) + 1
    PROVE  /\ InsertAt(rows, i, line) \in Seq(S)
           /\ Len(InsertAt(rows, i, line)) = Len(rows) + 1
           /\ \A j \in 1..Len(rows) + 1 :
                 InsertAt(rows, i, line)[j] =
                     IF j < i THEN rows[j] ELSE IF j = i THEN line ELSE rows[j - 1]
<1> DEFINE a == SubSeq(rows, 1, i - 1)
           b == SubSeq(rows, i, Len(rows))
<1>1. Len(rows) \in Nat /\ i \in Nat /\ \A j \in 1..Len(rows) : rows[j] \in S
  BY LenProperties, ElementOfSeq
<1>2. a \in Seq(S) /\ Len(a) = i - 1 /\ \A j \in 1..i - 1 : a[j] = rows[j]
  <2>1. \A j \in 1..i - 1 : rows[j] \in S
    BY <1>1
  <2>2. i - 1 \in Int /\ 1 \in Int
    BY <1>1
  <2>3. /\ a \in Seq(S) /\ Len(a) = IF 1 <= i - 1 THEN (i - 1) - 1 + 1 ELSE 0
        /\ \A j \in 1..(i - 1) - 1 + 1 : a[j] = rows[1 + j - 1]
    BY <2>1, <2>2, SubSeqProperties
  <2>. HIDE DEF a
  <2>. QED
    BY <1>1, <2>3
<1>3. /\ b \in Seq(S) /\ Len(b) = Len(rows) - i + 1
      /\ \A j \in 1..Len(rows) - i + 1 : b[j] = rows[i + j - 1]
  <2>1. \A j \in i..Len(rows) : rows[j] \in S
    BY <1>1
  <2>2. i \in Int /\ Len(rows) \in Int
    BY <1>1
  <2>3. /\ b \in Seq(S) /\ Len(b) = IF i <= Len(rows) THEN Len(rows) - i + 1 ELSE 0
        /\ \A j \in 1..Len(rows) - i + 1 : b[j] = rows[i + j - 1]
    BY <2>1, <2>2, SubSeqProperties
  <2>. HIDE DEF b
  <2>. QED
    BY <1>1, <2>3
<1>4. InsertAt(rows, i, line) = (a \o <<line>>) \o b
  BY DEF InsertAt
<1>. HIDE DEF a, b
<1> DEFINE u == a \o <<line>>
<1>5. /\ u \in Seq(S) /\ Len(u) = i
      /\ \A j \in 1..i : u[j] = IF j < i THEN rows[j] ELSE line
  <2>1. <<line>> \in Seq(S) /\ Len(<<line>>) = 1 /\ <<line>>[1] = line
    OBVIOUS
  <2>2. /\ u \in Seq(S) /\ Len(u) = Len(a) + Len(<<line>>)
        /\ \A j \in 1..Len(a) + Len(<<line>>) :
              u[j] = IF j <= Len(a) THEN a[j] ELSE <<line>>[j - Len(a)]
    BY <1>2, <2>1, ConcatProperties
  <2>. HIDE DEF u
  <2>3. Len(u) = i
    BY <1>1, <1>2, <2>1, <2>2
  <2>4. ASSUME NEW j \in 1..i PROVE u[j] = IF j < i THEN rows[j] ELSE line
    <3>1. j \in 1..Len(a) + Len(<<line>>)
      BY <1>1, <1>2, <2>1
    <3>2. CASE j < i
      BY <1>1, <1>2, <2>2, <3>1, <3>2
    <3>3. CASE j = i
      <4>1. j - Len(a) = 1 /\ ~(j <= Len(a))
        BY <1>1, <1>2, <3>3
      <4>. QED
        BY <2>1, <2>2, <3>1, <3>3, <4>1
    <3>. QED
      BY <1>1, <3>2, <3>3
  <2>. QED
    BY <2>2, <2>3, <2>4
<1>. HIDE DEF u
<1>6. /\ u \o b \in Seq(S) /\ Len(u \o b) = Len(u) + Len(b)
      /\ \A j \in 1..Len(u) + Len(b) : (u \o b)[j] = IF j <= Len(u) THEN u[j] ELSE b[j - Len(u)]
  BY <1>3, <1>5, ConcatProperties
<1>7. Len(u) + Len(b) = Len(rows) + 1
  BY <1>1, <1>3, <1>5
<1>8. ASSUME NEW j \in 1..Len(rows) + 1
      PROVE  (u \o b)[j] = IF j < i THEN rows[j] ELSE IF j = i THEN line ELSE rows[j - 1]
  <2>1. CASE j <= i
    <3>1. j \in 1..i /\ j \in 1..Len(u) + Len(b) /\ j <= Len(u)
      BY <1>1, <1>5, <1>7, <2>1
    <3>2. (u \o b)[j] = u[j]
      BY <1>6, <3>1
    <3>. QED
      BY <1>1, <1>5, <2>1, <3>1, <3>2
  <2>2. CASE j > i
    <3>1. j - i \in 1..Len(rows) - i + 1 /\ i + (j - i) - 1 = j - 1
      BY <1>1, <2>2
    <3>2. (u \o b)[j] = b[j - i]
      BY <1>1, <1>5, <1>6, <1>7, <2>2
    <3>. QED
      BY <1>1, <1>3, <2>2, <3>1, <3>2
  <2>3. j <= i \/ j > i
    BY <1>1
  <2>. QED
    BY <2>1, <2>2, <2>3, Zenon
<1>. QED
  BY <1>4, <1>6, <1>7, <1>8 DEF u

(* What updateTable does to its rows, where it replaces one and where it     *)
(* inserts one.                                                              *)
LEMMA Replaced ==
    ASSUME NEW S, NEW rows \in Seq(S), NEW line \in S, IndexOf(rows, line) # {}
    PROVE  \E i \in IndexOf(rows, line) :
             /\ i \in 1..Len(rows) /\ rows[i].hop = line.hop
             /\ i = (CHOOSE k \in IndexOf(rows, line) : TRUE)
             /\ Placed(rows, line) = [rows EXCEPT ![i] = line]
             /\ Placed(rows, line) \in Seq(S)
             /\ Len(Placed(rows, line)) = Len(rows)
             /\ \A j \in 1..Len(rows) :
                   Placed(rows, line)[j] = IF j = i THEN line ELSE rows[j]
<1> DEFINE i == CHOOSE k \in IndexOf(rows, line) : TRUE
<1>1. i \in IndexOf(rows, line)
  OBVIOUS
<1>2. Placed(rows, line) = [rows EXCEPT ![i] = line]
  BY DEF Placed
<1>3. i = (CHOOSE k \in IndexOf(rows, line) : TRUE)
  OBVIOUS
<1>. HIDE DEF i
<1>4. i \in 1..Len(rows) /\ rows[i].hop = line.hop /\ DOMAIN rows = 1..Len(rows)
  BY <1>1, LenProperties DEF IndexOf
<1>5. /\ [rows EXCEPT ![i] = line] \in Seq(S) /\ Len([rows EXCEPT ![i] = line]) = Len(rows)
      /\ \A j \in 1..Len(rows) :
            [rows EXCEPT ![i] = line][j] = IF j = i THEN line ELSE rows[j]
  BY <1>4, ExceptSeq
<1>. QED
  BY <1>1, <1>2, <1>3, <1>4, <1>5

LEMMA PutIn ==
    ASSUME NEW S, S \subseteq Row, NEW rows \in Seq(S), NEW line \in S,
           IndexOf(rows, line) = {}
    PROVE  /\ Placed(rows, line) = InsertAt(rows, FirstAbove(rows, line), line)
           /\ FirstAbove(rows, line) \in 1..Len(rows) + 1
           /\ Placed(rows, line) \in Seq(S)
           /\ Len(Placed(rows, line)) = Len(rows) + 1
           /\ \A j \in 1..Len(rows) + 1 :
                 Placed(rows, line)[j] = IF j < FirstAbove(rows, line) THEN rows[j]
                                         ELSE IF j = FirstAbove(rows, line) THEN line
                                         ELSE rows[j - 1]
<1>1. rows \in Seq(Row) /\ line \in Row
  OBVIOUS
<1>2. FirstAbove(rows, line) \in 1..Len(rows) + 1
  BY <1>1, FirstAboveFound
<1>3. Placed(rows, line) = InsertAt(rows, FirstAbove(rows, line), line)
  BY DEF Placed
<1> DEFINE n == FirstAbove(rows, line)
<1>4. n \in 1..Len(rows) + 1
  BY <1>2
<1>5. Placed(rows, line) = InsertAt(rows, n, line)
  BY <1>3
<1>. HIDE DEF n
<1>6. /\ InsertAt(rows, n, line) \in Seq(S)
      /\ Len(InsertAt(rows, n, line)) = Len(rows) + 1
      /\ \A j \in 1..Len(rows) + 1 :
            InsertAt(rows, n, line)[j] =
                IF j < n THEN rows[j] ELSE IF j = n THEN line ELSE rows[j - 1]
  BY <1>4, Inserted
<1>7. /\ Placed(rows, line) \in Seq(S)
      /\ Len(Placed(rows, line)) = Len(rows) + 1
      /\ \A j \in 1..Len(rows) + 1 :
            Placed(rows, line)[j] = IF j < n THEN rows[j] ELSE IF j = n THEN line ELSE rows[j - 1]
  BY <1>5, <1>6
<1>. QED
  BY <1>2, <1>3, <1>7 DEF n

(* Its rows are those it had and the new one, ...                            *)
LEMMA TableRows ==
    ASSUME NEW S, S \subseteq Row, NEW rows \in Seq(S), NEW line \in S
    PROVE  UpdateTable(rows, line) \in Seq(S)
<1>1. FirstRow(line) \in Seq(S)
  BY DEF FirstRow
<1>2. Placed(rows, line) \in Seq(S)
  <2>1. CASE IndexOf(rows, line) # {}
    BY <2>1, Replaced
  <2>2. CASE IndexOf(rows, line) = {}
    BY <2>2, PutIn
  <2>. QED
    BY <2>1, <2>2
<1>. QED
  BY <1>1, <1>2 DEF UpdateTable

(* ... the HTML table does as its array does if it did so far, ...           *)
LEMMA ShownAsArray ==
    ASSUME NEW rows \in Seq(Row), NEW line \in Row
    PROVE  UpdateRows(rows, rows, line) = UpdateTable(rows, line)
<1>1. CASE rows = <<>>
  BY <1>1 DEF UpdateRows, UpdateTable, FirstRow
<1>2. CASE rows # <<>> /\ Changed(rows, line)
  BY <1>2 DEF UpdateRows, UpdateTable
<1>3. CASE rows # <<>> /\ ~Changed(rows, line) /\ IndexOf(rows, line) # {}
  <2> DEFINE i == CHOOSE k \in IndexOf(rows, line) : TRUE
  <2>1. i \in 1..Len(rows) /\ Placed(rows, line) = [rows EXCEPT ![i] = line]
    <3>1. PICK k \in IndexOf(rows, line) :
             /\ k \in 1..Len(rows) /\ k = (CHOOSE h \in IndexOf(rows, line) : TRUE)
             /\ Placed(rows, line) = [rows EXCEPT ![k] = line]
      BY <1>3, Replaced
    <3>2. k = i
      BY <3>1
    <3>. HIDE DEF i
    <3>. QED
      BY <3>1, <3>2
  <2>2. UpdateTable(rows, line) = Placed(rows, line)
    BY <1>3 DEF UpdateTable
  <2>3. UpdateRows(rows, rows, line) = IF i <= Len(rows) THEN [rows EXCEPT ![i] = line] ELSE rows
    BY <1>3 DEF UpdateRows
  <2>4. Len(rows) \in Nat
    BY LenProperties
  <2>. HIDE DEF i
  <2>5. i <= Len(rows)
    BY <2>1, <2>4
  <2>. QED
    BY <2>1, <2>2, <2>3, <2>5
<1>4. CASE rows # <<>> /\ ~Changed(rows, line) /\ IndexOf(rows, line) = {}
  <2> DEFINE i == FirstAbove(rows, line)
  <2>1. i \in 1..Len(rows) + 1 /\ Placed(rows, line) = InsertAt(rows, i, line) /\ Len(rows) \in Nat
    BY <1>4, PutIn, LenProperties
  <2>2. UpdateTable(rows, line) = Placed(rows, line)
    BY <1>4 DEF UpdateTable
  <2>3. UpdateRows(rows, rows, line) =
           IF i <= Len(rows) + 1 THEN InsertAt(rows, i, line) ELSE rows
    BY <1>4 DEF UpdateRows
  <2>. HIDE DEF i
  <2>. QED
    BY <2>1, <2>2, <2>3
<1>. QED
  BY <1>1, <1>2, <1>3, <1>4

(* ... and the rows stay in order. *)
LEMMA TableInOrder ==
    ASSUME NEW rows \in Seq(Row), NEW line \in Row, InOrder(rows)
    PROVE  InOrder(UpdateTable(rows, line))
<1>1. /\ Len(rows) \in Nat /\ DOMAIN rows = 1..Len(rows)
      /\ \A i \in 1..Len(rows) : rows[i] \in Row
  BY LenProperties, ElementOfSeq
<1>2. \A r \in Row : r.hop \in Nat /\ r.hop >= 1
  BY DEF Row
<1>3. line.hop \in Nat /\ line.hop >= 1 /\ \A i \in 1..Len(rows) : rows[i].hop \in Nat
  BY <1>1, <1>2
<1>4. InOrder(FirstRow(line))
  BY DEF FirstRow, InOrder
<1>5. CASE rows # <<>> /\ IndexOf(rows, line) # {}
  <2> DEFINE t == Placed(rows, line)
  <2>1. PICK i \in 1..Len(rows) :
           /\ rows[i].hop = line.hop /\ t \in Seq(Row) /\ Len(t) = Len(rows)
           /\ \A j \in 1..Len(rows) : t[j] = IF j = i THEN line ELSE rows[j]
    BY <1>5, Replaced
  <2>. HIDE DEF t
  <2>2. DOMAIN t = 1..Len(rows) /\ \A j \in 1..Len(rows) : t[j].hop = rows[j].hop
    BY <2>1, LenProperties
  <2>3. 1 \in 1..Len(rows)
    BY <1>1, <1>5, EmptySeq
  <2>4. InOrder(t)
    BY <1>1, <1>5, <2>2, <2>3 DEF InOrder
  <2>. QED
    BY <1>4, <1>5, <2>4 DEF UpdateTable, t
<1>6. CASE rows # <<>> /\ IndexOf(rows, line) = {}
  <2> DEFINE t == Placed(rows, line)
             n == FirstAbove(rows, line)
  <2>1. /\ n \in 1..Len(rows) + 1 /\ t \in Seq(Row) /\ Len(t) = Len(rows) + 1
        /\ \A j \in 1..Len(rows) + 1 :
              t[j] = IF j < n THEN rows[j] ELSE IF j = n THEN line ELSE rows[j - 1]
    BY <1>6, PutIn
  <2>2. /\ \A j \in 1..n - 1 : rows[j].hop < line.hop
        /\ n <= Len(rows) => rows[n].hop > line.hop
    BY <1>6, FirstAboveFound
  <2>. HIDE DEF t, n
  <2>3. /\ \A i, j \in 1..Len(rows) : i < j => rows[i].hop < rows[j].hop
        /\ rows[1].hop = 1 /\ 1 \in 1..Len(rows)
    BY <1>1, <1>6, EmptySeq DEF InOrder
  <2>4. \A j \in 1..Len(rows) : j >= n => rows[j].hop > line.hop
    <3>. SUFFICES ASSUME NEW j \in 1..Len(rows), j >= n PROVE rows[j].hop > line.hop
      OBVIOUS
    <3>1. n \in 1..Len(rows) /\ rows[n].hop > line.hop
      BY <1>1, <2>1, <2>2
    <3>2. j = n \/ rows[n].hop < rows[j].hop
      BY <2>3, <3>1
    <3>. QED
      BY <1>3, <3>1, <3>2
  <2>5. n > 1
    BY <1>3, <2>1, <2>3, <2>4
  <2>6. DOMAIN t = 1..Len(rows) + 1
    BY <2>1, LenProperties
  <2>7. ASSUME NEW i \in 1..Len(rows) + 1, NEW j \in 1..Len(rows) + 1, i < j
        PROVE  t[i].hop < t[j].hop
    <3>1. CASE j < n
      BY <1>1, <2>1, <2>3, <2>7, <3>1
    <3>2. CASE j = n
      <4>1. i \in 1..n - 1 /\ t[i] = rows[i] /\ t[j] = line
        BY <1>1, <2>1, <2>7, <3>2
      <4>. QED
        BY <2>2, <4>1
    <3>3. CASE j > n
      <4>1. t[j] = rows[j - 1] /\ j - 1 \in 1..Len(rows) /\ j - 1 >= n
        BY <1>1, <2>1, <2>7, <3>3
      <4>2. CASE i < n
        <5>1. t[i] = rows[i] /\ i \in 1..Len(rows) /\ i < j - 1
          BY <1>1, <2>1, <2>7, <3>3, <4>2
        <5>. QED
          BY <2>3, <4>1, <5>1
      <4>3. CASE i = n
        <5>1. t[i] = line
          BY <2>1, <4>3
        <5>. QED
          BY <1>3, <2>4, <4>1, <5>1
      <4>4. CASE i > n
        <5>1. t[i] = rows[i - 1] /\ i - 1 \in 1..Len(rows) /\ i - 1 < j - 1
          BY <1>1, <2>1, <2>7, <4>4
        <5>. QED
          BY <2>3, <4>1, <5>1
      <4>5. i < n \/ i = n \/ i > n
        BY <1>1, <2>1
      <4>. QED
        BY <4>2, <4>3, <4>4, <4>5
    <3>4. j < n \/ j = n \/ j > n
      BY <1>1, <2>1
    <3>. QED
      BY <3>1, <3>2, <3>3, <3>4
  <2>8. t[1].hop = 1
    BY <1>1, <2>1, <2>3, <2>5
  <2>9. InOrder(t)
    BY <2>6, <2>7, <2>8 DEF InOrder
  <2>. QED
    BY <1>4, <1>6, <2>9 DEF UpdateTable, t
<1>7. CASE rows = <<>>
  BY <1>4, <1>7 DEF UpdateTable
<1>. QED
  BY <1>5, <1>6, <1>7

----------------------------------------------------------------------------
(* The connection under the page's messages.  Every step of the two together *)
(* is a step of the connection or leaves it alone.                           *)
LEMMA SystemStepIsSessionStep == [SystemNext]_systemVars => [Next]_vars
<1> SUFFICES ASSUME [SystemNext]_systemVars PROVE [Next]_vars
  OBVIOUS
<1>1. CASE ServiceStart
  BY <1>1 DEF ServiceStart
<1>2. CASE ClickStop
  BY <1>2 DEF ClickStop, ServiceStop
<1>3. CASE \E table \in Tables : PickDate(table)
  BY <1>3 DEF PickDate
<1>4. CASE \E k \in 1..MaxClicks : PageTimer(k)
  BY <1>4 DEF PageTimer
<1>5. CASE PageReceive
  BY <1>5 DEF PageReceive
<1>6. CASE ConnectionLost
  BY <1>6 DEF ConnectionLost, Next
<1>7. CASE ServerReceive
  BY <1>7 DEF ServerReceive, Next
<1>8. CASE QueryAnswered
  BY <1>8 DEF QueryAnswered
<1>9. ASSUME NEW c \in Children, ChildWrites(c) \/ ChildCloses(c) \/ ServerTimeout(c)
      PROVE  [Next]_vars
  BY <1>9 DEF ChildWrites, ChildCloses, ServerTimeout, Next
<1>10. CASE UNCHANGED systemVars
  BY <1>10 DEF systemVars
<1>. QED
  BY <1>1, <1>2, <1>3, <1>4, <1>5, <1>6, <1>7, <1>8, <1>9, <1>10 DEF SystemNext

(* So the connection that messages drive is a connection as it was specified *)
(* alone: the page can bring it to do nothing else.                          *)
THEOREM SystemRefinesSession == SystemSpec => Init /\ [][Next]_vars
<1>1. SystemInit => Init
  BY DEF SystemInit
<1>. QED
  BY <1>1, SystemStepIsSessionStep, PTL DEF SystemSpec

(* All that was proved of it holds here. *)
LEMMA SystemIInv == SystemSpec => []IInv
<1>1. SystemInit => IInv
  BY InitIInv DEF SystemInit
<1>2. IInv /\ [SystemNext]_systemVars => IInv'
  BY SystemStepIsSessionStep, NextIInv
<1>. QED
  BY <1>1, <1>2, PTL DEF SystemSpec

(* Whatever the page asks for, and however late its messages come, a known   *)
(* child is guarded by its own timer and by no other.                        *)
THEOREM TimersUnderMessages == SystemSpec => []TimerGuardsProcess
<1>1. IInv => TimerGuardsProcess
  BY DEF IInv
<1>. QED
  BY SystemIInv, <1>1, PTL

(* ... and a child that runs unknown was noisy or early.                     *)
THEOREM OrphansUnderMessages == SystemSpec => []OrphansExplained
<1>1. IInv => OrphansExplained
  BY DEF IInv
<1>. QED
  BY SystemIInv, <1>1, PTL

----------------------------------------------------------------------------
(* What is on its way.                                                       *)
Asked == [command : {"START", "STOP"}] \cup [command : {"LOAD_DATA"}, table : Tables]
Told == [command : {"LINKS", "ERROR", "STOP", "TIMEOUT"}]
          \cup [command : {"LOAD_DATA"}, table : Tables]
          \cup [command : {"DATA"}, line : Row]

(* The page's table, as it is and as it is shown. *)
TableInv ==
    /\ toServer \in Seq(Asked) /\ toPage \in Seq(Told) /\ queries \in Seq(Tables)
    /\ displayArray \in Seq(Row)
    /\ RowsInOrder /\ ShownIsArray

(* No trace but one has ever been on its way to the page at a time. *)
Alone == early = {} /\ noisy = {} /\ pressed # "twice"

(* Rows of a child's trace, and of saved ones. *)
Of(c) == {r \in Row : r.of \in {NoChild, c}}

(* Nothing of a trace is on its way to the page. *)
Quiet == \A p \in 1..Len(toPage) : toPage[p].command \in {"LINKS", "LOAD_DATA"}

(* Start was pressed and the server does not know: nothing is left of the    *)
(* trace before.                                                             *)
StartOnItsWay ==
    \A p \in 1..Len(toServer) : toServer[p].command = "START" =>
        /\ pressed = "unheard" /\ Open = {} /\ Quiet
        /\ \A q \in 1..Len(toServer) : toServer[q].command = "START" => p = q

(* The end of the trace before was heard: all of it was. *)
AllWasHeard == pressed = "no" => Open = {} /\ Quiet

(* While nothing was heard of the new trace the table is empty but for saved *)
(* rows.                                                                     *)
UnheardIsEmpty == pressed = "unheard" => displayArray \in Seq(Of(NoChild))

(* The rows shown and the lines on their way are the last child's, which is  *)
(* the only one that may write, or were saved; its end is the last that is   *)
(* heard of it.                                                              *)
OnlyLastChild ==
    /\ Open \subseteq {spawned}
    /\ displayArray \in Seq(Of(spawned))
    /\ \A p \in 1..Len(toPage) :
         /\ toPage[p].command = "DATA" => toPage[p].line.of = spawned
         /\ toPage[p].command = "STOP" =>
               /\ Open = {}
               /\ \A q \in 1..Len(toPage) : q > p => toPage[q].command = "LOAD_DATA"

OneAtATime == StartOnItsWay /\ AllWasHeard /\ UnheardIsEmpty /\ OnlyLastChild

OneTraceInv ==
    /\ ~connected => toPage = <<>>
    /\ connected /\ Alone => OneAtATime
    /\ OneTraceShown

----------------------------------------------------------------------------
(* A message is put behind the others, or taken from before them. *)
LEMMA PutBehind ==
    ASSUME NEW S, NEW q \in Seq(S), NEW m \in S
    PROVE  /\ Append(q, m) \in Seq(S) /\ Len(q) \in Nat
           /\ Len(Append(q, m)) = Len(q) + 1
           /\ \A p \in 1..Len(q) : Append(q, m)[p] = q[p]
           /\ Append(q, m)[Len(q) + 1] = m
BY AppendProperties, LenProperties

LEMMA TakenFromFront ==
    ASSUME NEW S, NEW q \in Seq(S), q # <<>>
    PROVE  /\ Tail(q) \in Seq(S) /\ Head(q) \in S /\ Head(q) = q[1]
           /\ Len(q) \in Nat \ {0} /\ Len(Tail(q)) = Len(q) - 1
           /\ \A p \in 1..Len(q) - 1 : Tail(q)[p] = q[p + 1]
<1>1. Len(q) \in Nat \ {0}
  BY LenProperties, EmptySeq
<1>2. 1 \in 1..Len(q)
  BY <1>1
<1>3. Head(q) = q[1] /\ q[1] \in S
  BY <1>2, ElementOfSeq
<1>. QED
  BY <1>1, <1>3, HeadTailProperties

(* The page and its connection begin with an empty table. *)
LEMMA InitTable == SystemInit => TableInv
<1> SUFFICES ASSUME SystemInit PROVE TableInv
  OBVIOUS
<1>1. toServer \in Seq(Asked) /\ queries \in Seq(Tables) /\ displayArray \in Seq(Row)
  BY DEF SystemInit
<1>2. toPage \in Seq(Told)
  <2>1. [command |-> "LINKS"] \in Told
    BY DEF Told
  <2>. QED
    BY <2>1 DEF SystemInit
<1>3. RowsInOrder /\ ShownIsArray
  BY DEF SystemInit, RowsInOrder, InOrder, ShownIsArray
<1>. QED
  BY <1>1, <1>2, <1>3 DEF TableInv

(* What a button asks for, and a date. *)
LEMMA AskedIsAsked ==
    ASSUME NEW command \in {"START", "STOP"}, toServer \in Seq(Asked), Request(command)
    PROVE  toServer' \in Seq(Asked)
<1>1. [command |-> command] \in Asked
  BY DEF Asked
<1>. QED
  BY <1>1, PutBehind DEF Request

LEMMA DateIsAsked ==
    ASSUME NEW table \in Tables, toServer \in Seq(Asked), PickDate(table)
    PROVE  /\ [command |-> "LOAD_DATA", table |-> table] \in Asked
           /\ toServer' \in Seq(Asked)
<1>1. [command |-> "LOAD_DATA", table |-> table] \in Asked
  BY DEF Asked
<1>. QED
  BY <1>1, PutBehind DEF PickDate

(* What a handler emits. *)
LEMMA SentIsTold ==
    ASSUME NEW m \in Told, toPage \in Seq(Told), Send(m)
    PROVE  toPage' \in Seq(Told)
BY PutBehind DEF Send

(* A message of the server's changes the table, or leaves it. *)
LEMMA ReceiveTable == ASSUME TableInv, PageReceive PROVE TableInv'
<1> DEFINE m == Head(toPage)
<1>1. toPage' \in Seq(Told) /\ m \in Told
  BY TakenFromFront DEF TableInv, PageReceive
<1>2. toServer' \in Seq(Asked) /\ queries' \in Seq(Tables)
  BY DEF TableInv, PageReceive
<1>3. CASE m.command = "DATA"
  <2>1. m.line \in Row
    BY <1>1, <1>3 DEF Told
  <2>2. /\ displayArray' = UpdateTable(displayArray, m.line)
        /\ shown' = UpdateRows(shown, displayArray, m.line) /\ picked' = picked
    BY <1>3 DEF PageReceive
  <2>. HIDE DEF m
  <2>3. displayArray' \in Seq(Row)
    BY <2>1, <2>2, TableRows DEF TableInv
  <2>4. RowsInOrder'
    BY <2>1, <2>2, TableInOrder DEF TableInv, RowsInOrder
  <2>5. ShownIsArray'
    BY <2>1, <2>2, ShownAsArray DEF TableInv, ShownIsArray
  <2>. QED
    BY <1>1, <1>2, <2>3, <2>4, <2>5 DEF TableInv
<1>4. CASE m.command = "LOAD_DATA" /\ m.table = 0
  <2>1. displayArray' = Saved /\ shown' = Saved
    BY <1>4 DEF PageReceive
  <2>. QED
    BY <1>1, <1>2, <2>1, PageAssumption DEF TableInv, RowsInOrder, ShownIsArray
<1>5. CASE m.command # "DATA" /\ ~(m.command = "LOAD_DATA" /\ m.table = 0)
  <2>1. displayArray' = displayArray /\ shown' = shown /\ picked' = picked
    BY <1>5 DEF PageReceive
  <2>. QED
    BY <1>1, <1>2, <2>1 DEF TableInv, RowsInOrder, ShownIsArray
<1>. QED
  BY <1>3, <1>4, <1>5

(* Every step keeps the table in order, and what is shown of it true. *)
LEMMA NextTable == TableInv /\ [SystemNext]_systemVars => TableInv'
<1> SUFFICES ASSUME TableInv, [SystemNext]_systemVars PROVE TableInv'
  OBVIOUS
<1> DEFINE Rest == <<displayArray, shown, picked>>
           Emits == \E m \in Told : Send(m)
<1>0. /\ UNCHANGED Rest
      /\ toServer' \in Seq(Asked) /\ toPage' \in Seq(Told) /\ queries' \in Seq(Tables)
      => TableInv'
  BY DEF TableInv, RowsInOrder, ShownIsArray
<1>1. CASE ServiceStart
  <2>1. toServer' \in Seq(Asked) /\ toPage' \in Seq(Told) /\ queries' \in Seq(Tables)
    BY <1>1, AskedIsAsked DEF ServiceStart, TableInv
  <2>2. displayArray' = <<>> /\ shown' = <<>>
    BY <1>1 DEF ServiceStart, ClearsRows
  <2>3. displayArray' \in Seq(Row) /\ RowsInOrder' /\ ShownIsArray'
    BY <2>2 DEF RowsInOrder, InOrder, ShownIsArray
  <2>. QED
    BY <2>1, <2>3 DEF TableInv
<1>2. CASE ClickStop
  BY <1>0, <1>2, AskedIsAsked DEF ClickStop, ServiceStop, TableInv
<1>3. ASSUME NEW table \in Tables, PickDate(table) PROVE TableInv'
  <2>1. toServer' \in Seq(Asked) /\ toPage' \in Seq(Told) /\ queries' \in Seq(Tables)
    BY <1>3, DateIsAsked DEF PickDate, TableInv
  <2>2. displayArray' \in Seq(Row) /\ RowsInOrder' /\ ShownIsArray'
    BY <1>3 DEF PickDate, TableInv, RowsInOrder, ShownIsArray
  <2>. QED
    BY <2>1, <2>2 DEF TableInv
<1>4. CASE \E k \in 1..MaxClicks : PageTimer(k)
  BY <1>0, <1>4, AskedIsAsked DEF PageTimer, TableInv
<1>5. CASE PageReceive
  BY <1>5, ReceiveTable
<1>6. CASE ConnectionLost
  <2>1. /\ toServer' = <<>> /\ toPage' = <<>> /\ queries' = <<>> /\ UNCHANGED Rest
    BY <1>6 DEF ConnectionLost
  <2>. QED
    BY <1>0, <2>1
<1>7. CASE ServerReceive
  <2>1. toServer' \in Seq(Asked) /\ Head(toServer) \in Asked
    BY <1>7, TakenFromFront DEF ServerReceive, TableInv
  <2>2. queries' \in Seq(Tables)
    <3>1. CASE UNCHANGED queries
      BY <3>1 DEF TableInv
    <3>2. CASE Head(toServer).command = "LOAD_DATA" /\ queries' = Append(queries, Head(toServer).table)
      <4>1. Head(toServer).table \in Tables
        BY <2>1, <3>2 DEF Asked
      <4>. QED
        BY <3>2, <4>1, PutBehind DEF TableInv
    <3>. QED
      BY <1>7, <3>1, <3>2 DEF ServerReceive
  <2>. QED
    BY <1>0, <1>7, <2>1, <2>2 DEF ServerReceive, page, TableInv
<1>8. CASE QueryAnswered
  <2>1. queries' \in Seq(Tables) /\ Head(queries) \in Tables
    BY <1>8, TakenFromFront DEF QueryAnswered, TableInv
  <2>2. [command |-> "LOAD_DATA", table |-> Head(queries)] \in Told
    BY <2>1 DEF Told
  <2>3. toPage' \in Seq(Told)
    BY <1>8, <2>2, SentIsTold DEF QueryAnswered, TableInv
  <2>. QED
    BY <1>0, <1>8, <2>1, <2>3 DEF QueryAnswered, page, TableInv
<1>9. ASSUME NEW c \in Children, ChildWrites(c) \/ ChildCloses(c) \/ ServerTimeout(c)
      PROVE  TableInv'
  <2>1. UNCHANGED Rest /\ UNCHANGED <<toServer, queries>>
    BY <1>9 DEF ChildWrites, ChildCloses, ServerTimeout, page
  <2>2. ASSUME NEW hop \in Hops, NEW router \in Routers
        PROVE  [command |-> "DATA", line |-> [hop |-> hop, router |-> router, of |-> c]] \in Told
    <3>1. [hop |-> hop, router |-> router, of |-> c] \in Row
      <4>1. hop \in Nat \ {0}
        BY PageAssumption
      <4>2. c \in Nat /\ router \in STRING
        BY UndefinedIsNoChild, PageAssumption
      <4>. QED
        BY <4>1, <4>2 DEF Row
    <3>. QED
      BY <3>1 DEF Told
  <2>3. \A x \in {"ERROR", "STOP", "TIMEOUT"} : [command |-> x] \in Told
    BY DEF Told
  <2>4. Emits \/ UNCHANGED toPage
    BY <1>9, <2>2, <2>3 DEF ChildWrites, ChildCloses, SendStop, ServerTimeout
  <2>5. toPage' \in Seq(Told)
    BY <2>4, SentIsTold DEF TableInv
  <2>. QED
    BY <1>0, <2>1, <2>5 DEF TableInv
<1>10. CASE UNCHANGED systemVars
  BY <1>0, <1>10 DEF systemVars, page, TableInv
<1>. QED
  BY <1>1, <1>2, <1>3, <1>4, <1>5, <1>6, <1>7, <1>8, <1>9, <1>10 DEF SystemNext

LEMMA TableInvariance == SystemSpec => []TableInv
<1>. QED
  BY InitTable, NextTable, PTL DEF SystemSpec

(* In whatever order lines, saved rows and new traces come, the rows the     *)
(* page keeps are in hop order, each hop once, from the first hop on; and    *)
(* the HTML table, changed row by row, shows them, unless a date was picked  *)
(* and nothing has filled it since (updateTable).                            *)
THEOREM TableStaysRoute == SystemSpec => []TableIsRoute
<1>1. TableInv => TableIsRoute
  BY DEF TableInv, TableIsRoute
<1>. QED
  BY TableInvariance, <1>1, PTL

----------------------------------------------------------------------------
(* One trace at a time *)

(* Lengths and domains of what is on its way. *)
LEMMA QueueFacts ==
    ASSUME TableInv
    PROVE  /\ Len(toServer) \in Nat /\ Len(toPage) \in Nat
           /\ toServer # <<>> => 1 \in 1..Len(toServer)
           /\ toPage # <<>> => 1 \in 1..Len(toPage)
BY EmptySeq, LenProperties DEF TableInv

(* SIGINT leaves the same children open. *)
LEMMA KillOpen == ASSUME IInv, process # Undefined, Kill PROVE Open' = Open
<1>1. \A c \in Children : c # process => child'[c] = child[c]
  BY KillStep
<1>2. process \in Children /\ child'[process] = "signalled" /\ child[process] = "running"
  BY KillStep DEF IInv, KnownRuns
<1>. QED
  BY <1>1, <1>2 DEF Open

(* A known child is open. *)
LEMMA KnownIsOpen == ASSUME IInv, process # Undefined PROVE Open # {}
<1>1. process \in Children /\ child[process] = "running"
  BY SessionAssumption DEF IInv, TypeOK, KnownRuns, Undefined, Children
<1>. QED
  BY <1>1 DEF Open

(* What was alone after a step was so before it. *)
LEMMA AloneBefore ==
    ASSUME SystemNext, Alone'
    PROVE  Alone /\ (connected' => connected)
<1>1. /\ connected' => connected
      /\ early \subseteq early' /\ noisy \subseteq noisy'
      /\ pressed = "twice" => pressed' = "twice"
  <2>1. CASE ServiceStart
    BY <2>1 DEF ServiceStart, vars
  <2>2. CASE ClickStop \/ \E k \in 1..MaxClicks : PageTimer(k)
    BY <2>2 DEF ClickStop, ServiceStop, PageTimer, vars
  <2>3. CASE \E table \in Tables : PickDate(table)
    BY <2>3 DEF PickDate, vars
  <2>4. CASE PageReceive
    BY <2>4 DEF PageReceive, PressedAfter, vars
  <2>5. CASE ConnectionLost
    BY <2>5 DEF ConnectionLost, Disconnect
  <2>6. CASE ServerReceive
    <3>1. UNCHANGED page /\ (Start \/ Stop \/ UNCHANGED vars)
      BY <2>6 DEF ServerReceive
    <3>2. connected' = connected /\ early \subseteq early' /\ noisy' = noisy
      BY <3>1 DEF Start, Stop, vars
    <3>. QED
      BY <3>1, <3>2 DEF page
  <2>7. CASE QueryAnswered
    BY <2>7 DEF QueryAnswered, vars, page
  <2>8. ASSUME NEW c \in Children, ChildWrites(c) \/ ChildCloses(c) \/ ServerTimeout(c)
        PROVE  /\ connected' = connected /\ early' = early /\ noisy \subseteq noisy'
               /\ UNCHANGED page
    BY <2>8 DEF ChildWrites, ChildCloses, ServerTimeout, StdoutData, StderrData, Close,
                Timeout, vars
  <2>. QED
    BY <2>1, <2>2, <2>3, <2>4, <2>5, <2>6, <2>7, <2>8 DEF SystemNext, page
<1>2. Alone
  BY <1>1 DEF Alone
<1>3. connected' => connected
  BY <1>1
<1>. QED
  BY <1>2, <1>3

(* Start is pressed where it may be. *)
LEMMA StartPressed ==
    ASSUME IInv, TableInv, OneAtATime, ServiceStart, Alone'
    PROVE  OneAtATime'
<1> DEFINE n == Len(toServer)
<1>1. /\ status = "STOPPED" /\ UNCHANGED <<vars, toPage, queries, status>>
      /\ displayArray' = <<>>
  BY DEF ServiceStart, ClearsRows
<1>2. Open' = Open /\ spawned' = spawned /\ (Quiet' <=> Quiet)
  BY <1>1 DEF Open, Quiet, vars
<1>3. displayArray' \in Seq(Of(spawned)') /\ displayArray' \in Seq(Of(NoChild)')
  BY <1>1
<1>4. OnlyLastChild'
  BY <1>1, <1>2, <1>3 DEF OneAtATime, OnlyLastChild
<1>5. CASE UNCHANGED <<toServer, pressed>>
  <2>1. StartOnItsWay' /\ AllWasHeard'
    BY <1>2, <1>5 DEF OneAtATime, StartOnItsWay, AllWasHeard
  <2>. QED
    BY <1>3, <1>4, <2>1 DEF OneAtATime, UnheardIsEmpty
<1>6. CASE Request("START") /\ pressed' = IF pressed = "no" THEN "unheard" ELSE "twice"
  <2>1. pressed = "no" /\ pressed' = "unheard" /\ Open = {} /\ Quiet
    BY <1>6 DEF Alone, OneAtATime, AllWasHeard
  <2>2. \A p \in 1..n : toServer[p].command # "START"
    BY <2>1 DEF OneAtATime, StartOnItsWay
  <2>3. /\ n \in Nat /\ Len(toServer') = n + 1
        /\ \A p \in 1..n : toServer'[p] = toServer[p]
        /\ toServer'[n + 1] = [command |-> "START"]
    <3>1. [command |-> "START"] \in Asked
      BY DEF Asked
    <3>. QED
      BY <1>6, <3>1, PutBehind DEF TableInv, Request
  <2>. HIDE DEF n
  <2>4. \A p \in 1..Len(toServer') : toServer'[p].command = "START" => p = n + 1
    BY <2>2, <2>3
  <2>5. StartOnItsWay'
    BY <1>2, <2>1, <2>4 DEF StartOnItsWay
  <2>. QED
    BY <1>3, <1>4, <2>1, <2>5 DEF OneAtATime, AllWasHeard, UnheardIsEmpty
<1>. QED
  BY <1>5, <1>6 DEF ServiceStart

(* A button, a date or the page's timer asks for something else. *)
LEMMA OtherAsked ==
    ASSUME TableInv, OneAtATime, NEW m \in Asked, m.command # "START",
           toServer' = Append(toServer, m),
           UNCHANGED <<vars, toPage, displayArray, pressed>>
    PROVE  OneAtATime'
<1> DEFINE n == Len(toServer)
<1>1. Open' = Open /\ spawned' = spawned /\ (Quiet' <=> Quiet)
  BY DEF Open, Quiet, vars
<1>2. /\ n \in Nat /\ Len(toServer') = n + 1
      /\ \A p \in 1..n : toServer'[p] = toServer[p]
      /\ toServer'[n + 1] = m
  BY PutBehind DEF TableInv
<1>. HIDE DEF n
<1>3. \A p \in 1..Len(toServer') :
         \/ p \in 1..n /\ toServer'[p] = toServer[p]
         \/ p = n + 1 /\ toServer'[p].command # "START"
  BY <1>2
<1>4. StartOnItsWay'
  BY <1>1, <1>3 DEF OneAtATime, StartOnItsWay, n
<1>5. Of(spawned)' = Of(spawned) /\ Of(NoChild)' = Of(NoChild)
  BY <1>1 DEF Of
<1>. QED
  BY <1>1, <1>4, <1>5 DEF OneAtATime, OnlyLastChild, AllWasHeard, UnheardIsEmpty

(* A message is taken by the server that changes nothing but, perhaps, which *)
(* child is known, and what is asked of the database.                        *)
LEMMA MessageTaken ==
    ASSUME TableInv, OneAtATime, toServer # <<>>, toServer' = Tail(toServer),
           Open' = Open, spawned' = spawned, UNCHANGED <<toPage, page>>
    PROVE  OneAtATime'
<1> DEFINE n == Len(toServer)
<1>1. /\ n \in Nat \ {0} /\ Len(toServer') = n - 1
      /\ \A p \in 1..n - 1 : toServer'[p] = toServer[p + 1]
  BY TakenFromFront DEF TableInv
<1>. HIDE DEF n
<1>2. \A p \in 1..Len(toServer') : p + 1 \in 1..n /\ toServer'[p] = toServer[p + 1] /\ p \in Nat
  BY <1>1
<1>3. Quiet' <=> Quiet
  BY DEF Quiet
<1>4. StartOnItsWay'
  <2>1. ASSUME NEW p \in 1..Len(toServer'), toServer'[p].command = "START"
        PROVE  /\ pressed = "unheard" /\ Open = {} /\ Quiet
               /\ \A q \in 1..Len(toServer') : toServer'[q].command = "START" => p = q
    <3>1. p + 1 \in 1..n /\ toServer[p + 1].command = "START" /\ p \in Nat
      BY <1>2, <2>1
    <3>2. \A q \in 1..n : toServer[q].command = "START" => p + 1 = q
      BY <3>1 DEF OneAtATime, StartOnItsWay, n
    <3>3. ASSUME NEW q \in 1..Len(toServer'), toServer'[q].command = "START" PROVE p = q
      <4>1. q + 1 \in 1..n /\ toServer[q + 1].command = "START" /\ q \in Nat
        BY <1>2, <3>3
      <4>2. p + 1 = q + 1
        BY <3>2, <4>1
      <4>. QED
        BY <3>1, <4>1, <4>2
    <3>4. pressed = "unheard" /\ Open = {} /\ Quiet
      BY <3>1 DEF OneAtATime, StartOnItsWay, n
    <3>. QED
      BY <3>3, <3>4
  <2>. QED
    BY <1>3, <2>1 DEF StartOnItsWay, page
<1>5. Of(spawned)' = Of(spawned) /\ Of(NoChild)' = Of(NoChild)
  BY DEF Of
<1>. QED
  BY <1>3, <1>4, <1>5 DEF OneAtATime, OnlyLastChild, AllWasHeard, UnheardIsEmpty, page

(* The server starts a trace: nothing of another is left. *)
LEMMA TraceStarted ==
    ASSUME IInv, TableInv, OneAtATime, toServer # <<>>, toServer' = Tail(toServer),
           Head(toServer).command = "START", Start, UNCHANGED <<toPage, page>>
    PROVE  OneAtATime'
<1> DEFINE n == Len(toServer)
<1>1. /\ n \in Nat \ {0} /\ Len(toServer') = n - 1
      /\ \A p \in 1..n - 1 : toServer'[p] = toServer[p + 1]
      /\ Head(toServer) = toServer[1]
  BY TakenFromFront DEF TableInv
<1>. HIDE DEF n
<1>2. 1 \in 1..n /\ toServer[1].command = "START"
  BY <1>1
<1>3. /\ pressed = "unheard" /\ Open = {} /\ Quiet
      /\ \A q \in 1..n : toServer[q].command = "START" => q = 1
  BY <1>2 DEF OneAtATime, StartOnItsWay, n
<1>4. \A p \in 1..Len(toServer') : p + 1 \in 1..n /\ toServer'[p] = toServer[p + 1] /\ p + 1 # 1
  BY <1>1
<1>5. \A p \in 1..Len(toServer') : toServer'[p].command # "START"
  BY <1>3, <1>4
<1>6. Open' \subseteq {spawned'}
  BY <1>3 DEF Start, IInv, TypeOK, Open
<1>7. StartOnItsWay'
  BY <1>5 DEF StartOnItsWay
<1>8. displayArray \in Seq(Of(NoChild)) /\ Of(NoChild) \subseteq Of(spawned')
  BY <1>3 DEF OneAtATime, UnheardIsEmpty, Of
<1>9. displayArray' \in Seq(Of(spawned)') /\ displayArray' \in Seq(Of(NoChild)')
  <2>1. Of(spawned)' = Of(spawned') /\ Of(NoChild)' = Of(NoChild)
    BY DEF Of
  <2>2. Seq(Of(NoChild)) \subseteq Seq(Of(spawned'))
    BY <1>8
  <2>. QED
    BY <1>8, <2>1, <2>2 DEF page
<1>10. OnlyLastChild'
  <2>1. \A p \in 1..Len(toPage) : toPage[p].command \in {"LINKS", "LOAD_DATA"}
    BY <1>3 DEF Quiet
  <2>. QED
    BY <1>6, <1>9, <2>1 DEF OnlyLastChild, page
<1>. QED
  BY <1>3, <1>7, <1>9, <1>10 DEF OneAtATime, AllWasHeard, UnheardIsEmpty, page

(* The server takes a message. *)
LEMMA ServerTakes ==
    ASSUME IInv, TableInv, OneAtATime, ServerReceive
    PROVE  OneAtATime'
<1> DEFINE command == Head(toServer).command
<1>1. toServer # <<>> /\ toServer' = Tail(toServer) /\ UNCHANGED <<toPage, page>>
  BY DEF ServerReceive
<1>2. CASE command = "START" /\ Start
  BY <1>1, <1>2, TraceStarted
<1>3. CASE Stop
  <2>1. Open' = Open /\ spawned' = spawned
    BY <1>3, KillOpen DEF Stop
  <2>. QED
    BY <1>1, <2>1, MessageTaken
<1>4. CASE UNCHANGED vars
  <2>1. Open' = Open /\ spawned' = spawned
    BY <1>4 DEF vars, Open
  <2>. QED
    BY <1>1, <2>1, MessageTaken
<1>. QED
  BY <1>2, <1>3, <1>4 DEF ServerReceive

(* Something is emitted to the page, but not an end: a handler of the last    *)
(* child's, or a saved trace.                                                *)
LEMMA SomethingSaid ==
    ASSUME TableInv, OneAtATime, Open' = Open, spawned' = spawned,
           NEW m \in Told, toPage' = Append(toPage, m),
           \/ m.command = "LOAD_DATA"
           \/ Open # {} /\ m.command = "TIMEOUT"
           \/ Open # {} /\ m.command = "DATA" /\ m.line.of = spawned,
           UNCHANGED <<toServer, page>>
    PROVE  OneAtATime'
<1> DEFINE n == Len(toPage)
<1>1. /\ n \in Nat /\ Len(toPage') = n + 1
      /\ \A p \in 1..n : toPage'[p] = toPage[p]
      /\ toPage'[n + 1] = m
  BY PutBehind DEF TableInv
<1>. HIDE DEF n
<1>2. \A p \in 1..Len(toPage') :
         \/ p \in 1..n /\ toPage'[p] = toPage[p]
         \/ p = n + 1 /\ toPage'[p] = m
  BY <1>1
<1>3. Open = {} => (Quiet => Quiet')
  BY <1>2 DEF Quiet, n
<1>4. StartOnItsWay'
  BY <1>3 DEF OneAtATime, StartOnItsWay, page
<1>5. AllWasHeard'
  BY <1>3 DEF OneAtATime, AllWasHeard, page
<1>6. Of(spawned)' = Of(spawned) /\ Of(NoChild)' = Of(NoChild)
  BY DEF Of
<1>7. ASSUME NEW p \in 1..Len(toPage')
      PROVE  /\ toPage'[p].command = "DATA" => toPage'[p].line.of = spawned
             /\ toPage'[p].command = "STOP" =>
                   /\ Open = {}
                   /\ \A q \in 1..Len(toPage') : q > p => toPage'[q].command = "LOAD_DATA"
  <2>1. CASE p \in 1..n /\ toPage'[p] = toPage[p]
    <3>1. toPage'[p].command = "DATA" => toPage'[p].line.of = spawned
      BY <2>1 DEF OneAtATime, OnlyLastChild, n
    <3>2. ASSUME toPage'[p].command = "STOP"
          PROVE  Open = {} /\ \A q \in 1..n : q > p => toPage[q].command = "LOAD_DATA"
      BY <2>1, <3>2 DEF OneAtATime, OnlyLastChild, n
    <3>3. ASSUME toPage'[p].command = "STOP", NEW q \in 1..Len(toPage'), q > p
          PROVE  toPage'[q].command = "LOAD_DATA"
      BY <1>2, <3>2, <3>3
    <3>. QED
      BY <3>1, <3>2, <3>3
  <2>2. CASE p = n + 1 /\ toPage'[p] = m
    BY <2>2
  <2>. QED
    BY <1>2, <2>1, <2>2
<1>8. OnlyLastChild'
  BY <1>6, <1>7 DEF OneAtATime, OnlyLastChild, page
<1>. QED
  BY <1>4, <1>5, <1>6, <1>8 DEF OneAtATime, UnheardIsEmpty, page

(* The last child ends, which is the last that is heard of it. *)
LEMMA EndHeard ==
    ASSUME IInv, TableInv, OneAtATime, connected, NEW c \in Children, ChildCloses(c)
    PROVE  OneAtATime'
<1> DEFINE n == Len(toPage)
           m == [command |-> "STOP"]
<1>1. /\ c \in Open /\ child' = [child EXCEPT ![c] = "closed"]
      /\ spawned' = spawned /\ connected' = connected
      /\ UNCHANGED <<toServer, queries, page>> /\ toPage' = Append(toPage, m)
  BY DEF ChildCloses, Close, SendStop, Send
<1>2. Open' = {}
  <2>1. Open \subseteq {spawned}
    BY DEF OneAtATime, OnlyLastChild
  <2>2. child \in [Children -> {"none", "running", "signalled", "closed"}]
    BY DEF IInv, TypeOK
  <2>3. c = spawned /\ \A d \in Children : d # c => child'[d] = child[d]
    BY <1>1, <2>1, <2>2
  <2>4. child'[c] = "closed"
    BY <1>1, <2>2
  <2>5. \A d \in Children : d # c => child[d] \notin {"running", "signalled"}
    BY <2>1, <2>3 DEF Open
  <2>. QED
    BY <2>3, <2>4, <2>5 DEF Open
<1>3. /\ n \in Nat /\ Len(toPage') = n + 1
      /\ \A p \in 1..n : toPage'[p] = toPage[p]
      /\ toPage'[n + 1] = m
  <2>1. m \in Told
    BY DEF Told
  <2>. QED
    BY <1>1, <2>1, PutBehind DEF TableInv
<1>. HIDE DEF n
<1>4. \A p \in 1..Len(toPage') :
         \/ p \in 1..n /\ toPage'[p] = toPage[p]
         \/ p = n + 1 /\ toPage'[p] = m
  BY <1>3
<1>5. Open # {}
  BY <1>1
<1>6. StartOnItsWay' /\ AllWasHeard'
  BY <1>1, <1>5 DEF OneAtATime, StartOnItsWay, AllWasHeard, page
<1>7. OnlyLastChild'
  <2>1. Of(spawned)' = Of(spawned)
    BY <1>1 DEF Of
  <2>2. ASSUME NEW p \in 1..Len(toPage')
        PROVE  /\ toPage'[p].command = "DATA" => toPage'[p].line.of = spawned
               /\ toPage'[p].command = "STOP" => p = n + 1
    <3>1. CASE p \in 1..n /\ toPage'[p] = toPage[p]
      BY <1>5, <3>1 DEF OneAtATime, OnlyLastChild, n
    <3>2. CASE p = n + 1 /\ toPage'[p] = m
      BY <3>2
    <3>. QED
      BY <1>4, <3>1, <3>2
  <2>3. \A q \in 1..Len(toPage') : ~(q > n + 1)
    BY <1>3
  <2>. QED
    BY <1>1, <1>2, <2>1, <2>2, <2>3 DEF OneAtATime, OnlyLastChild, page
<1>8. Of(NoChild)' = Of(NoChild)
  BY DEF Of
<1>. QED
  BY <1>1, <1>6, <1>7, <1>8 DEF OneAtATime, UnheardIsEmpty, page

(* The page hears of its trace, or has a saved one loaded. *)
LEMMA PageHears ==
    ASSUME IInv, TableInv, OneAtATime, Alone, PageReceive
    PROVE  OneAtATime'
<1> DEFINE n == Len(toPage)
           m == Head(toPage)
<1>1. /\ n \in Nat \ {0} /\ Len(toPage') = n - 1 /\ m \in Told
      /\ \A p \in 1..n - 1 : toPage'[p] = toPage[p + 1]
      /\ m = toPage[1] /\ 1 \in 1..n
  BY TakenFromFront DEF TableInv, PageReceive
<1>2. /\ UNCHANGED toServer /\ Open' = Open /\ spawned' = spawned
      /\ pressed' = PressedAfter(m.command)
  BY DEF PageReceive, vars, Open
<1>3. /\ m.command = "DATA" => displayArray' = UpdateTable(displayArray, m.line)
      /\ m.command # "DATA" => displayArray' = displayArray \/ displayArray' = Saved
      /\ m.command \notin {"DATA", "LOAD_DATA"} => displayArray' = displayArray
  BY DEF PageReceive
<1>. HIDE DEF n, m
<1>4. /\ m.command = "DATA" => m.line.of = spawned
      /\ m.command = "STOP" =>
           Open = {} /\ \A q \in 1..n : q > 1 => toPage[q].command = "LOAD_DATA"
  BY <1>1 DEF OneAtATime, OnlyLastChild, n
<1>5. \A p \in 1..Len(toPage') :
         p + 1 \in 1..n /\ toPage'[p] = toPage[p + 1] /\ p + 1 > 1 /\ p \in Nat
  BY <1>1
<1>6. Of(spawned)' = Of(spawned) /\ Of(NoChild)' = Of(NoChild)
  BY <1>2 DEF Of
<1>7. Saved \in Seq(Of(NoChild)) /\ Saved \in Seq(Of(spawned))
  <2>1. /\ Saved \in Seq(Row) /\ DOMAIN Saved = 1..Len(Saved)
        /\ \A i \in 1..Len(Saved) : Saved[i] \in Row /\ Saved[i].of = NoChild
    BY PageAssumption, LenProperties, ElementOfSeq
  <2>2. Saved \in [1..Len(Saved) -> Of(NoChild)] /\ Len(Saved) \in Nat
    <3>1. Saved = [i \in 1..Len(Saved) |-> Saved[i]]
      BY <2>1, SeqDef
    <3>2. Len(Saved) \in Nat
      BY <2>1, LenProperties
    <3>. QED
      BY <2>1, <3>1, <3>2 DEF Of
  <2>3. Of(NoChild) \subseteq Of(spawned)
    BY DEF Of
  <2>. QED
    BY <2>2, <2>3, SeqDef
<1>8. displayArray' \in Seq(Of(spawned))
  <2>1. displayArray \in Seq(Of(spawned))
    BY DEF OneAtATime, OnlyLastChild
  <2>2. CASE m.command = "DATA"
    <3>1. m.line \in Row
      BY <1>1, <2>2 DEF Told
    <3>2. m.line \in Of(spawned) /\ Of(spawned) \subseteq Row
      BY <1>4, <2>2, <3>1 DEF Of
    <3>. QED
      BY <1>3, <2>1, <2>2, <3>2, TableRows
  <2>. QED
    BY <1>3, <1>7, <2>1, <2>2
<1>9. OnlyLastChild'
  <2>1. ASSUME NEW p \in 1..Len(toPage')
        PROVE  /\ toPage'[p].command = "DATA" => toPage'[p].line.of = spawned
               /\ toPage'[p].command = "STOP" =>
                     /\ Open = {}
                     /\ \A q \in 1..Len(toPage') : q > p => toPage'[q].command = "LOAD_DATA"
    <3>1. p + 1 \in 1..n /\ toPage'[p] = toPage[p + 1] /\ p \in Nat
      BY <1>5
    <3>2. toPage'[p].command = "DATA" => toPage'[p].line.of = spawned
      BY <3>1 DEF OneAtATime, OnlyLastChild, n
    <3>3. ASSUME toPage'[p].command = "STOP"
          PROVE  Open = {} /\ \A q \in 1..n : q > p + 1 => toPage[q].command = "LOAD_DATA"
      BY <3>1, <3>3 DEF OneAtATime, OnlyLastChild, n
    <3>4. ASSUME toPage'[p].command = "STOP", NEW q \in 1..Len(toPage'), q > p
          PROVE  toPage'[q].command = "LOAD_DATA"
      <4>1. q + 1 \in 1..n /\ toPage'[q] = toPage[q + 1] /\ q + 1 > p + 1
        BY <1>5, <3>1, <3>4
      <4>. QED
        BY <3>3, <3>4, <4>1
    <3>. QED
      BY <3>2, <3>3, <3>4
  <2>. QED
    BY <1>2, <1>6, <1>8, <2>1 DEF OneAtATime, OnlyLastChild
<1>10. CASE m.command \in {"LINKS", "LOAD_DATA"}
  <2>1. pressed' = pressed
    BY <1>2, <1>10 DEF PressedAfter
  <2>2. Quiet => Quiet'
    BY <1>5 DEF Quiet, n
  <2>3. StartOnItsWay' /\ AllWasHeard'
    BY <1>2, <2>1, <2>2 DEF OneAtATime, StartOnItsWay, AllWasHeard
  <2>4. UnheardIsEmpty'
    BY <1>3, <1>6, <1>7, <1>10, <2>1 DEF OneAtATime, UnheardIsEmpty
  <2>. QED
    BY <1>9, <2>3, <2>4 DEF OneAtATime
<1>11. CASE m.command \notin {"LINKS", "LOAD_DATA"}
  <2>1. ~Quiet
    BY <1>1, <1>11 DEF Quiet, n
  <2>2. StartOnItsWay'
    BY <1>2, <2>1 DEF OneAtATime, StartOnItsWay
  <2>3. pressed' # "unheard" /\ (pressed' = "no" => m.command = "STOP")
    BY <1>2, <1>11, <2>1 DEF PressedAfter, Alone, OneAtATime, AllWasHeard
  <2>4. AllWasHeard'
    <3>1. ASSUME m.command = "STOP" PROVE Open = {} /\ Quiet'
      <4>1. \A p \in 1..Len(toPage') : toPage'[p].command = "LOAD_DATA"
        BY <1>4, <1>5, <3>1
      <4>. QED
        BY <1>4, <3>1, <4>1 DEF Quiet
    <3>. QED
      BY <1>2, <2>3, <3>1 DEF AllWasHeard
  <2>. QED
    BY <1>9, <2>2, <2>3, <2>4 DEF OneAtATime, UnheardIsEmpty
<1>. QED
  BY <1>10, <1>11

(* A child's handler runs. *)
LEMMA ChildStep ==
    ASSUME IInv, TableInv, OneAtATime, connected, Alone', NEW c \in Children,
           ChildWrites(c) \/ ChildCloses(c) \/ ServerTimeout(c)
    PROVE  OneAtATime'
<1>1. CASE ChildWrites(c)
  <2>1. StdoutData(c)
    BY <1>1 DEF ChildWrites, StderrData, Alone
  <2>2. PICK hop \in Hops, router \in Routers :
           Send([command |-> "DATA", line |-> [hop |-> hop, router |-> router, of |-> c]])
    BY <1>1, <2>1 DEF ChildWrites, StderrData, Alone
  <2> DEFINE m == [command |-> "DATA", line |-> [hop |-> hop, router |-> router, of |-> c]]
  <2>3. c \in Open /\ Open' = Open /\ spawned' = spawned /\ connected' = connected
    BY <2>1 DEF StdoutData, vars, Open
  <2>4. c = spawned
    BY <2>3 DEF OneAtATime, OnlyLastChild
  <2>5. m \in Told
    <3>1. hop \in Nat \ {0}
      BY PageAssumption
    <3>2. c \in Nat /\ router \in STRING
      BY UndefinedIsNoChild, PageAssumption
    <3>. QED
      BY <3>1, <3>2 DEF Told, Row
  <2>6. toPage' = Append(toPage, m)
    BY <2>2 DEF Send
  <2>7. m.command = "DATA" /\ m.line.of = spawned
    BY <2>4
  <2>. HIDE DEF m
  <2>8. UNCHANGED <<toServer, page>>
    BY <1>1 DEF ChildWrites
  <2>. QED
    BY <2>3, <2>5, <2>6, <2>7, <2>8, SomethingSaid
<1>2. CASE ChildCloses(c)
  BY <1>2, EndHeard
<1>3. CASE ServerTimeout(c)
  <2> DEFINE m == [command |-> "TIMEOUT"]
  <2>1. UNCHANGED <<toServer, page>> /\ spawned' = spawned
    BY <1>3 DEF ServerTimeout, Timeout
  <2>2. CASE process # Undefined
    <3>1. Open' = Open
      BY <1>3, <2>2, KillOpen DEF ServerTimeout, Timeout
    <3>2. Open # {}
      BY <2>2, KnownIsOpen
    <3>3. toPage' = Append(toPage, m) /\ m \in Told /\ m.command = "TIMEOUT"
      BY <1>3, <2>2 DEF ServerTimeout, Send, Told
    <3>. HIDE DEF m
    <3>. QED
      BY <2>1, <3>1, <3>2, <3>3, SomethingSaid
  <2>3. CASE process = Undefined
    <3>1. Open' = Open /\ toPage' = toPage
      BY <1>3, <2>3 DEF ServerTimeout, Timeout, Open
    <3>. QED
      BY <2>1, <3>1 DEF OneAtATime, StartOnItsWay, AllWasHeard, UnheardIsEmpty,
                        OnlyLastChild, Quiet, Of, page
  <2>. QED
    BY <2>2, <2>3
<1>. QED
  BY <1>1, <1>2, <1>3

(* A saved trace is found, or not. *)
LEMMA QueryStep ==
    ASSUME TableInv, OneAtATime, connected, QueryAnswered
    PROVE  OneAtATime'
<1> DEFINE m == [command |-> "LOAD_DATA", table |-> Head(queries)]
<1>1. UNCHANGED <<toServer, page>> /\ Open' = Open /\ spawned' = spawned
  BY DEF QueryAnswered, vars, Open
<1>2. CASE UNCHANGED toPage
  BY <1>1, <1>2 DEF OneAtATime, StartOnItsWay, AllWasHeard, UnheardIsEmpty,
                    OnlyLastChild, Quiet, Of, page
<1>3. CASE Send(m)
  <2>1. Head(queries) \in Tables
    BY TakenFromFront DEF QueryAnswered, TableInv
  <2>2. m \in Told /\ m.command = "LOAD_DATA" /\ toPage' = Append(toPage, m)
    BY <1>3, <2>1 DEF Told, Send
  <2>. HIDE DEF m
  <2>. QED
    BY <1>1, <2>2, SomethingSaid
<1>. QED
  BY <1>2, <1>3 DEF QueryAnswered

(* One trace's rows, and saved ones, are no mixture. *)
LEMMA OneChildsRows ==
    ASSUME NEW rows, NEW c, rows \in Seq(Of(c)),
           NEW i \in DOMAIN rows, NEW j \in DOMAIN rows
    PROVE  rows[i].of = rows[j].of \/ NoChild \in {rows[i].of, rows[j].of}
<1>1. rows[i] \in Of(c) /\ rows[j] \in Of(c)
  BY LenProperties, ElementOfSeq
<1>. QED
  BY <1>1 DEF Of

(* Every step keeps the traces apart. *)
LEMMA NextOneTrace ==
    IInv /\ TableInv /\ OneTraceInv /\ [SystemNext]_systemVars => OneTraceInv'
<1> SUFFICES ASSUME IInv, TableInv, OneTraceInv, [SystemNext]_systemVars PROVE OneTraceInv'
  OBVIOUS
<1>1. CASE UNCHANGED systemVars
  <2>1. UNCHANGED <<vars, toServer, toPage, displayArray, pressed>>
    BY <1>1 DEF systemVars, page
  <2>2. Open' = Open /\ spawned' = spawned /\ connected' = connected
    BY <2>1 DEF vars, Open
  <2>3. OneAtATime => OneAtATime'
    BY <2>1, <2>2 DEF OneAtATime, StartOnItsWay, AllWasHeard, UnheardIsEmpty,
                      OnlyLastChild, Quiet, Of
  <2>4. OneTraceShown' /\ (Alone' => Alone)
    BY <2>1 DEF vars, OneTraceInv, OneTraceShown, Alone
  <2>. QED
    BY <2>1, <2>2, <2>3, <2>4 DEF OneTraceInv
<1>2. ASSUME SystemNext, ~connected'
      PROVE  toPage' = <<>> /\ displayArray' = displayArray /\ (Alone' => Alone)
  <2>1. CASE ConnectionLost
    BY <2>1, AloneBefore, <1>2 DEF ConnectionLost
  <2>2. CASE \/ ServiceStart \/ ClickStop \/ PageReceive \/ ServerReceive
             \/ \E table \in Tables : PickDate(table)
             \/ \E k \in 1..MaxClicks : PageTimer(k)
    <3>1. CASE ServerReceive
      <4>1. connected /\ (Start \/ Stop \/ UNCHANGED vars)
        BY <3>1 DEF ServerReceive
      <4>2. connected' = connected
        BY <4>1 DEF Start, Stop, vars
      <4>. QED
        BY <1>2, <4>1, <4>2
    <3>2. CASE ServiceStart \/ ClickStop \/ PageReceive
      <4>1. connected /\ UNCHANGED vars
        BY <3>2 DEF ServiceStart, ClickStop, ServiceStop, PageReceive
      <4>. QED
        BY <1>2, <4>1 DEF vars
    <3>3. CASE (\E table \in Tables : PickDate(table)) \/ \E k \in 1..MaxClicks : PageTimer(k)
      <4>1. connected /\ UNCHANGED vars
        BY <3>3 DEF PickDate, PageTimer
      <4>. QED
        BY <1>2, <4>1 DEF vars
    <3>. QED
      BY <2>2, <3>1, <3>2, <3>3
  <2>3. CASE QueryAnswered
    BY <1>2, <2>3, AloneBefore DEF QueryAnswered, Send, vars, page, OneTraceInv
  <2>4. ASSUME NEW c \in Children, ChildWrites(c) \/ ChildCloses(c) \/ ServerTimeout(c)
        PROVE  toPage' = <<>> /\ displayArray' = displayArray
    <3>1. UNCHANGED page /\ connected' = connected
      BY <2>4 DEF ChildWrites, ChildCloses, ServerTimeout, StdoutData, StderrData, Close,
                  Timeout, vars
    <3>2. toPage' = toPage
      BY <1>2, <2>4, <3>1 DEF ChildWrites, ChildCloses, SendStop, ServerTimeout, Send
    <3>. QED
      BY <1>2, <3>1, <3>2 DEF page, OneTraceInv
  <2>. QED
    BY <1>2, <2>1, <2>2, <2>3, <2>4, AloneBefore DEF SystemNext
<1>3. ASSUME SystemNext, connected', Alone' PROVE OneAtATime'
  <2>1. connected /\ Alone /\ OneAtATime
    BY <1>3, AloneBefore DEF OneTraceInv
  <2>2. CASE ServiceStart
    BY <1>3, <2>1, <2>2, StartPressed
  <2>3. [command |-> "STOP"] \in Asked /\ [command |-> "STOP"].command # "START"
    BY DEF Asked
  <2>4. CASE ClickStop
    BY <2>1, <2>3, <2>4, OtherAsked DEF ClickStop, ServiceStop, Request
  <2>5. ASSUME NEW table \in Tables, PickDate(table) PROVE OneAtATime'
    <3> DEFINE m == [command |-> "LOAD_DATA", table |-> table]
    <3>1. m \in Asked /\ m.command # "START"
      BY DEF Asked
    <3>2. toServer' = Append(toServer, m) /\ UNCHANGED <<vars, toPage, displayArray, pressed>>
      BY <2>5 DEF PickDate
    <3>. HIDE DEF m
    <3>. QED
      BY <2>1, <3>1, <3>2, OtherAsked
  <2>6. ASSUME NEW k \in 1..MaxClicks, PageTimer(k) PROVE OneAtATime'
    BY <2>1, <2>3, <2>6, OtherAsked DEF PageTimer, Request
  <2>7. CASE PageReceive
    BY <2>1, <2>7, PageHears
  <2>8. CASE ConnectionLost
    BY <1>3, <2>8 DEF ConnectionLost, Disconnect
  <2>9. CASE ServerReceive
    BY <2>1, <2>9, ServerTakes
  <2>10. CASE QueryAnswered
    BY <2>1, <2>10, QueryStep
  <2>11. ASSUME NEW c \in Children, ChildWrites(c) \/ ChildCloses(c) \/ ServerTimeout(c)
         PROVE  OneAtATime'
    BY <1>3, <2>1, <2>11, ChildStep
  <2>. QED
    BY <1>3, <2>2, <2>4, <2>5, <2>6, <2>7, <2>8, <2>9, <2>10, <2>11 DEF SystemNext
<1>4. ASSUME SystemNext PROVE OneTraceShown'
  <2>. SUFFICES ASSUME NEW i \in DOMAIN displayArray', NEW j \in DOMAIN displayArray', Alone'
                PROVE  \/ displayArray'[i].of = displayArray'[j].of
                       \/ NoChild \in {displayArray'[i].of, displayArray'[j].of}
    BY DEF OneTraceShown, Alone
  <2>1. CASE connected'
    <3>1. displayArray' \in Seq(Of(spawned'))
      BY <1>3, <1>4, <2>1 DEF OneAtATime, OnlyLastChild, Of
    <3>. QED
      BY <3>1, OneChildsRows
  <2>2. CASE ~connected'
    BY <1>2, <1>4, <2>2 DEF OneTraceInv, OneTraceShown, Alone
  <2>. QED
    BY <2>1, <2>2
<1>. QED
  BY <1>1, <1>2, <1>3, <1>4 DEF OneTraceInv

(* At first the page has only its links to hear of. *)
LEMMA InitOneTrace == SystemInit => OneTraceInv
<1> SUFFICES ASSUME SystemInit PROVE OneTraceInv
  OBVIOUS
<1>1. /\ toServer = <<>> /\ displayArray = <<>> /\ connected /\ pressed = "no"
      /\ Len(toPage) = 1 /\ toPage[1].command = "LINKS"
  BY DEF SystemInit, Init
<1>2. Open = {}
  BY DEF SystemInit, Init, Open
<1>3. \A p \in 1..Len(toPage) : p = 1
  BY <1>1
<1>4. \A p \in 1..Len(toServer) : FALSE
  BY <1>1
<1>5. displayArray \in Seq(Of(spawned)) /\ OneTraceShown
  BY <1>1 DEF OneTraceShown
<1>. QED
  BY <1>1, <1>2, <1>3, <1>4, <1>5
     DEF OneTraceInv, OneAtATime, StartOnItsWay, AllWasHeard, UnheardIsEmpty, OnlyLastChild, Quiet

(* Whatever is pressed and picked at the page, and in whatever order the     *)
(* server's answers come: it shows rows of two traces as one only if one of  *)
(* the rows was loaded from the database, a child was started before an      *)
(* earlier one had closed or wrote an error and so was forgotten, or Start   *)
(* was pressed again before the end of the first trace was heard.            *)
THEOREM OneTraceAtATime == SystemSpec => []OneTraceShown
<1>1. OneTraceInv => OneTraceShown
  BY DEF OneTraceInv
<1>2. IInv /\ TableInv /\ OneTraceInv /\ [SystemNext]_systemVars => OneTraceInv'
  BY NextOneTrace
<1>. QED
  BY InitOneTrace, SystemIInv, TableInvariance, <1>1, <1>2, PTL DEF SystemSpec
============================================================================
