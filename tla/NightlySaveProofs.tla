------------------------- MODULE NightlySaveProofs -------------------------
(***************************************************************************)
(* Theorems about the database of the web server, for every set of         *)
(* destinations, number of nights, of writes and of restarts: a            *)
(* destination is inserted once but for the two exceptions InsertedOnce    *)
(* names, and a night saves the destinations of its array in turn.         *)
(***************************************************************************)
EXTENDS NightlySave, SequenceTheorems, FiniteSetTheorems, TLAPS

Query ==
    [query : {"SELECT"}, of : Nights] \cup [query : {"INSERT dest"}, name : Names]
    \cup [query : {"INSERT save"}, name : Names \cup {NoName}, traced : Names \cup {NoName},
          of : Nights]
Row == [name : Names \cup {NoName}, traced : Names \cup {NoName}]
RowOf(q) == [name |-> q.name, traced |-> q.traced]

Selects(q) == q.query = "SELECT"
Asks(q) == q.query = "INSERT dest"
Saves(q, k) == q.query = "INSERT save" /\ q.of = k

SaveTypes ==
    /\ mtr_dest \in Seq(Names) /\ mtr_save \in [Nights -> Seq(Row)]
    /\ queries \in Seq(Query)
    /\ arrays \in [0..MaxNights -> Seq(Names)] /\ destinations \in 0..MaxNights
    /\ night \in 0..MaxNights
    /\ index \in [Nights -> Nat] /\ length \in [Nights -> Nat]
    /\ traced \in [Nights -> Names \cup {NoName}]
    /\ child \in [Nights -> {"none", "running", "signalled", "ended"}]
    /\ writes \in Nat /\ restarts \in Nat

----------------------------------------------------------------------------
(* The queue of queries *)

LEMMA QueryKinds ==
    ASSUME NEW q \in Query
    PROVE  /\ q.query \in {"SELECT", "INSERT dest", "INSERT save"}
           /\ q.query = "SELECT" => q.of \in Nights
           /\ q.query = "INSERT dest" => q.name \in Names
           /\ q.query = "INSERT save" => RowOf(q) \in Row /\ q.of \in Nights
BY DEF Query, Row, RowOf

LEMMA NightsAreNumbers == MaxNights \in Nat /\ Nights \subseteq 0..MaxNights
BY NightAssumption DEF Nights

LEMMA InitTypes == Init => SaveTypes
<1>. SUFFICES ASSUME Init PROVE SaveTypes
  OBVIOUS
<1>. USE NightAssumption, NightsAreNumbers
<1>1. mtr_dest \in Seq(Names)
  BY DEF Init
<1>2. /\ mtr_save \in [Nights -> Seq(Row)] /\ queries \in Seq(Query)
      /\ arrays \in [0..MaxNights -> Seq(Names)]
  BY DEF Init
<1>3. /\ destinations \in 0..MaxNights /\ night \in 0..MaxNights
      /\ index \in [Nights -> Nat] /\ length \in [Nights -> Nat]
      /\ traced \in [Nights -> Names \cup {NoName}]
      /\ child \in [Nights -> {"none", "running", "signalled", "ended"}]
      /\ writes \in Nat /\ restarts \in Nat
  BY DEF Init
<1>. QED
  BY <1>1, <1>2, <1>3 DEF SaveTypes

LEMMA JobTypes == SaveTypes /\ Job => SaveTypes'
<1>. SUFFICES ASSUME SaveTypes, Job PROVE SaveTypes'
  OBVIOUS
<1>1. night' \in 0..MaxNights /\ night' \in Nights
  BY NightsAreNumbers DEF Job, SaveTypes, Nights
<1>2. [query |-> "SELECT", of |-> night + 1] \in Query
  BY <1>1 DEF Job, Query
<1>3. queries' \in Seq(Query)
  BY <1>2 DEF Job, SaveTypes
<1>. QED
  BY <1>1, <1>3 DEF SaveTypes, Job, list, used

LEMMA SelectTypes ==
    ASSUME SaveTypes, NEW k \in Nights, SelectAnswered(k), queries' \in Seq(Query),
           UNCHANGED used
    PROVE  SaveTypes'
<1>1. k \in 0..MaxNights /\ Len(mtr_dest) \in Nat
  BY NightsAreNumbers DEF SaveTypes
<1>2. arrays' \in [0..MaxNights -> Seq(Names)] /\ destinations' \in 0..MaxNights
  BY <1>1 DEF SaveTypes, SelectAnswered
<1>3. index' \in [Nights -> Nat] /\ length' \in [Nights -> Nat]
      /\ traced' \in [Nights -> Names \cup {NoName}]
      /\ child' \in [Nights -> {"none", "running", "signalled", "ended"}]
  BY <1>1 DEF SaveTypes, SelectAnswered, CreateChild, NameAt
<1>. QED
  BY <1>2, <1>3 DEF SaveTypes, SelectAnswered, used

LEMMA AnsweredTypes == SaveTypes /\ Answered => SaveTypes'
<1>. SUFFICES ASSUME SaveTypes, Answered PROVE SaveTypes'
  OBVIOUS
<1> DEFINE q == Head(queries)
<1>0. queries \in Seq(Query) /\ queries # <<>>
  BY DEF Answered, SaveTypes
<1>1. q \in Query /\ queries' \in Seq(Query) /\ UNCHANGED used
  BY <1>0, HeadTailProperties DEF Answered
<1>2. CASE q.query = "SELECT" /\ SelectAnswered(q.of)
  BY <1>1, <1>2, QueryKinds, SelectTypes
<1>3. CASE /\ q.query = "INSERT dest" /\ mtr_dest' = Append(mtr_dest, q.name)
           /\ UNCHANGED <<mtr_save, list, chain, history>>
  <2>0. q.name \in Names /\ mtr_dest \in Seq(Names)
    BY <1>1, <1>3, QueryKinds DEF SaveTypes
  <2>1. mtr_dest' \in Seq(Names)
    BY <1>3, <2>0, AppendProperties
  <2>. QED
    BY <1>1, <1>3, <2>1 DEF SaveTypes, list, chain, used
<1>4. CASE /\ q.query = "INSERT save"
           /\ mtr_save' = [mtr_save EXCEPT ![q.of] = Append(@, RowOf(q))]
           /\ UNCHANGED <<mtr_dest, list, chain, history>>
  <2>0. /\ RowOf(q) \in Row /\ q.of \in Nights
        /\ mtr_save \in [Nights -> Seq(Row)]
    BY <1>1, <1>4, QueryKinds DEF SaveTypes
  <2>2. Append(mtr_save[q.of], RowOf(q)) \in Seq(Row)
    BY <2>0, AppendProperties
  <2>1. mtr_save' \in [Nights -> Seq(Row)]
    BY <1>4, <2>0, <2>2
  <2>. QED
    BY <1>1, <1>4, <2>1 DEF SaveTypes, list, chain, used
<1>. QED
  BY <1>2, <1>3, <1>4 DEF Answered, RowOf

LEMMA RestartTypes == SaveTypes /\ Restart => SaveTypes'
<1>. SUFFICES ASSUME SaveTypes, Restart PROVE SaveTypes'
  OBVIOUS
<1>1. mtr_dest' \in Seq(Names)
  <2>1. CASE UNCHANGED mtr_dest
    BY <2>1 DEF SaveTypes
  <2>2. CASE /\ queries # <<>> /\ Head(queries).query = "INSERT dest"
             /\ mtr_dest' = Append(mtr_dest, Head(queries).name)
    <3>0. queries \in Seq(Query) /\ mtr_dest \in Seq(Names)
      BY DEF SaveTypes
    <3>1. Head(queries) \in Query
      BY <2>2, <3>0, HeadTailProperties
    <3>2. Head(queries).name \in Names
      BY <2>2, <3>1, QueryKinds
    <3>. QED
      BY <2>2, <3>0, <3>2, AppendProperties
  <2>. QED
    BY <2>1, <2>2 DEF Restart
<1>2. /\ queries' \in Seq(Query) /\ destinations' \in 0..MaxNights
      /\ arrays' \in [0..MaxNights -> Seq(Names)]
  <2>1. <<>> \in Seq(Query) /\ <<>> \in Seq(Names)
    OBVIOUS
  <2>2. queries' = <<>> /\ destinations' = 0 /\ arrays' = [k \in 0..MaxNights |-> <<>>]
    BY DEF Restart
  <2>. QED
    BY <2>1, <2>2, NightsAreNumbers
<1>3. child' \in [Nights -> {"none", "running", "signalled", "ended"}] /\ restarts' \in Nat
  <2>1. /\ child' = [k \in Nights |-> IF k <= night THEN "ended" ELSE "none"]
        /\ restarts' = restarts + 1
    BY DEF Restart
  <2>. QED
    BY <2>1 DEF SaveTypes
<1>. QED
  BY <1>1, <1>2, <1>3 DEF Restart, SaveTypes

LEMMA CloseTypes == ASSUME SaveTypes, NEW k \in Nights, Close(k) PROVE SaveTypes'
<1>1. arrays[k] \in Seq(Names) /\ k \in 0..MaxNights
  BY NightsAreNumbers DEF SaveTypes
<1>2. SavedName(k) \in Names \cup {NoName}
  BY <1>1 DEF SavedName, NameAt
<1>3. [query |-> "INSERT save", name |-> SavedName(k), traced |-> traced[k],
        of |-> k] \in Query
  BY <1>2 DEF Query, SaveTypes
<1>4. queries' \in Seq(Query)
  <2>1. queries \in Seq(Query)
    BY DEF SaveTypes
  <2>. QED
    BY <1>3, <2>1, AppendProperties DEF Close
<1>5. /\ index' \in [Nights -> Nat] /\ length' \in [Nights -> Nat]
      /\ traced' \in [Nights -> Names \cup {NoName}]
      /\ child' \in [Nights -> {"none", "running", "signalled", "ended"}]
  <2>1. /\ index \in [Nights -> Nat] /\ length \in [Nights -> Nat] /\ Len(arrays[k]) \in Nat
        /\ traced \in [Nights -> Names \cup {NoName}]
        /\ NameAt(arrays[k], index[k] + 1) \in Names \cup {NoName}
        /\ child \in [Nights -> {"none", "running", "signalled", "ended"}]
    BY <1>1 DEF SaveTypes, NameAt
  <2>2. CASE CreateChild(k, index[k] + 1, arrays[k])
    BY <2>1, <2>2 DEF CreateChild
  <2>3. CASE /\ child' = [child EXCEPT ![k] = "ended"] /\ UNCHANGED <<length, traced>>
             /\ index' = [index EXCEPT ![k] = @ + 1]
    BY <2>1, <2>3
  <2>. QED
    BY <2>2, <2>3 DEF Close
<1>. QED
  BY <1>4, <1>5 DEF Close, SaveTypes, list, used

LEMMA WriteTypes == ASSUME SaveTypes, NEW name \in Names, StdoutData(name) PROVE SaveTypes'
<1>1. [query |-> "INSERT dest", name |-> name] \in Query
  BY DEF Query
<1>2. /\ queries \in Seq(Query) /\ destinations \in 0..MaxNights
      /\ arrays \in [0..MaxNights -> Seq(Names)] /\ writes \in Nat
  BY DEF SaveTypes
<1>3. Append(queries, [query |-> "INSERT dest", name |-> name]) \in Seq(Query)
  BY <1>1, <1>2, AppendProperties
<1>4. Append(arrays[destinations], name) \in Seq(Names)
  BY <1>2, AppendProperties
<1>5. Push(name) \in [0..MaxNights -> Seq(Names)]
  BY <1>2, <1>4 DEF Push
<1>6. queries' \in Seq(Query) /\ arrays' \in [0..MaxNights -> Seq(Names)]
  BY <1>2, <1>3, <1>5 DEF StdoutData
<1>7. writes' = writes + 1
  BY DEF StdoutData
<1>8. UNCHANGED <<mtr_dest, mtr_save, destinations, night, index, length, traced, child,
                  restarts>>
  BY DEF StdoutData, chain
<1>. QED
  BY <1>2, <1>6, <1>7, <1>8 DEF SaveTypes

LEMMA OtherTypes ==
    ASSUME SaveTypes,
           \/ \E k \in Nights : StderrData(k)
           \/ \E k \in Nights, i \in 1..MaxWrites + 2 : Timeout(k, i)
           \/ UNCHANGED vars
    PROVE  SaveTypes'
<1>1. UNCHANGED <<mtr_dest, mtr_save, queries, arrays, destinations, night, index, length,
                  traced, writes, restarts>>
  BY DEF StderrData, Timeout, vars, database, list, chain, used
<1>2. child' \in [Nights -> {"none", "running", "signalled", "ended"}]
  BY DEF StderrData, Timeout, vars, chain, SaveTypes
<1>. QED
  BY <1>1, <1>2 DEF SaveTypes

LEMMA NextTypes == SaveTypes /\ [Next]_vars => SaveTypes'
BY JobTypes, AnsweredTypes, RestartTypes, CloseTypes, WriteTypes, OtherTypes DEF Next

(* What follows when a query is added, and when the first is answered.       *)
LEMMA QueryAdded ==
    ASSUME queries \in Seq(Query), NEW e \in Query, queries' = Append(queries, e)
    PROVE  \A p \in DOMAIN queries' :
             \/ p \in DOMAIN queries /\ queries'[p] = queries[p]
             \/ p = Len(queries) + 1 /\ queries'[p] = e
<1>1. DOMAIN queries' = 1..Len(queries) + 1 /\ DOMAIN queries = 1..Len(queries)
  BY AppendProperties, LenProperties
<1>. QED
  BY <1>1, AppendProperties

LEMMA QueryTaken ==
    ASSUME queries \in Seq(Query), queries # <<>>, queries' = Tail(queries)
    PROVE  /\ 1 \in DOMAIN queries /\ Head(queries) = queries[1] /\ queries[1] \in Query
           /\ \A p \in DOMAIN queries' :
                p \in Nat \ {0} /\ p + 1 \in DOMAIN queries /\ queries'[p] = queries[p + 1]
<1>1. Len(queries) \in Nat \ {0} /\ DOMAIN queries = 1..Len(queries)
  BY EmptySeq, LenProperties
<1>2. /\ queries' \in Seq(Query) /\ Len(queries') = Len(queries) - 1
      /\ \A i \in 1..Len(queries') : queries'[i] = queries[i + 1]
  BY HeadTailProperties
<1>3. DOMAIN queries' = 1..Len(queries')
  BY <1>2, LenProperties
<1>. QED
  BY <1>1, <1>2, <1>3, ElementOfSeq

----------------------------------------------------------------------------
(* Destinations *)

(* Those the server may insert again, and those it will not.                 *)
Excused(name) == name \in inherited \cup raced
Known(name) == name \in ToSet(arrays[destinations]) \/ Excused(name)

(* The array has what the table has and what it will have, ...               *)
TableKnown == \A i \in DOMAIN mtr_dest : Known(mtr_dest[i])
AskedKnown == \A p \in DOMAIN queries : Asks(queries[p]) => Known(queries[p].name)

(* ... as far as the array a SELECT will bring does: what comes after it is  *)
(* not in the table by then.                                                 *)
AskedBehindSelect ==
    \A s, p \in DOMAIN queries :
        Selects(queries[s]) /\ Asks(queries[p]) /\ s < p => queries[p].name \in raced

NotAskedAgain ==
    /\ \A p \in DOMAIN queries, i \in DOMAIN mtr_dest :
           Asks(queries[p]) /\ queries[p].name = mtr_dest[i] => Excused(mtr_dest[i])
    /\ \A p, q \in DOMAIN queries :
           Asks(queries[p]) /\ Asks(queries[q]) /\ queries[p].name = queries[q].name =>
               p = q \/ Excused(queries[p].name)

OnceInv ==
    TableKnown /\ AskedKnown /\ AskedBehindSelect /\ NotAskedAgain /\ InsertedOnce

LEMMA InitOnce == Init => OnceInv
<1>. SUFFICES ASSUME Init PROVE OnceInv
  OBVIOUS
<1>1. DOMAIN queries = {}
  BY DEF Init
<1>2. \A i \in DOMAIN mtr_dest : mtr_dest[i] \in inherited
  BY DEF Init, ToSet
<1>. QED
  BY <1>1, <1>2 DEF OnceInv, TableKnown, AskedKnown, AskedBehindSelect, NotAskedAgain,
                    InsertedOnce, Known, Excused

(* Nothing is lost when the table, the array in use and the histories stay,  *)
(* and no destination is asked for.                                          *)
LEMMA OtherQueryOnce ==
    ASSUME SaveTypes, OnceInv, NEW e \in Query, ~Asks(e),
           queries' = queries \/ queries' = Append(queries, e),
           UNCHANGED <<mtr_dest, arrays, destinations, inherited, raced>>
    PROVE  OnceInv'
<1>1. queries \in Seq(Query)
  BY DEF SaveTypes
<1>2. \A p \in DOMAIN queries' :
         \/ p \in DOMAIN queries /\ queries'[p] = queries[p]
         \/ p = Len(queries) + 1 /\ queries'[p] = e
  BY <1>1, QueryAdded
<1>3. \A p \in DOMAIN queries : p \in 1..Len(queries)
  BY <1>1, LenProperties
<1>4. \A p \in DOMAIN queries' :
         Asks(queries'[p]) => p \in DOMAIN queries /\ queries'[p] = queries[p]
  BY <1>2
<1>5. AskedBehindSelect'
  <2>. SUFFICES ASSUME NEW s \in DOMAIN queries', NEW p \in DOMAIN queries',
                       Selects(queries'[s]), Asks(queries'[p]), s < p
                PROVE  queries'[p].name \in raced
    BY DEF AskedBehindSelect, Selects, Asks
  <2>1. p \in DOMAIN queries /\ queries'[p] = queries[p]
    BY <1>4
  <2>2. s \in DOMAIN queries /\ queries'[s] = queries[s]
    BY <1>1, <1>2, <1>3, <2>1, LenProperties
  <2>. QED
    BY <2>1, <2>2 DEF OnceInv, AskedBehindSelect
<1>6. TableKnown' /\ InsertedOnce'
  BY DEF OnceInv, TableKnown, InsertedOnce, Known, Excused
<1>7. AskedKnown' /\ NotAskedAgain'
  BY <1>4 DEF OnceInv, AskedKnown, NotAskedAgain, Known, Excused, Asks
<1>. QED
  BY <1>5, <1>6, <1>7 DEF OnceInv

(* A session asks for a destination its array does not have.                 *)
LEMMA WriteOnce ==
    ASSUME SaveTypes, OnceInv, NEW name \in Names, StdoutData(name)
    PROVE  OnceInv'
<1>1. UNCHANGED <<mtr_dest, destinations, inherited>>
  BY DEF StdoutData
<1>2. CASE UNCHANGED <<queries, arrays, raced>>
  BY <1>1, <1>2
     DEF OnceInv, TableKnown, AskedKnown, AskedBehindSelect, NotAskedAgain, InsertedOnce,
         Known, Excused, Selects, Asks
<1> DEFINE e == [query |-> "INSERT dest", name |-> name]
<1>3. CASE /\ name \notin ToSet(arrays[destinations])
           /\ queries' = Append(queries, e) /\ arrays' = Push(name)
           /\ raced' = IF SelectPending THEN raced \cup {name} ELSE raced
  <2>1. /\ queries \in Seq(Query) /\ arrays \in [0..MaxNights -> Seq(Names)]
        /\ destinations \in 0..MaxNights
    BY DEF SaveTypes
  <2>2. e \in Query /\ e.query = "INSERT dest" /\ e.name = name
    BY DEF Query
  <2> HIDE DEF e
  <2>3. \A p \in DOMAIN queries' :
           \/ p \in DOMAIN queries /\ queries'[p] = queries[p]
           \/ p = Len(queries) + 1 /\ queries'[p] = e
    BY <1>3, <2>1, <2>2, QueryAdded
  <2>4. raced \subseteq raced'
    BY <1>3
  <2>5. ToSet(arrays'[destinations]) = ToSet(arrays[destinations]) \cup {name}
    <3>1. arrays'[destinations] = Append(arrays[destinations], name)
      BY <1>3, <2>1 DEF Push
    <3>2. arrays[destinations] \in Seq(Names)
      BY <2>1
    <3>. QED
      BY <3>1, <3>2, AppendProperties, LenProperties DEF ToSet
  <2>6. \A n : Known(n) => Known(n)'
    BY <1>1, <2>4, <2>5 DEF Known, Excused
  <2>7. \A n : Excused(n) => Excused(n)'
    BY <1>1, <2>4 DEF Excused
  <2>8. Known(name)'
    BY <1>1, <2>5 DEF Known
  <2>9. TableKnown'
    BY <1>1, <2>6 DEF OnceInv, TableKnown
  <2>10. AskedKnown'
    BY <2>2, <2>3, <2>6, <2>8 DEF OnceInv, AskedKnown, Asks
  <2>11. AskedBehindSelect'
    <3>. SUFFICES ASSUME NEW s \in DOMAIN queries', NEW p \in DOMAIN queries',
                         Selects(queries'[s]), Asks(queries'[p]), s < p
                  PROVE  queries'[p].name \in raced'
      BY DEF AskedBehindSelect, Selects, Asks
    <3>1. s \in DOMAIN queries /\ queries'[s] = queries[s]
      BY <2>2, <2>3 DEF Selects
    <3>2. CASE p \in DOMAIN queries /\ queries'[p] = queries[p]
      BY <2>4, <3>1, <3>2 DEF OnceInv, AskedBehindSelect
    <3>3. CASE queries'[p] = e
      <4>1. SelectPending
        BY <3>1 DEF SelectPending, Selects
      <4>. QED
        BY <1>3, <2>2, <3>3, <4>1
    <3>. QED
      BY <2>3, <3>2, <3>3
  <2>12. ASSUME NEW p \in DOMAIN queries, Asks(queries[p]), queries[p].name = name
         PROVE  Excused(name)
    BY <1>3, <2>12 DEF OnceInv, AskedKnown, Known
  <2>13. ASSUME NEW i \in DOMAIN mtr_dest, mtr_dest[i] = name
         PROVE  Excused(name)
    BY <1>3, <2>13 DEF OnceInv, TableKnown, Known
  <2>14. NotAskedAgain'
    <3>1. ASSUME NEW p \in DOMAIN queries', NEW i \in DOMAIN mtr_dest, Asks(queries'[p]),
                 queries'[p].name = mtr_dest[i]
          PROVE  Excused(mtr_dest[i])'
      BY <1>1, <2>2, <2>3, <2>7, <2>13, <3>1 DEF OnceInv, NotAskedAgain
    <3>2. ASSUME NEW p \in DOMAIN queries', NEW q \in DOMAIN queries', Asks(queries'[p]),
                 Asks(queries'[q]), queries'[p].name = queries'[q].name, p # q
          PROVE  Excused(queries[p].name)'
      <4>1. CASE queries'[p] = queries[p] /\ queries'[q] = queries[q]
                 /\ p \in DOMAIN queries /\ q \in DOMAIN queries
        BY <2>7, <3>2, <4>1 DEF OnceInv, NotAskedAgain
      <4>2. CASE queries'[p] = e /\ queries'[q] = queries[q] /\ q \in DOMAIN queries
        BY <2>2, <2>7, <2>12, <3>2, <4>2
      <4>3. CASE queries'[q] = e /\ queries'[p] = queries[p] /\ p \in DOMAIN queries
        BY <2>2, <2>7, <2>12, <3>2, <4>3
      <4>. QED
        BY <2>3, <3>2, <4>1, <4>2, <4>3
    <3>. QED
      BY <1>1, <3>1, <3>2 DEF NotAskedAgain, Asks
  <2>15. InsertedOnce'
    BY <1>1, <2>4 DEF OnceInv, InsertedOnce
  <2>. QED
    BY <2>9, <2>10, <2>11, <2>14, <2>15 DEF OnceInv
<1>. QED
  BY <1>2, <1>3 DEF StdoutData

(* The first query is answered. *)
LEMMA AnsweredOnce == SaveTypes /\ OnceInv /\ Answered => OnceInv'
<1>. SUFFICES ASSUME SaveTypes, OnceInv, Answered PROVE OnceInv'
  OBVIOUS
<1>0. queries \in Seq(Query) /\ queries # <<>> /\ queries' = Tail(queries)
  BY DEF Answered, SaveTypes
<1>1. /\ 1 \in DOMAIN queries /\ Head(queries) = queries[1] /\ queries[1] \in Query
      /\ \A p \in DOMAIN queries' :
           p \in Nat \ {0} /\ p + 1 \in DOMAIN queries /\ queries'[p] = queries[p + 1]
  BY <1>0, QueryTaken
<1>2. \A n : Excused(n)' <=> Excused(n)
  BY DEF Answered, SelectAnswered, history, Excused
<1>3. AskedBehindSelect'
  <2>. SUFFICES ASSUME NEW s \in DOMAIN queries', NEW p \in DOMAIN queries',
                       Selects(queries'[s]), Asks(queries'[p]), s < p
                PROVE  queries'[p].name \in raced'
    BY DEF AskedBehindSelect, Selects, Asks
  <2>1. UNCHANGED raced
    BY DEF Answered, SelectAnswered, history
  <2>2. /\ s + 1 \in DOMAIN queries /\ queries'[s] = queries[s + 1]
        /\ p + 1 \in DOMAIN queries /\ queries'[p] = queries[p + 1] /\ s + 1 < p + 1
    BY <1>1
  <2>. QED
    BY <2>1, <2>2 DEF OnceInv, AskedBehindSelect
<1>4. ASSUME NEW p \in DOMAIN queries', NEW q \in DOMAIN queries', Asks(queries'[p]),
             Asks(queries'[q]), queries'[p].name = queries'[q].name, p # q
      PROVE  Excused(queries[p].name)'
  <2>1. p + 1 # q + 1
    BY <1>1, <1>4
  <2>2. Excused(queries[p + 1].name)
    BY <1>1, <1>4, <2>1 DEF OnceInv, NotAskedAgain
  <2>. QED
    BY <1>1, <1>2, <2>2 DEF Excused
<1>5. CASE UNCHANGED <<mtr_dest, arrays, destinations>>
  <2>1. TableKnown' /\ AskedKnown' /\ InsertedOnce'
    BY <1>1, <1>2, <1>5 DEF OnceInv, TableKnown, AskedKnown, InsertedOnce, Known, Excused, Asks
  <2>2. NotAskedAgain'
    BY <1>1, <1>2, <1>4, <1>5 DEF OnceInv, NotAskedAgain, Asks
  <2>. QED
    BY <1>3, <2>1, <2>2 DEF OnceInv
<1>6. CASE /\ Asks(queries[1]) /\ mtr_dest' = Append(mtr_dest, queries[1].name)
           /\ UNCHANGED <<arrays, destinations>>
  <2> DEFINE name == queries[1].name
  <2>1. mtr_dest \in Seq(Names) /\ name \in Names
    BY <1>1, <1>6, QueryKinds DEF SaveTypes, Asks
  <2>2. \A i \in DOMAIN mtr_dest' :
           \/ i \in DOMAIN mtr_dest /\ mtr_dest'[i] = mtr_dest[i]
           \/ i = Len(mtr_dest) + 1 /\ mtr_dest'[i] = name
    <3>1. DOMAIN mtr_dest' = 1..Len(mtr_dest) + 1 /\ DOMAIN mtr_dest = 1..Len(mtr_dest)
      BY <1>6, <2>1, AppendProperties, LenProperties
    <3>. QED
      BY <1>6, <2>1, <3>1, AppendProperties
  <2>3. Known(name) /\ (\A i \in DOMAIN mtr_dest : mtr_dest[i] = name => Excused(name))
    BY <1>1, <1>6 DEF OnceInv, AskedKnown, NotAskedAgain
  <2>4. \A p \in DOMAIN queries' : Asks(queries'[p]) /\ queries'[p].name = name => Excused(name)
    <3>. SUFFICES ASSUME NEW p \in DOMAIN queries', Asks(queries'[p]), queries'[p].name = name
                  PROVE  Excused(name)
      OBVIOUS
    <3>1. p + 1 # 1 /\ p + 1 \in DOMAIN queries
      BY <1>1
    <3>. QED
      BY <1>1, <1>6, <3>1 DEF OnceInv, NotAskedAgain
  <2> HIDE DEF name
  <2>5. \A n : Known(n)' <=> Known(n)
    BY <1>2, <1>6 DEF Known
  <2>6. TableKnown'
    BY <2>2, <2>3, <2>5 DEF OnceInv, TableKnown
  <2>7. AskedKnown'
    BY <1>1, <2>5 DEF OnceInv, AskedKnown, Asks
  <2>8. InsertedOnce'
    <3>. SUFFICES ASSUME NEW i \in DOMAIN mtr_dest', NEW j \in DOMAIN mtr_dest',
                         mtr_dest'[i] = mtr_dest'[j], i # j
                  PROVE  Excused(mtr_dest[i])'
      BY DEF InsertedOnce, Excused
    <3>1. CASE i \in DOMAIN mtr_dest /\ mtr_dest'[i] = mtr_dest[i]
               /\ j \in DOMAIN mtr_dest /\ mtr_dest'[j] = mtr_dest[j]
      <4>1. Excused(mtr_dest[i])
        BY <3>1 DEF OnceInv, InsertedOnce, Excused
      <4>. QED
        BY <1>2, <3>1, <4>1 DEF Excused
    <3>2. CASE mtr_dest'[i] = name
      <4>1. Excused(name)
        BY <2>2, <2>3, <3>2
      <4>. QED
        BY <1>2, <3>2, <4>1 DEF Excused
    <3>3. CASE mtr_dest'[j] = name
      <4>1. Excused(name)
        BY <2>2, <2>3, <3>3
      <4>. QED
        BY <1>2, <3>3, <4>1 DEF Excused
    <3>. QED
      BY <2>2, <3>1, <3>2, <3>3
  <2>9. NotAskedAgain'
    <3>1. ASSUME NEW p \in DOMAIN queries', NEW i \in DOMAIN mtr_dest', Asks(queries'[p]),
                 queries'[p].name = mtr_dest'[i]
          PROVE  Excused(mtr_dest[i])'
      <4>1. CASE i \in DOMAIN mtr_dest /\ mtr_dest'[i] = mtr_dest[i]
        <5>1. Excused(mtr_dest[i])
          BY <1>1, <3>1, <4>1 DEF OnceInv, NotAskedAgain
        <5>. QED
          BY <1>2, <4>1, <5>1 DEF Excused
      <4>2. CASE mtr_dest'[i] = name
        <5>1. Excused(name)
          BY <2>4, <3>1, <4>2
        <5>. QED
          BY <1>2, <4>2, <5>1 DEF Excused
      <4>. QED
        BY <2>2, <4>1, <4>2
    <3>. QED
      BY <1>4, <3>1 DEF NotAskedAgain, Asks
  <2>. QED
    BY <1>3, <2>6, <2>7, <2>8, <2>9 DEF OnceInv
<1>7. CASE /\ Selects(queries[1]) /\ UNCHANGED mtr_dest
           /\ arrays'[destinations'] = mtr_dest
  <2>1. TableKnown'
    BY <1>7 DEF TableKnown, Known, ToSet
  <2>2. AskedKnown'
    <3>. SUFFICES ASSUME NEW p \in DOMAIN queries', Asks(queries'[p])
                  PROVE  Excused(queries[p].name)'
      BY DEF AskedKnown, Known, Asks
    <3>1. p + 1 \in DOMAIN queries /\ 1 < p + 1
      BY <1>1
    <3>2. queries'[p].name \in raced
      BY <1>1, <1>7, <3>1 DEF OnceInv, AskedBehindSelect
    <3>. QED
      BY <1>2, <3>2 DEF Excused
  <2>3. InsertedOnce'
    BY <1>2, <1>7 DEF OnceInv, InsertedOnce, Excused
  <2>4. NotAskedAgain'
    BY <1>1, <1>2, <1>4, <1>7 DEF OnceInv, NotAskedAgain, Asks
  <2>. QED
    BY <1>3, <2>1, <2>2, <2>3, <2>4 DEF OnceInv
<1>8. CASE queries[1].query = "SELECT" /\ SelectAnswered(queries[1].of)
  <2>1. queries[1].of \in 0..MaxNights
    BY <1>1, <1>8, QueryKinds, NightsAreNumbers
  <2>2. arrays'[destinations'] = mtr_dest /\ UNCHANGED mtr_dest
    BY <1>8, <2>1 DEF SelectAnswered, SaveTypes
  <2>. QED
    BY <1>7, <1>8, <2>2 DEF Selects
<1>. QED
  BY <1>1, <1>5, <1>6, <1>8 DEF Answered, list, Asks

(* A server that is started again has all of the table before it. *)
LEMMA RestartOnce == Restart => OnceInv'
<1>. SUFFICES ASSUME Restart PROVE OnceInv'
  OBVIOUS
<1>1. DOMAIN queries' = {}
  <2>1. queries' = <<>>
    BY DEF Restart
  <2>. QED
    BY <2>1
<1>2. \A i \in DOMAIN mtr_dest' : Excused(mtr_dest[i])'
  BY DEF Restart, Excused, ToSet
<1>. QED
  BY <1>1, <1>2 DEF OnceInv, TableKnown, AskedKnown, AskedBehindSelect, NotAskedAgain,
                    InsertedOnce, Known, Excused

LEMMA NextOnce == SaveTypes /\ OnceInv /\ [Next]_vars => OnceInv'
<1>. SUFFICES ASSUME SaveTypes, OnceInv, [Next]_vars PROVE OnceInv'
  OBVIOUS
<1>1. CASE Job
  <2>0. night + 1 \in Nights
    BY <1>1, NightsAreNumbers DEF Job, SaveTypes, Nights
  <2>1. [query |-> "SELECT", of |-> night + 1] \in Query
    BY <2>0 DEF Query
  <2>. QED
    BY <1>1, <2>1, OtherQueryOnce DEF Job, list, history, Asks
<1>2. ASSUME NEW k \in Nights, Close(k) PROVE OnceInv'
  <2>1. SavedName(k) \in Names \cup {NoName}
    BY NightsAreNumbers DEF SavedName, NameAt, SaveTypes
  <2>3. traced[k] \in Names \cup {NoName}
    BY DEF SaveTypes
  <2>2. [query |-> "INSERT save", name |-> SavedName(k), traced |-> traced[k],
        of |-> k] \in Query
    BY <2>1, <2>3 DEF Query
  <2>. QED
    BY <1>2, <2>2, OtherQueryOnce DEF Close, list, history, Asks
<1>3. CASE UNCHANGED <<mtr_dest, queries, arrays, destinations, inherited, raced>>
  BY <1>3
     DEF OnceInv, TableKnown, AskedKnown, AskedBehindSelect, NotAskedAgain, InsertedOnce,
         Known, Excused, Selects, Asks
<1>4. ASSUME NEW k \in Nights, StderrData(k) PROVE OnceInv'
  BY <1>3, <1>4 DEF StderrData, database, list
<1>5. ASSUME NEW k \in Nights, NEW i \in 1..MaxWrites + 2, Timeout(k, i) PROVE OnceInv'
  BY <1>3, <1>5 DEF Timeout, database, list, history
<1>6. CASE UNCHANGED vars
  BY <1>3, <1>6 DEF vars, database, list, history
<1>. QED
  BY <1>1, <1>2, <1>4, <1>5, <1>6, AnsweredOnce, RestartOnce, WriteOnce DEF Next

(* A destination is inserted into the table once, however many sessions      *)
(* write of it at a time, unless the table had it before the server was      *)
(* started or a night's SELECT was under way (stdout's handler).             *)
THEOREM DestinationsOnce == Spec => []InsertedOnce
<1>1. OnceInv => InsertedOnce
  BY DEF OnceInv
<1>. QED
  BY InitTypes, NextTypes, InitOnce, NextOnce, <1>1, PTL DEF Spec

----------------------------------------------------------------------------
(* Nights *)

(* A child that runs traces the destination at its place in its night's      *)
(* array, which only grows (of an empty array, nothing).                     *)
ChildHasPlace ==
    \A k \in Nights : Open(k) =>
        /\ index[k] >= 1 /\ length[k] <= Len(arrays[k])
        /\ \/ index[k] <= length[k] /\ traced[k] = arrays[k][index[k]]
           \/ index[k] = 1 /\ length[k] = 0 /\ traced[k] = NoName

(* The timer's callback signals a child that has not closed. *)
ChildKnown ==
    process \in [Nights -> BOOLEAN] /\ \A k \in Nights : process[k] => Open(k)

(* A night's chain starts when its one SELECT is answered.                   *)
ChainAfterSelect ==
    /\ \A s \in DOMAIN queries : Selects(queries[s]) =>
           /\ queries[s].of <= night /\ index[queries[s].of] = 0
           /\ \A t \in DOMAIN queries :
                 Selects(queries[t]) /\ queries[t].of = queries[s].of => s = t
    /\ \A k \in Nights : k > night => index[k] = 0 /\ child[k] = "none"

(* What is saved in the i-th turn, and the turn of a query.                  *)
InTurn(k, i, row) ==
    \/ i \in DOMAIN arrays[k] /\ row = [name |-> arrays[k][i], traced |-> arrays[k][i]]
    \/ i = 1 /\ length[k] = 0 /\ row.traced = NoName
UpTo(k, p) == {i \in PendingBy(k) : i <= p}
Turn(k, p) == Len(mtr_save[k]) + Cardinality(UpTo(k, p))

Saving(k) ==
    /\ Len(mtr_save[k]) + Cardinality(PendingBy(k)) = (IF index[k] = 0 THEN 0 ELSE index[k] - 1)
    /\ \A i \in DOMAIN mtr_save[k] : InTurn(k, i, mtr_save[k][i])
    /\ \A p \in PendingBy(k) : InTurn(k, Turn(k, p), RowOf(queries[p]))

TurnInv ==
    /\ ChildHasPlace /\ ChildKnown /\ ChainAfterSelect
    /\ \A k \in Nights : restarts > 0 \/ Saving(k)

LEMMA TurnIsSaved == TurnInv => SavedInTurn
BY DEF TurnInv, Saving, SavedInTurn, InTurn, NameAt

(* As many places, each one earlier. *)
LEMMA ShiftedCount ==
    ASSUME NEW S \in SUBSET Int, IsFiniteSet(S), NEW T \in SUBSET Int,
           \A i \in Int : i \in T <=> i + 1 \in S
    PROVE  IsFiniteSet(T) /\ Cardinality(T) = Cardinality(S)
<1> DEFINE f == [i \in S |-> i - 1]
<1>1. \A i \in S : i - 1 \in T
  OBVIOUS
<1>2. f \in [S -> T]
  BY <1>1
<1>3. \A i, j \in S : f[i] = f[j] => i = j
  OBVIOUS
<1>4. \A t \in T : \E i \in S : f[i] = t
  <2>. SUFFICES ASSUME NEW t \in T PROVE \E i \in S : f[i] = t
    OBVIOUS
  <2>1. t + 1 \in S /\ f[t + 1] = t
    OBVIOUS
  <2>. QED
    BY <2>1
<1>. HIDE DEF f
<1>5. f \in Bijection(S, T)
  BY <1>2, <1>3, <1>4 DEF Bijection, Injection, IsInjective, Surjection
<1>. QED
  BY <1>5, FS_Bijection DEF ExistsBijection

LEMMA PendingPlaces ==
    ASSUME NEW k \in Nights
    PROVE  /\ \A i : i \in PendingBy(k) <=> i \in DOMAIN queries /\ Saves(queries[i], k)
           /\ \A i : i \in PendingBy(k)' <=> i \in DOMAIN queries' /\ Saves(queries'[i], k)
BY Zenon DEF PendingBy, Saves

LEMMA PendingIsFinite ==
    ASSUME SaveTypes, NEW k \in Nights
    PROVE  /\ PendingBy(k) \in SUBSET (1..Len(queries)) /\ Len(queries) \in Nat
           /\ IsFiniteSet(PendingBy(k)) /\ Cardinality(PendingBy(k)) \in Nat
           /\ \A p : IsFiniteSet(UpTo(k, p)) /\ Cardinality(UpTo(k, p)) \in Nat
<1>1. PendingBy(k) \in SUBSET (1..Len(queries)) /\ Len(queries) \in Nat
  BY LenProperties DEF SaveTypes, PendingBy
<1>2. IsFiniteSet(PendingBy(k))
  <2>1. IsFiniteSet(1..Len(queries))
    BY <1>1, FS_Interval
  <2>. QED
    BY <1>1, <2>1, FS_Subset
<1>3. \A p : UpTo(k, p) \in SUBSET PendingBy(k)
  BY DEF UpTo
<1>. QED
  BY <1>1, <1>2, <1>3, FS_Subset, FS_CardinalityType

(* The places of what a night has still to save, when another query comes.   *)
LEMMA AddedPending ==
    ASSUME SaveTypes, NEW e \in Query, queries' = Append(queries, e), NEW k \in Nights
    PROVE  /\ PendingBy(k)' = PendingBy(k) \cup (IF Saves(e, k) THEN {Len(queries) + 1} ELSE {})
           /\ \A p \in PendingBy(k) : queries'[p] = queries[p] /\ UpTo(k, p)' = UpTo(k, p)
           /\ queries'[Len(queries) + 1] = e
<1>1. queries \in Seq(Query)
  BY DEF SaveTypes
<1>2. /\ DOMAIN queries' = 1..Len(queries) + 1 /\ DOMAIN queries = 1..Len(queries)
      /\ Len(queries) \in Nat
  BY <1>1, AppendProperties, LenProperties
<1>3. /\ queries'[Len(queries) + 1] = e
      /\ \A p \in 1..Len(queries) : queries'[p] = queries[p]
  BY <1>1, AppendProperties
<1>4. PendingBy(k)' = PendingBy(k) \cup (IF Saves(e, k) THEN {Len(queries) + 1} ELSE {})
  <2>1. \A i : i \in PendingBy(k)' <=>
               i \in PendingBy(k) \/ (i = Len(queries) + 1 /\ Saves(e, k))
    BY <1>2, <1>3, PendingPlaces
  <2>. QED
    BY <2>1
<1>5. ASSUME NEW p \in PendingBy(k) PROVE UpTo(k, p)' = UpTo(k, p)
  <2>1. p \in 1..Len(queries)
    BY <1>2 DEF PendingBy
  <2>. QED
    BY <1>2, <1>4, <2>1 DEF UpTo
<1>. QED
  BY <1>2, <1>3, <1>4, <1>5 DEF PendingBy

(* The same when the first query is answered. *)
LEMMA TakenPending ==
    ASSUME SaveTypes, queries # <<>>, queries' = Tail(queries), NEW k \in Nights
    PROVE  /\ \A p \in PendingBy(k)' : /\ p \in Nat /\ p + 1 \in PendingBy(k)
                                      /\ queries'[p] = queries[p + 1]
           /\ Cardinality(PendingBy(k)') =
                 Cardinality(PendingBy(k)) - (IF Saves(queries[1], k) THEN 1 ELSE 0)
           /\ \A p \in PendingBy(k)' : Cardinality(UpTo(k, p)') =
                 Cardinality(UpTo(k, p + 1)) - (IF Saves(queries[1], k) THEN 1 ELSE 0)
<1>1. queries \in Seq(Query)
  BY DEF SaveTypes
<1>2. /\ Len(queries) \in Nat \ {0} /\ DOMAIN queries = 1..Len(queries)
      /\ DOMAIN queries' = 1..Len(queries) - 1
      /\ \A i \in 1..Len(queries) - 1 : queries'[i] = queries[i + 1]
  BY <1>1, EmptySeq, LenProperties, HeadTailProperties
<1>3. /\ \A i \in Int : i \in PendingBy(k)' <=> i + 1 \in PendingBy(k) \ {1}
      /\ PendingBy(k)' \in SUBSET Int /\ PendingBy(k) \in SUBSET Int
  BY <1>2, PendingPlaces
<1>4. 1 \in PendingBy(k) <=> Saves(queries[1], k)
  BY <1>2, PendingPlaces
<1>5. IsFiniteSet(PendingBy(k)) /\ \A p : IsFiniteSet(UpTo(k, p))
  BY PendingIsFinite
<1>6. Cardinality(PendingBy(k)') = Cardinality(PendingBy(k) \ {1})
  <2>1. IsFiniteSet(PendingBy(k) \ {1})
    BY <1>5, FS_RemoveElement
  <2>. QED
    BY <1>3, <2>1, ShiftedCount
<1>7. ASSUME NEW p \in PendingBy(k)'
      PROVE  /\ Cardinality(UpTo(k, p)') = Cardinality(UpTo(k, p + 1) \ {1})
             /\ 1 \in UpTo(k, p + 1) <=> 1 \in PendingBy(k)
  <2>1. p \in Nat \ {0}
    BY <1>2, PendingPlaces
  <2>2. IsFiniteSet(UpTo(k, p + 1) \ {1})
    BY <1>5, FS_RemoveElement
  <2>3. /\ \A i \in Int : i \in UpTo(k, p)' <=> i + 1 \in UpTo(k, p + 1) \ {1}
        /\ UpTo(k, p)' \in SUBSET Int /\ UpTo(k, p + 1) \in SUBSET Int
    BY <1>3, <2>1 DEF UpTo
  <2>4. 1 \in UpTo(k, p + 1) <=> 1 \in PendingBy(k)
    BY <2>1 DEF UpTo
  <2>. QED
    BY <2>2, <2>3, <2>4, ShiftedCount
<1>8. \A p \in PendingBy(k)' : p \in Nat /\ p + 1 \in PendingBy(k) /\ queries'[p] = queries[p + 1]
  BY <1>2, <1>3, PendingPlaces
<1>9. \A S : IsFiniteSet(S) =>
         Cardinality(S \ {1}) = IF 1 \in S THEN Cardinality(S) - 1 ELSE Cardinality(S)
  BY FS_RemoveElement
<1>10. Cardinality(PendingBy(k)') =
          Cardinality(PendingBy(k)) - (IF Saves(queries[1], k) THEN 1 ELSE 0)
  <2>1. CASE Saves(queries[1], k)
    BY <1>4, <1>5, <1>6, <1>9, <2>1
  <2>2. CASE ~Saves(queries[1], k)
    BY <1>4, <1>5, <1>6, <1>9, <2>2, PendingIsFinite
  <2>. QED
    BY <2>1, <2>2
<1>11. ASSUME NEW p \in PendingBy(k)'
       PROVE  Cardinality(UpTo(k, p)') =
                Cardinality(UpTo(k, p + 1)) - (IF Saves(queries[1], k) THEN 1 ELSE 0)
  <2>1. CASE Saves(queries[1], k)
    BY <1>4, <1>5, <1>7, <1>9, <2>1
  <2>2. CASE ~Saves(queries[1], k)
    <3>1. Cardinality(UpTo(k, p + 1)) \in Nat
      BY PendingIsFinite
    <3>2. Cardinality(UpTo(k, p)') = Cardinality(UpTo(k, p + 1))
      BY <1>4, <1>5, <1>7, <1>9, <2>2
    <3>. QED
      BY <2>2, <3>1, <3>2
  <2>. QED
    BY <2>1, <2>2
<1>. QED
  BY <1>8, <1>10, <1>11

----------------------------------------------------------------------------
(* A night's array stays or grows at its end: what was in turn stays so.     *)
LEMMA StaysInTurn ==
    ASSUME NEW k, arrays[k] \in Seq(Names), NEW i, NEW row,
           arrays'[k] = arrays[k] \/ (\E n \in Names : arrays'[k] = Append(arrays[k], n)),
           length[k] = 0 => length'[k] = 0,
           InTurn(k, i, row)
    PROVE  InTurn(k, i, row)'
<1>1. ASSUME NEW n \in Names, arrays'[k] = Append(arrays[k], n) PROVE InTurn(k, i, row)'
  BY <1>1, AppendProperties, LenProperties DEF InTurn
<1>. QED
  BY <1>1 DEF InTurn

(* Night k goes on as before when nothing of its own is asked or answered.   *)
LEMMA UntouchedSaving ==
    ASSUME SaveTypes, NEW k \in Nights, Saving(k),
           arrays'[k] = arrays[k] \/ (\E n \in Names : arrays'[k] = Append(arrays[k], n)),
           mtr_save'[k] = mtr_save[k], index'[k] = index[k], length[k] = 0 => length'[k] = 0,
           PendingBy(k)' = PendingBy(k),
           \A p \in PendingBy(k) : queries'[p] = queries[p]
    PROVE  Saving(k)'
<1>1. arrays[k] \in Seq(Names)
  BY NightsAreNumbers DEF SaveTypes
<1>2. \A p : Turn(k, p)' = Turn(k, p)
  BY DEF Turn, UpTo
<1>3. ASSUME NEW i \in DOMAIN mtr_save'[k] PROVE InTurn(k, i, mtr_save[k][i])'
  BY <1>1, <1>3, StaysInTurn DEF Saving
<1>4. ASSUME NEW p \in PendingBy(k)' PROVE InTurn(k, Turn(k, p), RowOf(queries[p]))'
  <2>1. InTurn(k, Turn(k, p), RowOf(queries[p]))
    BY DEF Saving
  <2>2. RowOf(queries[p])' = RowOf(queries[p]) /\ Turn(k, p)' = Turn(k, p)
    BY <1>2
  <2>3. \A i, row : InTurn(k, i, row) => InTurn(k, i, row)'
    BY <1>1, StaysInTurn
  <2>. QED
    BY <2>1, <2>2, <2>3 DEF InTurn
<1>. QED
  BY <1>3, <1>4 DEF Saving

LEMMA AddedSaving ==
    ASSUME SaveTypes, NEW k \in Nights, Saving(k), NEW e \in Query, ~Saves(e, k),
           queries' = Append(queries, e),
           arrays'[k] = arrays[k] \/ (\E n \in Names : arrays'[k] = Append(arrays[k], n)),
           mtr_save'[k] = mtr_save[k], index'[k] = index[k], length'[k] = length[k]
    PROVE  Saving(k)'
<1>1. PendingBy(k)' = PendingBy(k) /\ \A p \in PendingBy(k) : queries'[p] = queries[p]
  BY AddedPending
<1>. QED
  BY <1>1, UntouchedSaving

(* The first query is answered, by a row of night k or otherwise.            *)
LEMMA TakenSaving ==
    ASSUME SaveTypes, NEW k \in Nights, Saving(k), queries # <<>>, queries' = Tail(queries),
           mtr_save'[k] = (IF Saves(queries[1], k) THEN Append(mtr_save[k], RowOf(queries[1]))
                           ELSE mtr_save[k]),
           arrays'[k] = arrays[k], index'[k] = index[k], length'[k] = length[k]
    PROVE  Saving(k)'
<1>1. mtr_save[k] \in Seq(Row) /\ queries[1] \in Query
  BY QueryTaken DEF SaveTypes
<1>2. /\ Len(mtr_save[k]) \in Nat /\ DOMAIN mtr_save[k] = 1..Len(mtr_save[k])
      /\ Cardinality(PendingBy(k)) \in Nat
      /\ \A p : Cardinality(UpTo(k, p)) \in Nat
  BY <1>1, LenProperties, PendingIsFinite
<1>3. /\ \A p \in PendingBy(k)' : /\ p \in Nat /\ p + 1 \in PendingBy(k)
                                 /\ queries'[p] = queries[p + 1]
      /\ Cardinality(PendingBy(k)') =
            Cardinality(PendingBy(k)) - (IF Saves(queries[1], k) THEN 1 ELSE 0)
      /\ \A p \in PendingBy(k)' : Cardinality(UpTo(k, p)') =
            Cardinality(UpTo(k, p + 1)) - (IF Saves(queries[1], k) THEN 1 ELSE 0)
  BY TakenPending
<1>4. \A i, row : InTurn(k, i, row)' <=> InTurn(k, i, row)
  BY DEF InTurn
<1>5. CASE ~Saves(queries[1], k)
  <2>1. \A p \in PendingBy(k)' : Turn(k, p)' = Turn(k, p + 1)
    BY <1>2, <1>3, <1>5 DEF Turn
  <2>2. Cardinality(PendingBy(k)') = Cardinality(PendingBy(k))
    BY <1>2, <1>3, <1>5
  <2>3. ASSUME NEW p \in PendingBy(k)' PROVE InTurn(k, Turn(k, p), RowOf(queries[p]))'
    <3>1. InTurn(k, Turn(k, p + 1), RowOf(queries[p + 1]))
      BY <1>3 DEF Saving
    <3>. QED
      BY <1>3, <2>1, <3>1 DEF InTurn
  <2>4. ASSUME NEW i \in DOMAIN mtr_save'[k] PROVE InTurn(k, i, mtr_save[k][i])'
    BY <1>4, <1>5 DEF Saving, InTurn
  <2>5. (Len(mtr_save[k]) + Cardinality(PendingBy(k)) =
           IF index[k] = 0 THEN 0 ELSE index[k] - 1)'
    BY <1>5, <2>2 DEF Saving
  <2>. QED
    BY <2>3, <2>4, <2>5 DEF Saving
<1>6. CASE Saves(queries[1], k)
  <2>1. Len(mtr_save'[k]) = Len(mtr_save[k]) + 1 /\ RowOf(queries[1]) \in Row
    <3>1. RowOf(queries[1]) \in Row
      BY <1>1, <1>6, QueryKinds DEF Saves
    <3>2. mtr_save'[k] = Append(mtr_save[k], RowOf(queries[1]))
      BY <1>6
    <3>. QED
      BY <1>1, <3>1, <3>2, AppendProperties
  <2>2. ASSUME NEW p \in PendingBy(k)' PROVE Turn(k, p)' = Turn(k, p + 1)
    <3>1. Cardinality(UpTo(k, p)') = Cardinality(UpTo(k, p + 1)) - 1
      BY <1>3, <1>6
    <3>2. Cardinality(UpTo(k, p + 1)) \in Nat
      BY <1>2
    <3>. QED
      BY <1>2, <2>1, <3>1, <3>2 DEF Turn
  <2>3. ASSUME NEW p \in PendingBy(k)' PROVE InTurn(k, Turn(k, p), RowOf(queries[p]))'
    <3>1. InTurn(k, Turn(k, p + 1), RowOf(queries[p + 1]))
      BY <1>3 DEF Saving
    <3>. QED
      BY <1>3, <2>2, <3>1 DEF InTurn
  <2>4. InTurn(k, Len(mtr_save[k]) + 1, RowOf(queries[1]))
    <3>1. 1 \in PendingBy(k)
      BY <1>6, PendingPlaces, QueryTaken DEF SaveTypes
    <3>2. UpTo(k, 1) = {1}
      BY <3>1, PendingIsFinite DEF UpTo
    <3>3. Turn(k, 1) = Len(mtr_save[k]) + 1
      BY <3>2, FS_Singleton DEF Turn
    <3>. QED
      BY <3>1, <3>3 DEF Saving
  <2>5. ASSUME NEW i \in DOMAIN mtr_save'[k] PROVE InTurn(k, i, mtr_save[k][i])'
    <3>1. mtr_save'[k] = Append(mtr_save[k], RowOf(queries[1]))
      BY <1>6
    <3>2. DOMAIN mtr_save'[k] = 1..Len(mtr_save[k]) + 1
      BY <1>1, <2>1, <3>1, AppendProperties, LenProperties
    <3>3. CASE i \in DOMAIN mtr_save[k]
      <4>1. mtr_save'[k][i] = mtr_save[k][i]
        BY <1>1, <1>2, <2>1, <3>1, <3>3, AppendProperties
      <4>. QED
        BY <3>3, <4>1 DEF Saving, InTurn
    <3>4. CASE i = Len(mtr_save[k]) + 1
      <4>1. mtr_save'[k][i] = RowOf(queries[1])
        BY <1>1, <2>1, <3>1, <3>4, AppendProperties
      <4>. QED
        BY <2>4, <3>4, <4>1 DEF InTurn
    <3>. QED
      BY <1>2, <3>2, <3>3, <3>4
  <2>6. (Len(mtr_save[k]) + Cardinality(PendingBy(k)) =
           IF index[k] = 0 THEN 0 ELSE index[k] - 1)'
    BY <1>2, <1>3, <1>6, <2>1 DEF Saving
  <2>. QED
    BY <2>3, <2>5, <2>6 DEF Saving
<1>. QED
  BY <1>5, <1>6

----------------------------------------------------------------------------
(* A SELECT that waits keeps its night unstarted: when another query comes,  *)
(* and when the first is answered.                                           *)
LEMMA AddedChain ==
    ASSUME SaveTypes, TurnInv, NEW e \in Query, ~Selects(e),
           queries' = queries \/ queries' = Append(queries, e), night' = night,
           \A k \in Nights : ~Open(k) => index'[k] = index[k] /\ child'[k] = child[k]
    PROVE  ChainAfterSelect'
<1>1. \A p \in DOMAIN queries' : Selects(queries'[p]) =>
         p \in DOMAIN queries /\ queries'[p] = queries[p]
  BY QueryAdded DEF SaveTypes
<1>2. /\ \A p \in DOMAIN queries : queries[p] \in Query
      /\ index \in [Nights -> Nat]
  BY ElementOfSeq, LenProperties DEF SaveTypes
<1>3. ASSUME NEW s \in DOMAIN queries', Selects(queries'[s])
      PROVE  /\ queries'[s].of <= night' /\ index'[queries'[s].of] = 0
             /\ \A t \in DOMAIN queries' :
                   Selects(queries'[t]) /\ queries'[t].of = queries'[s].of => s = t
  <2>1. s \in DOMAIN queries /\ queries'[s] = queries[s] /\ Selects(queries[s])
    BY <1>1, <1>3
  <2>2. /\ queries[s].of <= night /\ index[queries[s].of] = 0
        /\ \A t \in DOMAIN queries :
              Selects(queries[t]) /\ queries[t].of = queries[s].of => s = t
    BY <2>1 DEF TurnInv, ChainAfterSelect
  <2>3. queries[s].of \in Nights
    BY <1>2, <2>1, QueryKinds DEF Selects
  <2>4. ~Open(queries[s].of)
    BY <2>2, <2>3 DEF TurnInv, ChildHasPlace
  <2>. QED
    BY <1>1, <2>1, <2>2, <2>3, <2>4
<1>4. ASSUME NEW k \in Nights, k > night' PROVE index'[k] = 0 /\ child'[k] = "none"
  <2>1. index[k] = 0 /\ child[k] = "none"
    BY <1>4 DEF TurnInv, ChainAfterSelect
  <2>. QED
    BY <2>1 DEF Open
<1>. QED
  BY <1>3, <1>4 DEF ChainAfterSelect, Selects

LEMMA TakenChain ==
    ASSUME SaveTypes, TurnInv, queries # <<>>, queries' = Tail(queries), night' = night,
           \A k \in Nights : \/ index'[k] = index[k] /\ child'[k] = child[k]
                             \/ Selects(queries[1]) /\ queries[1].of = k
    PROVE  ChainAfterSelect'
<1>1. /\ 1 \in DOMAIN queries
      /\ \A p \in DOMAIN queries' :
            p \in Nat \ {0} /\ p + 1 \in DOMAIN queries /\ queries'[p] = queries[p + 1]
  BY QueryTaken DEF SaveTypes
<1>2. \A p \in DOMAIN queries : queries[p] \in Query
  BY ElementOfSeq, LenProperties DEF SaveTypes
<1>3. ASSUME NEW s \in DOMAIN queries', Selects(queries'[s])
      PROVE  /\ queries'[s].of <= night' /\ index'[queries'[s].of] = 0
             /\ \A t \in DOMAIN queries' :
                   Selects(queries'[t]) /\ queries'[t].of = queries'[s].of => s = t
  <2>1. /\ s \in Nat \ {0} /\ s + 1 \in DOMAIN queries /\ queries'[s] = queries[s + 1]
        /\ Selects(queries[s + 1])
    BY <1>1, <1>3
  <2>2. /\ queries[s + 1].of <= night /\ index[queries[s + 1].of] = 0
        /\ \A t \in DOMAIN queries :
              Selects(queries[t]) /\ queries[t].of = queries[s + 1].of => s + 1 = t
    BY <2>1 DEF TurnInv, ChainAfterSelect
  <2>3. queries[s + 1].of \in Nights
    BY <1>2, <2>1, QueryKinds DEF Selects
  <2>4. ~(Selects(queries[1]) /\ queries[1].of = queries[s + 1].of)
    BY <1>1, <2>1, <2>2
  <2>5. index'[queries'[s].of] = 0
    BY <2>1, <2>2, <2>3, <2>4
  <2>6. ASSUME NEW t \in DOMAIN queries', Selects(queries'[t]), queries'[t].of = queries'[s].of
        PROVE  s = t
    <3>1. t \in Nat \ {0} /\ t + 1 \in DOMAIN queries /\ queries'[t] = queries[t + 1]
      BY <1>1
    <3>2. s + 1 = t + 1
      BY <2>1, <2>2, <2>6, <3>1
    <3>. QED
      BY <2>1, <3>1, <3>2
  <2>. QED
    BY <2>1, <2>2, <2>5, <2>6
<1>4. ASSUME NEW k \in Nights, k > night' PROVE index'[k] = 0 /\ child'[k] = "none"
  <2>1. index[k] = 0 /\ child[k] = "none"
    BY <1>4 DEF TurnInv, ChainAfterSelect
  <2>2. ~(Selects(queries[1]) /\ queries[1].of = k)
    <3>1. Selects(queries[1]) => queries[1].of <= night
      BY <1>1 DEF TurnInv, ChainAfterSelect
    <3>2. k \in Nat /\ night \in Nat
      BY NightsAreNumbers DEF SaveTypes
    <3>. QED
      BY <1>4, <3>1, <3>2
  <2>. QED
    BY <2>1, <2>2
<1>. QED
  BY <1>3, <1>4 DEF ChainAfterSelect, Selects

LEMMA InitTurn == Init => TurnInv
<1>. SUFFICES ASSUME Init PROVE TurnInv
  OBVIOUS
<1>1. queries = <<>> /\ DOMAIN queries = {} /\ process = [k \in Nights |-> FALSE]
  BY DEF Init
<1>2. \A k \in Nights : index[k] = 0 /\ child[k] = "none" /\ mtr_save[k] = <<>>
  BY DEF Init
<1>3. ChildHasPlace /\ ChildKnown /\ ChainAfterSelect
  BY <1>1, <1>2 DEF ChildHasPlace, ChildKnown, ChainAfterSelect, Open
<1>4. ASSUME NEW k \in Nights PROVE Saving(k)
  <2>1. PendingBy(k) = {}
    BY <1>1 DEF PendingBy
  <2>. QED
    BY <1>2, <2>1, FS_EmptySet DEF Saving
<1>. QED
  BY <1>3, <1>4 DEF TurnInv

LEMMA JobTurn == SaveTypes /\ TurnInv /\ Job => TurnInv'
<1>. SUFFICES ASSUME SaveTypes, TurnInv, Job PROVE TurnInv'
  OBVIOUS
<1> DEFINE e == [query |-> "SELECT", of |-> night + 1]
<1>1. /\ night + 1 \in Nights /\ night \in Nat /\ night' = night + 1
      /\ queries' = Append(queries, e) /\ queries \in Seq(Query)
      /\ UNCHANGED <<mtr_save, arrays, index, length, traced, child, process,
                   restarts>>
  BY NightsAreNumbers DEF Job, SaveTypes, Nights, list, used
<1>2. e \in Query /\ Selects(e) /\ e.of = night + 1 /\ \A k : ~Saves(e, k)
  BY <1>1 DEF Query, Selects, Saves
<1>. HIDE DEF e
<1>3. ChildHasPlace' /\ ChildKnown'
  BY <1>1 DEF TurnInv, ChildHasPlace, ChildKnown, Open
<1>4. \A k \in Nights : (restarts > 0 \/ Saving(k))'
  BY <1>1, <1>2, AddedSaving DEF TurnInv
<1>5. ChainAfterSelect'
  <2>0. \A k \in Nights : k \in Nat
    BY NightsAreNumbers
  <2>1. \A p \in DOMAIN queries' :
           \/ p \in DOMAIN queries /\ queries'[p] = queries[p]
           \/ p = Len(queries) + 1 /\ queries'[p] = e
    BY <1>1, <1>2, QueryAdded
  <2>2. \A s \in DOMAIN queries : queries[s] \in Query
    BY <1>1, ElementOfSeq, LenProperties
  <2>3. ASSUME NEW s \in DOMAIN queries, Selects(queries[s])
        PROVE  queries[s].of \in Nat /\ queries[s].of <= night /\ index[queries[s].of] = 0
    BY <2>0, <2>2, <2>3, QueryKinds DEF TurnInv, ChainAfterSelect, Selects
  <2>4. index[night + 1] = 0
    BY <1>1 DEF TurnInv, ChainAfterSelect
  <2>5. ASSUME NEW s \in DOMAIN queries', Selects(queries'[s])
        PROVE  queries'[s].of <= night + 1 /\ index[queries'[s].of] = 0
    BY <1>1, <1>2, <2>1, <2>3, <2>4, <2>5
  <2>6. ASSUME NEW s \in DOMAIN queries', Selects(queries'[s]),
               NEW t \in DOMAIN queries', Selects(queries'[t]), queries'[t].of = queries'[s].of
        PROVE  s = t
    <3>1. CASE s \in DOMAIN queries /\ queries'[s] = queries[s]
               /\ t \in DOMAIN queries /\ queries'[t] = queries[t]
      BY <2>6, <3>1 DEF TurnInv, ChainAfterSelect
    <3>2. CASE s \in DOMAIN queries /\ queries'[s] = queries[s] /\ queries'[t] = e
      BY <1>1, <1>2, <2>3, <2>6, <3>2
    <3>3. CASE t \in DOMAIN queries /\ queries'[t] = queries[t] /\ queries'[s] = e
      BY <1>1, <1>2, <2>3, <2>6, <3>3
    <3>. QED
      BY <2>1, <3>1, <3>2, <3>3
  <2>7. \A k \in Nights : k > night + 1 => index[k] = 0 /\ child[k] = "none"
    BY <1>1, <2>0 DEF TurnInv, ChainAfterSelect
  <2>. QED
    BY <1>1, <2>5, <2>6, <2>7 DEF ChainAfterSelect, Selects
<1>. QED
  BY <1>3, <1>4, <1>5 DEF TurnInv

(* The SELECT of night k is answered: its chain starts.                      *)
LEMMA SelectTurn ==
    ASSUME SaveTypes, TurnInv, NEW k \in Nights, queries # <<>>, queries' = Tail(queries),
           Selects(queries[1]), queries[1].of = k, SelectAnswered(k), UNCHANGED used
    PROVE  TurnInv'
<1>1. /\ 1 \in DOMAIN queries /\ k \in 0..MaxNights /\ Len(mtr_dest) \in Nat
      /\ arrays' = [arrays EXCEPT ![k] = mtr_dest] /\ arrays \in [0..MaxNights -> Seq(Names)]
      /\ mtr_save' = mtr_save /\ night' = night /\ restarts' = restarts
      /\ index' = [index EXCEPT ![k] = 1] /\ length' = [length EXCEPT ![k] = Len(mtr_dest)]
      /\ traced' = [traced EXCEPT ![k] = NameAt(mtr_dest, 1)]
      /\ child' = [child EXCEPT ![k] = "running"] /\ process' = [process EXCEPT ![k] = TRUE]
      /\ traced \in [Nights -> Names \cup {NoName}]
      /\ index \in [Nights -> Nat] /\ length \in [Nights -> Nat]
      /\ child \in [Nights -> {"none", "running", "signalled", "ended"}]
  BY QueryTaken, NightsAreNumbers DEF SaveTypes, SelectAnswered, CreateChild, used
<1>2. index[k] = 0 /\ \A j : ~Saves(queries[1], j)
  BY <1>1 DEF TurnInv, ChainAfterSelect, Selects, Saves
<1>3. ASSUME NEW j \in Nights, j # k
      PROVE  /\ index'[j] = index[j] /\ length'[j] = length[j] /\ child'[j] = child[j]
             /\ arrays'[j] = arrays[j] /\ process'[j] = process[j] /\ traced'[j] = traced[j]
  BY <1>1, <1>3, NightsAreNumbers
<1>4. /\ index'[k] = 1 /\ length'[k] = Len(mtr_dest) /\ child'[k] = "running"
      /\ arrays'[k] = mtr_dest
      /\ IF Len(mtr_dest) = 0 THEN traced'[k] = NoName ELSE traced'[k] = mtr_dest[1]
  <2>1. mtr_dest \in Seq(Names) /\ DOMAIN mtr_dest = 1..Len(mtr_dest)
    BY LenProperties DEF SaveTypes
  <2>. QED
    BY <1>1, <2>1 DEF NameAt
<1>5. ChildHasPlace' /\ ChildKnown'
  <2>1. process' \in [Nights -> BOOLEAN]
    BY <1>1 DEF TurnInv, ChildKnown
  <2>2. ASSUME NEW j \in Nights
        PROVE  /\ Open(j)' => /\ index'[j] >= 1 /\ length'[j] <= Len(arrays'[j])
                              /\ \/ index'[j] <= length'[j] /\ traced'[j] = arrays'[j][index'[j]]
                                 \/ index'[j] = 1 /\ length'[j] = 0 /\ traced'[j] = NoName
               /\ process'[j] => Open(j)'
    <3>1. CASE j = k
      BY <1>1, <1>4, <3>1 DEF Open
    <3>2. CASE j # k
      BY <1>3, <3>2 DEF TurnInv, ChildHasPlace, ChildKnown, Open
    <3>. QED
      BY <3>1, <3>2
  <2>. QED
    BY <2>1, <2>2 DEF ChildHasPlace, ChildKnown
<1>6. ChainAfterSelect'
  <2>1. \A j \in Nights : \/ index'[j] = index[j] /\ child'[j] = child[j]
                          \/ Selects(queries[1]) /\ queries[1].of = j
    BY <1>3
  <2>. QED
    BY <1>1, <2>1, TakenChain
<1>7. ASSUME NEW j \in Nights PROVE (restarts > 0 \/ Saving(j))'
  <2>1. CASE restarts > 0
    BY <1>1, <2>1
  <2>2. CASE Saving(j) /\ j # k
    <3>1. mtr_save'[j] = (IF Saves(queries[1], j) THEN Append(mtr_save[j], RowOf(queries[1]))
                          ELSE mtr_save[j])
      BY <1>1, <1>2
    <3>2. Saving(j)'
      BY <1>3, <2>2, <3>1, TakenSaving
    <3>. QED
      BY <3>2
  <2>3. CASE Saving(j) /\ j = k
    <3>1. mtr_save[k] \in Seq(Row)
      BY DEF SaveTypes
    <3>2. /\ Len(mtr_save[k]) \in Nat /\ Cardinality(PendingBy(k)) \in Nat
          /\ Len(mtr_save[k]) + Cardinality(PendingBy(k)) = 0
      BY <1>2, <2>3, <3>1, LenProperties, PendingIsFinite DEF Saving
    <3>3. Len(mtr_save[k]) = 0 /\ Cardinality(PendingBy(k)) = 0 /\ DOMAIN mtr_save[k] = {}
      BY <3>1, <3>2, LenProperties
    <3>4. PendingBy(k) = {}
      BY <3>3, PendingIsFinite, FS_EmptySet
    <3>5. PendingBy(k)' = {}
      BY <3>4, TakenPending
    <3>6. Cardinality(PendingBy(k)') = 0
      BY <3>5, FS_EmptySet
    <3>7. Saving(k)'
      BY <1>1, <1>4, <3>3, <3>5, <3>6 DEF Saving
    <3>. QED
      BY <2>3, <3>7
  <2>. QED
    BY <2>1, <2>2, <2>3 DEF TurnInv
<1>. QED
  BY <1>5, <1>6, <1>7 DEF TurnInv

LEMMA AnsweredTurn == SaveTypes /\ TurnInv /\ Answered => TurnInv'
<1>. SUFFICES ASSUME SaveTypes, TurnInv, Answered PROVE TurnInv'
  OBVIOUS
<1>1. /\ queries # <<>> /\ queries' = Tail(queries) /\ UNCHANGED used
      /\ Head(queries) = queries[1] /\ queries[1] \in Query
  BY QueryTaken DEF Answered, SaveTypes
<1>2. CASE queries[1].query = "SELECT" /\ SelectAnswered(queries[1].of)
  <2>1. queries[1].of \in Nights /\ Selects(queries[1])
    BY <1>1, <1>2, QueryKinds DEF Selects
  <2>. QED
    BY <1>1, <1>2, <2>1, SelectTurn
<1>3. CASE /\ ~Selects(queries[1]) /\ UNCHANGED <<list, chain, history>>
           /\ \A k \in Nights : mtr_save'[k] =
                 (IF Saves(queries[1], k) THEN Append(mtr_save[k], RowOf(queries[1]))
                  ELSE mtr_save[k])
  <2>1. UNCHANGED <<arrays, night, index, length, traced, child, process,
                   restarts>>
    BY <1>1, <1>3 DEF list, chain, used
  <2>2. ChainAfterSelect'
    BY <1>1, <2>1, TakenChain
  <2>3. ChildHasPlace' /\ ChildKnown'
    BY <2>1 DEF TurnInv, ChildHasPlace, ChildKnown, Open
  <2>4. ASSUME NEW k \in Nights PROVE (restarts > 0 \/ Saving(k))'
    BY <1>1, <1>3, <2>1, TakenSaving DEF TurnInv
  <2>. QED
    BY <2>2, <2>3, <2>4 DEF TurnInv
<1>4. ASSUME queries[1].query = "INSERT dest", UNCHANGED <<mtr_save, list, chain, history>>
      PROVE  TurnInv'
  BY <1>3, <1>4 DEF Selects, Saves
<1>5. ASSUME queries[1].query = "INSERT save", UNCHANGED <<list, chain, history>>,
             mtr_save' = [mtr_save EXCEPT ![queries[1].of] = Append(@, RowOf(queries[1]))]
      PROVE  TurnInv'
  <2>1. ~Selects(queries[1]) /\ \A k : Saves(queries[1], k) <=> queries[1].of = k
    BY <1>5 DEF Selects, Saves
  <2>2. \A k \in Nights : mtr_save'[k] =
           (IF Saves(queries[1], k) THEN Append(mtr_save[k], RowOf(queries[1])) ELSE mtr_save[k])
    BY <1>5, <2>1 DEF SaveTypes
  <2>. QED
    BY <1>3, <1>5, <2>1, <2>2
<1>. QED
  BY <1>1, <1>2, <1>4, <1>5 DEF Answered, RowOf

(* A child has exited: its row is the next in turn. *)
LEMMA CloseTurn == ASSUME SaveTypes, TurnInv, NEW k \in Nights, Close(k) PROVE TurnInv'
<1> DEFINE e == [query |-> "INSERT save", name |-> SavedName(k), traced |-> traced[k], of |-> k]
<1>1. /\ arrays[k] \in Seq(Names) /\ traced \in [Nights -> Names \cup {NoName}] /\ k \in 0..MaxNights /\ queries \in Seq(Query)
      /\ index \in [Nights -> Nat] /\ length \in [Nights -> Nat]
      /\ child \in [Nights -> {"none", "running", "signalled", "ended"}]
      /\ process \in [Nights -> BOOLEAN]
  BY NightsAreNumbers DEF SaveTypes, TurnInv, ChildKnown
<1>2. /\ Open(k) /\ queries' = Append(queries, e)
      /\ UNCHANGED <<mtr_save, arrays, night, restarts>>
  BY DEF Close, list, used
<1>3. SavedName(k) \in Names \cup {NoName}
  BY <1>1 DEF SavedName, NameAt
<1>4. /\ e \in Query /\ ~Selects(e)
      /\ RowOf(e) = [name |-> SavedName(k), traced |-> traced[k]]
      /\ \A j : Saves(e, j) <=> j = k
  BY <1>1, <1>3 DEF Query, Selects, Saves, RowOf
<1>. HIDE DEF e
<1>5. /\ index[k] >= 1 /\ length[k] <= Len(arrays[k]) /\ Len(arrays[k]) \in Nat
      /\ \/ index[k] <= length[k] /\ traced[k] = arrays[k][index[k]]
         \/ index[k] = 1 /\ length[k] = 0 /\ traced[k] = NoName
  BY <1>1, <1>2, LenProperties DEF TurnInv, ChildHasPlace
<1>6. index' = [index EXCEPT ![k] = @ + 1]
  BY DEF Close, CreateChild
<1>7. \/ /\ index[k] < length[k] /\ length' = [length EXCEPT ![k] = Len(arrays[k])]
         /\ child' = [child EXCEPT ![k] = "running"]
         /\ traced' = [traced EXCEPT ![k] = NameAt(arrays[k], index[k] + 1)]
         /\ process' = [process EXCEPT ![k] = TRUE]
      \/ /\ child' = [child EXCEPT ![k] = "ended"] /\ length' = length /\ traced' = traced
         /\ process' = [process EXCEPT ![k] = FALSE]
  BY DEF Close, CreateChild
<1>8. ASSUME NEW j \in Nights, j # k
      PROVE  /\ index'[j] = index[j] /\ length'[j] = length[j] /\ child'[j] = child[j]
             /\ process'[j] = process[j] /\ traced'[j] = traced[j]
  BY <1>1, <1>6, <1>7, <1>8
<1>9. ChildHasPlace' /\ ChildKnown'
  <2>1. process' \in [Nights -> BOOLEAN]
    BY <1>1, <1>7
  <2>2. ASSUME NEW j \in Nights
        PROVE  /\ Open(j)' => /\ index'[j] >= 1 /\ length'[j] <= Len(arrays[j])
                              /\ \/ index'[j] <= length'[j] /\ traced'[j] = arrays[j][index'[j]]
                                 \/ index'[j] = 1 /\ length'[j] = 0 /\ traced'[j] = NoName
               /\ process'[j] => Open(j)'
    <3>1. CASE j = k
      <4>1. CASE index[k] < length[k] /\ child'[k] = "running"
        <5>1. /\ index'[k] = index[k] + 1 /\ length'[k] = Len(arrays[k]) /\ index[k] \in Nat
              /\ index'[k] <= Len(arrays[k])
          BY <1>1, <1>5, <1>6, <1>7, <4>1
        <5>2. traced'[k] = NameAt(arrays[k], index[k] + 1)
          BY <1>1, <1>7, <4>1
        <5>3. traced'[k] = arrays[k][index'[k]]
          BY <1>1, <5>1, <5>2, LenProperties DEF NameAt
        <5>. QED
          BY <1>5, <3>1, <4>1, <5>1, <5>3 DEF Open
      <4>2. CASE child'[k] = "ended" /\ process'[k] = FALSE
        BY <3>1, <4>2 DEF Open
      <4>. QED
        BY <1>1, <1>7, <4>1, <4>2
    <3>2. CASE j # k
      BY <1>8, <3>2 DEF TurnInv, ChildHasPlace, ChildKnown, Open
    <3>. QED
      BY <3>1, <3>2
  <2>. QED
    BY <1>2, <2>1, <2>2 DEF ChildHasPlace, ChildKnown
<1>10. ChainAfterSelect'
  <2>1. \A j \in Nights : ~Open(j) => index'[j] = index[j] /\ child'[j] = child[j]
    BY <1>2, <1>8
  <2>. QED
    BY <1>2, <1>4, <2>1, AddedChain
<1>11. Saving(k) => Saving(k)'
  <2>. SUFFICES ASSUME Saving(k) PROVE Saving(k)'
    OBVIOUS
  <2>1. /\ PendingBy(k)' = PendingBy(k) \cup {Len(queries) + 1}
        /\ \A p \in PendingBy(k) : queries'[p] = queries[p] /\ UpTo(k, p)' = UpTo(k, p)
        /\ queries'[Len(queries) + 1] = e
    BY <1>2, <1>4, AddedPending
  <2>2. /\ PendingBy(k) \in SUBSET (1..Len(queries)) /\ Len(queries) \in Nat
        /\ IsFiniteSet(PendingBy(k)) /\ Cardinality(PendingBy(k)) \in Nat
    BY PendingIsFinite
  <2>3. Len(queries) + 1 \notin PendingBy(k)
    BY <2>2
  <2>4. Cardinality(PendingBy(k)') = Cardinality(PendingBy(k)) + 1
    BY <2>1, <2>2, <2>3, FS_AddElement
  <2>5. Len(mtr_save[k]) \in Nat
    BY LenProperties DEF SaveTypes
  <2>6. Len(mtr_save[k]) + Cardinality(PendingBy(k)) = index[k] - 1
    BY <1>5 DEF Saving
  <2>0. index[k] \in Nat /\ index'[k] = index[k] + 1
    BY <1>1, <1>6
  <2>7. Len(mtr_save[k]) + Cardinality(PendingBy(k)') = index'[k] - 1 /\ index'[k] # 0
    BY <2>0, <2>2, <2>4, <2>5, <2>6
  <2>8. ASSUME NEW n, n = Len(queries) + 1 PROVE Turn(k, n)' = index[k]
    <3>1. \A i \in PendingBy(k)' : i <= n
      BY <2>1, <2>2, <2>8
    <3>2. UpTo(k, n)' = PendingBy(k)'
      BY <3>1 DEF UpTo
    <3>. QED
      <4>1. mtr_save'[k] = mtr_save[k]
        BY <1>2
      <4>2. Turn(k, n)' = Len(mtr_save[k]) + Cardinality(PendingBy(k)')
        BY <3>2, <4>1 DEF Turn
      <4>. QED
        BY <2>0, <2>2, <2>4, <2>5, <2>6, <4>2
  <2>9. InTurn(k, index[k], RowOf(e)) /\ (length[k] = 0 => length'[k] = 0)
    <3>1. length[k] = 0 => length'[k] = 0
      BY <1>1, <1>5, <1>7
    <3>2. CASE index[k] <= length[k] /\ traced[k] = arrays[k][index[k]]
      <4>1. index[k] \in DOMAIN arrays[k]
        BY <1>1, <1>5, <3>2, LenProperties
      <4>2. SavedName(k) = arrays[k][index[k]]
        BY <4>1 DEF SavedName, NameAt
      <4>. QED
        BY <1>4, <3>1, <3>2, <4>1, <4>2 DEF InTurn
    <3>3. CASE index[k] = 1 /\ length[k] = 0 /\ traced[k] = NoName
      BY <1>4, <3>1, <3>3 DEF InTurn
    <3>. QED
      BY <1>5, <3>2, <3>3
  <2>10. ASSUME NEW p \in PendingBy(k)' PROVE InTurn(k, Turn(k, p), RowOf(queries[p]))'
    <3>1. CASE p \in PendingBy(k)
      <4>1. InTurn(k, Turn(k, p), RowOf(queries[p])) /\ RowOf(queries[p])' = RowOf(queries[p])
        BY <2>1, <3>1 DEF Saving, RowOf
      <4>. QED
        BY <1>2, <2>1, <2>9, <3>1, <4>1 DEF Turn, InTurn
    <3>2. CASE p = Len(queries) + 1
      <4>1. RowOf(queries[p])' = RowOf(e)
        BY <2>1, <3>2 DEF RowOf
      <4>. QED
        BY <1>2, <2>8, <2>9, <3>2, <4>1 DEF InTurn
    <3>. QED
      BY <2>1, <3>1, <3>2
  <2>. QED
    BY <1>2, <2>7, <2>9, <2>10 DEF Saving, InTurn
<1>12. ASSUME NEW j \in Nights, j # k, Saving(j) PROVE Saving(j)'
  BY <1>2, <1>4, <1>8, <1>12, AddedSaving
<1>. QED
  BY <1>2, <1>9, <1>10, <1>11, <1>12 DEF TurnInv

(* A session's output: one more query at most, and an array grown by one.    *)
LEMMA WriteTurn ==
    ASSUME SaveTypes, TurnInv, NEW name \in Names, StdoutData(name) PROVE TurnInv'
<1> DEFINE e == [query |-> "INSERT dest", name |-> name]
<1>1. /\ UNCHANGED <<mtr_save, night, index, length, traced, child, process,
                   restarts>>
      /\ arrays \in [0..MaxNights -> Seq(Names)] /\ \A k \in Nights : k \in 0..MaxNights
  BY NightsAreNumbers DEF StdoutData, chain, SaveTypes
<1>2. \/ UNCHANGED <<queries, arrays>>
      \/ queries' = Append(queries, e) /\ arrays' = Push(name)
  BY DEF StdoutData
<1>3. e \in Query /\ ~Selects(e) /\ \A k : ~Saves(e, k)
  BY DEF Query, Selects, Saves
<1>. HIDE DEF e
<1>4. \A k \in Nights :
         arrays'[k] = arrays[k] \/ (\E n \in Names : arrays'[k] = Append(arrays[k], n))
  BY <1>1, <1>2 DEF Push
<1>5. ChildKnown'
  BY <1>1 DEF TurnInv, ChildKnown, Open
<1>6. ChildHasPlace'
  <2>1. ASSUME NEW k \in Nights
        PROVE  Len(arrays[k]) \in Nat /\ Len(arrays'[k]) \in Nat /\ Len(arrays'[k]) >= Len(arrays[k])
    <3>1. arrays[k] \in Seq(Names)
      BY <1>1
    <3>2. Len(arrays[k]) \in Nat
      BY <3>1, LenProperties
    <3>. QED
      BY <1>4, <3>1, <3>2, AppendProperties
  <2>2. length \in [Nights -> Nat]
    BY DEF SaveTypes
  <2>. QED
    <3>1. ASSUME NEW k \in Nights, index[k] >= 1, index[k] <= Len(arrays[k])
          PROVE  arrays'[k][index[k]] = arrays[k][index[k]]
      <4>1. arrays[k] \in Seq(Names) /\ index[k] \in 1..Len(arrays[k])
        BY <1>1, <2>1, <3>1 DEF SaveTypes
      <4>. QED
        BY <1>4, <4>1, AppendProperties
    <3>2. ASSUME NEW k \in Nights, Open(k)'
          PROVE  /\ index'[k] >= 1 /\ length'[k] <= Len(arrays'[k])
                 /\ \/ index'[k] <= length'[k] /\ traced'[k] = arrays'[k][index'[k]]
                    \/ index'[k] = 1 /\ length'[k] = 0 /\ traced'[k] = NoName
      <4>1. /\ index[k] >= 1 /\ length[k] <= Len(arrays[k])
            /\ \/ index[k] <= length[k] /\ traced[k] = arrays[k][index[k]]
               \/ index[k] = 1 /\ length[k] = 0 /\ traced[k] = NoName
        BY <1>1, <3>2 DEF TurnInv, ChildHasPlace, Open
      <4>2. index[k] \in Nat /\ length[k] \in Nat
        BY DEF SaveTypes
      <4>. QED
        BY <1>1, <2>1, <3>1, <4>1, <4>2
    <3>. QED
      BY <3>2 DEF ChildHasPlace
<1>7. ChainAfterSelect'
  BY <1>1, <1>2, <1>3, AddedChain
<1>8. ASSUME NEW k \in Nights, Saving(k) PROVE Saving(k)'
  <2>1. CASE UNCHANGED <<queries, arrays>>
    <3>1. PendingBy(k)' = PendingBy(k)
      BY <2>1 DEF PendingBy
    <3>. QED
      BY <1>1, <1>8, <2>1, <3>1, UntouchedSaving
  <2>2. CASE queries' = Append(queries, e)
    BY <1>1, <1>3, <1>4, <1>8, <2>2, AddedSaving
  <2>. QED
    BY <1>2, <2>1, <2>2
<1>. QED
  BY <1>1, <1>5, <1>6, <1>7, <1>8 DEF TurnInv

(* A timer, what a child writes to stderr: its place stays. *)
LEMMA OtherTurn ==
    ASSUME SaveTypes, TurnInv,
           \/ \E k \in Nights : StderrData(k)
           \/ \E k \in Nights, i \in 1..MaxWrites + 2 : Timeout(k, i)
           \/ UNCHANGED vars
    PROVE  TurnInv'
<1>1. UNCHANGED <<mtr_save, queries, arrays, night, index, length, traced, restarts>>
  BY DEF StderrData, Timeout, vars, database, list, chain, used
<1>2. /\ process \in [Nights -> BOOLEAN]
      /\ child \in [Nights -> {"none", "running", "signalled", "ended"}]
  BY DEF TurnInv, ChildKnown, SaveTypes
<1>3. \/ /\ child' = child
         /\ process' = process \/ \E k \in Nights : process' = [process EXCEPT ![k] = FALSE]
      \/ \E k \in Nights : /\ process[k] /\ child' = [child EXCEPT ![k] = "signalled"]
                           /\ process' = [process EXCEPT ![k] = FALSE]
  BY DEF StderrData, Timeout, vars, chain
<1>4. \A k \in Nights : (Open(k)' <=> Open(k)) /\ (~Open(k) => child'[k] = child[k])
  BY <1>2, <1>3 DEF TurnInv, ChildKnown, Open
<1>5. process' \in [Nights -> BOOLEAN] /\ \A k \in Nights : process'[k] => process[k]
  BY <1>2, <1>3
<1>6. ChildHasPlace' /\ ChildKnown'
  BY <1>1, <1>4, <1>5 DEF TurnInv, ChildHasPlace, ChildKnown
<1>7. ChainAfterSelect'
  <2>2. \A k \in Nights : k > night => child'[k] = child[k]
    BY <1>4 DEF TurnInv, ChainAfterSelect, Open
  <2>. QED
    BY <1>1, <2>2 DEF TurnInv, ChainAfterSelect, Selects
<1>8. ASSUME NEW k \in Nights, Saving(k) PROVE Saving(k)'
  <2>1. PendingBy(k)' = PendingBy(k)
    BY <1>1 DEF PendingBy
  <2>. QED
    BY <1>1, <1>8, <2>1, UntouchedSaving
<1>. QED
  BY <1>1, <1>6, <1>7, <1>8 DEF TurnInv

LEMMA RestartTurn == SaveTypes /\ TurnInv /\ Restart => TurnInv'
<1>. SUFFICES ASSUME SaveTypes, TurnInv, Restart PROVE TurnInv'
  OBVIOUS
<1>1. /\ queries' = <<>> /\ restarts' = restarts + 1 /\ restarts \in Nat
      /\ child' = [k \in Nights |-> IF k <= night THEN "ended" ELSE "none"]
      /\ process' = [k \in Nights |-> FALSE]
      /\ UNCHANGED <<night, index>>
  BY DEF Restart, SaveTypes
<1>2. ChildHasPlace' /\ ChildKnown'
  BY <1>1 DEF ChildHasPlace, ChildKnown, Open
<1>3. ChainAfterSelect'
  <2>1. DOMAIN queries' = {}
    BY <1>1
  <2>2. \A k \in Nights : k \in Nat /\ night \in Nat
    BY NightsAreNumbers DEF SaveTypes
  <2>. QED
    BY <1>1, <2>1, <2>2 DEF TurnInv, ChainAfterSelect
<1>. QED
  BY <1>1, <1>2, <1>3 DEF TurnInv

LEMMA NextTurn == SaveTypes /\ TurnInv /\ [Next]_vars => TurnInv'
BY JobTurn, AnsweredTurn, CloseTurn, WriteTurn, OtherTurn, RestartTurn DEF Next

(* What a night has saved are the destinations of its array from the first   *)
(* to where its chain is, each once and under the name that was traced for   *)
(* it, whatever sessions push meanwhile and whether or not the chain of      *)
(* another night still runs (createChild).                                   *)
THEOREM NightsSavedInTurn == Spec => []SavedInTurn
BY InitTypes, NextTypes, InitTurn, NextTurn, TurnIsSaved, PTL DEF Spec

----------------------------------------------------------------------------
(* Timers *)

(* A child that runs will be ended by its minute, unless it has written to   *)
(* stderr or another night's child has cleared the timer they share.         *)
ChildTimed ==
    \A k \in Nights : child[k] = "running" /\ k \notin noisy \cup robbed =>
        process[k] /\ <<k, index[k]>> \in timers

LEMMA StderrTimed ==
    ASSUME SaveTypes, ChildKnown, ChildTimed, NEW k \in Nights, StderrData(k)
    PROVE  ChildTimed'
<1>1. /\ timers' = timers \ {timeout} /\ noisy' = noisy \cup {k}
      /\ robbed' = robbed \cup RobbedBy(k) /\ UNCHANGED <<index, child>>
      /\ process' = [process EXCEPT ![k] = FALSE] /\ process \in [Nights -> BOOLEAN]
  BY DEF StderrData, ClearTimeout, ChildKnown
<1>2. ASSUME NEW j \in Nights, child[j] = "running", j \notin noisy' \cup robbed'
      PROVE  process'[j] /\ <<j, index[j]>> \in timers'
  <2>1. j # k /\ process[j] /\ <<j, index[j]>> \in timers /\ j \notin RobbedBy(k)
    BY <1>1, <1>2 DEF ChildTimed
  <2>. QED
    BY <1>1, <2>1 DEF RobbedBy
<1>. QED
  BY <1>1, <1>2 DEF ChildTimed

LEMMA CloseTimed ==
    ASSUME SaveTypes, ChildKnown, ChildTimed, NEW k \in Nights, Close(k)
    PROVE  ChildTimed'
<1>1. /\ noisy' = noisy \ {k} /\ robbed' = (robbed \cup RobbedBy(k)) \ {k}
      /\ index' = [index EXCEPT ![k] = @ + 1] /\ index \in [Nights -> Nat]
      /\ child \in [Nights -> {"none", "running", "signalled", "ended"}]
      /\ process \in [Nights -> BOOLEAN]
  BY DEF Close, CreateChild, SaveTypes, ChildKnown
<1>2. \/ /\ child' = [child EXCEPT ![k] = "running"] /\ process' = [process EXCEPT ![k] = TRUE]
         /\ timers' = (timers \ {timeout}) \cup {<<k, index[k] + 1>>}
      \/ /\ child' = [child EXCEPT ![k] = "ended"] /\ process' = [process EXCEPT ![k] = FALSE]
         /\ timers' = timers \ {timeout}
  BY DEF Close, CreateChild, NextTimers, ClearTimeout
<1>3. ASSUME NEW j \in Nights, j # k, child'[j] = "running", j \notin noisy' \cup robbed'
      PROVE  process'[j] /\ <<j, index'[j]>> \in timers'
  <2>1. child[j] = "running" /\ process'[j] = process[j] /\ index'[j] = index[j]
    BY <1>1, <1>2, <1>3
  <2>2. process[j] /\ <<j, index[j]>> \in timers /\ j \notin RobbedBy(k)
    BY <1>1, <1>3, <2>1 DEF ChildTimed
  <2>. QED
    BY <1>2, <1>3, <2>1, <2>2 DEF RobbedBy
<1>4. child'[k] = "running" => process'[k] /\ <<k, index'[k]>> \in timers'
  BY <1>1, <1>2
<1>. QED
  BY <1>3, <1>4 DEF ChildTimed

LEMMA NextTimed ==
    SaveTypes /\ ChildKnown /\ ChildTimed /\ [Next]_vars => ChildTimed'
<1>. SUFFICES ASSUME SaveTypes, ChildKnown, ChildTimed, [Next]_vars PROVE ChildTimed'
  OBVIOUS
<1>1. CASE UNCHANGED <<child, noisy, robbed, process, index, timers>>
  BY <1>1 DEF ChildTimed
<1>2. CASE Job
  BY <1>1, <1>2 DEF Job, history
<1>3. CASE Answered
  <2>1. CASE \E k \in Nights : SelectAnswered(k)
    <3>1. PICK k \in Nights : SelectAnswered(k)
      BY <2>1
    <3>2. /\ child' = [child EXCEPT ![k] = "running"] /\ index' = [index EXCEPT ![k] = 1]
          /\ process' = [process EXCEPT ![k] = TRUE] /\ timers' = timers \cup {<<k, 1>>}
          /\ UNCHANGED <<noisy, robbed>>
      BY <3>1 DEF SelectAnswered, CreateChild, history
    <3>. QED
      BY <3>2 DEF ChildTimed, SaveTypes, ChildKnown
  <2>2. CASE UNCHANGED <<chain, history>>
    BY <1>1, <2>2 DEF chain, history
  <2>3. Head(queries) \in Query
    BY <1>3, HeadTailProperties DEF Answered, SaveTypes
  <2>. QED
    BY <1>3, <2>1, <2>2, <2>3, QueryKinds DEF Answered
<1>4. CASE Restart
  BY <1>4 DEF Restart, ChildTimed
<1>5. ASSUME NEW k \in Nights, StderrData(k) PROVE ChildTimed'
  BY <1>5, StderrTimed
<1>6. ASSUME NEW k \in Nights, Close(k) PROVE ChildTimed'
  BY <1>6, CloseTimed
<1>7. ASSUME NEW k \in Nights, NEW i \in 1..MaxWrites + 2, Timeout(k, i) PROVE ChildTimed'
  <2>1. /\ timers' = timers \ {<<k, i>>} /\ UNCHANGED <<index, noisy, robbed>>
        /\ child \in [Nights -> {"none", "running", "signalled", "ended"}]
        /\ process \in [Nights -> BOOLEAN]
    BY <1>7 DEF Timeout, history, SaveTypes, ChildKnown
  <2>2. CASE i = index[k] /\ process[k]
    <3>1. /\ child' = [child EXCEPT ![k] = "signalled"]
          /\ process' = [process EXCEPT ![k] = FALSE]
      BY <1>7, <2>2 DEF Timeout
    <3>. QED
      BY <2>1, <3>1 DEF ChildTimed
  <2>3. CASE ~(i = index[k] /\ process[k])
    <3>1. UNCHANGED <<child, process>>
      BY <1>7, <2>3 DEF Timeout
    <3>. QED
      BY <2>1, <2>3, <3>1 DEF ChildTimed
  <2>. QED
    BY <2>2, <2>3
<1>8. ASSUME NEW name \in Names, StdoutData(name) PROVE ChildTimed'
  BY <1>1, <1>8 DEF StdoutData, chain
<1>9. CASE UNCHANGED vars
  BY <1>1, <1>9 DEF vars, chain, history
<1>. QED
  BY <1>2, <1>3, <1>4, <1>5, <1>6, <1>7, <1>8, <1>9 DEF Next

(* Each child that runs has a timer of its own set and a callback that knows *)
(* it, unless it wrote to stderr or another night's child has cleared the    *)
(* one timer the job knows (the undeclared `timeout' of createChild): what   *)
(* NightEnds rests on, for any number of nights at a time.                   *)
THEOREM ChildrenAreTimed == Spec => []ChildTimed
<1>1. Init => ChildTimed
  BY DEF Init, ChildTimed
<1>2. TurnInv => ChildKnown
  BY DEF TurnInv
<1>. QED
  BY InitTypes, NextTypes, InitTurn, NextTurn, <1>1, <1>2, NextTimed, PTL DEF Spec
============================================================================
