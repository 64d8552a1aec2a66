---------------------------- MODULE NightlySave ----------------------------
(***************************************************************************)
(* What the web server keeps in its database (socketiosever.js): the       *)
(* destinations that were ever traced, put there by the sessions, the      *)
(* table each of them has every night, put there by a chain of mtr         *)
(* children, one after the other.                                          *)
(*                                                                         *)
(* Three things are shared by handlers that never run together but in any  *)
(* order: the variable `destinations', which the nightly job sets to a new *)
(* array while its chain goes on using the one it was given; the variable  *)
(* `timeout' of the job, which nothing declares, so that the children of   *)
(* two nights have one between them, and one chain clears the timer of the *)
(* other's child; and the database connection, which answers queries one   *)
(* by one in their order.                                                  *)
(***************************************************************************)
EXTENDS Integers, Sequences, FiniteSets, SequencesExt

CONSTANTS
    Names,         \* destinations
    Before,        \* the table's contents when the server first starts
    MaxNights,     \* bound: times the job runs
    MaxWrites,     \* bound: output of sessions' children
    MaxRestarts    \* bound: times the server ends and is started again

Nights == 1..MaxNights
NoName == "undefined"
Nobody == <<0, 0>>

ASSUME NightAssumption ==
    /\ NoName \notin Names /\ Before \subseteq Seq(Names)
    /\ {MaxNights, MaxWrites, MaxRestarts} \subseteq Nat

VARIABLES
    mtr_dest,      \* the table of destinations, in the order of insertion
    mtr_save,      \* the table of saved traces: what each night has saved
    queries,       \* queries the database has not answered
    arrays,        \* arrays that `destinations' has been: the first, and each night's
    destinations,  \* which of them it is now
    night,         \* how often the job has run
    index,         \* per night: the place in its array of the child that runs
    length,        \* per night: noOfDestinations, as of that child's start
    traced,        \* per night: what that child was asked to trace
    child,         \* per night: none, running, signalled, or the chain has ended
    process,       \* per night: the child is known
    timeout,       \* the timer the job knows: night and place
    timers,        \* the timers that are set
    noisy,         \* history: nights whose child, the one that runs, wrote to stderr
    robbed,        \* history: nights the timer of whose child another night has cleared
    inherited,     \* history: names in the table when the server was last started
    raced,         \* history: names a session added while a SELECT was under way
    writes, restarts   \* bounds: used

database == <<mtr_dest, mtr_save, queries>>
list == <<arrays, destinations>>
chain == <<night, index, length, traced, child, process, timeout, timers>>
history == <<noisy, robbed, inherited, raced>>
used == <<writes, restarts>>
vars == <<database, list, chain, history, used>>

Init ==
    /\ mtr_dest \in Before /\ mtr_save = [k \in Nights |-> <<>>] /\ queries = <<>>
    /\ arrays = [k \in 0..MaxNights |-> <<>>] /\ destinations = 0
    /\ night = 0 /\ index = [k \in Nights |-> 0] /\ length = [k \in Nights |-> 0]
    /\ traced = [k \in Nights |-> NoName]
    /\ child = [k \in Nights |-> "none"] /\ process = [k \in Nights |-> FALSE]
    /\ timeout = Nobody /\ timers = {}
    /\ noisy = {} /\ robbed = {} /\ inherited = ToSet(mtr_dest) /\ raced = {}
    /\ writes = 0 /\ restarts = 0

Open(k) == child[k] \in {"running", "signalled"}
NameAt(array, i) == IF i \in DOMAIN array THEN array[i] ELSE NoName

----------------------------------------------------------------------------
(* The job *)

(* Once a day, whether the chain of the day before has ended or not: a list  *)
(* may take longer than a day, or have a child that nothing ends.            *)
Job ==
    /\ night < MaxNights /\ night' = night + 1
    /\ queries' = Append(queries, [query |-> "SELECT", of |-> night + 1])
    /\ UNCHANGED <<mtr_dest, mtr_save, list, index, length, traced, child, process, timeout,
                   timers, history, used>>

(* createChild.  If there is no such place in the array, of an empty one the *)
(* first, mtr is asked for `undefined'.                                      *)
CreateChild(k, i, array) ==
    /\ index' = [index EXCEPT ![k] = i] /\ length' = [length EXCEPT ![k] = Len(array)]
    /\ traced' = [traced EXCEPT ![k] = NameAt(array, i)]
    /\ child' = [child EXCEPT ![k] = "running"] /\ process' = [process EXCEPT ![k] = TRUE]
    /\ timeout' = <<k, i>>

(* The callback of SELECT: `destinations' is a new array from here on. *)
SelectAnswered(k) ==
    /\ arrays' = [arrays EXCEPT ![k] = mtr_dest] /\ destinations' = k
    /\ CreateChild(k, 1, mtr_dest) /\ timers' = timers \cup {<<k, 1>>}
    /\ UNCHANGED <<mtr_dest, mtr_save, night, history>>

(* A minute after the child was started: the child its own callback knows.   *)
Timeout(k, i) ==
    /\ <<k, i>> \in timers /\ timers' = timers \ {<<k, i>>}
    /\ IF i = index[k] /\ process[k]
         THEN /\ child' = [child EXCEPT ![k] = "signalled"]
              /\ process' = [process EXCEPT ![k] = FALSE]
         ELSE UNCHANGED <<child, process>>
    /\ UNCHANGED <<database, list, night, index, length, traced, timeout, history, used>>

(* clearTimeout(timeout): of whichever child was started last.               *)
ClearTimeout == timers \ {timeout}

(* The child of night k clears it, and it is another night's. *)
RobbedBy(k) == {j \in Nights \ {k} : timeout \in timers /\ timeout = <<j, index[j]>>}

(* Any number of times while the child runs. *)
StderrData(k) ==
    /\ Open(k)
    /\ process' = [process EXCEPT ![k] = FALSE] /\ timers' = ClearTimeout
    /\ noisy' = noisy \cup {k} /\ robbed' = robbed \cup RobbedBy(k)
    /\ UNCHANGED <<database, list, night, index, length, traced, child, timeout,
                   inherited, raced, used>>

(* The name the row is saved by; faulty: taken after index++. *)
SavedName_Late(k) == NameAt(arrays[k], index[k] + 1)
SavedName(k) == NameAt(arrays[k], index[k])

(* The timer is cleared, and that of the next child is set; faulty: the      *)
(* other way round.                                                          *)
NextTimers_ClearedLast(k) == timers
NextTimers(k) == ClearTimeout \cup {<<k, index[k] + 1>>}

(* The child has exited: its row is saved, and the next one started if there *)
(* were more destinations when it was started itself.                        *)
Close(k) ==
    /\ Open(k)
    /\ queries' = Append(queries, [query |-> "INSERT save",
                                   name |-> SavedName(k), traced |-> traced[k], of |-> k])
    /\ noisy' = noisy \ {k} /\ robbed' = (robbed \cup RobbedBy(k)) \ {k}
    /\ IF index[k] < length[k]
         THEN /\ CreateChild(k, index[k] + 1, arrays[k])
              /\ timers' = NextTimers(k)
         ELSE /\ child' = [child EXCEPT ![k] = "ended"]
              /\ process' = [process EXCEPT ![k] = FALSE] /\ timers' = ClearTimeout
              /\ index' = [index EXCEPT ![k] = @ + 1] /\ UNCHANGED <<length, traced, timeout>>
    /\ UNCHANGED <<mtr_dest, mtr_save, list, night, inherited, raced, used>>

----------------------------------------------------------------------------
(* Sessions *)

(* A session's child has written.  A destination `destinations' does not     *)
(* have is inserted into the table, and pushed to the array; faulty: only    *)
(* inserted.                                                                 *)
Push_Omitted(name) == arrays
Push(name) == [arrays EXCEPT ![destinations] = Append(@, name)]

SelectPending == \E i \in DOMAIN queries : queries[i].query = "SELECT"

StdoutData(name) ==
    /\ writes < MaxWrites /\ writes' = writes + 1
    /\ IF name \in ToSet(arrays[destinations])
         THEN UNCHANGED <<queries, arrays, raced>>
         ELSE /\ queries' = Append(queries, [query |-> "INSERT dest", name |-> name])
              /\ arrays' = Push(name)
              /\ raced' = IF SelectPending THEN raced \cup {name} ELSE raced
    /\ UNCHANGED <<mtr_dest, mtr_save, destinations, chain, noisy, robbed, inherited, restarts>>

----------------------------------------------------------------------------
(* The database, and the server's end *)

(* The first query is answered. *)
Answered ==
    /\ queries # <<>> /\ queries' = Tail(queries)
    /\ LET q == Head(queries)
       IN  \/ q.query = "SELECT" /\ SelectAnswered(q.of)
           \/ /\ q.query = "INSERT dest" /\ mtr_dest' = Append(mtr_dest, q.name)
              /\ UNCHANGED <<mtr_save, list, chain, history>>
           \/ /\ q.query = "INSERT save" 
              /\ mtr_save' = [mtr_save EXCEPT ![q.of] =
                                Append(@, [name |-> q.name, traced |-> q.traced])]
              /\ UNCHANGED <<mtr_dest, list, chain, history>>
    /\ UNCHANGED used

(* The server ends (as an error event of spawn, which nothing listens for,   *)
(* would make it) and is started again: the tables are what is left.  The    *)
(* first query may have reached the database.                                *)
Restart ==
    /\ restarts < MaxRestarts /\ restarts' = restarts + 1
    /\ \/ UNCHANGED mtr_dest
       \/ /\ queries # <<>> /\ Head(queries).query = "INSERT dest"
          /\ mtr_dest' = Append(mtr_dest, Head(queries).name)
    /\ inherited' = ToSet(mtr_dest')
    /\ queries' = <<>> /\ destinations' = 0 /\ arrays' = [k \in 0..MaxNights |-> <<>>]
    /\ child' = [k \in Nights |-> IF k <= night THEN "ended" ELSE "none"]
    /\ process' = [k \in Nights |-> FALSE] /\ timeout' = Nobody /\ timers' = {}
    /\ noisy' = {} /\ robbed' = {}
    /\ UNCHANGED <<mtr_save, night, index, length, traced, raced, writes>>

----------------------------------------------------------------------------

Next ==
    \/ Job \/ Answered \/ Restart
    \/ \E k \in Nights : StderrData(k) \/ Close(k)
    \/ \E k \in Nights, i \in 1..MaxWrites + 2 : Timeout(k, i)
    \/ \E name \in Names : StdoutData(name)

(* Queries are answered, timers fire, and a child that was sent SIGINT exits. *)
Fairness ==
    /\ WF_vars(Answered)
    /\ \A k \in Nights : WF_vars(child[k] = "signalled" /\ Close(k))
    /\ \A k \in Nights, i \in 1..MaxWrites + 2 : WF_vars(Timeout(k, i))

Spec == Init /\ [][Next]_vars /\ Fairness

----------------------------------------------------------------------------
(* Properties *)

(* A destination is in the table once, although every piece of output of     *)
(* every session asks for it (the lookup, the query and the push run as one  *)
(* handler).  The exceptions are those that were in the table when the       *)
(* server was started, of which it knows nothing until its first night, and  *)
(* those traced while a night's SELECT is under way, whose push goes to an   *)
(* array that is no longer used.                                             *)
InsertedOnce ==
    \A i, j \in DOMAIN mtr_dest :
        mtr_dest[i] = mtr_dest[j] =>
            i = j \/ mtr_dest[i] \in inherited \cup raced

(* What a night has saved are the destinations of its array in their order,  *)
(* from the first to where its chain is, each once, and each row under the   *)
(* name that was traced for it: whatever sessions push to that array in the  *)
(* meantime, and even while the chain of another night runs.  The exception  *)
(* is a night whose array is empty: one row, of a trace of `undefined', is   *)
(* saved under the name that is first in the array by the time the trace     *)
(* ends, if there is one then.                                               *)
PendingBy(k) ==
    {i \in DOMAIN queries : queries[i].query = "INSERT save" /\ queries[i].of = k}
SavedInTurn ==
    \A k \in Nights :
        LET done == mtr_save[k]
        IN  \/ restarts > 0
            \/ /\ Len(done) + Cardinality(PendingBy(k)) = (IF index[k] = 0 THEN 0 ELSE index[k] - 1)
               /\ \A i \in DOMAIN done :
                    \/ done[i] = [name |-> NameAt(arrays[k], i), traced |-> NameAt(arrays[k], i)]
                    \/ i = 1 /\ length[k] = 0 /\ done[i].traced = NoName

(* Each child of a night ends and lets the next one begin, and so the night  *)
(* with the last of them: by itself or by its minute.  The exceptions are    *)
(* the two ways to lose the timer: the child has written to stderr, or that  *)
(* of another night, which runs at the same time, has written or ended and   *)
(* cleared the one timer that the job knows of.                              *)
NightEnds ==
    \A k \in Nights : \A i \in 1..MaxWrites + 2 :
        child[k] = "running" /\ index[k] = i
            ~> index[k] # i \/ child[k] = "ended" \/ k \in noisy \cup robbed

=============================================================================
