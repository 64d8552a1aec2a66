--------------------------- MODULE TraceSession ---------------------------
(***************************************************************************)
(* One browser connection at the web server (socketiosever.js): the mtr    *)
(* child process it runs for the browser, the timer which is to end it,    *)
(* and the events of children that have been told to stop but live on.     *)
(* What the handlers emit to the browser is in TraceSystem.                *)
(*                                                                         *)
(* The handlers of a connection share two variables, `process' and         *)
(* `timeout'; each child's handlers outlive its time as `process'.         *)
(* Children are numbered in the order they are spawned, and a timer has    *)
(* the number of the child it was set for.  Node runs one handler at a     *)
(* time; what the handlers wait for comes in any order.                    *)
(***************************************************************************)
EXTENDS Integers, FiniteSets

CONSTANT MaxChildren      \* bound: children spawned for this connection

Children == 1..MaxChildren
Undefined == 0            \* `process' or `timeout' refers to nothing

ASSUME SessionAssumption == MaxChildren \in Nat

VARIABLES
    connected,   \* the browser's socket is open
    spawned,     \* how many children have been started
    child,       \* per child: none, running, signalled, closed
    process,     \* the child the handlers know
    timeout,     \* the timer they know
    timers,      \* the timers that are set
    noisy,       \* history: children that have written to stderr
    early        \* history: children started before an earlier one had closed

vars == <<connected, spawned, child, process, timeout, timers, noisy, early>>

Open == {c \in Children : child[c] \in {"running", "signalled"}}

(* kill('SIGINT') of the child that `process' refers to. *)
Kill == child' = IF child[process] = "running"
                   THEN [child EXCEPT ![process] = "signalled"] ELSE child

(* clearTimeout of the timer that `timeout' refers to; faulty: left out. *)
ClearTimeout_Omitted == timers' = timers
ClearTimeout         == timers' = timers \ {timeout}

Init ==
    /\ connected = TRUE /\ spawned = 0
    /\ child = [c \in Children |-> "none"]
    /\ process = Undefined /\ timeout = Undefined /\ timers = {}
    /\ noisy = {} /\ early = {}

(* START while a child is known is ignored; otherwise mtr is spawned and its *)
(* ten minutes begin.                                                        *)
Start ==
    /\ connected /\ process = Undefined /\ spawned < MaxChildren
    /\ spawned' = spawned + 1
    /\ child' = [child EXCEPT ![spawned + 1] = "running"]
    /\ process' = spawned + 1 /\ timeout' = spawned + 1
    /\ timers' = timers \cup {spawned + 1}
    /\ early' = IF Open = {} THEN early ELSE early \cup {spawned + 1}
    /\ UNCHANGED <<connected, noisy>>

(* STOP *)
Stop ==
    /\ connected /\ process # Undefined
    /\ Kill
    /\ ClearTimeout
    /\ process' = Undefined
    /\ UNCHANGED <<connected, spawned, timeout, noisy, early>>

(* The browser has gone; faulty: its child is forgotten, not killed. *)
Disconnect_Forgets ==
    /\ connected /\ connected' = FALSE
    /\ process' = Undefined
    /\ UNCHANGED <<child, spawned, timeout, timers, noisy, early>>

(* The browser has gone.  The timer stays set. *)
Disconnect ==
    /\ connected /\ connected' = FALSE
    /\ IF process # Undefined THEN Kill /\ process' = Undefined
                              ELSE UNCHANGED <<child, process>>
    /\ UNCHANGED <<spawned, timeout, timers, noisy, early>>

(* Ten minutes have passed since the timer was set; faulty: nothing is done. *)
Timeout_Ignored(c) ==
    /\ c \in timers
    /\ timers' = timers \ {c}
    /\ UNCHANGED <<connected, spawned, child, process, timeout, noisy, early>>

Timeout(c) ==
    /\ c \in timers
    /\ timers' = timers \ {c}
    /\ IF process # Undefined
         THEN Kill /\ process' = Undefined
         ELSE UNCHANGED <<child, process>>
    /\ UNCHANGED <<connected, spawned, timeout, noisy, early>>

(* A child has written: a report line, which goes to the browser and leaves  *)
(* the connection as it is.                                                  *)
StdoutData(c) == c \in Open /\ UNCHANGED vars

(* A child has written to stderr.  Whichever child is known is forgotten. *)
StderrData(c) ==
    /\ c \in Open
    /\ noisy' = noisy \cup {c}
    /\ process' = Undefined
    /\ ClearTimeout
    /\ UNCHANGED <<connected, spawned, child, timeout, early>>

(* A child has exited and its pipes are closed.  Whichever child is known is *)
(* forgotten.                                                                *)
Close(c) ==
    /\ c \in Open
    /\ child' = [child EXCEPT ![c] = "closed"]
    /\ process' = Undefined
    /\ ClearTimeout
    /\ UNCHANGED <<connected, spawned, timeout, noisy, early>>

Next ==
    \/ Start \/ Stop \/ Disconnect
    \/ \E c \in Children : Timeout(c) \/ StdoutData(c) \/ StderrData(c) \/ Close(c)

(* Timers fire, and a child that was sent SIGINT exits.  Nothing else is     *)
(* bound to happen: mtr runs until it is stopped.                            *)
Fairness ==
    \A c \in Children :
        WF_vars(Timeout(c)) /\ WF_vars(child[c] = "signalled" /\ Close(c))

Spec == Init /\ [][Next]_vars /\ Fairness

----------------------------------------------------------------------------
(* Properties *)

(* Every variable holds values of its type; children are spawned in order,   *)
(* and a connection which has closed knows no child.                         *)
TypeOK ==
    /\ connected \in BOOLEAN
    /\ spawned \in 0..MaxChildren
    /\ child \in [Children -> {"none", "running", "signalled", "closed"}]
    /\ \A c \in Children : child[c] = "none" <=> c > spawned
    /\ connected \/ process = Undefined
    /\ process \in 0..spawned /\ timeout \in 0..spawned
    /\ timers \in SUBSET (1..spawned)
    /\ noisy \in SUBSET (1..spawned) /\ early \in SUBSET (1..spawned)

(* While the connection has a child, exactly that child's timer is set:      *)
(* whatever stops, errors and late exits of earlier children came before, no *)
(* earlier timer is left to kill it too soon and none is missing (setTimeout *)
(* in START; clearTimeout in STOP and in the stderr and close handlers).     *)
TimerGuardsProcess ==
    process # Undefined => timeout = process /\ timers = {process}

(* A child that runs and is no longer known to its connection, so that no    *)
(* STOP, timeout or disconnect will end it, has written to stderr, or was    *)
(* started before an earlier child had exited: the stderr and close handlers *)
(* forget `process' without asking whether it is the child they speak for.   *)
OrphansExplained ==
    \A c \in Children :
        child[c] = "running" => c = process \/ c \in noisy \/ c \in early

(* A child always ends, by its own exit, a STOP, a disconnect or its ten     *)
(* minutes, unless it is one of those.                                       *)
TraceEnds ==
    \A c \in Children :
        child[c] = "running" ~> child[c] = "closed" \/ c \in noisy \/ c \in early

============================================================================
