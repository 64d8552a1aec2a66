---------------------------- MODULE TraceSystem ----------------------------
(***************************************************************************)
(* A browser page (scripts.js) and its connection at the web server        *)
(* (TraceSession), joined by the two ordered channels of a socket.io       *)
(* connection.  What the user does at the page becomes messages, which the *)
(* server takes in order; what the server's handlers emit is shown by the  *)
(* page when it arrives.  The page has a state of its own, `status', by    *)
(* which it decides whether the user may start a trace, and a timer of its *)
(* own which stops one.                                                    *)
(***************************************************************************)
EXTENDS TraceSession, RouteTable

CONSTANTS
    Hops,         \* hops mtr reports
    Routers,      \* routers that answer it
    Saved,        \* the rows a query for a saved trace may find
    MaxClicks,    \* bound: buttons pressed and dates picked
    MaxQueue      \* bound: messages on their way when mtr writes another

(* The page's tables: of the first, which traces fill too, the rows are       *)
(* modelled; the other two (here one) only show saved traces.                *)
Tables == {0, 1}

(* A row, with the child it is of; no child's, if it was saved, by a router *)
(* that need not answer today. *)
NoChild == 0
Row == [hop : Nat \ {0}, router : STRING, of : Nat]

ASSUME PageAssumption ==
    /\ Hops \subseteq Nat \ {0} /\ Routers \subseteq STRING
    /\ Saved \in Seq(Row) /\ InOrder(Saved)
    /\ \A i \in DOMAIN Saved : Saved[i].of = NoChild
    /\ {MaxClicks, MaxQueue} \subseteq Nat

VARIABLES
    toServer, toPage,   \* messages on their way
    queries,            \* the tables of LOAD_DATA queries which the database has
                        \* not answered
    status,             \* the page's
    clicks,             \* what the user has done; a page timer has its click's number
    pageTimers,         \* page timers that are set
    pageTimeout,        \* the one `timeout' refers to
    displayArray,       \* displayArray[0]
    shown,              \* the rows of table[0]
    picked,             \* history: table[0] emptied by a date since it last was filled
    pressed             \* history: Start was pressed and nothing yet "heard" of its
                        \* trace, or not yet its end; or was pressed "twice" so

page == <<status, clicks, pageTimers, pageTimeout, displayArray, shown, picked, pressed>>
systemVars == <<vars, toServer, toPage, queries, page>>

SystemInit ==
    /\ Init
    /\ toServer = <<>> /\ toPage = <<[command |-> "LINKS"]>> /\ queries = <<>>
    /\ status = "STOPPED" /\ clicks = 0
    /\ pageTimers = {} /\ pageTimeout = 0
    /\ displayArray = <<>> /\ shown = <<>> /\ picked = FALSE /\ pressed = "no"

----------------------------------------------------------------------------
(* The page *)

Request(command) == toServer' = Append(toServer, [command |-> command])

(* ServiceStart; faulty: the rows of the last trace stay. *)
ClearsRows_Omitted == UNCHANGED <<displayArray, shown, picked>>
ClearsRows == displayArray' = <<>> /\ shown' = <<>> /\ picked' = FALSE

(* Only where the page believes that nothing runs.  A timer which is set is *)
(* not asked for.  The rows go even if no name was typed.                    *)
ServiceStart ==
    /\ connected /\ clicks < MaxClicks /\ clicks' = clicks + 1
    /\ status = "STOPPED"
    /\ ClearsRows
    /\ \/ /\ Request("START")
          /\ pageTimeout' = clicks' /\ pageTimers' = pageTimers \cup {clicks'}
          /\ pressed' = IF pressed = "no" THEN "unheard" ELSE "twice"
       \/ UNCHANGED <<toServer, pageTimeout, pageTimers, pressed>>
    /\ UNCHANGED <<vars, toPage, queries, status>>

(* clearInterval(timeout), then STOP. *)
ServiceStop ==
    /\ pageTimers' = pageTimers \ {pageTimeout}
    /\ Request("STOP")
    /\ UNCHANGED <<vars, toPage, queries, status, pageTimeout, displayArray, shown,
                   picked, pressed>>

ClickStop == connected /\ clicks < MaxClicks /\ clicks' = clicks + 1 /\ ServiceStop

(* A page timer fires: it is ServiceStop that runs. *)
PageTimer(k) ==
    /\ connected /\ k \in pageTimers
    /\ pageTimers' = pageTimers \ {k, pageTimeout}
    /\ Request("STOP")
    /\ UNCHANGED <<vars, toPage, queries, status, clicks, pageTimeout, displayArray, shown,
                   picked, pressed>>

(* A date is picked for a table: its rows go, its array stays. *)
PickDate(table) ==
    /\ connected /\ clicks < MaxClicks /\ clicks' = clicks + 1
    /\ IF table = 0 THEN shown' = <<>> /\ picked' = TRUE ELSE UNCHANGED <<shown, picked>>
    /\ toServer' = Append(toServer, [command |-> "LOAD_DATA", table |-> table])
    /\ UNCHANGED <<vars, toPage, queries, status, pageTimers, pageTimeout, displayArray,
                   pressed>>

(* Every message means that something runs, but for these: a saved trace,     *)
(* whichever table it is for, is taken for the end of a running one.         *)
StatusAfter(command) ==
    IF command \in {"STOP", "LINKS", "LOAD_DATA"} THEN "STOPPED" ELSE "RUNNING"

(* What of the trace Start was pressed for has been heard after a message. *)
PressedAfter(command) ==
    IF pressed = "twice" \/ command \in {"LINKS", "LOAD_DATA"} THEN pressed
    ELSE IF command = "STOP" THEN "no"
    ELSE IF pressed = "unheard" THEN "heard" ELSE pressed

(* socket.on('message') *)
PageReceive ==
    /\ connected /\ toPage # <<>> /\ toPage' = Tail(toPage)
    /\ LET m == Head(toPage)
       IN  /\ status' = StatusAfter(m.command)
           /\ pageTimers' = IF m.command \in {"ERROR", "TIMEOUT"}
                              THEN pageTimers \ {pageTimeout} ELSE pageTimers
           /\ pressed' = PressedAfter(m.command)
           /\ CASE m.command = "DATA" ->
                     /\ displayArray' = UpdateTable(displayArray, m.line)
                     /\ shown' = UpdateRows(shown, displayArray, m.line)
                     /\ UNCHANGED picked
                [] m.command = "LOAD_DATA" /\ m.table = 0 ->
                     displayArray' = Saved /\ shown' = Saved /\ picked' = FALSE
                [] OTHER -> UNCHANGED <<displayArray, shown, picked>>
    /\ UNCHANGED <<vars, toServer, queries, clicks, pageTimeout>>

(* The connection is lost, and both ends hear of it.  The page keeps its rows *)
(* and its timer, and socket.io connects again; but at the server that is    *)
(* another connection, without a child, and what follows is left out.        *)
ConnectionLost ==
    /\ Disconnect
    /\ status' = "STOPPED" /\ toServer' = <<>> /\ toPage' = <<>> /\ queries' = <<>>
    /\ UNCHANGED <<clicks, pageTimers, pageTimeout, displayArray, shown, picked, pressed>>

----------------------------------------------------------------------------
(* The server *)

(* socket.on('message'): a START while a child is known, and a STOP while    *)
(* none is, are ignored.                                                     *)
ServerReceive ==
    /\ connected /\ toServer # <<>> /\ toServer' = Tail(toServer)
    /\ LET command == Head(toServer).command
       IN  \/ command = "START" /\ process = Undefined /\ Start /\ UNCHANGED queries
           \/ command = "START" /\ process # Undefined /\ UNCHANGED <<vars, queries>>
           \/ command = "STOP" /\ process # Undefined /\ Stop /\ UNCHANGED queries
           \/ command = "STOP" /\ process = Undefined /\ UNCHANGED <<vars, queries>>
           \/ /\ command = "LOAD_DATA" /\ UNCHANGED vars
              /\ queries' = Append(queries, Head(toServer).table)
    /\ UNCHANGED <<toPage, page>>

Send(message) == toPage' = IF connected THEN Append(toPage, message) ELSE toPage

(* The callback of a query, in the order they were asked: the rows, or        *)
(* nothing if none were saved.                                               *)
QueryAnswered ==
    /\ queries # <<>> /\ queries' = Tail(queries)
    /\ \/ Send([command |-> "LOAD_DATA", table |-> Head(queries)])
       \/ UNCHANGED toPage
    /\ UNCHANGED <<vars, toServer, page>>

(* A child's lines, its errors, its end, its timer.  (Faulty: the close      *)
(* handler does not tell the page.)                                          *)
SendStop_Omitted == UNCHANGED toPage
SendStop == Send([command |-> "STOP"])

ChildWrites(c) ==
    /\ Len(toPage) < MaxQueue
    /\ \/ StdoutData(c) /\ \E hop \in Hops, router \in Routers :
             Send([command |-> "DATA",
                   line |-> [hop |-> hop, router |-> router, of |-> c]])
       \/ StderrData(c) /\ Send([command |-> "ERROR"])
    /\ UNCHANGED <<toServer, queries, page>>

ChildCloses(c) == Close(c) /\ SendStop /\ UNCHANGED <<toServer, queries, page>>

ServerTimeout(c) ==
    /\ Timeout(c)
    /\ IF process # Undefined THEN Send([command |-> "TIMEOUT"]) ELSE UNCHANGED toPage
    /\ UNCHANGED <<toServer, queries, page>>

----------------------------------------------------------------------------

SystemNext ==
    \/ ServiceStart \/ ClickStop \/ \E table \in Tables : PickDate(table)
    \/ \E k \in 1..MaxClicks : PageTimer(k)
    \/ PageReceive \/ ConnectionLost
    \/ ServerReceive \/ QueryAnswered
    \/ \E c \in Children : ChildWrites(c) \/ ChildCloses(c) \/ ServerTimeout(c)

(* As for a session alone; and messages arrive. *)
SystemFairness ==
    /\ \A c \in Children :
         /\ WF_systemVars(ServerTimeout(c))
         /\ WF_systemVars(child[c] = "signalled" /\ ChildCloses(c))
    /\ WF_systemVars(PageReceive) /\ WF_systemVars(ServerReceive)

SystemSpec == SystemInit /\ [][SystemNext]_systemVars /\ SystemFairness

----------------------------------------------------------------------------
(* Properties *)

(* The page never shows rows of two traces as one: Start empties the table,  *)
(* and the end of a trace follows its last row.  The exceptions are a row    *)
(* loaded from the database, with whose trace lines that still come are      *)
(* mixed; a child that was started before an earlier one had closed; a child *)
(* that wrote an error and so was forgotten; and a Start pressed again       *)
(* before the end of the first trace was heard, which the page allows until  *)
(* it hears of the first, and again whenever a saved trace comes, for        *)
(* whichever table: the server takes it for a new trace if the first has     *)
(* ended by then.                                                            *)
OneTraceShown ==
    \A i, j \in DOMAIN displayArray :
        \/ displayArray[i].of = displayArray[j].of
        \/ NoChild \in {displayArray[i].of, displayArray[j].of}
        \/ early # {} \/ noisy # {} \/ pressed = "twice"

(* The rows are in hop order, each hop once, from the first hop on, although *)
(* lines come in any order and rows may be loaded in between.                *)
RowsInOrder == InOrder(displayArray)

(* What the table shows is what its array holds: the two are changed by      *)
(* index, one after the other (splice and deleteRow, insertRow).  Only       *)
(* picking a date, which empties one of them, breaks this until it or        *)
(* another trace fills the table again.                                      *)
ShownIsArray == shown = displayArray \/ picked

(* The page's table is a route.                                              *)
TableIsRoute == RowsInOrder /\ ShownIsArray

(* A page whose trace has ended, in whatever way, hears of it and offers     *)
(* Start again, unless a child nobody ends keeps writing to it.              *)
PageIsFreed ==
    status = "RUNNING" ~> status = "STOPPED" \/ early # {} \/ noisy # {}

=============================================================================
