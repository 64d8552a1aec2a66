----------------------------- MODULE PacketPipe -----------------------------
(***************************************************************************)
(* mtr (ui/mtr.c, net.c, select.c, cmdpipe.c) and the mtr-packet processes *)
(* it starts, joined by a pair of pipes each.  For every name on the       *)
(* command line mtr forks an mtr-packet, asks it with blocking reads what  *)
(* it supports, and runs select_loop, which writes probes when their time  *)
(* has come and reads replies when there are any.                          *)
(*                                                                         *)
(* A reply is written in two halves, the second of which ends with the     *)
(* newline: stdio writes what its buffer holds, and read() takes what its  *)
(* buffer has room for, wherever the lines end.  What an engine does with  *)
(* a probe is told in ProbeEngine, what becomes of a credited reply in     *)
(* NetTable; of an engine's round only what reaches the pipes is here.     *)
(***************************************************************************)
EXTENDS Integers, Sequences, FiniteSets

CONSTANTS
    MaxTargets,     \* bound: names on the command line
    MaxRounds,      \* bound: rounds of probes in all
    Counts,         \* the numbers of rounds asked for (-c) which are tried
    Features,       \* check-support queries made of each mtr-packet
    Hops,           \* probes of one round (a batch of net_send_batch)
    GraceTime,      \* ctl->GraceTime, in intervals
    MaxProbes,      \* MAX_PROBES of an mtr-packet
    CommandPipe,    \* commands a pipe holds
    CommandRoom,    \* commands incoming_buffer holds
    ReplyPipe,      \* half replies a pipe holds
    StdioBuffer,    \* half replies stdout's buffer holds: one write()
    ReplyRoom,      \* half replies reply_buffer holds
    MaxKeys,        \* bound: keys pressed
    MaxCrashes      \* bound: engines which die of their own

Engines == 1..MaxTargets

ASSUME PipeAssumption ==
    /\ {MaxTargets, Features, Hops, MaxProbes, CommandPipe, CommandRoom} \subseteq Nat \ {0}
    /\ MaxRounds \in Nat \ {0} /\ Counts \subseteq 1..MaxRounds /\ GraceTime \in Nat
    /\ {StdioBuffer, ReplyRoom, ReplyPipe} \subseteq Nat
    /\ StdioBuffer >= 2 /\ ReplyRoom >= 2
    /\ MaxKeys \in Nat /\ MaxCrashes \in Nat

VARIABLES
    pc,             \* where mtr is
    why,            \* how it ended
    target,         \* the name it is at
    mode,           \* options: interactive, limited (a report, or -c), MaxPing, names
    checked,        \* features confirmed
    anyset, paused, graceperiod, NumPing,   \* select_loop's
    at,             \* batch_at: hops probed in this round
    sinceLast,      \* intervals since lasttime
    sinceGrace,     \* intervals since startgrace
    reply_buffer,   \* halves read and not yet whole
    strayed,        \* history: a reply was handled which is of another target
    alive,          \* an engine's process
    commands,       \* the pipe to it
    incoming,       \* commands it has read
    stage,          \* where it is in a pass of its loop
    outstanding,    \* its probes
    stdout,         \* halves printed and not written
    replies,        \* the pipe from it
    asked,          \* history: how many commands it was sent
    owed,           \* history: replies it has printed and mtr not handled
    most,           \* history: the most probes it has had outstanding at once
    keys, crashes   \* bounds: used

ui == <<target, mode, checked, NumPing, at>>
loop == <<anyset, paused, graceperiod, sinceLast, sinceGrace>>
history == <<owed, strayed>>
inside == <<incoming, stage, outstanding, stdout, most>>     \* an engine's own
daemon == <<alive, commands, inside, replies, asked>>
vars == <<pc, why, ui, loop, reply_buffer, daemon, history, keys, crashes>>

(* open_command_pipe makes new pipes and a new process for each target;     *)
(* faulty: one which is there is used again.                                *)
PipeOf_Kept(t) == 1
PipeOf(t) == t
engine == PipeOf(target)

HalvesOf(seq) ==
    [k \in 1..2 * Len(seq) |-> [reply |-> seq[(k + 1) \div 2], part |-> 2 - (k % 2)]]
Halves(reply) == HalvesOf(<<reply>>)

Init ==
    /\ pc = "open" /\ why = "" /\ target = 0
    /\ mode \in [interactive : BOOLEAN, limited : BOOLEAN,
                MaxPing : Counts, names : Engines]
    /\ IF mode.interactive THEN mode.names = 1 ELSE mode.limited
    /\ mode.MaxPing * mode.names <= MaxRounds
    /\ ~mode.limited => mode.MaxPing = MaxRounds
    /\ checked = 0 /\ anyset = FALSE /\ paused = FALSE /\ graceperiod = FALSE
    /\ NumPing = 0 /\ at = 0 /\ sinceLast = 0 /\ sinceGrace = 0
    /\ reply_buffer = <<>> /\ strayed = FALSE
    /\ alive = [e \in Engines |-> "none"]
    /\ commands = [e \in Engines |-> <<>>] /\ incoming = commands
    /\ stage = [e \in Engines |-> "receive"]
    /\ outstanding = [e \in Engines |-> {}]
    /\ stdout = commands /\ replies = commands
    /\ asked = [e \in Engines |-> 0] /\ most = asked /\ owed = commands
    /\ keys = 0 /\ crashes = 0

Gone == alive[engine] = "gone"

Exit(reason) == pc' = "exited" /\ why' = reason

(* (Histories: the replies which end at these places reach their end.)  *)
Handle(bytes, places) ==
    /\ owed' = [owed EXCEPT ![engine] = SubSeq(@, Cardinality(places) + 1, Len(@))]
    /\ strayed' = (strayed \/ \E i \in places : bytes[i].reply.of # target)

----------------------------------------------------------------------------
(* Starting an mtr-packet *)

(* net_open: fork and net_reset.  The pipes of an earlier target stay open. *)
OpenPipe ==
    /\ pc = "open" /\ target < MaxTargets
    /\ target' = target + 1
    /\ alive' = [alive EXCEPT ![PipeOf(target')] = IF @ = "none" THEN "forked" ELSE @]
    /\ checked' = 0 /\ reply_buffer' = <<>> /\ at' = 0
    /\ pc' = "check"
    /\ UNCHANGED <<why, mode, NumPing, loop, commands, inside, replies, asked, history, keys, crashes>>

(* The child finds its program, or tries three times and exits. *)
Exec(e) ==
    /\ alive[e] = "forked"
    /\ \E now \in {"running", "gone"} : alive' = [alive EXCEPT ![e] = now]
    /\ UNCHANGED <<pc, why, ui, loop, reply_buffer, commands, inside, replies, asked, history, keys, crashes>>

Command(kind) ==
    /\ asked' = [asked EXCEPT ![engine] = @ + 1]
    /\ commands' = [commands EXCEPT ![engine] = Append(@, [n |-> asked'[engine], kind |-> kind])]

(* Writing to a process that has gone is a SIGPIPE. *)
WriteQuery ==
    /\ pc = "check"
    /\ \/ Gone /\ Exit("sigpipe") /\ UNCHANGED <<commands, asked>>
       \/ ~Gone /\ Command("check") /\ pc' = "await" /\ UNCHANGED why
    /\ UNCHANGED <<ui, loop, reply_buffer, alive, inside, replies,
                   history, keys, crashes>>

(* One blocking read() has to bring the whole reply, and it to say `ok'.    *)
(* After the last feature select_loop starts, with NumPing and the rest new. *)
ReadSupport ==
    /\ pc = "await"
    /\ \/ replies[engine] = <<>> /\ Gone
          /\ Exit("eof") /\ UNCHANGED <<checked, history, replies, loop, NumPing>>
       \/ replies[engine] # <<>>
          /\ replies' = [replies EXCEPT ![engine] = <<>>]
          /\ LET got   == replies[engine]
                 reply == got[1].reply
             IN  IF got # Halves(reply)
                 THEN Exit("parse") /\ UNCHANGED <<checked, history, loop, NumPing>>
                 ELSE /\ Handle(got, {2})
                      /\ IF reply.what # "ok"
                         THEN Exit("unsupported") /\ UNCHANGED <<checked, loop, NumPing>>
                         ELSE /\ checked' = checked + 1
                              /\ pc' = IF checked' = Features THEN "loop" ELSE "check"
                              /\ anyset' = FALSE /\ paused' = FALSE /\ graceperiod' = FALSE
                              /\ NumPing' = 0 /\ sinceLast' = 0 /\ sinceGrace' = 0
                              /\ UNCHANGED why
    /\ UNCHANGED <<target, mode, at, reply_buffer, alive, commands, inside, asked, keys, crashes>>

----------------------------------------------------------------------------
(* select_loop *)

(* After any event, and while paused, descriptors are only looked at. *)
Polls == anyset \/ paused

PassPolling ==
    /\ pc = "loop" /\ Polls /\ pc' = "select"
    /\ UNCHANGED <<why, ui, loop, reply_buffer, daemon, history, keys, crashes>>

Due == sinceLast >= 1

(* Enough rounds have been sent. *)
Enough == NumPing >= mode.MaxPing /\ mode.limited

(* The time has come, and there are rounds left to send. *)
PassSending ==
    /\ pc = "loop" /\ ~Polls /\ Due /\ ~graceperiod /\ ~Enough
    /\ sinceLast' = 0 /\ pc' = "send"
    /\ UNCHANGED <<why, ui, anyset, paused, graceperiod, sinceGrace, reply_buffer, daemon, history,
                   keys, crashes>>

SinceGrace == IF graceperiod THEN sinceGrace ELSE 0

(* Nothing to send: wait, or wait no longer. *)
PassWaiting ==
    /\ pc = "loop" /\ ~Polls /\ (Due => graceperiod \/ Enough)
    /\ sinceLast' = IF Due THEN 0 ELSE sinceLast
    /\ graceperiod' = (graceperiod \/ Due)
    /\ sinceGrace' = SinceGrace
    /\ pc' = IF graceperiod' /\ GraceTime < SinceGrace THEN "left" ELSE "select"
    /\ UNCHANGED <<why, ui, anyset, paused, reply_buffer, daemon, history, keys, crashes>>

(* net_send_batch: one send-probe, written as soon as the pipe has room.    *)
(* The last hop of a round counts it.                                        *)
SendProbe ==
    /\ pc = "send"
    /\ \/ Gone /\ Exit("sigpipe") /\ UNCHANGED <<commands, asked, at, NumPing>>
       \/ /\ ~Gone /\ Len(commands[engine]) < CommandPipe
          /\ Command("probe") /\ pc' = "select" /\ UNCHANGED why
          /\ IF at + 1 = Hops THEN at' = 0 /\ NumPing' = NumPing + 1
                              ELSE at' = at + 1 /\ UNCHANGED NumPing
    /\ UNCHANGED <<target, mode, checked, loop, reply_buffer, alive, inside, replies, history, keys, crashes>>

----------------------------------------------------------------------------
(* select() returns *)

(* Faulty: the time for a probe goes before what there is to read. *)
Readable_NotWhenDue == ~Due /\ (replies[engine] # <<>> \/ Gone)
Readable == replies[engine] # <<>> \/ Gone
Fatal == {"fatal"}       \* handle_reply_errors

(* The newlines among these bytes; those of errors which end mtr. *)
Ends(bytes) == {i \in DOMAIN bytes : bytes[i].part = 2}
FatalEnds(bytes) == {i \in Ends(bytes) : bytes[i].reply.what \in Fatal}

(* consume_reply_buffer: every line that has its newline is handled, up to  *)
(* one which ends mtr; the rest moves to the front.  Faulty: it is dropped.  *)
Handled(bytes) == {i \in Ends(bytes) : \A j \in FatalEnds(bytes) : i <= j}
Rest_Dropped(bytes) == <<>>
Rest(bytes) ==
    IF Ends(bytes) = {} THEN bytes
    ELSE SubSeq(bytes, 1 + CHOOSE i \in Ends(bytes) : \A j \in Ends(bytes) : j <= i, Len(bytes))
Parses(bytes) ==
    \A i \in Ends(bytes) :
        i > 1 /\ bytes[i - 1] = [reply |-> bytes[i].reply, part |-> 1]

Consume(bytes) ==
    /\ Handle(bytes, Handled(bytes))
    /\ reply_buffer' = Rest(bytes)
    /\ IF ~Parses(bytes) THEN Exit("parse")
       ELSE IF FatalEnds(bytes) # {} THEN Exit("fatal")
       ELSE pc' = "loop" /\ UNCHANGED why

(* handle_command_replies; faulty: an end of file passes for EAGAIN. *)
EndOfReplies_Ignored == FALSE
EndOfReplies == replies[engine] = <<>>

NetReturn ==
    IF EndOfReplies THEN Exit("eof") /\ UNCHANGED <<history, reply_buffer, replies>>
    ELSE LET room  == ReplyRoom - Len(reply_buffer)
             there == replies[engine]
             taken == IF Len(there) < room THEN Len(there) ELSE room
         IN  /\ replies' = [replies EXCEPT ![engine] = SubSeq(there, taken + 1, Len(there))]
             /\ Consume(reply_buffer \o SubSeq(there, 1, taken))

(* What a key does to the loop; display, MPLS, DNS and scroll keys do none. *)
Key(k) ==
    CASE k = "pause"  -> paused' = TRUE /\ pc' = "loop"
      [] k = "resume" -> paused' = FALSE /\ pc' = "loop"
      [] k = "quit"   -> pc' = "left" /\ UNCHANGED paused
      [] OTHER        -> pc' = "loop" /\ UNCHANGED paused

WakeForReplies ==
    /\ pc = "select" /\ Readable
    /\ NetReturn /\ anyset' = TRUE
    /\ UNCHANGED <<target, mode, checked, NumPing, at, paused, graceperiod, sinceLast,
                   sinceGrace, alive, commands, inside, asked,
                   keys, crashes>>

(* (With replies there as well, they are read first, in the action above.)  *)
WakeForKey ==
    /\ pc = "select" /\ ~Readable
    /\ mode.interactive /\ keys < MaxKeys /\ keys' = keys + 1
    /\ \E k \in {"pause", "resume", "quit", "other"} : Key(k)
    /\ anyset' = TRUE
    /\ UNCHANGED <<why, ui, graceperiod, sinceLast, sinceGrace, reply_buffer, daemon, history, crashes>>

WakeByTimeout ==
    /\ pc = "select" /\ ~Readable /\ (Polls \/ Due)
    /\ pc' = "loop" /\ anyset' = FALSE
    /\ UNCHANGED <<why, ui, paused, graceperiod, sinceLast, sinceGrace, reply_buffer,
                   daemon, history, keys, crashes>>

(* An interval passes; the counts stop where nothing more depends on them.  *)
Tick ==
    /\ pc \in {"loop", "send", "select"}
    /\ ~Due \/ (graceperiod /\ sinceGrace <= GraceTime)
    /\ mode.limited \/ NumPing < MaxRounds
    /\ sinceLast' = 1
    /\ sinceGrace' = IF graceperiod /\ sinceGrace <= GraceTime THEN sinceGrace + 1 ELSE sinceGrace
    /\ UNCHANGED <<pc, why, ui, anyset, paused, graceperiod, reply_buffer, daemon, history, keys, crashes>>

(* main: a report goes on to the next name; in the end net_close kills the  *)
(* last child.                                                               *)
NextTarget ==
    /\ pc = "left" /\ ~mode.interactive /\ target < mode.names
    /\ pc' = "open"
    /\ UNCHANGED <<why, ui, loop, reply_buffer, daemon, history, keys, crashes>>

ClosePipe ==
    /\ pc = "left" /\ Exit("done")
    /\ alive' = [alive EXCEPT ![engine] = "gone"]
    /\ UNCHANGED <<ui, loop, reply_buffer, commands, inside, replies,
                   asked, history, keys, crashes>>

----------------------------------------------------------------------------
(* mtr-packet, as the pipes see it *)

PutLine(e, reply) ==
    /\ owed' = [owed EXCEPT ![e] = Append(@, reply)]
    /\ stdout' = [stdout EXCEPT ![e] = @ \o Halves(reply)]

(* Its stdin is at end of file when no process has the other end: the child *)
(* itself closes its copy before exec.  Faulty: it does not.                 *)
StdinClosed_Kept(e) == FALSE
StdinClosed(e) == pc = "exited"

(* stdio writes a buffer when it is full, before anything else is done.      *)
Full(e) == Len(stdout[e]) >= StdioBuffer
Serves(e) == alive[e] = "running" /\ ~Full(e)

(* One pass of main's loop.  Results that have come by a packet are printed  *)
(* before commands are read, those that have come by time after that; ...    *)
Result(e) ==
    /\ Serves(e) /\ stage[e] \in {"receive", "expire"}
    /\ \E n \in outstanding[e] :
         /\ outstanding' = [outstanding EXCEPT ![e] = @ \ {n}]
         /\ PutLine(e, [of |-> e, n |-> n, what |-> "line"])
    /\ UNCHANGED <<alive, commands, incoming, stage, most>>

(* ... as many commands are read as there is room for, ... *)
CommandsTaken(e) == IF Len(commands[e]) < CommandRoom THEN Len(commands[e]) ELSE CommandRoom

ReadCommands(e) ==
    /\ Serves(e) /\ stage[e] = "receive"
    /\ commands[e] # <<>> \/ stdout[e] # <<>>       \* wait_for_activity
    /\ stage' = [stage EXCEPT ![e] = "expire"]
    /\ incoming' = [incoming EXCEPT ![e] = SubSeq(commands[e], 1, CommandsTaken(e))]
    /\ commands' = [commands EXCEPT ![e] =
                       SubSeq(@, CommandsTaken(e) + 1, Len(@))]
    /\ UNCHANGED <<alive, outstanding, stdout, owed, most>>

(* alloc_probe finds no free entry. *)
Exhausted(e) == Cardinality(outstanding[e]) >= MaxProbes

(* ... each of which is answered now or becomes a probe; the pass is over    *)
(* when none is left and nothing is to be written.                           *)
Dispatch(e) ==
    /\ Serves(e) /\ incoming[e] # <<>>
    /\ incoming' = [incoming EXCEPT ![e] = Tail(@)]
    /\ LET c == Head(incoming[e])
           reply(what) == [of |-> e, n |-> c.n, what |-> what]
       IN  \/ /\ c.kind = "check"
              /\ \E what \in {"ok", "no"} : PutLine(e, reply(what))
              /\ UNCHANGED <<outstanding, most>>
           \/ /\ c.kind = "probe" /\ ~Exhausted(e)
              /\ outstanding' = [outstanding EXCEPT ![e] = @ \cup {c.n}]
              /\ most' = [most EXCEPT ![e] = IF Cardinality(outstanding'[e]) > @
                                             THEN Cardinality(outstanding'[e]) ELSE @]
              /\ UNCHANGED <<stdout, owed>>
           \/ /\ c.kind = "probe"
              /\ \E what \in {"line", "fatal"} :
                   /\ Exhausted(e) => what = "fatal"
                   /\ PutLine(e, reply(what))
              /\ UNCHANGED <<outstanding, most>>
    /\ stage' = [stage EXCEPT ![e] =
                    IF incoming'[e] = <<>> /\ stdout'[e] = <<>> THEN "receive" ELSE "dispatch"]
    /\ UNCHANGED <<alive, commands>>

(* ... and fflush writes what is left, before the next pass.  A write waits  *)
(* for the pipe to have room.                                                *)
Writing(e) ==
    /\ alive[e] = "running" /\ stdout[e] # <<>>
    /\ Full(e) \/ (stage[e] # "receive" /\ incoming[e] = <<>>)
Chunk(e) == IF Len(stdout[e]) < StdioBuffer THEN Len(stdout[e]) ELSE StdioBuffer
Fits(e) == Len(replies[e]) + Chunk(e) <= ReplyPipe

Flush(e) ==
    /\ Writing(e)
    /\ \/ /\ pc = "exited" /\ alive' = [alive EXCEPT ![e] = "gone"]   \* SIGPIPE
          /\ UNCHANGED <<replies, stdout, stage>>
       \/ /\ pc # "exited" /\ Fits(e)
          /\ replies' = [replies EXCEPT ![e] = @ \o SubSeq(stdout[e], 1, Chunk(e))]
          /\ stdout' = [stdout EXCEPT ![e] = SubSeq(@, Chunk(e) + 1, Len(@))]
          /\ stage' = [stage EXCEPT ![e] =
                          IF incoming[e] = <<>> /\ stdout'[e] = <<>> THEN "receive" ELSE @]
          /\ UNCHANGED alive

(* End of file, and nothing outstanding: main returns. *)
EngineEnds(e) ==
    /\ alive[e] = "running" /\ stage[e] = "receive" /\ stdout[e] = <<>>
    /\ StdinClosed(e) /\ commands[e] = <<>> /\ outstanding[e] = {}
    /\ alive' = [alive EXCEPT ![e] = "gone"]

(* Or it dies on an error of its own. *)
Crash(e) ==
    /\ alive[e] = "running" /\ crashes < MaxCrashes
    /\ crashes' = crashes + 1
    /\ alive' = [alive EXCEPT ![e] = "gone"]
    /\ UNCHANGED <<pc, why, ui, loop, reply_buffer, commands, inside,
                   replies, asked, history, keys>>

Serve(e) ==
    /\ \/ (Result(e) \/ ReadCommands(e) \/ Dispatch(e)) /\ UNCHANGED replies
       \/ Flush(e) /\ UNCHANGED <<commands, incoming, outstanding, owed, most>>
       \/ EngineEnds(e) /\ UNCHANGED <<commands, inside, replies, owed>>
    /\ UNCHANGED <<pc, why, ui, loop, reply_buffer, asked, strayed, keys, crashes>>

----------------------------------------------------------------------------

Client ==
    \/ OpenPipe \/ WriteQuery \/ ReadSupport
    \/ PassPolling \/ PassSending \/ PassWaiting \/ SendProbe
    \/ WakeForReplies \/ WakeByTimeout
    \/ NextTarget \/ ClosePipe

Next ==
    \/ Client \/ WakeForKey \/ Tick
    \/ \E e \in Engines : Exec(e) \/ Serve(e) \/ Crash(e)

(* Both processes run, time passes, a child's exec returns or does not.      *)
(* Nobody has to press a key, and no process has to die.                     *)
Fairness ==
    /\ WF_vars(Client) /\ WF_vars(Tick)
    /\ \A e \in Engines : WF_vars(Exec(e)) /\ WF_vars(Serve(e))

Spec == Init /\ [][Next]_vars /\ Fairness

----------------------------------------------------------------------------
(* Properties *)

(* Wherever write() and read() cut the text, nothing an engine printed is    *)
(* lost, repeated, reordered or glued to another line on its way: what mtr   *)
(* holds in reply_buffer and has yet to read is what was printed and has not *)
(* been handled.  And no part of a reply is parsed for a whole one, neither   *)
(* by the one blocking read() of the start-up query nor by the buffered reads *)
(* later: mtr never ends with `reply parse failure'.                          *)
RepliesArriveAsPrinted ==
    /\ pc \in {"loop", "send", "select"} /\ alive[engine] = "running" =>
           reply_buffer \o replies[engine] \o stdout[engine] = HalvesOf(owed[engine])
    /\ why # "parse"

(* mtr waiting for room for a command, and mtr-packet for room for its       *)
(* replies, wait for each other only if the pipe for replies cannot hold the *)
(* results of as many probes as were ever outstanding at once, with the      *)
(* answers to one buffer of commands.  However many replies there have been  *)
(* before, no more than that is in the way of a command: mtr does not begin  *)
(* to write one before a select() which found nothing to read.               *)
ClientBlocked == pc = "send" /\ Len(commands[engine]) >= CommandPipe
EngineBlocked == Writing(engine) /\ ~Fits(engine)
NeverBothBlocked ==
    ClientBlocked /\ EngineBlocked => ReplyPipe < 2 * (most[engine] + CommandRoom)

(* A reply to a probe of an earlier name of the report, however late, is     *)
(* never handled as one of the present name.                                 *)
RepliesStayWithTarget ==
    ~strayed

(* mtr notices that the mtr-packet it talks to has gone, and ends, whatever  *)
(* it is doing: starting up, paused, waiting to write, in the grace period.  *)
ClientFollowsEngine == (target > 0 /\ Gone) ~> pc = "exited"

(* No mtr-packet outlives mtr, however mtr ends, even if it exits on an      *)
(* error, which kills nobody, with probes outstanding and earlier targets'   *)
(* engines never closed.                                                     *)
EngineFollowsClient ==
    \A e \in Engines : (pc = "exited" /\ alive[e] # "none") ~> alive[e] = "gone"


=============================================================================
