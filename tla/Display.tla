------------------------------ MODULE Display ------------------------------
(***************************************************************************)
(* What mtr shows while it runs, and where the names in it come from: the  *)
(* display modes that look at the table of hops continuously (split.c,     *)
(* curses.c, raw.c), the resolver process behind a pair of pipes (dns.c),  *)
(* standard input, and the passes of select_loop that join them.           *)
(*                                                                         *)
(* The table itself is NetTable's; here a row has its address, its error   *)
(* and a number that stands for all its statistics.  The resolver forks    *)
(* once for each question, so that answers come in any order: its pipes    *)
(* are sets.                                                               *)
(***************************************************************************)
EXTENDS Integers, FiniteSets

CONSTANTS
    Modes,          \* display modes, of "split", "curses", "raw"
    Builds(_),      \* for each mode: builds with curses (HAVE_CURSES) or without
    Addresses,      \* of routers and of the target
    Target,         \* remoteaddress
    RoutersAt(_),   \* who may answer a probe that ends at a hop
    MaxHop,         \* ctl->maxTTL
    MaxReplies,     \* bound: replies at a hop
    MaxTargets,     \* names on the command line (raw mode uses them all)
    MaxKeys,        \* bound: bytes that come to standard input
    MaxKills        \* bound: resolver processes that die

Hops == 1..MaxHop
NoAddr == "0.0.0.0"
NoName == <<"none", "none">>

ASSUME DisplayAssumption ==
    /\ Modes \subseteq {"split", "curses", "raw"}
    /\ \A m \in Modes : Builds(m) \subseteq BOOLEAN /\ (m = "curses" => FALSE \notin Builds(m))
    /\ Target \in Addresses /\ NoAddr \notin Addresses
    /\ \A h \in Hops : RoutersAt(h) \subseteq Addresses
    /\ {MaxHop, MaxReplies, MaxTargets, MaxKeys, MaxKills} \subseteq Nat

VARIABLES
    mode, dns, use_dns,   \* ctl->DisplayMode, ctl->dns, ctl->use_dns
    HAVE_CURSES,          \* mtr was built with curses
    pc,                   \* where select_loop is
    anyset, paused,       \* its flags
    ready,                \* what select() found readable and is not handled yet
    host,                 \* per hop: address, err, and how many replies
    target,               \* names walked through
    results,              \* per address: not asked for, asked for, or its name
    resolver,             \* the process: running or dead
    todns, lookups,       \* addresses in the pipe, and being looked up
    fromdns, unread,      \* answers in the pipe, and in the buffer of fromdnsfp
    Lines, LineCount,     \* split.c: what was printed of each row
    havename,             \* raw.c: hops whose `d' line was printed
    view,                 \* what a reader or the screen shows of each row
    stdin,                \* "silent", a byte "typed" and not read, or "ended"
    keys, kills           \* bounds: used

ctl == <<mode, dns, use_dns, HAVE_CURSES>>
user == <<stdin, keys>>
loop == <<pc, anyset, paused, ready>>
names == <<results, todns>>
daemon == <<resolver, lookups, fromdns>>
shown == <<Lines, LineCount, view, havename>>
vars == <<ctl, loop, host, target, names, daemon, unread, shown, user, kills>>

FreshHosts == [h \in Hops |-> [addr |-> NoAddr, err |-> FALSE, replies |-> 0]]
Unknown == [name |-> <<"???", "???">>, replies |-> 0]

Init ==
    /\ mode \in Modes /\ dns \in BOOLEAN /\ use_dns = TRUE
    /\ HAVE_CURSES \in Builds(mode)
    /\ pc = "draw" /\ anyset = FALSE /\ paused = FALSE /\ ready = {}
    /\ host = FreshHosts /\ target = 1
    /\ results = [a \in Addresses |-> "unasked"]
    /\ resolver = "running" /\ todns = {} /\ lookups = {} /\ fromdns = {} /\ unread = {}
    /\ Lines = [h \in Hops |-> Unknown] /\ LineCount = -1
    /\ view = [h \in Hops |-> Unknown] /\ havename = [h \in Hops |-> NoName]
    /\ stdin = "silent" /\ keys = 0 /\ kills = 0

(* select_loop handles what is readable in this order, and what it handles   *)
(* is remembered in anyset.                                                  *)
Handles(what) ==
    /\ pc = "handle" /\ what \in ready
    /\ what = "dns" => "net" \notin ready
    /\ what = "key" => ready = {"key"}
    /\ ready' = ready \ {what} /\ anyset' = TRUE
    /\ IF what = "key" THEN TRUE ELSE pc' = IF ready' = {} THEN "draw" ELSE "handle"

----------------------------------------------------------------------------
(* Names *)

Answer(a) == [host |-> a, name |-> a]      \* the name of a is called a here

(* findip: the entry an answer is for.  Faulty: any that waits. *)
FindIp_Waiting(answer) ==
    IF \E a \in Addresses : results[a] = "asked"
    THEN CHOOSE a \in Addresses : results[a] = "asked" ELSE answer.host
FindIp(answer) == answer.host

(* The addresses in `asked' that no entry of results has: an address is asked *)
(* for once while mtr runs, however long its answer takes.                    *)
NewIn(asked) == {a \in asked : results[a] = "unasked"}

(* dns_lookup2 for each of these addresses, in whatever order. *)
Lookup(asked) ==
    /\ results' = [a \in Addresses |-> IF a \in NewIn(asked) THEN "asked" ELSE results[a]]
    /\ todns' = todns \cup NewIn(asked)

(* dns_lookup returns no name at all when names are off, and the address as  *)
(* text while it knows none.                                                 *)
Numeric == ~dns \/ ~use_dns
Text(a) == IF ~Numeric /\ results[a] \notin {"unasked", "asked"} THEN <<"name", results[a]>>
                                                               ELSE <<"ip", a>>

(* A write to a resolver that has gone ends the program by SIGPIPE. *)
Broken(asked) == resolver = "dead" /\ NewIn(asked) # {}

(* The forked resolver reads an address and forks again; the fork may fail,  *)
(* and so may the lookup, of which nothing is said.                          *)
ResolverReads(a) ==
    /\ resolver = "running" /\ a \in todns /\ todns' = todns \ {a}
    /\ (lookups' = lookups \cup {a} \/ UNCHANGED lookups)
    /\ UNCHANGED <<ctl, loop, host, target, results, resolver, fromdns, unread, shown,
                   user, kills>>

LookupEnds(a) ==
    /\ a \in lookups /\ lookups' = lookups \ {a}
    /\ (fromdns' = fromdns \cup {Answer(a)} \/ UNCHANGED fromdns)
    /\ UNCHANGED <<ctl, loop, host, target, names, resolver, unread, shown, user, kills>>

ResolverDies ==
    /\ resolver = "running" /\ kills < MaxKills
    /\ resolver' = "dead" /\ kills' = kills + 1 /\ todns' = {}
    /\ UNCHANGED <<ctl, loop, host, target, results, lookups, fromdns, unread, shown,
                   user>>

(* fromdns is readable: an answer, or end of file. *)
Readable == dns /\ (fromdns # {} \/ (resolver = "dead" /\ lookups = {}))

(* dns_ack reads lines until there are no more, in the pipe or in the buffer *)
(* of the stream; faulty: one line, the others staying in the buffer.        *)
Acked_One == IF unread \cup fromdns = {} THEN {}
             ELSE {CHOOSE x \in unread \cup fromdns : TRUE}
Acked == unread \cup fromdns

DnsAck ==
    /\ Handles("dns")
    /\ results' = [a \in Addresses |-> IF \E x \in Acked : FindIp(x) = a
                                       THEN (CHOOSE x \in Acked : FindIp(x) = a).name
                                       ELSE results[a]]
    /\ unread' = (unread \cup fromdns) \ Acked /\ fromdns' = {}
    /\ UNCHANGED <<ctl, paused, host, target, todns, resolver, lookups, shown, user,
                   kills>>

----------------------------------------------------------------------------
(* The table *)

(* net_max: up to the target or an error, or one more than has answered. *)
LastHops == {h \in Hops : host[h].addr = Target \/ host[h].err}
Answering == {h \in Hops : host[h].addr # NoAddr}
Lowest(S) == CHOOSE h \in S : \A i \in S : h <= i
Highest(S) == CHOOSE h \in S : \A i \in S : h >= i
NetMax ==
    IF LastHops # {} THEN Lowest(LastHops)
    ELSE IF Answering = {} THEN 0
    ELSE IF Highest(Answering) = MaxHop THEN MaxHop ELSE Highest(Answering) + 1

(* A reply is counted at its hop.  In raw mode it is printed, with the name  *)
(* the first time: dns_lookup2 always has a text, if only the address.       *)
NetReturn ==
    /\ Handles("net")
    /\ \E h \in Hops : \E a \in RoutersAt(h), err \in BOOLEAN :
         /\ host[h].replies < MaxReplies /\ (a = Target => ~err)
         /\ host' = [host EXCEPT ![h] =
                       [addr |-> IF @.addr = NoAddr THEN a ELSE @.addr, err |-> err,
                        replies |-> @.replies + 1]]
         /\ LET addr == host'[h].addr
            IN  IF mode = "raw" /\ dns /\ havename[h] = NoName
                THEN /\ ~Broken({addr}) /\ Lookup({addr})
                     /\ havename' = [havename EXCEPT ![h] = Text(addr)]
                ELSE UNCHANGED <<names, havename>>
    /\ UNCHANGED <<ctl, paused, target, daemon, unread, Lines, LineCount, view, user, kills>>

RawSigpipe ==
    /\ pc = "handle" /\ "net" \in ready /\ mode = "raw" /\ dns
    /\ \E h \in Hops : havename[h] = NoName
         /\ Broken(IF host[h].addr = NoAddr THEN RoutersAt(h) ELSE {host[h].addr})
    /\ pc' = "sigpipe"
    /\ UNCHANGED <<ctl, anyset, paused, ready, host, target, names, daemon, unread, shown,
                   user, kills>>

----------------------------------------------------------------------------
(* Redrawing *)

(* What a row should say: name and numbers of a hop that has answered.  (On  *)
(* the screen an error takes their place.)                                   *)
Named(h) == host[h].addr # NoAddr /\ (mode = "curses" => ~host[h].err)
Row(h) == IF Named(h) THEN [name |-> Text(host[h].addr), replies |-> host[h].replies]
          ELSE IF mode = "curses" THEN [name |-> <<"error", "error">>, replies |-> 0] ELSE Unknown
Drawn == {h \in 1..NetMax : Named(h)}
AskedFor == IF Numeric THEN {} ELSE {host[h].addr : h \in Drawn}

(* The strcmp with the line printed last; faulty: of the numbers alone. *)
SameLine_Numbers(h) == Lines[h].replies = Row(h).replies
SameLine(h) == Lines[h] = Row(h)

(* split_redraw: rows beyond the last are deleted, rows that differ printed. *)
SplitRedraw ==
    LET printed == {h \in 1..NetMax : ~SameLine(h)}
        count == IF LineCount > NetMax THEN NetMax ELSE LineCount
    IN  /\ Lines' = [h \in Hops |-> IF h \in printed THEN Row(h) ELSE Lines[h]]
        /\ view' = [h \in Hops |-> IF h \in printed THEN Row(h) ELSE view[h]]
        /\ LineCount' = IF printed # {} /\ Highest(printed) > count THEN Highest(printed)
                                                                    ELSE count
        /\ UNCHANGED havename

(* mtr_curses_redraw: all of the screen. *)
CursesRedraw ==
    /\ view' = [h \in Hops |-> IF h <= NetMax THEN Row(h) ELSE Unknown]
    /\ UNCHANGED <<Lines, LineCount, havename>>

(* mtr_curses_hosts copies the name without asking whether there is one.     *)
NullName == mode = "curses" /\ Numeric /\ Drawn # {}

(* A pass of select_loop up to select(): the display is redrawn when nothing *)
(* happened in the pass before.                                              *)
Skipped == anyset \/ paused \/ mode = "raw"

Draw ==
    /\ pc = "draw"
    /\ \/ /\ Skipped /\ pc' = "select"
          /\ UNCHANGED <<names, shown>>
       \/ /\ ~Skipped /\ ~NullName /\ ~Broken(AskedFor) /\ pc' = "select"
          /\ Lookup(AskedFor)
          /\ IF mode = "split" THEN SplitRedraw ELSE CursesRedraw
       \/ /\ ~Skipped /\ ~NullName /\ Broken(AskedFor) /\ pc' = "sigpipe"
          /\ UNCHANGED <<names, shown>>
       \/ /\ ~Skipped /\ NullName /\ pc' = "segfault"
          /\ UNCHANGED <<names, shown>>
    /\ UNCHANGED <<ctl, anyset, paused, ready, host, target, daemon, unread, user, kills>>

(* Raw mode is not interactive: its standard input is not looked at. *)
Interactive == mode # "raw"

(* Standard input is a terminal's, or another program's pipe: a byte comes,   *)
(* or the end.  (What comes between two calls of select() is there at the    *)
(* next.)                                                                    *)
Type ==
    /\ pc = "select" /\ Interactive
    /\ stdin = "silent" /\ keys < MaxKeys
    /\ stdin' = "typed" /\ keys' = keys + 1
    /\ UNCHANGED <<ctl, loop, host, target, names, daemon, unread, shown, kills>>

StdinEnds ==
    /\ pc = "select" /\ Interactive
    /\ stdin = "silent" /\ stdin' = "ended"
    /\ UNCHANGED <<ctl, loop, host, target, names, daemon, unread, shown, keys, kills>>

(* select() returns, if only by its time; faulty: anyset is not reset.        *)
AnysetAfter_Kept == anyset
AnysetAfter == FALSE

Select ==
    /\ pc = "select"
    /\ \E some \in SUBSET {"net"} :
         /\ "net" \in some => \E h \in Hops : host[h].replies < MaxReplies
         /\ ready' = some \cup (IF Readable THEN {"dns"} ELSE {})
                          \cup (IF Interactive /\ stdin # "silent" THEN {"key"} ELSE {})
    /\ pc' = IF ready' = {} THEN "draw" ELSE "handle"
    /\ anyset' = AnysetAfter
    /\ UNCHANGED <<ctl, paused, host, target, names, daemon, unread, shown, user, kills>>

(* The keys with a meaning here, and one without.  The prompts of curses are  *)
(* in Settings.                                                              *)
ModeKeys == {"q", "r", "x"} \cup IF mode = "curses" THEN {"p", " ", "n"} ELSE {}

(* ActionDNS: nothing, when there is no resolver at all. *)
Toggled(key) == IF key = "n" /\ dns THEN ~use_dns ELSE use_dns

KeyAction(key) ==
    /\ pc' = IF key = "q" THEN "ended" ELSE "draw"
    /\ paused' = IF key \in {"p", " "} THEN key = "p" ELSE paused
    /\ use_dns' = Toggled(key)
    /\ host' = IF key = "r" THEN FreshHosts ELSE host

(* split_keyaction of a build with curses calls getch() of a screen that was  *)
(* never set up: it fails, reads nothing, and its -1 is no key.              *)
NothingRead == mode = "split" /\ HAVE_CURSES

(* display_keyaction: the end of input is a q (read() gives 0, getch() -1).   *)
KeyRead ==
    /\ Handles("key")
    /\ \/ NothingRead /\ pc' = "draw" /\ UNCHANGED <<paused, use_dns, host, stdin>>
       \/ ~NothingRead /\ stdin = "ended" /\ KeyAction("q") /\ UNCHANGED stdin
       \/ ~NothingRead /\ stdin = "typed" /\ stdin' = "silent"
          /\ \E key \in ModeKeys : KeyAction(key)
    /\ UNCHANGED <<mode, dns, HAVE_CURSES, target, names, daemon, unread, shown, keys, kills>>

----------------------------------------------------------------------------

(* In raw mode the rounds of a name end, and dns_open starts a resolver for  *)
(* the next.  The pipes of the last one are not read any more.               *)
NextTarget ==
    /\ pc = "draw" /\ mode = "raw" /\ ~anyset
    /\ IF target < MaxTargets
         THEN /\ target' = target + 1 /\ host' = FreshHosts
              /\ resolver' = "running"
              /\ todns' = {} /\ lookups' = {} /\ fromdns' = {} /\ unread' = {}
              /\ UNCHANGED pc
         ELSE pc' = "ended" /\ UNCHANGED <<target, host, todns, daemon, unread>>
    /\ UNCHANGED <<ctl, anyset, paused, ready, results, shown, user, kills>>

----------------------------------------------------------------------------

Next ==
    \/ Draw \/ Select \/ DnsAck \/ NetReturn \/ RawSigpipe
    \/ KeyRead \/ Type \/ StdinEnds
    \/ NextTarget \/ ResolverDies
    \/ \E a \in Addresses : ResolverReads(a) \/ LookupEnds(a)

(* The loop runs on, whatever comes in. *)
Fairness ==
    /\ WF_vars(Draw) /\ WF_vars(Select) /\ WF_vars(DnsAck) /\ WF_vars(NetReturn)
    /\ WF_vars(KeyRead)

Spec == Init /\ [][Next]_vars /\ Fairness

----------------------------------------------------------------------------
(* Properties *)

(* A name is shown at the address it was found for: answers come in any      *)
(* order, from processes of their own, and are told apart by their text      *)
(* (dns_ack, findip), also those asked for in another target's time.         *)
NameIsOfAddress == \A a \in Addresses : results[a] \in {"unasked", "asked", a}

(* After each redraw, a reader of split output that keeps the last line of   *)
(* each row has what the table says of every row, although only lines that   *)
(* changed are printed, and rows come and go with the last hop and with a    *)
(* reset.  (The web server is such a reader: a deleted row's line has not    *)
(* the eight words it asks for.)                                             *)
ReaderHasRows ==
    pc = "select" /\ ~Skipped => \A h \in 1..NetMax : view[h] = Row(h)

(* Input that no pass reads keeps select() returning at once: with a byte or  *)
(* the end on its standard input, split mode of a build with curses neither  *)
(* redraws nor sends any more (split_keyaction, anyset).                     *)
Deaf == NothingRead /\ stdin # "silent"

(* A name that was found comes to be shown, in each row that goes on showing *)
(* its address, unless the resolver has gone or mtr is deaf (see             *)
(* KeepsSending).                                                            *)
Waiting(a) == a \in {x.host : x \in fromdns \cup unread}
ShownAs(a, text) ==
    \A h \in 1..NetMax : Named(h) /\ host[h].addr = a => view[h].name = text
NameShown ==
    \A a \in Addresses :
        Waiting(a) /\ mode # "raw" ~>
            \/ /\ results[a] = a
               /\ ShownAs(a, <<"name", a>>) \/ ~use_dns \/ paused
            \/ resolver = "dead" \/ Deaf \/ pc \in {"ended", "sigpipe", "segfault"}

(* As long as its resolver lives and its input is read, mtr goes on redrawing *)
(* and sending probes: passes in which something came in do neither, and do  *)
(* not go on for ever.  (The end of a resolver makes its pipe readable in    *)
(* every pass, and unread input standard input.)                             *)
KeepsSending ==
    []<>(\/ pc = "draw" /\ ~anyset
         \/ paused \/ resolver = "dead" \/ Deaf
         \/ pc \in {"ended", "sigpipe", "segfault"})

(* No key and no option ends mtr but the one that says so.                   *)
OnlyQuitEnds == pc # "segfault"

=============================================================================
