--------------------------- MODULE MCProbeJourney ---------------------------
EXTENDS ProbeJourney

Opt(o, n) == [opt |-> o, n |-> n]
Switch(o) == Opt(o, 0)

Machine(can, sctp, marks) == [can |-> can, sctp |-> sctp, marks |-> marks]
RawSockets   == {<<"raw", 4>>, <<"raw", 6>>}
DgramSockets == {<<"dgram", 4>>, <<"dgram", 6>>}
MCMachines ==
    {Machine(RawSockets, TRUE, TRUE), Machine(RawSockets, FALSE, FALSE),
     Machine(DgramSockets, TRUE, FALSE), Machine(DgramSockets, FALSE, TRUE),
     Machine({<<"raw", 4>>, <<"dgram", 4>>}, TRUE, FALSE)}

Types == {<<>>, <<Switch("u")>>, <<Switch("T")>>, <<Switch("S")>>}
Ports == {<<>>, <<Opt("P", 443)>>, <<Opt("L", 1024)>>, <<Opt("L", 1024), Opt("P", 443)>>}
Others ==
    {<<>>, <<Opt("f", 2)>>, <<Opt("f", 9), Opt("m", 1)>>, <<Opt("m", 9), Opt("f", 0)>>,
     <<Opt("s", 100)>>, <<Opt("s", 9001)>>,
     <<Opt("B", 300)>>, <<Opt("Q", 16)>>, <<Opt("Q", 256), Opt("U", 0)>>, <<Opt("M", 7)>>,
     <<Opt("Z", 1), Switch("r")>>}
MCLines ==
    {t \o p : t \in Types, p \in Ports} \cup {o \o t : t \in Types, o \in Others}
    \cup {<<Switch("u"), Switch("T")>>, <<Opt("P", 0)>>, <<Opt("L", 1023)>>, <<Opt("s", -100)>>}

MCKeys ==
    {Opt("Q", 0), Opt("Q", 8), Opt("s", 28), Opt("s", -28), Opt("s", -100), Opt("b", 170), Opt("f", 3), Opt("m", 1),
     Opt("m", 2), Switch("u"), Switch("t")}

Label(l, tc, s, ttl) == [label |-> l, tc |-> tc, s |-> s, ttl |-> ttl]
Stack == <<Label(1048575, 7, 0, 255), Label(16, 5, 0, 1), Label(70000, 2, 1, 64)>>
Object(class, labels, extra) ==
    [class |-> class, len |-> 4 + 4 * Len(labels) + extra, labels |-> labels,
     entries |-> [i \in DOMAIN labels |-> Entry(labels[i])]]
Message(kind, from, rtt, quoted, chain) ==
    [kind |-> kind, from |-> from, rtt |-> rtt, quoted |-> quoted, chain |-> chain,
     size |-> FoldLeft(LAMBDA n, o : n + o.len, 0, chain)]

MCMessages ==
    {Message("expired", "router", 7, 8, <<Object(2, <<>>, 4), Object(1, Stack, 0)>>),
     Message("expired", "router", 2, 4, <<>>),
     Message("unreach", "router", -3, 8, <<Object(1, SubSeq(Stack, 3, 3), 0)>>),
     Message("port", "target", 10, 8, <<>>),
     Message("echo", "target", 4, 0, <<>>)}
=============================================================================
