--------------------------- MODULE DisplayProofs ---------------------------
(***************************************************************************)
(* Theorems about what mtr shows, for every set of routers, every number   *)
(* of hops and every order of the resolver's answers: a name stands at the *)
(* address it was found for, and split output, of which only changed lines *)
(* are printed, leaves its reader with the rows of the table.              *)
(***************************************************************************)
EXTENDS Display, WellFoundedInduction, TLAPS

(* What is on its way from the resolver is an answer to its own question,   *)
(* and what the strcmp of split_redraw compares is what was printed.         *)
AnswersOwnQuestion == \A x \in fromdns \cup unread : x.name = x.host
LinesAreView == mode = "split" => view = Lines

(* A hop has answered with an address of one of those that may.             *)
DisplayTypes ==
    /\ mode \in Modes
    /\ results = [a \in Addresses |-> results[a]]
    /\ \A h \in Hops : host[h].addr \in Addresses \cup {NoAddr}

IInv == DisplayTypes /\ AnswersOwnQuestion /\ LinesAreView /\ NameIsOfAddress /\ ReaderHasRows

----------------------------------------------------------------------------
(* Among places there is a first, ... *)
LEMMA FirstPlace ==
    ASSUME NEW S \in SUBSET Nat, S # {}
    PROVE  \E i \in S : \A j \in S : i <= j
<1>1. PICK i \in S : \A j \in S : <<j, i>> \notin OpToRel(<, Nat)
  BY NatLessThanWellFounded, WFMin
<1>2. \A j \in S : ~(j < i)
  BY <1>1 DEF OpToRel
<1>. QED
  BY <1>2

(* ... and among hops a first and a last. *)
LEMMA FirstHop ==
    ASSUME NEW S \in SUBSET Hops, S # {}
    PROVE  Lowest(S) \in S
<1>1. S \in SUBSET Nat
  BY DEF Hops
<1>. QED
  BY <1>1, FirstPlace DEF Lowest

LEMMA LastHop ==
    ASSUME NEW S \in SUBSET Hops, S # {}
    PROVE  Highest(S) \in S
<1>1. MaxHop \in Nat
  BY DisplayAssumption
<1> DEFINE T == {MaxHop - h : h \in S}
<1>2. T \in SUBSET Nat /\ T # {}
  <2>1. \A h \in S : MaxHop - h \in Nat
    BY <1>1 DEF Hops
  <2>2. PICK h \in S : TRUE
    OBVIOUS
  <2>. QED
    BY <2>1, <2>2
<1> HIDE DEF T
<1>3. PICK i \in T : \A j \in T : i <= j
  BY <1>2, FirstPlace
<1>4. PICK h \in S : i = MaxHop - h
  BY DEF T
<1>5. \A k \in S : h >= k
  <2>. SUFFICES ASSUME NEW k \in S PROVE h >= k
    OBVIOUS
  <2>1. i <= MaxHop - k
    BY <1>3 DEF T
  <2>. QED
    BY <1>1, <1>4, <2>1 DEF Hops
<1>. QED
  BY <1>5 DEF Highest

(* net_max is a hop, or 0. *)
LEMMA NetMaxIsHop == NetMax \in 0..MaxHop
<1>1. MaxHop \in Nat
  BY DisplayAssumption
<1>2. CASE LastHops # {}
  <2>1. Lowest(LastHops) \in Hops
    BY <1>2, FirstHop DEF LastHops
  <2>. QED
    BY <1>1, <1>2, <2>1 DEF NetMax, Hops
<1>3. CASE LastHops = {} /\ Answering = {}
  BY <1>1, <1>3 DEF NetMax
<1>4. CASE LastHops = {} /\ Answering # {}
  <2>1. Highest(Answering) \in Hops
    BY <1>4, LastHop DEF Answering
  <2>. QED
    BY <1>1, <1>4, <2>1 DEF NetMax, Hops
<1>. QED
  BY <1>2, <1>3, <1>4

(* Asking for names changes no text, and no row: an address that is asked    *)
(* for is shown as before.                                                   *)
LEMMA LookupKeepsText ==
    ASSUME NEW asked, Lookup(asked), UNCHANGED ctl
    PROVE  \A a \in Addresses : Text(a)' = Text(a)
<1>. SUFFICES ASSUME NEW a \in Addresses PROVE Text(a)' = Text(a)
  OBVIOUS
<1>1. Numeric' <=> Numeric
  BY DEF Numeric, ctl
<1>2. results'[a] = IF a \in NewIn(asked) THEN "asked" ELSE results[a]
  BY DEF Lookup
<1>3. CASE a \in NewIn(asked)
  BY <1>2, <1>3 DEF NewIn, Text
<1>4. CASE a \notin NewIn(asked)
  BY <1>1, <1>2, <1>4 DEF Text
<1>. QED
  BY <1>3, <1>4

LEMMA LookupKeepsRows ==
    ASSUME NEW asked, Lookup(asked), UNCHANGED <<ctl, host>>, DisplayTypes
    PROVE  NetMax' = NetMax /\ \A h \in Hops : Row(h)' = Row(h)
<1>1. NetMax' = NetMax
  BY DEF NetMax, LastHops, Answering
<1>2. ASSUME NEW h \in Hops PROVE Row(h)' = Row(h)
  <2>1. Named(h)' <=> Named(h)
    BY DEF Named, ctl
  <2>2. CASE Named(h)
    <3>1. host[h].addr \in Addresses
      BY <2>2 DEF Named, DisplayTypes
    <3>2. Text(host[h].addr)' = Text(host[h].addr)
      BY <3>1, LookupKeepsText
    <3>. QED
      BY <2>1, <2>2, <3>2 DEF Row
  <2>3. CASE ~Named(h)
    BY <2>1, <2>3 DEF Row, ctl
  <2>. QED
    BY <2>2, <2>3
<1>. QED
  BY <1>1, <1>2

(* Asking for names names nobody wrongly. *)
LEMMA LookupKeepsNames ==
    ASSUME NEW asked, Lookup(asked), NameIsOfAddress
    PROVE  NameIsOfAddress' /\ results' = [a \in Addresses |-> results'[a]]
BY DEF Lookup, NameIsOfAddress

----------------------------------------------------------------------------
LEMMA InitIInv == Init => IInv
<1>. SUFFICES ASSUME Init PROVE IInv
  OBVIOUS
<1>. USE DEF Init
<1>1. DisplayTypes
  BY DEF DisplayTypes, FreshHosts
<1>2. AnswersOwnQuestion /\ LinesAreView /\ NameIsOfAddress /\ ReaderHasRows
  BY DEF AnswersOwnQuestion, LinesAreView, NameIsOfAddress, ReaderHasRows
<1>. QED
  BY <1>1, <1>2 DEF IInv

(* split_redraw leaves each row printed: it was now, or it was and has not   *)
(* changed.                                                                  *)
LEMMA SplitRedrawStep ==
    ASSUME IInv, SplitRedraw, mode = "split"
    PROVE  view' = Lines' /\ \A h \in 1..NetMax : view'[h] = Row(h)
<1>1. view = Lines
  BY DEF IInv, LinesAreView
<1>2. NetMax \in 0..MaxHop /\ MaxHop \in Nat
  BY NetMaxIsHop, DisplayAssumption
<1>3. ASSUME NEW h \in 1..NetMax PROVE view'[h] = Row(h)
  <2>1. h \in Hops
    BY <1>2 DEF Hops
  <2>2. CASE SameLine(h)
    BY <1>1, <2>1, <2>2 DEF SplitRedraw, SameLine
  <2>3. CASE ~SameLine(h)
    BY <2>1, <2>3 DEF SplitRedraw
  <2>. QED
    BY <2>2, <2>3
<1>. QED
  BY <1>1, <1>3 DEF SplitRedraw

LEMMA DrawStep == IInv /\ Draw => IInv'
<1>. SUFFICES ASSUME IInv, Draw PROVE IInv'
  OBVIOUS
<1>1. UNCHANGED <<ctl, anyset, paused, ready, host, daemon, unread>>
  BY DEF Draw
<1>2. AnswersOwnQuestion'
  BY <1>1 DEF IInv, AnswersOwnQuestion, daemon
<1>3. CASE UNCHANGED <<names, shown>> /\ (pc' = "select" => Skipped)
  <2>1. DisplayTypes' /\ LinesAreView' /\ NameIsOfAddress'
    BY <1>1, <1>3 DEF IInv, DisplayTypes, LinesAreView, NameIsOfAddress, ctl, names, shown
  <2>2. ReaderHasRows'
    BY <1>1, <1>3 DEF ReaderHasRows, Skipped, ctl
  <2>. QED
    BY <1>2, <2>1, <2>2 DEF IInv
<1>4. CASE Lookup(AskedFor) /\ ~Skipped
           /\ IF mode = "split" THEN SplitRedraw ELSE CursesRedraw
  <2>1. NameIsOfAddress' /\ DisplayTypes'
    BY <1>1, <1>4, LookupKeepsNames DEF IInv, DisplayTypes, ctl
  <2>2. NetMax' = NetMax /\ \A h \in Hops : Row(h)' = Row(h)
    BY <1>1, <1>4, LookupKeepsRows DEF IInv
  <2>3. NetMax \in 0..MaxHop /\ MaxHop \in Nat
    BY NetMaxIsHop, DisplayAssumption
  <2>4. LinesAreView' /\ \A h \in 1..NetMax : view'[h] = Row(h)
    <3>1. CASE mode = "split"
      BY <1>4, <3>1, SplitRedrawStep DEF LinesAreView
    <3>2. CASE mode # "split"
      BY <1>1, <1>4, <2>3, <3>2 DEF LinesAreView, CursesRedraw, Hops, ctl
    <3>. QED
      BY <3>1, <3>2
  <2>5. ReaderHasRows'
    BY <2>2, <2>3, <2>4 DEF ReaderHasRows, Hops
  <2>. QED
    BY <1>2, <2>1, <2>4, <2>5 DEF IInv
<1>. QED
  BY <1>3, <1>4 DEF Draw

(* dns_ack gives each answer to the address it is for. *)
LEMMA DnsAckStep == IInv /\ DnsAck => IInv'
<1>. SUFFICES ASSUME IInv, DnsAck PROVE IInv'
  OBVIOUS
<1>1. NameIsOfAddress'
  <2>. SUFFICES ASSUME NEW a \in Addresses PROVE results'[a] \in {"unasked", "asked", a}
    BY DEF NameIsOfAddress
  <2>1. CASE \E x \in Acked : FindIp(x) = a
    <3> DEFINE x == CHOOSE x \in Acked : FindIp(x) = a
    <3>1. x \in Acked /\ x.host = a
      BY <2>1 DEF FindIp
    <3>2. x.name = x.host
      BY <3>1 DEF IInv, AnswersOwnQuestion, Acked
    <3>3. results'[a] = x.name
      BY <2>1 DEF DnsAck
    <3>. QED
      BY <3>1, <3>2, <3>3
  <2>2. CASE ~ \E x \in Acked : FindIp(x) = a
    BY <2>2 DEF DnsAck, IInv, NameIsOfAddress
  <2>. QED
    BY <2>1, <2>2
<1>2. AnswersOwnQuestion'
  BY DEF DnsAck, IInv, AnswersOwnQuestion
<1>3. DisplayTypes' /\ LinesAreView' /\ pc' # "select"
  BY DEF DnsAck, Handles, IInv, DisplayTypes, LinesAreView, ctl, shown
<1>. QED
  BY <1>1, <1>2, <1>3 DEF IInv, ReaderHasRows

(* A reply is counted: the redraw is still to come. *)
LEMMA NetReturnStep == IInv /\ NetReturn => IInv'
<1>. SUFFICES ASSUME IInv, NetReturn PROVE IInv'
  OBVIOUS
<1>1. UNCHANGED <<mode, fromdns, unread, Lines, view>> /\ pc' # "select"
  BY DEF NetReturn, Handles, ctl, daemon
<1>2. NameIsOfAddress' /\ results' = [a \in Addresses |-> results'[a]]
  <2>1. CASE UNCHANGED results
    BY <2>1 DEF IInv, NameIsOfAddress, DisplayTypes
  <2>2. CASE \E asked : Lookup(asked)
    BY <2>2, LookupKeepsNames DEF IInv
  <2>. QED
    BY <2>1, <2>2 DEF NetReturn, names
<1>3. \A h \in Hops : host'[h].addr \in Addresses \cup {NoAddr}
  BY DisplayAssumption DEF NetReturn, IInv, DisplayTypes
<1>. QED
  BY <1>1, <1>2, <1>3
     DEF IInv, DisplayTypes, AnswersOwnQuestion, LinesAreView, ReaderHasRows

(* Whatever leaves what is shown and what is known alone: the redraw stays   *)
(* true while select() waits.                                                *)
LEMMA QuietStep ==
    ASSUME IInv, UNCHANGED <<mode, dns, use_dns, anyset, paused, host, results, Lines, view>>,
           pc' = "select" => pc = "select",
           \A x \in fromdns' \cup unread' : x.name = x.host
    PROVE  IInv'
<1>1. DisplayTypes' /\ LinesAreView' /\ NameIsOfAddress' /\ AnswersOwnQuestion'
  BY DEF IInv, DisplayTypes, LinesAreView, NameIsOfAddress, AnswersOwnQuestion
<1>2. ReaderHasRows'
  <2>. SUFFICES ASSUME (pc = "select")', ~Skipped', NEW h \in (1..NetMax)'
                PROVE  view'[h] = Row(h)'
    BY DEF ReaderHasRows
  <2>1. pc = "select" /\ ~Skipped
    BY DEF Skipped
  <2>2. NetMax' = NetMax
    BY DEF NetMax, LastHops, Answering
  <2>3. \A a : Text(a)' = Text(a)
    BY DEF Text, Numeric
  <2>4. Row(h)' = Row(h)
    BY <2>3 DEF Row, Named
  <2>. QED
    BY <2>1, <2>2, <2>4 DEF IInv, ReaderHasRows
<1>. QED
  BY <1>1, <1>2 DEF IInv

(* The steps of the resolver and of whoever writes to standard input, and    *)
(* those of the loop that end or interrupt what it does.                     *)
LEMMA OtherSteps ==
    ASSUME IInv,
           \/ ResolverDies
           \/ \E a \in Addresses : ResolverReads(a) \/ LookupEnds(a)
           \/ RawSigpipe \/ Type \/ StdinEnds \/ UNCHANGED vars
    PROVE  IInv'
<1>1. UNCHANGED <<mode, dns, use_dns, anyset, paused, host, results, Lines, view, unread>>
  BY DEF ResolverDies, ResolverReads, LookupEnds, RawSigpipe, Type, StdinEnds, vars, ctl, loop, names,
         daemon, shown
<1>2. pc' = "select" => pc = "select"
  BY DEF ResolverDies, ResolverReads, LookupEnds, RawSigpipe, Type, StdinEnds, vars, loop
<1>3. \A x \in fromdns' \cup unread' : x.name = x.host
  <2>1. \A x \in fromdns' : x \in fromdns \/ \E a : x = Answer(a)
    BY DEF ResolverDies, ResolverReads, LookupEnds, RawSigpipe, Type, StdinEnds, vars, daemon
  <2>2. \A a : Answer(a).name = Answer(a).host
    BY DEF Answer
  <2>. QED
    BY <1>1, <2>1, <2>2 DEF IInv, AnswersOwnQuestion
<1>. QED
  BY <1>1, <1>2, <1>3, QuietStep

(* select() returns; a key is handled; in raw mode, the next name's turn     *)
(* comes.  None of these leads to a redraw at once.                          *)
LEMMA PassSteps ==
    ASSUME IInv,
           \/ Select \/ NextTarget
           \/ KeyRead
    PROVE  IInv'
<1>1. UNCHANGED <<mode, results, Lines, view>>
  BY DEF Select, NextTarget, KeyRead, KeyAction, ctl, names, shown
<1>2. pc' # "select"
  BY DEF Select, NextTarget, KeyRead, KeyAction
<1>3. \A x \in fromdns' \cup unread' : x \in fromdns \cup unread
  BY DEF Select, NextTarget, KeyRead, KeyAction, daemon
<1>4. \A h \in Hops : host'[h].addr \in Addresses \cup {NoAddr}
  <2>1. host' = host \/ host' = FreshHosts
    BY DEF Select, NextTarget, KeyRead, KeyAction
  <2>2. \A h \in Hops : FreshHosts[h].addr = NoAddr
    BY DEF FreshHosts
  <2>. QED
    BY <2>1, <2>2 DEF IInv, DisplayTypes
<1>. QED
  BY <1>1, <1>2, <1>3, <1>4
     DEF IInv, DisplayTypes, AnswersOwnQuestion, LinesAreView, NameIsOfAddress, ReaderHasRows

LEMMA NextIInv == IInv /\ [Next]_vars => IInv'
<1>. QED
  BY DrawStep, DnsAckStep, NetReturnStep, OtherSteps, PassSteps DEF Next

(* The invariant of the display and its resolver holds always: every step of  *)
(* the loop, of a fork and of the pipes between them keeps it.                *)
THEOREM Invariance == Spec => []IInv
<1>. QED
  BY InitIInv, NextIInv, PTL DEF Spec

(* A name is shown at the address it was found for (dns_ack, findip), in     *)
(* whatever order the resolver's processes answer, and across the names of   *)
(* a command line, each with a resolver of its own.                          *)
THEOREM NamesAreRight == Spec => []NameIsOfAddress
<1>1. IInv => NameIsOfAddress
  BY DEF IInv
<1>. QED
  BY Invariance, <1>1, PTL

(* A reader that keeps the last line of each row of split output has the     *)
(* rows of the table after each redraw (split_redraw prints only lines that  *)
(* changed), and so has the screen (mtr_curses_redraw).                      *)
THEOREM RowsAreRead == Spec => []ReaderHasRows
<1>1. IInv => ReaderHasRows
  BY DEF IInv
<1>. QED
  BY Invariance, <1>1, PTL

============================================================================
