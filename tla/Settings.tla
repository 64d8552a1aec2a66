------------------------------ MODULE Settings ------------------------------
(***************************************************************************)
(* What the user asks of mtr: the options of the command line (mtr.c), the *)
(* keys that change them while it runs (curses.c), and the send-probe      *)
(* command the client builds of them (cmdpipe.c).  Options that choose a   *)
(* display are left out, except that a report takes no keys.               *)
(***************************************************************************)
EXTENDS Integers, Sequences, SequencesExt

CONSTANTS
    MaxHost,         \* entries of the table of hops
    DefaultMaxTTL,   \* -m when it is not given
    DefaultUnknown   \* -U when it is not given

ASSUME SettingsAssumption ==
    /\ MaxHost \in Nat /\ DefaultMaxTTL \in Nat /\ 1 <= DefaultMaxTTL /\ DefaultMaxTTL < MaxHost
    /\ DefaultUnknown \in Nat /\ DefaultUnknown < MaxHost

MinPort   == 1024
MaxPort   == 65535
MinPacket == 28
IntMax    == 2147483647

Defaults ==
    [Interactive |-> TRUE, cpacketsize |-> 64, bitpattern |-> 0, tos |-> 0,
     mtrtype |-> "icmp", fstTTL |-> 1, maxTTL |-> DefaultMaxTTL, maxUnknown |-> DefaultUnknown,
     probe_timeout |-> 10, remoteport |-> 0, localport |-> 0, mark |-> 0]

Lower(a, b)  == IF a < b THEN a ELSE b
AtLeast1(n)  == IF n < 1 THEN 1 ELSE n
ByteOr(n, d) == IF n \in 0..255 THEN n ELSE d

-----------------------------------------------------------------------------
(* Options, each [opt, n]; n is 0 for one without an argument.               *)
Options ==
    [opt : {"r", "f", "m", "s", "B", "Q", "U", "Z", "M", "P", "L", "u", "T", "S"}, n : Int]

(* strtonum_or_err: a number is neither negative nor too large for an int (a  *)
(* mark may be twice as large).                                              *)
Numeric == {"f", "m", "s", "B", "Q", "U", "Z", "M", "P", "L"}
IsNumber(a) == a.n >= 0 /\ (a.opt = "M" \/ a.n < IntMax)

(* mtr ends with a message instead of taking the option.                     *)
Rejects(s, a) ==
    \/ a.opt \in Numeric /\ ~IsNumber(a)
    \/ a.opt \in {"u", "T", "S"} /\ s.mtrtype # "icmp"
    \/ a.opt = "P" /\ a.n \notin 1..MaxPort
    \/ a.opt = "L" /\ a.n \notin MinPort..MaxPort

(* -f and -m come in any order: each keeps first <= max.                      *)
WithMax(s, n) ==
    LET max == AtLeast1(Lower(n, MaxHost - 1))
    IN  [s EXCEPT !.maxTTL = max, !.fstTTL = Lower(@, max)]
WithFirst(s, n) == [s EXCEPT !.fstTTL = AtLeast1(Lower(n, s.maxTTL))]

(* TCP and SCTP go to port 80 when no -P came before.                         *)
WithStream(s, type) ==
    [s EXCEPT !.mtrtype = type, !.remoteport = IF @ = 0 THEN 80 ELSE @]

Parsed(s, a) ==
    CASE a.opt = "r" -> [s EXCEPT !.Interactive = FALSE]
      [] a.opt = "f" -> WithFirst(s, a.n)
      [] a.opt = "m" -> WithMax(s, a.n)
      [] a.opt = "s" -> [s EXCEPT !.cpacketsize = a.n]
      [] a.opt = "B" -> [s EXCEPT !.bitpattern = IF a.n > 255 THEN -1 ELSE a.n]
      [] a.opt = "Q" -> [s EXCEPT !.tos = ByteOr(a.n, 0)]
      [] a.opt = "U" -> [s EXCEPT !.maxUnknown = AtLeast1(a.n)]
      [] a.opt = "Z" -> [s EXCEPT !.probe_timeout = a.n]
      [] a.opt = "M" -> [s EXCEPT !.mark = a.n]
      [] a.opt = "P" -> [s EXCEPT !.remoteport = a.n]
      [] a.opt = "L" -> [s EXCEPT !.localport = a.n]
      [] a.opt = "u" -> [s EXCEPT !.mtrtype = "udp"]
      [] a.opt = "T" -> WithStream(s, "tcp")
      [] a.opt = "S" -> WithStream(s, "sctp")

(* The command line, from left to right.  A line with an option that is       *)
(* rejected ends mtr before it does anything.                                 *)
ParseLine(line) ==
    LET after[i \in 0..Len(line)] == IF i = 0 THEN Defaults ELSE Parsed(after[i - 1], line[i])
    IN  after[Len(line)]
LineRejected(line) ==
    \E i \in DOMAIN line : Rejects(ParseLine(SubSeq(line, 1, i - 1)), line[i])

-----------------------------------------------------------------------------
(* Keys, with the number typed after them, of which atoi takes any.  A key    *)
(* that toggles a protocol leaves SCTP and the port alone.                    *)
KeyStrokes == [opt : {"Q", "s", "b", "f", "m", "u", "t"}, n : Int]

Toggle(s, type) == IF s.mtrtype = "sctp" THEN s.mtrtype
                   ELSE IF s.mtrtype = type THEN "icmp" ELSE type

KeyMax(s, n) == IF n \in s.fstTTL..MaxHost - 1 THEN [s EXCEPT !.maxTTL = n] ELSE s

Typed(s, k) ==
    CASE k.opt = "Q" -> [s EXCEPT !.tos = ByteOr(k.n, 0)]
      [] k.opt = "s" -> [s EXCEPT !.cpacketsize = k.n]
      [] k.opt = "b" -> [s EXCEPT !.bitpattern = IF k.n > 255 THEN -1 ELSE k.n]
      [] k.opt = "f" -> IF k.n \in 1..s.maxTTL THEN [s EXCEPT !.fstTTL = k.n] ELSE s
      [] k.opt = "m" -> KeyMax(s, k.n)
      [] k.opt = "u" -> [s EXCEPT !.mtrtype = Toggle(s, "udp")]
      [] k.opt = "t" -> [s EXCEPT !.mtrtype = Toggle(s, "tcp")]

-----------------------------------------------------------------------------
(* The command for one probe: a token, a name and name-value pairs.           *)

Version(af)      == IF af = 6 THEN "ip-6" ELSE "ip-4"
LocalVersion(af) == IF af = 6 THEN "local-ip-6" ELSE "local-ip-4"

(* An argument that is left out when it is zero.                              *)
IfSet(name, n) == IF n = 0 THEN <<>> ELSE << <<name, n>> >>

BaseCommand(s, af) ==
    << <<Version(af), "target">>, <<LocalVersion(af), "self">>, <<"protocol", s.mtrtype>> >>

SendProbeCommand(s, af, seq, ttl, size) ==
    [token |-> seq, name |-> "send-probe",
     args |-> BaseCommand(s, af)
              \o << <<"size", size>>, <<"bit-pattern", s.bitpattern>>, <<"tos", s.tos>>,
                    <<"ttl", ttl>>, <<"timeout", s.probe_timeout>> >>
              \o IfSet("port", s.remoteport) \o IfSet("local-port", s.localport)
              \o IfSet("mark", s.mark)]

(* The features the client asks the engine for before it sends anything.      *)
FeaturesAsked(s, af) ==
    <<Version(af), s.mtrtype>> \o IF s.mark = 0 THEN <<>> ELSE <<"mark">>
=============================================================================
