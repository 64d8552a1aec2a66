------------------------- MODULE ProbeJourneyProofs -------------------------
(***************************************************************************)
(* A probe's way from a setting to a statistic, for every set of machines, *)
(* option lines, keys and messages: the statistics of a hop agree, rounds  *)
(* stay within the table, the packet that leaves is the one that was asked *)
(* for, a setting is refused for three reasons only, a quotation is found  *)
(* to be its probe's, and a hop shows what was heard of it.                *)
(*                                                                         *)
(* That they agree is not inductive as the property says it: the mean      *)
(* jitter stays below the largest only because it starts from zero, and    *)
(* the next jitter stays below what lies between the best and the worst    *)
(* only because the last answer lies between them too.  HopHolds adds both.*)
(* The sums are divided the way C divides, toward zero, so the division is *)
(* dealt with first.  The limits of a round are a matter of what parsing a *)
(* line of options keeps, and the packet one of which value the engine     *)
(* finds under each name of the command.  On the way back, Way says which  *)
(* field of a header holds a probe's number; the bits and the text which   *)
(* labels become are taken apart again where they were put together.       *)
(***************************************************************************)
EXTENDS ProbeJourney, SequenceTheorems, WellFoundedInduction, TLAPS

Between(lo, n, hi) == lo <= n /\ n <= hi

Numbers(hop) ==
    /\ hop.returned \in Nat
    /\ hop.last \in Int /\ hop.best \in Int /\ hop.worst \in Int /\ hop.avg \in Int
    /\ hop.ssd \in Int /\ hop.javg \in Int /\ hop.jworst \in Int /\ hop.jinta \in Int

HopHolds(hop) ==
    /\ Numbers(hop)
    /\ hop.returned = 0 => hop.javg = 0
    /\ hop.returned > 0 =>
         /\ Between(hop.best, hop.last, hop.worst)
         /\ Between(hop.best, hop.avg, hop.worst)
         /\ hop.ssd >= 0 /\ hop.jinta >= 0
         /\ 0 <= hop.javg /\ hop.javg <= hop.jworst
         /\ hop.jworst <= hop.worst - hop.best

HopsHold == \A h \in DOMAIN hops : HopHolds(hops[h])

-----------------------------------------------------------------------------
(* Division                                                                   *)

(* A mean of numbers between two bounds, weighted with how many there were,   *)
(* lies between the bounds as well (before it is divided).                    *)
LEMMA Weighted ==
  ASSUME NEW lo \in Int, NEW a \in Int, NEW t \in Int, NEW n \in Nat, n > 0, lo <= a, lo <= t
  PROVE  lo * n <= a * (n - 1) + t
  <1> DEFINE k == n - 1
             d == a - lo
  <1>1. k \in Nat /\ d \in Nat
    OBVIOUS
  <1>2. d * k >= 0
    BY <1>1
  <1>3. a * (n - 1) + t = lo * n + d * k + (t - lo)
    OBVIOUS
  <1> QED
    BY <1>2, <1>3

(* Division is monotonic: what lies between two multiples of the divisor is   *)
(* divided into what lies between the factors.                                *)
LEMMA DivBetween ==
  ASSUME NEW x \in Int, NEW n \in Nat, n > 0, NEW lo \in Int, NEW hi \in Int,
         lo * n <= x, x <= hi * n
  PROVE  x \div n \in Int /\ lo <= x \div n /\ x \div n <= hi
  <1> DEFINE q == x \div n
             r == x % n
  <1>1. q \in Int /\ r \in 0..n - 1 /\ x = q * n + r
    BY SMT
  <1>2. CASE q < lo
    <2>1. (lo - 1 - q) * n >= 0
      <3> DEFINE e == lo - 1 - q
      <3>1. e \in Nat
        BY <1>1, <1>2
      <3> QED
        BY <3>1
    <2>2. (lo - 1 - q) * n = lo * n - n - q * n
      BY <1>1
    <2> QED
      BY <1>1, <2>1, <2>2
  <1>3. CASE hi < q
    <2>1. (q - 1 - hi) * n >= 0
      <3> DEFINE e == q - 1 - hi
      <3>1. e \in Nat
        BY <1>1, <1>3
      <3> QED
        BY <3>1
    <2>2. (q - 1 - hi) * n = q * n - n - hi * n
      BY <1>1
    <2> QED
      BY <1>1, <2>1, <2>2
  <1> QED
    BY <1>1, <1>2, <1>3

(* So is the division toward zero.                                            *)
LEMMA AwayBetween ==
  ASSUME NEW x \in Int, NEW n \in Nat, n > 0, NEW lo \in Int, NEW hi \in Int,
         lo * n <= x, x <= hi * n
  PROVE  Away(x, n) \in Int /\ lo <= Away(x, n) /\ Away(x, n) <= hi
  <1>1. CASE x >= 0
    BY <1>1, DivBetween DEF Away
  <1>2. CASE x < 0
    <2> DEFINE y == -x
    <2>1. y \in Int /\ -hi \in Int /\ -lo \in Int
      OBVIOUS
    <2>2. (-hi) * n <= y /\ y <= (-lo) * n
      OBVIOUS
    <2>3. y \div n \in Int /\ -hi <= y \div n /\ y \div n <= -lo
      BY <2>1, <2>2, DivBetween
    <2> QED
      BY <1>2, <2>3 DEF Away
  <1> QED
    BY <1>1, <1>2

(* The mean after one more answer lies between any bounds that the mean so    *)
(* far and the answer respect.                                                *)
LEMMA MeanBetween ==
  ASSUME NEW a \in Int, NEW t \in Int, NEW n \in Nat, n > 0,
         NEW lo \in Int, NEW hi \in Int, Between(lo, a, hi), Between(lo, t, hi)
  PROVE  Mean(a, t, n) \in Int /\ Between(lo, Mean(a, t, n), hi)
  <1> DEFINE x == a * (n - 1) + t
  <1>1. x \in Int
    OBVIOUS
  <1>2. lo * n <= x
    BY Weighted DEF Between
  <1>3. x <= hi * n
    <2>1. (-hi) * n <= (-a) * (n - 1) + (-t)
      <3>1. -hi \in Int /\ -a \in Int /\ -t \in Int /\ -hi <= -a /\ -hi <= -t
        BY DEF Between
      <3> QED
        BY <3>1, Weighted
    <2>2. (-a) * (n - 1) + (-t) = -x /\ (-hi) * n = -(hi * n)
      OBVIOUS
    <2>3. hi * n \in Int
      OBVIOUS
    <2> HIDE DEF x
    <2> QED
      BY <1>1, <2>1, <2>2, <2>3
  <1> HIDE DEF x
  <1>4. Away(x, n) \in Int /\ lo <= Away(x, n) /\ Away(x, n) <= hi
    BY <1>1, <1>2, <1>3, AwayBetween
  <1> QED
    BY <1>4 DEF Mean, Between, x

(* What the variance grows by is never negative: the new mean is on the same  *)
(* side of the answer as the old one.                                         *)
LEMMA SpreadGrows ==
  ASSUME NEW a \in Int, NEW t \in Int, NEW n \in Nat, n > 0
  PROVE  (t - a) * (t - Mean(a, t, n)) \in Nat
  <1> DEFINE m == Mean(a, t, n)
  <1>1. CASE a <= t
    <2>1. m \in Int /\ Between(a, m, t)
      BY <1>1, MeanBetween DEF Between
    <2>2. t - a \in Nat /\ t - m \in Nat
      BY <1>1, <2>1 DEF Between
    <2> HIDE DEF m
    <2>3. \A x, y \in Nat : x * y \in Nat
      OBVIOUS
    <2>4. (t - a) * (t - m) \in Nat
      BY <2>2, <2>3
    <2> QED
      BY <2>4 DEF m
  <1>2. CASE t < a
    <2>1. m \in Int /\ Between(t, m, a)
      BY <1>2, MeanBetween DEF Between
    <2>2. a - t \in Nat /\ m - t \in Nat
      BY <1>2, <2>1 DEF Between
    <2> HIDE DEF m
    <2>3. \A x, y \in Nat : x * y \in Nat
      OBVIOUS
    <2>4. (a - t) * (m - t) \in Nat
      BY <2>2, <2>3
    <2>5. (t - a) * (t - m) = (a - t) * (m - t)
      BY <2>1
    <2> QED
      BY <2>4, <2>5 DEF m
  <1> QED
    BY <1>1, <1>2

(* The mean jitter moves toward the new one, never past it.                   *)
LEMMA TowardJitter ==
  ASSUME NEW a \in Nat, NEW j \in Nat, NEW n \in Nat, n > 0
  PROVE  /\ a + Away(j - a, n) \in Nat
         /\ \A w \in Int : a <= w /\ j <= w => a + Away(j - a, n) <= w
  <1> DEFINE d == j - a
             v == Away(d, n)
  <1>1. CASE a <= j
    <2>1. d \in Nat /\ 0 * n <= d /\ d <= d * n
      <3>1. d \in Nat /\ n - 1 \in Nat
        BY <1>1
      <3>2. d * (n - 1) >= 0 /\ d * n = d + d * (n - 1)
        BY <3>1
      <3> QED
        BY <3>1, <3>2
    <2>2. v \in Int /\ 0 <= v /\ v <= d
      <3>1. d \in Int /\ 0 \in Int
        BY <2>1
      <3> HIDE DEF d
      <3> QED
        BY <2>1, <3>1, AwayBetween
    <2> HIDE DEF v
    <2>3. a + v \in Nat /\ \A w \in Int : a <= w /\ j <= w => a + v <= w
      BY <2>2
    <2> QED
      BY <2>3 DEF v, d
  <1>2. CASE j < a
    <2> DEFINE e == a - j
    <2>1. d \in Int /\ d * n <= d /\ d <= 0 * n
      <3>1. e \in Nat /\ n - 1 \in Nat /\ d = -e
        BY <1>2
      <3>2. e * (n - 1) >= 0 /\ d * n = -e - e * (n - 1)
        BY <3>1
      <3> QED
        BY <3>1, <3>2
    <2>2. v \in Int /\ d <= v /\ v <= 0
      BY <2>1, AwayBetween
    <2> HIDE DEF v
    <2>3. a + v \in Nat /\ \A w \in Int : a <= w /\ j <= w => a + v <= w
      BY <2>2
    <2> QED
      BY <2>3 DEF v, d
  <1> QED
    BY <1>1, <1>2

-----------------------------------------------------------------------------
(* A reply                                                                    *)

(* The address, time and labels which the client reads from a reply are those *)
(* the engine wrote into it, with or without labels (parse_reply_arguments).  *)
LEMMA ReplyIsRead ==
  ASSUME NEW token, NEW raw, NEW m, NEW af
  PROVE  /\ Reply(token, raw, m, af).args[1][2] = m.from
         /\ ReplyArgument(Reply(token, raw, m, af), "round-trip-time", 0) = m.rtt
         /\ ReplyArgument(Reply(token, raw, m, af), "mpls", <<>>)
              = IF DecodeLabels(raw, m) = <<>> THEN <<>> ELSE MplsText(DecodeLabels(raw, m))
  <1> DEFINE ip   == <<IF af = 6 THEN "ip-6" ELSE "ip-4", m.from>>
             time == <<"round-trip-time", m.rtt>>
             mpls == <<"mpls", MplsText(DecodeLabels(raw, m))>>
             tail == IF DecodeLabels(raw, m) = <<>> THEN <<>> ELSE <<mpls>>
             args == <<ip, time>> \o tail
             at   == {i \in DOMAIN args : args[i][1] = "round-trip-time"}
             last == {i \in DOMAIN args : args[i][1] = "mpls"}
  <1>1. /\ ip[1] \notin {"round-trip-time", "mpls"} /\ ip[2] = m.from
        /\ time[1] = "round-trip-time" /\ time[2] = m.rtt
        /\ mpls[1] = "mpls" /\ mpls[2] = MplsText(DecodeLabels(raw, m))
    OBVIOUS
  <1> DEFINE S == {ip, time, mpls}
  <1>2. <<ip, time>> \in Seq(S) /\ tail \in Seq(S) /\ Len(tail) \in {0, 1}
        /\ (Len(tail) = 1 => tail[1] = mpls)
        /\ (Len(tail) = 0 <=> DecodeLabels(raw, m) = <<>>)
    <2> HIDE DEF ip, time, mpls
    <2>1. <<>> \in Seq(S) /\ <<mpls>> \in Seq(S) /\ Len(<<>>) = 0 /\ Len(<<mpls>>) = 1
          /\ <<mpls>>[1] = mpls
      OBVIOUS
    <2>2. \/ tail = <<>> /\ DecodeLabels(raw, m) = <<>>
          \/ tail = <<mpls>> /\ DecodeLabels(raw, m) # <<>>
      OBVIOUS
    <2>3. <<ip, time>> \in Seq(S)
      OBVIOUS
    <2> HIDE DEF tail, S
    <2>4. Len(<<>>) # 1
      OBVIOUS
    <2> QED
      BY <2>1, <2>2, <2>3, <2>4
  <1>3. /\ DOMAIN args = 1..2 + Len(tail)
        /\ args[1] = ip /\ args[2] = time
        /\ Len(tail) = 1 => args[3] = mpls
    <2> HIDE DEF ip, time, mpls, tail, S
    <2> QED
      BY <1>2
  <1>4. at = {2} /\ last = IF Len(tail) = 1 THEN {3} ELSE {}
    <2> HIDE DEF args, ip, time, mpls, tail, S
    <2>1. \/ DOMAIN args = 1..2 /\ Len(tail) = 0
          \/ DOMAIN args = 1..3 /\ Len(tail) = 1
      <3>1. Len(tail) = 0 \/ Len(tail) = 1
        BY <1>2
      <3>2. 1..2 + 0 = 1..2 /\ 1..2 + 1 = 1..3
        OBVIOUS
      <3> QED
        BY <1>3, <3>1, <3>2
    <2>2. DOMAIN args \subseteq {1, 2, 3} /\ 2 \in DOMAIN args
          /\ (3 \in DOMAIN args <=> Len(tail) = 1)
      BY <2>1
    <2> QED
      BY <1>1, <1>3, <2>2
  <1>5. ReplyArgument(Reply(token, raw, m, af), "round-trip-time", 0)
          = IF at = {} THEN 0 ELSE args[CHOOSE i \in at : TRUE][2]
    BY SMTT(30) DEF ReplyArgument, Reply
  <1>6. ReplyArgument(Reply(token, raw, m, af), "mpls", <<>>)
          = IF last = {} THEN <<>> ELSE args[CHOOSE i \in last : TRUE][2]
    BY SMTT(30) DEF ReplyArgument, Reply
  <1>7. Reply(token, raw, m, af).args = args
    BY DEF Reply
  <1> HIDE DEF at, last, args, ip, time, mpls, tail, S
  <1>8. (CHOOSE i \in {2} : TRUE) = 2 /\ (CHOOSE i \in {3} : TRUE) = 3
    OBVIOUS
  <1>9. ReplyArgument(Reply(token, raw, m, af), "mpls", <<>>)
          = IF DecodeLabels(raw, m) = <<>> THEN <<>> ELSE MplsText(DecodeLabels(raw, m))
    <2>1. CASE Len(tail) = 1
      BY <1>1, <1>2, <1>3, <1>4, <1>6, <1>8, <2>1
    <2>2. CASE Len(tail) # 1
      BY <1>2, <1>4, <1>6, <2>2
    <2> QED
      BY <2>1, <2>2
  <1> QED
    BY <1>1, <1>3, <1>4, <1>5, <1>7, <1>8, <1>9

-----------------------------------------------------------------------------
(* The hop                                                                    *)

(* A hop that holds still does when another answer is accounted for           *)
(* (net_process_ping).                                                        *)
LEMMA AnswerHolds ==
  ASSUME NEW hop, HopHolds(hop), NEW reply,
         ReplyArgument(reply, "round-trip-time", 0) \in Int
  PROVE  HopHolds(Returned(hop, reply))
  <1> DEFINE t == ReplyArgument(reply, "round-trip-time", 0)
             n == hop.returned + 1
             new == Returned(hop, reply)
             jitter == Jitter(hop, t)
  <1>1. t \in Int /\ n \in Nat /\ n > 0 /\ Numbers(hop)
    BY DEF HopHolds, Numbers
  <1>2. new.returned = n /\ new.last = t
    BY DEF Returned
  <1> HIDE DEF t
  <1>3. CASE hop.returned = 0
    <2>1. n = 1 /\ hop.returned < 1 /\ hop.javg = 0
      BY <1>3 DEF HopHolds
    <2>2. Mean(0, t, 1) = t
      BY <1>1, MeanBetween DEF Between, Mean, Away
    <2>3. Away(0, 1) = 0
      BY DEF Away
    <2>4. /\ new.best = t /\ new.worst = t /\ new.avg = Mean(0, t, n)
          /\ new.ssd = 0 + (t - 0) * (t - Mean(0, t, n))
          /\ new.jworst = 0
          /\ new.javg = hop.javg + Away(0 - hop.javg, n)
          /\ new.jinta = 0 + 0 - (0 + 8) \div 16
      BY <2>1 DEF Returned, Jitter, t
    <2> HIDE DEF new, n
    <2>5. /\ new.avg = t /\ new.ssd = 0 /\ new.javg = 0 /\ new.jinta = 0
          /\ new.returned = 1 /\ new.last = t
          /\ new.best = t /\ new.worst = t /\ new.jworst = 0
      BY <1>1, <1>2, <2>1, <2>2, <2>3, <2>4
    <2>6. HopHolds(new)
      BY <1>1, <2>5 DEF HopHolds, Numbers, Between
    <2> QED
      BY <2>6 DEF new
  <1>4. CASE hop.returned > 0
    <2>1. ~(hop.returned < 1)
      BY <1>1, <1>4 DEF Numbers
    <2>2. /\ Between(hop.best, hop.last, hop.worst) /\ Between(hop.best, hop.avg, hop.worst)
          /\ hop.ssd >= 0 /\ hop.jinta >= 0 /\ 0 <= hop.javg /\ hop.javg <= hop.jworst
          /\ hop.jworst <= hop.worst - hop.best
      BY <1>4 DEF HopHolds
    <2>3. jitter = Abs(t - hop.last)
      BY <2>1 DEF Jitter
    <2>4. /\ new.best = (IF hop.best < t THEN hop.best ELSE t)
          /\ new.worst = (IF hop.worst > t THEN hop.worst ELSE t)
          /\ new.avg = Mean(hop.avg, t, n)
          /\ new.ssd = hop.ssd + (t - hop.avg) * (t - Mean(hop.avg, t, n))
          /\ new.jworst = (IF hop.jworst > jitter THEN hop.jworst ELSE jitter)
          /\ new.javg = hop.javg + Away(jitter - hop.javg, n)
          /\ new.jinta = hop.jinta + jitter - (hop.jinta + 8) \div 16
      BY <2>1 DEF Returned, t, MinOf, MaxOf
    <2> HIDE DEF new, n, jitter
    <2>5. /\ new.best \in Int /\ new.worst \in Int
          /\ new.best <= hop.best /\ hop.worst <= new.worst
          /\ Between(new.best, t, new.worst)
          /\ Between(new.best, hop.avg, new.worst) /\ Between(new.best, hop.last, new.worst)
      BY <1>1, <2>2, <2>4 DEF Between, Numbers
    <2>6. new.avg \in Int /\ Between(new.best, new.avg, new.worst)
      <3>1. hop.avg \in Int
        BY <1>1 DEF Numbers
      <3>2. \A lo, hi \in Int : Between(lo, hop.avg, hi) /\ Between(lo, t, hi) =>
              Mean(hop.avg, t, n) \in Int /\ Between(lo, Mean(hop.avg, t, n), hi)
        BY <1>1, <3>1, MeanBetween
      <3>3. new.avg = Mean(hop.avg, t, n)
        BY <2>4
      <3> QED
        BY <2>5, <3>2, <3>3
    <2>7. new.ssd \in Nat
      <3>1. hop.avg \in Int /\ hop.ssd \in Nat
        BY <1>1, <2>2 DEF Numbers
      <3> DEFINE grows == (t - hop.avg) * (t - Mean(hop.avg, t, n))
      <3>2. grows \in Nat
        BY <1>1, <3>1, SpreadGrows
      <3>3. new.ssd = hop.ssd + grows
        BY <2>4
      <3> HIDE DEF grows
      <3> QED
        BY <3>1, <3>2, <3>3
    <2>8. jitter \in Nat /\ jitter <= new.worst - new.best
      BY <1>1, <2>3, <2>5 DEF Abs, Between, Numbers
    <2>9. /\ new.jworst \in Nat /\ hop.javg <= new.jworst /\ jitter <= new.jworst
          /\ new.jworst <= new.worst - new.best
      BY <1>1, <2>2, <2>4, <2>5, <2>8 DEF Numbers
    <2>10. new.javg \in Nat /\ new.javg <= new.jworst
      <3>1. hop.javg \in Nat /\ new.jworst \in Int
        BY <1>1, <2>2, <2>9 DEF Numbers
      <3> QED
        BY <1>1, <2>4, <2>8, <2>9, <3>1, TowardJitter
    <2>11. new.jinta \in Nat
      <3>1. hop.jinta \in Nat
        BY <1>1, <2>2 DEF Numbers
      <3> QED
        BY <2>4, <2>8, <3>1
    <2>12. HopHolds(new)
      BY <1>1, <1>2, <2>5, <2>6, <2>7, <2>9, <2>10, <2>11 DEF HopHolds, Numbers, Between
    <2> QED
      BY <2>12 DEF new
  <1> QED
    BY <1>1, <1>3, <1>4 DEF Numbers

(* Only an answer changes the table, and only the hop it is credited to.      *)
LEMMA HopsHoldAlways == Spec => []HopsHold
  <1>1. Init => HopsHold
    <2>1. HopHolds(NewHop)
      BY DEF HopHolds, Numbers, NewHop
    <2> QED
      BY <2>1 DEF Init, HopsHold
  <1>2. HopsHold /\ [Next]_vars => HopsHold'
    <2> SUFFICES ASSUME HopsHold, [Next]_vars
                 PROVE  HopsHold'
      OBVIOUS
    <2>1. CASE UNCHANGED hops
      BY <2>1 DEF HopsHold
    <2>2. CASE Answer
      <3>1. PICK f \in flying : \E m \in Answers(f) : Hear(f, m)
        BY <2>2 DEF Answer
      <3>2. PICK m \in Answers(f) : Hear(f, m)
        BY <3>1
      <3> DEFINE g == Found(FoundProbe(Sequences, m, f.packet, Self))
                 at == g.hop
                 token == g.packet.sequence
      <3>3. SUFFICES ASSUME ~UNCHANGED hops
                     PROVE  HopsHold'
        BY <2>1
      <3>4. hops' = [hops EXCEPT ![at] = Returned(@, Reply(token, IsRaw(f), m, family))]
        BY <3>2, <3>3 DEF Hear
      <3> HIDE DEF g, at, token
      <3> DEFINE reply == Reply(token, IsRaw(f), m, family)
      <3>5. ReplyArgument(reply, "round-trip-time", 0) \in Int
        <4>1. m \in Messages
          BY DEF Answers
        <4> QED
          BY <4>1, ReplyIsRead, JourneyAssumption
      <3> HIDE DEF reply
      <3>6. ASSUME NEW h \in DOMAIN hops
            PROVE  HopHolds(hops'[h])
        <4>1. HopHolds(hops[h]) /\ HopHolds(Returned(hops[h], reply))
          BY <3>5, AnswerHolds DEF HopsHold
        <4>2. hops'[h] = hops[h] \/ hops'[h] = Returned(hops[h], reply)
          BY <3>4 DEF reply
        <4> QED
          BY <4>1, <4>2
      <3>7. DOMAIN hops' = DOMAIN hops
        BY <3>4
      <3> QED
        BY <3>6, <3>7 DEF HopsHold
    <2>3. CASE Next /\ ~Answer
      BY <2>1, <2>3 DEF Next, KeyAction, SendBatch, DivideByZero, Lose
    <2> QED
      BY <2>1, <2>2, <2>3 DEF vars
  <1> QED
    BY <1>1, <1>2, PTL DEF Spec

(* The best time of a hop, the mean and the worst stay in order, its variance *)
(* is not negative and no jitter is larger than the range, whatever the       *)
(* order of the answers and however the clock is set (net_process_ping).      *)
THEOREM StatisticsHold == Spec => []HopStatisticsAgree
  <1>1. HopsHold => HopStatisticsAgree
    BY DEF HopsHold, HopHolds, HopStatisticsAgree, StatisticsAgree, Between
  <1> QED
    BY <1>1, HopsHoldAlways, PTL

-----------------------------------------------------------------------------
(* The command line                                                           *)

(* Among places there is a first.                                             *)
LEMMA FirstPlace ==
  ASSUME NEW S \in SUBSET Nat, S # {}
  PROVE  \E i \in S : \A j \in S : i <= j
  <1>1. PICK i \in S : \A j \in S : <<j, i>> \notin OpToRel(<, Nat)
    BY NatLessThanWellFounded, WFMin
  <1>2. \A j \in S : ~(j < i)
    BY <1>1 DEF OpToRel
  <1> QED
    BY <1>2

(* The settings after each option of a line, from the left to the k-th.       *)
Parsing(g, line, k) ==
    /\ DOMAIN g = 0..k
    /\ g[0] = Defaults
    /\ \A i \in 1..k : g[i] = Parsed(g[i - 1], line[i])

LEMMA ParsingExists ==
  ASSUME NEW line, NEW k \in Nat
  PROVE  \E g : Parsing(g, line, k)
  <1> DEFINE T == {i \in Nat : ~ \E g : Parsing(g, line, i)}
  <1>1. SUFFICES ASSUME T # {}
                 PROVE  FALSE
    OBVIOUS
  <1>2. PICK i \in T : \A j \in T : i <= j
    BY <1>1, FirstPlace
  <1>3. CASE i = 0
    <2> DEFINE g == [j \in 0..0 |-> Defaults]
    <2>1. Parsing(g, line, 0)
      BY DEF Parsing
    <2> QED
      BY <1>2, <1>3, <2>1
  <1>4. CASE i > 0
    <2>1. i - 1 \in Nat /\ i - 1 \notin T
      BY <1>2, <1>4
    <2>2. PICK f : Parsing(f, line, i - 1)
      BY <2>1
    <2> DEFINE g == [j \in 0..i |-> IF j = i THEN Parsed(f[i - 1], line[i]) ELSE f[j]]
    <2>3. g[0] = Defaults
      BY <1>4, <2>2 DEF Parsing
    <2>4. ASSUME NEW j \in 1..i
          PROVE  g[j] = Parsed(g[j - 1], line[j])
      <3>1. j - 1 \in 0..i /\ j - 1 # i /\ g[j - 1] = f[j - 1]
        BY <1>2
      <3>2. CASE j = i
        BY <3>1, <3>2
      <3>3. CASE j # i
        <4>1. j \in 1..i - 1 /\ g[j] = f[j]
          BY <1>2, <3>3
        <4> QED
          BY <2>2, <3>1, <4>1 DEF Parsing
      <3> QED
        BY <3>2, <3>3
    <2>5. Parsing(g, line, i)
      <3>1. DOMAIN g = 0..i
        OBVIOUS
      <3> HIDE DEF g
      <3> QED
        BY <2>3, <2>4, <3>1 DEF Parsing
    <2> QED
      BY <1>2, <2>5
  <1> QED
    BY <1>2, <1>3, <1>4

(* What is said of the settings, and what no option changes, is so of the     *)
(* whole line: there is no first option after which it is not.                *)
LEMMA ParsingIsUnique ==
  ASSUME NEW line, NEW other, NEW k \in Nat, NEW g, NEW h, Parsing(g, line, k),
         NEW n \in Nat, Parsing(h, other, n), k <= n, \A i \in 1..k : other[i] = line[i]
  PROVE  g[k] = h[k]
  <1> DEFINE T == {i \in 0..k : g[i] # h[i]}
  <1>1. SUFFICES ASSUME T # {}
                 PROVE  FALSE
    OBVIOUS
  <1>2. PICK i \in T : \A j \in T : i <= j
    <2>1. T \subseteq Nat
      OBVIOUS
    <2> HIDE DEF T
    <2> QED
      BY <1>1, <2>1, FirstPlace
  <1>3. i # 0
    BY <1>2 DEF Parsing
  <1>4. i \in 1..k /\ i \in 1..n /\ i - 1 \in 0..k /\ i - 1 \notin T
    BY <1>2, <1>3
  <1>5. g[i] = Parsed(g[i - 1], line[i]) /\ h[i] = Parsed(h[i - 1], line[i])
        /\ g[i - 1] = h[i - 1]
    BY <1>4 DEF Parsing
  <1> QED
    BY <1>2, <1>5

(* ParseLine goes through a line from the left to the right.                  *)
LEMMA LineIsParsed ==
  ASSUME NEW S, NEW line \in Seq(S)
  PROVE  \E g : Parsing(g, line, Len(line)) /\ ParseLine(line) = g[Len(line)]
  <1> DEFINE n == Len(line)
             Body(f) == [i \in 0..n |->
                           IF i = 0 THEN Defaults ELSE Parsed(f[i - 1], line[i])]
             after == CHOOSE f : f = Body(f)
  <1>1. n \in Nat
    OBVIOUS
  <1>2. PICK g : Parsing(g, line, n)
    BY <1>1, ParsingExists
  <1> DEFINE h == [i \in 0..n |-> g[i]]
  <1>3. h = Body(h)
    <2>1. ASSUME NEW i \in 0..n
          PROVE  h[i] = IF i = 0 THEN Defaults ELSE Parsed(h[i - 1], line[i])
      <3>1. CASE i = 0
        BY <1>2, <3>1 DEF Parsing
      <3>2. CASE i # 0
        <4>1. i \in 1..n /\ i - 1 \in 0..n
          BY <1>1, <3>2
        <4> QED
          BY <1>2, <3>2, <4>1 DEF Parsing
      <3> QED
        BY <3>1, <3>2
    <2> QED
      BY <2>1, Zenon
  <1>4. after = Body(after)
    <2>1. \E f : f = Body(f)
      BY <1>3
    <2> HIDE DEF Body
    <2> QED
      BY <2>1
  <1>5. ParseLine(line) = after[n]
    BY DEF ParseLine
  <1>6. Parsing(after, line, n)
    <2> HIDE DEF after
    <2>1. DOMAIN after = 0..n
      BY <1>4
    <2>2. \A i \in 0..n : after[i] = IF i = 0 THEN Defaults ELSE Parsed(after[i - 1], line[i])
      BY <1>4, Zenon
    <2> HIDE DEF Body, n
    <2>3. 0 \in 0..n /\ \A i \in 1..n : i \in 0..n /\ i # 0
      BY <1>1
    <2> QED
      BY <2>1, <2>2, <2>3 DEF Parsing
  <1> QED
    BY <1>5, <1>6

-----------------------------------------------------------------------------
(* The settings                                                               *)

Protocol == {"icmp", "udp", "tcp", "sctp"}

Sets ==
    [Interactive : BOOLEAN, cpacketsize : Int, bitpattern : Int, tos : 0..255,
     mtrtype : Protocol, fstTTL : Int, maxTTL : Int, maxUnknown : Int, probe_timeout : Int,
     remoteport : Int, localport : {0} \cup MinPort..MaxPort, mark : Int]

HopsInTable(s) == 1 <= s.fstTTL /\ s.fstTTL <= s.maxTTL /\ s.maxTTL < MaxHost

GoodSettings(s) == s \in Sets /\ HopsInTable(s)

LEMMA Changed ==
  ASSUME NEW s, GoodSettings(s), NEW n \in Int
  PROVE  /\ GoodSettings([s EXCEPT !.Interactive = FALSE])
         /\ GoodSettings([s EXCEPT !.cpacketsize = n])
         /\ GoodSettings([s EXCEPT !.bitpattern = n])
         /\ n \in 0..255 => GoodSettings([s EXCEPT !.tos = n])
         /\ GoodSettings([s EXCEPT !.maxUnknown = n])
         /\ GoodSettings([s EXCEPT !.probe_timeout = n])
         /\ GoodSettings([s EXCEPT !.remoteport = n])
         /\ n \in MinPort..MaxPort => GoodSettings([s EXCEPT !.localport = n])
         /\ GoodSettings([s EXCEPT !.mark = n])
         /\ \A p \in Protocol :
              /\ GoodSettings([s EXCEPT !.mtrtype = p])
              /\ GoodSettings([s EXCEPT !.mtrtype = p, !.remoteport = n])
  <1>1. GoodSettings([s EXCEPT !.Interactive = FALSE])
    BY DEF GoodSettings, Sets, HopsInTable
  <1>2. GoodSettings([s EXCEPT !.cpacketsize = n])
    BY DEF GoodSettings, Sets, HopsInTable
  <1>3. GoodSettings([s EXCEPT !.bitpattern = n])
    BY DEF GoodSettings, Sets, HopsInTable
  <1>4. n \in 0..255 => GoodSettings([s EXCEPT !.tos = n])
    BY DEF GoodSettings, Sets, HopsInTable
  <1>5. GoodSettings([s EXCEPT !.maxUnknown = n])
    BY DEF GoodSettings, Sets, HopsInTable
  <1>6. GoodSettings([s EXCEPT !.probe_timeout = n])
    BY DEF GoodSettings, Sets, HopsInTable
  <1>7. GoodSettings([s EXCEPT !.remoteport = n])
    BY DEF GoodSettings, Sets, HopsInTable
  <1>8. n \in MinPort..MaxPort => GoodSettings([s EXCEPT !.localport = n])
    BY DEF GoodSettings, Sets, HopsInTable
  <1>9. GoodSettings([s EXCEPT !.mark = n])
    BY DEF GoodSettings, Sets, HopsInTable
  <1>10. ASSUME NEW p \in Protocol
         PROVE  /\ GoodSettings([s EXCEPT !.mtrtype = p])
                /\ GoodSettings([s EXCEPT !.mtrtype = p, !.remoteport = n])
    BY DEF GoodSettings, Sets, HopsInTable
  <1> QED
    BY <1>1, <1>2, <1>3, <1>4, <1>5, <1>6, <1>7, <1>8, <1>9, <1>10

(* -f and -m keep the first hop below the last, and the last in the table.    *)
LEMMA HopsChanged ==
  ASSUME NEW s, GoodSettings(s), NEW n \in Int
  PROVE  GoodSettings(WithFirst(s, n)) /\ GoodSettings(WithMax(s, n))
  <1>1. s \in Sets /\ HopsInTable(s) /\ MaxHost \in Int /\ 1 <= MaxHost - 1
        /\ s.fstTTL \in Int /\ s.maxTTL \in Int
    BY SettingsAssumption DEF GoodSettings, Sets
  <1>2. ASSUME NEW f \in Int, NEW m \in Int, 1 <= f, f <= m, m < MaxHost
        PROVE  GoodSettings([s EXCEPT !.maxTTL = m, !.fstTTL = f])
    BY <1>1, <1>2 DEF GoodSettings, Sets, HopsInTable
  <1>3. ASSUME NEW f \in Int, 1 <= f, f <= s.maxTTL
        PROVE  GoodSettings([s EXCEPT !.fstTTL = f])
    BY <1>1, <1>3 DEF GoodSettings, Sets, HopsInTable
  <1>4. GoodSettings(WithFirst(s, n))
    <2> DEFINE f == AtLeast1(Lower(n, s.maxTTL))
    <2>1. f \in Int /\ 1 <= f /\ f <= s.maxTTL
      BY <1>1 DEF AtLeast1, Lower, HopsInTable
    <2> HIDE DEF f
    <2>2. GoodSettings([s EXCEPT !.fstTTL = f])
      BY <1>3, <2>1
    <2> QED
      BY <2>2 DEF WithFirst, f
  <1>5. GoodSettings(WithMax(s, n))
    <2> DEFINE m == AtLeast1(Lower(n, MaxHost - 1))
               f == Lower(s.fstTTL, m)
    <2>1. m \in Int /\ 1 <= m /\ m < MaxHost
      BY <1>1 DEF AtLeast1, Lower
    <2> HIDE DEF m
    <2>2. f \in Int /\ 1 <= f /\ f <= m
      BY <1>1, <2>1 DEF Lower, HopsInTable
    <2> HIDE DEF f
    <2>3. GoodSettings([s EXCEPT !.maxTTL = m, !.fstTTL = f])
      BY <1>2, <2>1, <2>2
    <2>4. [s EXCEPT !.maxTTL = m].fstTTL = s.fstTTL
      BY <1>1 DEF Sets
    <2> QED
      BY <2>3, <2>4 DEF WithMax, m, f
  <1> QED
    BY <1>4, <1>5

LEMMA OptionKeepsGood ==
  ASSUME NEW s, GoodSettings(s), NEW a \in Options, ~Rejects(s, a)
  PROVE  GoodSettings(Parsed(s, a))
  <1>1. a.n \in Int /\ -1 \in Int /\ 0 \in Int /\ 0 \in 0..255
        /\ \A m \in Int : AtLeast1(m) \in Int /\ ByteOr(m, 0) \in Int /\ ByteOr(m, 0) \in 0..255
    BY DEF Options, AtLeast1, ByteOr
  <1>2. CASE a.opt = "f"
    BY <1>1, <1>2, HopsChanged DEF Parsed
  <1>3. CASE a.opt = "m"
    BY <1>1, <1>3, HopsChanged DEF Parsed
  <1>4. CASE a.opt = "r"
    BY <1>1, <1>4, Changed DEF Parsed
  <1>5. CASE a.opt = "s"
    BY <1>1, <1>5, Changed DEF Parsed
  <1>6. CASE a.opt = "B"
    <2>1. CASE a.n > 255
      BY <1>1, <1>6, <2>1, Changed DEF Parsed
    <2>2. CASE ~(a.n > 255)
      BY <1>1, <1>6, <2>2, Changed DEF Parsed
    <2> QED
      BY <2>1, <2>2
  <1>7. CASE a.opt = "Q"
    <2>1. GoodSettings([s EXCEPT !.tos = ByteOr(a.n, 0)])
      BY <1>1, Changed
    <2> QED
      BY <1>7, <2>1 DEF Parsed
  <1>8. CASE a.opt = "U"
    <2>1. GoodSettings([s EXCEPT !.maxUnknown = AtLeast1(a.n)])
      BY <1>1, Changed
    <2> QED
      BY <1>8, <2>1 DEF Parsed
  <1>9. CASE a.opt = "Z"
    BY <1>1, <1>9, Changed DEF Parsed
  <1>10. CASE a.opt = "M"
    BY <1>1, <1>10, Changed DEF Parsed
  <1>11. CASE a.opt = "P"
    BY <1>1, <1>11, Changed DEF Parsed
  <1>12. CASE a.opt = "L"
    <2>1. a.n \in MinPort..MaxPort
      BY <1>12 DEF Rejects
    <2> QED
      BY <1>1, <1>12, <2>1, Changed DEF Parsed
  <1>13. CASE a.opt = "u"
    <2>1. GoodSettings([s EXCEPT !.mtrtype = "udp"])
      BY <1>1, Changed DEF Protocol
    <2> QED
      BY <1>13, <2>1 DEF Parsed
  <1>14. \A p \in Protocol : GoodSettings(WithStream(s, p))
    <2> DEFINE port == IF s.remoteport = 0 THEN 80 ELSE s.remoteport
    <2>1. port \in Int
      BY DEF GoodSettings, Sets
    <2> HIDE DEF port
    <2>2. \A p \in Protocol : GoodSettings([s EXCEPT !.mtrtype = p, !.remoteport = port])
      BY <2>1, Changed
    <2>3. \A p \in Protocol : [s EXCEPT !.mtrtype = p].remoteport = s.remoteport
      BY DEF GoodSettings, Sets
    <2> QED
      BY <2>2, <2>3 DEF WithStream, port
  <1>15. CASE a.opt \in {"T", "S"}
    BY <1>14, <1>15 DEF Parsed, Protocol
  <1> QED
    BY <1>2, <1>3, <1>4, <1>5, <1>6, <1>7, <1>8, <1>9, <1>10, <1>11, <1>12, <1>13, <1>15
       DEF Options

LEMMA KeyKeepsGood ==
  ASSUME NEW s, GoodSettings(s), NEW k \in KeyStrokes
  PROVE  GoodSettings(Typed(s, k))
  <1>1. s \in Sets /\ HopsInTable(s) /\ k.n \in Int /\ -1 \in Int /\ MaxHost \in Int
        /\ s.fstTTL \in Int /\ s.maxTTL \in Int
    BY SettingsAssumption DEF GoodSettings, KeyStrokes, Sets
  <1>2. CASE k.opt = "Q"
    <2>1. ByteOr(k.n, 0) \in Int /\ ByteOr(k.n, 0) \in 0..255
      BY <1>1 DEF ByteOr
    <2>2. GoodSettings([s EXCEPT !.tos = ByteOr(k.n, 0)])
      BY <2>1, Changed
    <2> QED
      BY <1>2, <2>2 DEF Typed
  <1>3. CASE k.opt = "s"
    BY <1>1, <1>3, Changed DEF Typed
  <1>4. CASE k.opt = "b"
    <2>1. CASE k.n > 255
      BY <1>1, <1>4, <2>1, Changed DEF Typed
    <2>2. CASE ~(k.n > 255)
      BY <1>1, <1>4, <2>2, Changed DEF Typed
    <2> QED
      BY <2>1, <2>2
  <1>5. CASE k.opt = "f"
    BY <1>1, <1>5 DEF Typed, GoodSettings, Sets, HopsInTable
  <1>6. CASE k.opt = "m"
    BY <1>1, <1>6 DEF Typed, KeyMax, GoodSettings, Sets, HopsInTable
  <1>7. \A p \in Protocol : GoodSettings([s EXCEPT !.mtrtype = p])
    BY <1>1, Changed
  <1>8. Toggle(s, "udp") \in Protocol /\ Toggle(s, "tcp") \in Protocol
    BY <1>1 DEF Toggle, Protocol, Sets
  <1>9. CASE k.opt = "u"
    BY <1>7, <1>8, <1>9 DEF Typed
  <1>10. CASE k.opt = "t"
    BY <1>7, <1>8, <1>10 DEF Typed
  <1> QED
    BY <1>2, <1>3, <1>4, <1>5, <1>6, <1>9, <1>10 DEF KeyStrokes

(* No option of a line that is not rejected is rejected where it stands.      *)
LEMMA OptionsAccepted ==
  ASSUME NEW line \in Seq(Options), ~LineRejected(line),
         NEW g, Parsing(g, line, Len(line)), NEW i \in 1..Len(line)
  PROVE  ~Rejects(g[i - 1], line[i])
  <1> DEFINE n == Len(line)
             head == SubSeq(line, 1, i - 1)
  <1>1. head \in Seq(Options) /\ Len(head) = i - 1 /\ \A j \in 1..i - 1 : head[j] = line[j]
    OBVIOUS
  <1>2. PICK h : Parsing(h, head, i - 1) /\ ParseLine(head) = h[i - 1]
    <2> HIDE DEF head
    <2> QED
      BY <1>1, LineIsParsed
  <1>3. h[i - 1] = g[i - 1]
    <2> HIDE DEF head
    <2>1. i - 1 \in Nat /\ n \in Nat /\ i - 1 <= n /\ \A j \in 1..i - 1 : line[j] = head[j]
      BY <1>1
    <2>2. Parsing(g, line, n)
      OBVIOUS
    <2> HIDE DEF n
    <2> QED
      BY <1>2, <2>1, <2>2, ParsingIsUnique
  <1>4. ~Rejects(ParseLine(head), line[i])
    <2>1. i \in DOMAIN line
      OBVIOUS
    <2> QED
      BY <2>1 DEF LineRejected
  <1> QED
    BY <1>2, <1>3, <1>4

(* A line that is not rejected leaves the settings good, after every option.  *)
LEMMA LineStaysGood ==
  ASSUME NEW line \in Seq(Options), ~LineRejected(line),
         NEW g, Parsing(g, line, Len(line))
  PROVE  \A i \in 0..Len(line) : GoodSettings(g[i])
  <1>1. Parsing(g, line, Len(line))
    OBVIOUS
  <1> DEFINE n == Len(line)
             T == {i \in 0..n : ~GoodSettings(g[i])}
  <1>2. SUFFICES ASSUME T # {}
                 PROVE  FALSE
    OBVIOUS
  <1>3. PICK i \in T : \A j \in T : i <= j
    <2>1. T \subseteq Nat
      OBVIOUS
    <2> HIDE DEF T
    <2> QED
      BY <1>2, <2>1, FirstPlace
  <1>4. GoodSettings(Defaults)
    BY SettingsAssumption DEF GoodSettings, Sets, HopsInTable, Defaults, Protocol
  <1>5. i \in 1..n /\ i - 1 \in 0..n /\ i - 1 \notin T
    BY <1>1, <1>3, <1>4 DEF Parsing
  <1>6. line[i] \in Options
    BY <1>5
  <1>7. ~Rejects(g[i - 1], line[i])
    BY <1>1, <1>5, OptionsAccepted
  <1>8. g[i] = Parsed(g[i - 1], line[i]) /\ GoodSettings(g[i - 1])
    BY <1>1, <1>5 DEF Parsing
  <1> QED
    BY <1>3, <1>6, <1>7, <1>8, OptionKeepsGood

LEMMA LineIsGood ==
  ASSUME NEW line \in Seq(Options), ~LineRejected(line)
  PROVE  GoodSettings(ParseLine(line))
  <1>1. PICK g : Parsing(g, line, Len(line)) /\ ParseLine(line) = g[Len(line)]
    BY LineIsParsed
  <1>2. Len(line) \in 0..Len(line)
    OBVIOUS
  <1> QED
    BY <1>1, <1>2, LineStaysGood

(* No option asks for a random size: those are negative.                      *)
LEMMA OptionKeepsSize ==
  ASSUME NEW s, GoodSettings(s), s.cpacketsize >= 0, NEW a \in Options, ~Rejects(s, a)
  PROVE  Parsed(s, a).cpacketsize >= 0
  <1>1. s \in Sets
    BY DEF GoodSettings
  <1>2. CASE a.opt = "s"
    <2>1. a.n >= 0
      BY <1>2 DEF Rejects, Numeric, IsNumber
    <2>2. Parsed(s, a).cpacketsize = a.n
      BY <1>1, <1>2 DEF Parsed, Sets
    <2> QED
      BY <2>1, <2>2
  <1>3. CASE a.opt \in {"T", "S", "f", "m"}
    <2>1. Parsed(s, a).cpacketsize = s.cpacketsize
      BY <1>1, <1>3 DEF Parsed, WithStream, WithFirst, WithMax, Sets
    <2> QED
      BY <2>1
  <1>4. CASE a.opt \in {"r", "B", "Q", "U", "Z", "M", "P", "L", "u"}
    <2>1. Parsed(s, a).cpacketsize = s.cpacketsize
      BY <1>1, <1>4 DEF Parsed, Sets
    <2> QED
      BY <2>1
  <1> QED
    BY <1>2, <1>3, <1>4 DEF Options

LEMMA LineAsksForSize ==
  ASSUME NEW line \in Seq(Options), ~LineRejected(line)
  PROVE  ParseLine(line).cpacketsize >= 0
  <1>1. PICK g : Parsing(g, line, Len(line)) /\ ParseLine(line) = g[Len(line)]
    BY LineIsParsed
  <1> DEFINE n == Len(line)
             T == {i \in 0..n : ~(g[i].cpacketsize >= 0)}
  <1>2. SUFFICES ASSUME T # {}
                 PROVE  FALSE
    BY <1>1
  <1>3. PICK i \in T : \A j \in T : i <= j
    <2>1. T \subseteq Nat
      OBVIOUS
    <2> HIDE DEF T
    <2> QED
      BY <1>2, <2>1, FirstPlace
  <1>4. Defaults.cpacketsize >= 0
    BY DEF Defaults
  <1>5. i \in 1..n /\ i - 1 \in 0..n /\ i - 1 \notin T
    BY <1>1, <1>3, <1>4 DEF Parsing
  <1>6. line[i] \in Options /\ g[i] = Parsed(g[i - 1], line[i]) /\ g[i - 1].cpacketsize >= 0
    BY <1>1, <1>5 DEF Parsing
  <1>7. GoodSettings(g[i - 1]) /\ ~Rejects(g[i - 1], line[i])
    BY <1>1, <1>5, LineStaysGood, OptionsAccepted
  <1> QED
    BY <1>3, <1>6, <1>7, OptionKeepsSize

-----------------------------------------------------------------------------
(* The table                                                                  *)

InTable(n) == n \in 0..MaxHost - 1
FlyInTable == \A f \in flying : InTable(f.hop)
StayInTable == GoodSettings(settings) /\ InTable(batch) /\ FlyInTable

LEMMA StartInTable == Init => StayInTable
  <1> SUFFICES ASSUME Init
               PROVE  StayInTable
    OBVIOUS
  <1>1. PICK line \in Lines : ~LineRejected(line) /\ settings = ParseLine(line)
    BY DEF Init
  <1>2. GoodSettings(settings)
    BY <1>1, LineIsGood, JourneyAssumption
  <1>3. InTable(batch) /\ flying = {}
    BY <1>2, SettingsAssumption DEF Init, InTable, GoodSettings, Sets, HopsInTable
  <1> QED
    BY <1>2, <1>3 DEF StayInTable, FlyInTable

(* A round that goes on has not come to the last hop, whichever that is now.  *)
LEMMA BatchStaysInTable ==
  ASSUME StayInTable
  PROVE  InTable(NextBatch)
  <1>1. settings.fstTTL \in Int /\ settings.maxTTL \in Int /\ MaxHost \in Int /\ batch \in Int
        /\ 0 <= batch /\ 1 <= settings.fstTTL /\ settings.fstTTL <= settings.maxTTL
        /\ settings.maxTTL < MaxHost
    BY SettingsAssumption DEF StayInTable, InTable, GoodSettings, Sets, HopsInTable
  <1>2. CASE NextBatch = settings.fstTTL - 1
    BY <1>1, <1>2 DEF InTable
  <1>3. CASE NextBatch # settings.fstTTL - 1
    <2>1. NextBatch = batch + 1 /\ ~AtLimit(batch, settings)
      BY <1>3 DEF NextBatch
    <2> QED
      BY <1>1, <2>1 DEF AtLimit, InTable
  <1> QED
    BY <1>2, <1>3

(* What is sent is sent to the hop the round has come to.                     *)
LEMMA SentToBatch ==
  ASSUME NEW s, NEW n, Send(s, n)
  PROVE  \A f \in flying' : f \in flying \/ f.hop = batch
  <1>1. CASE flying' = flying
    BY <1>1
  <1>2. CASE flying' # flying
    <2>1. PICK packet, asked :
            flying' = flying \cup {[hop |-> batch, packet |-> packet, asked |-> asked]}
      BY <1>2 DEF Send
    <2> QED
      BY <2>1
  <1> QED
    BY <1>1, <1>2

LEMMA StayInTableAlways == Spec => []StayInTable
  <1>1. StayInTable /\ [Next]_vars => StayInTable'
    <2> SUFFICES ASSUME StayInTable, [Next]_vars
                 PROVE  StayInTable'
      OBVIOUS
    <2>1. CASE UNCHANGED <<settings, batch>> /\ flying' \subseteq flying
      BY <2>1 DEF StayInTable, FlyInTable
    <2>2. CASE KeyAction
      <3>1. PICK k \in Keys : settings' = Typed(settings, k)
        BY <2>2 DEF KeyAction
      <3>2. GoodSettings(settings')
        BY <3>1, KeyKeepsGood, JourneyAssumption DEF StayInTable
      <3> QED
        BY <2>2, <3>2 DEF KeyAction, StayInTable, FlyInTable
    <2>3. CASE SendBatch
      <3>1. PICK n \in RoundSizes : \E b \in RoundPatterns :
              /\ settings' = [settings EXCEPT !.bitpattern = b]
              /\ Send([settings EXCEPT !.bitpattern = b], Abs(n))
        BY <2>3 DEF SendBatch
      <3>2. PICK b \in RoundPatterns :
              /\ settings' = [settings EXCEPT !.bitpattern = b]
              /\ Send([settings EXCEPT !.bitpattern = b], Abs(n))
        BY <3>1
      <3>3. b \in Int
        BY DEF RoundPatterns, StayInTable, GoodSettings, Sets
      <3>4. GoodSettings(settings')
        BY <3>2, <3>3, Changed DEF StayInTable
      <3>5. batch' = NextBatch /\ InTable(NextBatch)
        BY <2>3, BatchStaysInTable DEF SendBatch
      <3>6. FlyInTable'
        <4>1. \A f \in flying' : f \in flying \/ f.hop = batch
          BY <3>2, SentToBatch
        <4> QED
          BY <4>1 DEF StayInTable, FlyInTable
      <3>7. InTable(batch')
        BY <3>5
      <3> QED
        BY <3>4, <3>6, <3>7 DEF StayInTable
    <2>4. CASE DivideByZero
      BY <2>1, <2>4 DEF DivideByZero
    <2>5. CASE Answer
      <3>1. PICK f \in flying : \E m \in Answers(f) : Hear(f, m)
        BY <2>5 DEF Answer
      <3>2. flying' \subseteq flying
        BY <3>1 DEF Hear
      <3> QED
        BY <2>1, <2>5, <3>2 DEF Answer
    <2>6. CASE Lose
      BY <2>1, <2>6 DEF Lose
    <2>7. CASE UNCHANGED vars
      BY <2>1, <2>7 DEF vars
    <2> QED
      BY <2>2, <2>3, <2>4, <2>5, <2>6, <2>7 DEF Next
  <1> QED
    BY <1>1, StartInTable, PTL DEF Spec

(* Every hop that is probed has an entry in the table, for every command line *)
(* and every sequence of keys (mtr.c, curses.c, net_send_batch).              *)
THEOREM NoProbeOutsideTable == Spec => []ProbesStayInTable
  <1>1. StayInTable => ProbesStayInTable
    BY DEF StayInTable, FlyInTable, InTable, GoodSettings, HopsInTable, ProbesStayInTable
  <1> QED
    BY <1>1, StayInTableAlways, PTL

-----------------------------------------------------------------------------
(* The command                                                                *)

(* Among places in a sequence there is a last.                                *)
LEMMA LastPlace ==
  ASSUME NEW n \in Nat, NEW S \in SUBSET (1..n), S # {}
  PROVE  \E i \in S : \A j \in S : j <= i
  <1> DEFINE T == {n - i : i \in S}
  <1>1. T \subseteq Nat /\ T # {}
    <2>1. \A i \in S : n - i \in Nat
      OBVIOUS
    <2>2. PICK i \in S : TRUE
      OBVIOUS
    <2>3. n - i \in T
      OBVIOUS
    <2> QED
      BY <2>1, <2>3
  <1>2. PICK t \in T : \A u \in T : t <= u
    <2> HIDE DEF T
    <2> QED
      BY <1>1, FirstPlace
  <1>3. PICK i \in S : t = n - i
    OBVIOUS
  <1>4. ASSUME NEW j \in S
        PROVE  j <= i
    <2>1. n - j \in T
      OBVIOUS
    <2>2. n - i <= n - j
      BY <1>2, <1>3, <2>1
    <2> QED
      BY <2>2
  <1> QED
    BY <1>4

(* The value of a name that is given, if it is given one value only...        *)
LEMMA ArgumentIs ==
  ASSUME NEW T, NEW args \in Seq(T), NEW names, NEW e \in Range(args), e[1] \in names,
         \A d \in Range(args) : d[1] \in names => d = e
  PROVE  Given(args, names) /\ args[LastOf(args, names)] = e
  <1> DEFINE S == {i \in 1..Len(args) : args[i][1] \in names}
  <1>1. Len(args) \in Nat /\ DOMAIN args = 1..Len(args)
    OBVIOUS
  <1>2. PICK k \in DOMAIN args : args[k] = e
    BY DEF Range
  <1>3. S # {} /\ S \in SUBSET (1..Len(args))
    BY <1>1, <1>2
  <1>4. PICK i \in S : \A j \in S : j <= i
    <2> HIDE DEF S
    <2> QED
      BY <1>1, <1>3, LastPlace
  <1>5. /\ i \in DOMAIN args /\ args[i][1] \in names
        /\ \A j \in DOMAIN args : args[j][1] \in names => j <= i
    BY <1>1, <1>4
  <1>6. /\ LastOf(args, names) \in DOMAIN args
        /\ args[LastOf(args, names)][1] \in names
    BY <1>5, Zenon DEF LastOf
  <1>7. args[LastOf(args, names)] \in Range(args)
    BY <1>6 DEF Range
  <1> QED
    BY <1>1, <1>2, <1>6, <1>7 DEF Given

(* ...and of one that is not.                                                 *)
LEMMA ArgumentMissing ==
  ASSUME NEW args, NEW names, \A d \in Range(args) : d[1] \notin names
  PROVE  ~Given(args, names)
  BY DEF Given, Range

Cat(a, b) == a \o b

LEMMA CatIs ==
  ASSUME NEW T, NEW a \in Seq(T), NEW b \in Seq(T)
  PROVE  /\ Cat(a, b) \in Seq(T) /\ Len(Cat(a, b)) = Len(a) + Len(b) /\ Len(b) \in Nat
         /\ DOMAIN Cat(a, b) = 1..Len(a) + Len(b)
         /\ \A i \in 1..Len(a) + Len(b) :
              Cat(a, b)[i] = IF i <= Len(a) THEN a[i] ELSE b[i - Len(a)]
  BY DEF Cat

(* What is in two sequences is in the one made of them, and nothing else.     *)
LEMMA RangeOfCat ==
  ASSUME NEW T, NEW a \in Seq(T), NEW b \in Seq(T)
  PROVE  /\ Cat(a, b) \in Seq(T) /\ Len(Cat(a, b)) = Len(a) + Len(b)
         /\ Range(Cat(a, b)) = Range(a) \cup Range(b)
  <1>1. Cat(a, b) \in Seq(T) /\ Len(Cat(a, b)) = Len(a) + Len(b)
    BY CatIs
  <1>2. \A i \in 1..Len(a) + Len(b) :
          Cat(a, b)[i] = IF i <= Len(a) THEN a[i] ELSE b[i - Len(a)]
    BY CatIs
  <1>3. ASSUME NEW i \in DOMAIN a
        PROVE  a[i] \in Range(Cat(a, b))
    <2>1. i \in DOMAIN Cat(a, b) /\ Cat(a, b)[i] = a[i]
      BY <1>1, <1>2
    <2> QED
      BY <2>1, Zenon DEF Range
  <1>4. ASSUME NEW i \in DOMAIN b
        PROVE  b[i] \in Range(Cat(a, b))
    <2>1. i + Len(a) \in DOMAIN Cat(a, b) /\ Cat(a, b)[i + Len(a)] = b[i]
      BY <1>1, <1>2
    <2> QED
      BY <2>1, Zenon DEF Range
  <1>5. ASSUME NEW i \in DOMAIN Cat(a, b)
        PROVE  Cat(a, b)[i] \in Range(a) \cup Range(b)
    <2>1. CASE i <= Len(a)
      <3>1. i \in DOMAIN a /\ Cat(a, b)[i] = a[i]
        BY <1>1, <1>2, <2>1
      <3> QED
        BY <3>1, Zenon DEF Range
    <2>2. CASE ~(i <= Len(a))
      <3>1. i - Len(a) \in DOMAIN b /\ Cat(a, b)[i] = b[i - Len(a)]
        BY <1>1, <1>2, <2>2
      <3> QED
        BY <3>1, Zenon DEF Range
    <2> QED
      BY <2>1, <2>2
  <1>6. Range(Cat(a, b)) = Range(a) \cup Range(b)
    BY <1>3, <1>4, <1>5, Zenon DEF Range
  <1> QED
    BY <1>1, <1>6

(* What comes first stays where it was.                                       *)
LEMMA FrontOfCat ==
  ASSUME NEW T, NEW a \in Seq(T), NEW b \in Seq(T), NEW i \in DOMAIN a
  PROVE  i \in DOMAIN Cat(a, b) /\ Cat(a, b)[i] = a[i]
  <1>1. Cat(a, b) \in Seq(T) /\ Len(Cat(a, b)) = Len(a) + Len(b)
    BY CatIs
  <1>2. \A k \in 1..Len(a) + Len(b) :
          Cat(a, b)[k] = IF k <= Len(a) THEN a[k] ELSE b[k - Len(a)]
    BY CatIs
  <1> QED
    BY <1>1, <1>2

(* The pairs of a command: eight that are always there, and three that are    *)
(* left out when they are zero (construct_base_command, send_probe_command).  *)
Always(s, af, ttl, bytes) ==
    { <<Version(af), "target">>, <<LocalVersion(af), "self">>, <<"protocol", s.mtrtype>>,
      <<"size", bytes>>, <<"bit-pattern", s.bitpattern>>, <<"tos", s.tos>>,
      <<"ttl", ttl>>, <<"timeout", s.probe_timeout>> }
Sometimes(name, n) == IF n = 0 THEN {} ELSE { <<name, n>> }
Pairs(s, af, ttl, bytes) ==
    Always(s, af, ttl, bytes) \cup Sometimes("port", s.remoteport)
      \cup Sometimes("local-port", s.localport) \cup Sometimes("mark", s.mark)

LEMMA IfSetRange ==
  ASSUME NEW name, NEW n, NEW T, n # 0 => <<name, n>> \in T
  PROVE  IfSet(name, n) \in Seq(T) /\ Len(IfSet(name, n)) <= 1
         /\ Len(IfSet(name, n)) \in Nat /\ Range(IfSet(name, n)) = Sometimes(name, n)
  <1>1. CASE n = 0
    BY <1>1 DEF IfSet, Sometimes, Range
  <1>2. CASE n # 0
    <2> DEFINE e == <<name, n>>
    <2>1. e \in T
      BY <1>2
    <2> HIDE DEF e
    <2>2. <<e>> \in Seq(T) /\ Len(<<e>>) = 1 /\ Range(<<e>>) = {e}
      BY <2>1 DEF Range
    <2>3. IfSet(name, n) = <<e>> /\ Sometimes(name, n) = {e}
      BY <1>2 DEF IfSet, Sometimes, e
    <2> QED
      BY <2>2, <2>3
  <1> QED
    BY <1>1, <1>2

LEMMA CommandPairs ==
  ASSUME NEW s, NEW af, NEW seq, NEW ttl, NEW bytes
  PROVE  /\ SendProbeCommand(s, af, seq, ttl, bytes).args \in Seq(Pairs(s, af, ttl, bytes))
         /\ Range(SendProbeCommand(s, af, seq, ttl, bytes).args) = Pairs(s, af, ttl, bytes)
         /\ Len(SendProbeCommand(s, af, seq, ttl, bytes).args) <= 11
  <1> DEFINE T == Pairs(s, af, ttl, bytes)
             a == BaseCommand(s, af)
             b == << <<"size", bytes>>, <<"bit-pattern", s.bitpattern>>, <<"tos", s.tos>>,
                     <<"ttl", ttl>>, <<"timeout", s.probe_timeout>> >>
             p == IfSet("port", s.remoteport)
             l == IfSet("local-port", s.localport)
             m == IfSet("mark", s.mark)
  <1>1. a \in Seq(T) /\ Len(a) = 3
        /\ Range(a) = { <<Version(af), "target">>, <<LocalVersion(af), "self">>,
                        <<"protocol", s.mtrtype>> }
    BY DEF BaseCommand, Range, Pairs, Always
  <1>2. b \in Seq(T) /\ Len(b) = 5
        /\ Range(b) = { <<"size", bytes>>, <<"bit-pattern", s.bitpattern>>, <<"tos", s.tos>>,
                        <<"ttl", ttl>>, <<"timeout", s.probe_timeout>> }
    BY DEF Range, Pairs, Always
  <1>3. /\ s.remoteport # 0 => <<"port", s.remoteport>> \in T
        /\ s.localport # 0 => <<"local-port", s.localport>> \in T
        /\ s.mark # 0 => <<"mark", s.mark>> \in T
    BY DEF Pairs, Sometimes
  <1>4. /\ p \in Seq(T) /\ Len(p) <= 1 /\ Len(p) \in Nat
        /\ Range(p) = Sometimes("port", s.remoteport)
        /\ l \in Seq(T) /\ Len(l) <= 1 /\ Len(l) \in Nat
        /\ Range(l) = Sometimes("local-port", s.localport)
        /\ m \in Seq(T) /\ Len(m) <= 1 /\ Len(m) \in Nat /\ Range(m) = Sometimes("mark", s.mark)
    <2> HIDE DEF T
    <2> QED
      BY <1>3, IfSetRange
  <1> DEFINE ab == Cat(a, b)
             abp == Cat(ab, p)
             abpl == Cat(abp, l)
             all == Cat(abpl, m)
  <1>5. SendProbeCommand(s, af, seq, ttl, bytes).args = all
    BY DEF SendProbeCommand, Cat
  <1> HIDE DEF T, a, b, p, l, m
  <1>6. ab \in Seq(T) /\ Len(ab) = 8 /\ Range(ab) = Range(a) \cup Range(b)
    <2>1. a \in Seq(T) /\ b \in Seq(T)
      BY <1>1, <1>2
    <2>2. /\ ab \in Seq(T) /\ Len(ab) = Len(a) + Len(b)
          /\ Range(ab) = Range(a) \cup Range(b)
      BY <2>1, RangeOfCat
    <2> QED
      BY <1>1, <1>2, <2>2
  <1> HIDE DEF ab
  <1>7. abp \in Seq(T) /\ Len(abp) = 8 + Len(p) /\ Range(abp) = Range(ab) \cup Range(p)
    <2>1. ab \in Seq(T) /\ p \in Seq(T)
      BY <1>4, <1>6
    <2>2. /\ abp \in Seq(T) /\ Len(abp) = Len(ab) + Len(p)
          /\ Range(abp) = Range(ab) \cup Range(p)
      BY <2>1, RangeOfCat
    <2> QED
      BY <1>4, <1>6, <2>2
  <1> HIDE DEF abp
  <1>8. abpl \in Seq(T) /\ Len(abpl) = 8 + Len(p) + Len(l)
        /\ Range(abpl) = Range(abp) \cup Range(l)
    <2>1. abp \in Seq(T) /\ l \in Seq(T)
      BY <1>4, <1>7
    <2>2. /\ abpl \in Seq(T) /\ Len(abpl) = Len(abp) + Len(l)
          /\ Range(abpl) = Range(abp) \cup Range(l)
      BY <2>1, RangeOfCat
    <2> QED
      BY <1>4, <1>7, <2>2
  <1> HIDE DEF abpl
  <1>9. all \in Seq(T) /\ Len(all) = 8 + Len(p) + Len(l) + Len(m)
        /\ Range(all) = Range(abpl) \cup Range(m)
    <2>1. abpl \in Seq(T) /\ m \in Seq(T)
      BY <1>4, <1>8
    <2>2. /\ all \in Seq(T) /\ Len(all) = Len(abpl) + Len(m)
          /\ Range(all) = Range(abpl) \cup Range(m)
      BY <2>1, RangeOfCat
    <2> QED
      BY <1>4, <1>8, <2>2
  <1> HIDE DEF all
  <1>10. Range(all) = Range(a) \cup Range(b) \cup Range(p) \cup Range(l) \cup Range(m)
    BY <1>6, <1>7, <1>8, <1>9
  <1>11. Range(all) = T
    BY <1>1, <1>2, <1>4, <1>10 DEF T, Pairs, Always
  <1> QED
    BY <1>4, <1>5, <1>9, <1>11 DEF T

LEMMA ValueOf ==
  ASSUME NEW T, NEW args \in Seq(T), NEW name, NEW v, NEW default,
         <<name, v>> \in Range(args),
         \A d \in Range(args) : d[1] = name => d = <<name, v>>
  PROVE  Argument(args, {name}, default) = v
  <1> DEFINE e == <<name, v>>
  <1>1. e[1] = name /\ e[2] = v
    OBVIOUS
  <1> HIDE DEF e
  <1>2. e \in Range(args) /\ e[1] \in {name} /\ \A d \in Range(args) : d[1] \in {name} => d = e
    BY <1>1 DEF e
  <1>3. Given(args, {name}) /\ args[LastOf(args, {name})] = e
    BY <1>2, ArgumentIs
  <1> QED
    BY <1>1, <1>3 DEF Argument

LEMMA ValueIfSet ==
  ASSUME NEW T, NEW args \in Seq(T), NEW name, NEW n, Sometimes(name, n) \subseteq Range(args),
         \A d \in Range(args) : d[1] = name => d \in Sometimes(name, n)
  PROVE  Argument(args, {name}, 0) = n
  <1>1. CASE n = 0
    <2>1. \A d \in Range(args) : d[1] \notin {name}
      BY <1>1 DEF Sometimes
    <2>2. ~Given(args, {name})
      BY <2>1, ArgumentMissing
    <2> QED
      BY <1>1, <2>2 DEF Argument
  <1>2. CASE n # 0
    <2>1. <<name, n>> \in Range(args) /\ \A d \in Range(args) : d[1] = name => d = <<name, n>>
      BY <1>2 DEF Sometimes
    <2> QED
      BY <2>1, ValueOf
  <1> QED
    BY <1>1, <1>2

(* What the engine decodes is what the client was set to.                     *)
LEMMA Understood ==
  ASSUME NEW s, GoodSettings(s), NEW af \in {4, 6}, NEW seq, NEW ttl, NEW bytes,
         NEW p, p = Params(SendProbeCommand(s, af, seq, ttl, bytes))
  PROVE  /\ Parses(SendProbeCommand(s, af, seq, ttl, bytes))
         /\ p.ok /\ p.version = af /\ p.protocol = s.mtrtype
         /\ p.port = s.remoteport /\ p.localport = s.localport
         /\ p.tos = s.tos /\ p.mark = s.mark /\ p.size = bytes
         /\ p.fill = s.bitpattern % 256 /\ p.ttl = ttl
  <1> DEFINE args == SendProbeCommand(s, af, seq, ttl, bytes).args
             R == Pairs(s, af, ttl, bytes)
  <1>1. args \in Seq(R) /\ Range(args) = R /\ Len(args) <= 11
    BY CommandPairs
  <1>2. Parses(SendProbeCommand(s, af, seq, ttl, bytes))
    BY <1>1 DEF Parses, MaxCommandArguments
  <1> HIDE DEF args
  <1>3. \A d \in R : d[1] = "protocol" => d = <<"protocol", s.mtrtype>>
    BY DEF Pairs, Always, Sometimes, Version, LocalVersion
  <1>4. \A d \in R : d[1] = "size" => d = <<"size", bytes>>
    BY DEF Pairs, Always, Sometimes, Version, LocalVersion
  <1>5. \A d \in R : d[1] = "bit-pattern" => d = <<"bit-pattern", s.bitpattern>>
    BY DEF Pairs, Always, Sometimes, Version, LocalVersion
  <1>6. \A d \in R : d[1] = "tos" => d = <<"tos", s.tos>>
    BY DEF Pairs, Always, Sometimes, Version, LocalVersion
  <1>7. \A d \in R : d[1] = "ttl" => d = <<"ttl", ttl>>
    BY DEF Pairs, Always, Sometimes, Version, LocalVersion
  <1>8. \A d \in R : /\ d[1] = "port" => d \in Sometimes("port", s.remoteport)
                     /\ d[1] = "local-port" => d \in Sometimes("local-port", s.localport)
                     /\ d[1] = "mark" => d \in Sometimes("mark", s.mark)
    BY DEF Pairs, Always, Sometimes, Version, LocalVersion
  <1>9. \A d \in R : d[1] \in Remote => d = <<Version(af), "target">>
    BY DEF Pairs, Always, Sometimes, Version, LocalVersion, Remote
  <1>10. /\ <<"protocol", s.mtrtype>> \in R /\ <<"size", bytes>> \in R
         /\ <<"bit-pattern", s.bitpattern>> \in R /\ <<"tos", s.tos>> \in R
         /\ <<"ttl", ttl>> \in R /\ <<Version(af), "target">> \in R
         /\ Sometimes("port", s.remoteport) \subseteq R
         /\ Sometimes("local-port", s.localport) \subseteq R
         /\ Sometimes("mark", s.mark) \subseteq R
    BY DEF Pairs, Always
  <1> HIDE DEF R
  <1>11. \A name, v, default :
           <<name, v>> \in R /\ (\A d \in R : d[1] = name => d = <<name, v>>)
             => Argument(args, {name}, default) = v
    BY <1>1, ValueOf, ZenonT(40)
  <1>12. \A name, n :
           Sometimes(name, n) \subseteq R /\ (\A d \in R : d[1] = name => d \in Sometimes(name, n))
             => Argument(args, {name}, 0) = n
    BY <1>1, ValueIfSet
  <1>13. Argument(args, {"protocol"}, "icmp") = s.mtrtype
    <2> DEFINE v == s.mtrtype
    <2>1. <<"protocol", v>> \in R /\ \A d \in R : d[1] = "protocol" => d = <<"protocol", v>>
      BY <1>3, <1>10
    <2> HIDE DEF v
    <2>2. Argument(args, {"protocol"}, "icmp") = v
      BY <1>11, <2>1
    <2> QED
      BY <2>2 DEF v
  <1>14. Argument(args, {"size"}, 64) = bytes
    <2>1. <<"size", bytes>> \in R
      BY <1>10
    <2> QED
      BY <1>4, <1>11, <2>1, Zenon
  <1>15. Argument(args, {"bit-pattern"}, 0) = s.bitpattern
    <2> DEFINE v == s.bitpattern
    <2>1. <<"bit-pattern", v>> \in R /\ \A d \in R : d[1] = "bit-pattern" => d = <<"bit-pattern", v>>
      BY <1>5, <1>10
    <2> HIDE DEF v
    <2>2. Argument(args, {"bit-pattern"}, 0) = v
      BY <1>11, <2>1
    <2> QED
      BY <2>2 DEF v
  <1>16. Argument(args, {"tos"}, 0) = s.tos
    <2> DEFINE v == s.tos
    <2>1. <<"tos", v>> \in R /\ \A d \in R : d[1] = "tos" => d = <<"tos", v>>
      BY <1>6, <1>10
    <2> HIDE DEF v
    <2>2. Argument(args, {"tos"}, 0) = v
      BY <1>11, <2>1
    <2> QED
      BY <2>2 DEF v
  <1>17. Argument(args, {"ttl"}, 255) = ttl
    <2>1. <<"ttl", ttl>> \in R
      BY <1>10
    <2> QED
      BY <1>7, <1>11, <2>1, Zenon
  <1>18. Argument(args, {"port"}, 0) = s.remoteport
    <2>1. Sometimes("port", s.remoteport) \subseteq R
      BY <1>10
    <2>2. \A d \in R : d[1] = "port" => d \in Sometimes("port", s.remoteport)
      BY <1>8
    <2> QED
      BY <1>12, <2>1, <2>2, Zenon
  <1>19. Argument(args, {"local-port"}, 0) = s.localport
    <2>1. Sometimes("local-port", s.localport) \subseteq R
      BY <1>10
    <2>2. \A d \in R : d[1] = "local-port" => d \in Sometimes("local-port", s.localport)
      BY <1>8
    <2> QED
      BY <1>12, <2>1, <2>2, Zenon
  <1>20. Argument(args, {"mark"}, 0) = s.mark
    <2>1. Sometimes("mark", s.mark) \subseteq R
      BY <1>10
    <2>2. \A d \in R : d[1] = "mark" => d \in Sometimes("mark", s.mark)
      BY <1>8
    <2> QED
      BY <1>12, <2>1, <2>2, Zenon
  <1>21. RemoteVersion(args) = af
    <2> DEFINE e == <<Version(af), "target">>
    <2>1. e[1] = Version(af) /\ e[1] \in Remote /\ (e[1] = "ip-6" <=> af = 6)
      BY DEF Version, Remote
    <2> HIDE DEF e
    <2>2. e \in Range(args) /\ \A d \in Range(args) : d[1] \in Remote => d = e
      BY <1>1, <1>9, <1>10 DEF e
    <2>3. Given(args, Remote) /\ args[LastOf(args, Remote)] = e
      BY <1>1, <2>1, <2>2, ArgumentIs
    <2> QED
      BY <2>1, <2>3 DEF RemoteVersion
  <1>22. \A d \in R : Decodes(d)
    <2>1. s.mtrtype \in Protocols /\ (s.localport # 0 => ~Privileged(s.localport))
      <3>1. s.mtrtype \in Protocol /\ s.localport \in {0} \cup MinPort..MaxPort
        BY DEF GoodSettings, Sets
      <3>2. \A n \in MinPort..MaxPort : ~Privileged(n)
        BY DEF Privileged, MinPort
      <3> QED
        BY <3>1, <3>2 DEF Protocol, Protocols
    <2>2. <<"protocol", s.mtrtype>>[2] = s.mtrtype
          /\ <<"local-port", s.localport>>[2] = s.localport
      OBVIOUS
    <2>3. \A d \in R : d[1] = "local-port" =>
            s.localport # 0 /\ d = <<"local-port", s.localport>>
      BY <1>8 DEF Sometimes
    <2> QED
      BY <1>3, <2>1, <2>2, <2>3 DEF Decodes
  <1>23. \A i \in DOMAIN args : Decodes(args[i])
    BY <1>1, <1>22 DEF Range
  <1>24. /\ p.ok = (\A i \in DOMAIN args : Decodes(args[i]))
         /\ p.version = RemoteVersion(args)
         /\ p.protocol = Argument(args, {"protocol"}, "icmp")
         /\ p.port = Argument(args, {"port"}, 0)
         /\ p.localport = Argument(args, {"local-port"}, 0)
         /\ p.tos = Argument(args, {"tos"}, 0)
         /\ p.mark = Argument(args, {"mark"}, 0)
         /\ p.size = Argument(args, {"size"}, 64)
         /\ p.fill = Argument(args, {"bit-pattern"}, 0) % 256
         /\ p.ttl = Argument(args, {"ttl"}, 255)
    BY DEF Params, args
  <1> QED
    BY <1>2, <1>13, <1>14, <1>15, <1>16, <1>17, <1>18, <1>19, <1>20, <1>21, <1>23, <1>24

-----------------------------------------------------------------------------
(* The packet                                                                 *)

(* The engine has what the target and the protocol need, and a mark that was  *)
(* left on a shared socket is the one that is set.                            *)
Serves ==
    /\ family \in {4, 6} /\ IsVersionSupported(engine, family)
    /\ IsProtocolSupported(engine, settings.mtrtype)
    /\ engine.ip[family] \in {"raw", "dgram"}

Marked ==
    /\ DOMAIN sockets = SharedSockets
    /\ \A x \in SharedSockets : sockets[x].mark \in {0, settings.mark}

AsAsked(e, f) ==
    /\ f.packet.ttl = f.hop + 1
    /\ f.packet.tos = f.asked.tos /\ f.packet.mark = f.asked.mark
    /\ f.packet.fill = f.asked.bitpattern % 256 /\ f.packet.protocol = f.asked.mtrtype
    /\ e.ip[f.packet.version] = "raw" /\ f.packet.protocol \in {"icmp", "udp"}
         /\ f.asked.cpacketsize >= 60
         => f.packet.size = f.asked.cpacketsize

(* Whatever socket a packet is sent through, it has the options it was asked  *)
(* to have, if the socket has no other mark.                                  *)
LEMMA PacketAsAsked ==
  ASSUME NEW e, NEW old, NEW seq, NEW p, p.mark \in Int, old.mark \in {0, p.mark},
         NEW socket, socket = IF IsStream(p) THEN StreamSocket(p) ELSE SetOptions(e, old, p)
  PROVE  LET packet == OnWire(e, socket, p, seq)
         IN  /\ packet.ttl = p.ttl /\ packet.tos = p.tos /\ packet.mark = p.mark
             /\ packet.fill = p.fill /\ packet.protocol = p.protocol
             /\ packet.version = p.version
             /\ socket.mark = p.mark
  <1>1. CASE IsStream(p)
    BY <1>1 DEF StreamSocket, FreshSocket, OnWire
  <1>2. CASE ~IsStream(p)
    BY <1>2 DEF SetOptions, TosOn, OnWire
  <1> QED
    BY <1>1, <1>2

(* The size counts the IP header, whoever writes it.                          *)
LEMMA SizeAsAsked ==
  ASSUME NEW e, NEW socket, NEW p, NEW seq, p.size \in Nat, p.version \in {4, 6}
  PROVE  /\ Raw(e, p) /\ p.protocol \in {"icmp", "udp"} /\ p.size >= 60
              => OnWire(e, socket, p, seq).size = p.size
         /\ PacketSize(e, p) > PacketBufferSize => p.size > PacketBufferSize
  <1> DEFINE least == InnerHeader(p) + IF Raw(e, p) THEN IpHeader(p.version) ELSE 0
             added == IF p.version = 6 /\ Raw(e, p) THEN IpHeader(6) ELSE 0
             whole == AtLeast(p.size, least)
  <1>1. least \in Nat /\ least <= 52 /\ added \in Nat
    BY DEF InnerHeader, IpHeader
  <1>2. PacketSize(e, p) = IF IsStream(p) THEN 0 ELSE whole - added
    BY DEF PacketSize
  <1>3. OnWire(e, socket, p, seq).size = PacketSize(e, p) + added
    BY DEF OnWire
  <1>4. p.protocol \in {"icmp", "udp"} => ~IsStream(p)
    BY DEF IsStream
  <1> HIDE DEF least, added
  <1>5. whole \in Nat /\ (p.size >= 60 => whole = p.size) /\ (whole = p.size \/ whole <= 52)
    BY <1>1 DEF AtLeast
  <1> HIDE DEF whole
  <1> QED
    BY <1>1, <1>2, <1>3, <1>4, <1>5, PacketAssumption

(* Why mtr-packet refuses, of its own, to send n bytes for the settings s.     *)
Refusal(error, s, n) ==
    \/ error = "invalid-argument" /\ n > PacketBufferSize
    \/ error = "permission-denied" /\ s.mark # 0 /\ ~engine.marks
    \/ error = "unexpected-error" /\ s.mark # 0 /\ family = 4 /\ engine.ip[4] = "dgram"

(* What sending one probe does.                                               *)
LEMMA Sending ==
  ASSUME NEW s, GoodSettings(s), s.mark = settings.mark, s.mtrtype = settings.mtrtype,
         Serves, Marked, NEW n \in Nat, Send(s, n), InTable(batch)
  PROVE  /\ \A f \in flying' : f \in flying \/ AsAsked(engine, f)
         /\ DOMAIN sockets' = SharedSockets
         /\ \A x \in SharedSockets : sockets'[x].mark \in {0, settings.mark}
         /\ \/ UNCHANGED <<phase, why, by>>
            \/ /\ phase' = "ended"
               /\ by' = "kernel" \/ Refusal(why', s, n)
  <1> DEFINE seq == MinSequence + sent
             command == SendProbeCommand(s, family, seq, batch + 1, n)
             p == Params(command)
             old == sockets[SendSocket(engine, p)]
             socket == IF IsStream(p) THEN StreamSocket(p) ELSE SetOptions(engine, old, p)
             packet == OnWire(engine, socket, p, seq)
             probe == [hop |-> batch, packet |-> packet, asked |-> [s EXCEPT !.cpacketsize = n]]
  <1>1. /\ Parses(command)
        /\ p.ok /\ p.version = family /\ p.protocol = s.mtrtype
        /\ p.tos = s.tos /\ p.mark = s.mark /\ p.size = n
        /\ p.fill = s.bitpattern % 256 /\ p.ttl = batch + 1
    <2>1. family \in {4, 6}
      BY DEF Serves
    <2> QED
      BY <2>1, Understood
  <1>2. s.mark \in Int /\ s.mtrtype \in Protocol
    BY DEF GoodSettings, Sets
  <1>3. ~IsStream(p) => SendSocket(engine, p) \in SharedSockets
    <2> HIDE DEF p
    <2> QED
      BY <1>1, <1>2 DEF IsStream, SendSocket, SharedSockets, Protocol, Serves
  <1>4. ~IsStream(p) => old.mark \in {0, p.mark}
    BY <1>1, <1>3 DEF Marked
  <1>5. /\ packet.ttl = p.ttl /\ packet.tos = p.tos /\ packet.mark = p.mark
        /\ packet.fill = p.fill /\ packet.protocol = p.protocol /\ packet.version = p.version
        /\ socket.mark = p.mark
    <2> HIDE DEF p, old
    <2>1. CASE IsStream(p)
      BY <2>1 DEF StreamSocket, FreshSocket, OnWire
    <2>2. CASE ~IsStream(p)
      <3>1. socket = IF IsStream(p) THEN StreamSocket(p) ELSE SetOptions(engine, old, p)
        OBVIOUS
      <3> HIDE DEF socket
      <3> QED
        BY <1>1, <1>2, <1>4, <2>2, <3>1, PacketAsAsked
    <2> QED
      BY <2>1, <2>2
  <1>6. /\ Raw(engine, p) /\ p.protocol \in {"icmp", "udp"} /\ n >= 60 => packet.size = n
        /\ PacketSize(engine, p) > PacketBufferSize => n > PacketBufferSize
    <2> HIDE DEF p, socket
    <2> QED
      BY <1>1, SizeAsAsked DEF Serves
  <1>7. AsAsked(engine, probe)
    <2>1. /\ probe.hop = batch /\ probe.packet = packet
          /\ probe.asked.tos = s.tos /\ probe.asked.mark = s.mark
          /\ probe.asked.bitpattern = s.bitpattern /\ probe.asked.mtrtype = s.mtrtype
          /\ probe.asked.cpacketsize = n
      BY DEF GoodSettings, Sets
    <2> HIDE DEF p, packet, probe
    <2> QED
      BY <1>1, <1>5, <1>6, <2>1 DEF AsAsked, Raw
  <1> DEFINE error == SendError(engine, p)
  <1>8. \/ /\ error # "none" /\ Fails(error, "mtr-packet")
           /\ UNCHANGED <<sockets, flying>>
        \/ /\ error = "none"
           /\ sockets' = IF IsStream(p) THEN sockets
                         ELSE [sockets EXCEPT ![SendSocket(engine, p)] = socket]
           /\ \/ flying' = flying \cup {probe} /\ UNCHANGED <<phase, why, by>>
              \/ \E e \in KernelErrors : Fails(e, "kernel") /\ UNCHANGED flying
    <2>1. Send(s, n) /\ Parses(command)
      BY <1>1
    <2> QED
      BY <2>1 DEF Send
  <1> HIDE DEF probe, packet
  <1>9. \A f \in flying' : f \in flying \/ AsAsked(engine, f)
    <2> HIDE DEF p, error
    <2> QED
      BY <1>7, <1>8
  <1>10. /\ DOMAIN sockets' = SharedSockets
         /\ \A x \in SharedSockets : sockets'[x].mark \in {0, settings.mark}
    <2>1. socket.mark = settings.mark
      BY <1>1, <1>5
    <2> HIDE DEF p, error, socket
    <2>2. CASE sockets' = sockets
      BY <2>2 DEF Marked
    <2>3. CASE sockets' = [sockets EXCEPT ![SendSocket(engine, p)] = socket]
      BY <2>1, <2>3 DEF Marked
    <2> QED
      BY <1>8, <2>2, <2>3
  <1>11. error = "none" \/ Refusal(error, s, n)
    <2>1. p.ok /\ Validates(engine, p) /\ engine.ip[family] \in {"raw", "dgram"}
      <3> HIDE DEF p
      <3> QED
        BY <1>1 DEF Validates, Serves
    <2> HIDE DEF p
    <2>2. \/ PacketSize(engine, p) > PacketBufferSize /\ error = "invalid-argument"
          \/ error = MarkError(engine, p)
      BY <2>1 DEF SendError
    <2>3. \/ MarkError(engine, p) = "none"
          \/ /\ MarkError(engine, p) = "permission-denied"
             /\ p.mark # 0 /\ ~engine.marks
          \/ /\ MarkError(engine, p) = "unexpected-error"
             /\ p.mark # 0 /\ p.version = 4 /\ ~Raw(engine, p)
      BY DEF MarkError
    <2> HIDE DEF error
    <2> QED
      BY <1>1, <1>6, <2>1, <2>2, <2>3 DEF Raw, Refusal
  <1>12. \/ UNCHANGED <<phase, why, by>>
         \/ /\ phase' = "ended"
            /\ by' = "kernel" \/ Refusal(why', s, n)
    <2> HIDE DEF error
    <2> QED
      BY <1>8, <1>11 DEF Fails
  <1> QED
    BY <1>9, <1>10, <1>12

-----------------------------------------------------------------------------
(* The journey                                                                *)

AllAsAsked == \A f \in flying : AsAsked(engine, f)
Running == phase = "running" => why = "none"

(* A random size is one a key asked for.                                      *)
SizeTyped == keys \in Nat /\ (keys = 0 => settings.cpacketsize >= 0)

Journey ==
    /\ Serves /\ Marked /\ AllAsAsked /\ SizeTyped
    /\ size \in Int /\ Running /\ RefusedOnlyFor

(* What the client asked for before it sent anything, the engine has.         *)
LEMMA JourneyStarts == Init => Journey
  <1> SUFFICES ASSUME Init
               PROVE  Journey
    OBVIOUS
  <1>1. StayInTable
    BY StartInTable
  <1>2. settings.mtrtype \in Protocol
    BY <1>1 DEF StayInTable, GoodSettings, Sets
  <1> DEFINE asked == FeaturesAsked(settings, family)
             two == <<Version(family), settings.mtrtype>>
             last == IF settings.mark = 0 THEN <<>> ELSE <<"mark">>
  <1>3. /\ 1 \in DOMAIN asked /\ asked[1] = Version(family)
        /\ 2 \in DOMAIN asked /\ asked[2] = settings.mtrtype
    <2> DEFINE T == {Version(family), settings.mtrtype, "mark"}
    <2>1. two \in Seq(T) /\ Len(two) = 2 /\ two[1] = Version(family)
          /\ two[2] = settings.mtrtype /\ 1 \in DOMAIN two /\ 2 \in DOMAIN two
      OBVIOUS
    <2>2. last \in Seq(T) /\ Len(last) \in Nat
      <3>1. <<>> \in Seq(T) /\ <<"mark">> \in Seq(T) /\ Len(<<>>) = 0 /\ Len(<<"mark">>) = 1
        OBVIOUS
      <3> HIDE DEF T
      <3>2. last = <<>> \/ last = <<"mark">>
        OBVIOUS
      <3> QED
        BY <3>1, <3>2
    <2>3. asked = two \o last
      BY DEF FeaturesAsked
    <2> HIDE DEF asked, two, last, T
    <2>4. asked = Cat(two, last)
      BY <2>3 DEF Cat
    <2>5. 1 \in DOMAIN Cat(two, last) /\ Cat(two, last)[1] = two[1]
          /\ 2 \in DOMAIN Cat(two, last) /\ Cat(two, last)[2] = two[2]
      <3>1. two \in Seq(T) /\ last \in Seq(T) /\ 1 \in DOMAIN two /\ 2 \in DOMAIN two
        BY <2>1, <2>2
      <3> QED
        BY <3>1, FrontOfCat
    <2> QED
      BY <2>1, <2>4, <2>5
  <1>4. Supports(engine, Version(family)) /\ Supports(engine, settings.mtrtype)
    BY <1>3, Zenon DEF Init
  <1>5. family \in {4, 6}
    BY DEF Init
  <1>6. IsVersionSupported(engine, family)
    BY <1>4, <1>5 DEF Supports, Version, IsProtocolSupported
  <1>7. IsProtocolSupported(engine, settings.mtrtype)
    BY <1>2, <1>4 DEF Supports, Protocol
  <1>8. Marked /\ engine.ip[family] \in {"raw", "dgram"}
    BY <1>5, <1>6 DEF Init, Marked, FreshSocket, Engine, SocketsOf, IsVersionSupported
  <1>10. SizeTyped
    <2>1. PICK line \in Lines : ~LineRejected(line) /\ settings = ParseLine(line)
      BY DEF Init
    <2>2. settings.cpacketsize >= 0
      BY <2>1, LineAsksForSize, JourneyAssumption
    <2> QED
      BY <2>2 DEF Init, SizeTyped
  <1>9. AllAsAsked /\ size \in Int /\ Running /\ RefusedOnlyFor
    BY DEF Init, AllAsAsked, Running, RefusedOnlyFor
  <1> QED
    BY <1>5, <1>6, <1>7, <1>8, <1>9, <1>10 DEF Journey, Serves

(* A key leaves the mark alone, and turns to protocols every engine has.      *)
LEMMA KeyLeaves ==
  ASSUME NEW s, GoodSettings(s), NEW k \in KeyStrokes, NEW e, IsProtocolSupported(e, s.mtrtype)
  PROVE  Typed(s, k).mark = s.mark /\ IsProtocolSupported(e, Typed(s, k).mtrtype)
  <1>1. s \in Sets
    BY DEF GoodSettings
  <1>2. \A p \in {"icmp", "udp", "tcp"} : IsProtocolSupported(e, p)
    BY DEF IsProtocolSupported
  <1>3. CASE k.opt \in {"Q", "s", "b"}
    BY <1>1, <1>3 DEF Typed, Sets
  <1>4. CASE k.opt \in {"f", "m"}
    BY <1>1, <1>4 DEF Typed, KeyMax, Sets
  <1>5. CASE k.opt \in {"u", "t"}
    <2>1. Typed(s, k).mark = s.mark
          /\ Typed(s, k).mtrtype \in {s.mtrtype, "icmp", "udp", "tcp"}
      BY <1>1, <1>5 DEF Typed, Toggle, Sets
    <2> QED
      BY <1>2, <2>1
  <1> QED
    BY <1>3, <1>4, <1>5 DEF KeyStrokes

LEMMA KeyKeepsJourney ==
  ASSUME StayInTable, Journey, KeyAction
  PROVE  Journey'
  <1>1. PICK k \in Keys : settings' = Typed(settings, k)
    BY DEF KeyAction
  <1>2. /\ UNCHANGED <<engine, family, phase, why, by, size, sockets, flying>>
        /\ why = "none" /\ keys' = keys + 1
    BY DEF KeyAction, Journey, Running
  <1>3. settings'.mark = settings.mark /\ IsProtocolSupported(engine, settings'.mtrtype)
    BY <1>1, KeyLeaves, JourneyAssumption DEF StayInTable, Journey, Serves
  <1>4. Serves' /\ Marked'
    BY <1>2, <1>3 DEF Journey, Serves, Marked
  <1>5. AllAsAsked' /\ Running' /\ RefusedOnlyFor' /\ SizeTyped' /\ size' \in Int
    BY <1>2 DEF Journey, AllAsAsked, Running, RefusedOnlyFor, SizeTyped
  <1> QED
    BY <1>4, <1>5 DEF Journey

(* A size that is drawn is a number.                                          *)
LEMMA SizeIsDrawn ==
  ASSUME GoodSettings(settings), size \in Int
  PROVE  RoundSizes \subseteq Int
  BY DEF RoundSizes, DrawnSizes, Extremes, MinPacket, GoodSettings, Sets, Abs

LEMMA SendKeepsJourney ==
  ASSUME StayInTable, Journey, SendBatch
  PROVE  Journey'
  <1>1. PICK n \in RoundSizes : \E b \in RoundPatterns :
          /\ size' = n /\ settings' = [settings EXCEPT !.bitpattern = b]
          /\ Send([settings EXCEPT !.bitpattern = b], Abs(n))
    BY DEF SendBatch
  <1>2. PICK b \in RoundPatterns :
          /\ size' = n /\ settings' = [settings EXCEPT !.bitpattern = b]
          /\ Send([settings EXCEPT !.bitpattern = b], Abs(n))
    BY <1>1
  <1> DEFINE s == [settings EXCEPT !.bitpattern = b]
  <1>3. n \in Int /\ Abs(n) \in Nat
    BY SizeIsDrawn DEF StayInTable, Journey, Abs
  <1>4. GoodSettings(s)
    <2>1. b \in Int
      BY DEF RoundPatterns, StayInTable, GoodSettings, Sets
    <2> QED
      BY <2>1, Changed DEF StayInTable
  <1>5. s.mark = settings.mark /\ s.mtrtype = settings.mtrtype
        /\ s.cpacketsize = settings.cpacketsize
    BY DEF StayInTable, GoodSettings, Sets
  <1> HIDE DEF s
  <1>6. Send(s, Abs(n)) /\ settings' = s /\ size' = n /\ UNCHANGED <<engine, family, keys>>
        /\ why = "none" /\ phase = "running"
    BY <1>2 DEF SendBatch, Journey, Running, s
  <1>7. /\ \A f \in flying' : f \in flying \/ AsAsked(engine, f)
        /\ DOMAIN sockets' = SharedSockets
        /\ \A x \in SharedSockets : sockets'[x].mark \in {0, settings.mark}
        /\ \/ UNCHANGED <<phase, why, by>>
           \/ /\ phase' = "ended"
              /\ by' = "kernel" \/ Refusal(why', s, Abs(n))
    BY <1>3, <1>4, <1>5, <1>6, Sending DEF StayInTable, Journey
  <1>8. Serves'
    BY <1>5, <1>6 DEF Journey, Serves
  <1>9. Marked'
    BY <1>5, <1>6, <1>7 DEF Marked
  <1>10. AllAsAsked'
    BY <1>6, <1>7 DEF Journey, AllAsAsked
  <1>11. Running'
    BY <1>6, <1>7 DEF Running
  <1>12. RefusedOnlyFor'
    BY <1>5, <1>6, <1>7 DEF RefusedOnlyFor, Refusal
  <1>13. SizeTyped'
    BY <1>5, <1>6 DEF Journey, SizeTyped
  <1> QED
    BY <1>3, <1>6, <1>8, <1>9, <1>10, <1>11, <1>12, <1>13 DEF Journey

LEMMA JourneyAlways == Spec => []Journey
  <1>1. StayInTable /\ Journey /\ [Next]_vars => Journey'
    <2> SUFFICES ASSUME StayInTable, Journey, [Next]_vars
                 PROVE  Journey'
      OBVIOUS
    <2>1. CASE /\ UNCHANGED <<engine, family, settings, keys, phase, why, by, size, sockets>>
               /\ flying' \subseteq flying
      BY <2>1 DEF Journey, Serves, Marked, AllAsAsked, Running, RefusedOnlyFor, SizeTyped
    <2>2. CASE KeyAction
      BY <2>2, KeyKeepsJourney
    <2>3. CASE SendBatch
      BY <2>3, SendKeepsJourney
    <2>4. CASE DivideByZero
      <3>1. settings.cpacketsize = -MinPacket /\ keys \in Nat /\ keys # 0
        BY <2>4 DEF DivideByZero, Drawable, Journey, SizeTyped, MinPacket
      <3> QED
        BY <2>4, <3>1 DEF DivideByZero, Journey, Serves, Marked, AllAsAsked, Running,
                          RefusedOnlyFor, SizeTyped
    <2>5. CASE Answer
      <3>1. PICK f \in flying : \E m \in Answers(f) : Hear(f, m)
        BY <2>5 DEF Answer
      <3>2. flying' \subseteq flying
        BY <3>1 DEF Hear
      <3> QED
        BY <2>1, <2>5, <3>2 DEF Answer
    <2>6. CASE Lose
      BY <2>1, <2>6 DEF Lose
    <2>7. CASE UNCHANGED vars
      BY <2>1, <2>7 DEF vars
    <2> QED
      BY <2>2, <2>3, <2>4, <2>5, <2>6, <2>7 DEF Next
  <1> QED
    BY <1>1, JourneyStarts, StayInTableAlways, PTL DEF Spec

(* A probe leaves with what was set when it was sent, whichever sockets it    *)
(* shares with probes that were to have something else (set_socket_options    *)
(* in construct_unix.c).                                                      *)
THEOREM SentAsSet == Spec => []SentAsAsked
  <1>1. Journey => SentAsAsked
    BY DEF Journey, AllAsAsked, AsAsked, SentAsAsked, IsRaw
  <1> QED
    BY <1>1, JourneyAlways, PTL

(* The engine itself refuses nothing that the client accepts but a packet     *)
(* larger than its buffer, a mark it has no right to set and one on the       *)
(* unprivileged sockets of IPv4; the client ends of itself only for a size    *)
(* which a key asked for (validate_probe_parameters, compute_packet_size and  *)
(* the setsockopt calls of construct_unix.c against parse_arg and the keys).  *)
THEOREM RefusedForReasons == Spec => []RefusedOnlyFor
  <1>1. Journey => RefusedOnlyFor
    BY DEF Journey
  <1> QED
    BY <1>1, JourneyAlways, PTL

-----------------------------------------------------------------------------
(* The way back                                                               *)

(* Where the user gives ports, they are not sequence numbers, nor is the      *)
(* kernel's checksum: in the code a number found in the wrong field is taken  *)
(* for that of another probe.                                                 *)
Low == {n \in Int : n < MinSequence}
PortsBelow ==
    /\ KernelSum \in Low
    /\ \A line \in Lines : \A i \in DOMAIN line :
          line[i].opt \in {"P", "L"} => line[i].n \in Low

Below(s) == s.remoteport \in Low /\ s.localport \in Low

(* Sequence numbers tell the probes in flight apart.                          *)
Numbered ==
    /\ sent \in Nat
    /\ \A f \in flying : f.packet.sequence \in MinSequence..MinSequence + sent - 1
    /\ \A f, g \in flying : f.packet.sequence = g.packet.sequence => f = g

(* Only the raw UDP socket of IPv6 has its checksums made by the kernel, once *)
(* a probe has been sent through it.                                          *)
Summed ==
    \A x \in SharedSockets :
      sockets[x].checksum => x = <<6, "udp">> /\ engine.ip[6] = "raw"

Overwritten(e, f) ==
    /\ f.packet.version = 6 /\ e.ip[f.packet.version] = "raw" /\ f.packet.protocol = "udp"
    /\ f.asked.remoteport # 0 /\ f.asked.localport # 0

(* The first field of the header that may be taken for a number is the        *)
(* probe's own.                                                               *)
Carries(e, f) ==
    LET header == f.packet.header
        number == f.packet.sequence
    IN  \/ f.packet.protocol = "icmp" /\ header.id = Self /\ header.sequence = number
        \/ f.packet.protocol \in {"tcp", "sctp"} /\ header.srcport = number
        \/ f.packet.protocol = "udp" /\ header.dstport = number
        \/ f.packet.protocol = "udp" /\ header.dstport \in Low /\ header.srcport = number
        \/ /\ f.packet.protocol = "udp" /\ header.dstport \in Low /\ header.srcport \in Low
           /\ \/ header.checksum = number
              \/ header.checksum \in Low /\ Overwritten(e, f)

AllCarry == \A f \in flying : Carries(engine, f)
Way == Below(settings) /\ Numbered /\ Summed /\ AllCarry

(* Messages as routers send them: from an address, with objects that fit into *)
(* the message and hold the bytes of their labels.                            *)
Labels == [label : Nat, tc : 0..7, s : 0..1, ttl : 0..255]
Genuine ==
    \A m \in Messages :
      /\ m.from # "none" /\ m.chain \in Seq(Range(m.chain))
      /\ \A i \in DOMAIN m.chain : WellFormed(m.chain, m.size, i)
      /\ \A i \in DOMAIN m.chain : m.chain[i].class = 1 =>
           /\ m.chain[i].labels \in Seq(Labels)
           /\ m.chain[i].len = ObjectHeader + 4 * Len(m.chain[i].labels)
           /\ m.chain[i].entries = [j \in DOMAIN m.chain[i].labels |->
                                      Entry(m.chain[i].labels[j])]

Heard == [m : Messages, raw : BOOLEAN]
ShowsWhat(hop, past) ==
    /\ past \in Seq(Heard)
    /\ hop.returned = Len(past)
    /\ past = <<>> => hop.addr = "none"
    /\ past # <<>> =>
         /\ hop.addr # "none"
         /\ hop.mpls = Shown(past[1]) /\ hop.addr = past[1].m.from
         /\ hop.last = past[Len(past)].m.rtt
HeardAt(h) == ShowsWhat(hops[h], heard[h])
AllHeard ==
    /\ DOMAIN hops = 0..MaxHost - 1 /\ DOMAIN heard = 0..MaxHost - 1
    /\ \A h \in 0..MaxHost - 1 : HeardAt(h)

-----------------------------------------------------------------------------
(* Which ports                                                                *)

LEMMA OptionKeepsBelow ==
  ASSUME NEW s, GoodSettings(s), Below(s), NEW a \in Options,
         a.opt \in {"P", "L"} => a.n \in Low
  PROVE  Below(Parsed(s, a))
  <1>1. s \in Sets /\ 80 \in Low
    BY DEF GoodSettings, Low, MinSequence
  <1>2. CASE a.opt = "P"
    <2>1. Parsed(s, a).remoteport = a.n /\ Parsed(s, a).localport = s.localport
      BY <1>1, <1>2 DEF Parsed, Sets
    <2> QED
      BY <1>2, <2>1 DEF Below
  <1>3. CASE a.opt = "L"
    <2>1. Parsed(s, a).remoteport = s.remoteport /\ Parsed(s, a).localport = a.n
      BY <1>1, <1>3 DEF Parsed, Sets
    <2> QED
      BY <1>3, <2>1 DEF Below
  <1>4. CASE a.opt \in {"T", "S"}
    <2>1. /\ Parsed(s, a).localport = s.localport
          /\ Parsed(s, a).remoteport \in {80, s.remoteport}
      BY <1>1, <1>4 DEF Parsed, WithStream, Sets
    <2> QED
      BY <1>1, <2>1 DEF Below
  <1>5. CASE a.opt \in {"f", "m"}
    <2>1. Parsed(s, a).remoteport = s.remoteport /\ Parsed(s, a).localport = s.localport
      BY <1>1, <1>5 DEF Parsed, WithFirst, WithMax, Sets
    <2> QED
      BY <2>1 DEF Below
  <1>6. CASE a.opt \in {"r", "s", "B", "Q", "U", "Z", "M", "u"}
    <2>1. Parsed(s, a).remoteport = s.remoteport /\ Parsed(s, a).localport = s.localport
      BY <1>1, <1>6 DEF Parsed, Sets
    <2> QED
      BY <2>1 DEF Below
  <1> QED
    BY <1>2, <1>3, <1>4, <1>5, <1>6 DEF Options

LEMMA LineIsBelow ==
  ASSUME NEW line \in Seq(Options), ~LineRejected(line),
         \A i \in DOMAIN line : line[i].opt \in {"P", "L"} => line[i].n \in Low
  PROVE  Below(ParseLine(line))
  <1>1. PICK g : Parsing(g, line, Len(line)) /\ ParseLine(line) = g[Len(line)]
    BY LineIsParsed
  <1> DEFINE n == Len(line)
             T == {i \in 0..n : ~Below(g[i])}
  <1>2. SUFFICES ASSUME T # {}
                 PROVE  FALSE
    BY <1>1
  <1>3. PICK i \in T : \A j \in T : i <= j
    <2>1. T \subseteq Nat
      OBVIOUS
    <2> HIDE DEF T
    <2> QED
      BY <1>2, <2>1, FirstPlace
  <1>4. Below(Defaults)
    BY DEF Below, Low, Defaults, MinSequence
  <1>5. i \in 1..n /\ i - 1 \in 0..n /\ i - 1 \notin T
    BY <1>1, <1>3, <1>4 DEF Parsing
  <1>6. line[i] \in Options /\ i \in DOMAIN line
    BY <1>5
  <1>7. g[i] = Parsed(g[i - 1], line[i]) /\ Below(g[i - 1])
    BY <1>1, <1>5 DEF Parsing
  <1>8. GoodSettings(g[i - 1])
    BY <1>1, <1>5, LineStaysGood
  <1> QED
    BY <1>3, <1>6, <1>7, <1>8, OptionKeepsBelow

(* No key changes a port.                                                     *)
LEMMA KeyKeepsBelow ==
  ASSUME NEW s, GoodSettings(s), Below(s), NEW k \in KeyStrokes
  PROVE  Below(Typed(s, k))
  <1>1. s \in Sets
    BY DEF GoodSettings
  <1>2. Typed(s, k).remoteport = s.remoteport /\ Typed(s, k).localport = s.localport
    <2>1. CASE k.opt \in {"Q", "s", "b"}
      BY <1>1, <2>1 DEF Typed, Sets
    <2>2. CASE k.opt \in {"f", "m"}
      BY <1>1, <2>2 DEF Typed, KeyMax, Sets
    <2>3. CASE k.opt \in {"u", "t"}
      BY <1>1, <2>3 DEF Typed, Sets
    <2> QED
      BY <2>1, <2>2, <2>3 DEF KeyStrokes
  <1> QED
    BY <1>2 DEF Below

-----------------------------------------------------------------------------
(* The number in the packet                                                   *)

(* A header holds the number in the first field that may be taken for one, but *)
(* where the kernel writes over it.                                            *)
LEMMA PacketCarries ==
  ASSUME NEW e, NEW old, NEW seq, NEW p,
         p.version \in {4, 6}, p.protocol \in Protocol, p.port \in Low, p.localport \in Low,
         KernelSum \in Low,
         old.checksum => p.version = 6 /\ p.protocol = "udp" /\ Raw(e, p),
         ~IsStream(p), NEW f, f.packet = OnWire(e, SetOptions(e, old, p), p, seq),
         f.asked.remoteport = p.port, f.asked.localport = p.localport
  PROVE  Carries(e, f)
  <1> DEFINE socket == SetOptions(e, old, p)
             header == Quoted(e, socket, p, seq)
  <1>1. /\ f.packet.protocol = p.protocol /\ f.packet.version = p.version
        /\ f.packet.sequence = seq /\ f.packet.header = header
    BY DEF OnWire
  <1>2. p.protocol \in {"icmp", "udp"}
    BY DEF IsStream, Protocol
  <1>3. CASE p.protocol = "icmp"
    <2>1. ~IsStream(p)
      BY <1>3 DEF IsStream
    <2>2. header = [IcmpHeader(seq) EXCEPT !.id = IF Raw(e, p) THEN @ ELSE socket.port]
      BY <1>3, <2>1 DEF Quoted
    <2>3. ~Raw(e, p) => socket.port = Self
      BY <1>3, <2>1 DEF SetOptions
    <2>4. header.id = Self /\ header.sequence = seq
      BY <2>2, <2>3 DEF IcmpHeader
    <2> QED
      BY <1>1, <1>3, <2>4 DEF Carries
  <1>4. CASE p.protocol = "udp"
    <2>1. ~IsStream(p)
      BY <1>4 DEF IsStream
    <2>2. header = [UdpPorts(p, seq) EXCEPT
                      !.checksum = IF socket.checksum THEN KernelSum ELSE @]
      BY <1>4, <2>1 DEF Quoted
    <2>3. header.dstport = UdpPorts(p, seq).dstport /\ header.srcport = UdpPorts(p, seq).srcport
          /\ header.checksum = IF socket.checksum THEN KernelSum ELSE UdpPorts(p, seq).checksum
      BY <2>2 DEF UdpPorts
    <2>4. CASE p.port = 0
      <3>1. header.dstport = seq
        BY <2>3, <2>4 DEF UdpPorts
      <3> QED
        BY <1>1, <1>4, <3>1 DEF Carries
    <2>5. CASE p.port # 0 /\ p.localport = 0
      <3>1. header.dstport = p.port /\ header.srcport = seq
        BY <2>3, <2>5 DEF UdpPorts
      <3> QED
        BY <1>1, <1>4, <3>1 DEF Carries
    <2>6. CASE p.port # 0 /\ p.localport # 0
      <3>1. /\ header.dstport = p.port /\ header.srcport = p.localport
            /\ header.checksum = IF socket.checksum THEN KernelSum ELSE seq
        BY <2>3, <2>6 DEF UdpPorts
      <3>2. socket.checksum => p.version = 6 /\ Raw(e, p)
        BY <2>1 DEF SetOptions
      <3>3. CASE socket.checksum
        <4>1. Overwritten(e, f)
          BY <1>1, <1>4, <2>6, <3>2, <3>3 DEF Overwritten, Raw
        <4> HIDE DEF header
        <4> QED
          BY <1>1, <1>4, <3>1, <3>3, <4>1 DEF Carries
      <3>4. CASE ~socket.checksum
        <4> HIDE DEF header
        <4> QED
          BY <1>1, <1>4, <3>1, <3>4 DEF Carries
      <3> QED
        BY <3>3, <3>4
    <2> QED
      BY <2>4, <2>5, <2>6
  <1> QED
    BY <1>2, <1>3, <1>4

(* What one command does to the probes in flight and to the sockets.          *)
LEMMA SendingOnTheWay ==
  ASSUME NEW s, GoodSettings(s), Below(s), s.mtrtype = settings.mtrtype, KernelSum \in Low,
         Serves, DOMAIN sockets = SharedSockets, Summed, NEW n \in Nat, Send(s, n)
  PROVE  /\ \/ flying' = flying
            \/ \E f : /\ flying' = flying \cup {f} /\ Carries(engine, f)
                       /\ f.packet.sequence = MinSequence + sent
         /\ \A x \in SharedSockets :
              sockets'[x].checksum => x = <<6, "udp">> /\ engine.ip[6] = "raw"
  <1> DEFINE seq == MinSequence + sent
             command == SendProbeCommand(s, family, seq, batch + 1, n)
             p == Params(command)
             x == SendSocket(engine, p)
             old == sockets[x]
             socket == IF IsStream(p) THEN StreamSocket(p) ELSE SetOptions(engine, old, p)
             packet == OnWire(engine, socket, p, seq)
             probe == [hop |-> batch, packet |-> packet, asked |-> [s EXCEPT !.cpacketsize = n]]
  <1>1. /\ p.version = family /\ p.protocol = s.mtrtype
        /\ p.port = s.remoteport /\ p.localport = s.localport
    <2>1. family \in {4, 6}
      BY DEF Serves
    <2> QED
      BY <2>1, Understood
  <1>2. family \in {4, 6} /\ s.mtrtype \in Protocol
    BY DEF Serves, GoodSettings, Sets
  <1>3. \/ UNCHANGED <<sockets, flying>>
        \/ /\ flying' = flying \/ flying' = flying \cup {probe}
           /\ sockets' = IF IsStream(p) THEN sockets ELSE [sockets EXCEPT ![x] = socket]
    BY DEF Send
  <1>4. /\ probe.packet = packet /\ probe.packet.sequence = seq
        /\ probe.asked.remoteport = s.remoteport /\ probe.asked.localport = s.localport
    BY DEF OnWire, GoodSettings, Sets
  <1> HIDE DEF p
  <1>5. CASE IsStream(p)
    <2>1. socket = StreamSocket(p) /\ p.protocol \in {"tcp", "sctp"}
      BY <1>5 DEF IsStream
    <2>2. probe.packet.header.srcport = seq /\ probe.packet.protocol = p.protocol
      BY <1>5 DEF OnWire, Quoted, StreamPorts
    <2>3. Carries(engine, probe)
      <3> HIDE DEF probe, seq
      <3> QED
        BY <1>4, <2>1, <2>2 DEF Carries
    <2>4. UNCHANGED sockets
      BY <1>3, <1>5
    <2> HIDE DEF probe
    <2> QED
      BY <1>3, <1>4, <2>3, <2>4 DEF Summed
  <1>6. CASE ~IsStream(p)
    <2>1. x \in SharedSockets /\ (x = <<6, "udp">> => p.version = 6 /\ p.protocol = "udp")
          /\ (p.version = 6 /\ p.protocol = "udp" => x = <<6, "udp">>)
      BY <1>1, <1>2, <1>6 DEF IsStream, SendSocket, SharedSockets, Protocol
    <2>2. old.checksum => p.version = 6 /\ p.protocol = "udp" /\ Raw(engine, p)
      <3> HIDE DEF x
      <3> QED
        BY <2>1 DEF Summed, Raw
    <2>3. socket = SetOptions(engine, old, p)
      BY <1>6
    <2>4. socket.checksum => p.version = 6 /\ p.protocol = "udp" /\ Raw(engine, p)
      <3> HIDE DEF old, socket
      <3>1. socket.checksum = (old.checksum \/ (/\ p.version = 6 /\ p.protocol = "udp"
                                               /\ Raw(engine, p)))
        BY <2>3 DEF SetOptions
      <3> QED
        BY <2>2, <3>1, Zenon
    <2>5. Carries(engine, probe)
      <3>1. p.port \in Low /\ p.localport \in Low
        BY <1>1 DEF Below
      <3>2. probe.packet = OnWire(engine, SetOptions(engine, old, p), p, seq)
        BY <2>3
      <3>3. probe.asked.remoteport = p.port /\ probe.asked.localport = p.localport
        BY <1>1, <1>4
      <3>4. p.version \in {4, 6} /\ p.protocol \in Protocol
        BY <1>1, <1>2
      <3> HIDE DEF old, socket, probe, seq
      <3> QED
        BY <1>6, <2>2, <3>1, <3>2, <3>3, <3>4, PacketCarries
    <2>6. ASSUME NEW y \in SharedSockets, sockets'[y].checksum
          PROVE  y = <<6, "udp">> /\ engine.ip[6] = "raw"
      <3> HIDE DEF x, socket, probe
      <3>1. CASE sockets'[y] = sockets[y]
        BY <2>6, <3>1 DEF Summed
      <3>2. CASE y = x /\ sockets'[y] = socket
        BY <2>1, <2>4, <2>6, <3>2 DEF Raw
      <3> QED
        BY <1>3, <1>6, <3>1, <3>2
    <2> HIDE DEF probe
    <2> QED
      BY <1>3, <1>4, <2>5, <2>6
  <1> QED
    BY <1>5, <1>6

LEMMA WayAlways == ASSUME PortsBelow
                   PROVE  Spec => []Way
  <1>1. Init => Way
    <2> SUFFICES ASSUME Init
                 PROVE  Way
      OBVIOUS
    <2>1. PICK line \in Lines : ~LineRejected(line) /\ settings = ParseLine(line)
      BY DEF Init
    <2>2. Below(settings)
      BY <2>1, LineIsBelow, JourneyAssumption DEF PortsBelow
    <2>3. Numbered /\ AllCarry
      BY DEF Init, Numbered, AllCarry
    <2>4. Summed
      BY DEF Init, Summed, FreshSocket
    <2> QED
      BY <2>2, <2>3, <2>4 DEF Way
  <1>2. StayInTable /\ Journey /\ Way /\ [Next]_vars => Way'
    <2> SUFFICES ASSUME StayInTable, Journey, Way, [Next]_vars
                 PROVE  Way'
      OBVIOUS
    <2>1. CASE UNCHANGED <<engine, settings, sockets, sent>> /\ flying' \subseteq flying
      BY <2>1 DEF Way, Numbered, Summed, AllCarry
    <2>2. CASE KeyAction
      <3>1. PICK k \in Keys : settings' = Typed(settings, k)
        BY <2>2 DEF KeyAction
      <3>2. Below(settings')
        BY <3>1, KeyKeepsBelow, JourneyAssumption DEF StayInTable, Way
      <3> QED
        BY <2>2, <3>2 DEF KeyAction, Way, Numbered, Summed, AllCarry
    <2>3. CASE SendBatch
      <3>1. PICK n \in RoundSizes : \E b \in RoundPatterns :
              /\ settings' = [settings EXCEPT !.bitpattern = b]
              /\ Send([settings EXCEPT !.bitpattern = b], Abs(n))
        BY <2>3 DEF SendBatch
      <3>2. PICK b \in RoundPatterns :
              /\ settings' = [settings EXCEPT !.bitpattern = b]
              /\ Send([settings EXCEPT !.bitpattern = b], Abs(n))
        BY <3>1
      <3> DEFINE s == [settings EXCEPT !.bitpattern = b]
      <3>3. n \in Int /\ Abs(n) \in Nat
        BY SizeIsDrawn DEF StayInTable, Journey, Abs
      <3>4. GoodSettings(s)
        <4>1. b \in Int
          BY DEF RoundPatterns, StayInTable, GoodSettings, Sets
        <4> QED
          BY <4>1, Changed DEF StayInTable
      <3>5. s.mtrtype = settings.mtrtype /\ Below(s)
        BY DEF StayInTable, GoodSettings, Sets, Way, Below
      <3>6. Send(s, Abs(n)) /\ settings' = s
        BY <3>2
      <3> HIDE DEF s
      <3>7. /\ \/ flying' = flying
               \/ \E f : /\ flying' = flying \cup {f} /\ Carries(engine, f)
                          /\ f.packet.sequence = MinSequence + sent
            /\ \A x \in SharedSockets :
                 sockets'[x].checksum => x = <<6, "udp">> /\ engine.ip[6] = "raw"
        BY <3>3, <3>4, <3>5, <3>6, SendingOnTheWay DEF Journey, Marked, Way, PortsBelow
      <3>8. sent \in Nat /\ sent' = sent + 1 /\ UNCHANGED engine
        BY <2>3 DEF SendBatch, Way, Numbered
      <3>9. Numbered'
        <4>1. CASE flying' = flying
          BY <3>8, <4>1 DEF Way, Numbered, MinSequence
        <4>2. CASE flying' # flying
          <5>1. PICK f : flying' = flying \cup {f} /\ f.packet.sequence = MinSequence + sent
            BY <3>7, <4>2
          <5> QED
            BY <3>8, <5>1 DEF Way, Numbered, MinSequence
        <4> QED
          BY <4>1, <4>2
      <3>10. AllCarry'
        BY <3>7, <3>8 DEF Way, AllCarry
      <3>11. Summed'
        BY <3>7, <3>8 DEF Summed
      <3> QED
        BY <3>5, <3>6, <3>9, <3>10, <3>11 DEF Way
    <2>4. CASE DivideByZero
      BY <2>1, <2>4 DEF DivideByZero
    <2>5. CASE Answer
      <3>1. PICK f \in flying : \E m \in Answers(f) : Hear(f, m)
        BY <2>5 DEF Answer
      <3>2. flying' \subseteq flying
        BY <3>1 DEF Hear
      <3> QED
        BY <2>1, <2>5, <3>2 DEF Answer
    <2>6. CASE Lose
      BY <2>1, <2>6 DEF Lose
    <2>7. CASE UNCHANGED vars
      BY <2>1, <2>7 DEF vars
    <2> QED
      BY <2>2, <2>3, <2>4, <2>5, <2>6, <2>7 DEF Next
  <1> QED
    BY <1>1, <1>2, StayInTableAlways, JourneyAlways, PTL DEF Spec

(* The numbers in a header that are those of probes in flight: the first of   *)
(* them is the probe's own.                                                   *)
LEMMA FirstIsOwn ==
  ASSUME Way, NEW f \in flying, NEW m
  PROVE  \/ FoundProbe(Sequences, m, f.packet, Self) = {f.packet.sequence}
         \/ /\ FoundProbe(Sequences, m, f.packet, Self) = {}
            /\ (m.kind # "echo" /\ ~EnoughQuoted(m, f.packet)) \/ Overwritten(engine, f)
  <1> DEFINE header == f.packet.header
             number == f.packet.sequence
             protocol == f.packet.protocol
             fields == Fields(protocol, header, Self)
             First(i) == fields[i] \in Sequences /\ \A j \in 1..i - 1 : fields[j] \notin Sequences
             hits == {fields[i] : i \in {k \in DOMAIN fields : First(k)}}
             found == FoundProbe(Sequences, m, f.packet, Self)
  <1>1. number \in Sequences /\ \A n \in Low : n \notin Sequences
    BY DEF Sequences, Way, Numbered, Low, MinSequence
  <1>2. Carries(engine, f)
    BY DEF Way, AllCarry
  <1>3. IF m.kind # "echo" /\ ~EnoughQuoted(m, f.packet) THEN found = {} ELSE found = hits
    BY DEF FoundProbe
  <1> HIDE DEF found
  <1>4. \/ hits = {number}
        \/ hits = {} /\ Overwritten(engine, f)
    <2>1. CASE protocol = "icmp" /\ header.id = Self /\ header.sequence = number
      <3>1. fields = <<number>>
        BY <2>1 DEF Fields
      <3> HIDE DEF fields, number
      <3>2. DOMAIN fields = {1} /\ fields[1] = number
        BY <3>1
      <3> QED
        BY <1>1, <3>2
    <2>2. CASE protocol \in {"tcp", "sctp"} /\ header.srcport = number
      <3>1. fields = <<number>>
        BY <2>2 DEF Fields
      <3> HIDE DEF fields, number
      <3>2. DOMAIN fields = {1} /\ fields[1] = number
        BY <3>1
      <3> QED
        BY <1>1, <3>2
    <2>3. CASE protocol = "udp"
      <3> DEFINE dst == header.dstport
                 src == header.srcport
                 sum == header.checksum
      <3>1. fields = <<dst, src, sum>>
        BY <2>3 DEF Fields, UdpFields
      <3>2. \/ dst = number
            \/ dst \in Low /\ src = number
            \/ dst \in Low /\ src \in Low /\ sum = number
            \/ dst \in Low /\ src \in Low /\ sum \in Low /\ Overwritten(engine, f)
        BY <1>2, <2>3 DEF Carries
      <3> HIDE DEF fields, number, dst, src, sum
      <3>3. DOMAIN fields = {1, 2, 3} /\ fields[1] = dst /\ fields[2] = src /\ fields[3] = sum
        BY <3>1
      <3>4. 1..1 - 1 = {} /\ 1..2 - 1 = {1} /\ 1..3 - 1 = {1, 2}
        OBVIOUS
      <3>5. /\ First(1) <=> dst \in Sequences
            /\ First(2) <=> dst \notin Sequences /\ src \in Sequences
            /\ First(3) <=> dst \notin Sequences /\ src \notin Sequences /\ sum \in Sequences
        BY <3>3, <3>4
      <3> HIDE DEF First
      <3> QED
        BY <1>1, <3>2, <3>3, <3>5
    <2> QED
      BY <1>2, <2>1, <2>2, <2>3 DEF Carries
  <1> HIDE DEF hits, number
  <1>5. \/ found = {number}
        \/ found = {} /\ ((m.kind # "echo" /\ ~EnoughQuoted(m, f.packet)) \/ Overwritten(engine, f))
    BY <1>3, <1>4
  <1> QED
    BY <1>5 DEF found, number

(* A router's quotation of a probe is found to be that probe's, by its number  *)
(* in whichever field that is (find_and_receive_probe in deconstruct_unix.c).  *)
THEOREM QuotationsFindTheirProbe ==
  ASSUME PortsBelow
  PROVE  Spec => []QuoteFindsProbe
  <1>1. Way => QuoteFindsProbe
    <2> SUFFICES ASSUME Way, NEW f \in flying, NEW m \in Answers(f), m.quoted >= 8
                 PROVE  \/ FoundProbe(Sequences, m, f.packet, Self) = {f.packet.sequence}
                        \/ Overwritten(engine, f)
      BY DEF QuoteFindsProbe, Overwritten, IsRaw
    <2>1. EnoughQuoted(m, f.packet)
      BY DEF EnoughQuoted
    <2> QED
      BY <2>1, FirstIsOwn
  <1> QED
    BY <1>1, WayAlways, PTL

-----------------------------------------------------------------------------
(* Labels                                                                     *)

LEMMA TableIsSeq ==
  ASSUME NEW S, NEW n \in Nat, NEW t \in [1..n -> S]
  PROVE  t \in Seq(S) /\ Len(t) = n
  <1>1. t \in Seq(S)
    BY SeqDef
  <1>2. Len(t) \in Nat /\ 1..Len(t) = 1..n
    BY <1>1, LenProperties
  <1>3. Len(t) = n
    BY <1>2
  <1> QED
    BY <1>1, <1>3

(* A label is cut out of the bits it was put into (decode_mpls_object).       *)
LEMMA LabelOfEntry ==
  ASSUME NEW l \in Labels
  PROVE  LabelOf(Entry(l)) = l
  <1>1. /\ l.label \in Nat /\ l.tc \in 0..7 /\ l.s \in 0..1 /\ l.ttl \in 0..255
        /\ l = [label |-> l.label, tc |-> l.tc, s |-> l.s, ttl |-> l.ttl]
    BY DEF Labels
  <1> DEFINE b == Byte2(l)
  <1>2. b = (l.label % 16) * 16 + l.tc * 2 + l.s
    BY DEF Byte2
  <1>3. l.label % 16 \in 0..15
    BY <1>1
  <1>4. b \in Nat /\ b \div 16 = l.label % 16 /\ b % 2 = l.s /\ b \div 2 = (l.label % 16) * 8 + l.tc
    <2>1. \A a \in 0..15, c \in 0..7, z \in 0..1 :
            /\ a * 16 + c * 2 + z \in Nat /\ (a * 16 + c * 2 + z) \div 16 = a
            /\ (a * 16 + c * 2 + z) % 2 = z /\ (a * 16 + c * 2 + z) \div 2 = a * 8 + c
      OBVIOUS
    <2> DEFINE a == l.label % 16
    <2> HIDE DEF a, b
    <2>2. a \in 0..15 /\ b = a * 16 + l.tc * 2 + l.s
      BY <1>2, <1>3 DEF a
    <2>3. b \in Nat /\ b \div 16 = a /\ b % 2 = l.s /\ b \div 2 = a * 8 + l.tc
      BY <1>1, <2>1, <2>2, Zenon
    <2> QED
      BY <2>3 DEF a
  <1>5. TrafficClass(b) = l.tc
    BY <1>1, <1>3, <1>4 DEF TrafficClass
  <1>6. Byte0(l) * 4096 + Byte1(l) * 16 + (b \div 16) = l.label
    <2>1. Byte0(l) = l.label \div 4096 /\ Byte1(l) = (l.label \div 16) % 256
      BY DEF Byte0, Byte1
    <2> DEFINE n == l.label
    <2>2. n \in Nat
      BY <1>1
    <2> HIDE DEF n, b
    <2>3. (n \div 4096) * 4096 + ((n \div 16) % 256) * 16 + (n % 16) = n
      BY <2>2
    <2> QED
      BY <1>4, <2>1, <2>3 DEF n
  <1>7. Entry(l) = <<Byte0(l), Byte1(l), b, l.ttl>>
    BY DEF Entry
  <1> HIDE DEF b
  <1>8. LabelOf(Entry(l)) = [label |-> l.label, tc |-> l.tc, s |-> l.s, ttl |-> l.ttl]
    BY <1>4, <1>5, <1>6, <1>7 DEF LabelOf
  <1> QED
    BY <1>1, <1>8

(* Labels that are printed as one list of numbers are cut up again where they  *)
(* were joined (format_mpls_string, parse_mpls_values).                        *)
LEMMA TextIsParsed ==
  ASSUME NEW labels \in Seq(Labels)
  PROVE  ParseMpls(MplsText(labels)) = [i \in 1..MinOf(MaxLabels, Len(labels)) |-> labels[i]]
  <1> DEFINE n == Len(labels)
             text == MplsText(labels)
  <1>1. n \in Nat /\ 4 * n \in Nat /\ \A i \in 1..n : labels[i] \in Labels
    OBVIOUS
  <1>2. text = [k \in 1..4 * n |-> LabelFields(labels[(k + 3) \div 4])[1 + ((k - 1) % 4)]]
    BY DEF MplsText
  <1> HIDE DEF n, text
  <1>3. Len(text) = 4 * n
    <2>1. text \in [1..4 * n -> Range(text)]
      BY <1>2 DEF Range
    <2> QED
      BY <1>1, <2>1, TableIsSeq
  <1>4. ASSUME NEW i \in 1..n
        PROVE  [label |-> text[4 * i - 3], tc |-> text[4 * i - 2], s |-> text[4 * i - 1],
                ttl |-> text[4 * i]] = labels[i]
    <2> DEFINE l == labels[i]
    <2>1. LabelFields(l) = <<l.label, l.tc, l.s, l.ttl>>
          /\ l = [label |-> l.label, tc |-> l.tc, s |-> l.s, ttl |-> l.ttl]
      BY <1>1 DEF LabelFields, Labels
    <2>2. /\ 4 * i - 3 \in 1..4 * n /\ 4 * i - 2 \in 1..4 * n /\ 4 * i - 1 \in 1..4 * n
          /\ 4 * i \in 1..4 * n
      BY <1>1
    <2>3. /\ (4 * i - 3 + 3) \div 4 = i /\ (4 * i - 2 + 3) \div 4 = i
          /\ (4 * i - 1 + 3) \div 4 = i /\ (4 * i + 3) \div 4 = i
      BY <1>1
    <2>4. /\ (4 * i - 3 - 1) % 4 = 0 /\ (4 * i - 2 - 1) % 4 = 1
          /\ (4 * i - 1 - 1) % 4 = 2 /\ (4 * i - 1) % 4 = 3
      BY <1>1
    <2>5. /\ text[4 * i - 3] = LabelFields(l)[1] /\ text[4 * i - 2] = LabelFields(l)[2]
          /\ text[4 * i - 1] = LabelFields(l)[3] /\ text[4 * i] = LabelFields(l)[4]
      BY <1>2, <2>2, <2>3, <2>4
    <2> HIDE DEF l
    <2>6. /\ text[4 * i - 3] = l.label /\ text[4 * i - 2] = l.tc
          /\ text[4 * i - 1] = l.s /\ text[4 * i] = l.ttl
      BY <2>1, <2>5
    <2> QED
      BY <2>1, <2>6 DEF l
  <1>5. Len(text) \div 4 = n
    BY <1>1, <1>3
  <1>6. ParseMpls(text) =
          [i \in 1..MinOf(MaxLabels, n) |->
             [label |-> text[4 * i - 3], tc |-> text[4 * i - 2], s |-> text[4 * i - 1],
              ttl |-> text[4 * i]]]
    BY <1>5 DEF ParseMpls
  <1>7. 1..MinOf(MaxLabels, n) \subseteq 1..n
    BY <1>1, LabelAssumption DEF MinOf
  <1> QED
    BY <1>4, <1>6, <1>7 DEF n, text

LEMMA EmptyTable ==
  ASSUME NEW t, NEW n \in Nat, n = 0, DOMAIN t = 1..n, t = [i \in 1..n |-> t[i]]
  PROVE  t = <<>>
  <1>1. t \in [1..n -> {}]
    OBVIOUS
  <1>2. t \in Seq({}) /\ Len(t) = 0
    BY <1>1, TableIsSeq
  <1> QED
    BY <1>2, EmptySeq

(* The error queue shows no labels.                                            *)
Deaf(raw, m) == ~raw /\ m.kind # "echo"

(* The labels of the first object that holds some are decoded (decode_mpls_    *)
(* labels), as many as there is room for.                                      *)
LEMMA WireIsDecoded ==
  ASSUME Genuine, NEW m \in Messages, NEW raw \in BOOLEAN
  PROVE  /\ Wire(m) \in Seq(Labels)
         /\ Deaf(raw, m) => DecodeLabels(raw, m) = <<>>
         /\ ~Deaf(raw, m) =>
              DecodeLabels(raw, m) = [i \in 1..MinOf(MaxMplsLabels, Len(Wire(m))) |-> Wire(m)[i]]
  <1> DEFINE C == m.chain
             mpls == {i \in DOMAIN C : C[i].class = 1}
             found == FirstMpls(C, m.size)
  <1>1. /\ DOMAIN C = 1..Len(C) /\ Len(C) \in Nat
        /\ \A i \in DOMAIN C : WellFormed(C, m.size, i)
        /\ \A i \in mpls : /\ C[i].labels \in Seq(Labels)
                           /\ C[i].len = ObjectHeader + 4 * Len(C[i].labels)
                           /\ C[i].entries = [j \in DOMAIN C[i].labels |-> Entry(C[i].labels[j])]
    <2>1. C \in Seq(Range(C))
      BY DEF Genuine
    <2>2. DOMAIN C = 1..Len(C) /\ Len(C) \in Nat
      <3> HIDE DEF C
      <3> QED
        BY <2>1
    <2> QED
      BY <2>2 DEF Genuine
  <1>2. Wire(m) = IF mpls = {} THEN <<>> ELSE C[Min(mpls)].labels
    BY DEF Wire
  <1>3. DecodeLabels(raw, m) = IF Deaf(raw, m) \/ found = {} THEN <<>>
                               ELSE DecodeObject(C[CHOOSE i \in found : TRUE])
    BY DEF DecodeLabels, Deaf
  <1>4. found = {i \in DOMAIN C : C[i].class = 1 /\ \A j \in 1..i - 1 : C[j].class # 1}
    <2>1. \A i \in DOMAIN C : \A j \in 1..i : WellFormed(C, m.size, j)
      <3> HIDE DEF C
      <3> QED
        BY <1>1
    <2> QED
      BY <2>1 DEF FirstMpls
  <1> HIDE DEF C, found
  <1>5. CASE mpls = {}
    <2>1. found = {} /\ Wire(m) = <<>>
      BY <1>2, <1>4, <1>5
    <2> DEFINE t == [i \in 1..MinOf(MaxMplsLabels, Len(<<>>)) |-> <<>>[i]]
    <2>2. MinOf(MaxMplsLabels, Len(<<>>)) = 0
      BY LabelAssumption DEF MinOf
    <2>3. t = <<>>
      <3>1. DOMAIN t = 1..0 /\ t = [i \in 1..0 |-> t[i]]
        BY <2>2
      <3> HIDE DEF t
      <3> QED
        BY <3>1, EmptyTable
    <2>4. <<>> \in Seq(Labels)
      OBVIOUS
    <2> QED
      BY <1>3, <2>1, <2>3, <2>4
  <1>6. CASE mpls # {}
    <2>1. mpls \subseteq Nat
      BY <1>1
    <2>2. PICK i \in mpls : \A j \in mpls : i <= j
      BY <1>6, <2>1, FirstPlace
    <2>3. Min(mpls) = i
      <3>1. Min(mpls) \in mpls /\ \A j \in mpls : Min(mpls) <= j
        BY <2>2 DEF Min
      <3>2. Min(mpls) <= i /\ i <= Min(mpls) /\ Min(mpls) \in Nat /\ i \in Nat
        BY <2>1, <2>2, <3>1
      <3> QED
        BY <3>2
    <2>4. found = {i}
      BY <1>1, <1>4, <2>2
    <2>5. (CHOOSE k \in {i} : TRUE) = i
      OBVIOUS
    <2> DEFINE o == C[i]
               w == o.labels
               n == MinOf(MaxMplsLabels, Len(w))
    <2>6. w \in Seq(Labels) /\ o.len = ObjectHeader + 4 * Len(w)
          /\ o.entries = [j \in DOMAIN w |-> Entry(w[j])]
      BY <1>1, <2>2
    <2>7. Wire(m) = w
      BY <1>2, <1>6, <2>3
    <2>8. DecodeObject(o) = [j \in 1..n |-> w[j]]
      <3> HIDE DEF w
      <3>1. Len(w) \in Nat /\ (o.len - ObjectHeader) \div 4 = Len(w)
        BY <2>6 DEF ObjectHeader
      <3>2. DecodeObject(o) = [j \in 1..n |-> LabelOf(o.entries[j])]
        BY <3>1 DEF DecodeObject
      <3>3. 1..n \subseteq DOMAIN w
        BY <2>6, <3>1, LabelAssumption DEF MinOf
      <3>4. \A j \in 1..n : LabelOf(o.entries[j]) = w[j]
        <4>1. \A j \in DOMAIN w : w[j] \in Labels
          BY <2>6
        <4> QED
          BY <2>6, <3>3, <4>1, LabelOfEntry
      <3> HIDE DEF n, o
      <3> QED
        BY <3>2, <3>4
    <2>9. ~Deaf(raw, m) => DecodeLabels(raw, m) = DecodeObject(o)
      BY <1>3, <2>4, <2>5
    <2>10. Deaf(raw, m) => DecodeLabels(raw, m) = <<>>
      BY <1>3
    <2> HIDE DEF o, w
    <2> QED
      BY <2>6, <2>7, <2>8, <2>9, <2>10
  <1> QED
    BY <1>5, <1>6

(* What the client makes of the reply's labels is what a hop should show.      *)
LEMMA ShownIsParsed ==
  ASSUME Genuine, NEW m \in Messages, NEW raw \in BOOLEAN
  PROVE  ParseMpls(IF DecodeLabels(raw, m) = <<>> THEN <<>> ELSE MplsText(DecodeLabels(raw, m)))
           = Shown([m |-> m, raw |-> raw])
  <1> DEFINE w == Wire(m)
             d == DecodeLabels(raw, m)
             k == Lower(Len(w), Lower(MaxMplsLabels, MaxLabels))
             n == MinOf(MaxMplsLabels, Len(w))
  <1>1. /\ w \in Seq(Labels)
        /\ Deaf(raw, m) => d = <<>>
        /\ ~Deaf(raw, m) => d = [i \in 1..n |-> w[i]]
    BY WireIsDecoded
  <1>2. Shown([m |-> m, raw |-> raw]) = IF Deaf(raw, m) THEN <<>> ELSE SubSeq(w, 1, k)
    BY DEF Shown, Deaf
  <1> DEFINE text == IF d = <<>> THEN <<>> ELSE MplsText(d)
  <1> SUFFICES ParseMpls(text) = Shown([m |-> m, raw |-> raw])
    OBVIOUS
  <1> HIDE DEF w, d
  <1>3. Len(w) \in Nat /\ n \in Nat /\ n <= Len(w) /\ k \in Nat /\ k <= n
        /\ k = MinOf(MaxLabels, n)
    BY <1>1, LabelAssumption DEF Lower, MinOf
  <1>4. ParseMpls(<<>>) = <<>>
    <2> DEFINE t == ParseMpls(<<>>)
    <2>1. MinOf(MaxLabels, Len(<<>>) \div 4) = 0
      BY LabelAssumption DEF MinOf
    <2>2. DOMAIN t = 1..0 /\ t = [i \in 1..0 |-> t[i]]
      BY <2>1 DEF ParseMpls
    <2> HIDE DEF t
    <2>3. t = <<>>
      BY <2>2, EmptyTable
    <2> QED
      BY <2>3 DEF t
  <1>5. ~Deaf(raw, m) => d \in Seq(Labels) /\ Len(d) = n /\ \A i \in 1..n : d[i] = w[i]
    <2> SUFFICES ASSUME ~Deaf(raw, m)
                 PROVE  d \in Seq(Labels) /\ Len(d) = n /\ \A i \in 1..n : d[i] = w[i]
      OBVIOUS
    <2>1. d = [i \in 1..n |-> w[i]]
      BY <1>1
    <2>2. \A i \in 1..n : w[i] \in Labels
      BY <1>1, <1>3
    <2> HIDE DEF n
    <2>3. d \in [1..n -> Labels]
      BY <2>1, <2>2
    <2> QED
      BY <1>3, <2>1, <2>3, TableIsSeq
  <1> HIDE DEF k, n
  <1>6. CASE d = <<>>
    <2>1. CASE Deaf(raw, m)
      BY <1>2, <1>4, <1>6, <2>1
    <2>2. CASE ~Deaf(raw, m)
      <3>1. n = 0 /\ k = 0
        BY <1>3, <1>5, <1>6, <2>2
      <3>2. SubSeq(w, 1, k) = <<>>
        BY <3>1, SubSeqEmpty
      <3> QED
        BY <1>2, <1>4, <1>6, <2>2, <3>2
    <2> QED
      BY <2>1, <2>2
  <1>7. CASE d # <<>>
    <2>1. ~Deaf(raw, m)
      BY <1>1, <1>7
    <2>2. d \in Seq(Labels) /\ Len(d) = n /\ \A i \in 1..n : d[i] = w[i]
      BY <1>5, <2>1
    <2>3. ParseMpls(MplsText(d)) = [i \in 1..k |-> d[i]]
      BY <1>3, <2>2, TextIsParsed
    <2> DEFINE t == [i \in 1..k |-> d[i]]
               u == SubSeq(w, 1, k)
    <2>4. \A i \in 1..k : d[i] = w[i] /\ w[i] \in Labels
      BY <1>1, <1>3, <2>2
    <2>5. t \in Seq(Labels) /\ Len(t) = k /\ \A i \in 1..k : t[i] = w[i]
      <3>1. t \in [1..k -> Labels]
        BY <2>4
      <3>2. \A i \in 1..k : t[i] = w[i]
        BY <2>4
      <3> HIDE DEF t
      <3> QED
        BY <1>3, <3>1, <3>2, TableIsSeq
    <2>6. u \in Seq(Labels) /\ Len(u) = k /\ \A i \in 1..k : u[i] = w[i]
      <3>1. /\ u \in Seq(Labels) /\ Len(u) = (IF 1 <= k THEN k - 1 + 1 ELSE 0)
            /\ \A i \in 1..k - 1 + 1 : u[i] = w[1 + i - 1]
        BY <1>3, <2>4, SubSeqProperties
      <3> HIDE DEF u
      <3> QED
        BY <1>3, <3>1
    <2> HIDE DEF t, u
    <2>7. t = u
      BY <2>5, <2>6, SeqEqual
    <2> QED
      BY <1>2, <1>7, <2>1, <2>3, <2>7 DEF t, u
  <1> QED
    BY <1>6, <1>7 DEF d

-----------------------------------------------------------------------------
(* What a hop shows                                                           *)

(* One answer, at a hop that shows what was heard before it.                  *)
LEMMA AnswerShows ==
  ASSUME Genuine, NEW hop, NEW past, ShowsWhat(hop, past),
         NEW m \in Messages, NEW raw \in BOOLEAN, NEW token
  PROVE  ShowsWhat(Returned(hop, Reply(token, raw, m, family)),
                   Append(past, [m |-> m, raw |-> raw]))
  <1> DEFINE a     == [m |-> m, raw |-> raw]
             all   == Append(past, a)
             reply == Reply(token, raw, m, family)
             new   == Returned(hop, reply)
  <1>1. a \in Heard /\ a.m = m
    BY DEF Heard
  <1>2. /\ reply.args[1][2] = m.from /\ m.from # "none"
        /\ ReplyArgument(reply, "round-trip-time", 0) = m.rtt
        /\ ParseMpls(ReplyArgument(reply, "mpls", <<>>)) = Shown(a)
    <2>1. m.from # "none"
      BY DEF Genuine
    <2> QED
      BY <2>1, ReplyIsRead, ShownIsParsed
  <1> HIDE DEF a, reply
  <1>3. /\ all \in Seq(Heard) /\ Len(all) = Len(past) + 1 /\ all[Len(all)] = a /\ all # <<>>
        /\ past # <<>> => all[1] = past[1]
        /\ past = <<>> => all[1] = a
    <2>1. past \in Seq(Heard)
      BY DEF ShowsWhat
    <2>2. Len(past) \in Nat /\ (past # <<>> => Len(past) >= 1) /\ (past = <<>> => Len(past) = 0)
      BY <2>1, EmptySeq
    <2>3. /\ all \in Seq(Heard) /\ Len(all) = Len(past) + 1
          /\ \A i \in 1..Len(past) : all[i] = past[i]
          /\ all[Len(past) + 1] = a
      BY <1>1, <2>1, AppendProperties
    <2> HIDE DEF all
    <2>4. all # <<>>
      BY <2>2, <2>3, EmptySeq
    <2> QED
      BY <2>2, <2>3, <2>4
  <1>4. /\ new.returned = hop.returned + 1
        /\ new.last = m.rtt
        /\ hop.addr = "none" => new.addr = m.from /\ new.mpls = Shown(a)
        /\ hop.addr # "none" => new.addr = hop.addr /\ new.mpls = hop.mpls
    BY <1>2 DEF Returned
  <1> HIDE DEF all, new
  <1>5. /\ new.addr # "none"
        /\ new.mpls = Shown(all[1]) /\ new.addr = all[1].m.from
    BY <1>1, <1>2, <1>3, <1>4 DEF ShowsWhat
  <1>6. ShowsWhat(new, all)
    BY <1>1, <1>3, <1>4, <1>5 DEF ShowsWhat
  <1> QED
    BY <1>6 DEF all, new, reply, a

(* The probe that is found by its number is the one that was answered.        *)
LEMMA FoundIsOwn ==
  ASSUME Way, NEW f \in flying
  PROVE  Found({f.packet.sequence}) = f
  <1>1. \E g \in flying : g.packet.sequence \in {f.packet.sequence}
    OBVIOUS
  <1>2. /\ Found({f.packet.sequence}) \in flying
        /\ Found({f.packet.sequence}).packet.sequence \in {f.packet.sequence}
    BY <1>1 DEF Found
  <1> QED
    BY <1>2 DEF Way, Numbered

LEMMA Hearing ==
  ASSUME Genuine, Way, StayInTable, AllHeard,
         NEW f \in flying, NEW m \in Answers(f), Hear(f, m)
  PROVE  AllHeard'
  <1> DEFINE found == FoundProbe(Sequences, m, f.packet, Self)
             raw   == IsRaw(f)
             reply == Reply(f.packet.sequence, raw, m, family)
             at    == f.hop
             a     == [m |-> m, raw |-> raw]
  <1>1. CASE found = {}
    BY <1>1 DEF Hear, AllHeard, HeardAt
  <1>2. CASE found # {}
    <2>1. found = {f.packet.sequence} /\ Found(found) = f
      BY <1>2, FirstIsOwn, FoundIsOwn
    <2>2. /\ hops' = [hops EXCEPT ![at] = Returned(hops[at], reply)]
          /\ heard' = [heard EXCEPT ![at] = Append(heard[at], a)]
      BY <1>2, <2>1 DEF Hear
    <2>3. m \in Messages /\ raw \in BOOLEAN /\ at \in 0..MaxHost - 1
      <3>1. m \in Messages /\ raw \in BOOLEAN
        BY DEF Answers, IsRaw
      <3>2. at \in 0..MaxHost - 1
        BY DEF StayInTable, FlyInTable, InTable
      <3> QED
        BY <3>1, <3>2
    <2>4. ASSUME NEW h \in 0..MaxHost - 1
          PROVE  HeardAt(h)'
      <3>1. HeardAt(h) /\ h \in DOMAIN hops /\ h \in DOMAIN heard
        BY DEF AllHeard
      <3>2. CASE h # at
        <4>1. hops'[h] = hops[h] /\ heard'[h] = heard[h]
          BY <2>2, <3>1, <3>2
        <4> QED
          BY <3>1, <4>1 DEF HeardAt
      <3>3. CASE h = at
        <4>1. hops'[h] = Returned(hops[h], reply) /\ heard'[h] = Append(heard[h], a)
          BY <2>2, <3>1, <3>3
        <4>2. ShowsWhat(hops[h], heard[h])
          BY <3>1 DEF HeardAt
        <4> HIDE DEF raw
        <4>3. ShowsWhat(Returned(hops[h], reply), Append(heard[h], a))
          BY <2>3, <4>2, AnswerShows
        <4> HIDE DEF reply, a
        <4>4. ShowsWhat(hops'[h], heard'[h])
          BY <4>1, <4>3
        <4> QED
          BY <4>4 DEF HeardAt
      <3> QED
        BY <3>2, <3>3
    <2>5. DOMAIN hops' = 0..MaxHost - 1 /\ DOMAIN heard' = 0..MaxHost - 1
      BY <2>2 DEF AllHeard
    <2> QED
      BY <2>4, <2>5 DEF AllHeard
  <1> QED
    BY <1>1, <1>2

LEMMA AllHeardAlways ==
  ASSUME PortsBelow, Genuine
  PROVE  Spec => []AllHeard
  <1>1. Init => AllHeard
    BY DEF Init, AllHeard, HeardAt, ShowsWhat, NewHop
  <1>2. Way /\ StayInTable /\ AllHeard /\ [Next]_vars => AllHeard'
    <2> SUFFICES ASSUME Way, StayInTable, AllHeard, [Next]_vars
                 PROVE  AllHeard'
      OBVIOUS
    <2>1. CASE UNCHANGED <<hops, heard>>
      BY <2>1 DEF AllHeard, HeardAt
    <2>2. CASE Answer
      <3>1. PICK f \in flying : \E m \in Answers(f) : Hear(f, m)
        BY <2>2 DEF Answer
      <3>2. PICK m \in Answers(f) : Hear(f, m)
        BY <3>1
      <3> QED
        BY <3>2, Hearing
    <2>3. CASE Next /\ ~Answer
      BY <2>1, <2>3 DEF Next, KeyAction, SendBatch, DivideByZero, Lose
    <2> QED
      BY <2>1, <2>2, <2>3 DEF vars
  <1> QED
    BY <1>1, <1>2, StayInTableAlways, WayAlways, PTL DEF Spec

(* A hop shows the address and the labels of its first answer as they were on  *)
(* the wire, the time of its last, and as many answers as it had, though the   *)
(* engine looks the probe up by a number in a quoted header, prints the labels *)
(* as text and the client cuts the text up again (receive_probe in probe.c,    *)
(* net_process_ping).                                                          *)
THEOREM HopsShowWhatWasHeard ==
  ASSUME PortsBelow, Genuine
  PROVE  Spec => []HopIsWhatWasHeard
  <1>1. AllHeard => HopIsWhatWasHeard
    BY DEF AllHeard, HeardAt, ShowsWhat, HopIsWhatWasHeard
  <1> QED
    BY <1>1, AllHeardAlways, PTL

=============================================================================
