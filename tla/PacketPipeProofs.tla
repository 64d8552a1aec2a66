-------------------------- MODULE PacketPipeProofs --------------------------
(***************************************************************************)
(* Theorems about the pipes between mtr and its mtr-packet processes, for  *)
(* every number of names, rounds, probes and features, and every size of   *)
(* the pipes and buffers that PipeAssumption admits.                       *)
(*                                                                         *)
(* That replies arrive as they were printed is an equation between what is *)
(* on its way and what is owed; a flush, a read and the handling of lines  *)
(* each move a cut within it.  The start-up, whose reads take what there   *)
(* is for one whole reply, needs to be known step by step: nothing is on   *)
(* its way between one query and the next.  That the two processes do not  *)
(* block each other needs to be known of a time before either is blocked.  *)
(***************************************************************************)
EXTENDS PacketPipe, SequenceTheorems, FiniteSetTheorems, FunctionTheorems, TLAPS

Replies(e) == [of : {e}, n : Nat, what : {"ok", "no", "line", "fatal"}]
HalfReplies(e) == [reply : Replies(e), part : {1, 2}]

----------------------------------------------------------------------------
(* The text of replies, and where it is cut *)

(* Places in a text of two halves each, and the replies they belong to. *)
LEMMA Pairs ==
    ASSUME NEW m \in Nat, NEW k \in Nat
    PROVE  /\ (2 * m + k + 1) \div 2 = m + (k + 1) \div 2
           /\ (2 * m + k) % 2 = k % 2
<1>1. (2 * m + k + 1) \div 2 = m + (k + 1) \div 2
  OBVIOUS
<1>2. (2 * m + k) % 2 = k % 2
  OBVIOUS
<1>. QED
  BY <1>1, <1>2

LEMMA PairOf ==
    ASSUME NEW m \in Nat, NEW k \in Nat
    PROVE  k \in 1..2 * m <=> (k + 1) \div 2 \in 1..m
OBVIOUS

LEMMA EvenPlace ==
    ASSUME NEW k \in Nat \ {0}, k % 2 = 0
    PROVE  /\ k > 1 /\ k - 1 \in Nat \ {0} /\ (k - 1) % 2 = 1
           /\ (k - 1 + 1) \div 2 = (k + 1) \div 2
           /\ k \div 2 \in Nat \ {0} /\ 2 * (k \div 2) = k
<1>1. k > 1 /\ k - 1 \in Nat \ {0} /\ (k - 1) % 2 = 1
  OBVIOUS
<1>2. (k - 1 + 1) \div 2 = (k + 1) \div 2
  OBVIOUS
<1>3. k \div 2 \in Nat \ {0} /\ 2 * (k \div 2) = k
  OBVIOUS
<1>. QED
  BY <1>1, <1>2, <1>3

(* The text of replies: two halves each. *)
LEMMA HalvesAre ==
    ASSUME NEW e, NEW s \in Seq(Replies(e))
    PROVE  /\ HalvesOf(s) \in Seq(HalfReplies(e)) /\ Len(HalvesOf(s)) = 2 * Len(s)
           /\ Len(s) \in Nat
           /\ \A k \in 1..2 * Len(s) :
                 /\ (k + 1) \div 2 \in 1..Len(s)
                 /\ HalvesOf(s)[k] = [reply |-> s[(k + 1) \div 2], part |-> 2 - (k % 2)]
<1>1. Len(s) \in Nat
  BY LenProperties
<1> DEFINE n == 2 * Len(s)
<1>2. n \in Nat /\ \A k \in 1..n : (k + 1) \div 2 \in 1..Len(s) /\ 2 - (k % 2) \in {1, 2}
  BY <1>1
<1>3. HalvesOf(s) = [k \in 1..n |-> [reply |-> s[(k + 1) \div 2], part |-> 2 - (k % 2)]]
  BY DEF HalvesOf
<1>. HIDE DEF n
<1>4. \A k \in 1..n : [reply |-> s[(k + 1) \div 2], part |-> 2 - (k % 2)] \in HalfReplies(e)
  <2>. SUFFICES ASSUME NEW k \in 1..n
                PROVE  [reply |-> s[(k + 1) \div 2], part |-> 2 - (k % 2)] \in HalfReplies(e)
    OBVIOUS
  <2>1. s[(k + 1) \div 2] \in Replies(e)
    BY <1>2, ElementOfSeq
  <2>2. 2 - (k % 2) \in {1, 2}
    BY <1>2
  <2>. QED
    BY <2>1, <2>2 DEF HalfReplies
<1>5. HalvesOf(s) \in [1..n -> HalfReplies(e)]
  BY <1>3, <1>4
<1>6. HalvesOf(s) \in Seq(HalfReplies(e)) /\ Len(HalvesOf(s)) = n
  BY <1>2, <1>5
<1>. QED
  BY <1>1, <1>2, <1>3, <1>6 DEF n

(* Text cut where a reply ends. *)
LEMMA HalvesJoined ==
    ASSUME NEW e, NEW s \in Seq(Replies(e)), NEW t \in Seq(Replies(e))
    PROVE  HalvesOf(s \o t) = HalvesOf(s) \o HalvesOf(t)
<1>1. /\ s \o t \in Seq(Replies(e)) /\ Len(s \o t) = Len(s) + Len(t)
      /\ Len(s) \in Nat /\ Len(t) \in Nat
      /\ \A i \in 1..Len(s) + Len(t) : (s \o t)[i] = IF i <= Len(s) THEN s[i] ELSE t[i - Len(s)]
  BY ConcatProperties, LenProperties
<1> DEFINE a == HalvesOf(s)
           b == HalvesOf(t)
           c == HalvesOf(s \o t)
<1>2. /\ a \in Seq(HalfReplies(e)) /\ Len(a) = 2 * Len(s)
      /\ \A k \in 1..2 * Len(s) : a[k] = [reply |-> s[(k + 1) \div 2], part |-> 2 - (k % 2)]
  BY HalvesAre
<1>3. /\ b \in Seq(HalfReplies(e)) /\ Len(b) = 2 * Len(t)
      /\ \A k \in 1..2 * Len(t) : b[k] = [reply |-> t[(k + 1) \div 2], part |-> 2 - (k % 2)]
  BY HalvesAre
<1>4. /\ c \in Seq(HalfReplies(e)) /\ Len(c) = 2 * (Len(s) + Len(t))
      /\ \A k \in 1..2 * (Len(s) + Len(t)) :
            c[k] = [reply |-> (s \o t)[(k + 1) \div 2], part |-> 2 - (k % 2)]
  BY <1>1, HalvesAre
<1>. HIDE DEF a, b, c
<1>5. /\ a \o b \in Seq(HalfReplies(e)) /\ Len(a \o b) = Len(a) + Len(b)
      /\ \A k \in 1..Len(a) + Len(b) : (a \o b)[k] = IF k <= Len(a) THEN a[k] ELSE b[k - Len(a)]
  BY <1>2, <1>3, ConcatProperties
<1>6. Len(c) = Len(a \o b) /\ Len(c) \in Nat
  BY <1>1, <1>2, <1>3, <1>4, <1>5
<1>7. ASSUME NEW k \in 1..Len(c) PROVE c[k] = (a \o b)[k]
  <2>0. k \in 1..2 * (Len(s) + Len(t)) /\ k \in 1..Len(a) + Len(b) /\ k \in Nat
    BY <1>4, <1>5, <1>6
  <2>1. c[k] = [reply |-> (s \o t)[(k + 1) \div 2], part |-> 2 - (k % 2)]
    BY <1>4, <2>0
  <2>2. CASE k <= 2 * Len(s)
    <3>1. k \in 1..2 * Len(s) /\ (k + 1) \div 2 \in 1..Len(s) + Len(t) /\ (k + 1) \div 2 <= Len(s)
      BY <1>1, <2>0, <2>2
    <3>2. (s \o t)[(k + 1) \div 2] = s[(k + 1) \div 2]
      BY <1>1, <3>1
    <3>3. (a \o b)[k] = a[k]
      BY <1>2, <1>5, <2>0, <2>2
    <3>. QED
      BY <1>2, <2>1, <3>1, <3>2, <3>3
  <2>3. CASE ~(k <= 2 * Len(s))
    <3> DEFINE j == k - 2 * Len(s)
    <3>0. j \in 1..2 * Len(t) /\ j \in Nat /\ k = 2 * Len(s) + j
      BY <1>1, <2>0, <2>3
    <3>a. (k + 1) \div 2 = Len(s) + (j + 1) \div 2 /\ k % 2 = j % 2
      <4>. HIDE DEF j
      <4>. QED
        BY <1>1, <3>0, Pairs
    <3>b. (j + 1) \div 2 \in 1..Len(t)
      <4>. HIDE DEF j
      <4>. QED
        BY <1>1, <3>0, PairOf
    <3>1. /\ j \in 1..2 * Len(t) /\ (k + 1) \div 2 \in 1..Len(s) + Len(t)
          /\ ~((k + 1) \div 2 <= Len(s))
          /\ (k + 1) \div 2 - Len(s) = (j + 1) \div 2 /\ k % 2 = j % 2
      <4>. DEFINE J == (j + 1) \div 2
                  K == (k + 1) \div 2
      <4>1. J \in 1..Len(t) /\ K = Len(s) + J /\ k % 2 = j % 2 /\ j \in 1..2 * Len(t)
        BY <3>0, <3>a, <3>b
      <4>. HIDE DEF J, K, j
      <4>2. K \in 1..Len(s) + Len(t) /\ ~(K <= Len(s)) /\ K - Len(s) = J
        BY <1>1, <4>1
      <4>. QED
        BY <4>1, <4>2 DEF J, K
    <3>2. (s \o t)[(k + 1) \div 2] = t[(k + 1) \div 2 - Len(s)]
      BY <1>1, <3>1
    <3>3. (a \o b)[k] = b[j]
      BY <1>2, <1>5, <2>0, <2>3
    <3>. HIDE DEF j
    <3>4. b[j] = [reply |-> t[(j + 1) \div 2], part |-> 2 - (j % 2)]
      BY <1>3, <3>1
    <3>. QED
      BY <2>1, <3>1, <3>2, <3>3, <3>4
  <2>. QED
    BY <2>2, <2>3
<1>. QED
  BY <1>4, <1>5, <1>6, <1>7, SeqEqual DEF a, b, c

(* The text without its first n replies. *)
LEMMA HalvesAfter ==
    ASSUME NEW e, NEW s \in Seq(Replies(e)), NEW n \in 0..Len(s)
    PROVE  /\ SubSeq(s, n + 1, Len(s)) \in Seq(Replies(e))
           /\ HalvesOf(SubSeq(s, n + 1, Len(s))) = SubSeq(HalvesOf(s), 2 * n + 1, 2 * Len(s))
<1>0. Len(s) \in Nat /\ \A i \in 1..Len(s) : s[i] \in Replies(e)
  BY LenProperties, ElementOfSeq
<1> DEFINE t == SubSeq(s, n + 1, Len(s))
           h == HalvesOf(s)
           a == HalvesOf(t)
           b == SubSeq(h, 2 * n + 1, 2 * Len(s))
<1>1. /\ t \in Seq(Replies(e)) /\ Len(t) = Len(s) - n
      /\ \A i \in 1..Len(s) - n : t[i] = s[n + i]
  <2>1. \A i \in n + 1..Len(s) : s[i] \in Replies(e)
    BY <1>0
  <2>2. n + 1 \in Int /\ Len(s) \in Int
    BY <1>0
  <2>3. /\ t \in Seq(Replies(e)) /\ Len(t) = IF n + 1 <= Len(s) THEN Len(s) - (n + 1) + 1 ELSE 0
        /\ \A i \in 1..Len(s) - (n + 1) + 1 : t[i] = s[n + 1 + i - 1]
    BY <2>1, <2>2, SubSeqProperties
  <2>. HIDE DEF t
  <2>. QED
    BY <1>0, <2>3
<1>2. /\ h \in Seq(HalfReplies(e)) /\ Len(h) = 2 * Len(s)
      /\ \A k \in 1..2 * Len(s) : h[k] = [reply |-> s[(k + 1) \div 2], part |-> 2 - (k % 2)]
  BY HalvesAre
<1>. HIDE DEF t, h
<1>3. /\ a \in Seq(HalfReplies(e)) /\ Len(a) = 2 * (Len(s) - n)
      /\ \A k \in 1..2 * (Len(s) - n) : a[k] = [reply |-> t[(k + 1) \div 2], part |-> 2 - (k % 2)]
  BY <1>1, HalvesAre
<1>4. /\ b \in Seq(HalfReplies(e)) /\ Len(b) = 2 * (Len(s) - n)
      /\ \A k \in 1..2 * (Len(s) - n) : b[k] = h[2 * n + k]
  <2>0. \A k \in 2 * n + 1..2 * Len(s) : k \in 1..Len(h)
    BY <1>0, <1>2
  <2>1. \A k \in 2 * n + 1..2 * Len(s) : h[k] \in HalfReplies(e)
    BY <1>2, <2>0, ElementOfSeq
  <2>2. 2 * n + 1 \in Int /\ 2 * Len(s) \in Int
    BY <1>0
  <2>3. /\ b \in Seq(HalfReplies(e))
        /\ Len(b) = IF 2 * n + 1 <= 2 * Len(s) THEN 2 * Len(s) - (2 * n + 1) + 1 ELSE 0
        /\ \A k \in 1..2 * Len(s) - (2 * n + 1) + 1 : b[k] = h[2 * n + 1 + k - 1]
    BY <2>1, <2>2, SubSeqProperties
  <2>. HIDE DEF b
  <2>. QED
    BY <1>0, <2>3
<1>. HIDE DEF a, b
<1>5. ASSUME NEW k \in 1..Len(a) PROVE a[k] = b[k]
  <2>0. k \in 1..2 * (Len(s) - n) /\ 2 * n + k \in 1..2 * Len(s) /\ Len(s) - n \in Nat /\ k \in Nat
    BY <1>0, <1>3
  <2>1. /\ k \in 1..2 * (Len(s) - n) /\ 2 * n + k \in 1..2 * Len(s)
        /\ (k + 1) \div 2 \in 1..Len(s) - n /\ (2 * n + k + 1) \div 2 = n + (k + 1) \div 2
        /\ (2 * n + k) % 2 = k % 2
    BY <1>0, <2>0, Pairs, PairOf
  <2>2. b[k] = [reply |-> s[(2 * n + k + 1) \div 2], part |-> 2 - ((2 * n + k) % 2)]
    BY <1>2, <1>4, <2>1
  <2>3. a[k] = [reply |-> t[(k + 1) \div 2], part |-> 2 - (k % 2)]
    BY <1>3, <2>1
  <2>4. t[(k + 1) \div 2] = s[n + (k + 1) \div 2]
    BY <1>1, <2>1
  <2>. QED
    BY <2>1, <2>2, <2>3, <2>4
<1>6. a = b
  <2>1. Len(a) = Len(b)
    BY <1>3, <1>4
  <2>. QED
    BY <1>3, <1>4, <1>5, <2>1, SeqEqual
<1>. QED
  BY <1>1, <1>6 DEF a, b, h, t

(* Part of a text, from a place on. *)
LEMMA TailPart ==
    ASSUME NEW S, NEW s \in Seq(S), NEW n \in Nat
    PROVE  /\ SubSeq(s, n + 1, Len(s)) \in Seq(S)
           /\ Len(SubSeq(s, n + 1, Len(s))) = IF n <= Len(s) THEN Len(s) - n ELSE 0
           /\ \A i \in 1..Len(s) - n : SubSeq(s, n + 1, Len(s))[i] = s[n + i]
<1>1. Len(s) \in Nat /\ \A i \in 1..Len(s) : s[i] \in S
  BY LenProperties, ElementOfSeq
<1>2. \A i \in n + 1..Len(s) : s[i] \in S
  BY <1>1
<1>3. n + 1 \in Int /\ Len(s) \in Int
  BY <1>1
<1> DEFINE t == SubSeq(s, n + 1, Len(s))
<1>4. /\ t \in Seq(S) /\ Len(t) = IF n + 1 <= Len(s) THEN Len(s) - (n + 1) + 1 ELSE 0
      /\ \A i \in 1..Len(s) - (n + 1) + 1 : t[i] = s[n + 1 + i - 1]
  BY <1>2, <1>3, SubSeqProperties
<1>. HIDE DEF t
<1>5. Len(t) = IF n <= Len(s) THEN Len(s) - n ELSE 0
  <2>1. Len(t) = IF n + 1 <= Len(s) THEN Len(s) - (n + 1) + 1 ELSE 0
    BY <1>4
  <2>. QED
    BY <1>1, <2>1
<1>6. \A i \in 1..Len(s) - n : t[i] = s[n + i]
  <2>1. \A i \in 1..Len(s) - n : i \in 1..Len(s) - (n + 1) + 1 /\ n + 1 + i - 1 = n + i
    BY <1>1
  <2>. QED
    BY <1>4, <2>1
<1>. QED
  BY <1>4, <1>5, <1>6 DEF t

(* A text in two parts, both of which are kept when the first is cut. *)
LEMMA TailOfJoined ==
    ASSUME NEW S, NEW s \in Seq(S), NEW t \in Seq(S), NEW n \in 0..Len(s)
    PROVE  SubSeq(s, n + 1, Len(s)) \o t = SubSeq(s \o t, n + 1, Len(s \o t))
<1>1. Len(s) \in Nat /\ Len(t) \in Nat /\ n \in Nat
  BY LenProperties
<1> DEFINE u == s \o t
           a == SubSeq(s, n + 1, Len(s))
           b == SubSeq(u, n + 1, Len(u))
           c == a \o t
<1>2. /\ u \in Seq(S) /\ Len(u) = Len(s) + Len(t)
      /\ \A i \in 1..Len(s) + Len(t) : u[i] = IF i <= Len(s) THEN s[i] ELSE t[i - Len(s)]
  BY ConcatProperties
<1>3. a \in Seq(S) /\ Len(a) = Len(s) - n /\ \A i \in 1..Len(s) - n : a[i] = s[n + i]
  <2>1. /\ a \in Seq(S) /\ Len(a) = IF n <= Len(s) THEN Len(s) - n ELSE 0
        /\ \A i \in 1..Len(s) - n : a[i] = s[n + i]
    BY <1>1, TailPart
  <2>. HIDE DEF a
  <2>. QED
    BY <1>1, <2>1
<1>. HIDE DEF u, a
<1>4. /\ b \in Seq(S) /\ Len(b) = Len(s) + Len(t) - n
      /\ \A i \in 1..Len(u) - n : b[i] = u[n + i]
  <2>1. /\ b \in Seq(S) /\ Len(b) = IF n <= Len(u) THEN Len(u) - n ELSE 0
        /\ \A i \in 1..Len(u) - n : b[i] = u[n + i]
    BY <1>1, <1>2, TailPart
  <2>. HIDE DEF b
  <2>. QED
    BY <1>1, <1>2, <2>1
<1>5. /\ c \in Seq(S) /\ Len(c) = Len(a) + Len(t)
      /\ \A i \in 1..Len(a) + Len(t) : c[i] = IF i <= Len(a) THEN a[i] ELSE t[i - Len(a)]
  BY <1>3, ConcatProperties
<1>. HIDE DEF b, c
<1>6. Len(c) = Len(b)
  BY <1>1, <1>3, <1>4, <1>5
<1>7. ASSUME NEW i \in 1..Len(c) PROVE c[i] = b[i]
  <2>1. i \in 1..Len(u) - n /\ i \in 1..Len(a) + Len(t) /\ n + i \in 1..Len(s) + Len(t)
    BY <1>1, <1>2, <1>3, <1>5
  <2>2. b[i] = u[n + i] /\ u[n + i] = IF n + i <= Len(s) THEN s[n + i] ELSE t[n + i - Len(s)]
    BY <1>2, <1>4, <2>1
  <2>3. c[i] = IF i <= Len(a) THEN a[i] ELSE t[i - Len(a)]
    BY <1>5, <2>1
  <2>4. CASE i <= Len(a)
    <3>1. i \in 1..Len(s) - n /\ n + i <= Len(s)
      BY <1>1, <1>3, <2>1, <2>4
    <3>. QED
      BY <1>3, <2>2, <2>3, <2>4, <3>1
  <2>5. CASE ~(i <= Len(a))
    <3>1. ~(n + i <= Len(s)) /\ i - Len(a) = n + i - Len(s)
      BY <1>1, <1>3, <2>1, <2>5
    <3>. QED
      BY <2>2, <2>3, <2>5, <3>1
  <2>. QED
    BY <2>4, <2>5
<1>8. c = b
  BY <1>4, <1>5, <1>6, <1>7, SeqEqual
<1>. QED
  BY <1>8 DEF a, b, c, u

(* consume_reply_buffer, given a text of replies up to some place: it parses, *)
(* at most a half is left over, and what is left of the text is what has not  *)
(* been handled.                                                              *)
LEMMA LinesRead ==
    ASSUME NEW e, NEW w \in Seq(Replies(e)), NEW bytes \in Seq(HalfReplies(e)),
           NEW tail \in Seq(HalfReplies(e)), bytes \o tail = HalvesOf(w)
    PROVE  /\ Parses(bytes)
           /\ Rest(bytes) \in Seq(HalfReplies(e)) /\ Len(Rest(bytes)) <= 1
           /\ Handled(bytes) \subseteq 1..Len(bytes) /\ Cardinality(Handled(bytes)) \in Nat
           /\ FatalEnds(bytes) = {} =>
                 /\ Cardinality(Handled(bytes)) <= Len(w)
                 /\ Rest(bytes) \o tail =
                       HalvesOf(SubSeq(w, Cardinality(Handled(bytes)) + 1, Len(w)))
<1> DEFINE L == Len(bytes)
           m == L \div 2
           h == HalvesOf(w)
<1>1. /\ L \in Nat /\ m \in Nat /\ 2 * m <= L /\ L <= 2 * m + 1 /\ Len(tail) \in Nat
      /\ DOMAIN bytes = 1..L
  <2>1. L \in Nat /\ Len(tail) \in Nat /\ DOMAIN bytes = 1..L
    BY LenProperties
  <2>. HIDE DEF L
  <2>. QED
    BY <2>1
<1>2. /\ h \in Seq(HalfReplies(e)) /\ Len(h) = 2 * Len(w) /\ Len(w) \in Nat
      /\ \A k \in 1..2 * Len(w) : h[k] = [reply |-> w[(k + 1) \div 2], part |-> 2 - (k % 2)]
  BY HalvesAre
<1>3. Len(h) = L + Len(tail) /\ \A k \in 1..L : bytes[k] = h[k]
  <2>1. /\ Len(bytes \o tail) = Len(bytes) + Len(tail)
        /\ \A k \in 1..Len(bytes) + Len(tail) :
              (bytes \o tail)[k] = IF k <= Len(bytes) THEN bytes[k] ELSE tail[k - Len(bytes)]
    BY ConcatProperties
  <2>2. \A k \in 1..Len(bytes) : k \in 1..Len(bytes) + Len(tail) /\ k <= Len(bytes)
    BY <1>1
  <2>. QED
    BY <2>1, <2>2
<1>. HIDE DEF h
<1>4. 2 * m <= 2 * Len(w) /\ m <= Len(w) /\ L <= 2 * Len(w)
  <2>. HIDE DEF L, m
  <2>. QED
    BY <1>1, <1>2, <1>3
<1>. HIDE DEF L, m
<1>5. ASSUME NEW k \in 1..L
      PROVE  bytes[k] = [reply |-> w[(k + 1) \div 2], part |-> 2 - (k % 2)] /\ k \in Nat \ {0}
  <2>1. k \in 1..2 * Len(w) /\ k \in Nat \ {0}
    BY <1>1, <1>2, <1>4
  <2>2. bytes[k] = h[k]
    BY <1>3
  <2>. QED
    BY <1>2, <2>1, <2>2
<1>6. Ends(bytes) = {k \in 1..L : k % 2 = 0}
  <2>1. ASSUME NEW k \in 1..L PROVE bytes[k].part = 2 <=> k % 2 = 0
    <3> DEFINE r == w[(k + 1) \div 2]
               p == 2 - (k % 2)
    <3>1. bytes[k] = [reply |-> r, part |-> p] /\ k \in Nat
      BY <1>5
    <3>. HIDE DEF r, p
    <3>2. bytes[k].part = p
      BY <3>1
    <3>3. p = 2 <=> k % 2 = 0
      BY <3>1 DEF p
    <3>. QED
      BY <3>2, <3>3
  <2>. QED
    BY <1>1, <2>1 DEF Ends
<1>7. /\ IsFiniteSet(Ends(bytes)) /\ Cardinality(Ends(bytes)) = m
      /\ \A k \in Ends(bytes) : k <= 2 * m
      /\ m > 0 => 2 * m \in Ends(bytes)
      /\ m = 0 => Ends(bytes) = {}
  <2>1. \A k \in 1..m : 2 * k \in 1..L /\ (2 * k) % 2 = 0
    BY <1>1
  <2>2. ASSUME NEW k \in 1..L, k % 2 = 0
        PROVE  k \div 2 \in 1..m /\ 2 * (k \div 2) = k /\ k <= 2 * m /\ m # 0
    <3> DEFINE j == k \div 2
    <3>1. j \in Nat \ {0} /\ 2 * j = k
      BY <1>5, <2>2, EvenPlace
    <3>. HIDE DEF j
    <3>2. j \in 1..m /\ k <= 2 * m /\ m # 0
      BY <1>1, <3>1
    <3>. QED
      BY <3>1, <3>2 DEF j
  <2> DEFINE f == [k \in 1..m |-> 2 * k]
  <2>3. f \in [1..m -> Ends(bytes)]
    BY <1>6, <2>1
  <2>4. \A a \in 1..m, b \in 1..m : f[a] = f[b] => a = b
    BY <1>1
  <2>5. \A k \in Ends(bytes) : \E a \in 1..m : f[a] = k
    BY <1>6, <2>2
  <2>6. f \in Bijection(1..m, Ends(bytes))
    <3>. HIDE DEF f
    <3>. QED
      BY <2>3, <2>4, <2>5, Fun_IsBij
  <2>7. ExistsBijection(1..m, Ends(bytes))
    BY <2>6 DEF ExistsBijection
  <2>8. IsFiniteSet(1..m) /\ Cardinality(1..m) = m
    <3>0. 1 \in Int /\ m \in Int
      BY <1>1
    <3>1. IsFiniteSet(1..m) /\ Cardinality(1..m) = IF 1 > m THEN 0 ELSE m - 1 + 1
      BY <3>0, FS_Interval, Zenon
    <3>. QED
      BY <1>1, <3>1
  <2>9. IsFiniteSet(Ends(bytes)) /\ Cardinality(Ends(bytes)) = m
    BY <2>7, <2>8, FS_Bijection
  <2>10. \A k \in Ends(bytes) : k <= 2 * m /\ m # 0
    BY <1>6, <2>2
  <2>11. m > 0 => 2 * m \in Ends(bytes)
    BY <1>1, <1>6, <2>1
  <2>. QED
    BY <2>9, <2>10, <2>11
<1>8. Parses(bytes)
  <2>. SUFFICES ASSUME NEW i \in Ends(bytes)
                PROVE  i > 1 /\ bytes[i - 1] = [reply |-> bytes[i].reply, part |-> 1]
    BY DEF Parses
  <2>1. i \in 1..L /\ i % 2 = 0
    BY <1>6
  <2>2. bytes[i] = [reply |-> w[(i + 1) \div 2], part |-> 2 - (i % 2)] /\ i \in Nat \ {0}
    BY <1>5, <2>1
  <2>3. i > 1 /\ i - 1 \in Nat \ {0} /\ (i - 1) % 2 = 1 /\ (i - 1 + 1) \div 2 = (i + 1) \div 2
    BY <2>1, <2>2, EvenPlace
  <2>4. i - 1 \in 1..L
    BY <1>1, <2>1, <2>3
  <2>5. bytes[i - 1] = [reply |-> w[(i - 1 + 1) \div 2], part |-> 2 - ((i - 1) % 2)]
    BY <1>5, <2>4
  <2>6. bytes[i - 1] = [reply |-> w[(i + 1) \div 2], part |-> 1]
    BY <2>3, <2>5
  <2>7. bytes[i].reply = w[(i + 1) \div 2]
    BY <2>2
  <2>. QED
    BY <2>3, <2>6, <2>7
<1>9. Rest(bytes) = SubSeq(bytes, 2 * m + 1, L)
  <2>1. CASE m = 0
    <3>1. SubSeq(bytes, 1, Len(bytes)) = bytes
      BY SubSeqFull
    <3>2. Rest(bytes) = bytes /\ 2 * m + 1 = 1
      BY <1>7, <2>1 DEF Rest
    <3>. QED
      BY <3>1, <3>2 DEF L
  <2>2. CASE m # 0
    <3>1. 2 * m \in Ends(bytes) /\ \A j \in Ends(bytes) : j <= 2 * m /\ j \in 1..L
      BY <1>1, <1>6, <1>7, <2>2
    <3>2. \A i \in Ends(bytes) : (\A j \in Ends(bytes) : j <= i) => i = 2 * m
      BY <1>1, <3>1
    <3>3. (CHOOSE i \in Ends(bytes) : \A j \in Ends(bytes) : j <= i) = 2 * m
      BY <3>1, <3>2
    <3>4. Rest(bytes) = SubSeq(bytes, 1 + 2 * m, Len(bytes))
      BY <3>1, <3>3 DEF Rest
    <3>5. 1 + 2 * m = 2 * m + 1
      BY <1>1
    <3>. QED
      BY <3>4, <3>5 DEF L
  <2>. QED
    BY <2>1, <2>2
<1>10. Rest(bytes) \in Seq(HalfReplies(e)) /\ Len(Rest(bytes)) <= 1
  <2>1. 2 * m \in Nat
    BY <1>1
  <2> DEFINE k == 2 * m
             rest == SubSeq(bytes, k + 1, Len(bytes))
  <2>2. rest \in Seq(HalfReplies(e)) /\ Len(rest) = IF k <= Len(bytes) THEN Len(bytes) - k ELSE 0
    <3>1. k \in Nat
      BY <2>1
    <3>. HIDE DEF k
    <3>. QED
      BY <3>1, TailPart, Zenon
  <2>3. rest = Rest(bytes)
    BY <1>9 DEF L
  <2>. HIDE DEF rest
  <2>4. Len(rest) <= 1
    BY <1>1, <2>2 DEF L
  <2>. QED
    BY <2>2, <2>3, <2>4
<1>11. /\ Handled(bytes) \subseteq 1..Len(bytes) /\ Cardinality(Handled(bytes)) \in Nat
       /\ FatalEnds(bytes) = {} => Handled(bytes) = Ends(bytes)
  <2>1. Handled(bytes) \subseteq Ends(bytes) /\ Ends(bytes) \subseteq 1..L
    BY <1>6 DEF Handled
  <2>2. IsFiniteSet(Handled(bytes))
    BY <1>7, <2>1, FS_Subset
  <2>3. Cardinality(Handled(bytes)) \in Nat
    BY <2>2, FS_CardinalityType
  <2>4. FatalEnds(bytes) = {} => Handled(bytes) = Ends(bytes)
    BY DEF Handled
  <2>. QED
    BY <2>1, <2>3, <2>4 DEF L
<1>12. ASSUME FatalEnds(bytes) = {}
       PROVE  /\ Cardinality(Handled(bytes)) = m
              /\ Rest(bytes) \o tail = HalvesOf(SubSeq(w, m + 1, Len(w)))
  <2>1. Cardinality(Handled(bytes)) = m
    BY <1>7, <1>11, <1>12
  <2>2. 2 * m \in 0..Len(bytes) /\ m \in 0..Len(w)
    BY <1>1, <1>2, <1>4 DEF L
  <2> DEFINE k == 2 * m
  <2>3. SubSeq(bytes, k + 1, Len(bytes)) \o tail = SubSeq(bytes \o tail, k + 1, Len(bytes \o tail))
    <3>1. k \in 0..Len(bytes)
      BY <2>2
    <3>. HIDE DEF k
    <3>. QED
      BY <3>1, TailOfJoined
  <2>4. HalvesOf(SubSeq(w, m + 1, Len(w))) = SubSeq(HalvesOf(w), 2 * m + 1, 2 * Len(w))
    BY <2>2, HalvesAfter
  <2>. QED
    BY <1>2, <1>9, <2>1, <2>3, <2>4 DEF L, h
<1>. QED
  BY <1>4, <1>8, <1>10, <1>11, <1>12

----------------------------------------------------------------------------
(* The invariant *)

(* What mtr has read, what is in the pipe and what is not yet written. *)
Way(b, r, o) == b \o (r \o o)

Cmd == [n : Nat, kind : {"check", "probe"}]

(* What an engine can have to write for the probes it ever had outstanding at *)
(* once and one buffer of commands; and what it does owe.                     *)
Bound(e) == 2 * (most[e] + CommandRoom)

Owing(e) == Len(stdout[e]) + 2 * (Len(incoming[e]) + Cardinality(outstanding[e]))

OfEngines ==
    /\ alive = [e \in Engines |-> alive[e]]
    /\ commands = [e \in Engines |-> commands[e]]
    /\ incoming = [e \in Engines |-> incoming[e]]
    /\ stage = [e \in Engines |-> stage[e]] /\ most = [e \in Engines |-> most[e]]
    /\ outstanding = [e \in Engines |-> outstanding[e]]
    /\ stdout = [e \in Engines |-> stdout[e]]
    /\ replies = [e \in Engines |-> replies[e]]
    /\ asked = [e \in Engines |-> asked[e]]
    /\ owed = [e \in Engines |-> owed[e]]

(* One engine's pipes, and the bound on what it owes, which is less before    *)
(* it has read commands.                                                      *)
Wire(e) ==
    /\ asked[e] \in Nat
    /\ commands[e] \in Seq(Cmd) /\ Len(commands[e]) <= CommandPipe
    /\ incoming[e] \in Seq(Cmd)
    /\ outstanding[e] \subseteq Nat /\ IsFiniteSet(outstanding[e])
    /\ most[e] \in Nat /\ Cardinality(outstanding[e]) <= most[e]
    /\ stdout[e] \in Seq(HalfReplies(e)) /\ replies[e] \in Seq(HalfReplies(e))
    /\ owed[e] \in Seq(Replies(e))
    /\ Owing(e) <= Bound(e)
    /\ stage[e] = "receive" => incoming[e] = <<>> /\ Owing(e) <= 2 * most[e]

(* Nothing is on its way, ... *)
Quiet(e) ==
    /\ commands[e] = <<>> /\ incoming[e] = <<>> /\ outstanding[e] = {}
    /\ stdout[e] = <<>> /\ replies[e] = <<>> /\ owed[e] = <<>>

(* ... or one question or its answer is, in one of four places. *)
Asking(e) ==
    /\ outstanding[e] = {}
    /\ \/ /\ \E c \in Cmd : c.kind = "check" /\ commands[e] = <<c>>
          /\ incoming[e] = <<>> /\ stdout[e] = <<>> /\ replies[e] = <<>> /\ owed[e] = <<>>
       \/ /\ \E c \in Cmd : c.kind = "check" /\ incoming[e] = <<c>>
          /\ commands[e] = <<>> /\ stdout[e] = <<>> /\ replies[e] = <<>> /\ owed[e] = <<>>
       \/ /\ \E r \in Replies(e) : stdout[e] = Halves(r) /\ owed[e] = <<r>>
          /\ commands[e] = <<>> /\ incoming[e] = <<>> /\ replies[e] = <<>>
       \/ /\ \E r \in Replies(e) : replies[e] = Halves(r) /\ owed[e] = <<r>>
          /\ commands[e] = <<>> /\ incoming[e] = <<>> /\ stdout[e] = <<>>

(* What mtr has and what is on its way, with less than a reply left over. *)
Whole(buffer, e) == Way(buffer, replies[e], stdout[e]) = HalvesOf(owed[e])
Text(e) ==
    /\ reply_buffer \in Seq(HalfReplies(e)) /\ Len(reply_buffer) <= 1
    /\ Whole(reply_buffer, e)

(* A command can be written, or all that is owed fits into the pipe. *)
Room(e) ==
    Len(commands[e]) < CommandPipe \/ Len(replies[e]) + Owing(e) <= Bound(e)

Places ==
    /\ target \in 0..MaxTargets
    /\ pc \notin {"open", "exited"} => target \in Engines
Ahead == \A e \in Engines : e > target => alive[e] = "none" /\ Quiet(e)
Starting ==
    /\ pc = "check" => Quiet(target) /\ reply_buffer = <<>>
    /\ pc = "await" => Asking(target) /\ reply_buffer = <<>>
Passing ==
    /\ pc \in {"loop", "send", "select"} => Text(target)
    /\ (pc = "loop" /\ ~anyset) \/ pc = "send" => Room(target)
Outcome == why # "parse" /\ ~strayed

PipeInv ==
    /\ OfEngines /\ \A e \in Engines : Wire(e)
    /\ Places /\ Ahead /\ Starting /\ Passing /\ Outcome

----------------------------------------------------------------------------
(* One pass of an mtr-packet's loop *)

Same(x) ==
    /\ alive'[x] = alive[x] /\ commands'[x] = commands[x] /\ incoming'[x] = incoming[x]
    /\ stage'[x] = stage[x] /\ most'[x] = most[x]
    /\ outstanding'[x] = outstanding[x] /\ stdout'[x] = stdout[x]
    /\ replies'[x] = replies[x] /\ asked'[x] = asked[x] /\ owed'[x] = owed[x]

(* What a step of the engine e leaves true, whatever mtr is doing. *)
Kept(e) ==
    /\ OfEngines' /\ Wire(e)' /\ \A x \in Engines \ {e} : Same(x)
    /\ Quiet(e) => Quiet(e)'
    /\ Asking(e) => Asking(e)'
    /\ Room(e) => Room(e)'
    /\ \A b \in Seq(HalfReplies(e)) :
          Way(b, replies[e], stdout[e]) = HalvesOf(owed[e])
          => Way(b, replies'[e], stdout'[e]) = HalvesOf(owed'[e])

(* The text of no reply, and of one. *)
LEMMA HalvesOfFew ==
    ASSUME NEW e
    PROVE  /\ HalvesOf(<<>>) = <<>>
           /\ \A r \in Replies(e) :
                 /\ Halves(r) \in Seq(HalfReplies(e)) /\ Len(Halves(r)) = 2
                 /\ Halves(r) # <<>> /\ Halves(r)[1].reply = r
                 /\ DOMAIN Halves(r) = 1..2 /\ Halves(r)[2].reply = r
<1>1. HalvesOf(<<>>) = <<>>
  <2>1. <<>> \in Seq(Replies(e)) /\ Len(<<>>) = 0
    BY EmptySeq
  <2>2. HalvesOf(<<>>) \in Seq(HalfReplies(e)) /\ Len(HalvesOf(<<>>)) = 2 * Len(<<>>)
    BY <2>1, HalvesAre, Zenon
  <2>3. Len(HalvesOf(<<>>)) = 0
    BY <2>1, <2>2
  <2>. QED
    BY <2>2, <2>3, EmptySeq
<1>2. ASSUME NEW r \in Replies(e)
      PROVE  /\ Halves(r) \in Seq(HalfReplies(e)) /\ Len(Halves(r)) = 2
             /\ Halves(r) # <<>> /\ Halves(r)[1].reply = r
             /\ DOMAIN Halves(r) = 1..2 /\ Halves(r)[2].reply = r
  <2> DEFINE s == <<r>>
             h == HalvesOf(s)
  <2>1. s \in Seq(Replies(e)) /\ Len(s) = 1 /\ s[1] = r
    OBVIOUS
  <2>. HIDE DEF s
  <2>2. /\ h \in Seq(HalfReplies(e)) /\ Len(h) = 2
        /\ \A k \in 1..2 : h[k] = [reply |-> s[(k + 1) \div 2], part |-> 2 - (k % 2)]
    <3>1. /\ h \in Seq(HalfReplies(e)) /\ Len(h) = 2 * Len(s)
          /\ \A k \in 1..2 * Len(s) : h[k] = [reply |-> s[(k + 1) \div 2], part |-> 2 - (k % 2)]
      BY <2>1, HalvesAre, Zenon
    <3>2. 2 * Len(s) = 2
      BY <2>1
    <3>. QED
      BY <3>1, <3>2, Zenon
  <2>3. h = Halves(r)
    BY DEF Halves, s
  <2>. HIDE DEF h
  <2>4. h[1] = [reply |-> s[(1 + 1) \div 2], part |-> 2 - (1 % 2)]
    BY <2>2
  <2>5. h[1].reply = s[(1 + 1) \div 2] /\ (1 + 1) \div 2 = 1
    BY <2>4
  <2>6. h[2] = [reply |-> s[(2 + 1) \div 2], part |-> 2 - (2 % 2)]
    BY <2>2
  <2>7. h[2].reply = s[(2 + 1) \div 2] /\ (2 + 1) \div 2 = 1
    BY <2>6
  <2>8. h # <<>> /\ DOMAIN h = 1..2
    <3>1. DOMAIN h = 1..Len(h) /\ Len(h) = 2
      BY <2>2, LenProperties
    <3>2. Len(<<>>) = 0
      BY EmptySeq
    <3>. QED
      BY <3>1, <3>2
  <2>. QED
    BY <2>1, <2>2, <2>3, <2>5, <2>7, <2>8
<1>. QED
  BY <1>1, <1>2

(* Printing more: the text on its way grows by what the debt grows by. *)
LEMMA PrintedMore ==
    ASSUME NEW e, NEW w \in Seq(Replies(e)), NEW x \in Seq(Replies(e)),
           NEW b \in Seq(HalfReplies(e)), NEW r \in Seq(HalfReplies(e)),
           NEW o \in Seq(HalfReplies(e)), Way(b, r, o) = HalvesOf(w)
    PROVE  Way(b, r, o \o HalvesOf(x)) = HalvesOf(w \o x)
<1> DEFINE H == HalfReplies(e)
           h == HalvesOf(x)
<1>1. h \in Seq(H) /\ b \in Seq(H) /\ r \in Seq(H) /\ o \in Seq(H)
  BY HalvesAre
<1>2. HalvesOf(w \o x) = Way(b, r, o) \o h
  BY HalvesJoined
<1> DEFINE ro == r \o o
<1>3. ro \in Seq(H)
  BY <1>1, ConcatProperties
<1>. HIDE DEF H, h
<1>4. ro \o h = r \o (o \o h)
  BY <1>1, SMTT(30)
<1>5. Way(b, r, o) = b \o ro
  BY DEF Way
<1>. HIDE DEF ro
<1>6. (b \o ro) \o h = b \o (ro \o h)
  BY <1>1, <1>3, SMTT(30)
<1>. QED
  BY <1>2, <1>4, <1>5, <1>6 DEF h, Way

(* A flush moves the cut between the pipe and what is not yet written. *)
LEMMA WrittenMore ==
    ASSUME NEW e, NEW r \in Seq(HalfReplies(e)), NEW o \in Seq(HalfReplies(e)),
           NEW n \in 1..Len(o)
    PROVE  /\ r \o SubSeq(o, 1, n) \in Seq(HalfReplies(e))
           /\ Len(r \o SubSeq(o, 1, n)) = Len(r) + n
           /\ SubSeq(o, n + 1, Len(o)) \in Seq(HalfReplies(e))
           /\ Len(SubSeq(o, n + 1, Len(o))) = Len(o) - n
           /\ \A b : Way(b, r \o SubSeq(o, 1, n), SubSeq(o, n + 1, Len(o))) = Way(b, r, o)
<1> DEFINE H == HalfReplies(e)
           front == SubSeq(o, 1, n)
           back == SubSeq(o, n + 1, Len(o))
<1>0. Len(o) \in Nat /\ n \in Nat
  BY LenProperties
<1>1. front \in Seq(H) /\ Len(front) = n
  <2>1. \A i \in 1..n : i \in 1..Len(o)
    BY <1>0
  <2>2. \A i \in 1..n : o[i] \in H
    BY <2>1, ElementOfSeq
  <2>3. 1 \in Int /\ n \in Int
    BY <1>0
  <2>4. front \in Seq(H) /\ Len(front) = IF 1 <= n THEN n - 1 + 1 ELSE 0
    BY <2>2, <2>3, SubSeqProperties
  <2>. HIDE DEF front
  <2>. QED
    BY <1>0, <2>4
<1>2. back \in Seq(H) /\ Len(back) = Len(o) - n
  <2>1. back \in Seq(H) /\ Len(back) = IF n <= Len(o) THEN Len(o) - n ELSE 0
    BY <1>0, TailPart
  <2>. HIDE DEF back
  <2>. QED
    BY <1>0, <2>1
<1>3. front \o back = o
  <2>1. 1 \in 1..Len(o) + 1 /\ n \in 1 - 1..Len(o) /\ Len(o) \in n..Len(o)
    BY <1>0
  <2>2. front \o back = SubSeq(o, 1, Len(o))
    BY <2>1, ConcatAdjacentSubSeq
  <2>3. SubSeq(o, 1, Len(o)) = o
    BY SubSeqFull
  <2>. QED
    BY <2>2, <2>3
<1>. HIDE DEF front, back
<1>4. r \o front \in Seq(H) /\ Len(r \o front) = Len(r) + n
  BY <1>1, ConcatProperties
<1>5. (r \o front) \o back = r \o (front \o back)
  <2>1. front \in Seq(H) /\ back \in Seq(H) /\ r \in Seq(H)
    BY <1>1, <1>2
  <2>. HIDE DEF H
  <2>. QED
    BY <2>1
<1>. QED
  BY <1>1, <1>2, <1>3, <1>4, <1>5 DEF front, back, Way

(* One line is printed. *)
LEMMA Printed ==
    ASSUME NEW e \in Engines, OfEngines, Wire(e), NEW r \in Replies(e), PutLine(e, r)
    PROVE  /\ stdout' = [stdout EXCEPT ![e] = stdout'[e]] /\ owed' = [owed EXCEPT ![e] = owed'[e]]
           /\ stdout'[e] \in Seq(HalfReplies(e)) /\ Len(stdout'[e]) = Len(stdout[e]) + 2
           /\ owed'[e] \in Seq(Replies(e))
           /\ stdout[e] = <<>> => stdout'[e] = Halves(r)
           /\ owed[e] = <<>> => owed'[e] = <<r>>
           /\ \A b \in Seq(HalfReplies(e)) :
                 Way(b, replies[e], stdout[e]) = HalvesOf(owed[e])
                 => Way(b, replies[e], stdout'[e]) = HalvesOf(owed'[e])
<1> DEFINE text == HalvesOf(<<r>>)
           D == stdout[e]
           W == owed[e]
           R == replies[e]
           out == D \o text
           ow == W \o <<r>>
<1>1. D \in Seq(HalfReplies(e)) /\ W \in Seq(Replies(e)) /\ R \in Seq(HalfReplies(e))
  BY DEF Wire
<1>2. /\ <<r>> \in Seq(Replies(e)) /\ Halves(r) = text
      /\ text \in Seq(HalfReplies(e)) /\ Len(text) = 2
  BY HalvesOfFew DEF Halves
<1>3. out \in Seq(HalfReplies(e)) /\ Len(out) = Len(D) + 2 /\ ow \in Seq(Replies(e))
  <2>. HIDE DEF text, D, W
  <2>1. out \in Seq(HalfReplies(e)) /\ Len(out) = Len(D) + Len(text)
    BY <1>1, <1>2, ConcatProperties, ZenonT(40)
  <2>2. ow \in Seq(Replies(e))
    BY <1>1, <1>2, ConcatProperties
  <2>. HIDE DEF out, ow
  <2>. QED
    BY <1>2, <2>1, <2>2
<1>4. stdout' = [stdout EXCEPT ![e] = out] /\ owed' = [owed EXCEPT ![e] = ow]
  <2>1. Append(W, r) = ow
    BY <1>1, AppendIsConcat
  <2>. QED
    BY <1>2, <2>1 DEF PutLine
<1>5. /\ D = <<>> => out = Halves(r)
      /\ W = <<>> => ow = <<r>>
  <2>1. <<>> \o text = text /\ <<>> \o <<r>> = <<r>>
    <3>. HIDE DEF text
    <3>. QED
      BY <1>2, ConcatEmptySeq
  <2>. QED
    BY <1>2, <2>1
<1>6. ASSUME NEW b \in Seq(HalfReplies(e)), Way(b, R, D) = HalvesOf(W)
      PROVE  Way(b, R, out) = HalvesOf(ow)
  <2> DEFINE x == <<r>>
  <2>1. x \in Seq(Replies(e)) /\ out = D \o HalvesOf(x) /\ ow = W \o x
    BY <1>2
  <2>. HIDE DEF R, D, W, x, out, ow, text
  <2>2. Way(b, R, D \o HalvesOf(x)) = HalvesOf(W \o x)
    BY <1>1, <1>6, <2>1, PrintedMore, SMTT(30)
  <2>. QED
    BY <2>1, <2>2
<1>. HIDE DEF out, ow
<1>7. stdout'[e] = out /\ owed'[e] = ow
  BY <1>4 DEF OfEngines
<1>. QED
  BY <1>3, <1>4, <1>5, <1>6, <1>7

(* The sum in Owing, and what it is of. *)
LEMMA OwingIs ==
    ASSUME NEW e \in Engines, Wire(e)
    PROVE  /\ Len(stdout[e]) \in Nat /\ Len(incoming[e]) \in Nat
           /\ Cardinality(outstanding[e]) \in Nat /\ Len(replies[e]) \in Nat
           /\ Owing(e) = Len(stdout[e]) + 2 * (Len(incoming[e]) + Cardinality(outstanding[e]))
           /\ Owing(e) \in Nat
<1>1. /\ Len(stdout[e]) \in Nat /\ Len(incoming[e]) \in Nat
      /\ Cardinality(outstanding[e]) \in Nat /\ Len(replies[e]) \in Nat
  BY LenProperties, FS_CardinalityType DEF Wire
<1> DEFINE d == Len(stdout[e])
           i == Len(incoming[e])
           o == Cardinality(outstanding[e])
<1>2. Owing(e) = d + 2 * (i + o) /\ d \in Nat /\ i \in Nat /\ o \in Nat
  BY <1>1 DEF Owing
<1>. HIDE DEF d, i, o
<1>3. Owing(e) \in Nat
  BY <1>2
<1>. QED
  BY <1>1, <1>2, <1>3 DEF d, i, o

(* A result is printed: a line for a probe. *)
LEMMA ResultKeeps ==
    ASSUME PipeAssumption, NEW e \in Engines, OfEngines, Wire(e),
           Result(e), UNCHANGED <<replies, asked>>
    PROVE  Kept(e)
<1>1. PICK n \in outstanding[e] :
         /\ outstanding' = [outstanding EXCEPT ![e] = outstanding[e] \ {n}]
         /\ PutLine(e, [of |-> e, n |-> n, what |-> "line"])
  BY DEF Result
<1>2. UNCHANGED <<alive, commands, incoming, stage, most, replies, asked>>
  BY DEF Result
<1> DEFINE r == [of |-> e, n |-> n, what |-> "line"]
           O == Cardinality(outstanding[e])
           P == Cardinality(outstanding[e] \ {n})
<1>3. r \in Replies(e) /\ PutLine(e, r)
  BY <1>1 DEF Wire, Replies
<1>. HIDE DEF r
<1>4. /\ stdout' = [stdout EXCEPT ![e] = stdout'[e]] /\ owed' = [owed EXCEPT ![e] = owed'[e]]
      /\ stdout'[e] \in Seq(HalfReplies(e)) /\ Len(stdout'[e]) = Len(stdout[e]) + 2
      /\ owed'[e] \in Seq(Replies(e))
      /\ \A b \in Seq(HalfReplies(e)) :
            Way(b, replies[e], stdout[e]) = HalvesOf(owed[e])
            => Way(b, replies[e], stdout'[e]) = HalvesOf(owed'[e])
  BY <1>3, Printed
<1>5. /\ IsFiniteSet(outstanding[e] \ {n}) /\ P = O - 1 /\ O \in Nat /\ P \in Nat
      /\ outstanding'[e] = outstanding[e] \ {n} /\ outstanding[e] # {}
  <2>1. IsFiniteSet(outstanding[e] \ {n}) /\ P = O - 1
    BY <1>1, FS_RemoveElement DEF Wire
  <2>2. O \in Nat /\ P \in Nat
    BY <2>1, FS_CardinalityType DEF Wire
  <2>. QED
    BY <1>1, <2>1, <2>2 DEF OfEngines
<1>6. Owing(e)' = Owing(e)
  <2> DEFINE d == Len(stdout[e])
             f == Len(stdout'[e])
             i == Len(incoming[e])
  <2>1. d \in Nat /\ i \in Nat /\ f = d + 2 /\ Owing(e) = d + 2 * (i + O)
    BY <1>4, OwingIs
  <2>2. Owing(e)' = f + 2 * (i + P)
    BY <1>2, <1>5 DEF Owing
  <2>. HIDE DEF d, f, i, O, P
  <2>3. f + 2 * (i + P) = d + 2 * (i + O)
    BY <1>5, <2>1
  <2>. QED
    BY <2>1, <2>2, <2>3
<1>7. OfEngines' /\ \A x \in Engines \ {e} : Same(x)
  BY <1>1, <1>2, <1>4 DEF OfEngines, Same
<1>8. Wire(e)'
  <2>1. Cardinality(outstanding'[e]) <= most[e]
    <3>1. O <= most[e] /\ most[e] \in Nat
      BY DEF Wire
    <3>. HIDE DEF O, P
    <3>2. P <= most[e]
      BY <1>5, <3>1
    <3>. QED
      BY <1>5, <3>2 DEF P
  <2>. QED
    BY <1>2, <1>4, <1>5, <1>6, <2>1 DEF Wire, Bound
<1>9. (Room(e) => Room(e)') /\ ~Quiet(e) /\ ~Asking(e)
  BY <1>2, <1>5, <1>6 DEF Room, Bound, Quiet, Asking
<1>. QED
  BY <1>2, <1>4, <1>7, <1>8, <1>9 DEF Kept

(* Commands are read, as many as there is room for. *)
LEMMA ReadKeeps ==
    ASSUME PipeAssumption, NEW e \in Engines, OfEngines, Wire(e),
           ReadCommands(e), UNCHANGED <<replies, asked>>
    PROVE  Kept(e)
<1> DEFINE n == CommandsTaken(e)
           read == SubSeq(commands[e], 1, n)
           left == SubSeq(commands[e], n + 1, Len(commands[e]))
<1>0. CommandRoom \in Nat \ {0} /\ CommandPipe \in Nat \ {0}
  BY DEF PipeAssumption
<1>1. /\ incoming' = [incoming EXCEPT ![e] = read]
      /\ commands' = [commands EXCEPT ![e] = left]
      /\ stage' = [stage EXCEPT ![e] = "expire"]
      /\ UNCHANGED <<alive, outstanding, stdout, owed, most, replies, asked>>
      /\ stage[e] = "receive" /\ (commands[e] # <<>> \/ stdout[e] # <<>>)
  BY DEF ReadCommands
<1>2. /\ commands[e] \in Seq(Cmd) /\ Len(commands[e]) <= CommandPipe
      /\ incoming[e] = <<>> /\ Owing(e) <= 2 * most[e] /\ most[e] \in Nat
  BY <1>1 DEF Wire
<1>3. n \in 0..Len(commands[e]) /\ n <= CommandRoom /\ (n = 0 => Len(commands[e]) = 0)
      /\ Len(commands[e]) \in Nat /\ (Len(commands[e]) = 1 => n = 1)
  <2>1. Len(commands[e]) \in Nat
    BY <1>2, LenProperties
  <2> DEFINE l == Len(commands[e])
  <2>2. n = IF l < CommandRoom THEN l ELSE CommandRoom
    BY DEF CommandsTaken
  <2>3. l \in Nat
    BY <2>1
  <2>. HIDE DEF l, n
  <2>4. n \in 0..l /\ n <= CommandRoom /\ (n = 0 => l = 0) /\ (l = 1 => n = 1)
    BY <1>0, <2>2, <2>3
  <2>. QED
    BY <2>1, <2>4 DEF l
<1>. HIDE DEF n
<1>4. read \in Seq(Cmd) /\ Len(read) = n
  <2>1. \A i \in 1..n : i \in 1..Len(commands[e])
    BY <1>3
  <2>2. \A i \in 1..n : commands[e][i] \in Cmd
    BY <1>2, <2>1, ElementOfSeq
  <2>3. 1 \in Int /\ n \in Int
    BY <1>3
  <2>4. read \in Seq(Cmd) /\ Len(read) = IF 1 <= n THEN n - 1 + 1 ELSE 0
    BY <2>2, <2>3, SubSeqProperties
  <2>. HIDE DEF read
  <2>. QED
    BY <1>3, <2>4
<1>5. left \in Seq(Cmd) /\ Len(left) = Len(commands[e]) - n
  <2>1. n \in Nat
    BY <1>3
  <2>2. left \in Seq(Cmd) /\ Len(left) = IF n <= Len(commands[e]) THEN Len(commands[e]) - n ELSE 0
    BY <1>2, <2>1, TailPart
  <2>. HIDE DEF left
  <2>. QED
    BY <1>3, <2>2
<1>. HIDE DEF read, left
<1>6. /\ incoming'[e] = read /\ commands'[e] = left /\ stage'[e] = "expire"
      /\ OfEngines' /\ \A x \in Engines \ {e} : Same(x)
  BY <1>1 DEF OfEngines, Same
<1>7. Len(left) < CommandPipe
  BY <1>0, <1>2, <1>3, <1>5, SMTT(30)
<1>8. Owing(e)' <= Bound(e)
  <2> DEFINE d == Len(stdout[e])
             o == Cardinality(outstanding[e])
             k == Len(read)
             p == most[e]
  <2>1. d \in Nat /\ o \in Nat /\ d + 2 * (0 + o) <= 2 * p /\ p \in Nat
    <3>1. Len(incoming[e]) = 0
      BY <1>2, EmptySeq
    <3>. QED
      BY <1>2, <3>1, OwingIs
  <2>2. Owing(e)' = d + 2 * (k + o)
    BY <1>1, <1>6 DEF Owing
  <2>3. Bound(e) = 2 * (p + CommandRoom) /\ k \in Nat /\ k <= CommandRoom
    BY <1>3, <1>4 DEF Bound
  <2>. HIDE DEF d, o, k, p
  <2>4. d + 2 * (k + o) <= 2 * (p + CommandRoom)
    BY <1>0, <2>1, <2>3
  <2>. QED
    BY <2>2, <2>3, <2>4
<1>9. Wire(e)'
  <2>1. Len(left) <= CommandPipe
    BY <1>0, <1>5, <1>7, LenProperties, SMTT(30)
  <2>. QED
    BY <1>1, <1>2, <1>4, <1>5, <1>6, <1>8, <2>1 DEF Wire, Bound
<1>10. Room(e)'
  BY <1>6, <1>7 DEF Room
<1>11. ~Quiet(e)
  BY <1>1 DEF Quiet
<1>12. Asking(e) => Asking(e)'
  <2>. SUFFICES ASSUME Asking(e) PROVE Asking(e)'
    OBVIOUS
  <2>1. \A c \in Cmd : incoming[e] # <<c>>
    BY <1>2
  <2>2. CASE (\E c \in Cmd : c.kind = "check" /\ commands[e] = <<c>>)
             /\ stdout[e] = <<>> /\ replies[e] = <<>> /\ owed[e] = <<>>
    <3>1. PICK c \in Cmd : c.kind = "check" /\ commands[e] = <<c>>
      BY <2>2
    <3>2. n = 1 /\ Len(commands[e]) = 1
      BY <1>3, <3>1
    <3>3. read = <<c>>
      <4>1. read = SubSeq(commands[e], 1, Len(commands[e]))
        BY <3>2 DEF read
      <4>2. SubSeq(commands[e], 1, Len(commands[e])) = commands[e]
        BY <1>2, SubSeqFull
      <4>. QED
        BY <3>1, <4>1, <4>2
    <3>4. Len(left) = 0
      BY <1>5, <3>2
    <3>5. left = <<>>
      BY <1>5, <3>4, EmptySeq
    <3>. QED
      BY <1>1, <1>6, <2>2, <3>1, <3>3, <3>5 DEF Asking
  <2>3. ASSUME commands[e] = <<>> PROVE read = <<>> /\ left = <<>>
    <3>1. Len(commands[e]) = 0
      BY <2>3, EmptySeq
    <3>a. n = 0
      BY <1>3, <3>1
    <3>2. Len(read) = 0 /\ Len(left) = 0
      BY <1>4, <1>5, <3>1, <3>a
    <3>. QED
      BY <1>4, <1>5, <3>2, EmptySeq
  <2>4. CASE commands[e] = <<>> /\ replies[e] = <<>>
             /\ \E r \in Replies(e) : stdout[e] = Halves(r) /\ owed[e] = <<r>>
    BY <1>1, <1>6, <2>3, <2>4 DEF Asking
  <2>5. CASE commands[e] = <<>> /\ stdout[e] = <<>>
    BY <1>1, <2>5
  <2>. QED
    BY <2>1, <2>2, <2>4, <2>5 DEF Asking
<1>. QED
  BY <1>1, <1>6, <1>9, <1>10, <1>11, <1>12 DEF Kept

(* A command less is owed, and a probe or a reply more. *)
LEMMA OwedInstead ==
    ASSUME NEW s \in Nat, NEW i \in Nat, NEW j \in Nat, NEW o \in Nat, NEW p \in Nat,
           j = i - 1, p <= o + 1
    PROVE  /\ s + 2 * (i + o) \in Nat /\ s + 2 * (j + p) \in Nat
           /\ s + 2 * (j + p) <= s + 2 * (i + o)
           /\ (s + 2) + 2 * (j + o) = s + 2 * (i + o)
OBVIOUS

(* One command is answered, or becomes a probe. *)
LEMMA DispatchKeeps ==
    ASSUME PipeAssumption, NEW e \in Engines, OfEngines, Wire(e),
           Dispatch(e), UNCHANGED <<replies, asked>>
    PROVE  Kept(e)
<1> DEFINE c == Head(incoming[e])
           rest == Tail(incoming[e])
           O == Cardinality(outstanding[e])
           P == Cardinality(outstanding[e] \cup {c.n})
           more == IF P > most[e] THEN P ELSE most[e]
           next == IF incoming'[e] = <<>> /\ stdout'[e] = <<>> THEN "receive" ELSE "dispatch"
<1>1. /\ incoming[e] # <<>> /\ incoming' = [incoming EXCEPT ![e] = rest]
      /\ stage' = [stage EXCEPT ![e] = next]
      /\ alive' = alive /\ commands' = commands /\ replies' = replies /\ asked' = asked
      /\ \/ /\ c.kind = "probe"
            /\ outstanding' = [outstanding EXCEPT ![e] = outstanding[e] \cup {c.n}]
            /\ most' = [most EXCEPT ![e] = more]
            /\ stdout' = stdout /\ owed' = owed
         \/ \E what \in {"ok", "no", "line", "fatal"} :
               /\ PutLine(e, [of |-> e, n |-> c.n, what |-> what])
               /\ outstanding' = outstanding /\ most' = most
  <2>1. ASSUME outstanding' = [outstanding EXCEPT ![e] = outstanding[e] \cup {c.n}]
        PROVE  outstanding'[e] = outstanding[e] \cup {c.n}
    BY <2>1 DEF OfEngines
  <2>. QED
    BY <2>1 DEF Dispatch
<1>2. /\ outstanding[e] \subseteq Nat /\ IsFiniteSet(outstanding[e]) /\ O <= most[e]
      /\ incoming[e] \in Seq(Cmd) /\ most[e] \in Nat
      /\ Owing(e) <= Bound(e) /\ CommandRoom \in Nat /\ Bound(e) \in Nat
  <2>1. most[e] \in Nat /\ CommandRoom \in Nat
    BY DEF Wire, PipeAssumption
  <2>2. Bound(e) \in Nat
    BY <2>1 DEF Bound
  <2>. QED
    BY <2>1, <2>2 DEF Wire
<1>3. /\ c \in Cmd /\ rest \in Seq(Cmd) /\ Len(rest) = Len(incoming[e]) - 1
      /\ Len(incoming[e]) \in Nat /\ Len(stdout[e]) \in Nat /\ Len(rest) \in Nat
      /\ Len(replies[e]) \in Nat /\ O \in Nat
  <2>1. c \in Cmd /\ rest \in Seq(Cmd) /\ Len(rest) = Len(incoming[e]) - 1
    BY <1>1, <1>2, HeadTailProperties
  <2>. QED
    BY <2>1, OwingIs, LenProperties
<1>4. IsFiniteSet(outstanding[e] \cup {c.n}) /\ P \in Nat /\ P <= O + 1 /\ c.n \in Nat
  <2>1. P = IF c.n \in outstanding[e] THEN O ELSE O + 1
    BY <1>2, FS_AddElement
  <2>2. IsFiniteSet(outstanding[e] \cup {c.n})
    BY <1>2, FS_AddElement
  <2>3. c.n \in Nat
    BY <1>3 DEF Cmd
  <2>. HIDE DEF O, P, c
  <2>. QED
    BY <1>3, <2>1, <2>2, <2>3
<1>5. more \in Nat /\ P <= more /\ most[e] <= more
  <2> DEFINE p == most[e]
  <2>1. p \in Nat /\ more = IF P > p THEN P ELSE p
    BY <1>2
  <2>. HIDE DEF p, P, more
  <2>2. more \in Nat /\ P <= more /\ p <= more
    BY <1>4, <2>1
  <2>. QED
    BY <2>2 DEF p
<1>. HIDE DEF c, rest, O, P, more
<1>6. incoming'[e] = rest /\ stage'[e] = next /\ ~Quiet(e)
  BY <1>1 DEF OfEngines, Quiet
<1>7. ASSUME IsFiniteSet(outstanding'[e]), Cardinality(outstanding'[e]) <= most'[e], most'[e] \in Nat
      PROVE  stage'[e] = "receive" => incoming'[e] = <<>> /\ Owing(e)' <= 2 * most'[e]
  <2>. SUFFICES ASSUME stage'[e] = "receive"
                PROVE  incoming'[e] = <<>> /\ Owing(e)' <= 2 * most'[e]
    OBVIOUS
  <2>1. incoming'[e] = <<>> /\ stdout'[e] = <<>>
    BY <1>6
  <2> DEFINE o == Cardinality(outstanding'[e])
             p == most'[e]
  <2>2. o \in Nat /\ p \in Nat /\ o <= p
    BY <1>7, FS_CardinalityType
  <2>3. Owing(e)' = 0 + 2 * (0 + o)
    BY <2>1, EmptySeq DEF Owing
  <2>. HIDE DEF o, p
  <2>4. 0 + 2 * (0 + o) <= 2 * p
    BY <2>2
  <2>. QED
    BY <2>1, <2>3, <2>4 DEF p
<1>. HIDE DEF next
<1>8. CASE /\ c.kind = "probe"
           /\ outstanding' = [outstanding EXCEPT ![e] = outstanding[e] \cup {c.n}]
           /\ most' = [most EXCEPT ![e] = more]
           /\ stdout' = stdout /\ owed' = owed
  <2>1. OfEngines' /\ \A x \in Engines \ {e} : Same(x)
    BY <1>1, <1>8 DEF OfEngines, Same
  <2>2. /\ outstanding'[e] = outstanding[e] \cup {c.n} /\ Cardinality(outstanding'[e]) = P
        /\ most'[e] = more
    BY <1>8 DEF OfEngines, P
  <2> DEFINE w == Owing(e)
             v == Owing(e)'
             a == Bound(e)
             z == Bound(e)'
  <2>3. v <= w /\ w \in Nat /\ v \in Nat
    <3>1. w = Len(stdout[e]) + 2 * (Len(incoming[e]) + O)
      BY DEF Owing, O
    <3>2. v = Len(stdout[e]) + 2 * (Len(rest) + P)
      BY <1>6, <1>8, <2>2 DEF Owing
    <3>3. /\ Len(stdout[e]) + 2 * (Len(incoming[e]) + O) \in Nat
          /\ Len(stdout[e]) + 2 * (Len(rest) + P) \in Nat
          /\ Len(stdout[e]) + 2 * (Len(rest) + P) <= Len(stdout[e]) + 2 * (Len(incoming[e]) + O)
      BY <1>3, <1>4, OwedInstead, ZenonT(40)
    <3>. HIDE DEF w, v
    <3>. QED
      BY <3>1, <3>2, <3>3, Zenon
  <2>4. a <= z /\ a \in Nat /\ z \in Nat /\ w <= a
    <3> DEFINE p == most[e]
    <3>1. a = 2 * (p + CommandRoom) /\ z = 2 * (more + CommandRoom)
      BY <2>2 DEF Bound
    <3>2. p \in Nat /\ more \in Nat /\ p <= more /\ CommandRoom \in Nat /\ w <= a
      BY <1>2, <1>5
    <3>. HIDE DEF a, z, p, w
    <3>3. a <= z /\ a \in Nat /\ z \in Nat
      BY <3>1, <3>2
    <3>. QED
      BY <3>2, <3>3
  <2>5. v <= z
    <3>. HIDE DEF v, w, a, z
    <3>. QED
      BY <2>3, <2>4
  <2>6. Wire(e)'
    <3>1. /\ Cardinality(outstanding'[e]) <= most'[e] /\ most'[e] \in Nat
          /\ IsFiniteSet(outstanding'[e]) /\ outstanding'[e] \subseteq Nat
      BY <1>2, <1>4, <1>5, <2>2
    <3>2. stage'[e] = "receive" => incoming'[e] = <<>> /\ Owing(e)' <= 2 * most'[e]
      BY <1>7, <3>1
    <3>. QED
      BY <1>1, <1>3, <1>6, <1>8, <2>5, <3>1, <3>2 DEF Wire
  <2>7. Room(e) => Room(e)'
    <3> DEFINE r == Len(replies[e])
    <3>1. r + w <= a => r + v <= z
      <4>1. r \in Nat
        BY <1>3
      <4>. HIDE DEF v, w, a, z, r
      <4>. QED
        BY <2>3, <2>4, <4>1
    <3>. QED
      BY <1>1, <3>1 DEF Room
  <2>8. ~Asking(e)
    <3>1. \A d \in Cmd : d.kind = "check" => incoming[e] # <<d>>
      <4>. SUFFICES ASSUME NEW d \in Cmd, d.kind = "check", incoming[e] = <<d>> PROVE FALSE
        OBVIOUS
      <4>1. c = d
        BY DEF c
      <4>. QED
        BY <1>8, <4>1
    <3>. QED
      BY <1>1, <3>1 DEF Asking
  <2>. QED
    BY <1>1, <1>6, <1>8, <2>1, <2>6, <2>7, <2>8 DEF Kept
<1>9. CASE \E what \in {"ok", "no", "line", "fatal"} :
              /\ PutLine(e, [of |-> e, n |-> c.n, what |-> what])
              /\ outstanding' = outstanding /\ most' = most
  <2>1. PICK r \in Replies(e) : PutLine(e, r) /\ outstanding' = outstanding /\ most' = most
    <3>1. \A what \in {"ok", "no", "line", "fatal"} : [of |-> e, n |-> c.n, what |-> what] \in Replies(e)
      BY <1>4 DEF Replies
    <3>. QED
      BY <1>9, <3>1
  <2>2. /\ stdout' = [stdout EXCEPT ![e] = stdout'[e]] /\ owed' = [owed EXCEPT ![e] = owed'[e]]
        /\ stdout'[e] \in Seq(HalfReplies(e)) /\ Len(stdout'[e]) = Len(stdout[e]) + 2
        /\ owed'[e] \in Seq(Replies(e))
        /\ stdout[e] = <<>> => stdout'[e] = Halves(r)
        /\ owed[e] = <<>> => owed'[e] = <<r>>
        /\ \A b \in Seq(HalfReplies(e)) :
              Way(b, replies[e], stdout[e]) = HalvesOf(owed[e])
              => Way(b, replies[e], stdout'[e]) = HalvesOf(owed'[e])
    BY <2>1, Printed
  <2>3. OfEngines' /\ \A x \in Engines \ {e} : Same(x)
    BY <1>1, <2>1, <2>2 DEF OfEngines, Same
  <2>4. Owing(e)' = Owing(e)
    <3> DEFINE s == Len(stdout[e])
               f == Len(stdout'[e])
               i == Len(incoming[e])
               j == Len(rest)
    <3>1. Owing(e) = s + 2 * (i + O) /\ Owing(e)' = f + 2 * (j + O)
      BY <1>6, <2>1 DEF Owing, O
    <3>2. s \in Nat /\ i \in Nat /\ j = i - 1 /\ O \in Nat /\ f = s + 2
      BY <1>3, <2>2
    <3>. HIDE DEF s, f, i, j
    <3>3. f + 2 * (j + O) = s + 2 * (i + O)
      BY <3>2
    <3>. QED
      BY <3>1, <3>3
  <2>5. Wire(e)'
    <3>1. stage'[e] = "receive" => incoming'[e] = <<>> /\ Owing(e)' <= 2 * most'[e]
      <4>1. IsFiniteSet(outstanding'[e]) /\ Cardinality(outstanding'[e]) <= most'[e] /\ most'[e] \in Nat
        BY <1>2, <2>1 DEF O
      <4>. QED
        BY <1>7, <4>1
    <3>. QED
      BY <1>1, <1>2, <1>3, <1>6, <2>1, <2>2, <2>4, <3>1 DEF Wire, Bound, O
  <2>6. Room(e) => Room(e)'
    BY <1>1, <2>1, <2>4 DEF Room, Bound
  <2>7. Asking(e) => Asking(e)'
    <3>. SUFFICES ASSUME Asking(e) PROVE Asking(e)'
      OBVIOUS
    <3>1. /\ outstanding[e] = {} /\ commands[e] = <<>> /\ stdout[e] = <<>> /\ replies[e] = <<>>
          /\ owed[e] = <<>> /\ \E d \in Cmd : incoming[e] = <<d>>
      BY <1>1 DEF Asking
    <3>2. Len(incoming[e]) = 1
      BY <3>1
    <3>3. Len(rest) = 0
      BY <1>3, <3>2
    <3>4. rest = <<>>
      BY <1>3, <3>3, EmptySeq
    <3>. QED
      BY <1>1, <1>6, <2>1, <2>2, <3>1, <3>4 DEF Asking
  <2>. QED
    BY <1>1, <1>6, <2>2, <2>3, <2>5, <2>6, <2>7 DEF Kept
<1>. QED
  BY <1>1, <1>8, <1>9

(* What is printed is written, a buffer of stdio at a time. *)
LEMMA FlushKeeps ==
    ASSUME PipeAssumption, NEW e \in Engines, OfEngines, Wire(e), Flush(e),
           UNCHANGED <<commands, incoming, outstanding, owed, most, asked>>
    PROVE  Kept(e)
<1> DEFINE n == Chunk(e)
           R == replies[e]
           D == stdout[e]
           written == R \o SubSeq(D, 1, n)
           kept == SubSeq(D, n + 1, Len(D))
           O == Cardinality(outstanding[e])
           now == IF incoming[e] = <<>> /\ stdout'[e] = <<>> THEN "receive" ELSE stage[e]
<1>1. /\ alive[e] = "running" /\ stdout[e] # <<>>
      /\ \/ /\ alive' = [alive EXCEPT ![e] = "gone"] /\ replies' = replies /\ stdout' = stdout
            /\ stage' = stage
         \/ /\ replies' = [replies EXCEPT ![e] = written]
            /\ stdout' = [stdout EXCEPT ![e] = kept] /\ alive' = alive
            /\ stage' = [stage EXCEPT ![e] = now]
      /\ commands' = commands /\ incoming' = incoming /\ outstanding' = outstanding
      /\ owed' = owed /\ asked' = asked /\ most' = most
  BY DEF Flush, Writing
<1>2. /\ R \in Seq(HalfReplies(e)) /\ D \in Seq(HalfReplies(e)) /\ Owing(e) <= Bound(e)
      /\ IsFiniteSet(outstanding[e]) /\ incoming[e] \in Seq(Cmd)
      /\ StdioBuffer \in Nat /\ StdioBuffer >= 2
  BY DEF Wire, PipeAssumption
<1>3. /\ O \in Nat /\ Len(incoming[e]) \in Nat /\ Len(R) \in Nat
      /\ Len(D) \in Nat \ {0} /\ Bound(e) \in Nat
  <2>1. O \in Nat
    BY <1>2, FS_CardinalityType
  <2>2. Len(incoming[e]) \in Nat
    BY <1>2, LenProperties
  <2>3. Bound(e) \in Nat
    <3>1. most[e] \in Nat /\ CommandRoom \in Nat
      BY DEF Wire, PipeAssumption
    <3>. QED
      BY <3>1 DEF Bound
  <2>4. D # <<>>
    BY <1>1
  <2>. HIDE DEF R, D, O
  <2>5. Len(R) \in Nat
    BY <1>2, LenProperties
  <2>6. Len(D) \in Nat \ {0}
    BY <1>2, <2>4, EmptySeq
  <2>. QED
    BY <2>1, <2>2, <2>3, <2>5, <2>6
<1>4. n \in 1..Len(D) /\ (Len(D) = 2 => n = 2)
  <2> DEFINE l == Len(D)
  <2>1. n = IF l < StdioBuffer THEN l ELSE StdioBuffer
    BY DEF Chunk
  <2>. HIDE DEF l, n
  <2>2. l \in Nat \ {0}
    BY <1>3 DEF l
  <2>3. n \in 1..l /\ (l = 2 => n = 2)
    BY <1>2, <2>1, <2>2
  <2>. QED
    BY <2>3 DEF l
<1>. HIDE DEF n, R, D, now
<1>5. /\ written \in Seq(HalfReplies(e)) /\ Len(written) = Len(R) + n
      /\ kept \in Seq(HalfReplies(e)) /\ Len(kept) = Len(D) - n
      /\ \A b : Way(b, written, kept) = Way(b, R, D)
  <2>1. R \in Seq(HalfReplies(e)) /\ D \in Seq(HalfReplies(e)) /\ n \in 1..Len(D)
    BY <1>2, <1>4
  <2>2. /\ R \o SubSeq(D, 1, n) \in Seq(HalfReplies(e))
        /\ Len(R \o SubSeq(D, 1, n)) = Len(R) + n
        /\ SubSeq(D, n + 1, Len(D)) \in Seq(HalfReplies(e))
        /\ Len(SubSeq(D, n + 1, Len(D))) = Len(D) - n
        /\ \A b : Way(b, R \o SubSeq(D, 1, n), SubSeq(D, n + 1, Len(D))) = Way(b, R, D)
    <3>. HIDE PipeAssumption
    <3>. HIDE DEF written, kept
    <3>. QED
      BY <2>1, WrittenMore, ZenonT(40)
  <2>. QED
    BY <2>2 DEF written, kept
<1>. HIDE DEF O
<1>6. CASE alive' = [alive EXCEPT ![e] = "gone"] /\ replies' = replies /\ stdout' = stdout /\ stage' = stage
  <2>1. OfEngines' /\ \A x \in Engines \ {e} : Same(x)
    BY <1>1, <1>6 DEF OfEngines, Same
  <2>2. Wire(e)'
    BY <1>1, <1>6 DEF Wire, Owing, Bound
  <2>3. (Room(e) => Room(e)') /\ (Quiet(e) => Quiet(e)') /\ (Asking(e) => Asking(e)')
    BY <1>1, <1>6 DEF Room, Owing, Bound, Quiet, Asking
  <2>. QED
    BY <1>1, <1>6, <2>1, <2>2, <2>3 DEF Kept
<1>7. CASE /\ replies' = [replies EXCEPT ![e] = written]
           /\ stdout' = [stdout EXCEPT ![e] = kept] /\ alive' = alive
           /\ stage' = [stage EXCEPT ![e] = now]
  <2>. HIDE DEF written, kept
  <2>1. OfEngines' /\ \A x \in Engines \ {e} : Same(x)
    BY <1>1, <1>7 DEF OfEngines, Same
  <2>2. replies'[e] = written /\ stdout'[e] = kept /\ stage'[e] = now
    BY <1>7 DEF OfEngines
  <2> DEFINE w == Owing(e)
             v == Owing(e)'
  <2>3. w \in Nat /\ v \in Nat /\ v <= w /\ Len(written) + v = Len(R) + w
    <3>1. w = Len(D) + 2 * (Len(incoming[e]) + O) /\ v = Len(kept) + 2 * (Len(incoming[e]) + O)
      BY <1>1, <2>2 DEF Owing, O, D
    <3> DEFINE i == Len(incoming[e])
    <3>2. i \in Nat
      BY <1>3
    <3>3. w = Len(D) + 2 * (i + O) /\ v = Len(kept) + 2 * (i + O)
      BY <3>1
    <3> DEFINE d == Len(D)
               k == Len(kept)
               r == Len(R)
               x == Len(written)
    <3>4. d \in Nat /\ r \in Nat /\ n \in 1..d /\ k = d - n /\ x = r + n /\ O \in Nat
      BY <1>3, <1>4, <1>5
    <3>5. w = d + 2 * (i + O) /\ v = k + 2 * (i + O)
      BY <3>3
    <3>. HIDE DEF v, w, i, d, k, r, x
    <3>6. w \in Nat /\ v \in Nat /\ v <= w /\ x + v = r + w
      BY <3>2, <3>4, <3>5
    <3>. QED
      BY <3>6 DEF x, r
  <2>4. v <= Bound(e)
    <3> DEFINE a == Bound(e)
    <3>1. w <= a /\ a \in Nat
      BY <1>2, <1>3
    <3>. HIDE DEF v, w, a
    <3>2. v <= a
      BY <2>3, <3>1, SMTT(30)
    <3>. QED
      BY <3>2 DEF a
  <2>a. stage'[e] = "receive" => incoming'[e] = <<>> /\ Owing(e)' <= 2 * most'[e]
    <3> DEFINE p == most[e]
    <3>1. p \in Nat /\ O <= p /\ (stage[e] = "receive" => incoming[e] = <<>> /\ w <= 2 * p)
      BY DEF Wire, O
    <3>2. CASE stage[e] = "receive"
      <4>1. v <= 2 * p
        <5>. HIDE DEF v, w, p
        <5>. QED
          BY <2>3, <3>1, <3>2
      <4>. QED
        BY <1>1, <3>1, <3>2, <4>1
    <3>3. CASE incoming[e] = <<>> /\ kept = <<>>
      <4>1. v = 0 + 2 * (0 + O)
        BY <1>1, <2>2, <3>3, EmptySeq DEF Owing, O
      <4>2. v <= 2 * p
        <5>. HIDE DEF v, p
        <5>. QED
          BY <1>3, <3>1, <4>1
      <4>. QED
        BY <1>1, <3>3, <4>2
    <3>. QED
      BY <2>2, <3>2, <3>3 DEF now
  <2>5. Wire(e)'
    BY <1>1, <1>5, <2>2, <2>4, <2>a DEF Wire, Bound
  <2>6. Room(e) => Room(e)'
    <3>1. Len(replies[e]) + w <= Bound(e) => Len(replies'[e]) + v <= Bound(e)
      <4>1. Len(replies[e]) + w = Len(replies'[e]) + v
        BY <2>2, <2>3 DEF R
      <4>. HIDE DEF w, v
      <4>. QED
        BY <4>1
    <3>. QED
      BY <1>1, <3>1 DEF Room, Bound
  <2>7. ~Quiet(e)
    BY <1>1 DEF Quiet
  <2>8. Asking(e) => Asking(e)'
    <3>. SUFFICES ASSUME Asking(e) PROVE Asking(e)'
      OBVIOUS
    <3>1. /\ outstanding[e] = {} /\ commands[e] = <<>> /\ incoming[e] = <<>> /\ R = <<>>
          /\ \E r \in Replies(e) : D = Halves(r) /\ owed[e] = <<r>>
      BY <1>1 DEF Asking, R, D
    <3>2. PICK r \in Replies(e) : D = Halves(r) /\ owed[e] = <<r>>
      BY <3>1
    <3>3. Len(D) = 2 /\ n = 2
      BY <1>4, <3>2, HalvesOfFew
    <3>4. Len(kept) = 0
      BY <1>5, <3>3
    <3>5. kept = <<>>
      BY <1>5, <3>4, EmptySeq
    <3>6. written = D
      <4>1. SubSeq(D, 1, n) = D
        BY <1>2, <3>3, SubSeqFull
      <4>2. <<>> \o D = D
        BY <1>2, ConcatEmptySeq
      <4>. QED
        BY <3>1, <4>1, <4>2 DEF written
    <3>. QED
      BY <1>1, <2>2, <3>1, <3>2, <3>5, <3>6 DEF Asking
  <2>9. ASSUME NEW b \in Seq(HalfReplies(e)), Way(b, replies[e], stdout[e]) = HalvesOf(owed[e])
        PROVE  Way(b, replies'[e], stdout'[e]) = HalvesOf(owed'[e])
    BY <1>1, <1>5, <2>2, <2>9 DEF R, D
  <2>. QED
    BY <2>1, <2>5, <2>6, <2>7, <2>8, <2>9 DEF Kept
<1>. QED
  BY <1>1, <1>6, <1>7

(* Every step of an engine. *)
LEMMA ServeKeeps ==
    ASSUME PipeAssumption, NEW e \in Engines, OfEngines, Wire(e), Serve(e)
    PROVE  Kept(e) /\ alive[e] # "none"
<1>1. UNCHANGED asked /\ alive[e] = "running"
  BY DEF Serve, Serves, Result, ReadCommands, Dispatch, Flush, Writing, EngineEnds
<1>2. CASE (Result(e) \/ ReadCommands(e)) /\ UNCHANGED replies
  BY <1>1, <1>2, ResultKeeps, ReadKeeps
<1>3. CASE Dispatch(e) /\ UNCHANGED replies
  BY <1>1, <1>3, DispatchKeeps
<1>4. CASE Flush(e) /\ UNCHANGED <<commands, incoming, outstanding, owed, most>>
  BY <1>1, <1>4, FlushKeeps
<1>5. CASE EngineEnds(e) /\ UNCHANGED <<commands, incoming, stage, most, outstanding, stdout, replies, owed>>
  <2>1. OfEngines' /\ \A x \in Engines \ {e} : Same(x)
    BY <1>1, <1>5 DEF EngineEnds, OfEngines, Same
  <2>2. Wire(e)'
    BY <1>1, <1>5 DEF EngineEnds, Wire, Owing, Bound
  <2>3. (Room(e) => Room(e)') /\ (Quiet(e) => Quiet(e)') /\ (Asking(e) => Asking(e)')
    BY <1>5 DEF EngineEnds, Room, Owing, Bound, Quiet, Asking
  <2>. QED
    BY <1>1, <1>5, <2>1, <2>2, <2>3 DEF Kept
<1>. QED
  BY <1>1, <1>2, <1>3, <1>4, <1>5 DEF Serve, inside

----------------------------------------------------------------------------
(* What mtr does *)

(* A text cut in two. *)
LEMMA CutInTwo ==
    ASSUME NEW S, NEW r \in Seq(S), NEW n \in 0..Len(r)
    PROVE  /\ SubSeq(r, 1, n) \in Seq(S) /\ SubSeq(r, n + 1, Len(r)) \in Seq(S)
           /\ SubSeq(r, 1, n) \o SubSeq(r, n + 1, Len(r)) = r
<1>0. Len(r) \in Nat /\ n \in Nat
  BY LenProperties
<1>1. SubSeq(r, 1, n) \in Seq(S)
  <2>1. \A i \in 1..n : i \in 1..Len(r)
    BY <1>0
  <2>2. \A i \in 1..n : r[i] \in S
    BY <2>1, ElementOfSeq
  <2>3. 1 \in Int /\ n \in Int
    BY <1>0
  <2>. QED
    BY <2>2, <2>3, SubSeqProperties
<1>2. SubSeq(r, n + 1, Len(r)) \in Seq(S)
  BY <1>0, TailPart
<1>3. SubSeq(r, 1, n) \o SubSeq(r, n + 1, Len(r)) = r
  <2>1. 1 \in 1..Len(r) + 1 /\ n \in 1 - 1..Len(r) /\ Len(r) \in n..Len(r)
    BY <1>0
  <2>2. SubSeq(r, 1, n) \o SubSeq(r, n + 1, Len(r)) = SubSeq(r, 1, Len(r))
    BY <2>1, ConcatAdjacentSubSeq
  <2>3. SubSeq(r, 1, Len(r)) = r
    BY SubSeqFull
  <2>. QED
    BY <2>2, <2>3
<1>. QED
  BY <1>1, <1>2, <1>3

(* A command is written to the engine. *)
LEMMA CommandWritten ==
    ASSUME OfEngines, \A e \in Engines : Wire(e), target \in Engines,
           Len(commands[target]) < CommandPipe, CommandPipe \in Nat,
           NEW kind \in {"check", "probe"}, Command(kind),
           UNCHANGED <<alive, incoming, stage, most, outstanding, stdout, replies, owed>>
    PROVE  /\ OfEngines' /\ \A e \in Engines : Wire(e)'
           /\ \A x \in Engines \ {target} : Same(x)
           /\ \E c \in Cmd : c.kind = kind /\ commands'[target] = Append(commands[target], c)
<1>1. /\ asked' = [asked EXCEPT ![target] = asked[target] + 1]
      /\ commands' = [commands EXCEPT ![target] =
                         Append(commands[target], [n |-> asked'[target], kind |-> kind])]
  BY DEF Command, engine, PipeOf
<1>2. Wire(target)
  OBVIOUS
<1>3. asked'[target] \in Nat
  BY <1>1, <1>2 DEF OfEngines, Wire
<1> DEFINE c == [n |-> asked'[target], kind |-> kind]
           new == Append(commands[target], c)
<1>4. c \in Cmd /\ c.kind = kind
  BY <1>3 DEF Cmd
<1>. HIDE DEF c
<1>5. new \in Seq(Cmd) /\ Len(new) = Len(commands[target]) + 1 /\ Len(new) <= CommandPipe
  <2>1. commands[target] \in Seq(Cmd)
    BY <1>2 DEF Wire
  <2>2. new \in Seq(Cmd) /\ Len(new) = Len(commands[target]) + 1
    BY <1>4, <2>1, AppendProperties
  <2>3. Len(commands[target]) \in Nat
    BY <2>1, LenProperties
  <2>. HIDE DEF new
  <2>. QED
    BY <2>2, <2>3
<1>6. commands' = [commands EXCEPT ![target] = new]
  BY <1>1 DEF c
<1>. HIDE DEF new
<1>7. OfEngines' /\ commands'[target] = new /\ \A x \in Engines \ {target} : Same(x)
  BY <1>1, <1>6 DEF OfEngines, Same
<1>8. ASSUME NEW e \in Engines PROVE Wire(e)'
  <2>1. CASE e = target
    BY <1>2, <1>3, <1>5, <1>7, <2>1 DEF Wire, Owing, Bound
  <2>2. CASE e # target
    <3>1. Same(e) /\ Wire(e)
      BY <1>7, <2>2
    <3>. QED
      BY <3>1 DEF Same, Wire, Owing, Bound
  <2>. QED
    BY <2>1, <2>2
<1>. QED
  BY <1>4, <1>7, <1>8 DEF new

(* Engines mtr has not come to are as they were, if the others have moved. *)
LEMMA AheadKept ==
    ASSUME Ahead, target' = target, \A x \in Engines : x > target => Same(x)
    PROVE  Ahead'
BY DEF Ahead, Same, Quiet

(* Steps of mtr which touch no pipe and stay with the engine. *)
LEMMA PipesUntouched ==
    ASSUME PipeInv, UNCHANGED <<target, reply_buffer, daemon, history>>,
           pc' # "check", pc' # "await", pc' \in {"open", "exited"} \/ target \in Engines,
           pc' \in {"loop", "send", "select"} => pc \in {"loop", "send", "select"},
           (pc' = "loop" /\ ~anyset') \/ pc' = "send" => Room(target), why' # "parse"
    PROVE  PipeInv'
<1>1. OfEngines' /\ \A e \in Engines : Wire(e)'
  BY DEF PipeInv, OfEngines, Wire, Owing, Bound, daemon, inside, history
<1>2. Places' /\ Ahead'
  BY DEF PipeInv, Places, Ahead, Quiet, daemon, inside, history
<1>3. Starting'
  BY DEF Starting
<1>4. Passing'
  <2>1. pc' \in {"loop", "send", "select"} => Text(target)'
    BY DEF PipeInv, Passing, Text, Whole, daemon, inside, history
  <2>2. Room(target) => Room(target)'
    BY DEF Room, Owing, Bound, daemon, inside
  <2>. QED
    BY <2>1, <2>2 DEF Passing
<1>5. Outcome'
  BY DEF PipeInv, Outcome, history
<1>. QED
  BY <1>1, <1>2, <1>3, <1>4, <1>5 DEF PipeInv

(* A pass of select_loop which reads nothing, time, and the next name. *)
LEMMA LoopKeeps ==
    ASSUME PipeAssumption, PipeInv,
           \/ PassPolling \/ PassSending \/ PassWaiting \/ WakeForKey \/ WakeByTimeout
           \/ Tick \/ NextTarget
    PROVE  PipeInv'
<1>0. /\ pc \notin {"open", "exited"} => target \in Engines
      /\ (pc = "loop" /\ ~anyset) \/ pc = "send" => Room(target)
      /\ why # "parse"
  BY DEF PipeInv, Places, Passing, Outcome
<1>1. CASE PassPolling
  BY <1>0, <1>1, PipesUntouched DEF PassPolling, ui, loop
<1>2. CASE PassSending
  BY <1>0, <1>2, PipesUntouched DEF PassSending, Polls, ui, loop
<1>3. CASE PassWaiting
  <2>1. pc' \in {"left", "select"}
    BY <1>3 DEF PassWaiting
  <2>. QED
    BY <1>0, <1>3, <2>1, PipesUntouched DEF PassWaiting, ui, loop
<1>4. CASE WakeForKey
  <2>1. pc' \in {"left", "loop"} /\ anyset' = TRUE /\ pc = "select"
    BY <1>4 DEF WakeForKey, Key
  <2>. QED
    BY <1>0, <1>4, <2>1, PipesUntouched DEF WakeForKey, ui, loop
<1>5. CASE WakeByTimeout
  <2>1. replies[target] = <<>> /\ target \in Engines
    BY <1>0, <1>5 DEF WakeByTimeout, Readable, engine, PipeOf
  <2>2. Room(target)
    <3> DEFINE w == Owing(target)
    <3>1. w <= Bound(target)
      BY <2>1 DEF PipeInv, Wire
    <3>2. w \in Nat
      <4>1. /\ incoming[target] \in Seq(Cmd) /\ stdout[target] \in Seq(HalfReplies(target))
            /\ IsFiniteSet(outstanding[target])
        BY <2>1 DEF PipeInv, Wire
      <4>2. Len(incoming[target]) \in Nat /\ Len(stdout[target]) \in Nat
        BY <4>1, LenProperties
      <4>3. Cardinality(outstanding[target]) \in Nat
        BY <4>1, FS_CardinalityType
      <4> DEFINE m == Len(stdout[target])
                 i == Len(incoming[target])
                 o == Cardinality(outstanding[target])
      <4>4. w = m + 2 * (i + o) /\ m \in Nat /\ i \in Nat /\ o \in Nat
        BY <4>2, <4>3 DEF Owing
      <4>. HIDE DEF w, m, i, o
      <4>. QED
        BY <4>4
    <3>3. Len(replies[target]) = 0
      BY <2>1, EmptySeq
    <3>. HIDE DEF w
    <3>4. Len(replies[target]) + w <= Bound(target)
      BY <3>1, <3>2, <3>3
    <3>. QED
      BY <3>4 DEF Room, w
  <2>. QED
    BY <1>0, <1>5, <2>1, <2>2, PipesUntouched DEF WakeByTimeout, ui
<1>6. CASE Tick
  BY <1>0, <1>6, PipesUntouched DEF Tick, ui
<1>7. CASE NextTarget
  BY <1>0, <1>7, PipesUntouched DEF NextTarget, ui
<1>. QED
  BY <1>1, <1>2, <1>3, <1>4, <1>5, <1>6, <1>7

(* A new engine is forked, for the next name. *)
LEMMA OpenKeeps ==
    ASSUME PipeAssumption, PipeInv, OpenPipe
    PROVE  PipeInv'
<1>1. /\ target' = target + 1 /\ target' \in Engines /\ target \in 0..MaxTargets
      /\ pc' = "check" /\ reply_buffer' = <<>> /\ MaxTargets \in Nat
  BY DEF OpenPipe, PipeInv, Places, Engines, PipeAssumption
<1>2. alive' = [alive EXCEPT ![target'] = IF @ = "none" THEN "forked" ELSE @]
  BY DEF OpenPipe, PipeOf
<1>3. UNCHANGED <<why, commands, incoming, stage, most, outstanding, stdout, replies, asked, owed, strayed>>
  BY DEF OpenPipe, history, inside
<1>4. OfEngines' /\ \A e \in Engines : Wire(e)'
  BY <1>1, <1>2, <1>3 DEF PipeInv, OfEngines, Wire, Owing, Bound
<1>5. Places'
  BY <1>1 DEF Places, Engines
<1>6. Ahead'
  <2>1. \A e \in Engines : e > target' => e > target /\ e # target'
    BY <1>1 DEF Engines
  <2>. QED
    BY <1>1, <1>2, <1>3, <2>1 DEF PipeInv, OfEngines, Ahead, Quiet
<1>7. Starting'
  <2>1. target' > target
    BY <1>1
  <2>. QED
    BY <1>1, <1>3, <2>1 DEF PipeInv, Ahead, Starting, Quiet
<1>8. Passing' /\ Outcome'
  BY <1>1, <1>3 DEF PipeInv, Passing, Outcome
<1>. QED
  BY <1>4, <1>5, <1>6, <1>7, <1>8 DEF PipeInv

(* mtr ends, whatever it has done with what it read last. *)
LEMMA ExitKeeps ==
    ASSUME PipeInv, target' = target, target \in 0..MaxTargets, pc' = "exited",
           why' # "parse", ~strayed', OfEngines', \A e \in Engines : Wire(e)', Ahead'
    PROVE  PipeInv'
BY DEF PipeInv, Places, Starting, Passing, Outcome

(* The start-up query is written. *)
LEMMA QueryKeeps ==
    ASSUME PipeAssumption, PipeInv, WriteQuery
    PROVE  PipeInv'
<1>0. /\ pc = "check" /\ target \in Engines /\ Quiet(target) /\ reply_buffer = <<>>
      /\ target \in 0..MaxTargets /\ why # "parse" /\ ~strayed
      /\ OfEngines /\ \A e \in Engines : Wire(e)
  BY DEF WriteQuery, PipeInv, Places, Starting, Outcome
<1>1. /\ UNCHANGED <<target, reply_buffer, alive, incoming, stage, most, outstanding, stdout, replies, owed, strayed>>
  BY DEF WriteQuery, ui, history, inside
<1>2. CASE Exit("sigpipe") /\ UNCHANGED <<commands, asked>>
  <2>1. OfEngines' /\ (\A e \in Engines : Wire(e)') /\ Ahead'
    BY <1>0, <1>1, <1>2 DEF PipeInv, OfEngines, Wire, Owing, Bound, Ahead, Quiet
  <2>. QED
    BY <1>0, <1>1, <1>2, <2>1, ExitKeeps DEF Exit
<1>3. CASE Command("check") /\ pc' = "await" /\ UNCHANGED why
  <2>1. CommandPipe \in Nat /\ Len(commands[target]) < CommandPipe
    <3>1. Len(commands[target]) = 0
      BY <1>0, EmptySeq DEF Quiet
    <3>2. CommandPipe \in Nat \ {0}
      BY DEF PipeAssumption
    <3>. QED
      BY <3>1, <3>2
  <2>2. /\ OfEngines' /\ \A e \in Engines : Wire(e)'
        /\ \A x \in Engines \ {target} : Same(x)
        /\ \E c \in Cmd : c.kind = "check" /\ commands'[target] = Append(commands[target], c)
    BY <1>0, <1>1, <1>3, <2>1, CommandWritten
  <2>3. PICK c \in Cmd : c.kind = "check" /\ commands'[target] = Append(commands[target], c)
    BY <2>2
  <2>4. commands'[target] = <<c>>
    BY <1>0, <2>3 DEF Quiet
  <2>5. Asking(target)'
    BY <1>0, <1>1, <2>3, <2>4 DEF Quiet, Asking
  <2>6. Ahead'
    <3>1. \A x \in Engines : x > target => x # target
      BY <1>0 DEF Engines
    <3>. QED
      BY <1>1, <2>2, <3>1, AheadKept DEF PipeInv
  <2>7. Places' /\ Starting' /\ Passing' /\ Outcome'
    BY <1>0, <1>1, <1>3, <2>5 DEF Places, Starting, Passing, Outcome
  <2>. QED
    BY <2>2, <2>6, <2>7 DEF PipeInv
<1>. QED
  BY <1>2, <1>3 DEF WriteQuery

(* A probe's command is written, when there is room for it. *)
LEMMA SendKeeps ==
    ASSUME PipeAssumption, PipeInv, SendProbe
    PROVE  PipeInv'
<1>0. /\ pc = "send" /\ target \in Engines /\ Text(target)
      /\ target \in 0..MaxTargets /\ why # "parse" /\ ~strayed
      /\ OfEngines /\ \A e \in Engines : Wire(e)
  BY DEF SendProbe, PipeInv, Places, Passing, Outcome
<1>1. /\ UNCHANGED <<target, reply_buffer, alive, incoming, stage, most, outstanding, stdout, replies, owed, strayed>>
  BY DEF SendProbe, history, inside
<1>2. CASE Exit("sigpipe") /\ UNCHANGED <<commands, asked>>
  <2>1. OfEngines' /\ (\A e \in Engines : Wire(e)') /\ Ahead'
    BY <1>0, <1>1, <1>2 DEF PipeInv, OfEngines, Wire, Owing, Bound, Ahead, Quiet
  <2>. QED
    BY <1>0, <1>1, <1>2, <2>1, ExitKeeps DEF Exit
<1>3. CASE Len(commands[engine]) < CommandPipe /\ Command("probe") /\ pc' = "select" /\ UNCHANGED why
  <2>1. CommandPipe \in Nat /\ Len(commands[target]) < CommandPipe
    BY <1>3 DEF PipeAssumption, engine, PipeOf
  <2>2. /\ OfEngines' /\ \A e \in Engines : Wire(e)'
        /\ \A x \in Engines \ {target} : Same(x)
    BY <1>0, <1>1, <1>3, <2>1, CommandWritten
  <2>3. Ahead'
    <3>1. \A x \in Engines : x > target => x # target
      BY <1>0 DEF Engines
    <3>. QED
      BY <1>1, <2>2, <3>1, AheadKept DEF PipeInv
  <2>4. Text(target)'
    BY <1>0, <1>1 DEF Text, Whole
  <2>5. Places' /\ Starting' /\ Passing' /\ Outcome'
    BY <1>0, <1>1, <1>3, <2>4 DEF Places, Starting, Passing, Outcome
  <2>. QED
    BY <2>2, <2>3, <2>5 DEF PipeInv
<1>. QED
  BY <1>2, <1>3 DEF SendProbe

(* The whole answer is there, and is taken; or mtr ends. *)
LEMMA SupportKeeps ==
    ASSUME PipeAssumption, PipeInv, ReadSupport
    PROVE  PipeInv'
<1>0. /\ pc = "await" /\ target \in Engines /\ Asking(target) /\ reply_buffer = <<>>
      /\ target \in 0..MaxTargets /\ why # "parse" /\ ~strayed
      /\ OfEngines /\ \A e \in Engines : Wire(e)
  BY DEF ReadSupport, PipeInv, Places, Starting, Outcome
<1>1. UNCHANGED <<target, reply_buffer, alive, commands, incoming, stage, most, outstanding, stdout, asked>>
  BY DEF ReadSupport, inside
<1>2. CASE /\ replies[engine] = <<>> /\ Exit("eof") /\ UNCHANGED <<history, replies>>
  <2>1. OfEngines' /\ (\A e \in Engines : Wire(e)') /\ Ahead'
    BY <1>0, <1>1, <1>2 DEF PipeInv, OfEngines, Wire, Owing, Bound, Ahead, Quiet, history
  <2>. QED
    BY <1>0, <1>1, <1>2, <2>1, ExitKeeps DEF Exit, history
<1>3. CASE replies[target] # <<>>
  <2>1. PICK r \in Replies(target) :
           /\ replies[target] = Halves(r) /\ owed[target] = <<r>> /\ outstanding[target] = {}
           /\ commands[target] = <<>> /\ incoming[target] = <<>> /\ stdout[target] = <<>>
    BY <1>0, <1>3 DEF Asking
  <2> DEFINE got == Halves(r)
  <2>2. /\ got # <<>> /\ got[1].reply = r /\ got[2].reply = r
    BY HalvesOfFew
  <2>3. /\ replies' = [replies EXCEPT ![target] = <<>>]
        /\ Handle(got, {2})
        /\ \/ Exit("unsupported")
           \/ pc' \in {"loop", "check"} /\ anyset' = FALSE /\ UNCHANGED why
    BY <1>3, <2>1, <2>2 DEF ReadSupport, engine, PipeOf
  <2>4. owed' = [owed EXCEPT ![target] = <<>>] /\ ~strayed'
    <3>1. Cardinality({2}) = 1
      BY FS_EmptySet, FS_AddElement, FS_Singleton
    <3>2. SubSeq(<<r>>, 1 + 1, Len(<<r>>)) = <<>>
      <4>1. Len(<<r>>) = 1 /\ 1 + 1 = 2
        OBVIOUS
      <4>2. SubSeq(<<r>>, 2, 1) = <<>>
        BY SubSeqEmpty
      <4>. QED
        BY <4>1, <4>2
    <3>3. got[2].reply.of = target
      BY <2>2 DEF Replies
    <3>. HIDE DEF got
    <3>4. owed' = [owed EXCEPT ![target] = SubSeq(owed[target], Cardinality({2}) + 1, Len(owed[target]))]
      BY <2>3 DEF Handle, engine, PipeOf
    <3>5. ~strayed'
      BY <1>0, <2>3, <3>3 DEF Handle
    <3>. QED
      BY <2>1, <3>1, <3>2, <3>4, <3>5
  <2>5. OfEngines' /\ replies'[target] = <<>> /\ owed'[target] = <<>>
        /\ \A x \in Engines \ {target} : Same(x)
    BY <1>0, <1>1, <2>3, <2>4 DEF OfEngines, Same
  <2>6. ASSUME NEW e \in Engines PROVE Wire(e)'
    <3>1. CASE e = target
      BY <1>0, <1>1, <2>5, <3>1, EmptySeq DEF Wire, Owing, Bound
    <3>2. CASE e # target
      <4>1. Same(e) /\ Wire(e)
        BY <1>0, <2>5, <3>2
      <4>. QED
        BY <4>1 DEF Same, Wire, Owing, Bound
    <3>. QED
      BY <3>1, <3>2
  <2>7. Ahead'
    <3>1. \A x \in Engines : x > target => x # target
      BY <1>0 DEF Engines
    <3>. QED
      BY <1>1, <2>5, <3>1, AheadKept DEF PipeInv
  <2>8. CASE Exit("unsupported")
    BY <1>0, <1>1, <2>4, <2>5, <2>6, <2>7, <2>8, ExitKeeps DEF Exit
  <2>9. CASE pc' \in {"loop", "check"} /\ anyset' = FALSE /\ UNCHANGED why
    <3>1. Quiet(target)'
      BY <1>1, <2>1, <2>5 DEF Quiet
    <3>2. Text(target)'
      <4>1. <<>> \in Seq(HalfReplies(target)) /\ Len(<<>>) = 0
        BY EmptySeq
      <4>2. Way(<<>>, <<>>, <<>>) = <<>>
        BY <4>1, ConcatEmptySeq DEF Way
      <4>3. HalvesOf(<<>>) = <<>>
        BY HalvesOfFew
      <4>. QED
        BY <1>0, <1>1, <3>1, <4>1, <4>2, <4>3 DEF Text, Whole, Quiet
    <3>3. Room(target)'
      <4>1. CommandPipe \in Nat \ {0} /\ Len(<<>>) = 0
        BY EmptySeq DEF PipeAssumption
      <4>. QED
        BY <1>1, <2>1, <4>1 DEF Room
    <3>4. Places' /\ Starting' /\ Passing' /\ Outcome'
      BY <1>0, <1>1, <2>4, <2>9, <3>1, <3>2, <3>3 DEF Places, Starting, Passing, Outcome
    <3>. QED
      BY <2>5, <2>6, <2>7, <3>4 DEF PipeInv
  <2>. QED
    BY <2>3, <2>8, <2>9
<1>. QED
  BY <1>2, <1>3 DEF ReadSupport, engine, PipeOf

(* net_close, by which mtr ends. *)
LEMMA CloseKeeps ==
    ASSUME PipeAssumption, PipeInv, ClosePipe
    PROVE  PipeInv'
<1>1. /\ target' = target /\ target \in 0..MaxTargets /\ target \in Engines
      /\ pc' = "exited" /\ why' = "done" /\ ~strayed'
  BY DEF ClosePipe, Exit, PipeInv, Places, Outcome, ui, history
<1>2. alive' = [alive EXCEPT ![target] = "gone"]
  BY DEF ClosePipe, engine, PipeOf
<1>3. UNCHANGED <<commands, incoming, stage, most, outstanding, stdout, replies, asked, owed>>
  BY DEF ClosePipe, history, inside
<1>4. OfEngines' /\ \A e \in Engines : Wire(e)'
  BY <1>2, <1>3 DEF PipeInv, OfEngines, Wire, Owing, Bound
<1>5. Ahead'
  <2>1. \A x \in Engines : x > target => Same(x)
    BY <1>1, <1>2, <1>3 DEF PipeInv, OfEngines, Same, Engines
  <2>. QED
    BY <1>1, <2>1, AheadKept DEF PipeInv
<1>. QED
  BY <1>1, <1>4, <1>5, ExitKeeps

(* A child execs, serves or dies. *)
LEMMA EngineKeeps ==
    ASSUME PipeAssumption, PipeInv, NEW e \in Engines, Exec(e) \/ Serve(e) \/ Crash(e)
    PROVE  PipeInv'
<1>0. /\ OfEngines /\ \A x \in Engines : Wire(x)
      /\ target \in 0..MaxTargets /\ (pc \notin {"open", "exited"} => target \in Engines)
      /\ Starting /\ Passing /\ why # "parse" /\ ~strayed
  BY DEF PipeInv, Places, Outcome
<1>1. UNCHANGED <<pc, why, target, anyset, reply_buffer, strayed>>
  BY DEF Exec, Serve, Crash, ui, loop, history
<1>2. Kept(e) /\ alive[e] # "none"
  <2>1. CASE Serve(e)
    BY <1>0, <2>1, ServeKeeps
  <2>2. CASE Exec(e) \/ Crash(e)
    <3>1. /\ alive[e] # "none" /\ \E now \in {"running", "gone"} : alive' = [alive EXCEPT ![e] = now]
          /\ UNCHANGED <<commands, incoming, stage, most, outstanding, stdout, replies, asked, owed>>
      BY <2>2 DEF Exec, Crash, history, inside
    <3>2. OfEngines' /\ \A x \in Engines \ {e} : Same(x)
      BY <1>0, <3>1 DEF OfEngines, Same
    <3>3. Wire(e)'
      BY <1>0, <3>1 DEF Wire, Owing, Bound
    <3>4. (Room(e) => Room(e)') /\ (Quiet(e) => Quiet(e)') /\ (Asking(e) => Asking(e)')
      BY <3>1 DEF Room, Owing, Bound, Quiet, Asking
    <3>. QED
      BY <3>1, <3>2, <3>3, <3>4 DEF Kept
  <2>. QED
    BY <2>1, <2>2
<1>3. \A x \in Engines : Wire(x)'
  <2>. SUFFICES ASSUME NEW x \in Engines PROVE Wire(x)'
    OBVIOUS
  <2>1. CASE x = e
    BY <1>2, <2>1 DEF Kept
  <2>2. CASE x # e
    <3>1. Same(x) /\ Wire(x)
      BY <1>0, <1>2, <2>2 DEF Kept
    <3>. QED
      BY <3>1 DEF Same, Wire, Owing, Bound
  <2>. QED
    BY <2>1, <2>2
<1>4. Ahead'
  <2>1. \A x \in Engines : x > target => x # e
    BY <1>2 DEF PipeInv, Ahead
  <2>. QED
    BY <1>1, <1>2, <2>1, AheadKept DEF PipeInv, Kept
<1>5. CASE target = e
  <2>1. Starting'
    BY <1>0, <1>1, <1>2, <1>5 DEF Kept, Starting
  <2>2. Text(e) => Text(e)'
    BY <1>1, <1>2 DEF Kept, Text, Whole
  <2>3. Passing'
    BY <1>0, <1>1, <1>2, <1>5, <2>2 DEF Kept, Passing
  <2>. QED
    BY <1>0, <1>1, <1>2, <1>3, <1>4, <2>1, <2>3 DEF PipeInv, Places, Outcome, Kept
<1>6. CASE target # e /\ target \in Engines
  <2>1. Same(target)
    BY <1>2, <1>6 DEF Kept
  <2>2. Starting'
    BY <1>0, <1>1, <2>1 DEF Starting, Quiet, Asking, Same
  <2>3. Passing'
    BY <1>0, <1>1, <2>1 DEF Passing, Text, Whole, Room, Owing, Bound, Same
  <2>. QED
    BY <1>0, <1>1, <1>2, <1>3, <1>4, <2>2, <2>3 DEF PipeInv, Places, Outcome, Kept
<1>7. CASE target \notin Engines
  <2>1. Starting' /\ Passing'
    BY <1>0, <1>1, <1>7 DEF Starting, Passing
  <2>. QED
    BY <1>0, <1>1, <1>2, <1>3, <1>4, <2>1 DEF PipeInv, Places, Outcome, Kept
<1>. QED
  BY <1>5, <1>6, <1>7

\* Two sequences joined, under a name that the provers take as one term.
Cat(x, y) == x \o y

\* Three pieces joined from the left are the three joined from the right.
LEMMA Associates ==
  ASSUME NEW H, NEW x \in Seq(H), NEW y \in Seq(H), NEW z \in Seq(H)
  PROVE  Cat(Cat(x, y), z) = Cat(x, Cat(y, z))
PROOF BY DEF Cat

\* A way made of three pieces is the same way when bytes are taken from the
\* front of the second and put behind the first, as a read of a pipe does.
LEMMA MoveTheCut ==
  ASSUME NEW H, NEW b \in Seq(H), NEW front \in Seq(H), NEW back \in Seq(H),
         NEW D \in Seq(H), NEW there \in Seq(H), NEW way, NEW bytes, NEW tail,
         Cat(front, back) = there, way = Cat(there, D),
         bytes = Cat(b, front), tail = Cat(back, D)
  PROVE  Cat(bytes, tail) = Cat(b, way)
PROOF
<1>1. Cat(there, D) = Cat(front, tail)
  BY Associates
<1>2. tail \in Seq(H)
  BY ConcatProperties DEF Cat
<1>3. Cat(bytes, tail) = Cat(b, Cat(front, tail))
  BY <1>2, Associates
<1>. QED
  BY <1>1, <1>3

(* mtr reads as much as it has room for, and handles every line of it. *)
LEMMA RepliesKeep ==
    ASSUME PipeAssumption, PipeInv, WakeForReplies
    PROVE  PipeInv'
<1>0. /\ pc = "select" /\ target \in Engines /\ Text(target)
      /\ target \in 0..MaxTargets /\ why # "parse" /\ ~strayed
      /\ OfEngines /\ \A e \in Engines : Wire(e)
  BY DEF WakeForReplies, PipeInv, Places, Passing, Outcome
<1>1. /\ UNCHANGED <<target, alive, commands, incoming, stage, most, outstanding, stdout, asked>>
      /\ anyset' = TRUE
  BY DEF WakeForReplies, inside
<1>2. CASE Exit("eof") /\ UNCHANGED <<history, reply_buffer, replies>>
  <2>1. OfEngines' /\ (\A e \in Engines : Wire(e)') /\ Ahead'
    BY <1>0, <1>1, <1>2 DEF PipeInv, OfEngines, Wire, Owing, Bound, Ahead, Quiet, history
  <2>. QED
    BY <1>0, <1>1, <1>2, <2>1, ExitKeeps DEF Exit, history
<1>3. CASE ~EndOfReplies
  <2> DEFINE there == replies[target]
             room == ReplyRoom - Len(reply_buffer)
             taken == IF Len(there) < room THEN Len(there) ELSE room
             front == SubSeq(there, 1, taken)
             back == SubSeq(there, taken + 1, Len(there))
             bytes == reply_buffer \o front
             D == stdout[target]
             W == owed[target]
             tail == back \o D
             k == Cardinality(Handled(bytes))
  <2>1. replies' = [replies EXCEPT ![target] = back] /\ Consume(bytes)
    BY <1>3 DEF WakeForReplies, NetReturn, engine, PipeOf
  <2>2. /\ there \in Seq(HalfReplies(target)) /\ D \in Seq(HalfReplies(target))
        /\ W \in Seq(Replies(target)) /\ reply_buffer \in Seq(HalfReplies(target))
        /\ Len(reply_buffer) <= 1 /\ Way(reply_buffer, there, D) = HalvesOf(W)
    BY <1>0 DEF Wire, Text, Whole
  <2>3. taken \in 0..Len(there)
    <3> DEFINE l == Len(there)
               m == Len(reply_buffer)
    <3>1. l \in Nat /\ m \in Nat /\ m <= 1 /\ ReplyRoom \in Nat /\ ReplyRoom >= 2
      BY <2>2, LenProperties DEF PipeAssumption
    <3>2. taken = IF l < ReplyRoom - m THEN l ELSE ReplyRoom - m
      OBVIOUS
    <3>. HIDE DEF l, m, taken
    <3>3. taken \in 0..l
      BY <3>1, <3>2
    <3>. QED
      BY <3>3 DEF l
  <2>. HIDE DEF taken, there, D, W, room
  <2>4. /\ bytes \in Seq(HalfReplies(target)) /\ back \in Seq(HalfReplies(target))
        /\ tail \in Seq(HalfReplies(target)) /\ bytes \o tail = HalvesOf(W)
    <3> DEFINE b == reply_buffer
               H == HalfReplies(target)
               way == there \o D
    <3>1. there \in Seq(H) /\ D \in Seq(H) /\ b \in Seq(H) /\ taken \in 0..Len(there)
      BY <2>2, <2>3
    <3>2. b \o way = HalvesOf(W)
      BY <2>2 DEF Way
    <3>3. bytes = b \o front
      OBVIOUS
    <3>4. tail = back \o D
      OBVIOUS
    <3>5. way = there \o D
      OBVIOUS
    <3>. HIDE DEF b, H, bytes, tail, way, k
    <3>6. front \in Seq(H) /\ back \in Seq(H) /\ front \o back = there
      BY <3>1, CutInTwo
    <3>. HIDE DEF front, back
    <3>7. bytes \in Seq(H) /\ tail \in Seq(H)
      BY <3>1, <3>3, <3>4, <3>6, ConcatProperties
    <3>8. bytes \o tail = b \o way
      <4>1. /\ Cat(front, back) = there /\ way = Cat(there, D)
            /\ bytes = Cat(b, front) /\ tail = Cat(back, D)
        BY <3>3, <3>4, <3>5, <3>6, Zenon DEF Cat
      <4>2. Cat(bytes, tail) = Cat(b, way)
        BY <3>1, <3>6, <4>1, MoveTheCut, SMTT(30)
      <4>. QED
        BY <4>2, Zenon DEF Cat
    <3>. QED
      BY <3>2, <3>6, <3>7, <3>8 DEF H
  <2>. HIDE DEF bytes, back, front
  <2>5. /\ Parses(bytes)
        /\ Rest(bytes) \in Seq(HalfReplies(target)) /\ Len(Rest(bytes)) <= 1
        /\ Handled(bytes) \subseteq 1..Len(bytes) /\ k \in Nat
        /\ FatalEnds(bytes) = {} =>
              Rest(bytes) \o tail = HalvesOf(SubSeq(W, k + 1, Len(W)))
    <3>. HIDE DEF tail
    <3>. QED
      BY <2>2, <2>4, LinesRead
  <2>6. /\ owed' = [owed EXCEPT ![target] = SubSeq(W, k + 1, Len(W))]
        /\ strayed' = (strayed \/ \E i \in Handled(bytes) : bytes[i].reply.of # target)
        /\ reply_buffer' = Rest(bytes)
        /\ \/ FatalEnds(bytes) # {} /\ Exit("fatal")
           \/ FatalEnds(bytes) = {} /\ pc' = "loop" /\ UNCHANGED why
    BY <2>1, <2>5 DEF Consume, Handle, engine, PipeOf, W
  <2> DEFINE left == SubSeq(W, k + 1, Len(W))
  <2>7. left \in Seq(Replies(target))
    <3>1. k \in Nat
      BY <2>5
    <3>. HIDE DEF k
    <3>. QED
      BY <2>2, <3>1, TailPart
  <2>8. ~strayed'
    <3>1. \A i \in Handled(bytes) : bytes[i] \in HalfReplies(target)
      BY <2>4, <2>5, ElementOfSeq
    <3>2. \A i \in Handled(bytes) : bytes[i].reply.of = target
      BY <3>1 DEF HalfReplies, Replies
    <3>. QED
      BY <1>0, <2>6, <3>2
  <2>. HIDE DEF left, k
  <2>9. /\ OfEngines' /\ replies'[target] = back /\ owed'[target] = left
        /\ \A x \in Engines \ {target} : Same(x)
    BY <1>0, <1>1, <2>1, <2>6 DEF OfEngines, Same, left
  <2>10. ASSUME NEW e \in Engines PROVE Wire(e)'
    <3>1. CASE e = target
      BY <1>0, <1>1, <2>4, <2>7, <2>9, <3>1 DEF Wire, Owing, Bound
    <3>2. CASE e # target
      <4>1. Same(e) /\ Wire(e)
        BY <1>0, <2>9, <3>2
      <4>. QED
        BY <4>1 DEF Same, Wire, Owing, Bound
    <3>. QED
      BY <3>1, <3>2
  <2>11. Ahead'
    <3>1. \A x \in Engines : x > target => x # target
      BY <1>0 DEF Engines
    <3>. QED
      BY <1>1, <2>9, <3>1, AheadKept DEF PipeInv
  <2>12. CASE Exit("fatal")
    BY <1>0, <1>1, <2>8, <2>9, <2>10, <2>11, <2>12, ExitKeeps DEF Exit
  <2>13. CASE FatalEnds(bytes) = {} /\ pc' = "loop" /\ UNCHANGED why
    <3>1. Way(Rest(bytes), back, D) = HalvesOf(left)
      BY <2>5, <2>13 DEF Way, left
    <3>2. Text(target)'
      BY <1>1, <2>5, <2>6, <2>9, <3>1 DEF Text, Whole, D
    <3>3. Places' /\ Starting' /\ Passing' /\ Outcome'
      BY <1>0, <1>1, <2>8, <2>13, <3>2 DEF Places, Starting, Passing, Outcome
    <3>. QED
      BY <2>9, <2>10, <2>11, <3>3 DEF PipeInv
  <2>. QED
    BY <2>6, <2>12, <2>13
<1>. QED
  BY <1>2, <1>3 DEF WakeForReplies, NetReturn

----------------------------------------------------------------------------
(* Theorems *)

LEMMA PipeInvInitially ==
    ASSUME PipeAssumption, Init
    PROVE  PipeInv
<1>1. OfEngines /\ Ahead /\ Outcome
  BY DEF Init, OfEngines, Ahead, Quiet, Outcome
<1>2. ASSUME NEW e \in Engines PROVE Wire(e)
  <2>1. Cardinality({}) = 0 /\ IsFiniteSet({})
    BY FS_EmptySet
  <2>2. /\ Len(<<>>) = 0 /\ <<>> \in Seq(Cmd) /\ <<>> \in Seq(HalfReplies(e))
        /\ <<>> \in Seq(Replies(e))
    BY EmptySeq
  <2>3. 0 + 2 * (0 + 0) <= 2 * (0 + CommandRoom) /\ 0 + 2 * (0 + 0) <= 2 * 0 /\ 0 <= CommandPipe
    BY DEF PipeAssumption
  <2>4. /\ commands[e] = <<>> /\ incoming[e] = <<>> /\ stdout[e] = <<>> /\ replies[e] = <<>>
        /\ owed[e] = <<>> /\ outstanding[e] = {} /\ asked[e] = 0 /\ most[e] = 0
    BY DEF Init
  <2>5. Owing(e) = 0 + 2 * (0 + 0) /\ Bound(e) = 2 * (0 + CommandRoom)
    BY <2>1, <2>2, <2>4 DEF Owing, Bound
  <2>6. 0 \in Nat /\ 0 <= 0 /\ {} \subseteq Nat
    OBVIOUS
  <2>. QED
    BY <2>1, <2>2, <2>3, <2>4, <2>5, <2>6 DEF Wire
<1>3. Places /\ Starting /\ Passing
  <2>1. pc = "open" /\ target = 0
    BY DEF Init
  <2>2. 0 \in 0..MaxTargets
    BY DEF PipeAssumption
  <2>. QED
    BY <2>1, <2>2 DEF Places, Starting, Passing
<1>. QED
  BY <1>1, <1>2, <1>3 DEF PipeInv

LEMMA PipeInvKept ==
    ASSUME PipeAssumption, PipeInv, [Next]_vars
    PROVE  PipeInv'
<1>1. CASE UNCHANGED vars
  BY <1>1 DEF vars, ui, loop, daemon, inside, history, PipeInv, OfEngines, Wire, Owing, Bound, Places,
     Ahead, Quiet, Starting, Asking, Passing, Text, Whole, Room, Outcome
<1>2. CASE Next
  BY <1>2, LoopKeeps, OpenKeeps, QueryKeeps, SendKeeps, SupportKeeps, CloseKeeps, RepliesKeep,
     EngineKeeps DEF Next, Client
<1>. QED
  BY <1>1, <1>2

(* What is on its way between an mtr-packet and mtr, whatever they are doing. *)
THEOREM PipesInvariant == Spec => []PipeInv
<1>1. Init => PipeInv
  BY PipeAssumption, PipeInvInitially
<1>2. PipeInv /\ [Next]_vars => PipeInv'
  BY PipeAssumption, PipeInvKept
<1>. QED
  BY <1>1, <1>2, PTL DEF Spec

(* Wherever write() and read() cut the text of an mtr-packet, mtr has read,    *)
(* or has yet to read, just what was printed and has not been handled, and it  *)
(* never ends because a part of a reply was parsed for a whole one.            *)
THEOREM RepliesAsPrinted == Spec => []RepliesArriveAsPrinted
<1>1. PipeInv => RepliesArriveAsPrinted
  <2>. SUFFICES ASSUME PipeInv PROVE RepliesArriveAsPrinted
    OBVIOUS
  <2>1. why # "parse"
    BY DEF PipeInv, Outcome
  <2>2. ASSUME pc \in {"loop", "send", "select"}
        PROVE  reply_buffer \o replies[engine] \o stdout[engine] = HalvesOf(owed[engine])
    <3> DEFINE H == HalfReplies(target)
               R == replies[target]
               D == stdout[target]
    <3>1. target \in Engines /\ Text(target)
      BY <2>2 DEF PipeInv, Places, Passing
    <3>2. reply_buffer \in Seq(H) /\ R \in Seq(H) /\ D \in Seq(H)
      BY <3>1 DEF PipeInv, Wire, Text
    <3>3. reply_buffer \o (R \o D) = HalvesOf(owed[target])
      BY <3>1 DEF Text, Whole, Way
    <3> DEFINE b == reply_buffer
    <3>. HIDE DEF H, R, D, b
    <3>4. (b \o R) \o D = b \o (R \o D)
      BY <3>2 DEF b
    <3>. QED
      BY <3>3, <3>4 DEF R, D, b, engine, PipeOf
  <2>. QED
    BY <2>1, <2>2 DEF RepliesArriveAsPrinted
<1>. QED
  BY <1>1, PipesInvariant, PTL

(* A mtr which waits for room for a command and an mtr-packet which waits for  *)
(* room for its replies wait for each other only if the reply pipe is smaller  *)
(* than the replies to all the probes that were outstanding at once and to one *)
(* buffer of commands, whatever the sizes of the pipes and buffers, and        *)
(* wherever in a pass stdio comes to write.  Nothing is assumed of the pipe.   *)
THEOREM NoDeadlyEmbrace == Spec => []NeverBothBlocked
<1>1. PipeInv => NeverBothBlocked
  <2>. SUFFICES ASSUME PipeInv, ClientBlocked, EngineBlocked
                PROVE  ReplyPipe < 2 * (most[engine] + CommandRoom)
    BY DEF NeverBothBlocked
  <2>1. target \in Engines /\ Wire(target) /\ engine = target /\ Room(target)
    BY DEF PipeInv, Places, Passing, ClientBlocked, engine, PipeOf
  <2> DEFINE l == Len(commands[target])
             r == Len(replies[target])
             d == Len(stdout[target])
             w == Owing(target)
             i == Len(incoming[target])
             o == Cardinality(outstanding[target])
             c == Chunk(target)
             a == Bound(target)
  <2>2. /\ l \in Nat /\ r \in Nat /\ d \in Nat /\ i \in Nat /\ o \in Nat
        /\ w = d + 2 * (i + o)
    BY <2>1, OwingIs, LenProperties DEF Wire
  <2>3. /\ l >= CommandPipe /\ ~(r + c <= ReplyPipe)
        /\ l < CommandPipe \/ r + w <= a
        /\ c = IF d < StdioBuffer THEN d ELSE StdioBuffer
    BY <2>1 DEF ClientBlocked, EngineBlocked, Fits, Chunk, Room
  <2>4. CommandPipe \in Nat /\ ReplyPipe \in Nat /\ StdioBuffer \in Nat /\ a \in Nat
    <3>1. most[target] \in Nat
      BY <2>1 DEF Wire
    <3>. QED
      BY <3>1, PipeAssumption DEF PipeAssumption, Bound
  <2>5. a = 2 * (most[engine] + CommandRoom)
    BY <2>1 DEF Bound
  <2>. HIDE DEF l, r, d, w, i, o, c, a
  <2>6. ReplyPipe < a
    BY <2>2, <2>3, <2>4
  <2>. QED
    BY <2>5, <2>6
<1>. QED
  BY <1>1, PipesInvariant, PTL

(* A reply to a probe of an earlier name of a report is never handled as one   *)
(* of the present name: every name has pipes of its own.                       *)
THEOREM NoReplyStrays == Spec => []RepliesStayWithTarget
<1>1. PipeInv => RepliesStayWithTarget
  BY DEF PipeInv, Outcome, RepliesStayWithTarget
<1>. QED
  BY <1>1, PipesInvariant, PTL

=============================================================================
