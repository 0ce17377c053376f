-------------------------- MODULE LiveReplyProofs ---------------------------
(***************************************************************************)
(* For any number of events of any reply, for any calls: wherever the reply *)
(* ends, breaks off or is left, the stream that was made of it is a message *)
(* of SseProtocol, its thinking is signed, and it is settled once. Then the *)
(* two layers that ask again: output recovery and compaction.              *)
(***************************************************************************)
EXTENDS Replies, OutputRecovery, Compaction, SequenceTheorems, FiniteSetTheorems, WellFoundedInduction, TLAPS

-----------------------------------------------------------------------------
(* Sequences: least elements, flattening, folds and prefixes.               *)

LEMMA LeastOf ==
    ASSUME NEW T \in SUBSET Nat, T # {}
    PROVE  \E x \in T : \A y \in T : x <= y
  <1> DEFINE R == {s \in Nat \X Nat : s[1] < s[2]}
  <1>1. IsWellFoundedOn(R, Nat)
    BY NatLessThanWellFounded DEF OpToRel
  <1> HIDE DEF R
  <1>2. PICK x \in T : \A y \in T : ~ (<<y, x>> \in R)
    BY <1>1, WFMin
  <1>3. \A y \in T : x <= y
    <2> TAKE y \in T
    <2>1. <<y, x>> \in R <=> y < x
      BY DEF R
    <2> QED BY <1>2, <2>1
  <1> QED BY <1>3

(* Induction, with a set in the place of a predicate. *)
LEMMA UpTo ==
    ASSUME NEW n \in Nat, NEW S, 0 \in S, \A k \in 0 .. n - 1 : k \in S => k + 1 \in S
    PROVE  \A k \in 0 .. n : k \in S
  <1> SUFFICES ASSUME NEW m \in 0 .. n, m \notin S PROVE FALSE
    OBVIOUS
  <1> DEFINE T == {k \in 0 .. n : k \notin S}
  <1>1. PICK x \in T : \A y \in T : x <= y
    <2>1. T \in SUBSET Nat /\ T # {} OBVIOUS
    <2> HIDE DEF T
    <2> QED BY <2>1, LeastOf
  <1>2. x # 0 /\ x - 1 \in 0 .. n - 1 /\ x - 1 \in S BY <1>1
  <1> QED BY <1>1, <1>2

LEMMA MaxOf ==
    ASSUME NEW k \in Nat, NEW s \in SUBSET (1 .. k), s # {}
    PROVE  Max(s) \in s /\ \A y \in s : Max(s) >= y
  <1> DEFINE T == {n \in Nat : k - n \in s}
  <1>0. T \in SUBSET Nat /\ T # {}
    <2>1. PICK x \in s : TRUE OBVIOUS
    <2>2. k - x \in T BY <2>1
    <2> QED BY <2>2
  <1>1. PICK n \in T : \A y \in T : n <= y
    <2> HIDE DEF T
    <2> QED BY <1>0, LeastOf
  <1>2. k - n \in s /\ \A y \in s : k - n >= y
    <2>1. \A y \in s : k - y \in T OBVIOUS
    <2> QED BY <1>1, <2>1
  <1> QED BY <1>2 DEF Max

LEMMA MaxUpTo ==
    ASSUME NEW k \in Nat, NEW s \in SUBSET (1 .. k + 1), k + 1 \in s
    PROVE  Max(s) = k + 1
  <1>1. k + 1 \in Nat /\ s # {} /\ \A y \in s : y \in Nat /\ y <= k + 1 OBVIOUS
  <1>2. Max(s) \in s /\ Max(s) >= k + 1 BY <1>1, MaxOf
  <1>3. Max(s) \in Nat /\ Max(s) <= k + 1 BY <1>1, <1>2
  <1> QED BY <1>2, <1>3

FoldUpTo(f, k, V, base, G) ==
    /\ f \in [SUBSET (1 .. k) -> V]
    /\ \A s \in SUBSET (1 .. k) :
          f[s] = IF s = {} THEN base ELSE G[Max(s)][f[s \ {Max(s)}]]

LEMMA FoldExists ==
    ASSUME NEW n \in Nat, NEW V, NEW base \in V, NEW G \in [1 .. n -> [V -> V]]
    PROVE  \E f : FoldUpTo(f, n, V, base, G)
  <1> DEFINE S == {k \in 0 .. n : \E f : FoldUpTo(f, k, V, base, G)}
  <1>1. 0 \in S
    <2>1. \A s \in SUBSET (1 .. 0) : s = {} OBVIOUS
    <2>2. FoldUpTo([s \in SUBSET (1 .. 0) |-> base], 0, V, base, G) BY <2>1 DEF FoldUpTo
    <2> QED BY <2>2
  <1>2. ASSUME NEW k \in 0 .. n - 1, k \in S PROVE k + 1 \in S
    <2>1. PICK f : FoldUpTo(f, k, V, base, G) BY <1>2
    <2> DEFINE g == [s \in SUBSET (1 .. k + 1) |->
                       IF k + 1 \in s THEN G[k + 1][f[s \ {k + 1}]] ELSE f[s]]
    <2>2. ASSUME NEW s \in SUBSET (1 .. k + 1), k + 1 \in s
          PROVE  s \ {k + 1} \in SUBSET (1 .. k) /\ Max(s) = k + 1
      BY <2>2, MaxUpTo
    <2>3. ASSUME NEW s \in SUBSET (1 .. k + 1), k + 1 \notin s
          PROVE  s \in SUBSET (1 .. k)
      BY <2>3
    <2>4. g \in [SUBSET (1 .. k + 1) -> V]
      <3> SUFFICES ASSUME NEW s \in SUBSET (1 .. k + 1)
                   PROVE  (IF k + 1 \in s THEN G[k + 1][f[s \ {k + 1}]] ELSE f[s]) \in V
        OBVIOUS
      <3>1. CASE k + 1 \in s
        <4>1. f[s \ {k + 1}] \in V BY <2>1, <2>2, <3>1 DEF FoldUpTo
        <4>2. G[k + 1] \in [V -> V] OBVIOUS
        <4> QED BY <4>1, <4>2, <3>1
      <3>2. CASE k + 1 \notin s BY <2>1, <2>3, <3>2 DEF FoldUpTo
      <3> QED BY <3>1, <3>2
    <2>5. ASSUME NEW s \in SUBSET (1 .. k + 1)
          PROVE  g[s] = IF s = {} THEN base ELSE G[Max(s)][g[s \ {Max(s)}]]
      <3>1. CASE k + 1 \in s
        <4>1. Max(s) = k + 1 /\ s # {} /\ k + 1 \notin s \ {k + 1} /\ s \ {k + 1} \in SUBSET (1 .. k + 1)
          BY <2>2, <3>1
        <4>2. g[s \ {k + 1}] = f[s \ {k + 1}] BY <4>1
        <4>3. g[s] = G[k + 1][f[s \ {k + 1}]] BY <3>1
        <4> HIDE DEF g
        <4> QED BY <4>1, <4>2, <4>3
      <3>2. CASE k + 1 \notin s
        <4>1. s \in SUBSET (1 .. k) BY <2>3, <3>2
        <4>2. s # {} => Max(s) \in s
          <5>1. k \in Nat OBVIOUS
          <5> QED BY <4>1, <5>1, MaxOf
        <4>3. g[s] = f[s] BY <3>2
        <4>4. s # {} => g[s \ {Max(s)}] = f[s \ {Max(s)}] BY <3>2, <4>2
        <4> HIDE DEF g
        <4> QED BY <2>1, <4>1, <4>3, <4>4 DEF FoldUpTo
      <3> QED BY <3>1, <3>2
    <2>6. FoldUpTo(g, k + 1, V, base, G) BY <2>4, <2>5 DEF FoldUpTo
    <2> QED BY <2>6
  <1> HIDE DEF S
  <1>3. \A k \in 0 .. n - 1 : k \in S => k + 1 \in S BY <1>2
  <1>4. \A k \in 0 .. n : k \in S BY <1>1, <1>3, UpTo
  <1>5. n \in S BY <1>4
  <1> QED BY <1>5 DEF S


LEMMA ConcatAppend ==
    ASSUME NEW S, NEW s \in Seq(S), NEW t \in Seq(S), NEW x \in S
    PROVE  s \o Append(t, x) = Append(s \o t, x)
  <1>1. Append(t, x) \in Seq(S) /\ s \o t \in Seq(S) /\ Append(s \o t, x) \in Seq(S)
        /\ s \o Append(t, x) \in Seq(S)
    BY AppendProperties, ConcatProperties
  <1>2. Len(s \o Append(t, x)) = Len(Append(s \o t, x))
    BY <1>1, AppendProperties, ConcatProperties
  <1>3. \A i \in 1 .. Len(s \o Append(t, x)) : (s \o Append(t, x))[i] = Append(s \o t, x)[i]
    <2>1. Len(s) \in Nat /\ Len(t) \in Nat /\ Len(s \o t) = Len(s) + Len(t)
      BY ConcatProperties
    <2>2. Len(Append(t, x)) = Len(t) + 1 /\ Append(t, x)[Len(t) + 1] = x
          /\ \A k \in 1 .. Len(t) : Append(t, x)[k] = t[k]
      BY AppendProperties
    <2>3. \A i \in 1 .. Len(s) + Len(Append(t, x)) :
             (s \o Append(t, x))[i] = IF i <= Len(s) THEN s[i] ELSE Append(t, x)[i - Len(s)]
      BY <1>1, ConcatProperties
    <2>4. \A i \in 1 .. Len(s) + Len(t) : (s \o t)[i] = IF i <= Len(s) THEN s[i] ELSE t[i - Len(s)]
      BY ConcatProperties
    <2>5. Append(s \o t, x)[Len(s) + Len(t) + 1] = x
          /\ \A k \in 1 .. Len(s) + Len(t) : Append(s \o t, x)[k] = (s \o t)[k]
      BY <1>1, <2>1, AppendProperties
    <2>6. Len(s \o Append(t, x)) = Len(s) + Len(t) + 1
      BY <1>1, <2>1, <2>2, ConcatProperties
    <2> QED BY <2>1, <2>2, <2>3, <2>4, <2>5, <2>6
  <1> QED BY <1>1, <1>2, <1>3, SeqEqual

(* What a recursive function on 0 .. n satisfies, whatever its equation. *)
Unrolls(f, n, V, base, G) ==
    f \in [0 .. n -> V] /\ f[0] = base /\ \A k \in 1 .. n : f[k] = G[k][f[k - 1]]

LEMMA UnrollsOne ==
    ASSUME NEW k \in Nat, NEW V, NEW base, NEW G, NEW f, Unrolls(f, k, V, base, G), G[k + 1] \in [V -> V]
    PROVE  \E g : Unrolls(g, k + 1, V, base, G)
  <1> DEFINE g == [j \in 0 .. k + 1 |-> IF j = k + 1 THEN G[k + 1][f[k]] ELSE f[j]]
  <1>1. f \in [0 .. k -> V] /\ f[0] = base /\ \A j \in 1 .. k : f[j] = G[j][f[j - 1]] BY DEF Unrolls
  <1>2. G[k + 1][f[k]] \in V BY <1>1
  <1>3. g \in [0 .. k + 1 -> V] BY <1>1, <1>2
  <1>4. g[0] = base BY <1>1
  <1>5. ASSUME NEW j \in 1 .. k + 1 PROVE g[j] = G[j][g[j - 1]]
    <2>1. j - 1 \in 0 .. k + 1 /\ j - 1 # k + 1 /\ g[j - 1] = f[j - 1] OBVIOUS
    <2>2. CASE j = k + 1 BY <2>1, <2>2
    <2>3. CASE j # k + 1
      <3>1. j \in 1 .. k /\ g[j] = f[j] BY <2>3
      <3> QED BY <1>1, <2>1, <3>1
    <2> QED BY <2>2, <2>3
  <1>6. Unrolls(g, k + 1, V, base, G)
    <2> HIDE DEF g
    <2> QED BY <1>3, <1>4, <1>5 DEF Unrolls
  <1> QED BY <1>6

LEMMA RecursionExists ==
    ASSUME NEW n \in Nat, NEW V, NEW base \in V, NEW G \in [1 .. n -> [V -> V]]
    PROVE  \E f : Unrolls(f, n, V, base, G)
  <1> DEFINE S == {k \in 0 .. n : \E f : Unrolls(f, k, V, base, G)}
  <1>1. 0 \in S
    <2>1. Unrolls([j \in 0 .. 0 |-> base], 0, V, base, G) BY DEF Unrolls
    <2> QED BY <2>1
  <1>2. ASSUME NEW k \in 0 .. n - 1, k \in S PROVE k + 1 \in S
    <2>1. PICK f : Unrolls(f, k, V, base, G) BY <1>2
    <2>2. k \in Nat /\ G[k + 1] \in [V -> V] /\ k + 1 \in 0 .. n OBVIOUS
    <2>3. \E g : Unrolls(g, k + 1, V, base, G) BY <2>1, <2>2, UnrollsOne
    <2> QED BY <2>2, <2>3
  <1> HIDE DEF S
  <1>3. \A k \in 0 .. n - 1 : k \in S => k + 1 \in S BY <1>2
  <1>4. \A k \in 0 .. n : k \in S BY <1>1, <1>3, UpTo
  <1>5. n \in 0 .. n OBVIOUS
  <1> QED BY <1>4, <1>5 DEF S

(* What the equation of a recursive function says of the function. *)
LEMMA RecursionUnrolls ==
    ASSUME NEW n \in Nat, NEW V, NEW base \in V, NEW G \in [1 .. n -> [V -> V]],
           NEW g, DOMAIN g = 0 .. n, g = [k \in 0 .. n |-> g[k]],
           g[0] = base, \A k \in 1 .. n : g[k - 1] \in V => g[k] = G[k][g[k - 1]]
    PROVE  Unrolls(g, n, V, base, G)
  <1> DEFINE S == {k \in 0 .. n : g[k] \in V}
  <1>1. 0 \in S OBVIOUS
  <1>2. \A k \in 0 .. n - 1 : k \in S => k + 1 \in S
    <2> SUFFICES ASSUME NEW k \in 0 .. n - 1, k \in S PROVE k + 1 \in S OBVIOUS
    <2>1. k + 1 \in 1 .. n /\ (k + 1) - 1 = k /\ g[k] \in V OBVIOUS
    <2>2. g[k + 1] = G[k + 1][g[k]] BY <2>1
    <2>3. G[k + 1] \in [V -> V] BY <2>1
    <2> QED BY <2>1, <2>2, <2>3
  <1> HIDE DEF S
  <1>3. \A k \in 0 .. n : k \in S BY <1>1, <1>2, UpTo
  <1>4. \A k \in 0 .. n : g[k] \in V BY <1>3 DEF S
  <1>5. g \in [0 .. n -> V] BY <1>4
  <1>6. \A k \in 1 .. n : k - 1 \in 0 .. n OBVIOUS
  <1> QED BY <1>4, <1>5, <1>6 DEF Unrolls

(* The sequence of sequences ss, joined one after the other. *)
Joined(f, ss, S) ==
    f \in [0 .. Len(ss) -> Seq(S)] /\ f[0] = << >> /\ \A k \in 1 .. Len(ss) : f[k] = f[k - 1] \o ss[k]

LEMMA FlattenJoins ==
    ASSUME NEW S, NEW ss \in Seq(Seq(S))
    PROVE  \E f : Joined(f, ss, S) /\ FlattenSeq(ss) = f[Len(ss)]
  <1> DEFINE n == Len(ss)
             G == [k \in 1 .. n |-> [v \in Seq(S) |-> v \o ss[k]]]
  <1>0. n \in Nat /\ << >> \in Seq(S) /\ \A k \in 1 .. n : ss[k] \in Seq(S)
    BY EmptySeq, ElementOfSeq
  <1>1. G \in [1 .. n -> [Seq(S) -> Seq(S)]]
    <2>1. \A v \in Seq(S), k \in 1 .. n : v \o ss[k] \in Seq(S) BY <1>0, ConcatProperties
    <2> QED BY <2>1
  <1>2. \A k \in 1 .. n, v \in Seq(S) : G[k][v] = v \o ss[k] OBVIOUS
  <1> HIDE DEF G
  <1>3. PICK f : Unrolls(f, n, Seq(S), << >>, G)
    <2> HIDE DEF n
    <2> QED BY <1>0, <1>1, RecursionExists
  <1>4. Joined(f, ss, S)
    <2>1. \A k \in 1 .. n : k - 1 \in 0 .. n BY <1>0
    <2> QED BY <1>2, <1>3, <2>1 DEF Unrolls, Joined
  <1>5. CASE n = 0
    <2>1. ss = << >> /\ FlattenSeq(ss) = ss BY <1>5, EmptySeq DEF FlattenSeq
    <2> QED BY <1>4, <1>5, <2>1 DEF Joined
  <1>6. CASE n # 0
    <2> DEFINE Is(h) == h = [i \in 1 .. n |-> IF i = 1 THEN ss[i] ELSE h[i - 1] \o ss[i]]
               g == CHOOSE h : Is(h)
    <2>1. FlattenSeq(ss) = g[n] BY <1>6 DEF FlattenSeq
    <2>2. Is([i \in 1 .. n |-> f[i]])
      <3> DEFINE h == [i \in 1 .. n |-> f[i]]
      <3>1. ASSUME NEW i \in 1 .. n PROVE h[i] = IF i = 1 THEN ss[i] ELSE h[i - 1] \o ss[i]
        <4>1. f[i] = f[i - 1] \o ss[i] /\ h[i] = f[i] BY <1>4 DEF Joined
        <4>2. CASE i = 1
          <5>1. f[0] \o ss[1] = ss[1]
            <6>1. ss[1] \in Seq(S) /\ f[0] = << >> BY <1>0, <4>2, <1>4 DEF Joined
            <6> QED BY <6>1, ConcatEmptySeq
          <5>2. i - 1 = 0 BY <4>2
          <5> QED BY <4>1, <4>2, <5>1, <5>2
        <4>3. CASE i # 1
          <5>1. i - 1 \in 1 .. n /\ h[i - 1] = f[i - 1] BY <4>3
          <5> QED BY <4>1, <4>3, <5>1
        <4> QED BY <4>2, <4>3
      <3> QED BY <3>1
    <2>3. Is(g) BY <2>2
    <2> HIDE DEF g
    <2> DEFINE T == {0} \cup {k \in 1 .. n : g[k] = f[k]}
    <2>4. ASSUME NEW k \in 0 .. n - 1, k \in T PROVE k + 1 \in T
      <3>1. k + 1 \in 1 .. n /\ (k + 1) - 1 = k BY <1>0
      <3>2. f[k + 1] = f[k] \o ss[k + 1] BY <1>4, <3>1 DEF Joined
      <3>3. g[k + 1] = IF k + 1 = 1 THEN ss[k + 1] ELSE g[k] \o ss[k + 1] BY <2>3, <3>1
      <3>4. CASE k = 0
        <4>1. ss[1] \in Seq(S) /\ f[0] = << >> /\ k + 1 = 1 BY <1>0, <1>4, <3>4, <3>1 DEF Joined
        <4>2. << >> \o ss[1] = ss[1] BY <4>1, ConcatEmptySeq
        <4> QED BY <3>1, <3>2, <3>3, <3>4, <4>1, <4>2
      <3>5. CASE k # 0
        <4>1. g[k] = f[k] /\ k + 1 # 1 BY <2>4, <3>5
        <4> QED BY <3>1, <3>2, <3>3, <4>1
      <3> QED BY <3>4, <3>5
    <2> HIDE DEF T
    <2>5. \A k \in 0 .. n - 1 : k \in T => k + 1 \in T BY <2>4
    <2>6. 0 \in T BY DEF T
    <2>7. \A k \in 0 .. n : k \in T
      <3> HIDE DEF n
      <3> QED BY <1>0, <2>5, <2>6, UpTo
    <2>8. n \in T BY <1>0, <2>7
    <2>9. g[n] = f[n] BY <1>6, <2>8 DEF T
    <2> QED BY <1>4, <2>1, <2>9
  <1> QED BY <1>5, <1>6

LEMMA HeadMoves ==
    ASSUME NEW S, NEW s \in Seq(S), NEW q \in Seq(S), q # << >>
    PROVE  /\ Append(s, Head(q)) \o Tail(q) = s \o q
           /\ Append(s, Head(q)) \in Seq(S) /\ Tail(q) \in Seq(S) /\ Head(q) \in S /\ Head(q) = q[1]
           /\ Len(q) \in Nat \ {0} /\ Len(Tail(q)) = Len(q) - 1
  <1> DEFINE x == Head(q)
             t == Tail(q)
  <1>1. x \in S /\ t \in Seq(S) /\ Len(t) = Len(q) - 1 /\ x = q[1] /\ Len(q) \in Nat \ {0}
        /\ \A k \in 1 .. Len(q) - 1 : t[k] = q[k + 1]
    BY EmptySeq, HeadTailProperties
  <1>2. Append(s, x) \in Seq(S) /\ Len(Append(s, x)) = Len(s) + 1 /\ Append(s, x)[Len(s) + 1] = x
        /\ \A k \in 1 .. Len(s) : Append(s, x)[k] = s[k]
    BY <1>1, AppendProperties
  <1> HIDE DEF x, t
  <1>3. PICK m \in Nat, n \in Nat : m = Len(s) /\ n = Len(q) BY <1>1
  <1>4. /\ s \o q \in Seq(S) /\ Len(s \o q) = m + n
        /\ \A i \in 1 .. m + n : (s \o q)[i] = IF i <= m THEN s[i] ELSE q[i - m]
    BY <1>3, ConcatProperties
  <1>a. PICK a \in Seq(S) : a = Append(s, x) /\ Len(a) = m + 1 /\ a[m + 1] = x /\ \A k \in 1 .. m : a[k] = s[k]
    BY <1>2, <1>3
  <1>b. n # 0 /\ Len(t) = n - 1 /\ \A k \in 1 .. n - 1 : t[k] = q[k + 1] BY <1>1, <1>3
  <1>5. /\ a \o t \in Seq(S) /\ Len(a \o t) = m + n
        /\ \A i \in 1 .. m + n : (a \o t)[i] = IF i <= m + 1 THEN a[i] ELSE t[i - (m + 1)]
    <2>1. a \o t \in Seq(S) /\ Len(a \o t) = Len(a) + Len(t)
          /\ \A i \in 1 .. Len(a) + Len(t) : (a \o t)[i] = IF i <= Len(a) THEN a[i] ELSE t[i - Len(a)]
      BY <1>1, ConcatProperties
    <2>2. Len(a) + Len(t) = m + n BY <1>a, <1>b
    <2> QED BY <1>a, <2>1, <2>2
  <1>7. ASSUME NEW i \in 1 .. m + n PROVE (a \o t)[i] = (s \o q)[i]
    <2>1. CASE i <= m
      <3>1. i <= m + 1 /\ i \in 1 .. m BY <2>1
      <3> QED BY <1>a, <1>4, <1>5, <2>1, <3>1
    <2>2. CASE i = m + 1
      <3>1. i - m = 1 /\ ~(i <= m) /\ i <= m + 1 BY <2>2
      <3> QED BY <1>1, <1>a, <1>4, <1>5, <2>2, <3>1
    <2>3. CASE i > m + 1
      <3>1. i - (m + 1) \in 1 .. n - 1 /\ (i - (m + 1)) + 1 = i - m /\ ~(i <= m) /\ ~(i <= m + 1) BY <2>3, <1>b
      <3>2. t[i - (m + 1)] = q[i - m] BY <1>b, <3>1
      <3> QED BY <1>4, <1>5, <3>1, <3>2
    <2>4. i <= m \/ i = m + 1 \/ i > m + 1
      <3>1. i \in Int /\ m \in Int OBVIOUS
      <3> QED BY <3>1
    <2> QED BY <2>1, <2>2, <2>3, <2>4
  <1>8. a \o t = s \o q BY <1>4, <1>5, <1>7, SeqEqual
  <1> QED BY <1>1, <1>2, <1>8, <1>a DEF x, t

LEMMA ConcatSome ==
    ASSUME NEW S, NEW s \in Seq(S), NEW x \in S, NEW y \in S, NEW z \in S
    PROVE  /\ s \o << >> = s
           /\ s \o <<x>> = Append(s, x)
           /\ s \o <<x, y>> = Append(Append(s, x), y)
           /\ s \o <<x, y, z>> = Append(Append(Append(s, x), y), z)
  <1>1. << >> \in Seq(S) /\ <<x>> = Append(<< >>, x) /\ <<x, y>> = Append(<<x>>, y) /\ <<x, y, z>> = Append(<<x, y>>, z)
        /\ <<x>> \in Seq(S) /\ <<x, y>> \in Seq(S)
    BY EmptySeq
  <1>2. s \o << >> = s BY ConcatEmptySeq
  <1>3. s \o <<x>> = Append(s, x)
    <2>1. s \o Append(<< >>, x) = Append(s \o << >>, x) BY <1>1, ConcatAppend
    <2> QED BY <1>1, <1>2, <2>1
  <1>4. s \o <<x, y>> = Append(Append(s, x), y)
    <2>1. s \o Append(<<x>>, y) = Append(s \o <<x>>, y) BY <1>1, ConcatAppend
    <2> QED BY <1>1, <1>3, <2>1
  <1>5. s \o <<x, y, z>> = Append(Append(Append(s, x), y), z)
    <2>1. s \o Append(<<x, y>>, z) = Append(s \o <<x, y>>, z) BY <1>1, ConcatAppend
    <2> QED BY <1>1, <1>4, <2>1
  <1> QED BY <1>2, <1>3, <1>4, <1>5

(* The fold over a sequence, read as a recursion over its places. *)
FoldsUp(g, n, V, base, G) ==
    /\ DOMAIN g = SUBSET (1 .. n) /\ g[{}] = base
    /\ \A s \in SUBSET (1 .. n) :
          s # {} /\ g[s \ {Max(s)}] \in V => g[s] = G[Max(s)][g[s \ {Max(s)}]]

LEMMA FoldUnrolls ==
    ASSUME NEW n \in Nat, NEW V, NEW base \in V, NEW G \in [1 .. n -> [V -> V]], NEW g, FoldsUp(g, n, V, base, G)
    PROVE  \E h : Unrolls(h, n, V, base, G) /\ h[n] = g[1 .. n]
  <1>0. /\ DOMAIN g = SUBSET (1 .. n) /\ g[{}] = base
        /\ \A s \in SUBSET (1 .. n) :
              s # {} /\ g[s \ {Max(s)}] \in V => g[s] = G[Max(s)][g[s \ {Max(s)}]]
    BY DEF FoldsUp
  <1> DEFINE h == [k \in 0 .. n |-> g[1 .. k]]
  <1>1. h[0] = base
    <2>1. 1 .. 0 = {} OBVIOUS
    <2> QED BY <1>0, <2>1
  <1>2. ASSUME NEW k \in 1 .. n, h[k - 1] \in V PROVE h[k] = G[k][h[k - 1]]
    <2>1. PICK j \in Nat : j = k - 1 /\ k = j + 1 OBVIOUS
    <2>2. 1 .. k \in SUBSET (1 .. j + 1) /\ j + 1 \in 1 .. k /\ 1 .. k \in SUBSET (1 .. n) /\ 1 .. k # {}
      <3>1. k \in Nat /\ 1 <= k /\ k <= n OBVIOUS
      <3>2. k \in 1 .. k /\ \A i \in 1 .. k : i \in 1 .. n BY <3>1
      <3>3. 1 .. k = 1 .. j + 1 BY <2>1
      <3> QED BY <2>1, <3>2, <3>3
    <2>3. Max(1 .. k) = k
      <3>1. Max(1 .. k) = j + 1 BY <2>2, MaxUpTo
      <3> QED BY <2>1, <3>1
    <2>4. (1 .. k) \ {k} = 1 .. (k - 1) OBVIOUS
    <2>5. k - 1 \in 0 .. n /\ k \in 0 .. n OBVIOUS
    <2>6. h[k - 1] = g[(1 .. k) \ {k}] /\ h[k] = g[1 .. k] BY <2>4, <2>5
    <2> HIDE DEF h
    <2> QED BY <1>0, <1>2, <2>2, <2>3, <2>6
  <1>3. DOMAIN h = 0 .. n /\ h = [k \in 0 .. n |-> h[k]] /\ h[n] = g[1 .. n] OBVIOUS
  <1> HIDE DEF h
  <1>4. Unrolls(h, n, V, base, G) BY <1>1, <1>2, <1>3, RecursionUnrolls
  <1> QED BY <1>3, <1>4

-----------------------------------------------------------------------------
(* Logs of a message stream: what one more event does to a log that is on   *)
(* its way, and that a complete one is in the protocol (SseProtocol).       *)

(***************************************************************************)
(* A stream that is on its way: n blocks were started, K says of which     *)
(* kind each is, and those in open are not stopped yet.                    *)
(***************************************************************************)
Unfinished(log) ==
    /\ At(log, "message_start") = {1} /\ At(log, "message_delta") = {}
    /\ At(log, "message_stop") = {} /\ At(log, "error") = {}

Numbered(log, n) == \A j \in At(log, "start") \cup At(log, "delta") \cup At(log, "stop") : log[j].i \in 1 .. n

StartedOnce(log, n, K) == \A b \in 1 .. n : \E s \in DOMAIN log : Of(log, "start", b) = {s} /\ log[s].what = K[b]

StoppedOnce(log, n, open) ==
    \A b \in 1 .. n : IF b \in open THEN Of(log, "stop", b) = {} ELSE \E t \in DOMAIN log : Of(log, "stop", b) = {t}

InTurn(log, n) ==
    \A b \in 1 .. n :
        /\ \A i \in Of(log, "start", b), j \in Of(log, "delta", b) : i < j
        /\ \A j \in Of(log, "delta", b), k \in Of(log, "stop", b) : j < k
        /\ \A i \in Of(log, "start", b), k \in Of(log, "stop", b) : i < k
        /\ \A i \in Of(log, "start", b), k \in Of(log, "start", b + 1) : i < k

Running(log, n, K, open) ==
    /\ Unfinished(log) /\ Numbered(log, n) /\ StartedOnce(log, n, K) /\ StoppedOnce(log, n, open)
    /\ InTurn(log, n) /\ OnlyCallsOverlap(log)

(* What one event adds to the positions of a log. *)
LEMMA AtAppend ==
    ASSUME NEW S, NEW log \in Seq(S), NEW x \in S
    PROVE  LET more == Append(log, x)
               m == Len(log) + 1
           IN  /\ more \in Seq(S) /\ m \in Nat /\ Len(more) = m /\ more[m] = x
               /\ \A j \in 1 .. Len(log) : more[j] = log[j] /\ j < m
               /\ \A e : At(more, e) = IF x.e = e THEN At(log, e) \cup {m} ELSE At(log, e)
               /\ \A e, b : Of(more, e, b) = IF x.e = e /\ x.i = b THEN Of(log, e, b) \cup {m} ELSE Of(log, e, b)
               /\ \A e : At(log, e) \subseteq 1 .. Len(log)
               /\ \A e, b : Of(log, e, b) \subseteq At(log, e)
  <1> DEFINE more == Append(log, x)
             m == Len(log) + 1
  <1>1. /\ more \in Seq(S) /\ m \in Nat /\ Len(more) = m /\ more[m] = x
        /\ \A j \in 1 .. Len(log) : more[j] = log[j]
    BY AppendProperties
  <1>2. \A j \in 1 .. Len(log) : j < m /\ j # m OBVIOUS
  <1>3. DOMAIN more = 1 .. m /\ DOMAIN log = 1 .. Len(log) /\ 1 .. m = (1 .. Len(log)) \cup {m} BY <1>1
  <1> HIDE DEF more, m
  <1>4. \A e : At(more, e) = IF x.e = e THEN At(log, e) \cup {m} ELSE At(log, e)
    BY <1>1, <1>2, <1>3 DEF At
  <1>5. \A e : At(log, e) \subseteq 1 .. Len(log) BY <1>3 DEF At
  <1>6. \A e, b : Of(more, e, b) = IF x.e = e /\ x.i = b THEN Of(log, e, b) \cup {m} ELSE Of(log, e, b)
    <2> SUFFICES ASSUME NEW e, NEW b
                 PROVE  Of(more, e, b) = IF x.e = e /\ x.i = b THEN Of(log, e, b) \cup {m} ELSE Of(log, e, b)
      OBVIOUS
    <2>1. \A j \in At(log, e) : more[j] = log[j] /\ j # m BY <1>1, <1>2, <1>5
    <2> QED BY <1>1, <1>4, <2>1 DEF Of
  <1>7. \A e, b : Of(log, e, b) \subseteq At(log, e) BY DEF Of
  <1> QED BY <1>1, <1>2, <1>4, <1>5, <1>6, <1>7 DEF more, m

LEMMA RunningBegins ==
    ASSUME NEW S, NEW x \in S, x.e = "message_start", NEW K
    PROVE  Running(<<x>>, 0, K, {})
  <1>1. <<x>> = Append(<< >>, x) /\ << >> \in Seq(S) /\ Len(<< >>) = 0 BY EmptySeq
  <1>2. \A e : At(<< >>, e) = {} BY DEF At
  <1>3. At(<<x>>, "message_start") = {1}
        /\ \A e \in {"message_delta", "message_stop", "error", "start", "delta", "stop"} : At(<<x>>, e) = {}
    <2>1. DOMAIN <<x>> = {1} /\ <<x>>[1] = x OBVIOUS
    <2> QED BY <2>1 DEF At
  <1>4. \A b \in 1 .. 0 : FALSE OBVIOUS
  <1> QED BY <1>3, <1>4 DEF Running, Unfinished, Numbered, StartedOnce, StoppedOnce, InTurn, OnlyCallsOverlap

LEMMA RunningDelta ==
    ASSUME NEW S, NEW log \in Seq(S), NEW x \in S, NEW n \in Nat, NEW K, NEW open,
           Running(log, n, K, open), x.e = "delta", x.i \in open, x.i \in 1 .. n
    PROVE  Running(Append(log, x), n, K, open)
  <1> DEFINE more == Append(log, x)
             m == Len(log) + 1
  <1>1. /\ m \in Nat /\ more[m] = x /\ DOMAIN more = 1 .. m
        /\ \A j \in 1 .. Len(log) : more[j] = log[j] /\ j < m
        /\ \A e : At(more, e) = IF x.e = e THEN At(log, e) \cup {m} ELSE At(log, e)
        /\ \A e, b : Of(more, e, b) = IF x.e = e /\ x.i = b THEN Of(log, e, b) \cup {m} ELSE Of(log, e, b)
        /\ \A e : At(log, e) \subseteq 1 .. Len(log)
        /\ \A e, b : Of(log, e, b) \subseteq At(log, e)
    BY AtAppend
  <1>2. DOMAIN log = 1 .. Len(log) /\ 1 .. Len(log) \subseteq DOMAIN more
    <2>1. Len(log) \in Nat OBVIOUS
    <2> QED BY <1>1, <2>1
  <1> HIDE DEF more, m
  <1>3. Unfinished(more) BY <1>1 DEF Running, Unfinished
  <1>4. Numbered(more, n) BY <1>1 DEF Running, Numbered
  <1>5. StartedOnce(more, n, K)
    <2> SUFFICES ASSUME NEW b \in 1 .. n PROVE \E s \in DOMAIN more : Of(more, "start", b) = {s} /\ more[s].what = K[b]
      BY DEF StartedOnce
    <2>1. PICK s \in DOMAIN log : Of(log, "start", b) = {s} /\ log[s].what = K[b] BY DEF Running, StartedOnce
    <2>2. Of(more, "start", b) = {s} /\ more[s].what = K[b] /\ s \in DOMAIN more BY <1>1, <1>2, <2>1
    <2> QED BY <2>2
  <1>6. StoppedOnce(more, n, open) BY <1>1, <1>2 DEF Running, StoppedOnce
  <1>7. InTurn(more, n)
    <2>1. \A b : Of(more, "start", b) = Of(log, "start", b) /\ Of(more, "stop", b) = Of(log, "stop", b) BY <1>1
    <2>2. Of(more, "delta", x.i) = Of(log, "delta", x.i) \cup {m} /\ Of(log, "stop", x.i) = {}
      BY <1>1 DEF Running, StoppedOnce
    <2>3. \A b : b # x.i => Of(more, "delta", b) = Of(log, "delta", b) BY <1>1
    <2>4. \A i \in Of(log, "start", x.i) : i < m BY <1>1
    <2>5. InTurn(log, n) BY DEF Running
    <2> QED BY <2>1, <2>2, <2>3, <2>4, <2>5 DEF InTurn
  <1>8. OnlyCallsOverlap(more)
    <2>1. At(more, "start") = At(log, "start") /\ \A b : Of(more, "stop", b) = Of(log, "stop", b) BY <1>1
    <2>2. \A j \in At(log, "start") : more[j] = log[j] BY <1>1
    <2> QED BY <2>1, <2>2 DEF Running, OnlyCallsOverlap
  <1> QED BY <1>3, <1>4, <1>5, <1>6, <1>7, <1>8 DEF Running, more

LEMMA RunningStop ==
    ASSUME NEW S, NEW log \in Seq(S), NEW x \in S, NEW n \in Nat, NEW K, NEW open,
           Running(log, n, K, open), x.e = "stop", x.i \in open, x.i \in 1 .. n
    PROVE  Running(Append(log, x), n, K, open \ {x.i})
  <1> DEFINE more == Append(log, x)
             m == Len(log) + 1
  <1>1. /\ m \in Nat /\ more[m] = x /\ DOMAIN more = 1 .. m
        /\ \A j \in 1 .. Len(log) : more[j] = log[j] /\ j < m
        /\ \A e : At(more, e) = IF x.e = e THEN At(log, e) \cup {m} ELSE At(log, e)
        /\ \A e, b : Of(more, e, b) = IF x.e = e /\ x.i = b THEN Of(log, e, b) \cup {m} ELSE Of(log, e, b)
        /\ \A e : At(log, e) \subseteq 1 .. Len(log)
        /\ \A e, b : Of(log, e, b) \subseteq At(log, e)
    BY AtAppend
  <1>2. DOMAIN log = 1 .. Len(log) /\ 1 .. Len(log) \subseteq DOMAIN more /\ m \in DOMAIN more
    <2>1. Len(log) \in Nat OBVIOUS
    <2> QED BY <1>1, <2>1
  <1> HIDE DEF more, m
  <1>3. Unfinished(more) BY <1>1 DEF Running, Unfinished
  <1>4. Numbered(more, n) BY <1>1 DEF Running, Numbered
  <1>5. StartedOnce(more, n, K)
    <2> SUFFICES ASSUME NEW b \in 1 .. n PROVE \E s \in DOMAIN more : Of(more, "start", b) = {s} /\ more[s].what = K[b]
      BY DEF StartedOnce
    <2>1. PICK s \in DOMAIN log : Of(log, "start", b) = {s} /\ log[s].what = K[b] BY DEF Running, StartedOnce
    <2>2. Of(more, "start", b) = {s} /\ more[s].what = K[b] /\ s \in DOMAIN more BY <1>1, <1>2, <2>1
    <2> QED BY <2>2
  <1>6. StoppedOnce(more, n, open \ {x.i})
    <2>1. Of(more, "stop", x.i) = {m} BY <1>1 DEF Running, StoppedOnce
    <2>2. \A b : b # x.i => Of(more, "stop", b) = Of(log, "stop", b) BY <1>1
    <2> QED BY <1>2, <2>1, <2>2 DEF Running, StoppedOnce
  <1>7. InTurn(more, n)
    <2>1. \A b : Of(more, "start", b) = Of(log, "start", b) /\ Of(more, "delta", b) = Of(log, "delta", b) BY <1>1
    <2>2. Of(more, "stop", x.i) = {m} BY <1>1 DEF Running, StoppedOnce
    <2>3. \A b : b # x.i => Of(more, "stop", b) = Of(log, "stop", b) BY <1>1
    <2>4. \A i \in Of(log, "start", x.i) \cup Of(log, "delta", x.i) : i < m BY <1>1
    <2>5. InTurn(log, n) BY DEF Running
    <2> QED BY <2>1, <2>2, <2>3, <2>4, <2>5 DEF InTurn
  <1>8. OnlyCallsOverlap(more)
    <2>1. At(more, "start") = At(log, "start") /\ \A b : Of(log, "stop", b) \subseteq Of(more, "stop", b) BY <1>1
    <2>2. \A j \in At(log, "start") : more[j] = log[j] BY <1>1
    <2> QED BY <2>1, <2>2 DEF Running, OnlyCallsOverlap
  <1> QED BY <1>3, <1>4, <1>5, <1>6, <1>7, <1>8 DEF Running, more

LEMMA RunningStart ==
    ASSUME NEW S, NEW log \in Seq(S), NEW x \in S, NEW n \in Nat, NEW K, NEW open, NEW L,
           Running(log, n, K, open), x.e = "start", x.i = n + 1, open \subseteq 1 .. n,
           \A b \in open : K[b] # "text" /\ (K[b] = "tool" \/ x.what = "tool"),
           L[n + 1] = x.what, \A b \in 1 .. n : L[b] = K[b]
    PROVE  Running(Append(log, x), n + 1, L, open \cup {n + 1})
  <1> DEFINE more == Append(log, x)
             m == Len(log) + 1
  <1>1. /\ m \in Nat /\ more[m] = x /\ DOMAIN more = 1 .. m
        /\ \A j \in 1 .. Len(log) : more[j] = log[j] /\ j < m
        /\ \A e : At(more, e) = IF x.e = e THEN At(log, e) \cup {m} ELSE At(log, e)
        /\ \A e, b : Of(more, e, b) = IF x.e = e /\ x.i = b THEN Of(log, e, b) \cup {m} ELSE Of(log, e, b)
        /\ \A e : At(log, e) \subseteq 1 .. Len(log)
        /\ \A e, b : Of(log, e, b) \subseteq At(log, e)
    BY AtAppend
  <1>2. DOMAIN log = 1 .. Len(log) /\ 1 .. Len(log) \subseteq DOMAIN more /\ m \in DOMAIN more
    <2>1. Len(log) \in Nat OBVIOUS
    <2> QED BY <1>1, <2>1
  <1> HIDE DEF more, m
  <1>3. Unfinished(more) BY <1>1 DEF Running, Unfinished
  <1>4. Numbered(more, n + 1) BY <1>1 DEF Running, Numbered
  <1>5. n + 1 \notin 1 .. n /\ n + 1 \in 1 .. n + 1 /\ 1 .. n + 1 = (1 .. n) \cup {n + 1} /\ n + 2 \notin 1 .. n + 1
        /\ \A b \in 1 .. n : b # n + 1 /\ b + 1 \in 1 .. n + 1 /\ b # n + 2
    OBVIOUS
  <1>6. \A e \in {"start", "delta", "stop"} : Of(log, e, n + 1) = {} /\ Of(log, e, n + 2) = {}
    <2>1. \A e \in {"start", "delta", "stop"} : \A j \in At(log, e) : log[j].i # n + 1 /\ log[j].i # n + 2
      BY <1>5 DEF Running, Numbered
    <2> QED BY <2>1 DEF Of
  <1>7. /\ Of(more, "start", n + 1) = {m} /\ Of(more, "stop", n + 1) = {} /\ Of(more, "delta", n + 1) = {}
        /\ Of(more, "start", n + 2) = {}
        /\ \A b \in 1 .. n : Of(more, "start", b) = Of(log, "start", b)
        /\ \A b : Of(more, "stop", b) = Of(log, "stop", b) /\ Of(more, "delta", b) = Of(log, "delta", b)
    <2>1. n + 1 # n + 2 OBVIOUS
    <2> QED BY <1>1, <1>5, <1>6, <2>1
  <1>8. StartedOnce(more, n + 1, L)
    <2>1. ASSUME NEW b \in 1 .. n PROVE \E s \in DOMAIN more : Of(more, "start", b) = {s} /\ more[s].what = L[b]
      <3>1. PICK s \in DOMAIN log : Of(log, "start", b) = {s} /\ log[s].what = K[b] BY DEF Running, StartedOnce
      <3> QED BY <1>1, <1>2, <1>7, <3>1
    <2>2. \E s \in DOMAIN more : Of(more, "start", n + 1) = {s} /\ more[s].what = L[n + 1] BY <1>1, <1>2, <1>7
    <2> QED BY <1>5, <2>1, <2>2 DEF StartedOnce
  <1>9. StoppedOnce(more, n + 1, open \cup {n + 1})
    BY <1>2, <1>5, <1>7 DEF Running, StoppedOnce
  <1>10. InTurn(more, n + 1)
    <2>1. ASSUME NEW b \in 1 .. n
          PROVE  /\ \A i \in Of(more, "start", b), j \in Of(more, "delta", b) : i < j
                 /\ \A j \in Of(more, "delta", b), k \in Of(more, "stop", b) : j < k
                 /\ \A i \in Of(more, "start", b), k \in Of(more, "stop", b) : i < k
      BY <1>7 DEF Running, InTurn
    <2>2. ASSUME NEW b \in 1 .. n PROVE \A i \in Of(more, "start", b), k \in Of(more, "start", b + 1) : i < k
      <3>1. CASE b + 1 \in 1 .. n BY <1>7, <3>1 DEF Running, InTurn
      <3>2. CASE b + 1 = n + 1
        <4>1. \A i \in Of(log, "start", b) : i < m BY <1>1
        <4> QED BY <1>7, <3>2, <4>1
      <3> QED BY <1>5, <3>1, <3>2
    <2>3. (n + 1) + 1 = n + 2 OBVIOUS
    <2> QED BY <1>5, <1>7, <2>1, <2>2, <2>3 DEF InTurn
  <1>11. OnlyCallsOverlap(more)
    <2> SUFFICES ASSUME NEW i \in At(more, "start"), NEW j \in At(more, "start"), i < j,
                        more[i].what = "text" \/ "tool" \notin {more[i].what, more[j].what}
                 PROVE  \E k \in Of(more, "stop", more[i].i) : k < j
      BY DEF OnlyCallsOverlap
    <2>0. At(more, "start") = At(log, "start") \cup {m} /\ i \in Int /\ j \in Int BY <1>1
    <2>1. i \in At(log, "start") /\ more[i] = log[i] BY <1>1, <2>0
    <2>2. CASE j \in At(log, "start")
      BY <1>1, <1>7, <2>1, <2>2 DEF Running, OnlyCallsOverlap
    <2>3. CASE j = m
      <3> DEFINE b == log[i].i
      <3>1. b \in 1 .. n BY <2>1 DEF Running, Numbered
      <3>2. log[i].what = K[b]
        <4>1. PICK s \in DOMAIN log : Of(log, "start", b) = {s} /\ log[s].what = K[b]
          BY <3>1 DEF Running, StartedOnce
        <4>2. i \in Of(log, "start", b) BY <2>1 DEF Of
        <4> QED BY <4>1, <4>2
      <3>3. b \notin open BY <1>1, <2>1, <2>3, <3>2
      <3>4. PICK t \in DOMAIN log : Of(log, "stop", b) = {t} BY <3>1, <3>3 DEF Running, StoppedOnce
      <3>5. t < m BY <1>1, <1>2, <3>4
      <3> QED BY <1>7, <2>1, <2>3, <3>4, <3>5
    <2> QED BY <2>0, <2>2, <2>3
  <1> QED BY <1>3, <1>4, <1>8, <1>9, <1>10, <1>11 DEF Running, more

BlocksSound(log) ==
    /\ \A i \in At(log, "delta") \cup At(log, "stop") : Of(log, "start", log[i].i) # {}
    /\ \A i \in At(log, "start") : BlockInOrder(log, log[i].i)
    /\ OnlyCallsOverlap(log)

SameOfBlocks(more, log) ==
    \A e \in {"start", "delta", "stop"} :
        /\ At(more, e) = At(log, e) /\ \A b : Of(more, e, b) = Of(log, e, b)
        /\ \A i \in At(more, e) : more[i] = log[i]

LEMMA RunningBlocks ==
    ASSUME NEW S, NEW log \in Seq(S), NEW n \in Nat, NEW K, NEW open, Running(log, n, K, open)
    PROVE  /\ BlocksSound(log)
           /\ open = {} => \A j \in At(log, "start") : Of(log, "stop", log[j].i) # {}
  <1>1. \A j \in At(log, "start") \cup At(log, "delta") \cup At(log, "stop") : log[j].i \in 1 .. n
    BY DEF Running, Numbered
  <1>2. ASSUME NEW b \in 1 .. n PROVE BlockInOrder(log, b) /\ Of(log, "start", b) # {}
    <2>1. Cardinality(Of(log, "start", b)) = 1 /\ Of(log, "start", b) # {}
      <3>1. PICK s : Of(log, "start", b) = {s} BY DEF Running, StartedOnce
      <3> QED BY <3>1, FS_Singleton
    <2>2. Cardinality(Of(log, "stop", b)) <= 1
      <3>1. CASE Of(log, "stop", b) = {}
        <4>1. Cardinality({}) = 0 BY FS_EmptySet
        <4> QED BY <3>1, <4>1
      <3>2. CASE \E t : Of(log, "stop", b) = {t}
        <4>1. PICK t : Of(log, "stop", b) = {t} BY <3>2
        <4>2. Cardinality({t}) = 1 BY FS_Singleton
        <4>3. Cardinality(Of(log, "stop", b)) = 1 BY <4>1, <4>2
        <4> QED BY <4>3
      <3> QED BY <3>1, <3>2 DEF Running, StoppedOnce
    <2> QED BY <2>1, <2>2 DEF Running, InTurn, BlockInOrder
  <1>3. open = {} => \A b \in 1 .. n : Of(log, "stop", b) # {} BY DEF Running, StoppedOnce
  <1>4. OnlyCallsOverlap(log) BY DEF Running
  <1> QED BY <1>1, <1>2, <1>3, <1>4 DEF BlocksSound

LEMMA RunningInProtocol ==
    ASSUME NEW S, NEW log \in Seq(S), NEW n \in Nat, NEW K, NEW open, Running(log, n, K, open)
    PROVE  InProtocol(log)
  <1>1. Unfinished(log) BY DEF Running
  <1> QED BY <1>1, RunningBlocks DEF InProtocol, Unfinished, BlocksSound

(* The log with an event that is not about a block says the same of blocks. *)
LEMMA SameBlocks ==
    ASSUME NEW S, NEW log \in Seq(S), NEW x \in S, x.e \notin {"start", "delta", "stop"}, BlocksSound(log)
    PROVE  BlocksSound(Append(log, x)) /\ SameOfBlocks(Append(log, x), log)
  <1> DEFINE more == Append(log, x)
  <1>1. SameOfBlocks(more, log)
    <2>1. \A e \in {"start", "delta", "stop"} : x.e # e OBVIOUS
    <2>2. /\ \A j \in 1 .. Len(log) : more[j] = log[j]
          /\ \A e : At(more, e) = IF x.e = e THEN At(log, e) \cup {Len(log) + 1} ELSE At(log, e)
          /\ \A e, b : Of(more, e, b) = IF x.e = e /\ x.i = b THEN Of(log, e, b) \cup {Len(log) + 1} ELSE Of(log, e, b)
          /\ \A e : At(log, e) \subseteq 1 .. Len(log)
      BY AtAppend
    <2> HIDE DEF more
    <2> QED BY <2>1, <2>2 DEF SameOfBlocks
  <1> HIDE DEF more
  <1>2. \A b : BlockInOrder(log, b) => BlockInOrder(more, b) BY <1>1 DEF BlockInOrder, SameOfBlocks
  <1>3. OnlyCallsOverlap(more) BY <1>1 DEF OnlyCallsOverlap, SameOfBlocks, BlocksSound
  <1>4. BlocksSound(more) BY <1>1, <1>2, <1>3 DEF BlocksSound, SameOfBlocks
  <1> QED BY <1>1, <1>4 DEF more

LEMMA RunningFails ==
    ASSUME NEW S, NEW log \in Seq(S), NEW x \in S, NEW n \in Nat, NEW K, NEW open,
           Running(log, n, K, open), x.e = "error"
    PROVE  InProtocol(Append(log, x)) /\ At(Append(log, x), "message_delta") = {}
           /\ At(Append(log, x), "message_stop") = {}
  <1> DEFINE more == Append(log, x)
  <1>1. BlocksSound(more)
    <2>1. x.e \notin {"start", "delta", "stop"} /\ BlocksSound(log) BY RunningBlocks
    <2> QED BY <2>1, SameBlocks
  <1>2. /\ Len(more) = Len(log) + 1
        /\ \A e : At(more, e) = IF x.e = e THEN At(log, e) \cup {Len(log) + 1} ELSE At(log, e)
    BY AtAppend
  <1> HIDE DEF more
  <1>3. /\ At(more, "message_start") = {1} /\ At(more, "message_delta") = {} /\ At(more, "message_stop") = {}
        /\ At(more, "error") = {Len(more)}
    BY <1>2 DEF Running, Unfinished
  <1>4. InProtocol(more) BY <1>1, <1>3 DEF InProtocol, BlocksSound
  <1> QED BY <1>3, <1>4 DEF more

LEMMA RunningEnds ==
    ASSUME NEW S, NEW log \in Seq(S), NEW x \in S, NEW y \in S, NEW n \in Nat, NEW K,
           Running(log, n, K, {}), x.e = "message_delta", y.e = "message_stop"
    PROVE  InProtocol(Append(Append(log, x), y))
  <1> DEFINE part == Append(log, x)
             more == Append(part, y)
  <1>0. x.e \notin {"start", "delta", "stop"} /\ y.e \notin {"start", "delta", "stop"} OBVIOUS
  <1>1. part \in Seq(S) /\ BlocksSound(part) /\ SameOfBlocks(part, log)
    <2>1. part \in Seq(S) BY AppendProperties
    <2>2. BlocksSound(log) BY RunningBlocks
    <2> QED BY <1>0, <2>1, <2>2, SameBlocks
  <1>2. /\ Len(part) = Len(log) + 1 /\ Len(log) \in Nat
        /\ \A e : At(part, e) = IF x.e = e THEN At(log, e) \cup {Len(log) + 1} ELSE At(log, e)
    BY AtAppend
  <1> HIDE DEF part
  <1>3. BlocksSound(more) /\ SameOfBlocks(more, part) BY <1>0, <1>1, SameBlocks
  <1>4. /\ Len(more) = Len(part) + 1
        /\ \A e : At(more, e) = IF y.e = e THEN At(part, e) \cup {Len(part) + 1} ELSE At(part, e)
    BY <1>1, AtAppend
  <1> HIDE DEF more
  <1>5. /\ At(more, "message_start") = {1} /\ At(more, "message_delta") = {Len(more) - 1}
        /\ At(more, "message_stop") = {Len(more)} /\ At(more, "error") = {} /\ Len(more) = (Len(more) - 1) + 1
    BY <1>2, <1>4 DEF Running, Unfinished
  <1>6. \A j \in At(more, "start") : Of(more, "stop", more[j].i) # {}
    <2>1. \A j \in At(log, "start") : Of(log, "stop", log[j].i) # {} BY RunningBlocks
    <2> QED BY <1>1, <1>3, <2>1 DEF SameOfBlocks
  <1>7. InProtocol(more) BY <1>3, <1>5, <1>6 DEF InProtocol, BlocksSound
  <1> QED BY <1>7 DEF more, part

(* Of a message that keeps the protocol, what is read before its end does. *)
LEMMA ProtocolPrefix ==
    ASSUME NEW S, NEW log \in Seq(S), NEW q \in Seq(S), log # << >>, q # << >>,
           InProtocol(log \o q), At(log, "message_delta") = {}
    PROVE  InProtocol(log) /\ At(log, "message_stop") = {} /\ At(log, "error") = {}
  <1> DEFINE w == log \o q
  <1>1. PICK m \in Nat \ {0}, n \in Nat \ {0} : m = Len(log) /\ n = Len(q) BY EmptySeq
  <1>2. /\ Len(w) = m + n /\ DOMAIN w = 1 .. m + n /\ DOMAIN log = 1 .. m
        /\ \A j \in 1 .. m : w[j] = log[j]
    <2>1. w \in Seq(S) /\ Len(w) = m + n /\ \A i \in 1 .. m + n : w[i] = IF i <= m THEN log[i] ELSE q[i - m]
      BY <1>1, ConcatProperties
    <2>2. DOMAIN w = 1 .. Len(w) /\ DOMAIN log = 1 .. Len(log) BY <2>1
    <2>3. \A j \in 1 .. m : j \in 1 .. m + n /\ j <= m OBVIOUS
    <2> QED BY <1>1, <2>1, <2>2, <2>3
  <1> HIDE DEF w
  <1>3. InProtocol(w) BY DEF w
  <1>4. 1 .. m \subseteq 1 .. m + n /\ 1 \in 1 .. m /\ m + n \notin 1 .. m
        /\ \A i \in 1 .. m + n, j \in 1 .. m : i < j => i \in 1 .. m
    BY <1>1
  <1>5. /\ \A e : At(log, e) = At(w, e) \cap (1 .. m) /\ At(w, e) \subseteq 1 .. m + n
        /\ \A e, b : Of(log, e, b) = Of(w, e, b) \cap (1 .. m) /\ Of(w, e, b) \subseteq At(w, e)
        /\ \A e : \A j \in At(log, e) : w[j] = log[j]
    <2>1. \A e : At(log, e) = At(w, e) \cap (1 .. m) /\ At(w, e) \subseteq 1 .. m + n BY <1>2, <1>4 DEF At
    <2> QED BY <1>2, <2>1 DEF Of
  <1>6. At(log, "message_start") = {1} BY <1>3, <1>4, <1>5 DEF InProtocol
  <1>7. \A i \in At(w, "start") : \A j \in Of(w, "delta", w[i].i) \cup Of(w, "stop", w[i].i) : i < j
    <2>1. \A i \in At(w, "start") : i \in Of(w, "start", w[i].i) /\ BlockInOrder(w, w[i].i)
      BY <1>3 DEF InProtocol, Of
    <2> QED BY <2>1 DEF BlockInOrder
  <1>8. ASSUME NEW i \in At(log, "delta") \cup At(log, "stop") PROVE Of(log, "start", log[i].i) # {}
    <2>1. i \in At(w, "delta") \cup At(w, "stop") /\ w[i] = log[i] /\ i \in 1 .. m BY <1>5
    <2>2. PICK s : s \in Of(w, "start", log[i].i) BY <1>3, <2>1 DEF InProtocol
    <2>3. s \in At(w, "start") /\ w[s].i = log[i].i /\ i \in Of(w, "delta", log[i].i) \cup Of(w, "stop", log[i].i)
      BY <2>1, <2>2 DEF Of
    <2>4. s < i /\ s \in 1 .. m + n BY <1>5, <1>7, <2>3
    <2>5. s \in 1 .. m BY <1>4, <2>1, <2>4
    <2> QED BY <1>5, <2>2, <2>5
  <1>9. ASSUME NEW i \in At(log, "start") PROVE BlockInOrder(log, log[i].i)
    <2> DEFINE b == log[i].i
    <2>1. i \in At(w, "start") /\ w[i].i = b /\ i \in Of(log, "start", b) /\ i \in Of(w, "start", b)
      BY <1>5 DEF Of
    <2> HIDE DEF b
    <2>2. BlockInOrder(w, b) BY <1>3, <2>1 DEF InProtocol
    <2>3. \A e : IsFiniteSet(Of(w, e, b))
      <3>1. IsFiniteSet(1 .. m + n) BY FS_Interval
      <3>2. \A e : Of(w, e, b) \subseteq 1 .. m + n BY <1>5
      <3> QED BY <3>1, <3>2, FS_Subset
    <2>4. Cardinality(Of(log, "start", b)) = 1
      <3>1. Cardinality(Of(w, "start", b)) = 1 BY <2>2 DEF BlockInOrder
      <3>2. PICK x : Of(w, "start", b) = {x} BY <2>3, <3>1, FS_Singleton
      <3>3. Of(log, "start", b) = {x} BY <1>5, <2>1, <3>2
      <3>4. Cardinality({x}) = 1 BY FS_Singleton
      <3> QED BY <3>3, <3>4
    <2>5. Cardinality(Of(log, "stop", b)) <= 1
      <3>1. Of(log, "stop", b) \subseteq Of(w, "stop", b) BY <1>5
      <3>2. Cardinality(Of(w, "stop", b)) <= 1 BY <2>2 DEF BlockInOrder
      <3>3. Cardinality(Of(log, "stop", b)) <= Cardinality(Of(w, "stop", b)) BY <2>3, <3>1, FS_Subset
      <3>4. IsFiniteSet(Of(log, "stop", b)) BY <2>3, <3>1, FS_Subset
      <3>5. Cardinality(Of(log, "stop", b)) \in Nat /\ Cardinality(Of(w, "stop", b)) \in Nat
        BY <2>3, <3>4, FS_CardinalityType
      <3> QED BY <3>2, <3>3, <3>5
    <2>6. \A e, c : Of(log, e, c) \subseteq Of(w, e, c) BY <1>5
    <2>7. BlockInOrder(log, b) BY <2>2, <2>4, <2>5, <2>6 DEF BlockInOrder
    <2> QED BY <2>7 DEF b
  <1>10. OnlyCallsOverlap(log)
    <2> SUFFICES ASSUME NEW i \in At(log, "start"), NEW j \in At(log, "start"), i < j,
                        log[i].what = "text" \/ "tool" \notin {log[i].what, log[j].what}
                 PROVE  \E k \in Of(log, "stop", log[i].i) : k < j
      BY DEF OnlyCallsOverlap
    <2>1. i \in At(w, "start") /\ j \in At(w, "start") /\ w[i] = log[i] /\ w[j] = log[j] /\ j \in 1 .. m BY <1>5
    <2>2. PICK k \in Of(w, "stop", log[i].i) : k < j BY <1>3, <2>1 DEF InProtocol, OnlyCallsOverlap
    <2>3. k \in 1 .. m BY <1>4, <1>5, <2>1, <2>2
    <2> QED BY <1>5, <2>2, <2>3
  <1>11. At(log, "error") = {}
    <2>1. \A i \in At(w, "error") : i = m + n BY <1>2, <1>3 DEF InProtocol
    <2> QED BY <1>4, <1>5, <2>1
  <1>12. At(log, "message_stop") = {}
    <2>1. CASE At(w, "message_delta") = {} BY <1>3, <1>5, <2>1 DEF InProtocol
    <2>2. CASE \E i : i \in At(w, "message_delta")
      <3>1. PICK i : i \in At(w, "message_delta") BY <2>2
      <3>2. i = Len(w) - 1 /\ At(w, "message_stop") = {i + 1} BY <1>3, <3>1 DEF InProtocol
      <3>3. i + 1 = m + n BY <1>2, <3>2
      <3> QED BY <1>4, <1>5, <3>2, <3>3
    <2> QED BY <2>1, <2>2
  <1> QED BY <1>6, <1>8, <1>9, <1>10, <1>11, <1>12 DEF InProtocol

(* What is read before the end may break off. *)
LEMMA ProtocolFails ==
    ASSUME NEW S, NEW log \in Seq(S), NEW x \in S, x.e = "error",
           InProtocol(log), At(log, "message_delta") = {}, At(log, "error") = {}
    PROVE  InProtocol(Append(log, x)) /\ At(Append(log, x), "message_delta") = {}
           /\ At(Append(log, x), "message_stop") = {}
  <1> DEFINE more == Append(log, x)
  <1>1. BlocksSound(more)
    <2>1. x.e \notin {"start", "delta", "stop"} /\ BlocksSound(log) BY DEF InProtocol, BlocksSound
    <2> QED BY <2>1, SameBlocks
  <1>2. /\ Len(more) = Len(log) + 1
        /\ \A e : At(more, e) = IF x.e = e THEN At(log, e) \cup {Len(log) + 1} ELSE At(log, e)
    BY AtAppend
  <1> HIDE DEF more
  <1>3. /\ At(more, "message_start") = {1} /\ At(more, "message_delta") = {} /\ At(more, "message_stop") = {}
        /\ At(more, "error") = {Len(more)}
    BY <1>2 DEF InProtocol
  <1>4. InProtocol(more) BY <1>1, <1>3 DEF InProtocol, BlocksSound
  <1> QED BY <1>3, <1>4 DEF more

(* Only the kinds of the blocks that were started matter. *)
LEMMA RunningKinds ==
    ASSUME NEW log, NEW n \in Nat, NEW K, NEW L, NEW open, Running(log, n, K, open), \A b \in 1 .. n : L[b] = K[b]
    PROVE  Running(log, n, L, open)
  <1>1. StartedOnce(log, n, L)
    <2> SUFFICES ASSUME NEW b \in 1 .. n PROVE \E s \in DOMAIN log : Of(log, "start", b) = {s} /\ log[s].what = L[b]
      BY DEF StartedOnce
    <2>1. PICK s \in DOMAIN log : Of(log, "start", b) = {s} /\ log[s].what = K[b] BY DEF Running, StartedOnce
    <2> QED BY <2>1
  <1> QED BY <1>1 DEF Running

(* A whole block, at the end. *)
LEMMA RunningBlock ==
    ASSUME NEW S, NEW log \in Seq(S), NEW n \in Nat, NEW K, Running(log, n, K, {}),
           NEW x \in S, NEW y \in S, NEW z \in S,
           x.e = "start", x.i = n + 1, x.what = K[n + 1], y.e = "delta", y.i = n + 1, z.e = "stop", z.i = n + 1
    PROVE  /\ Append(Append(log, x), z) \in Seq(S) /\ Running(Append(Append(log, x), z), n + 1, K, {})
           /\ Append(Append(Append(log, x), y), z) \in Seq(S)
           /\ Running(Append(Append(Append(log, x), y), z), n + 1, K, {})
  <1>1. n + 1 \in Nat /\ n + 1 \in 1 .. n + 1 /\ {} \subseteq 1 .. n
        /\ \A b \in {} : K[b] # "text" /\ (K[b] = "tool" \/ x.what = "tool")
    OBVIOUS
  <1>2. Append(log, x) \in Seq(S) /\ Running(Append(log, x), n + 1, K, {} \cup {n + 1})
    <2>1. Append(log, x) \in Seq(S) BY AppendProperties
    <2>2. Running(Append(log, x), n + 1, K, {} \cup {n + 1}) BY <1>1, RunningStart
    <2> QED BY <2>1, <2>2
  <1> DEFINE p == Append(log, x)
  <1>3. p \in Seq(S) /\ Running(p, n + 1, K, {n + 1})
    <2>1. {} \cup {n + 1} = {n + 1} OBVIOUS
    <2> QED BY <1>2, <2>1
  <1> HIDE DEF p
  <1>4. {n + 1} \ {n + 1} = {} /\ n + 1 \in {n + 1} OBVIOUS
  <1>5. Append(p, z) \in Seq(S) /\ Running(Append(p, z), n + 1, K, {})
    <2>1. Append(p, z) \in Seq(S) BY <1>3, AppendProperties
    <2>2. Running(Append(p, z), n + 1, K, {n + 1} \ {z.i}) BY <1>1, <1>3, <1>4, RunningStop
    <2> QED BY <1>4, <2>1, <2>2
  <1> DEFINE q == Append(p, y)
  <1>6. q \in Seq(S) /\ Running(q, n + 1, K, {n + 1})
    <2>1. q \in Seq(S) BY <1>3, AppendProperties
    <2>2. Running(q, n + 1, K, {n + 1}) BY <1>1, <1>3, <1>4, RunningDelta
    <2> QED BY <2>1, <2>2
  <1> HIDE DEF q
  <1>7. Append(q, z) \in Seq(S) /\ Running(Append(q, z), n + 1, K, {})
    <2>1. Append(q, z) \in Seq(S) BY <1>6, AppendProperties
    <2>2. Running(Append(q, z), n + 1, K, {n + 1} \ {z.i}) BY <1>1, <1>4, <1>6, RunningStop
    <2> QED BY <1>4, <2>1, <2>2
  <1> QED BY <1>5, <1>7 DEF p, q

LEMMA RunningStartsAlone ==
    ASSUME NEW S, NEW log \in Seq(S), NEW n \in Nat, NEW K, Running(log, n, K, {}),
           NEW x \in S, x.e = "start", x.i = n + 1
    PROVE  \E L : /\ L[n + 1] = x.what /\ \A b \in 1 .. n : L[b] = K[b]
                  /\ Running(Append(log, x), n + 1, L, {n + 1})
  <1> DEFINE M == [b \in 1 .. n + 1 |-> IF b = n + 1 THEN x.what ELSE K[b]]
  <1>1. M[n + 1] = x.what /\ \A b \in 1 .. n : M[b] = K[b]
    <2>1. \A b \in 1 .. n : b \in 1 .. n + 1 /\ b # n + 1 OBVIOUS
    <2>2. n + 1 \in 1 .. n + 1 OBVIOUS
    <2> QED BY <2>1, <2>2
  <1>2. PICK L : L = M OBVIOUS
  <1>3. L[n + 1] = x.what /\ \A b \in 1 .. n : L[b] = K[b] BY <1>1, <1>2
  <1> HIDE DEF M
  <1>4. {} \subseteq 1 .. n /\ \A b \in {} : K[b] # "text" /\ (K[b] = "tool" \/ x.what = "tool") OBVIOUS
  <1>5. Running(Append(log, x), n + 1, L, {} \cup {n + 1}) BY <1>3, <1>4, RunningStart
  <1>6. {} \cup {n + 1} = {n + 1} OBVIOUS
  <1> QED BY <1>3, <1>5, <1>6

-----------------------------------------------------------------------------
(* The context of a live reply: its types, its core (its log is on its way  *)
(* and says which blocks are open), and what a single event sent does to it. *)

Letters == {"w", "sp", "o1", "o2", "c1", "c2", "iv", "fl", "l", "r", "{}"}

(* Where a property holds first, and the parts of a text. *)
Least(T) == CHOOSE i \in T : \A j \in T : i <= j

LEMMA FirstAt ==
    ASSUME NEW n \in Nat, NEW T \in SUBSET (1 .. n), NEW f, f = IF T = {} THEN 0 ELSE Least(T)
    PROVE  f \in 0 .. n /\ (f # 0 => f \in T) /\ (T # {} => f # 0)
  <1>1. CASE T = {} BY <1>1
  <1>2. CASE T # {}
    <2>1. T \in SUBSET Nat OBVIOUS
    <2>2. \E x \in T : \A y \in T : x <= y BY <1>2, <2>1, LeastOf
    <2>3. Least(T) \in T BY <1>2, <2>2 DEF Least
    <2>4. f = Least(T) BY <1>2
    <2>5. f \in T BY <2>3, <2>4
    <2>6. \A i \in T : i \in 0 .. n /\ i # 0 OBVIOUS
    <2> QED BY <1>2, <2>5, <2>6
  <1> QED BY <1>1, <1>2

LEMMA TagPlaces ==
    ASSUME NEW s \in Seq(Letters)
    PROVE  /\ EndTag(s) \in 0 .. Len(s) /\ EndTagAtEnd(s) \in 0 .. Len(s)
           /\ EndTag(s) # 0 => EndTag(s) < Len(s)
           /\ EndTagAtEnd(s) # 0 => EndTagAtEnd(s) < Len(s)
  <1>1. Len(s) \in Nat /\ DOMAIN s = 1 .. Len(s) OBVIOUS
  <1>2. EndTag(s) \in 0 .. Len(s) /\ (EndTag(s) # 0 => EndTag(s) < Len(s))
    <2> DEFINE T == {i \in DOMAIN s : ClosesAt(s, i) /\ i + 2 <= Len(s) /\ s[i + 2] = "sp"}
    <2>1. EndTag(s) = IF T = {} THEN 0 ELSE Least(T) BY DEF Least, EndTag, First
    <2>2. T \in SUBSET (1 .. Len(s)) BY <1>1
    <2>3. \A i \in T : i < Len(s) BY DEF ClosesAt
    <2> HIDE DEF T
    <2>4. EndTag(s) \in 0 .. Len(s) /\ (EndTag(s) # 0 => EndTag(s) \in T) BY <1>1, <2>1, <2>2, FirstAt
    <2> QED BY <2>3, <2>4
  <1>3. EndTagAtEnd(s) \in 0 .. Len(s) /\ (EndTagAtEnd(s) # 0 => EndTagAtEnd(s) < Len(s))
    <2> DEFINE T == {i \in DOMAIN s : ClosesAt(s, i) /\ Blank(From(s, i + 2))}
    <2>1. EndTagAtEnd(s) = IF T = {} THEN 0 ELSE Least(T) BY DEF Least, EndTagAtEnd, First
    <2>2. T \in SUBSET (1 .. Len(s)) BY <1>1
    <2>3. \A i \in T : i < Len(s) BY DEF ClosesAt
    <2> HIDE DEF T
    <2>4. EndTagAtEnd(s) \in 0 .. Len(s) /\ (EndTagAtEnd(s) # 0 => EndTagAtEnd(s) \in T) BY <1>1, <2>1, <2>2, FirstAt
    <2> QED BY <2>3, <2>4
  <1> QED BY <1>2, <1>3

LEMMA PartOfText ==
    ASSUME NEW A, NEW s \in Seq(A), NEW i \in Int, 1 <= i, NEW j \in Int, j <= Len(s)
    PROVE  SubSeq(s, i, j) \in Seq(A) /\ (i <= j + 1 => Len(SubSeq(s, i, j)) = j - i + 1)
  <1>1. \A k \in i .. j : s[k] \in A
    <2>1. \A k \in i .. j : k \in 1 .. Len(s) OBVIOUS
    <2> QED BY <2>1, ElementOfSeq
  <1> QED BY <1>1, SubSeqProperties

LEMMA TextParts ==
    ASSUME NEW A, NEW s \in Seq(A)
    PROVE  /\ \A i \in 0 .. Len(s) : From(s, i + 1) \in Seq(A) /\ From(s, i + 2) \in Seq(A)
           /\ \A i \in 1 .. Len(s) : From(s, i) \in Seq(A) /\ Before(s, i) \in Seq(A)
           /\ Trimmed(s) \in Seq(A) /\ Held(s) \in Seq(A) /\ Released(s) \in Seq(A) /\ Unflooded(s) \in Seq(A)
  <1>1. Len(s) \in Nat /\ DOMAIN s = 1 .. Len(s) /\ << >> \in Seq(A) BY EmptySeq
  <1>2. \A i \in Nat \ {0} : From(s, i) \in Seq(A) BY <1>1, PartOfText DEF From
  <1>3. \A i \in 1 .. Len(s) : Before(s, i) \in Seq(A) BY <1>1, PartOfText DEF Before
  <1>4. Trimmed(s) \in Seq(A)
    <2> DEFINE T == {j \in DOMAIN s : s[j] # "sp"}
               f == First(s, LAMBDA j : s[j] # "sp")
    <2>1. f = IF T = {} THEN 0 ELSE Least(T) BY DEF Least, First
    <2>2. Trimmed(s) = IF f = 0 THEN << >> ELSE From(s, f) BY DEF Trimmed
    <2>3. T \in SUBSET (1 .. Len(s)) BY <1>1
    <2> HIDE DEF T, f
    <2>4. f \in 0 .. Len(s) BY <1>1, <2>1, <2>3, FirstAt
    <2> QED BY <1>1, <1>2, <2>2, <2>4
  <1>5. Held(s) \in Seq(A) /\ Released(s) \in Seq(A)
    <2>1. Group(s) \in 0 .. Len(s)
      <3>1. PICK last : last = SelectLastInSeq(s, LAMBDA x : x \notin {"iv", "sp"}) OBVIOUS
      <3> DEFINE T == {i \in DOMAIN s : i > last /\ s[i] = "iv"}
      <3>2. Group(s) = IF T = {} THEN 0 ELSE Least(T) BY <3>1 DEF Least, Group, First
      <3>3. T \in SUBSET (1 .. Len(s)) BY <1>1
      <3> HIDE DEF T
      <3> QED BY <1>1, <3>2, <3>3, FirstAt
    <2> QED BY <1>1, <1>2, <1>3, <2>1 DEF Held, Released
  <1>6. Unflooded(s) \in Seq(A)
    <2> DEFINE T == {j \in DOMAIN s : s[j] = "fl"}
               f == First(s, LAMBDA j : s[j] = "fl")
    <2>1. f = IF T = {} THEN 0 ELSE Least(T) BY DEF Least, First
    <2>2. Unflooded(s) = IF T # {} THEN Before(s, f) ELSE s BY DEF Unflooded, Flooded
    <2>3. T \in SUBSET (1 .. Len(s)) BY <1>1
    <2> HIDE DEF T, f
    <2>4. f \in 0 .. Len(s) /\ (T # {} => f # 0) BY <1>1, <2>1, <2>3, FirstAt
    <2> QED BY <1>1, <1>3, <2>2, <2>4
  <1> QED BY <1>1, <1>2, <1>3, <1>4, <1>5, <1>6

BlockKinds == {"text", "thinking", "redacted", "tool"}
Stops == {"none", "refusal", "error"} \cup CutShort
Natives == {"none", "other", "refusal"} \cup CutShort
Whats ==
    BlockKinds \cup Stops
    \cup {"json", "placeholder", "native", "tool_use", "end_turn", "interrupted", "refused", "tool_json", "flood", "no_output"}
LiveBlocks == [kind : BlockKinds, open : BOOLEAN]
LiveEvents ==
    [e : {"message_start", "start", "delta", "stop", "message_delta", "message_stop", "error"},
     i : Nat, what : Whats, s : Seq(Letters)]
Calling == [ToolIds -> [seen : BOOLEAN, named : BOOLEAN, frags : Seq(Letters)]]

Contexts ==
    [thinks : BOOLEAN, log : Seq(LiveEvents), blocks : Seq(LiveBlocks),
     text : Nat, think : Nat, tools : [ToolIds -> Nat], inTag : BOOLEAN, extracted : BOOLEAN,
     buf : Seq(Letters), held : Seq(Letters), native_tools : BOOLEAN, tripped : BOOLEAN,
     acc : Calling, bad : BOOLEAN, hasTool : BOOLEAN, stop : Stops, native : Natives, full : BOOLEAN,
     signature : {"none", "native"}, visible : BOOLEAN, thought : BOOLEAN, credits : Nat]

(* What an operator leaves as it was, but for F. *)
Fields == {"thinks", "tools", "inTag", "extracted", "buf", "held", "native_tools", "acc", "credits",
           "text", "think", "blocks"}
Keeps(c, d, F) == \A f \in Fields \ F : d[f] = c[f]

KindsIn(c) == [b \in 1 .. Len(c.blocks) |-> c.blocks[b].kind]
OpenOf(c) == {b \in 1 .. Len(c.blocks) : c.blocks[b].open}
Opened(c, kind) == {b \in OpenOf(c) : c.blocks[b].kind = kind}

HasPlaces(c) ==
    /\ c.text \in 0 .. Len(c.blocks) /\ c.think \in 0 .. Len(c.blocks)
    /\ \A t \in ToolIds : c.tools[t] \in 0 .. Len(c.blocks)
                          /\ (c.tools[t] # 0 => c.blocks[c.tools[t]].kind = "tool")
StopsNamed(c) == \A j \in At(c.log, "stop") : c.log[j].what = c.blocks[c.log[j].i].kind
OnceSigned(log, b) == ThinkingText(log, b) = {} \/ \E x : Signatures(log, b) = {x}
ClosedSigned(c) ==
    \A b \in 1 .. Len(c.blocks) : c.blocks[b].kind = "thinking" /\ ~c.blocks[b].open => OnceSigned(c.log, b)

Core(c) ==
    /\ c \in Contexts /\ HasPlaces(c) /\ Running(c.log, Len(c.blocks), KindsIn(c), OpenOf(c))
    /\ StopsNamed(c) /\ ClosedSigned(c)

Longer(log, x, more) ==
    /\ more \in Seq(LiveEvents) /\ Len(more) = Len(log) + 1 /\ more[Len(log) + 1] = x
    /\ \A j \in 1 .. Len(log) : more[j] = log[j]
    /\ At(more, "stop") = IF x.e = "stop" THEN At(log, "stop") \cup {Len(log) + 1} ELSE At(log, "stop")
    /\ At(log, "stop") \subseteq 1 .. Len(log) /\ Len(log) \in Nat
    /\ \A b : ThinkingText(more, b) = IF x.e = "delta" /\ x.i = b /\ x.what = "thinking" /\ ~Blank(x.s)
                                      THEN ThinkingText(log, b) \cup {Len(log) + 1} ELSE ThinkingText(log, b)
    /\ \A b : Signatures(more, b) = IF x.e = "delta" /\ x.i = b /\ x.what \in {"placeholder", "native"}
                                    THEN Signatures(log, b) \cup {Len(log) + 1} ELSE Signatures(log, b)

LEMMA MarksAppend ==
    ASSUME NEW log \in Seq(LiveEvents), NEW x \in LiveEvents, NEW more, more = Append(log, x)
    PROVE  Longer(log, x, more)
  <1> DEFINE m == Len(log) + 1
  <1>1. /\ more \in Seq(LiveEvents) /\ m \in Nat /\ Len(more) = m /\ more[m] = x
        /\ \A j \in 1 .. Len(log) : more[j] = log[j] /\ j < m
        /\ \A e : At(more, e) = IF x.e = e THEN At(log, e) \cup {m} ELSE At(log, e)
        /\ \A e, b : Of(more, e, b) = IF x.e = e /\ x.i = b THEN Of(log, e, b) \cup {m} ELSE Of(log, e, b)
        /\ \A e : At(log, e) \subseteq 1 .. Len(log)
        /\ \A e, b : Of(log, e, b) \subseteq At(log, e)
    BY AtAppend
  <1>2. \A b : Of(log, "delta", b) \subseteq 1 .. Len(log) BY <1>1
  <1>3. \A b : \A j \in Of(log, "delta", b) : more[j] = log[j] /\ j # m BY <1>1, <1>2
  <1>4. Len(log) \in Nat OBVIOUS
  <1> HIDE DEF m
  <1>5. \A b : ThinkingText(more, b) = IF x.e = "delta" /\ x.i = b /\ x.what = "thinking" /\ ~Blank(x.s)
                                       THEN ThinkingText(log, b) \cup {m} ELSE ThinkingText(log, b)
    BY <1>1, <1>3 DEF ThinkingText
  <1>6. \A b : Signatures(more, b) = IF x.e = "delta" /\ x.i = b /\ x.what \in {"placeholder", "native"}
                                     THEN Signatures(log, b) \cup {m} ELSE Signatures(log, b)
    BY <1>1, <1>3 DEF Signatures
  <1> QED BY <1>1, <1>4, <1>5, <1>6 DEF m, Longer

SameMarks(c, d, b) ==
    ThinkingText(d.log, b) = ThinkingText(c.log, b) /\ Signatures(d.log, b) = Signatures(c.log, b)

LEMMA LogSent ==
    ASSUME NEW c \in Contexts, NEW x, NEW d, d = Send(c, x), x \in LiveEvents
    PROVE  d \in Contexts /\ Keeps(c, d, {}) /\ d.log = Append(c.log, x) /\ d.signature = c.signature
  <1>1. Append(c.log, x) \in Seq(LiveEvents)
    <2>1. c.log \in Seq(LiveEvents) BY DEF Contexts
    <2> QED BY <2>1, AppendProperties
  <1>2. d \in Contexts BY <1>1 DEF Contexts, Send
  <1> QED BY <1>2 DEF Contexts, Send, Keeps, Fields

LEMMA SameShape ==
    ASSUME NEW c, NEW d, Keeps(c, d, {})
    PROVE  /\ d.blocks = c.blocks /\ d.text = c.text /\ d.think = c.think /\ d.tools = c.tools
           /\ KindsIn(d) = KindsIn(c) /\ OpenOf(d) = OpenOf(c) /\ \A k : Opened(d, k) = Opened(c, k)
           /\ (HasPlaces(c) => HasPlaces(d))
  <1>1. d.blocks = c.blocks /\ d.text = c.text /\ d.think = c.think /\ d.tools = c.tools BY DEF Keeps, Fields
  <1> QED BY <1>1 DEF KindsIn, OpenOf, Opened, HasPlaces

(* What a delta of block i changes. *)
Filled(c, d, i, what, s) ==
    /\ Core(d) /\ Keeps(c, d, {}) /\ d.signature = c.signature
    /\ \A b : b # i => SameMarks(c, d, b)
    /\ what \notin {"placeholder", "native"} => Signatures(d.log, i) = Signatures(c.log, i)
    /\ what \in {"placeholder", "native"} => \E m : Signatures(d.log, i) = Signatures(c.log, i) \cup {m}
    /\ what # "thinking" \/ Blank(s) => ThinkingText(d.log, i) = ThinkingText(c.log, i)

LEMMA DeltaSent ==
    ASSUME NEW c, Core(c), NEW i \in OpenOf(c), NEW what \in Whats, NEW s \in Seq(Letters),
           NEW d, d = Send(c, Sse("delta", i, what, s))
    PROVE  Filled(c, d, i, what, s)
  <1>1. PICK x : x = Sse("delta", i, what, s) OBVIOUS
  <1>2. i \in 1 .. Len(c.blocks) /\ c \in Contexts /\ c.log \in Seq(LiveEvents) /\ Len(c.blocks) \in Nat
    BY DEF OpenOf, Core, Contexts
  <1>3. x \in LiveEvents /\ x.e = "delta" /\ x.i = i /\ x.what = what /\ x.s = s
    BY <1>1, <1>2 DEF LiveEvents, Sse
  <1>4. d \in Contexts /\ Keeps(c, d, {}) /\ d.log = Append(c.log, x) /\ d.signature = c.signature
    BY <1>1, <1>2, <1>3, LogSent
  <1>5. /\ d.blocks = c.blocks /\ d.text = c.text /\ d.think = c.think /\ d.tools = c.tools
        /\ KindsIn(d) = KindsIn(c) /\ OpenOf(d) = OpenOf(c) /\ HasPlaces(d)
    BY <1>4, SameShape DEF Core
  <1>6. PICK old, n, K, open :
            old \in Seq(LiveEvents) /\ n \in Nat /\ old = c.log /\ n = Len(c.blocks) /\ K = KindsIn(c) /\ open = OpenOf(c)
    BY <1>2
  <1> old \in Seq(LiveEvents) /\ n \in Nat BY <1>6
  <1>7. Running(d.log, n, K, open)
    <2>1. Running(old, n, K, open) /\ x.i \in open /\ x.i \in 1 .. n BY <1>2, <1>3, <1>6 DEF Core
    <2>2. Running(Append(old, x), n, K, open) BY <1>3, <2>1, RunningDelta
    <2> QED BY <1>4, <1>6, <2>2
  <1>b. PICK new : new = d.log /\ new = Append(old, x) BY <1>4, <1>6
  <1>8. Longer(old, x, new) BY <1>3, <1>6, <1>b, MarksAppend
  <1>9. \A b : b # i => SameMarks(c, d, b) BY <1>3, <1>6, <1>8, <1>b DEF SameMarks, Longer
  <1>10. StopsNamed(d)
    <2>1. At(new, "stop") = At(old, "stop") BY <1>3, <1>8 DEF Longer
    <2>2. \A j \in At(old, "stop") : new[j] = old[j] /\ old[j].what = c.blocks[old[j].i].kind
      BY <1>6, <1>8 DEF Core, StopsNamed, Longer
    <2> QED BY <1>5, <1>b, <2>1, <2>2 DEF StopsNamed
  <1>11. ClosedSigned(d)
    <2>1. \A b \in 1 .. Len(c.blocks) : ~c.blocks[b].open => b # i BY DEF OpenOf
    <2> QED BY <1>5, <1>9, <2>1 DEF Core, ClosedSigned, OnceSigned, SameMarks
  <1>12. Core(d) BY <1>4, <1>5, <1>6, <1>7, <1>10, <1>11 DEF Core
  <1> QED BY <1>3, <1>4, <1>6, <1>8, <1>9, <1>12, <1>b DEF Longer, Filled

(* The blocks of d are those of c, but that those in S are stopped. *)
HasStopped(c, d, S) ==
    /\ Len(d.blocks) = Len(c.blocks) /\ KindsIn(d) = KindsIn(c) /\ OpenOf(d) = OpenOf(c) \ S
    /\ \A k : Opened(d, k) = Opened(c, k) \ S
    /\ \A b : SameMarks(c, d, b)

LEMMA BlockStopped ==
    ASSUME NEW c, Core(c), NEW i \in 1 .. Len(c.blocks), NEW d, d = StopBlock(c, i),
           i \in Opened(c, "thinking") => OnceSigned(c.log, i)
    PROVE  Core(d) /\ Keeps(c, d, {"blocks"}) /\ d.signature = c.signature /\ HasStopped(c, d, {i})
  <1>1. CASE ~c.blocks[i].open
    <2>1. d = c BY <1>1 DEF StopBlock
    <2>2. i \notin OpenOf(c) BY <1>1 DEF OpenOf
    <2>3. OpenOf(c) = OpenOf(c) \ {i} /\ \A k : Opened(c, k) = Opened(c, k) \ {i} BY <2>2 DEF Opened
    <2> QED BY <2>1, <2>3 DEF Keeps, HasStopped, SameMarks
  <1>2. CASE c.blocks[i].open
    <2>1. /\ c \in Contexts /\ c.log \in Seq(LiveEvents) /\ Len(c.blocks) \in Nat
          /\ c.blocks \in Seq(LiveBlocks) /\ c.blocks[i].kind \in BlockKinds
          /\ c.blocks[i] \in LiveBlocks /\ i \in OpenOf(c)
      <3>1. c \in Contexts /\ c.blocks \in Seq(LiveBlocks) /\ c.log \in Seq(LiveEvents)
        BY DEF Core, Contexts
      <3>2. c.blocks[i] \in LiveBlocks BY <3>1, ElementOfSeq
      <3> QED BY <1>2, <3>1, <3>2 DEF OpenOf, LiveBlocks
    <2>2. PICK x : x = Sse("stop", i, c.blocks[i].kind, <<>>) OBVIOUS
    <2>3. x \in LiveEvents /\ x.e = "stop" /\ x.i = i /\ x.what = c.blocks[i].kind
      <3>1. << >> \in Seq(Letters) BY EmptySeq
      <3> QED BY <2>1, <2>2, <3>1 DEF LiveEvents, Sse, Whats
    <2>4. PICK w \in LiveBlocks : w = [c.blocks[i] EXCEPT !.open = FALSE]
                 /\ w.kind = c.blocks[i].kind /\ ~w.open
      <3>1. PICK v \in LiveBlocks : v = c.blocks[i] BY <2>1
      <3>2. [v EXCEPT !.open = FALSE] \in LiveBlocks
            /\ [v EXCEPT !.open = FALSE].kind = v.kind /\ ~[v EXCEPT !.open = FALSE].open BY DEF LiveBlocks
      <3> QED BY <3>1, <3>2
    <2>5. PICK bs \in Seq(LiveBlocks) :
             /\ bs = [c.blocks EXCEPT ![i] = w] /\ Len(bs) = Len(c.blocks) /\ bs[i] = w
             /\ \A b \in 1 .. Len(c.blocks) : b # i => bs[b] = c.blocks[b]
      <3>1. PICK ob \in Seq(LiveBlocks) : ob = c.blocks BY <2>1
      <3>2. PICK bs : bs = [ob EXCEPT ![i] = w] OBVIOUS
      <3>3. i \in 1 .. Len(ob) BY <3>1
      <3>4. bs \in Seq(LiveBlocks) /\ Len(bs) = Len(ob)
            /\ \A b \in 1 .. Len(ob) : bs[b] = IF b = i THEN w ELSE ob[b]
        BY <3>2, <3>3, ExceptSeq
      <3> QED BY <3>1, <3>2, <3>3, <3>4
    <2>6. PICK e : e = [c EXCEPT !.blocks[i].open = FALSE] /\ e = [c EXCEPT !.blocks = bs]
      <3>1. [c EXCEPT !.blocks[i].open = FALSE] = [c EXCEPT !.blocks = [c.blocks EXCEPT ![i] = [c.blocks[i] EXCEPT !.open = FALSE]]]
        OBVIOUS
      <3> QED BY <2>4, <2>5, <3>1
    <2>7. e \in Contexts /\ Keeps(c, e, {"blocks"}) /\ e.blocks = bs /\ e.log = c.log /\ e.signature = c.signature
      BY <2>1, <2>5, <2>6 DEF Contexts, Keeps, Fields
    <2>8. d = Send(e, x) BY <1>2, <2>2, <2>6 DEF StopBlock
    <2>9. d \in Contexts /\ Keeps(e, d, {}) /\ d.log = Append(e.log, x) /\ d.signature = e.signature
      BY <2>3, <2>7, <2>8, LogSent
    <2>9a. OpenOf(c) \subseteq 1 .. Len(c.blocks) /\ c.log \in Seq(LiveEvents) /\ Len(c.blocks) \in Nat
      BY <2>1 DEF OpenOf
    <2>10. PICK old, n, K, open :
            old \in Seq(LiveEvents) /\ n \in Nat /\ old = c.log /\ n = Len(c.blocks) /\ K = KindsIn(c) /\ open = OpenOf(c) /\ open \subseteq 1 .. n
      BY <2>9a
    <2> old \in Seq(LiveEvents) /\ n \in Nat BY <2>10
    <2>11. d.blocks = bs /\ d.text = c.text /\ d.think = c.think /\ d.tools = c.tools
      BY <2>7, <2>9 DEF Keeps, Fields
    <2>12. PICK new : new = d.log /\ new = Append(old, x) BY <2>7, <2>9, <2>10
    <2>13. Longer(old, x, new) BY <2>3, <2>10, <2>12, MarksAppend
    <2>14. \A b : SameMarks(c, d, b) BY <2>3, <2>10, <2>12, <2>13 DEF SameMarks, Longer
    <2>15. KindsIn(d) = K /\ \A b \in 1 .. n : bs[b].kind = c.blocks[b].kind
      BY <2>4, <2>5, <2>10, <2>11 DEF KindsIn
    <2>16. OpenOf(d) = open \ {i} BY <2>4, <2>5, <2>10, <2>11 DEF OpenOf
    <2>17. \A k : Opened(d, k) = Opened(c, k) \ {i} BY <2>10, <2>11, <2>15, <2>16 DEF Opened
    <2>18. Running(new, n, K, open \ {i})
      <3>1. Running(old, n, K, open) /\ x.i \in open /\ x.i \in 1 .. n BY <2>1, <2>3, <2>10 DEF Core
      <3>2. Running(Append(old, x), n, K, open \ {x.i}) BY <2>3, <3>1, RunningStop
      <3> QED BY <2>3, <2>12, <3>2
    <2>19. HasPlaces(d)
      <3>1. \A t \in ToolIds : c.tools[t] \in 0 .. n /\ (c.tools[t] # 0 => c.blocks[c.tools[t]].kind = "tool")
        BY <2>10 DEF Core, HasPlaces
      <3>2. \A t \in ToolIds : c.tools[t] # 0 => bs[c.tools[t]].kind = "tool" BY <2>15, <3>1
      <3> QED BY <2>5, <2>10, <2>11, <3>1, <3>2 DEF Core, HasPlaces
    <2>20. StopsNamed(d)
      <3>1. \A j \in At(old, "stop") : new[j] = old[j] /\ j # Len(old) + 1 /\ old[j].what = c.blocks[old[j].i].kind
        BY <2>10, <2>13 DEF Core, StopsNamed, Longer
      <3>2. \A j \in At(old, "stop") : old[j].i \in 1 .. n BY <2>10 DEF Core, Running, Numbered
      <3>3. \A j \in At(old, "stop") : new[j].what = bs[new[j].i].kind BY <2>15, <3>1, <3>2
      <3>4. new[Len(old) + 1].what = bs[new[Len(old) + 1].i].kind BY <2>3, <2>4, <2>5, <2>13 DEF Longer
      <3>5. At(new, "stop") = At(old, "stop") \cup {Len(old) + 1} BY <2>3, <2>13 DEF Longer
      <3> QED BY <2>11, <2>12, <3>3, <3>4, <3>5 DEF StopsNamed
    <2>21. ClosedSigned(d)
      <3>1. \A b \in 1 .. n : OnceSigned(c.log, b) => OnceSigned(d.log, b) BY <2>14 DEF OnceSigned, SameMarks
      <3>2. ASSUME NEW b \in 1 .. n, bs[b].kind = "thinking", ~bs[b].open PROVE OnceSigned(d.log, b)
        <4>1. CASE b = i
          <5>1. i \in Opened(c, "thinking") BY <2>1, <2>15, <3>2, <4>1 DEF Opened
          <5> QED BY <3>1, <4>1, <5>1
        <4>2. CASE b # i
          <5>1. bs[b] = c.blocks[b] BY <2>5, <2>10, <4>2
          <5> QED BY <2>10, <3>1, <3>2, <5>1 DEF Core, ClosedSigned
        <4> QED BY <4>1, <4>2
      <3> QED BY <2>5, <2>10, <2>11, <3>2 DEF ClosedSigned
    <2>22. Core(d) BY <2>5, <2>9, <2>10, <2>11, <2>12, <2>15, <2>16, <2>18, <2>19, <2>20, <2>21 DEF Core
    <2>23. Keeps(c, d, {"blocks"}) BY <2>7, <2>9 DEF Keeps
    <2>24. HasStopped(c, d, {i}) BY <2>5, <2>10, <2>11, <2>14, <2>15, <2>16, <2>17 DEF HasStopped
    <2> QED BY <2>7, <2>9, <2>22, <2>23, <2>24
  <1> QED BY <1>1, <1>2

(* The blocks of d are those of c and one more, of that kind. *)
HasStarted(c, d, kind) ==
    /\ Len(d.blocks) = Len(c.blocks) + 1 /\ Len(c.blocks) \in Nat
    /\ \A b \in 1 .. Len(c.blocks) : d.blocks[b] = c.blocks[b]
    /\ d.blocks[Len(d.blocks)].kind = kind /\ d.blocks[Len(d.blocks)].open
    /\ OpenOf(d) = OpenOf(c) \cup {Len(d.blocks)}
    /\ \A k : Opened(d, k) = IF k = kind THEN Opened(c, k) \cup {Len(d.blocks)} ELSE Opened(c, k)
    /\ \A b : SameMarks(c, d, b)
    /\ Signatures(d.log, Len(d.blocks)) = {} /\ ThinkingText(d.log, Len(d.blocks)) = {}

LEMMA BlockStarted ==
    ASSUME NEW c, Core(c), NEW kind \in BlockKinds, NEW d, d = NewBlock(c, kind),
           Opened(c, "text") = {}, kind # "tool" => Opened(c, "thinking") = {} /\ Opened(c, "redacted") = {}
    PROVE  Core(d) /\ Keeps(c, d, {"blocks"}) /\ d.signature = c.signature /\ HasStarted(c, d, kind)
  <1>1. /\ c \in Contexts /\ c.log \in Seq(LiveEvents) /\ Len(c.blocks) \in Nat
        /\ c.blocks \in Seq(LiveBlocks)
    BY DEF Core, Contexts
  <1>a. PICK ob \in Seq(LiveBlocks) : ob = c.blocks BY <1>1
  <1>b. PICK n \in Nat : n = Len(ob) BY <1>1, <1>a
  <1>c. PICK K, open : K = KindsIn(c) /\ open = OpenOf(c) OBVIOUS
  <1>d. open \subseteq 1 .. n BY <1>a, <1>b, <1>c DEF OpenOf
  <1>e. PICK old \in Seq(LiveEvents) : old = c.log BY <1>1
  <1>2. /\ old = c.log /\ ob = c.blocks /\ n = Len(ob) /\ K = KindsIn(c) /\ open = OpenOf(c) /\ open \subseteq 1 .. n
    BY <1>a, <1>b, <1>c, <1>d, <1>e
  <1>3. PICK x : x = Sse("start", n + 1, kind, <<>>) OBVIOUS
  <1>4. x \in LiveEvents /\ x.e = "start" /\ x.i = n + 1 /\ x.what = kind
    <2>1. << >> \in Seq(Letters) BY EmptySeq
    <2> QED BY <1>3, <2>1 DEF LiveEvents, Sse, Whats
  <1>f. PICK v : v = [kind |-> kind, open |-> TRUE] OBVIOUS
  <1>g. v \in LiveBlocks /\ v.kind = kind BY <1>f DEF LiveBlocks
  <1>h. v.open BY <1>f
  <1>5. PICK w \in LiveBlocks : w = [kind |-> kind, open |-> TRUE] /\ w.kind = kind /\ w.open
    BY <1>f, <1>g, <1>h
  <1>6. PICK bs \in Seq(LiveBlocks) :
           bs = Append(ob, w) /\ Len(bs) = n + 1 /\ bs[n + 1] = w /\ \A b \in 1 .. n : bs[b] = ob[b]
    <2>1. PICK bs : bs = Append(ob, w) OBVIOUS
    <2>2. bs \in Seq(LiveBlocks) /\ Len(bs) = Len(ob) + 1 /\ bs[Len(ob) + 1] = w /\ \A b \in 1 .. Len(ob) : bs[b] = ob[b]
      BY <2>1, AppendProperties
    <2> QED BY <1>b, <2>1, <2>2
  <1>7. PICK e : e = [c EXCEPT !.blocks = Append(@, [kind |-> kind, open |-> TRUE])] /\ e = [c EXCEPT !.blocks = bs]
    BY <1>2, <1>5, <1>6
  <1>8. e \in Contexts /\ Keeps(c, e, {"blocks"}) /\ e.blocks = bs /\ e.log = c.log /\ e.signature = c.signature
    BY <1>1, <1>6, <1>7 DEF Contexts, Keeps, Fields
  <1>9. d = Send(e, x) BY <1>2, <1>3, <1>7 DEF NewBlock
  <1>10. d \in Contexts /\ Keeps(e, d, {}) /\ d.log = Append(e.log, x) /\ d.signature = e.signature
    <2>1. e \in Contexts /\ x \in LiveEvents BY <1>4, <1>8
    <2> QED BY <1>9, <2>1, LogSent
  <1>11. d.blocks = bs /\ d.text = c.text /\ d.think = c.think /\ d.tools = c.tools
    BY <1>8, <1>10 DEF Keeps, Fields
  <1>12. PICK new : new = d.log /\ new = Append(old, x) BY <1>8, <1>10, <1>2
  <1>13. Longer(old, x, new) BY <1>4, <1>2, <1>12, MarksAppend
  <1>14. \A b : SameMarks(c, d, b) BY <1>4, <1>2, <1>12, <1>13 DEF SameMarks, Longer
  <1>15. PICK L : /\ L = KindsIn(d) /\ L[n + 1] = kind /\ \A b \in 1 .. n : L[b] = K[b] /\ K[b] = ob[b].kind
    <2>1. \A b \in 1 .. n + 1 : KindsIn(d)[b] = bs[b].kind BY <1>6, <1>11 DEF KindsIn
    <2>2. \A b \in 1 .. n : K[b] = ob[b].kind BY <1>2 DEF KindsIn
    <2>3. n + 1 \in 1 .. n + 1 /\ \A b \in 1 .. n : b \in 1 .. n + 1 OBVIOUS
    <2>4. KindsIn(d)[n + 1] = kind BY <1>5, <1>6, <2>1, <2>3
    <2>5. \A b \in 1 .. n : KindsIn(d)[b] = K[b] BY <1>6, <2>1, <2>2, <2>3
    <2> QED BY <2>2, <2>4, <2>5
  <1>16. OpenOf(d) = open \cup {n + 1}
    <2>1. \A b \in 1 .. n + 1 : bs[b].open <=> b = n + 1 \/ b \in open
      <3>1. \A b \in 1 .. n : b # n + 1 /\ (b \in open <=> ob[b].open) BY <1>2 DEF OpenOf
      <3>2. n + 1 \notin open BY <1>2
      <3>3. \A b \in 1 .. n + 1 : b = n + 1 \/ b \in 1 .. n OBVIOUS
      <3> QED BY <1>5, <1>6, <3>1, <3>2, <3>3
    <2>2. OpenOf(d) = {b \in 1 .. n + 1 : bs[b].open} BY <1>6, <1>11 DEF OpenOf
    <2>3. open \subseteq 1 .. n + 1 /\ n + 1 \in 1 .. n + 1 BY <1>2
    <2> QED BY <2>1, <2>2, <2>3
  <1>17. \A k : Opened(d, k) = IF k = kind THEN Opened(c, k) \cup {n + 1} ELSE Opened(c, k)
    <2>1. \A b \in open : bs[b] = ob[b] /\ b # n + 1 BY <1>2, <1>6
    <2> QED BY <1>2, <1>5, <1>6, <1>11, <1>16, <2>1 DEF Opened
  <1>18. Running(new, n + 1, L, open \cup {n + 1})
    <2>1. \A b \in open : K[b] # "text" /\ (K[b] = "tool" \/ kind = "tool")
      <3>1. \A b \in open : K[b] = ob[b].kind /\ ob[b].kind \in BlockKinds
        <4>1. \A b \in 1 .. n : ob[b] \in LiveBlocks BY <1>2, ElementOfSeq
        <4>2. \A b \in 1 .. n : ob[b].kind \in BlockKinds BY <4>1 DEF LiveBlocks
        <4> QED BY <1>d, <1>15, <4>2
      <3> QED BY <1>2, <3>1 DEF Opened, BlockKinds
    <2>2. Running(old, n, K, open) BY <1>2 DEF Core
    <2>3. L[n + 1] = x.what /\ \A b \in 1 .. n : L[b] = K[b] BY <1>4, <1>15
    <2>5. /\ x.e = "start" /\ x.i = n + 1 /\ open \subseteq 1 .. n
          /\ \A b \in open : K[b] # "text" /\ (K[b] = "tool" \/ x.what = "tool")
      BY <1>2, <1>4, <2>1
    <2>4. Running(Append(old, x), n + 1, L, open \cup {n + 1}) BY <1>4, <2>2, <2>3, <2>5, RunningStart
    <2> QED BY <1>12, <2>4
  <1>19. HasPlaces(d)
    <2>1. \A t \in ToolIds : c.tools[t] \in 0 .. n /\ (c.tools[t] # 0 => ob[c.tools[t]].kind = "tool")
          /\ c.text \in 0 .. n /\ c.think \in 0 .. n
      BY <1>2 DEF Core, HasPlaces
    <2>a. c.text \in 0 .. n /\ c.think \in 0 .. n BY <1>2 DEF Core, HasPlaces
    <2>2. \A t \in ToolIds : c.tools[t] \in 0 .. n + 1 /\ (c.tools[t] # 0 => bs[c.tools[t]].kind = "tool")
      <3>1. \A k \in 0 .. n : k \in 0 .. n + 1 /\ (k # 0 => k \in 1 .. n) OBVIOUS
      <3>2. \A k \in 0 .. n : k # 0 => bs[k] = ob[k] BY <1>6, <3>1
      <3> QED BY <2>1, <3>1, <3>2
    <2>3. c.text \in 0 .. n + 1 /\ c.think \in 0 .. n + 1 BY <2>a
    <2> QED BY <1>6, <1>11, <2>2, <2>3 DEF HasPlaces
  <1>20. StopsNamed(d)
    <2>1. At(new, "stop") = At(old, "stop") /\ \A j \in At(old, "stop") : new[j] = old[j]
      BY <1>4, <1>13 DEF Longer
    <2>2. \A j \in At(old, "stop") : old[j].what = ob[old[j].i].kind /\ old[j].i \in 1 .. n
      BY <1>2 DEF Core, StopsNamed, Running, Numbered
    <2>3. \A j \in At(old, "stop") : new[j].what = bs[new[j].i].kind BY <1>6, <2>1, <2>2
    <2> QED BY <1>11, <1>12, <2>1, <2>3 DEF StopsNamed
  <1>21. ClosedSigned(d)
    <2>1. \A b : OnceSigned(c.log, b) => OnceSigned(d.log, b) BY <1>14 DEF OnceSigned, SameMarks
    <2>2. \A b \in 1 .. n + 1 : ~bs[b].open => b \in 1 .. n /\ bs[b] = ob[b]
      <3>1. \A b \in 1 .. n + 1 : b = n + 1 \/ b \in 1 .. n OBVIOUS
      <3> QED BY <1>5, <1>6, <3>1
    <2> QED BY <1>2, <1>6, <1>11, <2>1, <2>2 DEF ClosedSigned, Core
  <1>22. Core(d)
    <2>1. Running(d.log, Len(d.blocks), KindsIn(d), OpenOf(d)) BY <1>6, <1>11, <1>12, <1>15, <1>16, <1>18
    <2> QED BY <1>10, <1>19, <1>20, <1>21, <2>1 DEF Core
  <1>23. Keeps(c, d, {"blocks"}) BY <1>8, <1>10 DEF Keeps
  <1>24. Signatures(d.log, n + 1) = {} /\ ThinkingText(d.log, n + 1) = {}
    <2>1. Of(old, "delta", n + 1) = {}
      <3>1. \A j \in At(old, "delta") : old[j].i \in 1 .. n BY <1>2 DEF Core, Running, Numbered
      <3> QED BY <3>1 DEF Of
    <2>2. Signatures(old, n + 1) = {} /\ ThinkingText(old, n + 1) = {} BY <2>1 DEF Signatures, ThinkingText
    <2> QED BY <1>2, <1>14, <2>2 DEF SameMarks
  <1>25. HasStarted(c, d, kind) BY <1>2, <1>5, <1>6, <1>11, <1>14, <1>16, <1>17, <1>24 DEF HasStarted
  <1> QED BY <1>8, <1>10, <1>22, <1>23, <1>25

-----------------------------------------------------------------------------
(* Blocks: a sound context has one text block and one thinking block open at *)
(* most, those it knows of; starting, filling and stopping them.            *)

Fresh(c) == \A b \in Opened(c, "thinking") : Signatures(c.log, b) = {}
Mute(c) == \A b \in Opened(c, "thinking") : ThinkingText(c.log, b) = {}

Sound(c) ==
    /\ Core(c) /\ Opened(c, "text") \subseteq {c.text} /\ Opened(c, "thinking") \subseteq {c.think}
    /\ Opened(c, "redacted") = {} /\ Fresh(c)

LEMMA CorePlaced ==
    ASSUME NEW c, Core(c), NEW d \in Contexts, d.log = c.log, d.blocks = c.blocks, HasPlaces(d)
    PROVE  Core(d) /\ OpenOf(d) = OpenOf(c) /\ (\A k : Opened(d, k) = Opened(c, k)) /\ \A b : SameMarks(c, d, b)
  <1>1. KindsIn(d) = KindsIn(c) /\ OpenOf(d) = OpenOf(c) BY DEF KindsIn, OpenOf
  <1>2. \A k : Opened(d, k) = Opened(c, k) BY <1>1 DEF Opened
  <1>3. StopsNamed(d) /\ ClosedSigned(d) BY DEF Core, StopsNamed, ClosedSigned
  <1> QED BY <1>1, <1>2, <1>3 DEF Core, SameMarks

LEMMA SoundSame ==
    ASSUME NEW c, Sound(c), NEW d \in Contexts, d.log = c.log, d.blocks = c.blocks, d.text = c.text,
           d.think = c.think, d.tools = c.tools
    PROVE  Sound(d) /\ (\A k : Opened(d, k) = Opened(c, k)) /\ (Mute(c) => Mute(d))
  <1>1. HasPlaces(d) BY DEF Sound, Core, HasPlaces
  <1>2. Core(d) /\ \A k : Opened(d, k) = Opened(c, k) BY <1>1, CorePlaced DEF Sound
  <1> QED BY <1>2 DEF Sound, Fresh, Mute

LEMMA StoppedTwice ==
    ASSUME NEW c, NEW d, NEW e, NEW S, NEW T, NEW U, U = S \cup T, HasStopped(c, d, S), HasStopped(d, e, T)
    PROVE  HasStopped(c, e, U)
  BY DEF HasStopped, SameMarks

OfKinds(c, kinds) == {b \in 1 .. Len(c.blocks) : c.blocks[b].kind \in kinds}

LEMMA KindsStopped ==
    ASSUME NEW c, Core(c), NEW kinds, "thinking" \in kinds => Mute(c), NEW r, r = StopKinds(c, kinds)
    PROVE  Core(r) /\ Keeps(c, r, {"blocks"}) /\ r.signature = c.signature /\ HasStopped(c, r, OfKinds(c, kinds))
  <1> DEFINE n == Len(c.blocks)
             V == {d \in Contexts : Core(d) /\ Keeps(c, d, {"blocks"}) /\ d.signature = c.signature
                                    /\ \E S : HasStopped(c, d, S)}
             Step(d, k) == IF d.blocks[k].kind \in kinds THEN StopBlock(d, k) ELSE d
             places == [k \in DOMAIN c.blocks |-> k]
             G == [k \in 1 .. n |-> [d \in V |-> Step(d, k)]]
             Is(f) == f = [s \in SUBSET DOMAIN places |-> IF s = {} THEN c
                              ELSE Step(f[s \ {Max(s)}], places[Max(s)])]
  <1>1. n \in Nat /\ DOMAIN places = 1 .. n /\ (\A k \in 1 .. n : places[k] = k) /\ DOMAIN c.blocks = 1 .. n
    <2>1. c.blocks \in Seq(LiveBlocks) BY DEF Core, Contexts
    <2>2. DOMAIN c.blocks = 1 .. Len(c.blocks) /\ Len(c.blocks) \in Nat BY <2>1
    <2> QED BY <2>2
  <1>2. c \in V /\ HasStopped(c, c, {})
    <2>1. HasStopped(c, c, {})
      <3>1. OpenOf(c) = OpenOf(c) \ {} /\ \A k : Opened(c, k) = Opened(c, k) \ {} OBVIOUS
      <3> QED BY <3>1 DEF HasStopped, SameMarks
    <2>2. c \in Contexts BY DEF Core
    <2> QED BY <2>1, <2>2 DEF Keeps
  <1>3. ASSUME NEW k \in 1 .. n, NEW d \in V, NEW S, HasStopped(c, d, S)
        PROVE  /\ Step(d, k) \in V
               /\ HasStopped(c, Step(d, k), IF c.blocks[k].kind \in kinds THEN S \cup {k} ELSE S)
    <2>1. Core(d) /\ Keeps(c, d, {"blocks"}) /\ d.signature = c.signature /\ d \in Contexts OBVIOUS
    <2>2. d.blocks[k].kind = c.blocks[k].kind /\ k \in 1 .. Len(d.blocks)
      <3>1. Len(d.blocks) = n /\ KindsIn(d) = KindsIn(c) BY <1>3 DEF HasStopped
      <3>2. KindsIn(d)[k] = d.blocks[k].kind /\ KindsIn(c)[k] = c.blocks[k].kind BY <3>1 DEF KindsIn
      <3> QED BY <3>1, <3>2
    <2>3. CASE c.blocks[k].kind \notin kinds
      <3>1. Step(d, k) = d BY <2>2, <2>3
      <3> HIDE DEF V, Step
      <3> QED BY <1>3, <2>3, <3>1
    <2>4. CASE c.blocks[k].kind \in kinds
      <3>1. PICK e : e = Step(d, k) /\ e = StopBlock(d, k) BY <2>2, <2>4
      <3>2. k \in Opened(d, "thinking") => OnceSigned(d.log, k)
        <4>1. SUFFICES ASSUME k \in Opened(d, "thinking") PROVE OnceSigned(d.log, k) OBVIOUS
        <4>2. c.blocks[k].kind = "thinking" BY <2>2, <4>1 DEF Opened
        <4>3. k \in Opened(c, "thinking") BY <1>3, <4>1 DEF HasStopped
        <4>4. ThinkingText(c.log, k) = {} BY <2>4, <4>2, <4>3 DEF Mute
        <4>5. ThinkingText(d.log, k) = {} BY <1>3, <4>4 DEF HasStopped, SameMarks
        <4> QED BY <4>5 DEF OnceSigned
      <3> HIDE DEF V, Step
      <3>3. Core(e) /\ Keeps(d, e, {"blocks"}) /\ e.signature = d.signature /\ HasStopped(d, e, {k})
        BY <2>1, <2>2, <3>1, <3>2, BlockStopped
      <3>4. HasStopped(c, e, S \cup {k}) BY <1>3, <3>3, StoppedTwice
      <3>5. Keeps(c, e, {"blocks"}) BY <2>1, <3>3 DEF Keeps
      <3>6. e \in Contexts BY <3>3 DEF Core
      <3>7. e \in V BY <2>1, <3>3, <3>4, <3>5, <3>6 DEF V
      <3> QED BY <2>4, <3>1, <3>4, <3>7
    <2> QED BY <2>3, <2>4
  <1>3a. ASSUME NEW k \in 1 .. n, NEW d \in V PROVE Step(d, k) \in V
    <2>1. PICK S : HasStopped(c, d, S) OBVIOUS
    <2> HIDE DEF V, Step
    <2> QED BY <1>3, <2>1
  <1>3b. \A k \in 1 .. n, d \in V : \A S : HasStopped(c, d, S) =>
            HasStopped(c, Step(d, k), IF c.blocks[k].kind \in kinds THEN S \cup {k} ELSE S)
    <2> HIDE DEF V, Step
    <2> QED BY <1>3
  <1> HIDE DEF V
  <1>4. G \in [1 .. n -> [V -> V]]
    <2> HIDE DEF Step
    <2> QED BY <1>3a
  <1>4a. \A k \in 1 .. n, d \in V : G[k][d] = Step(d, k) BY DEF G
  <1>5. PICK f : FoldUpTo(f, n, V, c, G)
    <2> HIDE DEF n, G
    <2> QED BY <1>1, <1>2, <1>4, FoldExists
  <1>7. r = (CHOOSE g : Is(g))[DOMAIN places] BY DEF StopKinds, FoldLeft, MapThenFoldSet
  <1> HIDE DEF G, Step
  <1>6. Is(f)
    <2>1. f = [s \in SUBSET (1 .. n) |-> f[s]] BY <1>5 DEF FoldUpTo
    <2>2. ASSUME NEW s \in SUBSET (1 .. n), s # {}
          PROVE  f[s] = Step(f[s \ {Max(s)}], places[Max(s)])
      <3>1. Max(s) \in 1 .. n
        <4>1. Max(s) \in s BY <1>1, <2>2, MaxOf
        <4> QED BY <4>1
      <3>2. f[s \ {Max(s)}] \in V /\ f[s] = G[Max(s)][f[s \ {Max(s)}]] BY <1>5, <2>2, <3>1 DEF FoldUpTo
      <3>3. places[Max(s)] = Max(s) BY <1>1, <3>1
      <3> QED BY <1>4a, <3>1, <3>2, <3>3
    <2>3. f[{}] = c BY <1>5 DEF FoldUpTo
    <2> HIDE DEF n, places
    <2> QED BY <1>1, <2>1, <2>2, <2>3
  <1>8. PICK g : g = CHOOSE x : Is(x) OBVIOUS
  <1>9. Is(g)
    <2> HIDE DEF Is
    <2> QED BY <1>6, <1>8
  <1>10. PICK h : Unrolls(h, n, V, c, G) /\ h[n] = g[1 .. n]
    <2>1. DOMAIN g = SUBSET (1 .. n) /\ g[{}] = c BY <1>1, <1>9
    <2>2. ASSUME NEW s \in SUBSET (1 .. n), s # {}, g[s \ {Max(s)}] \in V
          PROVE  g[s] = G[Max(s)][g[s \ {Max(s)}]]
      <3>1. Max(s) \in 1 .. n
        <4>1. Max(s) \in s BY <1>1, <2>2, MaxOf
        <4> QED BY <4>1
      <3>2. g[s] = Step(g[s \ {Max(s)}], Max(s))
        <4>1. places[Max(s)] = Max(s) BY <1>1, <3>1
        <4> HIDE DEF places
        <4> QED BY <1>1, <1>9, <2>2, <4>1
      <3> QED BY <1>4a, <2>2, <3>1, <3>2
    <2>3. \A s \in SUBSET (1 .. n) : s # {} /\ g[s \ {Max(s)}] \in V => g[s] = G[Max(s)][g[s \ {Max(s)}]] BY <2>2
    <2>4. FoldsUp(g, n, V, c, G) BY <2>1, <2>3 DEF FoldsUp
    <2> HIDE DEF n, Is
    <2> QED BY <1>1, <1>2, <1>4, <2>4, FoldUnrolls
  <1>11. r = h[n] BY <1>1, <1>7, <1>8, <1>10
  <1> DEFINE Upto(k) == {b \in 1 .. k : c.blocks[b].kind \in kinds}
             T == {k \in 0 .. n : HasStopped(c, h[k], Upto(k))}
  <1>12. \A k \in 0 .. n : h[k] \in V BY <1>10 DEF Unrolls
  <1>13. 0 \in T
    <2>1. h[0] = c BY <1>10 DEF Unrolls
    <2>2. Upto(0) = {} OBVIOUS
    <2>3. 0 \in 0 .. n BY <1>1
    <2> HIDE DEF Upto, n
    <2> QED BY <1>2, <2>1, <2>2, <2>3
  <1>14. \A k \in 0 .. n - 1 : k \in T => k + 1 \in T
    <2> SUFFICES ASSUME NEW k \in 0 .. n - 1, k \in T PROVE k + 1 \in T OBVIOUS
    <2>1. k + 1 \in 1 .. n /\ (k + 1) - 1 = k /\ k \in 0 .. n /\ k + 1 \in 0 .. n BY <1>1
    <2>2. h[k + 1] = Step(h[k], k + 1)
      <3>1. h[k + 1] = G[k + 1][h[k]] BY <1>10, <2>1 DEF Unrolls
      <3> QED BY <1>4a, <1>12, <2>1, <3>1
    <2>3. Upto(k + 1) = IF c.blocks[k + 1].kind \in kinds THEN Upto(k) \cup {k + 1} ELSE Upto(k)
      <3>1. 1 .. k + 1 = (1 .. k) \cup {k + 1} BY <2>1
      <3> QED BY <3>1
    <2>4. HasStopped(c, h[k], Upto(k)) OBVIOUS
    <2> HIDE DEF Upto, n
    <2>5. HasStopped(c, Step(h[k], k + 1), IF c.blocks[k + 1].kind \in kinds THEN Upto(k) \cup {k + 1} ELSE Upto(k))
      BY <1>3b, <1>12, <2>1, <2>4
    <2> QED BY <2>1, <2>2, <2>3, <2>5
  <1> HIDE DEF T
  <1>15. \A k \in 0 .. n : k \in T
    <2> HIDE DEF n
    <2> QED BY <1>1, <1>13, <1>14, UpTo
  <1>16. HasStopped(c, r, Upto(n))
    <2>1. n \in 0 .. n BY <1>1
    <2> HIDE DEF Upto, n
    <2> QED BY <1>11, <1>15, <2>1 DEF T
  <1>17. Upto(n) = OfKinds(c, kinds) BY DEF OfKinds
  <1>18. r \in V BY <1>1, <1>11, <1>12
  <1> QED BY <1>16, <1>17, <1>18 DEF V

-----------------------------------------------------------------------------
(* Signatures: a thinking block is signed once before it is stopped.        *)

LEMMA StoppedSound ==
    ASSUME NEW c, Sound(c), NEW d, Core(d), Keeps(c, d, {"blocks"}), NEW S, HasStopped(c, d, S)
    PROVE  Sound(d) /\ (Mute(c) => Mute(d))
  <1>1. d.text = c.text /\ d.think = c.think BY DEF Keeps, Fields
  <1>2. \A k : Opened(d, k) \subseteq Opened(c, k) BY DEF HasStopped
  <1>3. \A b : ThinkingText(d.log, b) = ThinkingText(c.log, b) /\ Signatures(d.log, b) = Signatures(c.log, b)
    BY DEF HasStopped, SameMarks
  <1> QED BY <1>1, <1>2, <1>3 DEF Sound, Fresh, Mute

LEMMA OpenIs ==
    ASSUME NEW c, Sound(c)
    PROVE  /\ IsOpen(c, c.think, "thinking") <=> Opened(c, "thinking") # {}
           /\ IsOpen(c, c.text, "text") <=> Opened(c, "text") # {}
           /\ Opened(c, "thinking") # {} => Opened(c, "thinking") = {c.think} /\ c.think \in OpenOf(c)
           /\ Opened(c, "text") # {} => Opened(c, "text") = {c.text} /\ c.text \in OpenOf(c)
  <1>1. c.text \in 0 .. Len(c.blocks) /\ c.think \in 0 .. Len(c.blocks) BY DEF Sound, Core, HasPlaces
  <1>2. Len(c.blocks) \in Nat
    <2>1. c.blocks \in Seq(LiveBlocks) BY DEF Sound, Core, Contexts
    <2> QED BY <2>1
  <1>3. \A k \in 0 .. Len(c.blocks) : k # 0 <=> k \in 1 .. Len(c.blocks) BY <1>2
  <1>4. \A k, i : i \in Opened(c, k) <=> i \in 1 .. Len(c.blocks) /\ c.blocks[i].open /\ c.blocks[i].kind = k
    BY DEF Opened, OpenOf
  <1>6. IsOpen(c, c.think, "thinking") <=> c.think \in Opened(c, "thinking") BY <1>1, <1>3, <1>4 DEF IsOpen
  <1>7. IsOpen(c, c.text, "text") <=> c.text \in Opened(c, "text") BY <1>1, <1>3, <1>4 DEF IsOpen
  <1>8. Opened(c, "text") \subseteq {c.text} /\ Opened(c, "thinking") \subseteq {c.think} BY DEF Sound
  <1>9. \A k : Opened(c, k) \subseteq OpenOf(c) BY DEF Opened
  <1> QED BY <1>6, <1>7, <1>8, <1>9

(* A delta that is neither thinking nor a signature, if its block is open. *)
LEMMA DeltaSound ==
    ASSUME NEW c, Sound(c), NEW i \in 1 .. Len(c.blocks), NEW what \in Whats, NEW s \in Seq(Letters),
           what \notin {"thinking", "placeholder", "native"}, NEW d, d = Delta(c, i, what, s)
    PROVE  Sound(d) /\ Keeps(c, d, {}) /\ (\A k : Opened(d, k) = Opened(c, k)) /\ (Mute(c) => Mute(d))
  <1>1. CASE ~c.blocks[i].open
    <2>1. d = c BY <1>1 DEF Delta
    <2> QED BY <2>1 DEF Keeps
  <1>2. CASE c.blocks[i].open
    <2>1. i \in OpenOf(c) /\ d = Send(c, Sse("delta", i, what, s)) BY <1>2 DEF Delta, OpenOf
    <2>2. /\ Core(d) /\ Keeps(c, d, {}) /\ d.signature = c.signature
          /\ \A b : b # i => SameMarks(c, d, b)
          /\ what \notin {"placeholder", "native"} => Signatures(d.log, i) = Signatures(c.log, i)
          /\ what # "thinking" \/ Blank(s) => ThinkingText(d.log, i) = ThinkingText(c.log, i)
      <3>1. Core(c) BY DEF Sound
      <3>2. Filled(c, d, i, what, s) BY <2>1, <3>1, DeltaSent
      <3> QED BY <3>2 DEF Filled
    <2>3. \A b : SameMarks(c, d, b) BY <2>2 DEF SameMarks
    <2>4. d.text = c.text /\ d.think = c.think /\ \A k : Opened(d, k) = Opened(c, k) BY <2>2, SameShape
    <2>5. \A b : ThinkingText(d.log, b) = ThinkingText(c.log, b) /\ Signatures(d.log, b) = Signatures(c.log, b)
      BY <2>3 DEF SameMarks
    <2>6. Sound(d) /\ (Mute(c) => Mute(d)) BY <2>2, <2>4, <2>5 DEF Sound, Fresh, Mute
    <2> QED BY <2>2, <2>4, <2>6
  <1> QED BY <1>1, <1>2

LEMMA ThinkingSent ==
    ASSUME NEW c, Sound(c), Opened(c, "thinking") # {}, NEW s \in Seq(Letters), NEW d, d = ThinkingDelta(c, s)
    PROVE  /\ Sound(d) /\ Keeps(c, d, {}) /\ (\A k : Opened(d, k) = Opened(c, k))
           /\ (Mute(c) /\ Blank(s) => Mute(d)) /\ d.signature = c.signature
  <1>1. PICK e : e = [c EXCEPT !.thought = @ \/ ~Blank(s)] OBVIOUS
  <1>2. c \in Contexts /\ c.thought \in BOOLEAN BY DEF Sound, Core, Contexts
  <1>3. PICK v \in BOOLEAN : v = (c.thought \/ ~Blank(s)) BY <1>2
  <1>4. e = [c EXCEPT !.thought = v] BY <1>1, <1>3
  <1>5. e \in Contexts /\ Keeps(c, e, {}) /\ e.log = c.log /\ e.signature = c.signature BY <1>2, <1>4 DEF Contexts, Keeps, Fields
  <1>6. e.blocks = c.blocks /\ e.text = c.text /\ e.think = c.think /\ e.tools = c.tools BY <1>5, SameShape
  <1>7. Sound(e) /\ (\A k : Opened(e, k) = Opened(c, k)) /\ (Mute(c) => Mute(e)) BY <1>5, <1>6, SoundSame
  <1>8. d = Send(e, Sse("delta", c.think, "thinking", s)) BY <1>1 DEF ThinkingDelta
  <1>9. c.think \in OpenOf(e) /\ Opened(e, "thinking") = {c.think} BY <1>6, <1>7, OpenIs
  <1>10. PICK i \in OpenOf(e) : i = c.think BY <1>9
  <1>11. PICK w \in Whats : w = "thinking" BY DEF Whats, BlockKinds
  <1>12. /\ Core(d) /\ Keeps(e, d, {}) /\ d.signature = e.signature
         /\ \A b : b # i => SameMarks(e, d, b)
         /\ Signatures(d.log, i) = Signatures(e.log, i)
         /\ Blank(s) => ThinkingText(d.log, i) = ThinkingText(e.log, i)
    <2>1. Core(e) /\ d = Send(e, Sse("delta", i, w, s)) BY <1>7, <1>8, <1>10, <1>11 DEF Sound
    <2>2. Filled(e, d, i, w, s) BY <2>1, DeltaSent
    <2> QED BY <1>11, <2>2 DEF Filled
  <1>13. d.text = e.text /\ d.think = e.think /\ \A k : Opened(d, k) = Opened(e, k) BY <1>12, SameShape
  <1>14. \A b : Signatures(d.log, b) = Signatures(e.log, b) BY <1>12 DEF SameMarks
  <1>15. Blank(s) => \A b : ThinkingText(d.log, b) = ThinkingText(e.log, b) BY <1>12 DEF SameMarks
  <1>16. Sound(d) BY <1>7, <1>12, <1>13, <1>14 DEF Sound, Fresh
  <1>17. Mute(c) /\ Blank(s) => Mute(d) BY <1>7, <1>13, <1>15 DEF Mute
  <1>18. Keeps(c, d, {}) BY <1>5, <1>12 DEF Keeps
  <1> QED BY <1>5, <1>7, <1>12, <1>13, <1>16, <1>17, <1>18

LEMMA ThinkingSignedOff ==
    ASSUME NEW c, Sound(c), Opened(c, "thinking") # {}, NEW what \in {"placeholder", "native"},
           NEW d, d = SignAndStop(c, what)
    PROVE  /\ Sound(d) /\ Keeps(c, d, {"blocks"}) /\ Opened(d, "thinking") = {} /\ Opened(d, "text") = Opened(c, "text")
           /\ d.signature = c.signature
  <1>1. PICK e : e = ThinkingDelta(c, <<>>) OBVIOUS
  <1>2. << >> \in Seq(Letters) BY EmptySeq
  <1>3. Sound(e) /\ Keeps(c, e, {}) /\ (\A k : Opened(e, k) = Opened(c, k)) /\ e.signature = c.signature
    BY <1>1, <1>2, ThinkingSent
  <1>4. e.think = c.think BY <1>3, SameShape
  <1>5. Opened(e, "thinking") = {c.think} /\ c.think \in OpenOf(e) BY <1>3, <1>4, OpenIs
  <1>6. PICK i \in OpenOf(e) : i = c.think BY <1>5
  <1>a. PICK s \in Seq(Letters) : s = <<>> BY <1>2
  <1>b. PICK w \in Whats : w = what BY DEF Whats
  <1>7. PICK f : f = Send(e, Sse("delta", i, w, s)) OBVIOUS
  <1>9. /\ Core(f) /\ Keeps(e, f, {}) /\ f.signature = e.signature
        /\ \A b : b # i => SameMarks(e, f, b)
        /\ \E m : Signatures(f.log, i) = Signatures(e.log, i) \cup {m}
    <2>1. Core(e) BY <1>3 DEF Sound
    <2>2. Filled(e, f, i, w, s) BY <1>7, <2>1, DeltaSent
    <2> QED BY <1>b, <2>2 DEF Filled
  <1>10. /\ f.text = e.text /\ f.think = e.think /\ (\A k : Opened(f, k) = Opened(e, k)) /\ f.blocks = e.blocks
         /\ OpenOf(f) = OpenOf(e)
    BY <1>9, SameShape
  <1>11. OnceSigned(f.log, i)
    <2>1. Signatures(e.log, i) = {} BY <1>3, <1>5, <1>6 DEF Sound, Fresh
    <2> QED BY <1>9, <2>1 DEF OnceSigned
  <1>12. i \in 1 .. Len(f.blocks) BY <1>6, <1>10 DEF OpenOf
  <1>13. d = StopBlock(f, i) BY <1>1, <1>6, <1>7, <1>a, <1>b DEF SignAndStop
  <1>14. Core(d) /\ Keeps(f, d, {"blocks"}) /\ d.signature = f.signature /\ HasStopped(f, d, {i})
    BY <1>9, <1>11, <1>12, <1>13, BlockStopped
  <1>15. \A k : Opened(d, k) = Opened(e, k) \ {i} BY <1>10, <1>14 DEF HasStopped
  <1>16. Opened(d, "thinking") = {} BY <1>5, <1>6, <1>15
  <1>17. Opened(d, "text") = Opened(c, "text")
    <2>1. i \notin Opened(e, "text") BY <1>5, <1>6 DEF Opened
    <2>2. Opened(e, "text") = Opened(c, "text") BY <1>3
    <2>3. Opened(d, "text") = Opened(e, "text") \ {i} BY <1>15
    <2> QED BY <2>1, <2>2, <2>3
  <1>18. Keeps(c, d, {"blocks"}) BY <1>3, <1>9, <1>14 DEF Keeps
  <1>19. d.text = e.text BY <1>9, <1>14 DEF Keeps, Fields
  <1>20. Sound(d) BY <1>3, <1>14, <1>15, <1>16, <1>19 DEF Sound, Fresh
  <1> QED BY <1>3, <1>9, <1>14, <1>16, <1>17, <1>18, <1>20

-----------------------------------------------------------------------------
(* Text: the repeat guard and what it lets through.                         *)

(* A step that leaves the context sound, and all but F as it was. *)
Goes(c, d, F) == Sound(d) /\ Keeps(c, d, F) /\ (Mute(c) => Mute(d))

LEMMA GoesOn ==
    ASSUME NEW c, NEW d, NEW e, NEW F, NEW G, NEW H, Goes(c, d, F), Goes(d, e, G), F \subseteq H, G \subseteq H
    PROVE  Goes(c, e, H)
  BY DEF Goes, Keeps

LEMMA Stays ==
    ASSUME NEW c, Sound(c), NEW F
    PROVE  Goes(c, c, F)
  BY DEF Goes, Keeps

LEMMA StoppedGoes ==
    ASSUME NEW c, Sound(c), NEW d, Core(d), Keeps(c, d, {"blocks"}), NEW S, HasStopped(c, d, S)
    PROVE  Goes(c, d, {"blocks"}) /\ \A k : Opened(d, k) = Opened(c, k) \ S
  BY StoppedSound DEF Goes, HasStopped

NewestIs(c, d, kind) ==
    Newest(d) = Newest(c) + 1 /\ Newest(d) \in 1 .. Len(d.blocks) /\ d.blocks[Newest(d)].kind = kind

LEMMA StartedNewest ==
    ASSUME NEW c, NEW d, NEW kind, HasStarted(c, d, kind)
    PROVE  NewestIs(c, d, kind) /\ Newest(c) \in Nat
  BY DEF HasStarted, NewestIs, Newest

LEMMA TextStopped ==
    ASSUME NEW c, Sound(c), NEW d, d = StopKinds(c, {"text"})
    PROVE  Goes(c, d, {"blocks"}) /\ Opened(d, "text") = {} /\ Opened(d, "thinking") = Opened(c, "thinking")
           /\ Len(d.blocks) = Len(c.blocks)
  <1>1. PICK kinds : kinds = {"text"} OBVIOUS
  <1>2. Core(d) /\ Keeps(c, d, {"blocks"}) /\ d.signature = c.signature /\ HasStopped(c, d, OfKinds(c, kinds))
    <2>1. Core(c) /\ "thinking" \notin kinds /\ d = StopKinds(c, kinds) BY <1>1 DEF Sound
    <2> QED BY <2>1, KindsStopped
  <1>3. Goes(c, d, {"blocks"}) /\ \A k : Opened(d, k) = Opened(c, k) \ OfKinds(c, kinds) BY <1>2, StoppedGoes
  <1>4. Opened(c, "text") \subseteq OfKinds(c, kinds) /\ Opened(c, "thinking") \cap OfKinds(c, kinds) = {}
    BY <1>1 DEF Opened, OpenOf, OfKinds
  <1>5. Len(d.blocks) = Len(c.blocks) BY <1>2 DEF HasStopped
  <1>6. Opened(d, "text") = {} BY <1>3, <1>4
  <1>7. Opened(d, "thinking") = Opened(c, "thinking") BY <1>3, <1>4
  <1> QED BY <1>3, <1>5, <1>6, <1>7

LEMMA ToolStarted ==
    ASSUME NEW c, Sound(c), NEW d, d = StartBlock(c, "tool")
    PROVE  Goes(c, d, {"blocks"}) /\ Opened(d, "text") = {} /\ Opened(d, "thinking") = Opened(c, "thinking")
           /\ NewestIs(c, d, "tool")
  <1>1. PICK e : e = [c EXCEPT !.hasTool = TRUE] OBVIOUS
  <1>2. e \in Contexts /\ Keeps(c, e, {}) /\ e.log = c.log
    <2>1. c \in Contexts BY DEF Sound, Core
    <2> QED BY <1>1, <2>1 DEF Contexts, Keeps, Fields
  <1>3. e.blocks = c.blocks /\ e.text = c.text /\ e.think = c.think /\ e.tools = c.tools BY <1>2, SameShape
  <1>4. Sound(e) /\ (\A k : Opened(e, k) = Opened(c, k)) /\ (Mute(c) => Mute(e)) BY <1>2, <1>3, SoundSame
  <1>5. PICK f : f = StopKinds(e, {"text"}) OBVIOUS
  <1>6. Goes(e, f, {"blocks"}) /\ Opened(f, "text") = {} /\ Opened(f, "thinking") = Opened(e, "thinking")
        /\ Len(f.blocks) = Len(e.blocks)
    BY <1>4, <1>5, TextStopped
  <1>7. PICK w \in BlockKinds : w = "tool" BY DEF BlockKinds
  <1>8. d = NewBlock(f, w) BY <1>1, <1>5, <1>7 DEF StartBlock
  <1>9. Core(d) /\ Keeps(f, d, {"blocks"}) /\ d.signature = f.signature /\ HasStarted(f, d, w)
    <2>1. Core(f) BY <1>6 DEF Goes, Sound
    <2>2. w # "tool" => Opened(f, "thinking") = {} /\ Opened(f, "redacted") = {} BY <1>7
    <2> QED BY <1>6, <1>8, <2>1, <2>2, BlockStarted
  <1>10. \A k : k # "tool" => Opened(d, k) = Opened(f, k) BY <1>7, <1>9 DEF HasStarted
  <1>11. \A b : SameMarks(f, d, b) BY <1>9 DEF HasStarted
  <1>12. d.text = f.text /\ d.think = f.think BY <1>9 DEF Keeps, Fields
  <1>13. Sound(d) /\ (Mute(f) => Mute(d))
    <2>1. \A b : ThinkingText(d.log, b) = ThinkingText(f.log, b) /\ Signatures(d.log, b) = Signatures(f.log, b)
      BY <1>11 DEF SameMarks
    <2>2. Opened(d, "text") = Opened(f, "text") /\ Opened(d, "thinking") = Opened(f, "thinking")
          /\ Opened(d, "redacted") = Opened(f, "redacted")
      BY <1>10
    <2> QED BY <1>6, <1>9, <1>12, <2>1, <2>2 DEF Sound, Fresh, Mute, Goes
  <1>14. Keeps(c, d, {"blocks"}) BY <1>2, <1>6, <1>9 DEF Keeps, Goes
  <1>15. Goes(c, d, {"blocks"}) BY <1>4, <1>6, <1>13, <1>14 DEF Goes
  <1>16. Opened(d, "text") = {} /\ Opened(d, "thinking") = Opened(c, "thinking") BY <1>4, <1>6, <1>10
  <1>17. NewestIs(c, d, "tool")
    <2>1. NewestIs(f, d, w) BY <1>9, StartedNewest
    <2>2. Newest(f) = Newest(c) BY <1>3, <1>6 DEF Newest
    <2> QED BY <1>7, <2>1, <2>2 DEF NewestIs
  <1> QED BY <1>15, <1>16, <1>17

LEMMA TextStarted ==
    ASSUME NEW c, Sound(c), Opened(c, "text") = {}, Opened(c, "thinking") = {}, NEW d, d = StartText(c)
    PROVE  Goes(c, d, {"blocks", "text"}) /\ Opened(d, "text") = {d.text} /\ Opened(d, "thinking") = {}
  <1>1. PICK w \in BlockKinds : w = "text" BY DEF BlockKinds
  <1>2. PICK e : e = NewBlock(c, w) OBVIOUS
  <1>3. PICK n : n = Newest(c) + 1 OBVIOUS
  <1>4. d = [e EXCEPT !.text = n] BY <1>1, <1>2, <1>3 DEF StartText, StartBlock
  <1>5. Core(e) /\ Keeps(c, e, {"blocks"}) /\ e.signature = c.signature /\ HasStarted(c, e, w)
    <2>1. Core(c) /\ Opened(c, "redacted") = {} BY DEF Sound
    <2> QED BY <1>2, <2>1, BlockStarted
  <1>6. NewestIs(c, e, w) /\ Newest(c) \in Nat BY <1>5, StartedNewest
  <1>7. n = Newest(e) /\ n \in Nat /\ n \in 1 .. Len(e.blocks) BY <1>3, <1>6 DEF NewestIs
  <1>8. e \in Contexts /\ HasPlaces(e) BY <1>5 DEF Core
  <1>9. d \in Contexts /\ Keeps(e, d, {"text"}) /\ d.log = e.log /\ d.text = n BY <1>4, <1>7, <1>8 DEF Contexts, Keeps, Fields
  <1>10. d.blocks = e.blocks /\ d.think = e.think /\ d.tools = e.tools BY <1>9 DEF Keeps, Fields
  <1>11. HasPlaces(d)
    <2>1. n \in 0 .. Len(e.blocks) BY <1>7
    <2> QED BY <1>8, <1>9, <1>10, <2>1 DEF HasPlaces
  <1>12. Core(d) /\ OpenOf(d) = OpenOf(e) /\ (\A k : Opened(d, k) = Opened(e, k)) /\ \A b : SameMarks(e, d, b)
    BY <1>5, <1>9, <1>10, <1>11, CorePlaced
  <1>13. Opened(e, "text") = {n} /\ Opened(e, "thinking") = {} /\ Opened(e, "redacted") = {}
    <2>1. Opened(c, "redacted") = {} BY DEF Sound
    <2>2. \A k : Opened(e, k) = IF k = w THEN Opened(c, k) \cup {Len(e.blocks)} ELSE Opened(c, k) BY <1>5 DEF HasStarted
    <2>3. n = Len(e.blocks) BY <1>7 DEF Newest
    <2> QED BY <1>1, <2>1, <2>2, <2>3
  <1>14. Opened(d, "text") = {n} /\ Opened(d, "thinking") = {} /\ Opened(d, "redacted") = {} BY <1>12, <1>13
  <1>15. Sound(d) /\ Mute(d) BY <1>9, <1>12, <1>14 DEF Sound, Fresh, Mute
  <1>16. Keeps(c, d, {"blocks", "text"}) BY <1>5, <1>9 DEF Keeps
  <1> QED BY <1>9, <1>14, <1>15, <1>16 DEF Goes

LEMMA ThinkingStarted ==
    ASSUME NEW c, Sound(c), Opened(c, "text") = {}, Opened(c, "thinking") = {}, NEW d, d = StartThinking(c)
    PROVE  Goes(c, d, {"blocks", "think"}) /\ Mute(d) /\ Opened(d, "text") = {} /\ Opened(d, "thinking") = {d.think}
  <1>1. PICK w \in BlockKinds : w = "thinking" BY DEF BlockKinds
  <1>2. PICK e : e = NewBlock(c, w) OBVIOUS
  <1>3. PICK n : n = Newest(c) + 1 OBVIOUS
  <1>4. d = [e EXCEPT !.think = n] BY <1>1, <1>2, <1>3 DEF StartThinking, StartBlock
  <1>5. Core(e) /\ Keeps(c, e, {"blocks"}) /\ e.signature = c.signature /\ HasStarted(c, e, w)
    <2>1. Core(c) /\ Opened(c, "redacted") = {} BY DEF Sound
    <2> QED BY <1>2, <2>1, BlockStarted
  <1>6. NewestIs(c, e, w) /\ Newest(c) \in Nat BY <1>5, StartedNewest
  <1>7. n = Newest(e) /\ n \in Nat /\ n \in 1 .. Len(e.blocks) BY <1>3, <1>6 DEF NewestIs
  <1>8. e \in Contexts /\ HasPlaces(e) BY <1>5 DEF Core
  <1>9. d \in Contexts /\ Keeps(e, d, {"think"}) /\ d.log = e.log /\ d.think = n BY <1>4, <1>7, <1>8 DEF Contexts, Keeps, Fields
  <1>10. d.blocks = e.blocks /\ d.text = e.text /\ d.tools = e.tools BY <1>9 DEF Keeps, Fields
  <1>11. HasPlaces(d)
    <2>1. n \in 0 .. Len(e.blocks) BY <1>7
    <2> QED BY <1>8, <1>9, <1>10, <2>1 DEF HasPlaces
  <1>12. Core(d) /\ OpenOf(d) = OpenOf(e) /\ (\A k : Opened(d, k) = Opened(e, k)) /\ \A b : SameMarks(e, d, b)
    BY <1>5, <1>9, <1>10, <1>11, CorePlaced
  <1>13. Opened(e, "thinking") = {n} /\ Opened(e, "text") = {} /\ Opened(e, "redacted") = {}
    <2>1. Opened(c, "redacted") = {} BY DEF Sound
    <2>2. \A k : Opened(e, k) = IF k = w THEN Opened(c, k) \cup {Len(e.blocks)} ELSE Opened(c, k) BY <1>5 DEF HasStarted
    <2>3. n = Len(e.blocks) BY <1>7 DEF Newest
    <2> QED BY <1>1, <2>1, <2>2, <2>3
  <1>14. Opened(d, "thinking") = {n} /\ Opened(d, "text") = {} /\ Opened(d, "redacted") = {} BY <1>12, <1>13
  <1>15. Signatures(e.log, n) = {} /\ ThinkingText(e.log, n) = {}
    <2>1. n = Len(e.blocks) BY <1>7 DEF Newest
    <2> QED BY <1>5, <2>1 DEF HasStarted
  <1>16. Sound(d) /\ Mute(d) BY <1>9, <1>12, <1>14, <1>15 DEF Sound, Fresh, Mute, SameMarks
  <1>17. Keeps(c, d, {"blocks", "think"}) BY <1>5, <1>9 DEF Keeps
  <1> QED BY <1>9, <1>14, <1>16, <1>17 DEF Goes

LEMMA RedactedShown ==
    ASSUME NEW c, Sound(c), Opened(c, "text") = {}, Opened(c, "thinking") = {},
           NEW d, d = StopNewest(StartBlock(c, "redacted"))
    PROVE  Goes(c, d, {"blocks"}) /\ Opened(d, "text") = {} /\ Opened(d, "thinking") = {}
  <1>1. PICK w \in BlockKinds : w = "redacted" BY DEF BlockKinds
  <1>2. PICK e : e = NewBlock(c, w) OBVIOUS
  <1>3. PICK n : n = Newest(e) OBVIOUS
  <1>4. d = StopBlock(e, n) BY <1>1, <1>2, <1>3 DEF StopNewest, StartBlock
  <1>5. Core(e) /\ Keeps(c, e, {"blocks"}) /\ e.signature = c.signature /\ HasStarted(c, e, w)
    <2>1. Core(c) /\ Opened(c, "redacted") = {} BY DEF Sound
    <2> QED BY <1>2, <2>1, BlockStarted
  <1>6. n = Len(e.blocks) /\ n \in 1 .. Len(e.blocks) /\ e.blocks[n].kind = w
    <2>1. NewestIs(c, e, w) BY <1>5, StartedNewest
    <2> QED BY <1>3, <2>1 DEF NewestIs, Newest
  <1>7. Opened(e, "redacted") = {n} /\ Opened(e, "text") = {} /\ Opened(e, "thinking") = {}
    <2>1. Opened(c, "redacted") = {} BY DEF Sound
    <2>2. \A k : Opened(e, k) = IF k = w THEN Opened(c, k) \cup {Len(e.blocks)} ELSE Opened(c, k) BY <1>5 DEF HasStarted
    <2> QED BY <1>1, <1>6, <2>1, <2>2
  <1>8. Core(d) /\ Keeps(e, d, {"blocks"}) /\ d.signature = e.signature /\ HasStopped(e, d, {n})
    <2>1. n \notin Opened(e, "thinking") BY <1>7
    <2> QED BY <1>4, <1>5, <1>6, <2>1, BlockStopped
  <1>9. \A k : Opened(d, k) = Opened(e, k) \ {n} BY <1>8 DEF HasStopped
  <1>10. Opened(d, "redacted") = {} /\ Opened(d, "text") = {} /\ Opened(d, "thinking") = {} BY <1>7, <1>9
  <1>11. Sound(d) /\ Mute(d) BY <1>8, <1>10 DEF Sound, Fresh, Mute
  <1>12. Keeps(c, d, {"blocks"}) BY <1>5, <1>8 DEF Keeps
  <1> QED BY <1>10, <1>11, <1>12 DEF Goes

-----------------------------------------------------------------------------
(* The sniffer of calls written as text.                                    *)

(* A context with other fields than those of its blocks. *)
LEMMA FieldsGo ==
    ASSUME NEW c, Sound(c), NEW d \in Contexts, NEW F, Keeps(c, d, F), d.log = c.log,
           {"blocks", "text", "think", "tools"} \cap F = {}
    PROVE  Goes(c, d, F) /\ \A k : Opened(d, k) = Opened(c, k)
  <1>1. d.blocks = c.blocks /\ d.text = c.text /\ d.think = c.think /\ d.tools = c.tools BY DEF Keeps, Fields
  <1>2. Sound(d) /\ (\A k : Opened(d, k) = Opened(c, k)) /\ (Mute(c) => Mute(d)) BY <1>1, SoundSame
  <1> QED BY <1>2 DEF Goes

LEMMA TypesOf ==
    ASSUME NEW c, Sound(c)
    PROVE  /\ c \in Contexts /\ c.log \in Seq(LiveEvents) /\ c.blocks \in Seq(LiveBlocks) /\ c.tools \in [ToolIds -> Nat]
           /\ c.buf \in Seq(Letters) /\ c.held \in Seq(Letters) /\ c.acc \in Calling /\ c.credits \in Nat
           /\ c.inTag \in BOOLEAN /\ c.extracted \in BOOLEAN /\ c.thinks \in BOOLEAN
           /\ c.tripped \in BOOLEAN /\ c.visible \in BOOLEAN /\ c.thought \in BOOLEAN /\ c.native_tools \in BOOLEAN
           /\ c.stop \in Stops /\ c.native \in Natives /\ c.signature \in {"none", "native"}
  BY DEF Sound, Core, Contexts

LEMMA Said0 ==
    ASSUME NEW c, Sound(c), NEW s \in Seq(Letters), s = <<>> \/ Opened(c, "thinking") = {}, NEW d, d = Say(c, s)
    PROVE  Goes(c, d, {"blocks", "text"}) /\ Opened(d, "thinking") = Opened(c, "thinking")
  <1>1. CASE s = <<>>
    <2>1. d = c BY <1>1 DEF Say
    <2> QED BY <2>1, Stays
  <1>2. CASE s # <<>>
    <2>1. PICK e : e = IF IsOpen(c, c.text, "text") THEN c ELSE StartText(c) OBVIOUS
    <2>2. Goes(c, e, {"blocks", "text"}) /\ Opened(e, "text") # {} /\ Opened(e, "thinking") = {}
      <3>1. CASE IsOpen(c, c.text, "text")
        <4>1. e = c /\ Opened(c, "text") # {} BY <2>1, <3>1, OpenIs
        <4> QED BY <1>2, <4>1, Stays
      <3>2. CASE ~IsOpen(c, c.text, "text")
        <4>1. e = StartText(c) /\ Opened(c, "text") = {} BY <2>1, <3>2, OpenIs
        <4>2. Goes(c, e, {"blocks", "text"}) /\ Opened(e, "text") = {e.text} /\ Opened(e, "thinking") = {}
          BY <1>2, <4>1, TextStarted
        <4> QED BY <4>2
      <3> QED BY <3>1, <3>2
    <2>3. Sound(e) BY <2>2 DEF Goes
    <2>4. e.text \in OpenOf(e) BY <2>2, <2>3, OpenIs
    <2>5. PICK i \in 1 .. Len(e.blocks) : i = e.text BY <2>4 DEF OpenOf
    <2>6. PICK w \in Whats : w = "text" BY DEF Whats, BlockKinds
    <2>7. d = Delta(e, i, w, s) BY <1>2, <2>1, <2>5, <2>6 DEF Say, AddText
    <2>8. Sound(d) /\ Keeps(e, d, {}) /\ (\A k : Opened(d, k) = Opened(e, k)) /\ (Mute(e) => Mute(d))
      BY <2>3, <2>6, <2>7, DeltaSound
    <2>9. Goes(e, d, {}) BY <2>8 DEF Goes
    <2>10. Goes(c, d, {"blocks", "text"}) BY <2>2, <2>9, GoesOn
    <2> QED BY <1>2, <2>2, <2>8, <2>10
  <1> QED BY <1>1, <1>2

LEMMA Emitted ==
    ASSUME NEW c, Sound(c), NEW s \in Seq(Letters), s = <<>> \/ Opened(c, "thinking") = {}, NEW d, d = EmitText(c, s)
    PROVE  Goes(c, d, {"blocks", "text"}) /\ Opened(d, "thinking") = Opened(c, "thinking")
  <1>1. PICK kept : kept = IF c.tripped THEN <<>> ELSE Unflooded(s) OBVIOUS
  <1>2. kept \in Seq(Letters) /\ (s = <<>> => kept = <<>>)
    <2>1. Unflooded(s) \in Seq(Letters) BY TextParts
    <2>2. << >> \in Seq(Letters) BY EmptySeq
    <2>3. s = <<>> => Unflooded(s) = <<>>
      <3>1. s = <<>> => DOMAIN s = {} OBVIOUS
      <3>2. s = <<>> => ~Flooded(s) BY <3>1 DEF Flooded
      <3> QED BY <3>2 DEF Unflooded
    <2> QED BY <1>1, <2>1, <2>2, <2>3
  <1>3. PICK u \in BOOLEAN, v \in BOOLEAN : u = (c.tripped \/ Flooded(s)) /\ v = (c.visible \/ ~Blank(kept))
    OBVIOUS
  <1>4. PICK e : e = [c EXCEPT !.tripped = u, !.visible = v] OBVIOUS
  <1>5. e \in Contexts /\ Keeps(c, e, {}) /\ e.log = c.log
    <2>1. c \in Contexts BY TypesOf
    <2> QED BY <1>4, <2>1 DEF Contexts, Keeps, Fields
  <1>6. Goes(c, e, {}) /\ \A k : Opened(e, k) = Opened(c, k) BY <1>5, FieldsGo
  <1>7. d = Say(e, kept) BY <1>1, <1>3, <1>4 DEF EmitText
  <1>8. Goes(e, d, {"blocks", "text"}) /\ Opened(d, "thinking") = Opened(e, "thinking")
    <2>1. Sound(e) /\ (kept = <<>> \/ Opened(e, "thinking") = {}) BY <1>2, <1>6 DEF Goes
    <2> QED BY <1>2, <1>7, <2>1, Said0
  <1>9. Goes(c, d, {"blocks", "text"}) BY <1>6, <1>8, GoesOn
  <1> QED BY <1>6, <1>8, <1>9

LEMMA Texted ==
    ASSUME NEW c, Sound(c), NEW s \in Seq(Letters), Opened(c, "thinking") = {}, NEW d, d = Text(c, s)
    PROVE  Goes(c, d, {"blocks", "text", "held"}) /\ Opened(d, "thinking") = {} /\ (c.native_tools => d.held = <<>>)
  <1>1. PICK all \in Seq(Letters) : all = c.held \o s
    <2>1. c.held \in Seq(Letters) BY TypesOf
    <2> QED BY <2>1, ConcatProperties
  <1>2. PICK h \in Seq(Letters), t \in Seq(Letters) :
           h = (IF c.native_tools THEN <<>> ELSE Held(all)) /\ t = (IF c.native_tools THEN all ELSE Released(all))
    <2>1. << >> \in Seq(Letters) /\ Held(all) \in Seq(Letters) /\ Released(all) \in Seq(Letters) BY TextParts, EmptySeq
    <2> QED BY <2>1
  <1>3. PICK e : e = [c EXCEPT !.held = h] OBVIOUS
  <1>4. e \in Contexts /\ Keeps(c, e, {"held"}) /\ e.log = c.log /\ e.held = h
    <2>1. c \in Contexts BY TypesOf
    <2> QED BY <1>3, <2>1 DEF Contexts, Keeps, Fields
  <1>5. Goes(c, e, {"held"}) /\ \A k : Opened(e, k) = Opened(c, k)
    <2>1. {"blocks", "text", "think", "tools"} \cap {"held"} = {} OBVIOUS
    <2> QED BY <1>4, <2>1, FieldsGo
  <1>6. d = EmitText(e, t) BY <1>1, <1>2, <1>3 DEF Text
  <1>7. Goes(e, d, {"blocks", "text"}) /\ Opened(d, "thinking") = Opened(e, "thinking")
    <2>1. Sound(e) /\ Opened(e, "thinking") = {} BY <1>5 DEF Goes
    <2> QED BY <1>6, <2>1, Emitted
  <1>8. Goes(c, d, {"blocks", "text", "held"}) BY <1>5, <1>7, GoesOn
  <1>9. d.held = h BY <1>4, <1>7 DEF Goes, Keeps, Fields
  <1> QED BY <1>2, <1>5, <1>7, <1>8, <1>9

LEMMA SnifferAbandoned ==
    ASSUME NEW c, Sound(c), c.held = <<>> \/ Opened(c, "thinking") = {}, NEW d, d = Abandon(c)
    PROVE  Goes(c, d, {"blocks", "text", "held", "native_tools"}) /\ Opened(d, "thinking") = Opened(c, "thinking")
           /\ d.native_tools /\ d.held = <<>>
  <1>1. PICK h \in Seq(Letters) : h = <<>> BY EmptySeq
  <1>2. PICK v \in BOOLEAN : v = TRUE OBVIOUS
  <1>3. PICK e : e = [c EXCEPT !.native_tools = v, !.held = h] OBVIOUS
  <1>4. e \in Contexts /\ Keeps(c, e, {"held", "native_tools"}) /\ e.log = c.log /\ e.held = h /\ e.native_tools = v
    <2>1. c \in Contexts BY TypesOf
    <2> QED BY <1>3, <2>1 DEF Contexts, Keeps, Fields
  <1>5. Goes(c, e, {"held", "native_tools"}) /\ \A k : Opened(e, k) = Opened(c, k)
    <2>1. {"blocks", "text", "think", "tools"} \cap {"held", "native_tools"} = {} OBVIOUS
    <2> QED BY <1>4, <2>1, FieldsGo
  <1>6. PICK t \in Seq(Letters) : t = c.held BY TypesOf
  <1>7. d = EmitText(e, t) BY <1>1, <1>2, <1>3, <1>6 DEF Abandon
  <1>8. Goes(e, d, {"blocks", "text"}) /\ Opened(d, "thinking") = Opened(e, "thinking")
    <2>1. Sound(e) /\ (t = <<>> \/ Opened(e, "thinking") = {}) BY <1>5, <1>6 DEF Goes
    <2> QED BY <1>7, <2>1, Emitted
  <1>9. Goes(c, d, {"blocks", "text", "held", "native_tools"}) BY <1>5, <1>8, GoesOn
  <1>10. d.held = h /\ d.native_tools = v BY <1>4, <1>8 DEF Goes, Keeps, Fields
  <1> QED BY <1>1, <1>2, <1>5, <1>8, <1>9, <1>10

LEMMA TextLeft ==
    ASSUME NEW c, Sound(c), NEW d, d = StopText(c)
    PROVE  Goes(c, d, {"blocks", "text"}) /\ Opened(d, "text") = {} /\ Opened(d, "thinking") = Opened(c, "thinking")
  <1>1. PICK e : e = [c EXCEPT !.text = 0] OBVIOUS
  <1>2. e \in Contexts /\ Keeps(c, e, {"text"}) /\ e.log = c.log /\ e.text = 0
    <2>1. c \in Contexts BY TypesOf
    <2> QED BY <1>1, <2>1 DEF Contexts, Keeps, Fields
  <1>3. e.blocks = c.blocks /\ e.think = c.think /\ e.tools = c.tools BY <1>2 DEF Keeps, Fields
  <1>4. HasPlaces(e)
    <2>1. HasPlaces(c) BY DEF Sound, Core
    <2>2. Len(c.blocks) \in Nat
      <3>1. c.blocks \in Seq(LiveBlocks) BY TypesOf
      <3> QED BY <3>1
    <2>3. 0 \in 0 .. Len(c.blocks) BY <2>2
    <2> QED BY <1>2, <1>3, <2>1, <2>3 DEF HasPlaces
  <1>5. Core(e) /\ OpenOf(e) = OpenOf(c) /\ (\A k : Opened(e, k) = Opened(c, k)) /\ \A b : SameMarks(c, e, b)
    <2>1. Core(c) BY DEF Sound
    <2> QED BY <1>2, <1>3, <1>4, <2>1, CorePlaced
  <1>6. PICK S : S = Opened(c, "text") OBVIOUS
  <1>7. Core(d) /\ Keeps(e, d, {"blocks"}) /\ HasStopped(e, d, S)
    <2>1. CASE IsOpen(c, c.text, "text")
      <3>1. S = {c.text} /\ c.text \in OpenOf(c) BY <1>6, <2>1, OpenIs
      <3>2. d = StopBlock(e, c.text) BY <1>1, <2>1 DEF StopText
      <3>3. PICK i \in 1 .. Len(e.blocks) : i = c.text BY <1>3, <3>1 DEF OpenOf
      <3>4. i \notin Opened(e, "thinking")
        <4>1. i \in Opened(c, "text") BY <1>6, <3>1, <3>3
        <4> QED BY <1>5, <4>1 DEF Opened
      <3>5. Core(d) /\ Keeps(e, d, {"blocks"}) /\ d.signature = e.signature /\ HasStopped(e, d, {i})
        BY <1>5, <3>2, <3>3, <3>4, BlockStopped
      <3> QED BY <3>1, <3>3, <3>5
    <2>2. CASE ~IsOpen(c, c.text, "text")
      <3>1. S = {} BY <1>6, <2>2, OpenIs
      <3>2. d = e BY <1>1, <2>2 DEF StopText
      <3>3. OpenOf(e) = OpenOf(e) \ S /\ \A k : Opened(e, k) = Opened(e, k) \ S BY <3>1
      <3>4. HasStopped(e, e, S) BY <3>3 DEF HasStopped, SameMarks
      <3> QED BY <1>5, <3>2, <3>4 DEF Keeps
    <2> QED BY <2>1, <2>2
  <1>8. \A k : Opened(d, k) = Opened(c, k) \ S BY <1>5, <1>7 DEF HasStopped
  <1>9. Opened(d, "text") = {} BY <1>6, <1>8
  <1>10. Opened(d, "thinking") = Opened(c, "thinking")
    <2>1. Opened(c, "thinking") \cap S = {} BY <1>6 DEF Opened
    <2> QED BY <1>8, <2>1
  <1>11. Opened(d, "redacted") = {}
    <2>1. Opened(c, "redacted") = {} BY DEF Sound
    <2> QED BY <1>8, <2>1
  <1>12. d.think = c.think BY <1>3, <1>7 DEF Keeps, Fields
  <1>13. \A b : SameMarks(c, d, b) BY <1>5, <1>7 DEF HasStopped, SameMarks
  <1>14. Sound(d) /\ (Mute(c) => Mute(d))
    BY <1>7, <1>9, <1>10, <1>11, <1>12, <1>13 DEF Sound, Fresh, Mute, SameMarks
  <1>15. Keeps(c, d, {"blocks", "text"}) BY <1>2, <1>7 DEF Keeps
  <1> QED BY <1>9, <1>10, <1>14, <1>15 DEF Goes

LEMMA ThinkingClosed ==
    ASSUME NEW c, Sound(c), NEW d, d = CloseThinking(c)
    PROVE  Goes(c, d, {"blocks"}) /\ Opened(d, "thinking") = {} /\ Opened(d, "text") = Opened(c, "text")
  <1>1. CASE ~IsOpen(c, c.think, "thinking")
    <2>1. d = c /\ Opened(c, "thinking") = {} BY <1>1, OpenIs DEF CloseThinking
    <2> QED BY <2>1, Stays
  <1>2. CASE IsOpen(c, c.think, "thinking")
    <2>1. PICK w \in {"placeholder", "native"} : w = IF c.signature = "none" THEN "placeholder" ELSE c.signature
      BY TypesOf
    <2>2. PICK e : e = [c EXCEPT !.signature = "none"] OBVIOUS
    <2>3. e \in Contexts /\ Keeps(c, e, {}) /\ e.log = c.log
      <3>1. c \in Contexts BY TypesOf
      <3> QED BY <2>2, <3>1 DEF Contexts, Keeps, Fields
    <2>4. Goes(c, e, {}) /\ \A k : Opened(e, k) = Opened(c, k) BY <2>3, FieldsGo
    <2>5. d = SignAndStop(e, w) BY <1>2, <2>1, <2>2 DEF CloseThinking
    <2>6. /\ Sound(d) /\ Keeps(e, d, {"blocks"}) /\ Opened(d, "thinking") = {} /\ Opened(d, "text") = Opened(e, "text")
      <3>1. Sound(e) /\ Opened(e, "thinking") # {} BY <1>2, <2>4, OpenIs DEF Goes
      <3> QED BY <2>5, <3>1, ThinkingSignedOff
    <2>7. Goes(e, d, {"blocks"}) BY <2>6 DEF Goes, Mute
    <2>8. Goes(c, d, {"blocks"}) BY <2>4, <2>7, GoesOn
    <2> QED BY <2>4, <2>6, <2>8
  <1> QED BY <1>1, <1>2

-----------------------------------------------------------------------------
(* Tags: a context that reads tags is attentive to them, and thinks between *)
(* them only.                                                               *)

Plain == Letters \ {"o1"}

(* What tells thinking between tags from native thinking, in a reply of flavour f. *)
Tagged(c, f) ==
    /\ c.inTag => f = "tags" /\ c.thinks /\ ~c.extracted /\ Opened(c, "thinking") # {}
    /\ c.inTag /\ c.buf = <<>> => Mute(c)
    /\ c.thinks /\ ~c.extracted => c.held = <<>>
    /\ f # "tags" => c.buf \in Seq(Plain)
    /\ f = "tags" => c.thinks /\ c.acc = NoCalls
    /\ f = "tags" /\ ~c.inTag /\ ~c.extracted => Opened(c, "text") = {}
Attentive(c, f) == Sound(c) /\ Tagged(c, f)

LEMMA ThinkingEnded ==
    ASSUME NEW c, Sound(c), Opened(c, "thinking") # {}, NEW i \in 1 .. Len(c.buf), NEW d, d = EndThinking(c, i)
    PROVE  /\ Goes(c, d, {"blocks", "inTag", "extracted", "buf"}) /\ ~d.inTag /\ d.extracted
           /\ Opened(d, "thinking") = {} /\ Opened(d, "text") = Opened(c, "text")
  <1>1. c.buf \in Seq(Letters) BY TypesOf
  <1>2. PICK e : e = IF i = 1 THEN c ELSE ThinkingDelta(c, Before(c.buf, i)) OBVIOUS
  <1>3. Sound(e) /\ Keeps(c, e, {}) /\ (\A k : Opened(e, k) = Opened(c, k))
    <2>1. CASE i = 1 BY <1>2, <2>1 DEF Keeps
    <2>2. CASE i # 1
      <3>1. PICK s \in Seq(Letters) : s = Before(c.buf, i) BY <1>1, TextParts
      <3>2. e = ThinkingDelta(c, s) BY <1>2, <2>2, <3>1
      <3> QED BY <3>2, ThinkingSent
    <2> QED BY <2>1, <2>2
  <1>4. PICK u \in BOOLEAN, v \in BOOLEAN : u = FALSE /\ v = TRUE OBVIOUS
  <1>5. e.buf = c.buf BY <1>3 DEF Keeps, Fields
  <1>6. PICK s \in Seq(Letters) : s = Trimmed(From(c.buf, i + 2))
    <2>1. PICK t \in Seq(Letters) : t = From(c.buf, i + 2)
      <3>1. i \in 0 .. Len(c.buf) OBVIOUS
      <3> QED BY <1>1, <3>1, TextParts
    <2> QED BY <2>1, TextParts
  <1>7. PICK g : g = [e EXCEPT !.inTag = u, !.extracted = v, !.buf = s] OBVIOUS
  <1>8. g \in Contexts /\ Keeps(e, g, {"inTag", "extracted", "buf"}) /\ g.log = e.log /\ g.inTag = u /\ g.extracted = v
    <2>1. e \in Contexts BY <1>3, TypesOf
    <2> QED BY <1>7, <2>1 DEF Contexts, Keeps, Fields
  <1>9. Goes(e, g, {"inTag", "extracted", "buf"}) /\ \A k : Opened(g, k) = Opened(e, k)
    <2>1. {"blocks", "text", "think", "tools"} \cap {"inTag", "extracted", "buf"} = {} OBVIOUS
    <2> QED BY <1>3, <1>8, <2>1, FieldsGo
  <1>10. PICK w \in {"placeholder", "native"} : w = "placeholder" OBVIOUS
  <1>11. d = SignAndStop(g, w) BY <1>2, <1>4, <1>5, <1>6, <1>7, <1>10 DEF EndThinking
  <1>12. Sound(d) /\ Keeps(g, d, {"blocks"}) /\ Opened(d, "thinking") = {} /\ Opened(d, "text") = Opened(g, "text")
    <2>1. Sound(g) /\ Opened(g, "thinking") # {} BY <1>3, <1>9 DEF Goes
    <2> QED BY <1>11, <2>1, ThinkingSignedOff
  <1>13. Keeps(c, d, {"blocks", "inTag", "extracted", "buf"}) BY <1>3, <1>9, <1>12 DEF Keeps, Goes
  <1>14. Goes(c, d, {"blocks", "inTag", "extracted", "buf"}) BY <1>12, <1>13 DEF Goes, Mute
  <1>15. ~d.inTag /\ d.extracted BY <1>4, <1>8, <1>12 DEF Keeps, Fields
  <1> QED BY <1>3, <1>9, <1>12, <1>14, <1>15

LEMMA NativeEnded ==
    ASSUME NEW c, NEW f, Attentive(c, f), NEW d, d = EndNative(c)
    PROVE  Attentive(d, f) /\ Goes(c, d, {"blocks"}) /\ (~d.inTag => Opened(d, "thinking") = {})
           /\ Opened(d, "text") = Opened(c, "text")
  <1>1. Sound(c) BY DEF Attentive
  <1>2. CASE c.inTag
    <2>1. d = c BY <1>2 DEF EndNative
    <2> QED BY <1>1, <1>2, <2>1, Stays
  <1>3. CASE ~c.inTag
    <2>1. d = CloseThinking(c) BY <1>3 DEF EndNative
    <2>2. Goes(c, d, {"blocks"}) /\ Opened(d, "thinking") = {} /\ Opened(d, "text") = Opened(c, "text")
      BY <1>1, <2>1, ThinkingClosed
    <2>3. /\ d.inTag = c.inTag /\ d.thinks = c.thinks /\ d.extracted = c.extracted /\ d.held = c.held
          /\ d.buf = c.buf /\ d.acc = c.acc
      BY <2>2 DEF Goes, Keeps, Fields
    <2>4. Attentive(d, f) BY <1>3, <2>2, <2>3 DEF Attentive, Tagged, Goes
    <2> QED BY <2>2, <2>4
  <1> QED BY <1>2, <1>3

LEMMA NoTagPlain ==
    ASSUME NEW s \in Seq(Plain)
    PROVE  ~StartTag(s)
  <1>1. Len(s) >= 2 => s[1] \in Plain
    <2>1. Len(s) \in Nat OBVIOUS
    <2>2. Len(s) >= 2 => 1 \in 1 .. Len(s) BY <2>1
    <2> QED BY <2>2, ElementOfSeq
  <1> QED BY <1>1 DEF StartTag, Plain

LEMMA TagOpened ==
    ASSUME NEW c, NEW f, Attentive(c, f), c.thinks, ~c.inTag => Opened(c, "thinking") = {}, NEW d, d = Opening(c)
    PROVE  /\ Attentive(d, f) /\ Goes(c, d, {"blocks", "think", "inTag", "extracted", "buf"})
           /\ ~d.inTag => Opened(d, "thinking") = {}
  <1>1. Sound(c) BY DEF Attentive
  <1>2. c.buf \in Seq(Letters) BY <1>1, TypesOf
  <1>3. PICK head \in Seq(Letters) : head = Trimmed(c.buf) /\ (f # "tags" => head \in Seq(Plain))
    <2>1. f # "tags" => Trimmed(c.buf) \in Seq(Plain) BY TextParts DEF Attentive, Tagged
    <2> QED BY <1>2, <2>1, TextParts
  <1>4. CASE c.inTag \/ c.extracted \/ head \in {<<>>, <<"o1">>}
    <2>1. d = c BY <1>3, <1>4 DEF Opening
    <2> QED BY <1>1, <2>1, Stays
  <1>5. CASE ~c.inTag /\ ~c.extracted /\ head \notin {<<>>, <<"o1">>} /\ StartTag(head)
    <2>1. f = "tags" BY <1>3, <1>5, NoTagPlain
    <2>2. Opened(c, "text") = {} /\ Opened(c, "thinking") = {} BY <1>5, <2>1 DEF Attentive, Tagged
    <2>3. PICK s \in Seq(Letters) : s = Trimmed(From(head, 3))
      <3>1. PICK t \in Seq(Letters) : t = From(head, 3)
        <4>1. Len(head) >= 2 /\ 2 \in 0 .. Len(head)
          <5>1. Len(head) \in Nat OBVIOUS
          <5> QED BY <1>5, <5>1 DEF StartTag
        <4>2. \A i \in 0 .. Len(head) : From(head, i + 1) \in Seq(Letters) BY TextParts
        <4>3. 2 + 1 = 3 OBVIOUS
        <4> QED BY <4>1, <4>2, <4>3
      <3> QED BY <3>1, TextParts
    <2>4. PICK u \in BOOLEAN : u = TRUE OBVIOUS
    <2>5. PICK e : e = [c EXCEPT !.inTag = u, !.buf = s] OBVIOUS
    <2>6. e \in Contexts /\ Keeps(c, e, {"inTag", "buf"}) /\ e.log = c.log /\ e.inTag = u
      <3>1. c \in Contexts BY <1>1, TypesOf
      <3> QED BY <2>5, <3>1 DEF Contexts, Keeps, Fields
    <2>7. Goes(c, e, {"inTag", "buf"}) /\ \A k : Opened(e, k) = Opened(c, k)
      <3>1. {"blocks", "text", "think", "tools"} \cap {"inTag", "buf"} = {} OBVIOUS
      <3> QED BY <1>1, <2>6, <3>1, FieldsGo
    <2>8. d = StartThinking(e) BY <1>3, <1>5, <2>3, <2>4, <2>5 DEF Opening
    <2>9. Goes(e, d, {"blocks", "think"}) /\ Mute(d) /\ Opened(d, "text") = {} /\ Opened(d, "thinking") = {d.think}
      <3>1. Sound(e) /\ Opened(e, "text") = {} /\ Opened(e, "thinking") = {} BY <2>2, <2>7 DEF Goes
      <3> QED BY <2>8, <3>1, ThinkingStarted
    <2>10. Goes(c, d, {"blocks", "think", "inTag", "extracted", "buf"}) BY <2>7, <2>9, GoesOn
    <2>11. d.inTag /\ d.thinks = c.thinks /\ d.extracted = c.extracted /\ d.held = c.held /\ d.acc = c.acc
      BY <2>4, <2>6, <2>9 DEF Goes, Keeps, Fields
    <2>12. Attentive(d, f) BY <1>5, <2>1, <2>9, <2>11 DEF Attentive, Tagged, Goes
    <2> QED BY <2>10, <2>11, <2>12
  <1>6. CASE ~c.inTag /\ ~c.extracted /\ head \notin {<<>>, <<"o1">>} /\ ~StartTag(head)
    <2>1. PICK u \in BOOLEAN : u = TRUE OBVIOUS
    <2>2. d = [c EXCEPT !.extracted = u] BY <1>3, <1>6, <2>1 DEF Opening
    <2>3. d \in Contexts /\ Keeps(c, d, {"extracted"}) /\ d.log = c.log /\ d.extracted = u
      <3>1. c \in Contexts BY <1>1, TypesOf
      <3> QED BY <2>2, <3>1 DEF Contexts, Keeps, Fields
    <2>4. Goes(c, d, {"extracted"}) /\ \A k : Opened(d, k) = Opened(c, k)
      <3>1. {"blocks", "text", "think", "tools"} \cap {"extracted"} = {} OBVIOUS
      <3> QED BY <1>1, <2>3, <3>1, FieldsGo
    <2>5. Goes(c, d, {"blocks", "think", "inTag", "extracted", "buf"}) BY <2>4 DEF Goes, Keeps
    <2>6. d.inTag = c.inTag /\ d.thinks = c.thinks /\ d.held = c.held /\ d.acc = c.acc /\ d.buf = c.buf
      BY <2>3 DEF Keeps, Fields
    <2>7. Attentive(d, f) BY <1>6, <2>1, <2>3, <2>4, <2>6 DEF Attentive, Tagged, Goes
    <2>8. Opened(d, "thinking") = {} BY <1>6, <2>4
    <2> QED BY <2>5, <2>7, <2>8
  <1> QED BY <1>4, <1>5, <1>6

LEMMA TagFilled ==
    ASSUME NEW c, NEW f, Attentive(c, f), ~c.inTag => Opened(c, "thinking") = {}, NEW d, d = Inside(c)
    PROVE  /\ Attentive(d, f)
           /\ Keeps(c, d, {"blocks", "inTag", "extracted", "buf"})
           /\ ~d.inTag => Opened(d, "thinking") = {}
  <1>1. Sound(c) BY DEF Attentive
  <1>2. c.buf \in Seq(Letters) BY <1>1, TypesOf
  <1>3. CASE ~c.inTag \/ (EndTag(c.buf) = 0 /\ Len(c.buf) - 2 <= 0)
    <2>1. d = c BY <1>3 DEF Inside
    <2> QED BY <1>1, <2>1, Stays DEF Keeps
  <1>4. CASE c.inTag /\ EndTag(c.buf) # 0
    <2>1. PICK i \in 1 .. Len(c.buf) : i = EndTag(c.buf)
      <3>1. EndTag(c.buf) \in 0 .. Len(c.buf) BY <1>2, TagPlaces
      <3> QED BY <1>4, <3>1
    <2>2. d = EndThinking(c, i) BY <1>4, <2>1 DEF Inside
    <2>3. /\ Goes(c, d, {"blocks", "inTag", "extracted", "buf"}) /\ ~d.inTag /\ d.extracted
          /\ Opened(d, "thinking") = {} /\ Opened(d, "text") = Opened(c, "text")
      <3>1. Opened(c, "thinking") # {} BY <1>4 DEF Attentive, Tagged
      <3> QED BY <1>1, <2>2, <3>1, ThinkingEnded
    <2>4. d.thinks = c.thinks /\ d.acc = c.acc BY <2>3 DEF Goes, Keeps, Fields
    <2>5. Attentive(d, f) BY <1>4, <2>3, <2>4 DEF Attentive, Tagged, Goes
    <2> QED BY <2>3, <2>5 DEF Goes
  <1>5. CASE c.inTag /\ EndTag(c.buf) = 0 /\ ~(Len(c.buf) - 2 <= 0)
    <2>1. PICK n \in Nat : n = Len(c.buf) /\ n > 2
      <3>1. Len(c.buf) \in Nat BY <1>2
      <3> QED BY <1>5, <3>1
    <2>2. PICK s \in Seq(Letters) : s = SubSeq(c.buf, 1, n - 2)
      <3>1. 1 \in Int /\ 1 <= 1 /\ n - 2 \in Int /\ n - 2 <= Len(c.buf) BY <2>1
      <3> QED BY <1>2, <3>1, PartOfText
    <2>3. PICK t \in Seq(Letters) : t = From(c.buf, n - 1) /\ Len(t) = 2
      <3>1. n - 1 \in Int /\ 1 <= n - 1 /\ n \in Int /\ n <= Len(c.buf) /\ n - 1 <= n + 1 /\ n - (n - 1) + 1 = 2
        BY <2>1
      <3>2. SubSeq(c.buf, n - 1, n) \in Seq(Letters) /\ Len(SubSeq(c.buf, n - 1, n)) = n - (n - 1) + 1
        BY <1>2, <3>1, PartOfText
      <3> QED BY <2>1, <3>1, <3>2 DEF From
    <2>4. PICK e : e = ThinkingDelta(c, s) OBVIOUS
    <2>5. Opened(c, "thinking") # {} BY <1>5 DEF Attentive, Tagged
    <2>6. Sound(e) /\ Keeps(c, e, {}) /\ (\A k : Opened(e, k) = Opened(c, k))
      BY <1>1, <2>4, <2>5, ThinkingSent
    <2>7. e.buf = c.buf BY <2>6 DEF Keeps, Fields
    <2>8. (Len(c.buf) - 2) + 1 = n - 1 /\ Len(c.buf) - 2 = n - 2 BY <2>1
    <2>9. d = [e EXCEPT !.buf = t] BY <1>5, <2>2, <2>3, <2>4, <2>7, <2>8 DEF Inside
    <2>10. d \in Contexts /\ Keeps(e, d, {"buf"}) /\ d.log = e.log /\ d.buf = t
      <3>1. e \in Contexts BY <2>6, TypesOf
      <3> QED BY <2>9, <3>1 DEF Contexts, Keeps, Fields
    <2>11. Goes(e, d, {"buf"}) /\ \A k : Opened(d, k) = Opened(e, k)
      <3>1. {"blocks", "text", "think", "tools"} \cap {"buf"} = {} OBVIOUS
      <3> QED BY <2>6, <2>10, <3>1, FieldsGo
    <2>12. d.inTag = c.inTag /\ d.thinks = c.thinks /\ d.extracted = c.extracted /\ d.held = c.held /\ d.acc = c.acc
      BY <2>6, <2>10 DEF Keeps, Fields
    <2>13. d.buf # <<>>
      <3>1. Len(d.buf) = 2 BY <2>3, <2>10
      <3>2. d.buf = <<>> => Len(d.buf) = Len(<< >>) BY ZenonT(10)
      <3>3. Len(<< >>) = 0 BY EmptySeq
      <3>4. Len(d.buf) # Len(<< >>) BY <3>1, <3>3
      <3> QED BY <3>2, <3>4
    <2>14. Opened(d, "thinking") = Opened(c, "thinking") BY <2>6, <2>11
    <2>15. Attentive(d, f) BY <1>5, <2>5, <2>11, <2>12, <2>13, <2>14 DEF Attentive, Tagged, Goes
    <2>16. Keeps(c, d, {"blocks", "inTag", "extracted", "buf"}) BY <2>6, <2>10 DEF Keeps
    <2> QED BY <1>5, <2>12, <2>15, <2>16 DEF Attentive
  <1> QED BY <1>3, <1>4, <1>5

-----------------------------------------------------------------------------
(* Text and reasoning of the upstream.                                      *)

LEMMA BufferFlushed ==
    ASSUME NEW c, NEW f, Sound(c), Opened(c, "thinking") = {}, NEW d, d = FlushBuffer(c)
    PROVE  /\ Goes(c, d, {"blocks", "text", "held", "buf"}) /\ Opened(d, "thinking") = {} /\ d.buf = <<>>
           /\ (c.native_tools /\ c.held = <<>> => d.held = <<>>)
  <1>1. c.buf \in Seq(Letters) BY TypesOf
  <1>2. CASE c.buf = <<>>
    <2>1. d = c BY <1>2 DEF FlushBuffer
    <2> QED BY <1>2, <2>1, Stays
  <1>3. CASE c.buf # <<>>
    <2>1. PICK s \in Seq(Letters) : s = <<>> BY EmptySeq
    <2>2. PICK e : e = [c EXCEPT !.buf = s] OBVIOUS
    <2>3. e \in Contexts /\ Keeps(c, e, {"buf"}) /\ e.log = c.log /\ e.buf = s
      <3>1. c \in Contexts BY TypesOf
      <3> QED BY <2>2, <3>1 DEF Contexts, Keeps, Fields
    <2>4. Goes(c, e, {"buf"}) /\ \A k : Opened(e, k) = Opened(c, k)
      <3>1. {"blocks", "text", "think", "tools"} \cap {"buf"} = {} OBVIOUS
      <3> QED BY <2>3, <3>1, FieldsGo
    <2>5. PICK t \in Seq(Letters) : t = c.buf BY <1>1
    <2>6. d = Text(e, t) BY <1>3, <2>1, <2>2, <2>5 DEF FlushBuffer
    <2>7. Goes(e, d, {"blocks", "text", "held"}) /\ Opened(d, "thinking") = {} /\ (e.native_tools => d.held = <<>>)
      <3>1. Sound(e) /\ Opened(e, "thinking") = {} BY <2>4 DEF Goes
      <3> QED BY <2>6, <3>1, Texted
    <2>8. Goes(c, d, {"blocks", "text", "held", "buf"}) BY <2>4, <2>7, GoesOn
    <2>9. d.buf = e.buf /\ e.native_tools = c.native_tools BY <2>3, <2>7 DEF Goes, Keeps, Fields
    <2> QED BY <2>1, <2>3, <2>7, <2>8, <2>9
  <1> QED BY <1>2, <1>3

LEMMA PlainEmpty == << >> \in Seq(Plain)
  BY EmptySeq

(* What text and reasoning do not touch. *)
Answering == {"blocks", "text", "think", "inTag", "extracted", "buf", "held"}

LEMMA TextHeard ==
    ASSUME NEW c, NEW f, Attentive(c, f), NEW s \in Seq(Letters), f # "tags" => s \in Seq(Plain),
           NEW d, d = AssistantResponse(c, s)
    PROVE  Attentive(d, f) /\ Keeps(c, d, Answering)
  <1>1. PICK e : e = EndNative(c) OBVIOUS
  <1>2. /\ Attentive(e, f) /\ Goes(c, e, {"blocks"}) /\ (~e.inTag => Opened(e, "thinking") = {})
        /\ Opened(e, "text") = Opened(c, "text")
    BY <1>1, NativeEnded
  <1>3. Sound(e) /\ e.thinks = c.thinks BY <1>2 DEF Goes, Keeps, Fields
  <1>4. CASE ~c.thinks
    <2>1. d = Text(e, s) BY <1>1, <1>4 DEF AssistantResponse
    <2>2. ~e.inTag BY <1>2, <1>3, <1>4 DEF Attentive, Tagged
    <2>3. Goes(e, d, {"blocks", "text", "held"}) /\ Opened(d, "thinking") = {}
      BY <1>2, <1>3, <2>1, <2>2, Texted
    <2>4. d.inTag = e.inTag /\ d.thinks = e.thinks /\ d.buf = e.buf /\ d.acc = e.acc /\ d.extracted = e.extracted
      BY <2>3 DEF Goes, Keeps, Fields
    <2>5. Attentive(d, f) BY <1>2, <1>3, <1>4, <2>2, <2>3, <2>4 DEF Attentive, Tagged, Goes
    <2>6. Keeps(c, d, Answering) BY <1>2, <2>3 DEF Goes, Keeps, Answering
    <2> QED BY <2>5, <2>6
  <1>5. CASE c.thinks
    <2>1. PICK t \in Seq(Letters) :
             t = e.buf \o s /\ (f # "tags" => t \in Seq(Plain)) /\ (t = <<>> => e.buf = <<>>)
      <3>1. e.buf \in Seq(Letters) BY <1>3, TypesOf
      <3>2. e.buf \o s \in Seq(Letters) /\ Len(e.buf \o s) = Len(e.buf) + Len(s) BY <3>1, ConcatProperties
      <3>3. f # "tags" => e.buf \o s \in Seq(Plain)
        <4>1. f # "tags" => e.buf \in Seq(Plain) BY <1>2 DEF Attentive, Tagged
        <4> QED BY <4>1, ConcatProperties
      <3>4. e.buf \o s = <<>> => e.buf = <<>>
        <4>1. Len(e.buf) \in Nat /\ Len(s) \in Nat BY <3>1
        <4>2. \A x : x = <<>> => Len(x) = 0 OBVIOUS
        <4>3. e.buf \o s = <<>> => Len(e.buf) = 0 BY <3>2, <4>1, <4>2
        <4> QED BY <3>1, <4>3, EmptySeq
      <3> QED BY <3>2, <3>3, <3>4
    <2>2. PICK g : g = [e EXCEPT !.buf = t] OBVIOUS
    <2>3. g \in Contexts /\ Keeps(e, g, {"buf"}) /\ g.log = e.log /\ g.buf = t
      <3>1. e \in Contexts BY <1>3, TypesOf
      <3> QED BY <2>2, <3>1 DEF Contexts, Keeps, Fields
    <2>4. Goes(e, g, {"buf"}) /\ \A k : Opened(g, k) = Opened(e, k)
      <3>1. {"blocks", "text", "think", "tools"} \cap {"buf"} = {} OBVIOUS
      <3> QED BY <1>3, <2>3, <3>1, FieldsGo
    <2>5. g.inTag = e.inTag /\ g.thinks = e.thinks /\ g.extracted = e.extracted /\ g.held = e.held /\ g.acc = e.acc
      BY <2>3 DEF Keeps, Fields
    <2>6. Attentive(g, f) BY <1>2, <2>1, <2>3, <2>4, <2>5 DEF Attentive, Tagged, Goes
    <2>7. PICK h : h = Opening(g) OBVIOUS
    <2>8. /\ Attentive(h, f) /\ Goes(g, h, {"blocks", "think", "inTag", "extracted", "buf"})
          /\ ~h.inTag => Opened(h, "thinking") = {}
      BY <1>2, <1>3, <1>5, <2>4, <2>5, <2>6, <2>7, TagOpened
    <2>9. PICK k : k = Inside(h) OBVIOUS
    <2>10. /\ Attentive(k, f) /\ Keeps(h, k, {"blocks", "inTag", "extracted", "buf"})
           /\ ~k.inTag => Opened(k, "thinking") = {}
      BY <2>8, <2>9, TagFilled
    <2>11. d = Rest(k) BY <1>1, <1>5, <2>1, <2>2, <2>7, <2>9 DEF AssistantResponse
    <2>12. Keeps(c, k, Answering) BY <1>2, <2>3, <2>8, <2>10 DEF Goes, Keeps, Answering
    <2>13. CASE ~(k.extracted /\ ~k.inTag)
      <3>1. d = k BY <2>11, <2>13 DEF Rest
      <3> QED BY <2>10, <2>12, <3>1
    <2>14. CASE k.extracted /\ ~k.inTag
      <3>1. d = FlushBuffer(k) BY <2>11, <2>14 DEF Rest
      <3>2. Goes(k, d, {"blocks", "text", "held", "buf"}) /\ Opened(d, "thinking") = {} /\ d.buf = <<>>
        <4>1. Sound(k) BY <2>10 DEF Attentive
        <4> QED BY <2>10, <2>14, <3>1, <4>1, BufferFlushed
      <3>3. d.inTag = k.inTag /\ d.thinks = k.thinks /\ d.acc = k.acc /\ d.extracted = k.extracted
        BY <3>2 DEF Goes, Keeps, Fields
      <3>4. Attentive(d, f) BY <2>10, <2>14, <3>2, <3>3, PlainEmpty DEF Attentive, Tagged, Goes
      <3>5. Keeps(c, d, Answering) BY <2>12, <3>2 DEF Goes, Keeps, Answering
      <3> QED BY <3>4, <3>5
    <2> QED BY <2>13, <2>14
  <1> QED BY <1>4, <1>5

(* Native thinking, in a reply that has no tags. *)
LEMMA ThinkingEnsured ==
    ASSUME NEW c, NEW f, Attentive(c, f), f # "tags", c.thinks, NEW d, d = EnsureThinking(c)
    PROVE  Attentive(d, f) /\ Keeps(c, d, Answering) /\ Opened(d, "thinking") # {}
  <1>1. Sound(c) /\ ~c.inTag BY DEF Attentive, Tagged
  <1>2. CASE IsOpen(c, c.think, "thinking")
    <2>1. d = c BY <1>2 DEF EnsureThinking
    <2> QED BY <1>1, <1>2, <2>1, OpenIs DEF Keeps
  <1>3. CASE ~IsOpen(c, c.think, "thinking")
    <2>1. Opened(c, "thinking") = {} BY <1>1, <1>3, OpenIs
    <2>2. PICK e : e = IF Blank(c.buf) THEN [c EXCEPT !.buf = <<>>] ELSE FlushBuffer(c) OBVIOUS
    <2>3. Goes(c, e, {"blocks", "text", "held", "buf"}) /\ Opened(e, "thinking") = {} /\ e.buf = <<>>
      <3>1. CASE Blank(c.buf)
        <4>1. PICK s \in Seq(Letters) : s = <<>> BY EmptySeq
        <4>2. e = [c EXCEPT !.buf = s] BY <2>2, <3>1, <4>1
        <4>3. e \in Contexts /\ Keeps(c, e, {"buf"}) /\ e.log = c.log /\ e.buf = s
          <5>1. c \in Contexts BY <1>1, TypesOf
          <5> QED BY <4>2, <5>1 DEF Contexts, Keeps, Fields
        <4>4. Goes(c, e, {"buf"}) /\ \A k : Opened(e, k) = Opened(c, k)
          <5>1. {"blocks", "text", "think", "tools"} \cap {"buf"} = {} OBVIOUS
          <5> QED BY <1>1, <4>3, <5>1, FieldsGo
        <4>5. Goes(c, e, {"blocks", "text", "held", "buf"}) BY <4>4 DEF Goes, Keeps
        <4> QED BY <2>1, <4>1, <4>3, <4>4, <4>5
      <3>2. CASE ~Blank(c.buf)
        <4>1. e = FlushBuffer(c) BY <2>2, <3>2
        <4> QED BY <1>1, <2>1, <4>1, BufferFlushed
      <3> QED BY <3>1, <3>2
    <2>4. PICK g : g = StopText(e) OBVIOUS
    <2>5. Goes(e, g, {"blocks", "text"}) /\ Opened(g, "text") = {} /\ Opened(g, "thinking") = {}
      <3>1. Sound(e) BY <2>3 DEF Goes
      <3> QED BY <2>3, <2>4, <3>1, TextLeft
    <2>6. PICK h : h = StartThinking(g) OBVIOUS
    <2>7. Goes(g, h, {"blocks", "think"}) /\ Opened(h, "thinking") = {h.think}
      <3>1. Sound(g) BY <2>5 DEF Goes
      <3> QED BY <2>5, <2>6, <3>1, ThinkingStarted
    <2>8. PICK u \in BOOLEAN : u = TRUE OBVIOUS
    <2>9. d = [h EXCEPT !.extracted = u] BY <1>3, <2>2, <2>4, <2>6, <2>8 DEF EnsureThinking
    <2>10. d \in Contexts /\ Keeps(h, d, {"extracted"}) /\ d.log = h.log /\ d.extracted = u
      <3>1. Sound(h) BY <2>7 DEF Goes
      <3>2. h \in Contexts BY <3>1, TypesOf
      <3> QED BY <2>9, <3>2 DEF Contexts, Keeps, Fields
    <2>11. Goes(h, d, {"extracted"}) /\ \A k : Opened(d, k) = Opened(h, k)
      <3>1. {"blocks", "text", "think", "tools"} \cap {"extracted"} = {} OBVIOUS
      <3>2. Sound(h) BY <2>7 DEF Goes
      <3> QED BY <2>10, <3>1, <3>2, FieldsGo
    <2>12. d.inTag = c.inTag /\ d.thinks = c.thinks /\ d.acc = c.acc /\ d.buf = e.buf
      BY <2>3, <2>5, <2>7, <2>10 DEF Goes, Keeps, Fields
    <2>13. Attentive(d, f) BY <1>1, <2>3, <2>8, <2>10, <2>11, <2>12, PlainEmpty DEF Attentive, Tagged, Goes
    <2>14. Keeps(c, d, Answering) BY <2>3, <2>5, <2>7, <2>10 DEF Goes, Keeps, Answering
    <2>15. Opened(d, "thinking") # {} BY <2>7, <2>11
    <2> QED BY <2>13, <2>14, <2>15
  <1> QED BY <1>2, <1>3

(* A context that differs from c in its records of the reply only. *)
LEMMA HeardSame ==
    ASSUME NEW c, NEW f, Attentive(c, f), NEW d \in Contexts, NEW F, Keeps(c, d, F), d.log = c.log, F \subseteq {"native_tools", "credits"}
    PROVE  Attentive(d, f) /\ \A k : Opened(d, k) = Opened(c, k)
  <1>1. Sound(c) /\ {"blocks", "text", "think", "tools"} \cap F = {} BY DEF Attentive
  <1>2. Goes(c, d, F) /\ \A k : Opened(d, k) = Opened(c, k) BY <1>1, FieldsGo
  <1>3. /\ d.inTag = c.inTag /\ d.thinks = c.thinks /\ d.extracted = c.extracted /\ d.held = c.held
        /\ d.acc = c.acc /\ d.buf = c.buf
    BY DEF Keeps, Fields
  <1> QED BY <1>2, <1>3 DEF Attentive, Tagged, Goes

Thoughtful == [e : {"reasoning"}, s : Seq(Letters), signed : BOOLEAN, redacted : BOOLEAN]

LEMMA ReasoningHeard ==
    ASSUME NEW c, NEW f, Attentive(c, f), f # "tags", NEW ev \in Thoughtful, NEW d, d = ReasoningContent(c, ev)
    PROVE  Attentive(d, f) /\ Keeps(c, d, Answering)
  <1>1. ev.s \in Seq(Letters) /\ ev.signed \in BOOLEAN /\ ev.redacted \in BOOLEAN BY DEF Thoughtful
  <1>2. PICK v \in BOOLEAN : v = (c.thought \/ ~Blank(ev.s)) OBVIOUS
  <1>3. PICK e : e = [c EXCEPT !.thought = v] OBVIOUS
  <1>4. e \in Contexts /\ Keeps(c, e, {}) /\ e.log = c.log
    <2>1. Sound(c) BY DEF Attentive
    <2>2. c \in Contexts BY <2>1, TypesOf
    <2> QED BY <1>3, <2>2 DEF Contexts, Keeps, Fields
  <1>5. Attentive(e, f) BY <1>4, HeardSame
  <1>6. e = [c EXCEPT !.thought = @ \/ ~Blank(ev.s)] BY <1>2, <1>3
  <1>7. CASE ~c.thinks
    <2>1. d = e BY <1>6, <1>7 DEF ReasoningContent
    <2> QED BY <1>4, <1>5, <2>1 DEF Keeps
  <1>8. CASE c.thinks
    <2>1. PICK g : g = Signature(e, ev) OBVIOUS
    <2>2. e.thinks = c.thinks BY <1>4 DEF Keeps, Fields
    <2>3. Attentive(g, f) /\ Keeps(e, g, Answering)
      <3>1. CASE ~ev.signed BY <1>5, <2>1, <3>1 DEF Signature, Keeps
      <3>2. CASE ev.signed
        <4>1. PICK h : h = [e EXCEPT !.signature = "native"] OBVIOUS
        <4>2. h \in Contexts /\ Keeps(e, h, {}) /\ h.log = e.log BY <1>4, <4>1 DEF Contexts, Keeps, Fields
        <4>3. Attentive(h, f) BY <1>5, <4>2, HeardSame
        <4>4. h.thinks = e.thinks BY <4>2 DEF Keeps, Fields
        <4>5. g = EnsureThinking(h) BY <2>1, <3>2, <4>1 DEF Signature
        <4>6. Attentive(g, f) /\ Keeps(h, g, Answering) BY <1>8, <2>2, <4>3, <4>4, <4>5, ThinkingEnsured
        <4> QED BY <4>2, <4>6 DEF Keeps
      <3> QED BY <1>1, <3>1, <3>2
    <2>4. g.thinks = e.thinks BY <2>3 DEF Keeps, Fields, Answering
    <2>5. PICK h : h = Thoughts(g, ev) OBVIOUS
    <2>6. Attentive(h, f) /\ Keeps(g, h, Answering)
      <3>1. CASE ev.s = <<>> BY <2>3, <2>5, <3>1 DEF Thoughts, Keeps
      <3>2. CASE ev.s # <<>>
        <4>1. PICK k : k = EnsureThinking(g) OBVIOUS
        <4>2. Attentive(k, f) /\ Keeps(g, k, Answering) /\ Opened(k, "thinking") # {}
          BY <1>8, <2>2, <2>3, <2>4, <4>1, ThinkingEnsured
        <4>3. PICK s \in Seq(Letters) : s = ev.s BY <1>1
        <4>4. h = ThinkingDelta(k, s) BY <2>5, <3>2, <4>1, <4>3 DEF Thoughts
        <4>5. Sound(h) /\ Keeps(k, h, {}) /\ (\A x : Opened(h, x) = Opened(k, x))
          BY <4>2, <4>4, ThinkingSent DEF Attentive
        <4>6. /\ h.inTag = k.inTag /\ h.thinks = k.thinks /\ h.extracted = k.extracted /\ h.held = k.held
              /\ h.acc = k.acc /\ h.buf = k.buf
          BY <4>5 DEF Keeps, Fields
        <4>7. Attentive(h, f) BY <4>2, <4>5, <4>6 DEF Attentive, Tagged
        <4> QED BY <4>2, <4>5, <4>7 DEF Keeps
      <3> QED BY <3>1, <3>2
    <2>7. d = Redacted(h, ev) BY <1>6, <1>8, <2>1, <2>5 DEF ReasoningContent
    <2>8. Attentive(d, f) /\ Keeps(h, d, Answering)
      <3>1. CASE ~ev.redacted BY <2>6, <2>7, <3>1 DEF Redacted, Keeps
      <3>2. CASE ev.redacted
        <4>1. PICK k : k = CloseThinking(h) OBVIOUS
        <4>2. Goes(h, k, {"blocks"}) /\ Opened(k, "thinking") = {}
          <5>1. Sound(h) BY <2>6 DEF Attentive
          <5> QED BY <4>1, <5>1, ThinkingClosed
        <4>3. PICK m : m = StopText(k) OBVIOUS
        <4>4. Goes(k, m, {"blocks", "text"}) /\ Opened(m, "text") = {} /\ Opened(m, "thinking") = {}
          <5>1. Sound(k) BY <4>2 DEF Goes
          <5> QED BY <4>2, <4>3, <5>1, TextLeft
        <4>5. d = StopNewest(StartBlock(m, "redacted")) BY <2>7, <3>2, <4>1, <4>3 DEF Redacted
        <4>6. Goes(m, d, {"blocks"}) /\ Opened(d, "text") = {} /\ Opened(d, "thinking") = {}
          <5>1. Sound(m) BY <4>4 DEF Goes
          <5> QED BY <4>4, <4>5, <5>1, RedactedShown
        <4>7. Keeps(h, d, {"blocks", "text"}) BY <4>2, <4>4, <4>6 DEF Goes, Keeps
        <4>8. /\ d.inTag = h.inTag /\ d.thinks = h.thinks /\ d.extracted = h.extracted /\ d.held = h.held
              /\ d.acc = h.acc /\ d.buf = h.buf
          BY <4>7 DEF Keeps, Fields
        <4>9. ~h.inTag BY <2>6 DEF Attentive, Tagged
        <4>10. Attentive(d, f) BY <2>6, <4>6, <4>8, <4>9 DEF Attentive, Tagged, Goes
        <4>11. Keeps(h, d, Answering) BY <4>7 DEF Keeps, Answering
        <4> QED BY <4>10, <4>11
      <3> QED BY <1>1, <3>1, <3>2
    <2>9. Keeps(c, d, Answering) BY <1>4, <2>3, <2>6, <2>8 DEF Keeps
    <2> QED BY <2>8, <2>9
  <1> QED BY <1>7, <1>8

-----------------------------------------------------------------------------
(* Calls: their blocks are filled with all fragments and stopped.           *)

LEMMA Inputs ==
    ASSUME NEW c, Sound(c), NEW i \in 1 .. Len(c.blocks), NEW frags \in Seq(Letters), NEW r, r = Input(c, i, frags)
    PROVE  Goes(c, r, {}) /\ \A k : Opened(r, k) = Opened(c, k)
  <1> DEFINE n == Len(frags)
             V == {d \in Contexts : Goes(c, d, {}) /\ \A k : Opened(d, k) = Opened(c, k)}
             Step(d, x) == Delta(d, i, "json", <<x>>)
             G == [k \in 1 .. n |-> [d \in V |-> Step(d, frags[k])]]
             Is(f) == f = [s \in SUBSET DOMAIN frags |-> IF s = {} THEN c
                              ELSE Step(f[s \ {Max(s)}], frags[Max(s)])]
  <1>1. n \in Nat /\ DOMAIN frags = 1 .. n OBVIOUS
  <1>2. c \in V
    <2>1. c \in Contexts BY TypesOf
    <2> QED BY <2>1, Stays
  <1>3. ASSUME NEW k \in 1 .. n, NEW d \in V PROVE Step(d, frags[k]) \in V
    <2>1. Goes(c, d, {}) /\ \A x : Opened(d, x) = Opened(c, x) OBVIOUS
    <2>2. frags[k] \in Letters BY ElementOfSeq
    <2>3. PICK s \in Seq(Letters) : s = <<frags[k]>>
      <3>1. PICK y \in Letters : y = frags[k] BY <2>2
      <3>2. <<y>> \in Seq(Letters) OBVIOUS
      <3> QED BY <3>1, <3>2
    <2>4. PICK w \in Whats : w = "json" BY DEF Whats
    <2>5. PICK e : e = Step(d, frags[k]) /\ e = Delta(d, i, w, s) BY <2>3, <2>4
    <2>6. Sound(d) /\ d.blocks = c.blocks BY <2>1 DEF Goes, Keeps, Fields
    <2>7. i \in 1 .. Len(d.blocks) BY <2>6
    <2>8. Sound(e) /\ Keeps(d, e, {}) /\ (\A x : Opened(e, x) = Opened(d, x)) /\ (Mute(d) => Mute(e))
      BY <2>4, <2>5, <2>6, <2>7, DeltaSound
    <2>9. Goes(d, e, {}) BY <2>8 DEF Goes
    <2>10. Goes(c, e, {}) BY <2>1, <2>9, GoesOn
    <2>11. e \in Contexts BY <2>8, TypesOf
    <2> HIDE DEF Step
    <2>12. \A x : Opened(e, x) = Opened(c, x) BY <2>1, <2>8
    <2> QED BY <2>5, <2>10, <2>11, <2>12
  <1> HIDE DEF V
  <1>4. G \in [1 .. n -> [V -> V]]
    <2> HIDE DEF Step
    <2> QED BY <1>3
  <1>4a. \A k \in 1 .. n, d \in V : G[k][d] = Step(d, frags[k]) BY DEF G
  <1>5. PICK f : FoldUpTo(f, n, V, c, G)
    <2> HIDE DEF n, G
    <2> QED BY <1>1, <1>2, <1>4, FoldExists
  <1>7. r = (CHOOSE g : Is(g))[DOMAIN frags] BY DEF Input, FoldLeft, MapThenFoldSet
  <1> HIDE DEF G, Step
  <1>6. Is(f)
    <2>1. f = [s \in SUBSET (1 .. n) |-> f[s]] BY <1>5 DEF FoldUpTo
    <2>2. ASSUME NEW s \in SUBSET (1 .. n), s # {}
          PROVE  f[s] = Step(f[s \ {Max(s)}], frags[Max(s)])
      <3>1. Max(s) \in 1 .. n
        <4>1. Max(s) \in s BY <1>1, <2>2, MaxOf
        <4> QED BY <4>1
      <3>2. f[s \ {Max(s)}] \in V /\ f[s] = G[Max(s)][f[s \ {Max(s)}]] BY <1>5, <2>2, <3>1 DEF FoldUpTo
      <3> QED BY <1>4a, <3>1, <3>2
    <2>3. f[{}] = c BY <1>5 DEF FoldUpTo
    <2> HIDE DEF n
    <2> QED BY <1>1, <2>1, <2>2, <2>3
  <1>8. PICK g : g = CHOOSE x : Is(x) OBVIOUS
  <1>9. Is(g)
    <2> HIDE DEF Is
    <2> QED BY <1>6, <1>8
  <1>10. PICK h : Unrolls(h, n, V, c, G) /\ h[n] = g[1 .. n]
    <2>1. DOMAIN g = SUBSET (1 .. n) /\ g[{}] = c BY <1>1, <1>9
    <2>2. ASSUME NEW s \in SUBSET (1 .. n), s # {}, g[s \ {Max(s)}] \in V
          PROVE  g[s] = G[Max(s)][g[s \ {Max(s)}]]
      <3>1. Max(s) \in 1 .. n
        <4>1. Max(s) \in s BY <1>1, <2>2, MaxOf
        <4> QED BY <4>1
      <3>2. g[s] = Step(g[s \ {Max(s)}], frags[Max(s)]) BY <1>1, <1>9, <2>2, <3>1
      <3> QED BY <1>4a, <2>2, <3>1, <3>2
    <2>3. \A s \in SUBSET (1 .. n) : s # {} /\ g[s \ {Max(s)}] \in V => g[s] = G[Max(s)][g[s \ {Max(s)}]] BY <2>2
    <2>4. FoldsUp(g, n, V, c, G) BY <2>1, <2>3 DEF FoldsUp
    <2> HIDE DEF n, Is
    <2> QED BY <1>1, <1>2, <1>4, <2>4, FoldUnrolls
  <1>11. r = h[n] BY <1>1, <1>7, <1>8, <1>10
  <1>12. r \in V
    <2>1. n \in 0 .. n BY <1>1
    <2> HIDE DEF n
    <2> QED BY <1>10, <1>11, <2>1 DEF Unrolls
  <1> QED BY <1>12 DEF V

LEMMA ToolStopped ==
    ASSUME NEW c, Sound(c), NEW i \in 1 .. Len(c.blocks), c.blocks[i].kind = "tool", NEW d, d = StopBlock(c, i)
    PROVE  Goes(c, d, {"blocks"}) /\ \A k : k # "tool" => Opened(d, k) = Opened(c, k)
  <1>1. Core(c) /\ i \notin Opened(c, "thinking") BY DEF Sound, Opened
  <1>2. Core(d) /\ Keeps(c, d, {"blocks"}) /\ d.signature = c.signature /\ HasStopped(c, d, {i}) BY <1>1, BlockStopped
  <1>3. Goes(c, d, {"blocks"}) /\ \A k : Opened(d, k) = Opened(c, k) \ {i} BY <1>2, StoppedGoes
  <1>4. \A k : k # "tool" => i \notin Opened(c, k) BY DEF Opened
  <1>5. \A k : k # "tool" => Opened(d, k) = Opened(c, k) BY <1>3, <1>4
  <1> QED BY <1>3, <1>5

LEMMA CallCompleted ==
    ASSUME NEW c, Sound(c), NEW i \in 1 .. Len(c.blocks), c.blocks[i].kind = "tool", NEW frags \in Seq(Letters),
           NEW d, d = Complete(c, i, frags)
    PROVE  Goes(c, d, {"blocks"}) /\ \A k : k # "tool" => Opened(d, k) = Opened(c, k)
  <1>1. PICK s \in Seq(Letters) : s = IF frags = <<>> THEN <<"{}">> ELSE frags
    <2>1. PICK x \in Letters : x = "{}" BY DEF Letters
    <2>2. <<x>> \in Seq(Letters) OBVIOUS
    <2> QED BY <2>1, <2>2
  <1>2. PICK e : e = Input(c, i, s) OBVIOUS
  <1>3. Goes(c, e, {}) /\ \A k : Opened(e, k) = Opened(c, k) BY <1>2, Inputs
  <1>4. Sound(e) /\ e.blocks = c.blocks BY <1>3 DEF Goes, Keeps, Fields
  <1>5. d = StopBlock(e, i) BY <1>1, <1>2 DEF Complete
  <1>6. Goes(e, d, {"blocks"}) /\ \A k : k # "tool" => Opened(d, k) = Opened(e, k)
    <2>1. i \in 1 .. Len(e.blocks) /\ e.blocks[i].kind = "tool" BY <1>4
    <2> QED BY <1>4, <1>5, <2>1, ToolStopped
  <1>7. Goes(c, d, {"blocks"}) BY <1>3, <1>6, GoesOn
  <1>8. \A k : k # "tool" => Opened(d, k) = Opened(c, k) BY <1>3, <1>6
  <1> QED BY <1>7, <1>8

(* The call t has its block. *)
CallPlaced(c, d, t) ==
    /\ Goes(c, d, {"blocks", "tools"}) /\ Opened(d, "thinking") = Opened(c, "thinking")
    /\ c.tools[t] = 0 => Opened(d, "text") = {}
    /\ c.tools[t] # 0 => Opened(d, "text") = Opened(c, "text")
    /\ \A u \in ToolIds \ {t} : d.tools[u] = c.tools[u]
    /\ d.tools[t] \in 1 .. Len(d.blocks) /\ d.blocks[d.tools[t]].kind = "tool"

LEMMA CallStarted ==
    ASSUME NEW c, Sound(c), NEW t \in ToolIds, NEW d, d = StartTool(c, t)
    PROVE  CallPlaced(c, d, t)
  <1>1. c.tools \in [ToolIds -> Nat] /\ HasPlaces(c) BY TypesOf DEF Sound, Core
  <1>2. CASE c.tools[t] # 0
    <2>1. d = c BY <1>2 DEF StartTool
    <2>2. c.tools[t] \in 0 .. Len(c.blocks) /\ c.blocks[c.tools[t]].kind = "tool" BY <1>1, <1>2 DEF HasPlaces
    <2>3. c.tools[t] \in 1 .. Len(c.blocks) BY <1>2, <2>2
    <2> QED BY <1>2, <2>1, <2>2, <2>3, Stays DEF CallPlaced
  <1>3. CASE c.tools[t] = 0
    <2>1. PICK e : e = StartBlock(c, "tool") OBVIOUS
    <2>2. Goes(c, e, {"blocks"}) /\ Opened(e, "text") = {} /\ Opened(e, "thinking") = Opened(c, "thinking")
          /\ NewestIs(c, e, "tool")
      BY <2>1, ToolStarted
    <2>3. PICK n \in 1 .. Len(e.blocks) : n = Newest(c) + 1 /\ e.blocks[n].kind = "tool"
      BY <2>2 DEF NewestIs
    <2>4. Len(e.blocks) \in Nat /\ n \in Nat
      <3>1. Sound(e) BY <2>2 DEF Goes
      <3>2. e.blocks \in Seq(LiveBlocks) BY <3>1, TypesOf
      <3>3. Len(e.blocks) \in Nat BY <3>2
      <3> QED BY <3>3
    <2>5. e.tools = c.tools BY <2>2 DEF Goes, Keeps, Fields
    <2>6. PICK tt \in [ToolIds -> Nat] : tt = [c.tools EXCEPT ![t] = n] BY <1>1, <2>4
    <2>7. tt[t] = n /\ \A u \in ToolIds \ {t} : tt[u] = c.tools[u] BY <1>1, <2>6
    <2>8. d = [e EXCEPT !.tools = tt] BY <1>3, <2>1, <2>3, <2>5, <2>6 DEF StartTool
    <2>9. d \in Contexts /\ Keeps(e, d, {"tools"}) /\ d.log = e.log /\ d.tools = tt
      <3>1. Sound(e) BY <2>2 DEF Goes
      <3>2. e \in Contexts BY <3>1, TypesOf
      <3> QED BY <2>8, <3>2 DEF Contexts, Keeps, Fields
    <2>10. d.blocks = e.blocks /\ d.text = e.text /\ d.think = e.think BY <2>9 DEF Keeps, Fields
    <2>11. HasPlaces(d)
      <3>1. HasPlaces(e) BY <2>2 DEF Goes, Sound, Core
      <3>2. n \in 0 .. Len(e.blocks) BY <2>4
      <3> QED BY <2>3, <2>5, <2>7, <2>9, <2>10, <3>1, <3>2 DEF HasPlaces
    <2>12. Core(d) /\ OpenOf(d) = OpenOf(e) /\ (\A k : Opened(d, k) = Opened(e, k)) /\ \A b : SameMarks(e, d, b)
      <3>1. Core(e) BY <2>2 DEF Goes, Sound
      <3> QED BY <2>9, <2>10, <2>11, <3>1, CorePlaced
    <2>13. Sound(d) /\ (Mute(e) => Mute(d))
      BY <2>2, <2>10, <2>12 DEF Goes, Sound, Fresh, Mute, SameMarks
    <2>14. Keeps(c, d, {"blocks", "tools"}) BY <2>2, <2>9 DEF Goes, Keeps
    <2>15. Goes(c, d, {"blocks", "tools"}) BY <2>2, <2>13, <2>14 DEF Goes
    <2>16. Opened(d, "text") = {} /\ Opened(d, "thinking") = Opened(c, "thinking") BY <2>2, <2>12
    <2> QED BY <1>3, <2>3, <2>7, <2>9, <2>10, <2>15, <2>16 DEF CallPlaced
  <1> QED BY <1>1, <1>2, <1>3

LEMMA CallEmitted ==
    ASSUME NEW c, Sound(c), NEW t \in ToolIds, NEW frags \in Seq(Letters), NEW d, d = EmitCall(c, t, frags)
    PROVE  /\ Goes(c, d, {"blocks", "tools"}) /\ Opened(d, "thinking") = Opened(c, "thinking")
           /\ c.tools[t] = 0 => Opened(d, "text") = {}
           /\ \A u \in ToolIds \ {t} : d.tools[u] = c.tools[u]
  <1>1. PICK e : e = StartTool(c, t) OBVIOUS
  <1>2. CallPlaced(c, e, t) BY <1>1, CallStarted
  <1>3. PICK i \in 1 .. Len(e.blocks) : i = e.tools[t] /\ e.blocks[i].kind = "tool" BY <1>2 DEF CallPlaced
  <1>4. d = Complete(e, i, frags) BY <1>1, <1>3 DEF EmitCall, Answered
  <1>5. Goes(e, d, {"blocks"}) /\ \A k : k # "tool" => Opened(d, k) = Opened(e, k)
    <2>1. Sound(e) BY <1>2 DEF CallPlaced, Goes
    <2> QED BY <1>3, <1>4, <2>1, CallCompleted
  <1>6. Goes(c, d, {"blocks", "tools"})
    <2>1. Goes(c, e, {"blocks", "tools"}) BY <1>2 DEF CallPlaced
    <2> QED BY <1>5, <2>1, GoesOn
  <1>7. d.tools = e.tools BY <1>5 DEF Goes, Keeps, Fields
  <1>8. Opened(d, "thinking") = Opened(e, "thinking") /\ Opened(d, "text") = Opened(e, "text") BY <1>5
  <1> QED BY <1>2, <1>6, <1>7, <1>8 DEF CallPlaced

LEMMA SyntheticEmitted ==
    ASSUME NEW c, Sound(c), NEW d, d = EmitSynthetic(c)
    PROVE  Goes(c, d, {"blocks"}) /\ Opened(d, "thinking") = Opened(c, "thinking")
  <1>1. PICK e : e = StartBlock(c, "tool") OBVIOUS
  <1>2. Goes(c, e, {"blocks"}) /\ Opened(e, "thinking") = Opened(c, "thinking") /\ NewestIs(c, e, "tool")
    BY <1>1, ToolStarted
  <1>3. PICK i \in 1 .. Len(e.blocks) : i = Newest(c) + 1 /\ e.blocks[i].kind = "tool" BY <1>2 DEF NewestIs
  <1>4. PICK s \in Seq(Letters) : s = <<>> BY EmptySeq
  <1>5. d = Complete(e, i, s) BY <1>1, <1>3, <1>4 DEF EmitSynthetic
  <1>6. Goes(e, d, {"blocks"}) /\ \A k : k # "tool" => Opened(d, k) = Opened(e, k)
    <2>1. Sound(e) BY <1>2 DEF Goes
    <2> QED BY <1>3, <1>5, <2>1, CallCompleted
  <1>7. Goes(c, d, {"blocks"}) BY <1>2, <1>6, GoesOn
  <1>8. Opened(d, "thinking") = Opened(e, "thinking") BY <1>6
  <1> QED BY <1>2, <1>7, <1>8

-----------------------------------------------------------------------------
(* A call that arrives.                                                     *)

(* As Attentive, but for text that a call cuts off. *)
Ready(c, f) ==
    /\ Sound(c)
    /\ c.inTag => f = "tags" /\ c.thinks /\ ~c.extracted /\ Opened(c, "thinking") # {}
    /\ c.inTag /\ c.buf = <<>> => Mute(c)
    /\ c.thinks /\ ~c.extracted => c.held = <<>>
    /\ f # "tags" => c.buf \in Seq(Plain)
    /\ f = "tags" => c.thinks /\ c.acc = NoCalls

(* The fields that Attentive and Ready are about. *)
Alike(c, d) ==
    /\ d.inTag = c.inTag /\ d.thinks = c.thinks /\ d.extracted = c.extracted /\ d.held = c.held /\ d.buf = c.buf

LEMMA CallPrepared ==
    ASSUME NEW c, NEW f, Attentive(c, f), NEW d, d = BeforeCall(c)
    PROVE  Ready(d, f) /\ Keeps(c, d, Answering \cup {"native_tools"})
  <1>1. PICK v \in BOOLEAN : v = TRUE OBVIOUS
  <1>2. PICK e : e = [c EXCEPT !.hasTool = v] OBVIOUS
  <1>3. e \in Contexts /\ Keeps(c, e, {}) /\ e.log = c.log
    <2>1. Sound(c) BY DEF Attentive
    <2>2. c \in Contexts BY <2>1, TypesOf
    <2> QED BY <1>2, <2>2 DEF Contexts, Keeps, Fields
  <1>4. Attentive(e, f) BY <1>3, HeardSame
  <1>5. PICK g : g = EndNative(e) OBVIOUS
  <1>6. /\ Attentive(g, f) /\ Goes(e, g, {"blocks"}) /\ (~g.inTag => Opened(g, "thinking") = {})
        /\ Opened(g, "text") = Opened(e, "text")
    BY <1>4, <1>5, NativeEnded
  <1>7. PICK h : h = Abandon(g) OBVIOUS
  <1>8. Goes(g, h, {"blocks", "text", "held", "native_tools"}) /\ Opened(h, "thinking") = Opened(g, "thinking")
        /\ h.native_tools /\ h.held = <<>>
    <2>1. Sound(g) BY <1>6 DEF Attentive
    <2>2. g.held = <<>> \/ Opened(g, "thinking") = {} BY <1>6 DEF Attentive, Tagged
    <2> QED BY <1>7, <2>1, <2>2, SnifferAbandoned
  <1>9. h.inTag = g.inTag /\ h.thinks = g.thinks /\ h.extracted = g.extracted /\ h.acc = g.acc /\ h.buf = g.buf
    BY <1>8 DEF Goes, Keeps, Fields
  <1>10. Ready(h, f) BY <1>6, <1>8, <1>9 DEF Attentive, Tagged, Ready, Goes
  <1>11. Keeps(c, h, Answering \cup {"native_tools"}) BY <1>3, <1>6, <1>8 DEF Goes, Keeps, Answering
  <1>12. d = FlushThinking(h) BY <1>1, <1>2, <1>5, <1>7 DEF BeforeCall
  <1>13. Sound(h) /\ h.buf \in Seq(Letters) BY <1>8, TypesOf DEF Goes
  <1>14. CASE h.inTag /\ EndTagAtEnd(h.buf) # 0
    <2>1. PICK i \in 1 .. Len(h.buf) : i = EndTagAtEnd(h.buf)
      <3>1. EndTagAtEnd(h.buf) \in 0 .. Len(h.buf) BY <1>13, TagPlaces
      <3> QED BY <1>14, <3>1
    <2>2. d = EndThinking(h, i) BY <1>12, <1>14, <2>1 DEF FlushThinking
    <2>3. Goes(h, d, {"blocks", "inTag", "extracted", "buf"}) /\ ~d.inTag /\ d.extracted
      <3>1. Opened(h, "thinking") # {} BY <1>10, <1>14 DEF Ready
      <3> QED BY <1>13, <2>2, <3>1, ThinkingEnded
    <2>4. d.thinks = h.thinks /\ d.acc = h.acc BY <2>3 DEF Goes, Keeps, Fields
    <2>5. Ready(d, f) BY <1>10, <1>14, <2>3, <2>4 DEF Ready, Goes
    <2>6. Keeps(h, d, Answering) BY <2>3 DEF Goes, Keeps, Answering
    <2> QED BY <1>11, <2>5, <2>6 DEF Keeps
  <1>15. CASE ~(h.inTag /\ EndTagAtEnd(h.buf) # 0) /\ ~h.inTag /\ ~h.extracted
    <2>1. d = FlushBuffer(h) BY <1>12, <1>15 DEF FlushThinking
    <2>2. /\ Goes(h, d, {"blocks", "text", "held", "buf"}) /\ Opened(d, "thinking") = {} /\ d.buf = <<>>
          /\ (h.native_tools /\ h.held = <<>> => d.held = <<>>)
      <3>1. Opened(h, "thinking") = {} BY <1>6, <1>8, <1>9, <1>15
      <3> QED BY <1>13, <2>1, <3>1, BufferFlushed
    <2>3. d.inTag = h.inTag /\ d.thinks = h.thinks /\ d.extracted = h.extracted /\ d.acc = h.acc
      BY <2>2 DEF Goes, Keeps, Fields
    <2>4. Ready(d, f) BY <1>8, <1>10, <1>15, <2>2, <2>3, PlainEmpty DEF Ready, Goes
    <2>5. Keeps(h, d, Answering) BY <2>2 DEF Goes, Keeps, Answering
    <2> QED BY <1>11, <2>4, <2>5 DEF Keeps
  <1>16. CASE ~(h.inTag /\ EndTagAtEnd(h.buf) # 0) /\ ~(~h.inTag /\ ~h.extracted)
    <2>1. d = h BY <1>12, <1>16 DEF FlushThinking
    <2> QED BY <1>10, <1>11, <2>1
  <1> QED BY <1>14, <1>15, <1>16

ToolCalls == [e : {"tool"}, id : ToolIds, named : BOOLEAN, frag : {"none", "l", "r"}, stop : BOOLEAN]

LEMMA FragsAre ==
    ASSUME NEW acc \in Calling, NEW ev \in ToolCalls
    PROVE  /\ Fragment(ev.frag) \in Seq(Letters) /\ Arguments(acc, ev) \in Seq(Letters) /\ Pushed(acc, ev) \in Calling
           /\ acc[ev.id].named \in BOOLEAN
  <1>1. ev.frag \in {"none", "l", "r"} /\ ev.id \in ToolIds /\ ev.stop \in BOOLEAN /\ ev.named \in BOOLEAN
    BY DEF ToolCalls
  <1>2. PICK s \in Seq(Letters) : s = Fragment(ev.frag)
    <2>1. << >> \in Seq(Letters) BY EmptySeq
    <2>2. CASE ev.frag = "none" BY <2>1, <2>2 DEF Fragment
    <2>3. CASE ev.frag # "none"
      <3>1. PICK x \in Letters : x = ev.frag BY <1>1, <2>3 DEF Letters
      <3>2. <<x>> \in Seq(Letters) OBVIOUS
      <3> QED BY <2>3, <3>1, <3>2 DEF Fragment
    <2> QED BY <2>2, <2>3
  <1>3. /\ acc[ev.id].frags \in Seq(Letters) /\ acc[ev.id].named \in BOOLEAN /\ acc[ev.id].seen \in BOOLEAN
    BY <1>1 DEF Calling
  <1>4. PICK t \in Seq(Letters) : t = acc[ev.id].frags \o s BY <1>3, ConcatProperties
  <1>5. Pushed(acc, ev) \in Calling
    <2>1. << >> \in Seq(Letters) BY EmptySeq
    <2>2. PICK b \in BOOLEAN : b = (acc[ev.id].named \/ ev.named) OBVIOUS
    <2>3. PICK r \in [seen : BOOLEAN, named : BOOLEAN, frags : Seq(Letters)] :
             r = IF ev.stop THEN NoCall ELSE [seen |-> TRUE, named |-> b, frags |-> t]
      <3>1. NoCall \in [seen : BOOLEAN, named : BOOLEAN, frags : Seq(Letters)] BY <2>1 DEF NoCall
      <3>2. [seen |-> TRUE, named |-> b, frags |-> t] \in [seen : BOOLEAN, named : BOOLEAN, frags : Seq(Letters)]
        OBVIOUS
      <3> QED BY <3>1, <3>2
    <2>4. Pushed(acc, ev) = [acc EXCEPT ![ev.id] = r] BY <1>2, <1>4, <2>2, <2>3 DEF Pushed
    <2> QED BY <1>1, <2>4 DEF Calling
  <1> QED BY <1>2, <1>3, <1>4, <1>5 DEF Arguments

LEMMA StopSet ==
    ASSUME NEW c, NEW f, Attentive(c, f), NEW reason \in Stops, NEW d, d = SetStop(c, reason)
    PROVE  Attentive(d, f) /\ Keeps(c, d, {}) /\ d.native = c.native
  <1>1. c \in Contexts /\ Sound(c) BY TypesOf DEF Attentive
  <1>2. d \in Contexts /\ Keeps(c, d, {}) /\ d.log = c.log /\ d.native = c.native
    <2>1. CASE c.stop = "refusal" BY <1>1, <2>1 DEF SetStop, Keeps
    <2>2. CASE c.stop # "refusal"
      <3>1. d = [c EXCEPT !.stop = reason] BY <2>2 DEF SetStop
      <3> QED BY <1>1, <3>1 DEF Contexts, Keeps, Fields
    <2> QED BY <2>1, <2>2
  <1> QED BY <1>2, HeardSame

(* In a reply with tags, a call is one event, and its arguments are empty. *)
Single(c, f, ev) == f = "tags" => ev.frag = "none" /\ ev.stop /\ c.tools[ev.id] = 0

LEMMA CallHeard ==
    ASSUME NEW c, NEW f, Ready(c, f), NEW ev \in ToolCalls, Single(c, f, ev), NEW d, d = Called(c, ev)
    PROVE  /\ Attentive(d, f) /\ Keeps(c, d, {"blocks", "tools", "acc"})
           /\ \A t \in ToolIds \ {ev.id} : d.tools[t] = c.tools[t]
  <1>1. Sound(c) BY DEF Ready
  <1>2. c.acc \in Calling /\ c.tools \in [ToolIds -> Nat] /\ c \in Contexts BY <1>1, TypesOf
  <1>3. ev.id \in ToolIds /\ ev.stop \in BOOLEAN /\ ev.named \in BOOLEAN BY DEF ToolCalls
  <1>4. PICK acc \in Calling : acc = Pushed(c.acc, ev) BY <1>2, FragsAre
  <1>5. PICK e : e = [c EXCEPT !.acc = acc] OBVIOUS
  <1>6. e \in Contexts /\ Keeps(c, e, {"acc"}) /\ e.log = c.log /\ e.acc = acc
    BY <1>2, <1>5 DEF Contexts, Keeps, Fields
  <1>7. Goes(c, e, {"acc"}) /\ \A k : Opened(e, k) = Opened(c, k)
    <2>1. {"blocks", "text", "think", "tools"} \cap {"acc"} = {} OBVIOUS
    <2> QED BY <1>1, <1>6, <2>1, FieldsGo
  <1>8. e.tools = c.tools /\ Alike(c, e) BY <1>6 DEF Keeps, Fields, Alike
  <1>9. f = "tags" => acc = NoCalls /\ Arguments(c.acc, ev) = <<>>
    <2>1. SUFFICES ASSUME f = "tags" PROVE acc = NoCalls /\ Arguments(c.acc, ev) = <<>> OBVIOUS
    <2>2. c.acc = NoCalls /\ ev.frag = "none" /\ ev.stop BY <2>1 DEF Ready, Single
    <2>3. acc = [NoCalls EXCEPT ![ev.id] = NoCall] BY <1>4, <2>2 DEF Pushed
    <2>4. acc = NoCalls BY <1>3, <2>3 DEF NoCalls
    <2>5. c.acc[ev.id].frags = <<>> BY <1>3, <2>2 DEF NoCalls, NoCall
    <2>6. Fragment(ev.frag) = <<>> BY <2>2 DEF Fragment
    <2>7. Arguments(c.acc, ev) = << >> \o << >> BY <2>5, <2>6 DEF Arguments
    <2>8. << >> \in Seq(Letters) BY EmptySeq
    <2> QED BY <2>4, <2>7, <2>8, ConcatEmptySeq
  <1>10. PICK args \in Seq(Letters) : args = Arguments(c.acc, ev) BY <1>2, FragsAre
  <1>11. PICK streamed \in BOOLEAN : streamed = ((c.acc[ev.id].named \/ ev.named) /\ ev.id \notin Rewritten)
    OBVIOUS
  <1>12. PICK fresh \in Seq(Letters) : fresh = IF c.tools[ev.id] = 0 THEN args ELSE Fragment(ev.frag)
    BY <1>2, <1>10, FragsAre
  <1>13. e = [c EXCEPT !.acc = Pushed(@, ev)] BY <1>4, <1>5
  <1>14. ASSUME NEW g, Goes(e, g, {"blocks", "tools"}), Opened(g, "thinking") = Opened(e, "thinking"),
                e.tools[ev.id] = 0 => Opened(g, "text") = {},
                \A u \in ToolIds \ {ev.id} : g.tools[u] = e.tools[u]
         PROVE  /\ Attentive(g, f) /\ Keeps(c, g, {"blocks", "tools", "acc"})
                /\ \A t \in ToolIds \ {ev.id} : g.tools[t] = c.tools[t]
    <2>1. g.acc = acc /\ Alike(c, g) BY <1>6, <1>8, <1>14 DEF Goes, Keeps, Fields, Alike
    <2>2. Keeps(c, g, {"blocks", "tools", "acc"}) BY <1>6, <1>14 DEF Goes, Keeps
    <2>3. Opened(g, "thinking") = Opened(c, "thinking") BY <1>7, <1>14
    <2>4. Sound(g) /\ (Mute(c) => Mute(g)) BY <1>7, <1>14 DEF Goes
    <2>5. f = "tags" => Opened(g, "text") = {} BY <1>8, <1>14 DEF Single
    <2>6. Attentive(g, f) BY <1>9, <2>1, <2>3, <2>4, <2>5 DEF Attentive, Tagged, Ready, Alike
    <2> QED BY <1>8, <1>14, <2>2, <2>6
  <1>15. CASE Invalid(c.acc, ev)
    <2>1. f # "tags" BY <1>9, <1>15 DEF Invalid
    <2>2. PICK v \in BOOLEAN : v = TRUE OBVIOUS
    <2>3. PICK g : g = [e EXCEPT !.bad = v] OBVIOUS
    <2>4. g \in Contexts /\ Keeps(e, g, {}) /\ g.log = e.log BY <1>6, <2>3 DEF Contexts, Keeps, Fields
    <2>5. Attentive(e, f) BY <1>7, <1>8, <2>1 DEF Attentive, Tagged, Ready, Alike, Goes
    <2>6. Attentive(g, f) BY <2>4, <2>5, HeardSame
    <2>7. PICK w \in Stops : w = "error" BY DEF Stops
    <2>8. d = SetStop(g, w) BY <1>13, <1>15, <2>2, <2>3, <2>7 DEF Called
    <2>9. Attentive(d, f) /\ Keeps(g, d, {}) BY <2>6, <2>8, StopSet
    <2>10. Keeps(c, d, {"blocks", "tools", "acc"}) BY <1>6, <2>4, <2>9 DEF Keeps
    <2>11. d.tools = c.tools BY <1>6, <2>4, <2>9 DEF Keeps, Fields
    <2> QED BY <2>9, <2>10, <2>11
  <1>16. CASE ~Invalid(c.acc, ev) /\ streamed /\ (ev.stop \/ args # <<>>)
    <2>1. PICK frags \in Seq(Letters) : frags = IF args = <<>> THEN <<"{}">> ELSE fresh
      <3>1. PICK x \in Letters : x = "{}" BY DEF Letters
      <3>2. <<x>> \in Seq(Letters) OBVIOUS
      <3> QED BY <3>1, <3>2
    <2>2. PICK g : g = StartTool(e, ev.id) OBVIOUS
    <2>3. CallPlaced(e, g, ev.id) BY <1>3, <1>7, <2>2, CallStarted DEF Goes
    <2>4. PICK i \in 1 .. Len(g.blocks) : i = g.tools[ev.id] /\ g.blocks[i].kind = "tool" BY <2>3 DEF CallPlaced
    <2>5. d = Passed(g, ev, frags) BY <1>10, <1>11, <1>12, <1>13, <1>16, <2>1, <2>2 DEF Called
    <2>6. PICK h : h = Input(g, i, frags) OBVIOUS
    <2>7. Goes(g, h, {}) /\ \A k : Opened(h, k) = Opened(g, k)
      <3>1. Sound(g) BY <2>3 DEF CallPlaced, Goes
      <3> QED BY <2>6, <3>1, Inputs
    <2>8. h.blocks = g.blocks /\ Sound(h) BY <2>7 DEF Goes, Keeps, Fields
    <2>9. d = IF ev.stop THEN StopBlock(h, i) ELSE h BY <2>4, <2>5, <2>6 DEF Passed
    <2>10. Goes(h, d, {"blocks"}) /\ \A k : k # "tool" => Opened(d, k) = Opened(h, k)
      <3>1. CASE ev.stop
        <4>1. d = StopBlock(h, i) BY <2>9, <3>1
        <4>2. i \in 1 .. Len(h.blocks) /\ h.blocks[i].kind = "tool" BY <2>4, <2>8
        <4> QED BY <2>8, <4>1, <4>2, ToolStopped
      <3>2. CASE ~ev.stop
        <4>1. d = h BY <2>9, <3>2
        <4> QED BY <2>8, <4>1, Stays
      <3> QED BY <3>1, <3>2
    <2>11. Goes(e, h, {"blocks", "tools"})
      <3>1. Goes(e, g, {"blocks", "tools"}) BY <2>3 DEF CallPlaced
      <3> QED BY <2>7, <3>1, GoesOn
    <2>12. Goes(e, d, {"blocks", "tools"}) BY <2>10, <2>11, GoesOn
    <2>13. d.tools = g.tools BY <2>7, <2>10 DEF Goes, Keeps, Fields
    <2>14. Opened(d, "thinking") = Opened(g, "thinking") /\ Opened(d, "text") = Opened(g, "text") BY <2>7, <2>10
    <2> QED BY <1>14, <2>3, <2>12, <2>13, <2>14 DEF CallPlaced
  <1>17. CASE ~Invalid(c.acc, ev) /\ ~streamed /\ ev.stop
    <2>1. d = EmitCall(e, ev.id, args) BY <1>10, <1>11, <1>13, <1>17 DEF Called
    <2>2. /\ Goes(e, d, {"blocks", "tools"}) /\ Opened(d, "thinking") = Opened(e, "thinking")
          /\ e.tools[ev.id] = 0 => Opened(d, "text") = {}
          /\ \A u \in ToolIds \ {ev.id} : d.tools[u] = e.tools[u]
      <3>1. Sound(e) BY <1>7 DEF Goes
      <3> QED BY <1>3, <2>1, <3>1, CallEmitted
    <2> QED BY <1>14, <2>2
  <1>18. CASE ~Invalid(c.acc, ev) /\ ~(streamed /\ (ev.stop \/ args # <<>>)) /\ ~(~streamed /\ ev.stop)
    <2>1. d = e BY <1>10, <1>11, <1>13, <1>18 DEF Called
    <2>2. f # "tags" BY <1>3, <1>18 DEF Single
    <2>3. Attentive(e, f) BY <1>7, <1>8, <2>2 DEF Attentive, Tagged, Ready, Alike, Goes
    <2>4. Keeps(c, d, {"blocks", "tools", "acc"}) BY <1>6, <2>1 DEF Keeps
    <2> QED BY <1>8, <2>1, <2>3, <2>4
  <1> QED BY <1>15, <1>16, <1>17, <1>18

-----------------------------------------------------------------------------
(* Every event of every kind of reply.                                      *)

(* What a kind of reply is made of. *)
EventOf(f, ev) ==
    /\ ev.e \in {"text", "reasoning", "tool", "metadata", "context", "metering", "too_long"}
    /\ ev.e = "text" => ev.s \in Seq(Letters) /\ (f # "tags" => ev.s \in Seq(Plain))
    /\ ev.e = "reasoning" => ev \in Thoughtful /\ f # "tags"
    /\ ev.e = "tool" => ev \in ToolCalls /\ (f = "tags" => ev.frag = "none" /\ ev.stop)
    /\ ev.e = "metadata" => ev.reason \in Natives

LEMMA TextIs ==
    ASSUME NEW f, NEW s \in Seq(Letters), f # "tags" => s \in Seq(Plain)
    PROVE  EventOf(f, TextEv(s))
  BY DEF EventOf, TextEv

LEMMA CallIs ==
    ASSUME NEW f, NEW t \in ToolIds, NEW named \in BOOLEAN, NEW x \in {"none", "l", "r"}, NEW stop \in BOOLEAN,
           f = "tags" => x = "none" /\ stop
    PROVE  EventOf(f, ToolEv(t, named, x, stop))
  <1>1. PICK ev : ev = ToolEv(t, named, x, stop) OBVIOUS
  <1>2. ev \in ToolCalls /\ ev.e = "tool" /\ ev.frag = x /\ ev.stop = stop BY <1>1 DEF ToolCalls, ToolEv
  <1>3. EventOf(f, ev) BY <1>2 DEF EventOf
  <1> QED BY <1>1, <1>3

LEMMA ThoughtIs ==
    ASSUME NEW f, f # "tags", NEW s \in Seq(Letters), NEW b \in BOOLEAN, NEW v \in BOOLEAN
    PROVE  EventOf(f, Reasoning(s, b, v))
  <1>1. PICK ev : ev = Reasoning(s, b, v) OBVIOUS
  <1>2. ev \in Thoughtful /\ ev.e = "reasoning" BY <1>1 DEF Thoughtful, Reasoning
  <1>3. EventOf(f, ev) BY <1>2 DEF EventOf
  <1> QED BY <1>1, <1>3

LEMMA SingleLetters ==
    /\ \A x \in Letters : <<x>> \in Seq(Letters)
    /\ \A x \in Plain : <<x>> \in Seq(Plain)
  OBVIOUS

LEMMA OneLetterIs ==
    ASSUME NEW f, NEW x \in {"w", "sp", "iv", "fl"}
    PROVE  EventOf(f, TextEv(<<x>>))
  <1>1. x \in Letters /\ x \in Plain BY DEF Letters, Plain
  <1>2. PICK s \in Seq(Letters) : s = <<x>> /\ s \in Seq(Plain) BY <1>1, SingleLetters
  <1>3. EventOf(f, TextEv(s)) BY <1>2, TextIs
  <1> QED BY <1>2, <1>3

LEMMA EventsAre ==
    ASSUME NEW f \in {"tags", "plain", "native", "tools", "ends"}, NEW ev \in Events(f)
    PROVE  EventOf(f, ev)
  <1>0. 1 \in ToolIds BY ToolsAssumption
  <1>1. CASE f = "tags"
    <2>0. Events(f) = {TextEv(s) : s \in {<<"o1">>, <<"o2">>, <<"c1">>, <<"c2">>, <<"w">>, <<"sp">>,
                                <<"o1", "o2">>, <<"c1", "c2">>, <<"w", "c1", "c2", "sp", "w">>}}
            \cup {ToolEv(1, TRUE, "none", TRUE)}
      BY <1>1, SMTT(20) DEF Events
    <2>1. ev \in {TextEv(s) : s \in {<<"o1">>, <<"o2">>, <<"c1">>, <<"c2">>, <<"w">>, <<"sp">>,
                                <<"o1", "o2">>, <<"c1", "c2">>, <<"w", "c1", "c2", "sp", "w">>}}
            \cup {ToolEv(1, TRUE, "none", TRUE)}
      BY <2>0, Zenon
    <2>2. CASE ev = ToolEv(1, TRUE, "none", TRUE)
      <3>1. PICK x \in {"none", "l", "r"}, b \in BOOLEAN : x = "none" /\ b = TRUE OBVIOUS
      <3>2. EventOf(f, ToolEv(1, b, x, b)) BY <1>0, <3>1, CallIs
      <3> QED BY <2>2, <3>1, <3>2
    <2>3. CASE ev \in {TextEv(s) : s \in {<<"o1">>, <<"o2">>, <<"c1">>, <<"c2">>, <<"w">>, <<"sp">>,
                                <<"o1", "o2">>, <<"c1", "c2">>, <<"w", "c1", "c2", "sp", "w">>}}
      <3>1. PICK s \in {<<"o1">>, <<"o2">>, <<"c1">>, <<"c2">>, <<"w">>, <<"sp">>,
                        <<"o1", "o2">>, <<"c1", "c2">>, <<"w", "c1", "c2", "sp", "w">>} : ev = TextEv(s)
        BY <2>3
      <3>2. s \in Seq(Letters)
        <4>1. /\ <<"o1">> \in Seq(Letters) /\ <<"o2">> \in Seq(Letters) /\ <<"c1">> \in Seq(Letters)
              /\ <<"c2">> \in Seq(Letters) /\ <<"w">> \in Seq(Letters) /\ <<"sp">> \in Seq(Letters)
          BY SingleLetters DEF Letters
        <4>2. <<"o1", "o2">> \in Seq(Letters) BY DEF Letters
        <4>3. <<"c1", "c2">> \in Seq(Letters) BY DEF Letters
        <4>4. <<"w", "c1", "c2", "sp", "w">> \in Seq(Letters) BY DEF Letters
        <4> QED BY <3>1, <4>1, <4>2, <4>3, <4>4
      <3>3. EventOf(f, TextEv(s)) BY <1>1, <3>2, TextIs
      <3> QED BY <3>1, <3>3
    <2> QED BY <2>1, <2>2, <2>3
  <1>2. CASE f = "plain"
    <2>0. Events(f) = {TextEv(<<x>>) : x \in {"w", "sp", "iv", "fl"}} \cup {ToolEv(1, TRUE, "none", TRUE)}
      BY <1>2, SMTT(20) DEF Events
    <2>1. ev \in {TextEv(<<x>>) : x \in {"w", "sp", "iv", "fl"}} \cup {ToolEv(1, TRUE, "none", TRUE)}
      BY <2>0, Zenon
    <2>2. CASE ev = ToolEv(1, TRUE, "none", TRUE)
      <3>1. PICK x \in {"none", "l", "r"}, b \in BOOLEAN : x = "none" /\ b = TRUE OBVIOUS
      <3>2. EventOf(f, ToolEv(1, b, x, b)) BY <1>0, <3>1, CallIs
      <3> QED BY <2>2, <3>1, <3>2
    <2> QED BY <2>1, <2>2, OneLetterIs
  <1>3. CASE f = "native"
    <2>0. Events(f) = {Reasoning(<<"w">>, FALSE, FALSE), Reasoning(<<>>, TRUE, FALSE),
             Reasoning(<<>>, FALSE, TRUE), Reasoning(<<"w">>, TRUE, TRUE)}
            \cup {TextEv(<<x>>) : x \in {"w", "sp", "iv"}}
            \cup {ToolEv(1, TRUE, "l", FALSE), ToolEv(1, TRUE, "r", TRUE)}
      BY <1>3, SMTT(20) DEF Events
    <2>1. ev \in {Reasoning(<<"w">>, FALSE, FALSE), Reasoning(<<>>, TRUE, FALSE),
             Reasoning(<<>>, FALSE, TRUE), Reasoning(<<"w">>, TRUE, TRUE)}
            \cup {TextEv(<<x>>) : x \in {"w", "sp", "iv"}}
            \cup {ToolEv(1, TRUE, "l", FALSE), ToolEv(1, TRUE, "r", TRUE)}
      BY <2>0, Zenon
    <2>2. CASE ev \in {Reasoning(<<"w">>, FALSE, FALSE), Reasoning(<<>>, TRUE, FALSE),
             Reasoning(<<>>, FALSE, TRUE), Reasoning(<<"w">>, TRUE, TRUE)}
      <3>1. PICK s \in Seq(Letters), b \in BOOLEAN, v \in BOOLEAN : ev = Reasoning(s, b, v)
        <4>1. <<"w">> \in Seq(Letters) /\ << >> \in Seq(Letters) BY SingleLetters, EmptySeq DEF Letters
        <4> QED BY <2>2, <4>1
      <3> QED BY <1>3, <3>1, ThoughtIs
    <2>3. CASE ev \in {ToolEv(1, TRUE, "l", FALSE), ToolEv(1, TRUE, "r", TRUE)}
      <3>1. PICK x \in {"none", "l", "r"}, b \in BOOLEAN, v \in BOOLEAN : ev = ToolEv(1, b, x, v) BY <2>3
      <3>2. EventOf(f, ToolEv(1, b, x, v)) BY <1>0, <1>3, <3>1, CallIs
      <3> QED BY <3>1, <3>2
    <2>4. CASE ev \in {TextEv(<<x>>) : x \in {"w", "sp", "iv"}}
      BY <2>4, OneLetterIs
    <2> QED BY <2>1, <2>2, <2>3, <2>4
  <1>4. CASE f = "tools"
    <2>0. Events(f) = {ToolEv(t, TRUE, x, b) : t \in ToolIds, x \in {"none", "l", "r"}, b \in BOOLEAN}
            \cup {ToolEv(1, FALSE, x, FALSE) : x \in {"none", "l"}}
            \cup {TextEv(<<"w">>), Meta("refusal")}
      BY <1>4, SMTT(20) DEF Events
    <2>1. ev \in {ToolEv(t, TRUE, x, b) : t \in ToolIds, x \in {"none", "l", "r"}, b \in BOOLEAN}
            \cup {ToolEv(1, FALSE, x, FALSE) : x \in {"none", "l"}}
            \cup {TextEv(<<"w">>), Meta("refusal")}
      BY <2>0, SMTT(20) DEF ToolEv
    <2>2. CASE ev \in {ToolEv(t, TRUE, x, b) : t \in ToolIds, x \in {"none", "l", "r"}, b \in BOOLEAN}
                      \cup {ToolEv(1, FALSE, x, FALSE) : x \in {"none", "l"}}
      <3>1. PICK t \in ToolIds, x \in {"none", "l", "r"}, b \in BOOLEAN, v \in BOOLEAN : ev = ToolEv(t, b, x, v)
        <4>1. CASE ev \in {ToolEv(t, TRUE, x, b) : t \in ToolIds, x \in {"none", "l", "r"}, b \in BOOLEAN}
          <5>1. \E t \in ToolIds, x \in {"none", "l", "r"}, b \in BOOLEAN : ev = ToolEv(t, TRUE, x, b) BY <4>1 DEF ToolEv
          <5> HIDE <4>1
          <5> QED BY <5>1
        <4>2. CASE ev \in {ToolEv(1, FALSE, x, FALSE) : x \in {"none", "l"}} BY <1>0, <4>2
        <4>3. \/ ev \in {ToolEv(t, TRUE, x, b) : t \in ToolIds, x \in {"none", "l", "r"}, b \in BOOLEAN}
              \/ ev \in {ToolEv(1, FALSE, x, FALSE) : x \in {"none", "l"}}
          BY <2>2 DEF ToolEv
        <4> QED BY <4>1, <4>2, <4>3 DEF ToolEv
      <3>2. EventOf(f, ToolEv(t, b, x, v)) BY <1>4, <3>1, CallIs
      <3> QED BY <3>1, <3>2
    <2>3. CASE ev = TextEv(<<"w">>) BY <2>3, OneLetterIs
    <2>4. CASE ev = Meta("refusal") BY <2>4 DEF Meta, EventOf, Natives
    <2> QED BY <2>1, <2>2, <2>3, <2>4 DEF ToolEv
  <1>5. CASE f = "ends"
    <2>0. Events(f) = {Meta(r) : r \in Reasons}
            \cup {Report(e) : e \in {"context", "metering", "too_long"}}
            \cup {TextEv(<<"w">>), TextEv(<<"iv">>), ToolEv(1, TRUE, "none", FALSE)}
      BY <1>5, SMTT(20) DEF Events
    <2>1. ev \in {Meta(r) : r \in Reasons}
            \cup {Report(e) : e \in {"context", "metering", "too_long"}}
            \cup {TextEv(<<"w">>), TextEv(<<"iv">>), ToolEv(1, TRUE, "none", FALSE)}
      BY <2>0, Zenon
    <2>2. CASE ev = ToolEv(1, TRUE, "none", FALSE)
      <3>1. PICK x \in {"none", "l", "r"}, b \in BOOLEAN, v \in BOOLEAN : x = "none" /\ b = TRUE /\ v = FALSE OBVIOUS
      <3>2. EventOf(f, ToolEv(1, b, x, v)) BY <1>0, <1>5, <3>1, CallIs
      <3> QED BY <2>2, <3>1, <3>2
    <2>3. CASE ev \in {TextEv(<<"w">>), TextEv(<<"iv">>)} BY <2>3, OneLetterIs
    <2>4. CASE ev \in {Meta(r) : r \in Reasons} BY <2>4 DEF Meta, EventOf, Natives, Reasons, CutShort
    <2>5. CASE ev \in {Report(e) : e \in {"context", "metering", "too_long"}} BY <2>5 DEF Report, EventOf
    <2> QED BY <2>1, <2>2, <2>3, <2>4, <2>5
  <1> QED BY <1>1, <1>2, <1>3, <1>4, <1>5

(* What an event of the upstream leaves. *)
Moves(c, d, f, ev) ==
    /\ Attentive(d, f) /\ d.credits = IF ev.e = "metering" THEN c.credits + 1 ELSE c.credits
    /\ \A t \in ToolIds : d.tools[t] # 0 => c.tools[t] # 0 \/ (ev.e = "tool" /\ t = ev.id)

LEMMA MetadataHeard ==
    ASSUME NEW c, NEW f, Attentive(c, f), NEW ev, ev.reason \in Natives, NEW d, d = Metadata(c, ev)
    PROVE  Attentive(d, f) /\ Keeps(c, d, {})
  <1>1. PICK e : e = IF ev.reason \in CutShort /\ c.stop = "none" THEN SetStop(c, ev.reason) ELSE c OBVIOUS
  <1>2. Attentive(e, f) /\ Keeps(c, e, {})
    <2>1. CASE ev.reason \in CutShort /\ c.stop = "none"
      <3>1. PICK w \in Stops : w = ev.reason BY <2>1 DEF Stops
      <3>2. e = SetStop(c, w) BY <1>1, <2>1, <3>1
      <3> QED BY <3>2, StopSet
    <2>2. CASE ~(ev.reason \in CutShort /\ c.stop = "none")
      <3>1. e = c BY <1>1, <2>2
      <3> QED BY <3>1 DEF Keeps
    <2> QED BY <2>1, <2>2
  <1>3. PICK g : g = IF ev.reason = "none" THEN e ELSE [e EXCEPT !.native = ev.reason] OBVIOUS
  <1>4. Attentive(g, f) /\ Keeps(e, g, {})
    <2>1. CASE ev.reason = "none"
      <3>1. g = e BY <1>3, <2>1
      <3> QED BY <1>2, <3>1 DEF Keeps
    <2>2. CASE ev.reason # "none"
      <3>1. e \in Contexts BY <1>2, TypesOf DEF Attentive
      <3>2. PICK w \in Natives : w = ev.reason OBVIOUS
      <3>3. g = [e EXCEPT !.native = w] BY <1>3, <2>2, <3>2
      <3>4. g \in Contexts /\ Keeps(e, g, {}) /\ g.log = e.log BY <3>1, <3>3 DEF Contexts, Keeps, Fields
      <3> QED BY <1>2, <3>4, HeardSame
    <2> QED BY <2>1, <2>2
  <1>5. d = IF ev.reason = "refusal" THEN SetStop(g, "refusal") ELSE g BY <1>1, <1>3 DEF Metadata
  <1>6. Attentive(d, f) /\ Keeps(g, d, {})
    <2>1. CASE ev.reason = "refusal"
      <3>1. PICK w \in Stops : w = "refusal" BY DEF Stops
      <3>2. d = SetStop(g, w) BY <1>5, <2>1, <3>1
      <3> QED BY <1>4, <3>2, StopSet
    <2>2. CASE ev.reason # "refusal"
      <3>1. d = g BY <1>5, <2>2
      <3> QED BY <1>4, <3>1 DEF Keeps
    <2> QED BY <2>1, <2>2
  <1>7. Keeps(c, d, {}) BY <1>2, <1>4, <1>6 DEF Keeps
  <1> QED BY <1>6, <1>7

LEMMA EventHeard ==
    ASSUME NEW c, NEW f, Attentive(c, f), NEW ev, EventOf(f, ev), f = "tags" /\ ev.e = "tool" => c.tools[ev.id] = 0,
           NEW d, d = Process(c, ev)
    PROVE  Moves(c, d, f, ev)
  <1>1. Sound(c) /\ c \in Contexts /\ c.credits \in Nat BY TypesOf DEF Attentive
  <1>2. CASE ev.e = "text"
    <2>1. d = AssistantResponse(c, ev.s) BY <1>2 DEF Process
    <2>2. PICK s \in Seq(Letters) : s = ev.s /\ (f # "tags" => s \in Seq(Plain)) BY <1>2 DEF EventOf
    <2>3. Attentive(d, f) /\ Keeps(c, d, Answering) BY <2>1, <2>2, TextHeard
    <2>4. d.credits = c.credits /\ d.tools = c.tools BY <2>3 DEF Keeps, Fields, Answering
    <2> QED BY <1>2, <2>3, <2>4 DEF Moves
  <1>3. CASE ev.e = "reasoning"
    <2>1. d = ReasoningContent(c, ev) BY <1>3 DEF Process
    <2>2. Attentive(d, f) /\ Keeps(c, d, Answering) BY <1>3, <2>1, ReasoningHeard DEF EventOf
    <2>3. d.credits = c.credits /\ d.tools = c.tools BY <2>2 DEF Keeps, Fields, Answering
    <2> QED BY <1>3, <2>2, <2>3 DEF Moves
  <1>4. CASE ev.e = "tool"
    <2>1. d = ToolUse(c, ev) BY <1>4 DEF Process
    <2>2. PICK e : e = BeforeCall(c) OBVIOUS
    <2>3. Ready(e, f) /\ Keeps(c, e, Answering \cup {"native_tools"}) BY <2>2, CallPrepared
    <2>4. e.credits = c.credits /\ e.tools = c.tools BY <2>3 DEF Keeps, Fields, Answering
    <2>5. d = Called(e, ev) BY <2>1, <2>2 DEF ToolUse
    <2>6. /\ Attentive(d, f) /\ Keeps(e, d, {"blocks", "tools", "acc"})
          /\ \A t \in ToolIds \ {ev.id} : d.tools[t] = e.tools[t]
      <3>1. ev \in ToolCalls /\ Single(e, f, ev) BY <1>4, <2>4 DEF EventOf, Single
      <3> QED BY <2>3, <2>5, <3>1, CallHeard
    <2>7. d.credits = e.credits BY <2>6 DEF Keeps, Fields
    <2> QED BY <1>4, <2>4, <2>6, <2>7 DEF Moves
  <1>5. CASE ev.e = "metadata"
    <2>1. d = Metadata(c, ev) BY <1>5 DEF Process
    <2>2. Attentive(d, f) /\ Keeps(c, d, {}) BY <1>5, <2>1, MetadataHeard DEF EventOf
    <2>3. d.credits = c.credits /\ d.tools = c.tools BY <2>2 DEF Keeps, Fields
    <2> QED BY <1>5, <2>2, <2>3 DEF Moves
  <1>6. CASE ev.e = "context"
    <2>1. PICK v \in BOOLEAN : v = TRUE OBVIOUS
    <2>2. d = [c EXCEPT !.full = v] BY <1>6, <2>1 DEF Process
    <2>3. d \in Contexts /\ Keeps(c, d, {}) /\ d.log = c.log BY <1>1, <2>2 DEF Contexts, Keeps, Fields
    <2>4. Attentive(d, f) BY <2>3, HeardSame
    <2>5. d.credits = c.credits /\ d.tools = c.tools BY <2>3 DEF Keeps, Fields
    <2> QED BY <1>6, <2>4, <2>5 DEF Moves
  <1>7. CASE ev.e = "metering"
    <2>1. PICK n \in Nat : n = c.credits + 1 BY <1>1
    <2>2. d = [c EXCEPT !.credits = n] BY <1>7, <2>1 DEF Process
    <2>3. d \in Contexts /\ Keeps(c, d, {"credits"}) /\ d.log = c.log /\ d.credits = n
      BY <1>1, <2>2 DEF Contexts, Keeps, Fields
    <2>4. Attentive(d, f) BY <2>3, HeardSame
    <2>5. d.tools = c.tools BY <2>3 DEF Keeps, Fields
    <2> QED BY <1>7, <2>1, <2>3, <2>4, <2>5 DEF Moves
  <1>8. CASE ev.e = "too_long"
    <2>1. PICK w \in Stops : w = "max_tokens" BY DEF Stops, CutShort
    <2>2. d = SetStop(c, w) BY <1>8, <2>1 DEF Process
    <2>3. Attentive(d, f) /\ Keeps(c, d, {}) BY <2>2, StopSet
    <2>4. d.credits = c.credits /\ d.tools = c.tools BY <2>3 DEF Keeps, Fields
    <2> QED BY <1>8, <2>3, <2>4 DEF Moves
  <1> QED BY <1>2, <1>3, <1>4, <1>5, <1>6, <1>7, <1>8 DEF EventOf

-----------------------------------------------------------------------------
(* What is left when the reply ends: buffers, held text, calls not stopped. *)

LEMMA StopGoes ==
    ASSUME NEW c, Sound(c), NEW reason \in Stops, NEW d, d = SetStop(c, reason)
    PROVE  Goes(c, d, {})
  <1>1. CASE c.stop = "refusal"
    <2>1. d = c BY <1>1 DEF SetStop
    <2> QED BY <2>1, Stays
  <1>2. CASE c.stop # "refusal"
    <2>1. d = [c EXCEPT !.stop = reason] BY <1>2 DEF SetStop
    <2>2. c \in Contexts BY TypesOf
    <2>3. d \in Contexts /\ Keeps(c, d, {}) /\ d.log = c.log BY <2>1, <2>2 DEF Contexts, Keeps, Fields
    <2> QED BY <2>3, FieldsGo
  <1> QED BY <1>1, <1>2

LEMMA BufferEnded ==
    ASSUME NEW c, NEW f, Attentive(c, f), ~c.inTag => Opened(c, "thinking") = {}, NEW d, d = FlushEnd(c)
    PROVE  Sound(d) /\ Mute(d) /\ d.credits = c.credits
  <1>1. Sound(c) BY DEF Attentive
  <1>2. c.buf \in Seq(Letters) BY <1>1, TypesOf
  <1>3. CASE ~c.thinks \/ c.buf = <<>>
    <2>1. d = c BY <1>3 DEF FlushEnd
    <2>2. Mute(c)
      <3>1. CASE ~c.inTag BY <3>1 DEF Mute
      <3>2. CASE c.inTag BY <1>3, <3>2 DEF Attentive, Tagged
      <3> QED BY <3>1, <3>2
    <2> QED BY <1>1, <2>1, <2>2
  <1>4. CASE ~(~c.thinks \/ c.buf = <<>>) /\ ~c.inTag
    <2>1. d = FlushBuffer(c) BY <1>4 DEF FlushEnd
    <2>2. Goes(c, d, {"blocks", "text", "held", "buf"}) /\ Opened(d, "thinking") = {}
      BY <1>1, <1>4, <2>1, BufferFlushed
    <2> QED BY <2>2 DEF Goes, Mute, Keeps, Fields
  <1>5. CASE ~(~c.thinks \/ c.buf = <<>>) /\ c.inTag /\ EndTagAtEnd(c.buf) # 0
    <2>1. PICK i \in 1 .. Len(c.buf) : i = EndTagAtEnd(c.buf)
      <3>1. EndTagAtEnd(c.buf) \in 0 .. Len(c.buf) BY <1>2, TagPlaces
      <3> QED BY <1>5, <3>1
    <2>2. d = EndThinking(c, i) BY <1>5, <2>1 DEF FlushEnd
    <2>3. Goes(c, d, {"blocks", "inTag", "extracted", "buf"}) /\ Opened(d, "thinking") = {}
      <3>1. Opened(c, "thinking") # {} BY <1>5 DEF Attentive, Tagged
      <3> QED BY <1>1, <2>2, <3>1, ThinkingEnded
    <2> QED BY <2>3 DEF Goes, Mute, Keeps, Fields
  <1>6. CASE ~(~c.thinks \/ c.buf = <<>>) /\ c.inTag /\ EndTagAtEnd(c.buf) = 0
    <2>1. PICK s \in Seq(Letters) : s = c.buf BY <1>2
    <2>2. PICK e : e = ThinkingDelta(c, s) OBVIOUS
    <2>3. Opened(c, "thinking") # {} BY <1>6 DEF Attentive, Tagged
    <2>4. Sound(e) /\ Keeps(c, e, {}) /\ (\A k : Opened(e, k) = Opened(c, k)) BY <1>1, <2>2, <2>3, ThinkingSent
    <2>5. PICK w \in {"placeholder", "native"} : w = "placeholder" OBVIOUS
    <2>6. PICK g : g = SignAndStop(e, w) OBVIOUS
    <2>7. Sound(g) /\ Keeps(e, g, {"blocks"}) /\ Opened(g, "thinking") = {}
      <3>1. Opened(e, "thinking") # {} BY <2>3, <2>4
      <3> QED BY <2>4, <2>6, <3>1, ThinkingSignedOff
    <2>8. PICK t \in Seq(Letters) : t = <<>> BY EmptySeq
    <2>9. d = [g EXCEPT !.buf = t] BY <1>6, <2>1, <2>2, <2>5, <2>6, <2>8 DEF FlushEnd
    <2>10. d \in Contexts /\ Keeps(g, d, {"buf"}) /\ d.log = g.log
      <3>1. g \in Contexts BY <2>7, TypesOf
      <3> QED BY <2>9, <3>1 DEF Contexts, Keeps, Fields
    <2>11. Goes(g, d, {"buf"}) /\ \A k : Opened(d, k) = Opened(g, k)
      <3>1. {"blocks", "text", "think", "tools"} \cap {"buf"} = {} OBVIOUS
      <3> QED BY <2>7, <2>10, <3>1, FieldsGo
    <2>12. d.credits = c.credits BY <2>4, <2>7, <2>10 DEF Keeps, Fields
    <2> QED BY <2>7, <2>11, <2>12 DEF Goes, Mute
  <1> QED BY <1>3, <1>4, <1>5, <1>6

LEMMA CallsAre ==
    ASSUME NEW s \in Seq(Letters)
    PROVE  Calls(s) \in Seq(Letters)
  <1>1. {i \in DOMAIN s : s[i] = "iv"} \subseteq 1 .. Len(s) /\ Len(s) \in Nat OBVIOUS
  <1>2. IsFiniteSet(1 .. Len(s)) BY <1>1, FS_Interval
  <1>3. PICK m : m = Cardinality({i \in DOMAIN s : s[i] = "iv"}) OBVIOUS
  <1>4. m \in Nat BY <1>1, <1>2, <1>3, FS_Subset, FS_CardinalityType
  <1>5. Calls(s) = [k \in 1 .. m |-> "iv"] BY <1>3 DEF Calls
  <1>6. "iv" \in Letters BY DEF Letters
  <1> QED BY <1>4, <1>5, <1>6, SeqDef

LEMMA Sniffed ==
    ASSUME NEW c, Sound(c), NEW r, r = SniffEnd(c)
    PROVE  Goes(c, r, {"blocks", "held"})
  <1>a. PICK gone \in Seq(Letters) : gone = <<>> BY EmptySeq
  <1>b. PICK e : e = [c EXCEPT !.held = gone] OBVIOUS
  <1>c. Goes(c, e, {"held"})
    <2>1. c \in Contexts BY TypesOf
    <2>2. e \in Contexts /\ Keeps(c, e, {"held"}) /\ e.log = c.log BY <1>b, <2>1 DEF Contexts, Keeps, Fields
    <2>3. {"blocks", "text", "think", "tools"} \cap {"held"} = {} OBVIOUS
    <2> QED BY <2>2, <2>3, FieldsGo
  <1>d. PICK calls \in Seq(Letters) : calls = Calls(c.held)
    <2>1. PICK t \in Seq(Letters) : t = c.held BY TypesOf
    <2> QED BY <2>1, CallsAre
  <1>e. r = FoldLeft(LAMBDA d, x : EmitSynthetic(d), e, calls) BY <1>a, <1>b, <1>d DEF SniffEnd
  <1> DEFINE n == Len(calls)
             V == {d \in Contexts : Goes(e, d, {"blocks"})}
             Step(d, x) == EmitSynthetic(d)
             G == [k \in 1 .. n |-> [d \in V |-> Step(d, calls[k])]]
             Is(f) == f = [s \in SUBSET DOMAIN calls |-> IF s = {} THEN e
                              ELSE Step(f[s \ {Max(s)}], calls[Max(s)])]
  <1>1. n \in Nat /\ DOMAIN calls = 1 .. n OBVIOUS
  <1>2. e \in V
    <2>1. e \in Contexts /\ Sound(e) BY <1>c, TypesOf DEF Goes
    <2> QED BY <2>1, Stays
  <1>3. ASSUME NEW k \in 1 .. n, NEW d \in V PROVE Step(d, calls[k]) \in V
    <2>1. Goes(e, d, {"blocks"}) /\ Sound(d) BY DEF Goes
    <2>2. PICK g : g = Step(d, calls[k]) /\ g = EmitSynthetic(d) OBVIOUS
    <2>3. Goes(d, g, {"blocks"}) BY <2>1, <2>2, SyntheticEmitted
    <2>4. Goes(e, g, {"blocks"}) BY <2>1, <2>3, GoesOn
    <2>5. g \in Contexts BY <2>3, TypesOf DEF Goes
    <2> HIDE DEF Step
    <2> QED BY <2>2, <2>4, <2>5
  <1> HIDE DEF V
  <1>4. G \in [1 .. n -> [V -> V]]
    <2> HIDE DEF Step
    <2> QED BY <1>3
  <1>4a. \A k \in 1 .. n, d \in V : G[k][d] = Step(d, calls[k]) BY DEF G
  <1>5. PICK f : FoldUpTo(f, n, V, e, G)
    <2> HIDE DEF n, G
    <2> QED BY <1>1, <1>2, <1>4, FoldExists
  <1>7. r = (CHOOSE g : Is(g))[DOMAIN calls] BY <1>e DEF SniffEnd, FoldLeft, MapThenFoldSet
  <1> HIDE DEF G, Step
  <1>6. Is(f)
    <2>1. f = [s \in SUBSET (1 .. n) |-> f[s]] BY <1>5 DEF FoldUpTo
    <2>2. ASSUME NEW s \in SUBSET (1 .. n), s # {}
          PROVE  f[s] = Step(f[s \ {Max(s)}], calls[Max(s)])
      <3>1. Max(s) \in 1 .. n
        <4>1. Max(s) \in s BY <1>1, <2>2, MaxOf
        <4> QED BY <4>1
      <3>2. f[s \ {Max(s)}] \in V /\ f[s] = G[Max(s)][f[s \ {Max(s)}]] BY <1>5, <2>2, <3>1 DEF FoldUpTo
      <3> QED BY <1>4a, <3>1, <3>2
    <2>3. f[{}] = e BY <1>5 DEF FoldUpTo
    <2> HIDE DEF n
    <2> QED BY <1>1, <2>1, <2>2, <2>3
  <1>8. PICK g : g = CHOOSE x : Is(x) OBVIOUS
  <1>9. Is(g)
    <2> HIDE DEF Is
    <2> QED BY <1>6, <1>8
  <1>10. PICK h : Unrolls(h, n, V, e, G) /\ h[n] = g[1 .. n]
    <2>1. DOMAIN g = SUBSET (1 .. n) /\ g[{}] = e BY <1>1, <1>9
    <2>2. ASSUME NEW s \in SUBSET (1 .. n), s # {}, g[s \ {Max(s)}] \in V
          PROVE  g[s] = G[Max(s)][g[s \ {Max(s)}]]
      <3>1. Max(s) \in 1 .. n
        <4>1. Max(s) \in s BY <1>1, <2>2, MaxOf
        <4> QED BY <4>1
      <3>2. g[s] = Step(g[s \ {Max(s)}], calls[Max(s)]) BY <1>1, <1>9, <2>2, <3>1
      <3> QED BY <1>4a, <2>2, <3>1, <3>2
    <2>3. \A s \in SUBSET (1 .. n) : s # {} /\ g[s \ {Max(s)}] \in V => g[s] = G[Max(s)][g[s \ {Max(s)}]] BY <2>2
    <2>4. FoldsUp(g, n, V, e, G) BY <2>1, <2>3 DEF FoldsUp
    <2> HIDE DEF n, Is
    <2> QED BY <1>1, <1>2, <1>4, <2>4, FoldUnrolls
  <1>11. r = h[n] BY <1>1, <1>7, <1>8, <1>10
  <1>12. r \in V
    <2>1. n \in 0 .. n BY <1>1
    <2> HIDE DEF n
    <2> QED BY <1>10, <1>11, <2>1 DEF Unrolls
  <1>13. Goes(e, r, {"blocks"}) BY <1>12 DEF V
  <1> QED BY <1>c, <1>13, GoesOn

LEMMA Ordered ==
    ASSUME NEW S
    PROVE  InOrder(S) \in Seq(ToolIds)
  <1>1. PICK m \in Nat : ToolIds = 1 .. m
    <2>1. Cardinality(ToolIds) \in Nat BY ToolsAssumption, FS_CardinalityType
    <2> QED BY <2>1, ToolsAssumption
  <1>2. PICK ss : ss = [t \in ToolIds |-> IF t \in S THEN <<t>> ELSE <<>>] OBVIOUS
  <1>3. ss \in Seq(Seq(ToolIds))
    <2>1. \A t \in ToolIds : <<t>> \in Seq(ToolIds) OBVIOUS
    <2>2. << >> \in Seq(ToolIds) BY EmptySeq
    <2>3. \A t \in ToolIds : ss[t] \in Seq(ToolIds) BY <1>2, <2>1, <2>2
    <2>4. ss = [t \in 1 .. m |-> ss[t]] BY <1>1, <1>2
    <2> HIDE <1>2
    <2> QED BY <1>1, <2>3, <2>4, SeqDef
  <1>4. PICK f : Joined(f, ss, ToolIds) /\ FlattenSeq(ss) = f[Len(ss)] BY <1>3, FlattenJoins
  <1>5. Len(ss) \in 0 .. Len(ss)
    <2>1. Len(ss) \in Nat BY <1>3
    <2> QED BY <2>1
  <1>6. FlattenSeq(ss) \in Seq(ToolIds) BY <1>4, <1>5 DEF Joined
  <1> QED BY <1>2, <1>6 DEF InOrder

AllCalled(e, ids) == FoldLeft(LAMBDA d, t : EmitCall(d, t, <<>>), e, ids)

LEMMA CallsMade ==
    ASSUME NEW e, Sound(e), NEW ids \in Seq(ToolIds), NEW r, r = AllCalled(e, ids)
    PROVE  Goes(e, r, {"blocks", "tools"})
  <1> DEFINE n == Len(ids)
             V == {d \in Contexts : Goes(e, d, {"blocks", "tools"})}
             Step(d, t) == EmitCall(d, t, <<>>)
             G == [k \in 1 .. n |-> [d \in V |-> Step(d, ids[k])]]
             Is(f) == f = [s \in SUBSET DOMAIN ids |-> IF s = {} THEN e
                              ELSE Step(f[s \ {Max(s)}], ids[Max(s)])]
  <1>1. n \in Nat /\ DOMAIN ids = 1 .. n OBVIOUS
  <1>2. e \in V
    <2>1. e \in Contexts BY TypesOf
    <2> QED BY <2>1, Stays
  <1>3. ASSUME NEW k \in 1 .. n, NEW d \in V PROVE Step(d, ids[k]) \in V
    <2>1. Goes(e, d, {"blocks", "tools"}) /\ Sound(d) BY DEF Goes
    <2>2. ids[k] \in ToolIds BY ElementOfSeq
    <2>3. PICK t \in ToolIds, s \in Seq(Letters) : t = ids[k] /\ s = <<>> BY <2>2, EmptySeq
    <2>4. PICK g : g = Step(d, ids[k]) /\ g = EmitCall(d, t, s) BY <2>3
    <2>5. Goes(d, g, {"blocks", "tools"}) BY <2>1, <2>4, CallEmitted
    <2>6. Goes(e, g, {"blocks", "tools"}) BY <2>1, <2>5, GoesOn
    <2>7. g \in Contexts BY <2>5, TypesOf DEF Goes
    <2> HIDE DEF Step
    <2> QED BY <2>4, <2>6, <2>7
  <1> HIDE DEF V
  <1>4. G \in [1 .. n -> [V -> V]]
    <2> HIDE DEF Step
    <2> QED BY <1>3
  <1>4a. \A k \in 1 .. n, d \in V : G[k][d] = Step(d, ids[k]) BY DEF G
  <1>5. PICK f : FoldUpTo(f, n, V, e, G)
    <2> HIDE DEF n, G
    <2> QED BY <1>1, <1>2, <1>4, FoldExists
  <1>7. r = (CHOOSE g : Is(g))[DOMAIN ids] BY DEF AllCalled, FoldLeft, MapThenFoldSet
  <1> HIDE DEF G, Step
  <1>6. Is(f)
    <2>1. f = [s \in SUBSET (1 .. n) |-> f[s]] BY <1>5 DEF FoldUpTo
    <2>2. ASSUME NEW s \in SUBSET (1 .. n), s # {}
          PROVE  f[s] = Step(f[s \ {Max(s)}], ids[Max(s)])
      <3>1. Max(s) \in 1 .. n
        <4>1. Max(s) \in s BY <1>1, <2>2, MaxOf
        <4> QED BY <4>1
      <3>2. f[s \ {Max(s)}] \in V /\ f[s] = G[Max(s)][f[s \ {Max(s)}]] BY <1>5, <2>2, <3>1 DEF FoldUpTo
      <3> QED BY <1>4a, <3>1, <3>2
    <2>3. f[{}] = e BY <1>5 DEF FoldUpTo
    <2> HIDE DEF n
    <2> QED BY <1>1, <2>1, <2>2, <2>3
  <1>8. PICK g : g = CHOOSE x : Is(x) OBVIOUS
  <1>9. Is(g)
    <2> HIDE DEF Is
    <2> QED BY <1>6, <1>8
  <1>10. PICK h : Unrolls(h, n, V, e, G) /\ h[n] = g[1 .. n]
    <2>1. DOMAIN g = SUBSET (1 .. n) /\ g[{}] = e BY <1>1, <1>9
    <2>2. ASSUME NEW s \in SUBSET (1 .. n), s # {}, g[s \ {Max(s)}] \in V
          PROVE  g[s] = G[Max(s)][g[s \ {Max(s)}]]
      <3>1. Max(s) \in 1 .. n
        <4>1. Max(s) \in s BY <1>1, <2>2, MaxOf
        <4> QED BY <4>1
      <3>2. g[s] = Step(g[s \ {Max(s)}], ids[Max(s)]) BY <1>1, <1>9, <2>2, <3>1
      <3> QED BY <1>4a, <2>2, <3>1, <3>2
    <2>3. \A s \in SUBSET (1 .. n) : s # {} /\ g[s \ {Max(s)}] \in V => g[s] = G[Max(s)][g[s \ {Max(s)}]] BY <2>2
    <2>4. FoldsUp(g, n, V, e, G) BY <2>1, <2>3 DEF FoldsUp
    <2> HIDE DEF n, Is
    <2> QED BY <1>1, <1>2, <1>4, <2>4, FoldUnrolls
  <1>11. r = h[n] BY <1>1, <1>7, <1>8, <1>10
  <1>12. r \in V
    <2>1. n \in 0 .. n BY <1>1
    <2> HIDE DEF n
    <2> QED BY <1>10, <1>11, <2>1 DEF Unrolls
  <1> QED BY <1>12 DEF V

LEMMA CallsFinished ==
    ASSUME NEW c, Sound(c), NEW d, d = FinishCalls(c)
    PROVE  Goes(c, d, {"blocks", "tools", "acc"})
  <1>1. c \in Contexts BY TypesOf
  <1>2. PICK u \in BOOLEAN, v \in BOOLEAN : u = FALSE /\ v = TRUE OBVIOUS
  <1>3. PICK acc \in Calling : acc = NoCalls
    <2>1. << >> \in Seq(Letters) BY EmptySeq
    <2> QED BY <2>1 DEF Calling, NoCalls, NoCall
  <1>4. CASE StopReason(c) = "refusal"
    <2>1. d = [c EXCEPT !.bad = u] BY <1>2, <1>4 DEF FinishCalls
    <2>2. d \in Contexts /\ Keeps(c, d, {}) /\ d.log = c.log BY <1>1, <2>1 DEF Contexts, Keeps, Fields
    <2>3. Goes(c, d, {}) BY <2>2, FieldsGo
    <2> QED BY <2>3 DEF Goes, Keeps
  <1>5. CASE StopReason(c) # "refusal" /\ c.bad
    <2>1. d = c BY <1>5 DEF FinishCalls
    <2> QED BY <2>1, Stays
  <1>6. CASE StopReason(c) # "refusal" /\ ~c.bad /\ Truncated(c.acc)
    <2>1. PICK e : e = [c EXCEPT !.bad = v, !.acc = acc] OBVIOUS
    <2>2. e \in Contexts /\ Keeps(c, e, {"acc"}) /\ e.log = c.log BY <1>1, <2>1 DEF Contexts, Keeps, Fields
    <2>3. Goes(c, e, {"acc"})
      <3>1. {"blocks", "text", "think", "tools"} \cap {"acc"} = {} OBVIOUS
      <3> QED BY <2>2, <3>1, FieldsGo
    <2>4. PICK w \in Stops : w = "error" BY DEF Stops
    <2>5. d = SetStop(e, w) BY <1>2, <1>3, <1>6, <2>1, <2>4 DEF FinishCalls
    <2>6. Goes(e, d, {}) BY <2>3, <2>5, StopGoes DEF Goes
    <2> QED BY <2>3, <2>6, GoesOn
  <1>7. CASE StopReason(c) # "refusal" /\ ~c.bad /\ ~Truncated(c.acc)
    <2>1. PICK e : e = [c EXCEPT !.acc = acc] OBVIOUS
    <2>2. e \in Contexts /\ Keeps(c, e, {"acc"}) /\ e.log = c.log BY <1>1, <2>1 DEF Contexts, Keeps, Fields
    <2>3. Goes(c, e, {"acc"})
      <3>1. {"blocks", "text", "think", "tools"} \cap {"acc"} = {} OBVIOUS
      <3> QED BY <2>2, <3>1, FieldsGo
    <2>4. PICK ids \in Seq(ToolIds) : ids = Recovered(c.acc) BY Ordered DEF Recovered
    <2>5. d = AllCalled(e, ids) BY <1>3, <1>7, <2>1, <2>4 DEF FinishCalls, AllCalled
    <2>6. Goes(e, d, {"blocks", "tools"}) BY <2>3, <2>5, CallsMade DEF Goes
    <2> QED BY <2>3, <2>6, GoesOn
  <1> QED BY <1>4, <1>5, <1>6, <1>7

-----------------------------------------------------------------------------
(* The end of a reply, and its beginning.                                   *)

(* In a log, a thinking block that has text is signed once when it is stopped. *)
SignedLog(log) ==
    \A i \in At(log, "stop") :
        log[i].what = "thinking" /\ ThinkingText(log, log[i].i) # {} => \E x : Signatures(log, log[i].i) = {x}

LEMMA CoreSigned ==
    ASSUME NEW c, Core(c)
    PROVE  SignedLog(c.log)
  <1> SUFFICES ASSUME NEW j \in At(c.log, "stop"), c.log[j].what = "thinking",
                      ThinkingText(c.log, c.log[j].i) # {}
               PROVE  \E x : Signatures(c.log, c.log[j].i) = {x}
    BY DEF SignedLog
  <1>1. PICK b : b = c.log[j].i OBVIOUS
  <1>2. b \in 1 .. Len(c.blocks) BY <1>1 DEF Core, Running, Numbered
  <1>3. c.blocks[b].kind = "thinking" BY <1>1 DEF Core, StopsNamed
  <1>4. j \in Of(c.log, "stop", b) BY <1>1 DEF Of
  <1>5. b \notin OpenOf(c) BY <1>2, <1>4 DEF Core, Running, StoppedOnce
  <1>6. OnceSigned(c.log, b) BY <1>2, <1>3, <1>5 DEF Core, ClosedSigned, OpenOf
  <1> QED BY <1>1, <1>6 DEF OnceSigned

LEMMA SignedLonger ==
    ASSUME NEW log \in Seq(LiveEvents), SignedLog(log), NEW x \in LiveEvents, x.e \notin {"stop", "delta"},
           NEW more, more = Append(log, x)
    PROVE  SignedLog(more)
  <1>1. Longer(log, x, more) BY MarksAppend
  <1>2. At(more, "stop") = At(log, "stop") /\ (\A j \in At(log, "stop") : more[j] = log[j])
        /\ \A b : ThinkingText(more, b) = ThinkingText(log, b) /\ Signatures(more, b) = Signatures(log, b)
    BY <1>1 DEF Longer
  <1> SUFFICES ASSUME NEW j \in At(more, "stop"), more[j].what = "thinking",
                      ThinkingText(more, more[j].i) # {}
               PROVE  \E y : Signatures(more, more[j].i) = {y}
    BY DEF SignedLog
  <1>3. PICK b : b = log[j].i OBVIOUS
  <1>4. j \in At(log, "stop") /\ more[j] = log[j] BY <1>2
  <1>5. log[j].what = "thinking" /\ more[j].i = b BY <1>3, <1>4
  <1>6. ThinkingText(log, b) # {} BY <1>2, <1>5
  <1>7. \E y : Signatures(log, b) = {y} BY <1>3, <1>4, <1>5, <1>6 DEF SignedLog
  <1> QED BY <1>2, <1>5, <1>7

(* The log is complete. *)
Ended(c, d) ==
    /\ d \in Contexts /\ HasPlaces(d) /\ InProtocol(d.log) /\ SignedLog(d.log) /\ d.credits = c.credits

LEMMA ErrorEnds ==
    ASSUME NEW c, Sound(c), NEW what \in Whats, NEW d, d = ErrorEvents(c, what)
    PROVE  Ended(c, d)
  <1>1. PICK e : e = CloseThinking(c) OBVIOUS
  <1>2. Goes(c, e, {"blocks"}) /\ Opened(e, "thinking") = {} BY <1>1, ThinkingClosed
  <1>3. PICK kinds : kinds = {"text", "thinking", "redacted"} OBVIOUS
  <1>4. PICK g : g = StopKinds(e, kinds) OBVIOUS
  <1>5. Core(g) /\ Keeps(e, g, {"blocks"})
    <2>1. Core(e) /\ Mute(e) BY <1>2 DEF Goes, Sound, Mute
    <2> QED BY <1>4, <2>1, KindsStopped
  <1>6. PICK x : x = Sse("error", 0, what, <<>>) OBVIOUS
  <1>7. x \in LiveEvents /\ x.e = "error"
    <2>1. << >> \in Seq(Letters) BY EmptySeq
    <2> QED BY <1>6, <2>1 DEF Sse, LiveEvents
  <1>8. d = Send(g, x) BY <1>1, <1>3, <1>4, <1>6 DEF ErrorEvents
  <1>9. g \in Contexts /\ HasPlaces(g) BY <1>5 DEF Core
  <1>10. d \in Contexts /\ Keeps(g, d, {}) /\ d.log = Append(g.log, x) BY <1>7, <1>8, <1>9, LogSent
  <1>11. HasPlaces(d) BY <1>9, <1>10, SameShape
  <1>12. g.log \in Seq(LiveEvents) /\ Len(g.blocks) \in Nat
    <2>1. g.log \in Seq(LiveEvents) /\ g.blocks \in Seq(LiveBlocks) BY <1>9 DEF Contexts
    <2>2. Len(g.blocks) \in Nat BY <2>1
    <2> QED BY <2>1, <2>2
  <1>13. PICK log, n, K, open :
            log \in Seq(LiveEvents) /\ n \in Nat /\ log = g.log /\ n = Len(g.blocks) /\ K = KindsIn(g) /\ open = OpenOf(g)
    BY <1>12
  <1> log \in Seq(LiveEvents) /\ n \in Nat BY <1>13
  <1>14. InProtocol(Append(log, x))
    <2>1. Running(log, n, K, open) BY <1>5, <1>13 DEF Core
    <2> QED BY <1>7, <2>1, RunningFails
  <1>15. SignedLog(Append(log, x))
    <2>1. SignedLog(log) BY <1>5, <1>13, CoreSigned
    <2>2. x.e \notin {"stop", "delta"} BY <1>7
    <2> QED BY <1>7, <2>1, <2>2, SignedLonger
  <1>16. d.credits = c.credits BY <1>2, <1>5, <1>10 DEF Goes, Keeps, Fields
  <1> QED BY <1>10, <1>11, <1>13, <1>14, <1>15, <1>16 DEF Ended

LEMMA MessageConcluded ==
    ASSUME NEW c, Sound(c), Mute(c), NEW d, d = EndMessage(c)
    PROVE  Ended(c, d)
  <1>1. PICK kinds : kinds = {"text", "thinking", "redacted", "tool"} OBVIOUS
  <1>2. PICK g : g = StopKinds(c, kinds) OBVIOUS
  <1>3. Core(g) /\ Keeps(c, g, {"blocks"}) /\ HasStopped(c, g, OfKinds(c, kinds))
    <2>1. Core(c) BY DEF Sound
    <2> QED BY <1>2, <2>1, KindsStopped
  <1>4. OpenOf(g) = {}
    <2>1. OpenOf(c) \subseteq OfKinds(c, kinds)
      <3>1. \A b \in 1 .. Len(c.blocks) : c.blocks[b].kind \in BlockKinds
        <4>1. c.blocks \in Seq(LiveBlocks) BY TypesOf
        <4>2. \A b \in 1 .. Len(c.blocks) : c.blocks[b] \in LiveBlocks BY <4>1, ElementOfSeq
        <4> QED BY <4>2 DEF LiveBlocks
      <3> QED BY <1>1, <3>1 DEF OpenOf, OfKinds, BlockKinds
    <2> QED BY <1>3, <2>1 DEF HasStopped
  <1>5. PICK x : x = Sse("message_delta", 0, StopReason(c), <<>>) OBVIOUS
  <1>6. PICK y : y = Sse("message_stop", 0, "none", <<>>) OBVIOUS
  <1>7. x \in LiveEvents /\ x.e = "message_delta" /\ y \in LiveEvents /\ y.e = "message_stop"
    <2>1. << >> \in Seq(Letters) BY EmptySeq
    <2>2. c.stop \in Stops BY TypesOf
    <2>3. StopReason(c) \in Whats BY <2>2 DEF StopReason, Whats
    <2>4. "none" \in Whats BY DEF Whats, Stops
    <2> QED BY <1>5, <1>6, <2>1, <2>3, <2>4 DEF Sse, LiveEvents
  <1>8. g \in Contexts /\ HasPlaces(g) BY <1>3 DEF Core
  <1>9. g.log \in Seq(LiveEvents) /\ Len(g.blocks) \in Nat
    <2>1. g.log \in Seq(LiveEvents) /\ g.blocks \in Seq(LiveBlocks) BY <1>8 DEF Contexts
    <2>2. Len(g.blocks) \in Nat BY <2>1
    <2> QED BY <2>1, <2>2
  <1>10. PICK log, n, K :
            log \in Seq(LiveEvents) /\ n \in Nat /\ log = g.log /\ n = Len(g.blocks) /\ K = KindsIn(g)
    BY <1>9
  <1> log \in Seq(LiveEvents) /\ n \in Nat BY <1>10
  <1>11. PICK part \in Seq(LiveEvents) : part = Append(log, x) BY <1>7, AppendProperties
  <1>12. PICK full \in Seq(LiveEvents) : full = Append(part, y) BY <1>7, AppendProperties
  <1>13. log \o <<x, y>> = full BY <1>7, <1>11, <1>12, ConcatSome
  <1>14. d = [g EXCEPT !.log = full] BY <1>1, <1>2, <1>5, <1>6, <1>10, <1>13 DEF EndMessage
  <1>15. d \in Contexts /\ Keeps(g, d, {}) /\ d.log = full BY <1>8, <1>14 DEF Contexts, Keeps, Fields
  <1>16. HasPlaces(d) BY <1>8, <1>15, SameShape
  <1>17. InProtocol(full)
    <2>1. Running(log, n, K, {}) BY <1>3, <1>4, <1>10 DEF Core
    <2> QED BY <1>7, <1>11, <1>12, <2>1, RunningEnds
  <1>18. SignedLog(full)
    <2>1. SignedLog(log) BY <1>3, <1>10, CoreSigned
    <2>2. x.e \notin {"stop", "delta"} /\ y.e \notin {"stop", "delta"} BY <1>7
    <2>3. SignedLog(part) BY <1>7, <1>11, <2>1, <2>2, SignedLonger
    <2> QED BY <1>7, <1>12, <2>2, <2>3, SignedLonger
  <1>19. d.credits = c.credits BY <1>3, <1>15 DEF Keeps, Fields
  <1> QED BY <1>15, <1>16, <1>17, <1>18, <1>19 DEF Ended

LEMMA NativeStopGoes ==
    ASSUME NEW c, Sound(c), NEW d, d = ApplyNativeStop(c)
    PROVE  Goes(c, d, {})
  <1>1. CASE c.native \in {"max_tokens", "model_context_window_exceeded"}
    <2>1. PICK w \in Stops : w = c.native BY <1>1 DEF Stops, CutShort
    <2>2. d = SetStop(c, w) BY <1>1, <2>1 DEF ApplyNativeStop
    <2> QED BY <2>2, StopGoes
  <1>2. CASE c.native \notin {"max_tokens", "model_context_window_exceeded"} /\ c.native = "none" /\ c.full
    <2>1. PICK w \in Stops : w = "model_context_window_exceeded" BY DEF Stops, CutShort
    <2>2. d = SetStop(c, w) BY <1>2, <2>1 DEF ApplyNativeStop
    <2> QED BY <2>2, StopGoes
  <1>3. CASE c.native \notin {"max_tokens", "model_context_window_exceeded"} /\ ~(c.native = "none" /\ c.full)
    <2>1. d = c BY <1>3 DEF ApplyNativeStop
    <2> QED BY <2>1, Stays
  <1> QED BY <1>1, <1>2, <1>3

LEMMA Concluded0 ==
    ASSUME NEW c, Sound(c), Mute(c), NEW d, d = Conclude(c)
    PROVE  Ended(c, d)
  <1>1. PICK e : e = ApplyNativeStop(c) OBVIOUS
  <1>2. Sound(e) /\ Mute(e) /\ e.credits = c.credits
    <2>1. Goes(c, e, {}) BY <1>1, NativeStopGoes
    <2> QED BY <2>1 DEF Goes, Keeps, Fields
  <1>3. PICK w1 \in Whats, w2 \in Whats, w3 \in Whats, w4 \in Whats :
           w1 = "refused" /\ w2 = "tool_json" /\ w3 = "flood" /\ w4 = "no_output"
    BY DEF Whats
  <1>4. CASE d = ErrorEvents(c, w1) \/ d = ErrorEvents(c, w2) \/ d = ErrorEvents(c, w3)
    BY <1>4, ErrorEnds
  <1>5. CASE d = ErrorEvents(e, w4)
    <2>1. Ended(e, d) BY <1>2, <1>5, ErrorEnds
    <2> QED BY <1>2, <2>1 DEF Ended
  <1>6. CASE d = EndMessage(e)
    <2>1. Ended(e, d) BY <1>2, <1>6, MessageConcluded
    <2> QED BY <1>2, <2>1 DEF Ended
  <1> QED BY <1>1, <1>3, <1>4, <1>5, <1>6 DEF Conclude

LEMMA ReplyEnds ==
    ASSUME NEW c, NEW f, Attentive(c, f), NEW d, d = FinalEvents(c)
    PROVE  Ended(c, d)
  <1>1. PICK e : e = EndNative(c) OBVIOUS
  <1>2. Attentive(e, f) /\ Goes(c, e, {"blocks"}) /\ (~e.inTag => Opened(e, "thinking") = {}) BY <1>1, NativeEnded
  <1>3. PICK g : g = FlushEnd(e) OBVIOUS
  <1>4. Sound(g) /\ Mute(g) /\ g.credits = e.credits BY <1>2, <1>3, BufferEnded
  <1>5. PICK h : h = SniffEnd(g) OBVIOUS
  <1>6. Goes(g, h, {"blocks", "held"}) BY <1>4, <1>5, Sniffed
  <1>7. PICK k : k = FinishCalls(h) OBVIOUS
  <1>8. Goes(h, k, {"blocks", "tools", "acc"}) BY <1>6, <1>7, CallsFinished DEF Goes
  <1>9. Sound(k) /\ Mute(k) /\ k.credits = c.credits
    BY <1>2, <1>4, <1>6, <1>8 DEF Goes, Keeps, Fields
  <1>10. d = Conclude(k) BY <1>1, <1>3, <1>5, <1>7 DEF FinalEvents
  <1>11. Ended(k, d) BY <1>9, <1>10, Concluded0
  <1> QED BY <1>9, <1>11 DEF Ended

LEMMA ReplyBegins ==
    ASSUME NEW thinks \in BOOLEAN, NEW f, f = "tags" => thinks, NEW d, d = InitialEvents(NewContext(thinks))
    PROVE  /\ Attentive(d, f) /\ d.credits = 0 /\ (\A t \in ToolIds : d.tools[t] = 0) /\ d.thinks = thinks
  <1>1. PICK c : c = NewContext(thinks) OBVIOUS
  <1>2. c \in Contexts
    <2>1. << >> \in Seq(Letters) /\ << >> \in Seq(LiveEvents) /\ << >> \in Seq(LiveBlocks) BY EmptySeq
    <2>2. NoCalls \in Calling BY <2>1 DEF Calling, NoCalls, NoCall
    <2>3. "none" \in Stops /\ "none" \in Natives BY DEF Stops, Natives
    <2> QED BY <1>1, <2>1, <2>2, <2>3 DEF NewContext, Contexts
  <1>3. /\ c.blocks = <<>> /\ c.log = <<>> /\ c.text = 0 /\ c.think = 0 /\ c.thinks = thinks /\ ~c.inTag
        /\ ~c.extracted /\ c.buf = <<>> /\ c.held = <<>> /\ c.acc = NoCalls /\ c.credits = 0
        /\ (\A t \in ToolIds : c.tools[t] = 0)
    BY <1>1 DEF NewContext
  <1>4. PICK x : x = Sse("message_start", 0, "none", <<>>) OBVIOUS
  <1>5. x \in LiveEvents /\ x.e = "message_start"
    <2>1. << >> \in Seq(Letters) /\ "none" \in Whats BY EmptySeq DEF Whats, Stops
    <2> QED BY <1>4, <2>1 DEF Sse, LiveEvents
  <1>6. PICK e : e = Send(c, x) OBVIOUS
  <1>7. e \in Contexts /\ Keeps(c, e, {}) /\ e.log = Append(c.log, x) BY <1>2, <1>5, <1>6, LogSent
  <1>8. /\ e.blocks = <<>> /\ e.text = 0 /\ e.think = 0 /\ e.thinks = thinks /\ ~e.inTag
        /\ ~e.extracted /\ e.buf = <<>> /\ e.held = <<>> /\ e.acc = NoCalls /\ e.credits = 0
        /\ (\A t \in ToolIds : e.tools[t] = 0)
    BY <1>3, <1>7 DEF Keeps, Fields
  <1>9. PICK log : log = <<x>> /\ e.log = log
    <2>1. << >> \in Seq(LiveEvents) BY EmptySeq
    <2>2. Append(<< >>, x) = <<x>> BY <1>5, <2>1
    <2> QED BY <1>3, <1>7, <2>2
  <1>10. Len(e.blocks) = 0 /\ 1 .. 0 = {}
    <2>1. Len(<< >>) = 0 BY EmptySeq
    <2> QED BY <1>8, <2>1
  <1>11. OpenOf(e) = {} /\ \A k : Opened(e, k) = {} BY <1>10 DEF OpenOf, Opened
  <1>12. Core(e)
    <2>1. HasPlaces(e) BY <1>8, <1>10 DEF HasPlaces
    <2>2. Running(log, 0, KindsIn(e), {})
      <3>1. PICK K : K = KindsIn(e) OBVIOUS
      <3>2. Running(<<x>>, 0, K, {}) BY <1>5, RunningBegins
      <3> QED BY <1>9, <3>1, <3>2
    <2>3. At(log, "stop") = {}
      <3>1. DOMAIN log = {1} /\ log[1] = x BY <1>9
      <3> QED BY <1>5, <3>1 DEF At
    <2>4. StopsNamed(e) BY <1>9, <2>3 DEF StopsNamed
    <2>5. ClosedSigned(e) BY <1>10 DEF ClosedSigned
    <2> QED BY <1>7, <1>9, <1>10, <1>11, <2>1, <2>2, <2>4, <2>5 DEF Core
  <1>13. Sound(e) BY <1>11, <1>12 DEF Sound, Fresh
  <1>14. << >> \in Seq(Plain) BY EmptySeq
  <1>15. CASE thinks
    <2>1. d = e BY <1>1, <1>4, <1>6, <1>3, <1>15 DEF InitialEvents
    <2>2. Attentive(e, f) BY <1>8, <1>11, <1>13, <1>14, <1>15 DEF Attentive, Tagged
    <2> QED BY <1>8, <2>1, <2>2
  <1>16. CASE ~thinks
    <2>1. d = StartText(e) BY <1>1, <1>4, <1>6, <1>3, <1>16 DEF InitialEvents
    <2>2. Goes(e, d, {"blocks", "text"}) BY <1>11, <1>13, <2>1, TextStarted
    <2>3. /\ d.thinks = thinks /\ ~d.inTag /\ ~d.extracted /\ d.buf = <<>> /\ d.held = <<>> /\ d.acc = NoCalls
          /\ d.credits = 0 /\ d.tools = e.tools
      BY <1>8, <2>2 DEF Goes, Keeps, Fields
    <2>4. Attentive(d, f) BY <1>14, <1>16, <2>2, <2>3 DEF Attentive, Tagged, Goes
    <2> QED BY <1>8, <2>3, <2>4
  <1> QED BY <1>15, <1>16

-----------------------------------------------------------------------------
(* The exchange: what the two decoders and the settlement know of it.       *)

(* What the whole answer has collected, as far as it is counted. *)
Counted(w, n) == "credits" \in DOMAIN w /\ w.credits = n

LEMMA CollectCounts ==
    ASSUME NEW w, NEW n \in Nat, Counted(w, n), NEW f, NEW ev, EventOf(f, ev), NEW v, v = Collect(w, ev)
    PROVE  Counted(v, IF ev.e = "metering" THEN n + 1 ELSE n)
  <1>1. CASE ev.e = "text"
    <2>1. v = [w EXCEPT !.text = @ \o ev.s] BY <1>1 DEF Collect
    <2> QED BY <1>1, <2>1 DEF Counted
  <1>2. CASE ev.e = "reasoning"
    <2>1. v = CollectReasoning(w, ev) BY <1>2 DEF Collect
    <2> QED BY <1>2, <2>1 DEF Counted, CollectReasoning
  <1>3. CASE ev.e = "tool"
    <2>1. v = CollectTool(w, ev) BY <1>3 DEF Collect
    <2>2. PICK d : d = [w EXCEPT !.hasTool = TRUE, !.acc = Pushed(@, ev)] OBVIOUS
    <2>3. Counted(d, n) BY <2>2 DEF Counted
    <2>4. v = IF Invalid(w.acc, ev) THEN [d EXCEPT !.bad = TRUE]
              ELSE IF ev.stop THEN [d EXCEPT !.calls = Append(@, ev.id)] ELSE d
      BY <2>1, <2>2 DEF CollectTool
    <2> QED BY <1>3, <2>3, <2>4 DEF Counted
  <1>4. CASE ev.e = "metadata"
    <2>1. v = CollectMetadata(w, ev) BY <1>4 DEF Collect
    <2> QED BY <1>4, <2>1 DEF Counted, CollectMetadata
  <1>5. CASE ev.e = "context"
    <2>1. v = [w EXCEPT !.full = TRUE] BY <1>5 DEF Collect
    <2> QED BY <1>5, <2>1 DEF Counted
  <1>6. CASE ev.e = "metering"
    <2>1. v = [w EXCEPT !.credits = @ + 1] BY <1>6 DEF Collect
    <2> QED BY <1>6, <2>1 DEF Counted
  <1>7. CASE ev.e = "too_long"
    <2>1. v = [w EXCEPT !.stop = "max_tokens"] BY <1>7 DEF Collect
    <2> QED BY <1>7, <2>1 DEF Counted
  <1> QED BY <1>1, <1>2, <1>3, <1>4, <1>5, <1>6, <1>7 DEF EventOf

OneUsage(all, n) == \E status : all = <<Usage(status, n)>>

(* While the stream is open its context is sound, and what is left of it is complete. *)
ReplyInv ==
    /\ flavour \in Flavours /\ arrived \in 0 .. MaxEvents[flavour] /\ over \subseteq ToolIds
    /\ phase \in {"open", "ended", "gone"}
    /\ live \in Contexts /\ HasPlaces(live) /\ InProtocol(live.log) /\ SignedLog(live.log)
    /\ Counted(whole, live.credits) /\ snapshot = live.credits
    /\ DOMAIN charged = {"live", "whole"}
    /\ phase = "open" =>
          /\ Attentive(live, flavour) /\ records = <<>>
          /\ flavour = "tags" => \A t \in ToolIds : live.tools[t] # 0 => t \in over
    /\ phase # "open" => OneUsage(records, live.credits) /\ charged.whole = live.credits
    /\ phase = "gone" => charged.live = live.credits

LEMMA HeardComplete ==
    ASSUME NEW c, NEW f, Attentive(c, f)
    PROVE  c \in Contexts /\ HasPlaces(c) /\ InProtocol(c.log) /\ SignedLog(c.log)
  <1>1. Core(c) /\ c \in Contexts BY TypesOf DEF Attentive, Sound
  <1>2. HasPlaces(c) /\ Running(c.log, Len(c.blocks), KindsIn(c), OpenOf(c)) BY <1>1 DEF Core
  <1>3. c.log \in Seq(LiveEvents) /\ Len(c.blocks) \in Nat
    <2>1. c.log \in Seq(LiveEvents) /\ c.blocks \in Seq(LiveBlocks) BY <1>1 DEF Contexts
    <2> QED BY <2>1
  <1>4. PICK log, n, K, open :
            log \in Seq(LiveEvents) /\ n \in Nat /\ log = c.log /\ n = Len(c.blocks) /\ K = KindsIn(c) /\ open = OpenOf(c)
    BY <1>3
  <1> log \in Seq(LiveEvents) /\ n \in Nat BY <1>4
  <1>5. InProtocol(log) BY <1>2, <1>4, RunningInProtocol
  <1> QED BY <1>1, <1>2, <1>4, <1>5, CoreSigned

LEMMA ReplyInitially == ReplyInit => ReplyInv
  <1> SUFFICES ASSUME ReplyInit PROVE ReplyInv OBVIOUS
  <1>1. PICK thinks \in BOOLEAN :
            /\ flavour = "tags" => thinks
            /\ live = InitialEvents(NewContext(thinks)) /\ whole = NewCollection(thinks)
    BY DEF ReplyInit
  <1>2. Attentive(live, flavour) /\ live.credits = 0 /\ \A t \in ToolIds : live.tools[t] = 0
    BY <1>1, ReplyBegins
  <1>3. live \in Contexts /\ HasPlaces(live) /\ InProtocol(live.log) /\ SignedLog(live.log)
    BY <1>2, HeardComplete
  <1>4. Counted(whole, 0) BY <1>1 DEF NewCollection, Counted
  <1>5. /\ flavour \in Flavours /\ arrived = 0 /\ over = {} /\ phase = "open"
        /\ snapshot = 0 /\ records = <<>> /\ charged = [live |-> 0, whole |-> 0]
    BY DEF ReplyInit
  <1>6. arrived \in 0 .. MaxEvents[flavour] BY <1>5, EventsAssumption
  <1>7. DOMAIN charged = {"live", "whole"} BY <1>5
  <1> QED BY <1>2, <1>3, <1>4, <1>5, <1>6, <1>7 DEF ReplyInv

LEMMA ArriveKeeps ==
    ASSUME ReplyInv, Arrive
    PROVE  ReplyInv'
  <1>1. /\ phase = "open" /\ arrived < MaxEvents[flavour] /\ arrived' = arrived + 1 /\ snapshot' = live'.credits
        /\ UNCHANGED <<flavour, answer, phase, records, charged>>
    BY DEF Arrive
  <1>2. PICK ev \in Events(flavour) :
          /\ ev.e = "tool" => ev.id \notin over
          /\ live' = Process(live, ev) /\ whole' = Collect(whole, ev)
          /\ over' = IF ev.e = "tool" /\ ev.stop THEN over \cup {ev.id} ELSE over
    BY DEF Arrive
  <1>3. EventOf(flavour, ev)
    <2>1. flavour \in {"tags", "plain", "native", "tools", "ends"} BY EventsAssumption DEF ReplyInv
    <2> QED BY <2>1, EventsAre
  <1>4. /\ Attentive(live, flavour) /\ records = <<>> /\ live \in Contexts
        /\ flavour = "tags" => \A t \in ToolIds : live.tools[t] # 0 => t \in over
    BY <1>1 DEF ReplyInv
  <1>5. ev.e = "tool" => ev.id \in ToolIds /\ (flavour = "tags" => ev.stop)
    BY <1>3 DEF EventOf, ToolCalls
  <1>6. flavour = "tags" /\ ev.e = "tool" => live.tools[ev.id] = 0 BY <1>2, <1>4, <1>5
  <1>7. Moves(live, live', flavour, ev) BY <1>2, <1>3, <1>4, <1>6, EventHeard
  <1>8. live' \in Contexts /\ HasPlaces(live') /\ InProtocol(live'.log) /\ SignedLog(live'.log)
    BY <1>7, HeardComplete DEF Moves
  <1>9. Counted(whole', live'.credits)
    <2>1. live.credits \in Nat BY <1>4 DEF Contexts
    <2>2. PICK n \in Nat : n = live.credits BY <2>1
    <2>3. Counted(whole, n) BY <2>2 DEF ReplyInv
    <2>4. Counted(whole', IF ev.e = "metering" THEN n + 1 ELSE n) BY <1>2, <1>3, <2>3, CollectCounts
    <2> QED BY <1>7, <2>2, <2>4 DEF Moves
  <1>10. over' \subseteq ToolIds BY <1>2, <1>5 DEF ReplyInv
  <1>11. arrived' \in 0 .. MaxEvents[flavour]'
    <2>1. MaxEvents[flavour] \in Nat BY EventsAssumption DEF ReplyInv
    <2> QED BY <1>1, <2>1 DEF ReplyInv
  <1>12. flavour = "tags" => \A t \in ToolIds : live'.tools[t] # 0 => t \in over'
    BY <1>2, <1>4, <1>5, <1>7 DEF Moves
  <1> QED BY <1>1, <1>4, <1>7, <1>8, <1>9, <1>10, <1>11, <1>12 DEF ReplyInv, Moves

LEMMA UsageIsOne ==
    ASSUME NEW status, NEW n, NEW all, all = Append(<<>>, Usage(status, n)) \/ all = <<Usage(status, n)>>
    PROVE  OneUsage(all, n) /\ all # <<>>
  <1>1. PICK u : u = Usage(status, n) OBVIOUS
  <1>2. Append(<<>>, u) = <<u>>
    <2>1. << >> \in Seq({u}) BY EmptySeq
    <2> QED BY <2>1
  <1>3. all = <<u>> BY <1>1, <1>2
  <1>4. all # <<>>
    <2>1. Len(all) = 1 BY <1>3
    <2>2. Len(<< >>) = 0 BY EmptySeq
    <2> QED BY <2>1, <2>2
  <1> QED BY <1>1, <1>3, <1>4 DEF OneUsage

LEMMA ClosedKeeps ==
    ASSUME ReplyInv, phase = "open", NEW status, Ended(live, live'),
           snapshot' = live'.credits, records' = Append(records, Usage(status, live'.credits)),
           phase' = "ended", charged' = [charged EXCEPT !.whole = whole.credits],
           UNCHANGED <<flavour, whole, arrived, over>>
    PROVE  ReplyInv'
  <1>1. /\ live' \in Contexts /\ HasPlaces(live') /\ InProtocol(live'.log) /\ SignedLog(live'.log)
        /\ live'.credits = live.credits
    BY DEF Ended
  <1>2. /\ flavour \in Flavours /\ arrived \in 0 .. MaxEvents[flavour] /\ over \subseteq ToolIds
        /\ Counted(whole, live.credits) /\ records = <<>> /\ DOMAIN charged = {"live", "whole"}
    BY DEF ReplyInv
  <1>3. OneUsage(records', live'.credits) BY <1>2, UsageIsOne
  <1>4. DOMAIN charged' = {"live", "whole"} /\ charged'.whole = live'.credits
    BY <1>1, <1>2 DEF Counted
  <1> QED BY <1>1, <1>2, <1>3, <1>4 DEF ReplyInv

LEMMA EndKeeps ==
    ASSUME ReplyInv, End
    PROVE  ReplyInv'
  <1>1. /\ phase = "open" /\ live' = FinalEvents(live)
        /\ Settled(live', IF Outcome(live').e = "message_stop" THEN "success" ELSE "error")
        /\ phase' = "ended" /\ charged' = [charged EXCEPT !.whole = whole.credits]
        /\ UNCHANGED <<flavour, whole, arrived, over>>
    BY DEF End
  <1>2. Ended(live, live') BY <1>1, ReplyEnds DEF ReplyInv
  <1>3. PICK status : status = IF Outcome(live').e = "message_stop" THEN "success" ELSE "error" OBVIOUS
  <1>4. snapshot' = live'.credits /\ records' = Append(records, Usage(status, live'.credits))
    BY <1>1, <1>3 DEF Settled
  <1> QED BY <1>1, <1>2, <1>4, ClosedKeeps

LEMMA InterruptKeeps ==
    ASSUME ReplyInv, Interrupt
    PROVE  ReplyInv'
  <1>1. /\ phase = "open" /\ live' = ErrorEvents(live, "interrupted") /\ Settled(live, "error")
        /\ phase' = "ended" /\ charged' = [charged EXCEPT !.whole = whole.credits]
        /\ UNCHANGED <<flavour, whole, arrived, over>>
    BY DEF Interrupt
  <1>2. Ended(live, live')
    <2>1. PICK what \in Whats : what = "interrupted" BY DEF Whats
    <2>2. Sound(live) BY <1>1 DEF ReplyInv, Attentive
    <2> QED BY <1>1, <2>1, <2>2, ErrorEnds
  <1>3. PICK status : status = "error" OBVIOUS
  <1>4. snapshot' = live'.credits /\ records' = Append(records, Usage(status, live'.credits))
    BY <1>1, <1>2, <1>3 DEF Settled, Ended
  <1> QED BY <1>1, <1>2, <1>4, ClosedKeeps

LEMMA DropKeeps ==
    ASSUME ReplyInv, Drop
    PROVE  ReplyInv'
  <1>1. /\ phase # "gone" /\ phase' = "gone"
        /\ records' = IF records = <<>> THEN <<Usage("error", snapshot)>> ELSE records
        /\ charged' = [charged EXCEPT !.live = snapshot, !.whole = IF phase = "open" THEN whole.credits ELSE @]
        /\ UNCHANGED <<flavour, live, whole, answer, arrived, over, snapshot>>
    BY DEF Drop
  <1>2. /\ flavour \in Flavours /\ arrived \in 0 .. MaxEvents[flavour] /\ over \subseteq ToolIds
        /\ live \in Contexts /\ HasPlaces(live) /\ InProtocol(live.log) /\ SignedLog(live.log)
        /\ Counted(whole, live.credits) /\ snapshot = live.credits /\ DOMAIN charged = {"live", "whole"}
    BY DEF ReplyInv
  <1>3. phase # "open" => OneUsage(records, live.credits) /\ charged.whole = live.credits BY DEF ReplyInv
  <1>4. OneUsage(records', live.credits)
    <2>1. CASE phase = "open"
      <3>1. records = <<>> BY <2>1 DEF ReplyInv
      <3>2. PICK status : status = "error" OBVIOUS
      <3>3. records' = <<Usage(status, live.credits)>> BY <1>1, <1>2, <3>1, <3>2
      <3> QED BY <3>3, UsageIsOne
    <2>2. CASE phase # "open"
      <3>1. PICK status : records = <<Usage(status, live.credits)>> BY <1>3, <2>2 DEF OneUsage
      <3>2. records # <<>> BY <3>1, UsageIsOne
      <3> QED BY <1>1, <1>3, <2>2, <3>2
    <2> QED BY <2>1, <2>2
  <1>5. DOMAIN charged' = {"live", "whole"} /\ charged'.live = live.credits /\ charged'.whole = live.credits
    BY <1>1, <1>2, <1>3 DEF Counted
  <1> QED BY <1>1, <1>2, <1>4, <1>5 DEF ReplyInv

LEMMA ReplyStep == ReplyInv /\ [ReplyNext]_replyVars => ReplyInv'
  <1> SUFFICES ASSUME ReplyInv, [ReplyNext]_replyVars PROVE ReplyInv' OBVIOUS
  <1>1. CASE ReplyNext
    BY <1>1, ArriveKeeps, EndKeeps, InterruptKeeps, DropKeeps DEF ReplyNext
  <1>2. CASE UNCHANGED replyVars BY <1>2 DEF replyVars, ReplyInv
  <1> QED BY <1>1, <1>2

LEMMA ReplySound == ReplyInv => ReplyTypeOK /\ WellFormed /\ ThinkingSigned /\ UsageSettledOnce
  <1> SUFFICES ASSUME ReplyInv PROVE ReplyTypeOK /\ WellFormed /\ ThinkingSigned /\ UsageSettledOnce OBVIOUS
  <1>1. ReplyTypeOK BY DEF ReplyInv, ReplyTypeOK, HasPlaces
  <1>2. WellFormed BY DEF ReplyInv, WellFormed
  <1>3. ThinkingSigned
    <2> SUFFICES ASSUME NEW j \in At(live.log, "stop"), live.log[j].what = "thinking",
                        ThinkingText(live.log, live.log[j].i) # {}
                 PROVE  Cardinality(Signatures(live.log, live.log[j].i)) = 1
      BY DEF ThinkingSigned
    <2>1. PICK y : Signatures(live.log, live.log[j].i) = {y} BY DEF ReplyInv, SignedLog
    <2>2. Cardinality({y}) = 1 BY FS_Singleton
    <2> QED BY <2>1, <2>2
  <1>4. UsageSettledOnce
    <2>1. CASE phase = "open"
      <3>1. records = <<>> BY <2>1 DEF ReplyInv
      <3>2. Len(<< >>) = 0 BY EmptySeq
      <3> QED BY <2>1, <3>1, <3>2 DEF UsageSettledOnce
    <2>2. CASE phase # "open"
      <3>1. PICK status : records = <<Usage(status, live.credits)>> BY <2>2 DEF ReplyInv, OneUsage
      <3>2. PICK u : u = Usage(status, live.credits) OBVIOUS
      <3>3. records = <<u>> /\ u.status = status BY <3>1, <3>2 DEF Usage
      <3>4. Len(records) = 1 /\ records[1] = u BY <3>3
      <3>5. records = <<Usage(records[1].status, live.credits)>> BY <3>1, <3>3, <3>4
      <3>6. phase = "gone" => charged.live = live.credits /\ charged.whole = live.credits BY <2>2 DEF ReplyInv
      <3> QED BY <3>4, <3>5, <3>6 DEF UsageSettledOnce
    <2> QED BY <2>1, <2>2
  <1> QED BY <1>1, <1>2, <1>3, <1>4

-----------------------------------------------------------------------------
(* Output recovery: what was said of an attempt, and what was captured.     *)

ToldSoFar == IF committed THEN sent ELSE held

RecoveryKinds ==
    {"message_start", "thinking", "visible", "message_delta", "message_stop", "error", "no_output"}

RecoveryEvent == [e : RecoveryKinds, of : {1, 2}, used : SUBSET {1, 2}]

(* What has been said of an attempt, whoever has it: it begins with *)
(* message_start and has no end.                                     *)
Begun(q) ==
    /\ \A i \in DOMAIN q : q[i].of = attempt /\ (q[i].e = "message_start" <=> i = 1)
    /\ \A i \in DOMAIN q : q[i].e \notin {"message_stop", "error", "no_output"}

RecoveryTypes ==
    /\ mode \in {"stream", "json"} /\ task \in {"read", "ask", "done"} /\ attempt \in {1, 2}
    /\ source \in {"begin", "started", "visible", "ending", "dropped"}
    /\ held \in Seq(RecoveryEvent) /\ sent \in Seq(RecoveryEvent)
    /\ committed \in BOOLEAN /\ client \in BOOLEAN
    /\ settled \in Seq([of : SUBSET {1, 2}, ok : BOOLEAN])

(* Attempt by attempt, each once. *)
CaptureInv ==
    /\ capture \in Seq([of : {1, 2}])
    /\ \A i \in DOMAIN capture : capture[i].of = i
    /\ attempt - 1 <= Len(capture) /\ Len(capture) <= attempt

ReadInv ==
    /\ source # "dropped"
    /\ committed => held = <<>>
    /\ ~committed => sent = <<>>
    /\ committed => source \in {"visible", "ending"}
    /\ Begun(ToldSoFar)
    /\ source = "begin" <=> ToldSoFar = <<>>
    /\ source = "visible" => committed
    /\ source = "started" => ~committed
    /\ source = "started" => Len(held) <= MaxPassed + 1
    /\ Len(held) <= MaxPassed + 2
    /\ \A i \in DOMAIN ToldSoFar : ToldSoFar[i].used # {} => source = "ending" /\ ToldSoFar[i].used = Attempts(capture)
    /\ Len(capture) = IF source = "ending" THEN attempt ELSE attempt - 1

DoneInv ==
    /\ Len(settled) = 1 /\ settled[1].of = Attempts(capture)
    /\ settled[1].ok => Len(capture) = attempt
    /\ \A i \in DOMAIN sent : sent[i].used # {} => sent[i].used = settled[1].of
    /\ \A i, j \in DOMAIN sent : sent[i].of = sent[j].of
    /\ \A i \in DOMAIN sent : sent[i].e = "message_start" => i = 1
    /\ Ends \subseteq {Len(sent)}
    /\ mode = "stream" /\ Len(sent) > 1 => sent[1].e = "message_start"
    /\ client => sent # <<>> /\ sent[Len(sent)].e \in {"message_stop", "error", "no_output"}
    /\ held = <<>>

RecoveryInv ==
    /\ RecoveryTypes
    /\ CaptureInv
    /\ task # "done" => settled = <<>>
    /\ task = "read" /\ mode = "stream" => ReadInv
    /\ task = "read" /\ mode = "json" =>
          held = <<>> /\ sent = <<>> /\ ~committed /\ source = "begin" /\ Len(capture) = attempt - 1
    /\ task = "ask" => /\ mode = "stream" /\ sent = <<>> /\ attempt = 1 /\ source = "dropped"
                       /\ Len(capture) = 1 /\ Len(held) <= MaxPassed + 2 /\ ~committed
    /\ task = "done" => DoneInv


LEMMA CaptureFacts ==
    ASSUME CaptureInv
    PROVE  Attempts(capture) = 1 .. Len(capture)
  BY DEF CaptureInv, Attempts

LEMMA RecoveryInitially == RecoveryInit => RecoveryInv
  <1> SUFFICES ASSUME RecoveryInit PROVE RecoveryInv OBVIOUS
  <1>1. RecoveryTypes BY EmptySeq DEF RecoveryInit, RecoveryTypes
  <1>2. CaptureInv BY EmptySeq DEF RecoveryInit, CaptureInv
  <1>3. ReadInv BY PassedAssumption, EmptySeq DEF RecoveryInit, ReadInv, ToldSoFar, Begun
  <1> QED BY <1>1, <1>2, <1>3 DEF RecoveryInit, RecoveryInv

LEMMA RecoverySound == RecoveryInv => OneMessage /\ RecoverySettledOnce /\ RecoveryTypeOK
  <1> SUFFICES ASSUME RecoveryInv PROVE OneMessage /\ RecoverySettledOnce /\ RecoveryTypeOK OBVIOUS
  <1> USE PassedAssumption
  <1>0. RecoveryTypes /\ CaptureInv BY DEF RecoveryInv
  <1>1. OneMessage
    BY DEF RecoveryInv, OneMessage, DoneInv, ReadInv, ToldSoFar, Begun, Ends, RecoveryTypes
  <1>2. RecoverySettledOnce
    <2>0. \A i, j \in DOMAIN capture : capture[i].of = capture[j].of => i = j BY <1>0 DEF CaptureInv
    <2>1. CASE task = "done"
      <3>1. Len(settled) = 1 /\ settled # <<>> BY <1>0, <2>1 DEF RecoveryInv, DoneInv, RecoveryTypes
      <3>2. settled[1].ok => attempt \in settled[1].of /\ (attempt = 2 => 1 \in settled[1].of)
        BY <1>0, <2>1, CaptureFacts DEF RecoveryInv, DoneInv, RecoveryTypes
      <3> QED BY <2>0, <2>1, <3>1, <3>2 DEF RecoveryInv, DoneInv, RecoverySettledOnce
    <2>2. CASE task # "done"
      BY <2>0, <2>2 DEF RecoveryInv, RecoverySettledOnce
    <2> QED BY <2>1, <2>2
  <1>3. RecoveryTypeOK
    <2>1. Attempts(capture) \subseteq {1, 2} BY <1>0, CaptureFacts DEF CaptureInv, RecoveryTypes
    <2>2. Len(held) <= MaxPassed + 2 BY DEF RecoveryInv, RecoveryTypes, DoneInv, ReadInv
    <2> QED BY <1>0, <2>1, <2>2 DEF RecoveryTypeOK, RecoveryTypes
  <1> QED BY <1>1, <1>2, <1>3

(* The record of an attempt that ends. *)
LEMMA CapturedOnce ==
    ASSUME RecoveryTypes, CaptureInv, capture' = Closing, attempt' = attempt,
           Recorded => Len(capture) = attempt,
           ~Recorded => Len(capture) = attempt - 1
    PROVE  CaptureInv' /\ Len(capture') = attempt /\ Attempts(capture') = 1 .. attempt
                       /\ Attempts(capture') \in SUBSET {1, 2}
  <1>1. CaptureInv' /\ Len(capture') = attempt
    <2>1. CASE Recorded BY <2>1 DEF RecoveryTypes, CaptureInv, Closing
    <2>2. CASE ~Recorded
      <3>1. capture' = Append(capture, [of |-> attempt]) BY <2>2 DEF Closing
      <3>2. [of |-> attempt] \in [of : {1, 2}] BY DEF RecoveryTypes
      <3> QED BY <2>2, <3>1, <3>2, AppendProperties DEF RecoveryTypes, CaptureInv
    <2> QED BY <2>1, <2>2
  <1>2. Attempts(capture') = 1 .. Len(capture')
    BY <1>1 DEF CaptureInv, Attempts
  <1> QED BY <1>1, <1>2 DEF RecoveryTypes

LEMMA PassKeeps ==
    ASSUME RecoveryInv, Pass
    PROVE  RecoveryInv'
  <1> USE PassedAssumption
  <1>1. PICK e \in {"message_start", "thinking", "visible", "message_delta"} :
          /\ Follows(e)
          /\ source' = After(e)
          /\ capture' = IF e = "message_delta" THEN Closing ELSE capture
          /\ committed' = (committed \/ e = "visible")
          /\ LET ev == IF e = "message_delta" THEN [Ev(e) EXCEPT !.used = Attempts(capture')] ELSE Ev(e)
                 all == Append(held, ev)
             IN  /\ held' = IF committed' THEN <<>> ELSE all
                 /\ sent' = IF committed' THEN sent \o all ELSE sent
    BY DEF Pass
  <1>2. /\ task = "read" /\ mode = "stream" /\ client /\ RecoveryTypes /\ CaptureInv /\ ReadInv
        /\ settled = <<>>
        /\ UNCHANGED <<mode, task, attempt, client, settled>>
    BY DEF Pass, Reading, RecoveryInv
  <1> DEFINE ev == IF e = "message_delta" THEN [Ev(e) EXCEPT !.used = Attempts(capture')] ELSE Ev(e)
  <1>3. CaptureInv' /\ Len(capture') = (IF e = "message_delta" THEN attempt ELSE attempt - 1)
        /\ (e = "message_delta" => Attempts(capture') = 1 .. attempt /\ Attempts(capture') \in SUBSET {1, 2})
    <2>1. CASE e = "message_delta"
      <3>1. source \in {"started", "visible"} BY <1>1, <2>1 DEF Follows
      <3> QED BY <1>1, <1>2, <2>1, <3>1, CapturedOnce DEF ReadInv, Recorded, RecoveryTypes
    <2>2. CASE e # "message_delta"
      <3>1. source \in {"begin", "started", "visible"} BY <1>1, <2>2 DEF Follows
      <3> QED BY <1>1, <1>2, <2>2, <3>1 DEF ReadInv, CaptureInv
    <2> QED BY <2>1, <2>2
  <1>4. /\ ev \in RecoveryEvent /\ ev.e = e /\ ev.of = attempt
        /\ ev.used # {} => e = "message_delta" /\ ev.used = Attempts(capture')
    <2>1. Ev(e) = [e |-> e, of |-> attempt, used |-> {}] /\ e \in RecoveryKinds /\ attempt \in {1, 2}
      <3>1. Ev(e) = [e |-> e, of |-> attempt, used |-> {}] BY DEF Ev
      <3>2. attempt \in {1, 2} BY <1>2 DEF RecoveryTypes
      <3>3. e \in RecoveryKinds BY DEF RecoveryKinds
      <3> QED BY <3>1, <3>2, <3>3
    <2>2. CASE e = "message_delta"
      <3>1. ev = [e |-> e, of |-> attempt, used |-> Attempts(capture')] BY <2>1, <2>2
      <3> QED BY <1>3, <2>1, <2>2, <3>1 DEF RecoveryEvent
    <2>3. CASE e # "message_delta" BY <2>1, <2>3 DEF RecoveryEvent
    <2> QED BY <2>2, <2>3
  <1> HIDE DEF ev
  <1>5. /\ held \in Seq(RecoveryEvent) /\ sent \in Seq(RecoveryEvent)
        /\ held' = (IF committed' THEN <<>> ELSE Append(held, ev))
        /\ sent' = (IF committed' THEN sent \o Append(held, ev) ELSE sent)
        /\ committed => held = <<>>
        /\ ~committed => sent = <<>>
        /\ committed \in BOOLEAN
    BY <1>1, <1>2 DEF ev, ReadInv, RecoveryTypes
  <1>6. /\ held' \in Seq(RecoveryEvent) /\ sent' \in Seq(RecoveryEvent)
        /\ ToldSoFar' = Append(ToldSoFar, ev)
        /\ ToldSoFar \in Seq(RecoveryEvent)
    <2>1. CASE committed
      <3>1. committed' /\ held = <<>> /\ <<>> \in Seq(RecoveryEvent) BY <1>1, <1>5, <2>1, EmptySeq
      <3>2. sent \o Append(<<>>, ev) = Append(sent \o <<>>, ev)
        BY <1>4, <1>5, <3>1, ConcatAppend
      <3>3. sent \o <<>> = sent BY <1>5, ConcatEmptySeq
      <3> QED BY <1>4, <1>5, <2>1, <3>1, <3>2, <3>3, AppendProperties DEF ToldSoFar
    <2>2. CASE ~committed /\ e = "visible"
      BY <1>1, <1>4, <1>5, <2>2, EmptySeq, ConcatEmptySeq DEF ToldSoFar
    <2>3. CASE ~committed /\ e # "visible"
      BY <1>1, <1>4, <1>5, <2>3 DEF ToldSoFar
    <2> QED BY <1>5, <2>1, <2>2, <2>3
  <1>7. RecoveryTypes'
    <2>1. source' \in {"begin", "started", "visible", "ending", "dropped"} BY <1>1, <1>2 DEF After, RecoveryTypes
    <2> QED BY <1>1, <1>2, <1>6, <2>1 DEF RecoveryTypes
  <1>8. Begun(ToldSoFar)'
    <2>1. ToldSoFar = <<>> <=> e = "message_start" BY <1>1, <1>2, <1>6 DEF Follows, ReadInv
    <2>2. e \notin {"message_stop", "error", "no_output"} OBVIOUS
    <2>3. Begun(ToldSoFar) BY <1>2 DEF ReadInv
    <2> HIDE DEF ToldSoFar
    <2> QED BY <1>2, <1>4, <1>6, <2>1, <2>2, <2>3 DEF Begun
  <1>9. \A i \in DOMAIN ToldSoFar' : ToldSoFar'[i].used # {} => source' = "ending" /\ ToldSoFar'[i].used = Attempts(capture')
    <2>1. source # "ending" BY <1>1 DEF Follows
    <2>2. \A i \in DOMAIN ToldSoFar : ToldSoFar[i].used = {} BY <1>2, <2>1 DEF ReadInv
    <2>3. e = "message_delta" => source' = "ending" BY <1>1 DEF After
    <2> HIDE DEF ToldSoFar
    <2> QED BY <1>4, <1>6, <2>2, <2>3
  <1>10. /\ source' # "dropped" /\ source' # "begin" /\ ToldSoFar' # <<>>
         /\ source' = "visible" => committed'
         /\ source' = "started" => ~committed'
         /\ committed' => source' \in {"visible", "ending"}
         /\ source' = "started" => Len(held') <= MaxPassed + 1
         /\ Len(held') <= MaxPassed + 2
         /\ Len(capture') = (IF source' = "ending" THEN attempt ELSE attempt - 1)
    <2>1. source' = After(e) /\ (source' = "ending" <=> e = "message_delta")
          /\ source' \in {"started", "visible", "ending"}
      BY <1>1, <1>2 DEF After, RecoveryTypes
    <2>2. /\ source' = "visible" => committed'
          /\ source' = "started" => ~committed'
          /\ committed' => source' \in {"visible", "ending"}
      BY <1>1, <1>2 DEF After, ReadInv, Follows, RecoveryTypes
    <2>3. /\ source' = "started" => Len(held') <= MaxPassed + 1
          /\ Len(held') <= MaxPassed + 2
      <3>1. e = "message_start" => Len(held) = 0 BY <1>1, <1>2, <1>5 DEF Follows, ReadInv, ToldSoFar
      <3>2. e = "thinking" => Len(held) <= MaxPassed - 1 BY <1>1, <1>5 DEF Follows
      <3>3. e = "message_delta" => Len(held) <= MaxPassed + 1 BY <1>1, <1>2, <1>5 DEF Follows, ReadInv
      <3>4. e = "message_delta" => source' = "ending" BY <2>1
      <3>5. e = "visible" => committed' BY <1>1
      <3> QED BY <1>4, <1>5, <3>1, <3>2, <3>3, <3>4, <3>5, EmptySeq
    <2>4. ToldSoFar' # <<>> BY <1>6, <1>4
    <2> QED BY <1>3, <2>1, <2>2, <2>3, <2>4
  <1>11. ReadInv'
    <2>1. (committed' => held' = <<>>) /\ (~committed' => sent' = <<>>) BY <1>1, <1>2, <1>5
    <2> QED BY <1>2, <1>8, <1>9, <1>10, <2>1 DEF ReadInv
  <1> QED BY <1>2, <1>3, <1>7, <1>11 DEF RecoveryInv

EndKinds == {"message_stop", "error", "no_output"}

(* The usage that was shown is that of the attempts that are recorded. *)
UsageShown(q) == \A i \in DOMAIN q : q[i].used # {} => q[i].used = Attempts(capture)'

LEMMA SentIsBegun ==
    ASSUME RecoveryInv, mode = "stream", task \in {"read", "ask"}
    PROVE  /\ sent \in Seq(RecoveryEvent) /\ Begun(sent)
           /\ task = "read" => Begun(ToldSoFar) /\ ToldSoFar \in Seq(RecoveryEvent)
           /\ capture' = Closing /\ attempt' = attempt =>
                /\ CaptureInv' /\ Len(capture') = attempt
                /\ UsageShown(sent) /\ (task = "read" => UsageShown(ToldSoFar))
                /\ UsageShown(<<>>)
           /\ Begun(<<>>)
  <1>1. RecoveryTypes /\ CaptureInv BY DEF RecoveryInv
  <1>2. Begun(<<>>) BY DEF Begun
  <1>3. CASE task = "ask"
    <2>1. sent = <<>> /\ Recorded /\ Len(capture) = attempt BY <1>3 DEF RecoveryInv, Recorded
    <2>2. UsageShown(<<>>) BY DEF UsageShown
    <2> QED BY <1>1, <1>2, <1>3, <2>1, <2>2, CapturedOnce, EmptySeq
  <1>4. CASE task = "read"
    <2>1. ReadInv BY <1>4 DEF RecoveryInv
    <2>2. Begun(ToldSoFar) /\ ToldSoFar \in Seq(RecoveryEvent) BY <1>1, <2>1 DEF ToldSoFar, ReadInv, RecoveryTypes
    <2>3. sent = <<>> \/ sent = ToldSoFar BY <1>1, <2>1 DEF ToldSoFar, ReadInv, RecoveryTypes
    <2>4. (Recorded => source = "ending" /\ Len(capture) = attempt) /\ (~Recorded => Len(capture) = attempt - 1)
      BY <1>1, <2>1 DEF ReadInv, Recorded
    <2>5. ASSUME capture' = Closing, attempt' = attempt
          PROVE  CaptureInv' /\ Len(capture') = attempt /\ UsageShown(sent) /\ UsageShown(ToldSoFar)
                 /\ UsageShown(<<>>)
      <3>1. CaptureInv' /\ Len(capture') = attempt BY <1>1, <2>4, <2>5, CapturedOnce
      <3>2. source = "ending" => capture' = capture BY <2>5 DEF Closing, Recorded
      <3>3. source = "ending" => Attempts(capture)' = Attempts(capture) BY <3>2
      <3>4. UsageShown(ToldSoFar) BY <2>1, <3>3 DEF ReadInv, UsageShown
      <3>5. UsageShown(<<>>) BY DEF UsageShown
      <3> QED BY <2>3, <3>1, <3>4, <3>5
    <2> QED BY <1>1, <1>2, <1>4, <2>2, <2>3, <2>5 DEF RecoveryTypes
  <1> QED BY <1>3, <1>4

LEMMA EndedWell ==
    ASSUME NEW p \in Seq(RecoveryEvent), Begun(p), NEW ev \in RecoveryEvent,
           ev.e \in EndKinds, ev.of = attempt
    PROVE  LET q == Append(p, ev)
           IN  /\ q \in Seq(RecoveryEvent) /\ q # <<>> /\ q[Len(q)] = ev
               /\ \A i, j \in DOMAIN q : q[i].of = q[j].of
               /\ \A i \in DOMAIN q : q[i].e = "message_start" => i = 1
               /\ {i \in DOMAIN q : q[i].e \in EndKinds} \subseteq {Len(q)}
               /\ Len(q) > 1 => q[1].e = "message_start"
  <1> DEFINE q == Append(p, ev)
  <1>1. /\ q \in Seq(RecoveryEvent) /\ Len(p) \in Nat /\ Len(q) = Len(p) + 1
        /\ q[Len(p) + 1] = ev /\ \A i \in 1 .. Len(p) : q[i] = p[i]
        /\ DOMAIN q = 1 .. Len(p) + 1 /\ DOMAIN p = 1 .. Len(p)
    BY AppendProperties
  <1> HIDE DEF q
  <1>2. q # <<>> BY <1>1, EmptySeq
  <1>3. \A i \in 1 .. Len(p) : q[i].of = attempt /\ (q[i].e = "message_start" <=> i = 1) /\ q[i].e \notin EndKinds
    BY <1>1 DEF Begun, EndKinds
  <1>4. Len(p) >= 1 => q[1].e = "message_start" BY <1>1, <1>3
  <1>5. ev.e # "message_start" BY DEF EndKinds
  <1> QED BY <1>1, <1>2, <1>3, <1>4, <1>5 DEF q

LEMMA FinishKeeps ==
    ASSUME RecoveryInv, mode = "stream", task \in {"read", "ask"},
           NEW last, NEW told, NEW ok \in BOOLEAN, Finish(last, told, ok),
           NEW p \in Seq(RecoveryEvent), Begun(p), UsageShown(p),
           NEW ev \in RecoveryEvent, ev.e \in EndKinds, ev.of = attempt, ev.used = {},
           client => sent' = Append(p, ev)
    PROVE  RecoveryInv'
  <1>1. RecoveryTypes /\ CaptureInv /\ settled = <<>> BY DEF RecoveryInv
  <1>2. /\ task' = "done" /\ source' = "dropped" /\ held' = <<>>
        /\ capture' = Closing
        /\ settled' = Settle(capture', ok)
        /\ ~client => sent' = sent
        /\ UNCHANGED <<mode, attempt, committed, client>>
    BY DEF Finish
  <1>3. CaptureInv' /\ Len(capture') = attempt /\ UsageShown(sent) /\ Begun(sent) /\ sent \in Seq(RecoveryEvent)
    BY <1>2, SentIsBegun
  <1>4. settled' = <<[of |-> Attempts(capture'), ok |-> ok]>> BY <1>1, <1>2 DEF Settle
  <1>5. Attempts(capture') \in SUBSET {1, 2}
    <2>1. CaptureInv' => Attempts(capture') = 1 .. Len(capture') BY DEF CaptureInv, Attempts
    <2> QED BY <1>1, <1>3, <2>1 DEF RecoveryTypes
  <1>6. settled' \in Seq([of : SUBSET {1, 2}, ok : BOOLEAN]) /\ Len(settled') = 1
        /\ settled'[1] = [of |-> Attempts(capture'), ok |-> ok]
    BY <1>4, <1>5
  <1>7. /\ sent' \in Seq(RecoveryEvent)
        /\ \A i \in DOMAIN sent' : sent'[i].used # {} => sent'[i].used = settled'[1].of
        /\ \A i, j \in DOMAIN sent' : sent'[i].of = sent'[j].of
        /\ \A i \in DOMAIN sent' : sent'[i].e = "message_start" => i = 1
        /\ Ends' \subseteq {Len(sent')}
        /\ Len(sent') > 1 => sent'[1].e = "message_start"
        /\ client => sent' # <<>> /\ sent'[Len(sent')].e \in EndKinds
    <2>1. CASE client
      <3>1. sent' = Append(p, ev) BY <2>1
      <3>2. \A i \in DOMAIN sent' : sent'[i].used # {} => sent'[i].used = Attempts(capture')
        BY <3>1, AppendProperties DEF UsageShown
      <3> QED BY <2>1, <3>1, <3>2, <1>6, EndedWell DEF Ends, EndKinds
    <2>2. CASE ~client
      <3>1. sent' = sent BY <1>2, <2>2
      <3>2. \A i \in DOMAIN sent : sent[i].used # {} => sent[i].used = settled'[1].of
        BY <1>3, <1>6 DEF UsageShown
      <3>3. Ends' = {} BY <1>3, <3>1 DEF Ends, Begun
      <3> QED BY <2>2, <1>3, <3>1, <3>2, <3>3 DEF Begun
    <2> QED BY <2>1, <2>2
  <1>8. RecoveryTypes' BY <1>1, <1>2, <1>6, <1>7, EmptySeq DEF RecoveryTypes
  <1>9. DoneInv' BY <1>2, <1>3, <1>6, <1>7 DEF DoneInv, EndKinds
  <1> QED BY <1>2, <1>3, <1>8, <1>9 DEF RecoveryInv

LEMMA EvType ==
    ASSUME NEW e \in RecoveryKinds, attempt \in {1, 2}
    PROVE  Ev(e) \in RecoveryEvent /\ Ev(e).e = e /\ Ev(e).of = attempt /\ Ev(e).used = {}
  BY DEF Ev, RecoveryEvent

LEMMA PassEndKeeps ==
    ASSUME RecoveryInv, PassEnd
    PROVE  RecoveryInv'
  <1>1. PICK e \in {"message_stop", "error"} :
            Follows(e) /\ Finish(Append(held, Ev(e)), e = "error", e = "message_stop")
    BY DEF PassEnd
  <1>2. mode = "stream" /\ task = "read" /\ RecoveryTypes /\ ReadInv BY DEF PassEnd, Reading, RecoveryInv
  <1>3. e \in RecoveryKinds /\ e \in EndKinds /\ attempt \in {1, 2} BY <1>2 DEF RecoveryKinds, EndKinds, RecoveryTypes
  <1>4. Ev(e) \in RecoveryEvent /\ Ev(e).e = e /\ Ev(e).of = attempt /\ Ev(e).used = {} BY <1>3, EvType
  <1>5. capture' = Closing /\ attempt' = attempt BY <1>1 DEF Finish
  <1>6. Begun(ToldSoFar) /\ ToldSoFar \in Seq(RecoveryEvent) /\ UsageShown(ToldSoFar) BY <1>2, <1>5, SentIsBegun
  <1>7. client => sent' = Append(ToldSoFar, Ev(e))
    <2> SUFFICES ASSUME client PROVE sent' = Append(ToldSoFar, Ev(e)) OBVIOUS
    <2>0. held \in Seq(RecoveryEvent) /\ sent \in Seq(RecoveryEvent) /\ committed \in BOOLEAN BY <1>2 DEF RecoveryTypes
    <2>1. sent' = (sent \o Append(held, Ev(e))) \o <<>> BY <1>1 DEF Finish
    <2>2. Append(held, Ev(e)) \in Seq(RecoveryEvent) BY <1>4, <2>0, AppendProperties
    <2>3. sent' = sent \o Append(held, Ev(e)) BY <2>0, <2>1, <2>2, ConcatProperties, ConcatEmptySeq
    <2>4. sent' = Append(sent \o held, Ev(e)) BY <1>4, <2>0, <2>3, ConcatAppend
    <2>5. sent \o held = ToldSoFar BY <1>2, <2>0, ConcatEmptySeq DEF ReadInv, ToldSoFar
    <2> QED BY <2>4, <2>5
  <1>8. (e = "message_stop") \in BOOLEAN OBVIOUS
  <1> QED BY <1>1, <1>2, <1>3, <1>4, <1>6, <1>7, <1>8, FinishKeeps

LEMMA AloneSent ==
    ASSUME NEW ev \in RecoveryEvent, sent \in Seq(RecoveryEvent)
    PROVE  (sent \o <<>>) \o <<ev>> = Append(sent, ev) /\ (<<>> \o <<ev>>) \o <<>> = Append(<<>>, ev)
  <1>1. sent \o <<>> = sent BY ConcatEmptySeq
  <1>2. sent \o <<ev>> = Append(sent, ev) BY AppendIsConcat
  <1>3. <<>> \in Seq(RecoveryEvent) /\ <<ev>> \in Seq(RecoveryEvent) BY EmptySeq
  <1>4. Append(<<>>, ev) = <<>> \o <<ev>> BY <1>3, AppendIsConcat
  <1>5. <<>> \o <<ev>> = <<ev>> /\ <<ev>> \o <<>> = <<ev>> BY <1>3, ConcatEmptySeq
  <1> QED BY <1>1, <1>2, <1>4, <1>5

LEMMA RecoverKeeps ==
    ASSUME RecoveryInv, Recover
    PROVE  RecoveryInv'
  <1>1. /\ mode = "stream" /\ task = "read" /\ client /\ RecoveryTypes /\ CaptureInv /\ ReadInv
        /\ ~committed /\ sent = <<>> /\ source = "started" /\ settled = <<>>
    BY DEF Recover, Reading, RecoveryInv, ReadInv, Follows
  <1>2. CASE attempt = 1
    <2>1. /\ task' = "ask" /\ source' = "dropped" /\ capture' = Closing
          /\ UNCHANGED <<mode, attempt, held, committed, sent, client, settled>>
      BY <1>2 DEF Recover
    <2>2. CaptureInv' /\ Len(capture') = attempt BY <1>1, <2>1, SentIsBegun
    <2>3. Len(held) <= MaxPassed + 2 BY <1>1 DEF ReadInv
    <2>4. RecoveryTypes' BY <1>1, <2>1 DEF RecoveryTypes
    <2> QED BY <1>1, <1>2, <2>1, <2>2, <2>3, <2>4 DEF RecoveryInv
  <1>3. CASE attempt # 1
    <2>1. Finish(<<Ev("no_output")>>, TRUE, FALSE) BY <1>3 DEF Recover
    <2>2. "no_output" \in RecoveryKinds /\ "no_output" \in EndKinds /\ attempt \in {1, 2}
      BY <1>1 DEF RecoveryKinds, EndKinds, RecoveryTypes
    <2>3. /\ Ev("no_output") \in RecoveryEvent /\ Ev("no_output").e = "no_output"
          /\ Ev("no_output").of = attempt /\ Ev("no_output").used = {}
      BY <2>2, EvType
    <2>4. capture' = Closing /\ attempt' = attempt BY <2>1 DEF Finish
    <2>5. Begun(<<>>) /\ UsageShown(<<>>) BY <1>1, <2>4, SentIsBegun
    <2>6. sent' = (<<>> \o <<Ev("no_output")>>) \o <<>> BY <1>1, <2>1 DEF Finish
    <2>7. sent' = Append(<<>>, Ev("no_output")) BY <1>1, <2>3, <2>6, AloneSent DEF RecoveryTypes
    <2>8. <<>> \in Seq(RecoveryEvent) BY EmptySeq
    <2> QED BY <1>1, <2>1, <2>2, <2>3, <2>5, <2>7, <2>8, FinishKeeps
  <1> QED BY <1>2, <1>3

LEMMA ErrorType ==
    ASSUME attempt \in {1, 2}
    PROVE  /\ Ev("error") \in RecoveryEvent /\ Ev("error").e \in EndKinds
           /\ Ev("error").of = attempt /\ Ev("error").used = {}
  <1>1. "error" \in RecoveryKinds /\ "error" \in EndKinds BY DEF RecoveryKinds, EndKinds
  <1> QED BY <1>1, EvType

LEMMA BreakOffKeeps ==
    ASSUME RecoveryInv, BreakOff
    PROVE  RecoveryInv'
  <1>1. mode = "stream" /\ task = "read" /\ client /\ RecoveryTypes /\ Finish(<<>>, FALSE, FALSE)
    BY DEF BreakOff, Reading, RecoveryInv
  <1>2. attempt \in {1, 2} BY <1>1 DEF RecoveryTypes
  <1>3. capture' = Closing /\ attempt' = attempt /\ sent' = (sent \o <<>>) \o <<Ev("error")>>
    BY <1>1 DEF Finish
  <1>4. Begun(sent) /\ sent \in Seq(RecoveryEvent) /\ UsageShown(sent) BY <1>1, <1>3, SentIsBegun
  <1>5. sent' = Append(sent, Ev("error")) BY <1>2, <1>3, <1>4, ErrorType, AloneSent
  <1> QED BY <1>1, <1>2, <1>4, <1>5, ErrorType, FinishKeeps

LEMMA AskFailsKeeps ==
    ASSUME RecoveryInv, AskFails
    PROVE  RecoveryInv'
  <1>1. mode = "stream" /\ task = "ask" /\ client /\ RecoveryTypes /\ sent = <<>>
        /\ Finish(<<Ev("error")>>, TRUE, FALSE)
    BY DEF AskFails, RecoveryInv
  <1>2. attempt \in {1, 2} /\ sent \in Seq(RecoveryEvent) BY <1>1 DEF RecoveryTypes
  <1>3. capture' = Closing /\ attempt' = attempt /\ sent' = (<<>> \o <<Ev("error")>>) \o <<>>
    BY <1>1 DEF Finish
  <1>4. Begun(<<>>) /\ UsageShown(<<>>) /\ <<>> \in Seq(RecoveryEvent) BY <1>1, <1>3, SentIsBegun, EmptySeq
  <1>5. sent' = Append(<<>>, Ev("error")) BY <1>2, <1>3, ErrorType, AloneSent
  <1> QED BY <1>1, <1>2, <1>4, <1>5, ErrorType, FinishKeeps

LEMMA NoticeKeeps ==
    ASSUME RecoveryInv, Notice
    PROVE  RecoveryInv'
  <1>1. mode = "stream" /\ task \in {"read", "ask"} /\ ~client /\ RecoveryTypes /\ Finish(<<>>, TRUE, FALSE)
    BY DEF Notice, RecoveryInv, RecoveryTypes
  <1>2. attempt \in {1, 2} BY <1>1 DEF RecoveryTypes
  <1>3. capture' = Closing /\ attempt' = attempt BY <1>1 DEF Finish
  <1>4. Begun(<<>>) /\ UsageShown(<<>>) /\ <<>> \in Seq(RecoveryEvent) BY <1>1, <1>3, SentIsBegun, EmptySeq
  <1> QED BY <1>1, <1>2, <1>4, ErrorType, FinishKeeps

LEMMA AskedKeeps ==
    ASSUME RecoveryInv, Asked
    PROVE  RecoveryInv'
  <1> USE PassedAssumption
  <1>1. /\ mode = "stream" /\ task = "ask" /\ client /\ RecoveryTypes /\ CaptureInv /\ sent = <<>>
        /\ attempt = 1 /\ Len(capture) = 1 /\ settled = <<>>
        /\ task' = "read" /\ attempt' = 2 /\ source' = "begin"
        /\ held' = <<>> /\ committed' = FALSE
        /\ UNCHANGED <<mode, sent, client, capture, settled>>
    BY DEF Asked, RecoveryInv
  <1>2. RecoveryTypes' BY <1>1, EmptySeq DEF RecoveryTypes
  <1>3. CaptureInv'
    <2>1. Len(capture') = 1 /\ attempt' = 2 /\ capture' = capture BY <1>1
    <2>2. capture \in Seq([of : {1, 2}]) /\ \A i \in DOMAIN capture : capture[i].of = i BY <1>1 DEF CaptureInv
    <2>3. attempt' - 1 <= Len(capture') /\ Len(capture') <= attempt' BY <2>1
    <2> QED BY <2>1, <2>2, <2>3 DEF CaptureInv
  <1>4. ReadInv' BY <1>1, EmptySeq DEF ReadInv, Begun, ToldSoFar
  <1> QED BY <1>1, <1>2, <1>3, <1>4 DEF RecoveryInv

LEMMA LeaveKeeps ==
    ASSUME RecoveryInv, Leave
    PROVE  RecoveryInv'
  <1>1. client' = FALSE /\ UNCHANGED <<mode, task, attempt, source, held, committed, sent, capture, settled>>
    BY DEF Leave
  <1>2. RecoveryTypes' /\ CaptureInv' BY <1>1 DEF RecoveryInv, RecoveryTypes, CaptureInv
  <1>3. ReadInv => ReadInv' BY <1>1 DEF ReadInv, ToldSoFar, Begun, Attempts
  <1>4. DoneInv => DoneInv' BY <1>1 DEF DoneInv, Ends, Attempts
  <1> QED BY <1>1, <1>2, <1>3, <1>4 DEF RecoveryInv

LEMMA AnswerKeeps ==
    ASSUME RecoveryInv, Answer
    PROVE  RecoveryInv'
  <1>1. PICK e \in {"message_stop", "error", "no_output"} :
          /\ capture' \in {Append(capture, [of |-> attempt])} \cup (IF e = "error" THEN {capture} ELSE {})
          /\ IF e = "no_output" /\ attempt = 1
             THEN attempt' = 2 /\ UNCHANGED <<task, sent, settled>>
             ELSE /\ task' = "done"
                  /\ sent' = <<[Ev(e) EXCEPT !.used = Attempts(capture')]>>
                  /\ settled' = Settle(capture', e = "message_stop")
                  /\ UNCHANGED attempt
    BY DEF Answer
  <1>2. /\ mode = "json" /\ task = "read" /\ client /\ RecoveryTypes /\ CaptureInv /\ settled = <<>>
        /\ held = <<>> /\ sent = <<>> /\ ~committed /\ source = "begin" /\ Len(capture) = attempt - 1
        /\ UNCHANGED <<mode, source, held, committed, client>>
    BY DEF Answer, RecoveryInv
  <1>3. attempt \in {1, 2} BY <1>2 DEF RecoveryTypes
  <1>4. capture' = Append(capture, [of |-> attempt]) \/ (e = "error" /\ capture' = capture) BY <1>1
  <1>5. /\ capture' \in Seq([of : {1, 2}]) /\ \A i \in DOMAIN capture' : capture'[i].of = i
        /\ Len(capture') = attempt \/ (e = "error" /\ Len(capture') = attempt - 1)
    <2>1. CASE capture' = Append(capture, [of |-> attempt])
      <3>1. [of |-> attempt] \in [of : {1, 2}] BY <1>3
      <3> QED BY <1>2, <1>3, <2>1, <3>1, AppendProperties DEF CaptureInv
    <2>2. CASE e = "error" /\ capture' = capture BY <1>2, <2>2 DEF CaptureInv
    <2> QED BY <1>4, <2>1, <2>2
  <1>6. CASE e = "no_output" /\ attempt = 1
    <2>1. attempt' = 2 /\ UNCHANGED <<task, sent, settled>> BY <1>1, <1>6
    <2>2. CaptureInv' /\ Len(capture') = 1
      <3>1. Len(capture') = 1 BY <1>5, <1>6
      <3>2. attempt' - 1 <= Len(capture') /\ Len(capture') <= attempt' BY <2>1, <3>1
      <3> QED BY <1>5, <3>1, <3>2 DEF CaptureInv
    <2>3. RecoveryTypes' BY <1>2, <2>1 DEF RecoveryTypes
    <2> QED BY <1>2, <2>1, <2>2, <2>3 DEF RecoveryInv
  <1>7. CASE ~(e = "no_output" /\ attempt = 1)
    <2>1. /\ task' = "done"
          /\ sent' = <<[Ev(e) EXCEPT !.used = Attempts(capture')]>>
          /\ settled' = <<[of |-> Attempts(capture'), ok |-> e = "message_stop"]>>
          /\ UNCHANGED attempt
      BY <1>1, <1>2, <1>7 DEF Settle
    <2>2. CaptureInv' BY <1>3, <1>5, <2>1 DEF CaptureInv
    <2>3. Attempts(capture') \in SUBSET {1, 2}
      <3>1. Attempts(capture') = 1 .. Len(capture') BY <2>2 DEF CaptureInv, Attempts
      <3> QED BY <1>3, <1>5, <3>1
    <2>4. [Ev(e) EXCEPT !.used = Attempts(capture')] = [e |-> e, of |-> attempt, used |-> Attempts(capture')]
      BY DEF Ev
    <2>5. e \in RecoveryKinds BY DEF RecoveryKinds
    <2>6. [e |-> e, of |-> attempt, used |-> Attempts(capture')] \in RecoveryEvent
      BY <1>3, <2>3, <2>5 DEF RecoveryEvent
    <2>7. /\ sent' \in Seq(RecoveryEvent) /\ Len(sent') = 1 /\ DOMAIN sent' = {1}
          /\ sent'[1].e = e /\ sent'[1].used = Attempts(capture') /\ sent' # <<>>
      BY <2>1, <2>4, <2>6
    <2>8. /\ settled' \in Seq([of : SUBSET {1, 2}, ok : BOOLEAN]) /\ Len(settled') = 1
          /\ settled'[1].of = Attempts(capture') /\ settled'[1].ok = (e = "message_stop")
      BY <2>1, <2>3
    <2>9. RecoveryTypes' BY <1>2, <2>1, <2>7, <2>8 DEF RecoveryTypes
    <2>10. DoneInv'
      <3>1. Ends' \subseteq {1} BY <2>7 DEF Ends
      <3>2. settled'[1].ok => Len(capture') = attempt' BY <1>5, <2>1, <2>8
      <3> QED BY <1>2, <2>7, <2>8, <3>1, <3>2 DEF DoneInv
    <2> QED BY <2>1, <2>2, <2>9, <2>10 DEF RecoveryInv
  <1> QED BY <1>6, <1>7

LEMMA AbandonedKeeps ==
    ASSUME RecoveryInv, Abandoned
    PROVE  RecoveryInv'
  <1>1. /\ mode = "json" /\ task = "read" /\ ~client /\ RecoveryTypes /\ CaptureInv /\ settled = <<>>
        /\ held = <<>> /\ sent = <<>>
        /\ task' = "done" /\ settled' = <<[of |-> Attempts(capture), ok |-> FALSE]>>
        /\ UNCHANGED <<mode, attempt, source, held, committed, sent, client, capture>>
    BY DEF Abandoned, RecoveryInv, Settle
  <1>2. Attempts(capture) \in SUBSET {1, 2}
    BY <1>1, CaptureFacts DEF CaptureInv, RecoveryTypes
  <1>3. /\ settled' \in Seq([of : SUBSET {1, 2}, ok : BOOLEAN]) /\ Len(settled') = 1
        /\ settled'[1].of = Attempts(capture) /\ settled'[1].ok = FALSE
    BY <1>1, <1>2
  <1>4. RecoveryTypes' BY <1>1, <1>3 DEF RecoveryTypes
  <1>5. CaptureInv' BY <1>1 DEF CaptureInv
  <1>6. Attempts(capture') = Attempts(capture) BY <1>1
  <1>7. DoneInv' BY <1>1, <1>3, <1>6 DEF DoneInv, Ends
  <1> QED BY <1>1, <1>4, <1>5, <1>7 DEF RecoveryInv

LEMMA RecoveryStep == RecoveryInv /\ [RecoveryNext]_recoveryVars => RecoveryInv'
  <1> SUFFICES ASSUME RecoveryInv, [RecoveryNext]_recoveryVars PROVE RecoveryInv' OBVIOUS
  <1>1. CASE RecoveryNext
    BY <1>1, PassKeeps, PassEndKeeps, RecoverKeeps, BreakOffKeeps, AskedKeeps, AskFailsKeeps, LeaveKeeps,
       NoticeKeeps, AnswerKeeps, AbandonedKeeps DEF RecoveryNext
  <1>2. CASE UNCHANGED recoveryVars
    BY <1>2 DEF recoveryVars, RecoveryInv, RecoveryTypes, CaptureInv, ReadInv, DoneInv, ToldSoFar, Begun, Ends, Attempts
  <1> QED BY <1>1, <1>2

-----------------------------------------------------------------------------
(* Compaction: outputs are cut to their share of the budget, and a summary  *)
(* is asked for again once.                                                 *)

LEMMA TotalSums ==
    ASSUME NEW o \in Seq(Nat), NEW n \in Nat, n = Len(o)
    PROVE  \E sum : /\ sum \in [0 .. n -> Nat] /\ sum[0] = 0
                    /\ \A k \in 1 .. n : sum[k] = sum[k - 1] + o[k]
                    /\ Total(o) = sum[n]
  <1> DEFINE Is(f) == f = [k \in 0 .. Len(o) |-> IF k = 0 THEN 0 ELSE f[k - 1] + o[k]]
             G == [k \in 1 .. n |-> [v \in Nat |-> v + o[k]]]
             g == CHOOSE f : Is(f)
  <1>0. \A k \in 1 .. n : o[k] \in Nat OBVIOUS
  <1>1. G \in [1 .. n -> [Nat -> Nat]] BY <1>0
  <1>2. \E f : Is(f)
    <2>1. PICK f : Unrolls(f, n, Nat, 0, G)
      <3> HIDE DEF G
      <3> QED BY <1>1, RecursionExists
    <2>2. f \in [0 .. n -> Nat] /\ f[0] = 0 BY <2>1 DEF Unrolls
    <2>3. \A k \in 0 .. n : k # 0 => k \in 1 .. n /\ k - 1 \in 0 .. n OBVIOUS
    <2>4. \A k \in 0 .. n : k # 0 => f[k] = G[k][f[k - 1]] /\ f[k - 1] \in Nat
      <3> HIDE DEF G
      <3> QED BY <2>1, <2>3 DEF Unrolls
    <2>5. \A k \in 0 .. n : k # 0 => f[k] = f[k - 1] + o[k] BY <2>3, <2>4
    <2>6. f = [k \in 0 .. n |-> f[k]] BY <2>2
    <2>7. Is(f)
      <3> HIDE DEF G
      <3> QED BY <2>2, <2>5, <2>6
    <2> QED BY <2>7
  <1>3. Is(g) BY <1>2
  <1>4. Total(o) = g[n] BY DEF Total
  <1> HIDE DEF g
  <1>5. g = [k \in 0 .. n |-> IF k = 0 THEN 0 ELSE g[k - 1] + o[k]] BY <1>3
  <1>6. g[0] = 0 /\ DOMAIN g = 0 .. n /\ \A k \in 1 .. n : g[k] = g[k - 1] + o[k]
    <2>1. 0 \in 0 .. n /\ \A k \in 1 .. n : k \in 0 .. n /\ k # 0 OBVIOUS
    <2> QED BY <1>5, <2>1
  <1>7. g = [k \in 0 .. n |-> g[k]] BY <1>5
  <1>8. \A k \in 1 .. n : g[k - 1] \in Nat => g[k] = G[k][g[k - 1]] BY <1>6
  <1>9. Unrolls(g, n, Nat, 0, G)
    <2> HIDE DEF G
    <2> QED BY <1>1, <1>6, <1>7, <1>8, RecursionUnrolls
  <1> QED BY <1>4, <1>6, <1>9 DEF Unrolls

Share(o) == Lesser(OutputFloor, OutputBudget \div Len(o))
Spare(o, k) == o[k] - Lesser(Share(o), o[k])

LEMMA LesserIs ==
    ASSUME NEW v \in Int, NEW w \in Int
    PROVE  Lesser(v, w) \in {v, w} /\ Lesser(v, w) <= v /\ Lesser(v, w) <= w
  BY DEF Lesser

LEMMA BoundedCuts ==
    ASSUME NEW o \in Seq(Nat), NEW n \in Nat, n = Len(o), n # 0, Total(o) > OutputBudget,
           OutputBudget \in Nat, OutputFloor \in Nat
    PROVE  \E excess : /\ excess \in [0 .. n -> Int] /\ excess[0] = Total(o) - OutputBudget
                     /\ \A k \in 1 .. n : excess[k] = excess[k - 1] - Lesser(excess[k - 1], Spare(o, k))
                     /\ Bounded(o) = [j \in 1 .. n |-> o[j] - Lesser(excess[j - 1], Spare(o, j))]
  <1> DEFINE Is(f) == f = [k \in 0 .. Len(o) |->
                             IF k = 0 THEN Total(o) - OutputBudget
                             ELSE f[k - 1] - Lesser(f[k - 1], o[k] - Lesser(Share(o), o[k]))]
             G == [k \in 1 .. n |-> [v \in Int |-> v - Lesser(v, Spare(o, k))]]
             g == CHOOSE f : Is(f)
             base == Total(o) - OutputBudget
  <1>0. \A k \in 1 .. n : o[k] \in Nat OBVIOUS
  <1>1. Total(o) \in Nat
    <2>1. PICK sum : sum \in [0 .. n -> Nat] /\ Total(o) = sum[n] BY TotalSums
    <2> QED BY <2>1
  <1>2. Share(o) \in Nat
    <2>1. OutputBudget \div n \in Nat OBVIOUS
    <2> QED BY <2>1 DEF Share, Lesser
  <1>3. \A k \in 1 .. n : Spare(o, k) \in Nat BY <1>0, <1>2 DEF Spare, Lesser
  <1>4. \A v \in Int, k \in 1 .. n : v - Lesser(v, Spare(o, k)) \in Int BY <1>3 DEF Lesser
  <1>5. G \in [1 .. n -> [Int -> Int]] BY <1>4
  <1>6. base \in Int BY <1>1
  <1> HIDE DEF base
  <1>7. \E f : Is(f)
    <2>1. PICK f : Unrolls(f, n, Int, base, G)
      <3> HIDE DEF G
      <3> QED BY <1>5, <1>6, RecursionExists
    <2>2. f \in [0 .. n -> Int] /\ f[0] = base BY <2>1 DEF Unrolls
    <2>3. \A k \in 0 .. n : k # 0 => k \in 1 .. n /\ k - 1 \in 0 .. n OBVIOUS
    <2>4. \A k \in 0 .. n : k # 0 => f[k] = G[k][f[k - 1]] /\ f[k - 1] \in Int
      <3> HIDE DEF G
      <3> QED BY <2>1, <2>3 DEF Unrolls
    <2>5. \A k \in 0 .. n : k # 0 => f[k] = f[k - 1] - Lesser(f[k - 1], Spare(o, k)) BY <2>3, <2>4
    <2>6. f = [k \in 0 .. n |-> f[k]] BY <2>2
    <2>7. Is(f)
      <3> HIDE DEF G
      <3> QED BY <2>2, <2>5, <2>6 DEF Spare, base
    <2> QED BY <2>7
  <1>8. Is(g) BY <1>7
  <1>9. Bounded(o) = [k \in DOMAIN o |-> o[k] - Lesser(g[k - 1], o[k] - Lesser(Share(o), o[k]))]
    <2>1. ~(o = <<>> \/ Total(o) <= OutputBudget) BY <1>1
    <2> QED BY <2>1 DEF Bounded, Share
  <1> HIDE DEF g
  <1>10. g = [k \in 0 .. n |-> IF k = 0 THEN base ELSE g[k - 1] - Lesser(g[k - 1], Spare(o, k))]
    BY <1>8 DEF Spare, base
  <1>11. g[0] = base /\ DOMAIN g = 0 .. n /\ \A k \in 1 .. n : g[k] = g[k - 1] - Lesser(g[k - 1], Spare(o, k))
    <2>1. 0 \in 0 .. n /\ \A k \in 1 .. n : k \in 0 .. n /\ k # 0 OBVIOUS
    <2> QED BY <1>10, <2>1
  <1>12. g = [k \in 0 .. n |-> g[k]] BY <1>10
  <1>13. \A k \in 1 .. n : g[k - 1] \in Int => g[k] = G[k][g[k - 1]] BY <1>11
  <1>14. Unrolls(g, n, Int, base, G)
    <2> HIDE DEF G
    <2> QED BY <1>5, <1>6, <1>11, <1>12, <1>13, RecursionUnrolls
  <1>15. g \in [0 .. n -> Int] BY <1>14 DEF Unrolls
  <1>16. Bounded(o) = [k \in 1 .. n |-> o[k] - Lesser(g[k - 1], Spare(o, k))]
    <2>1. DOMAIN o = 1 .. n OBVIOUS
    <2> QED BY <1>9, <2>1 DEF Spare
  <1> QED BY <1>11, <1>15, <1>16 DEF base

LEMMA TimesMonotone ==
    ASSUME NEW n \in Nat, NEW s \in Nat, NEW d \in Nat, s <= d
    PROVE  n * s <= n * d /\ n * s \in Nat /\ n * d \in Nat
  <1>1. PICK r \in Nat : d = s + r
    <2>1. d - s \in Nat /\ d = s + (d - s) OBVIOUS
    <2> QED BY <2>1
  <1>2. n * (s + r) = n * s + n * r OBVIOUS
  <1>3. n * s \in Nat /\ n * r \in Nat OBVIOUS
  <1> QED BY <1>1, <1>2, <1>3

LEMMA SharesFit ==
    ASSUME NEW b \in Nat, NEW n \in Nat \ {0}
    PROVE  n * (b \div n) <= b
  OBVIOUS

(* Outputs that were too long fit the budget, and while the oldest are cut *)
(* to their share the newer ones are whole.                                *)
LEMMA BoundedFits ==
    ASSUME NEW o \in Seq(Nat), NEW n \in Nat, n = Len(o), n # 0, Total(o) > OutputBudget,
           OutputBudget \in Nat, OutputFloor \in Nat
    PROVE  /\ Bounded(o) \in Seq(Nat) /\ Len(Bounded(o)) = n
           /\ Total(Bounded(o)) <= OutputBudget
           /\ \A k \in 2 .. n : Bounded(o)[k] < o[k] => Bounded(o)[k - 1] <= OutputFloor
  <1>1. PICK excess : /\ excess \in [0 .. n -> Int] /\ excess[0] = Total(o) - OutputBudget
                    /\ \A k \in 1 .. n : excess[k] = excess[k - 1] - Lesser(excess[k - 1], Spare(o, k))
                    /\ Bounded(o) = [j \in 1 .. n |-> o[j] - Lesser(excess[j - 1], Spare(o, j))]
    BY BoundedCuts
  <1>2. PICK sum : /\ sum \in [0 .. n -> Nat] /\ sum[0] = 0
                   /\ \A k \in 1 .. n : sum[k] = sum[k - 1] + o[k]
                   /\ Total(o) = sum[n]
    BY TotalSums
  <1>3. \A k \in 1 .. n : o[k] \in Nat OBVIOUS
  <1> DEFINE share == Share(o)
             b == Bounded(o)
  <1>4. share \in Nat /\ share <= OutputFloor /\ n * share \in Nat /\ n * share <= OutputBudget
    <2>1. PICK d \in Nat : d = OutputBudget \div n /\ n * d <= OutputBudget
      <3>1. n \in Nat \ {0} OBVIOUS
      <3>2. n * (OutputBudget \div n) <= OutputBudget BY <3>1, SharesFit
      <3>3. OutputBudget \div n \in Nat OBVIOUS
      <3> QED BY <3>2, <3>3
    <2>2. share <= d /\ share \in Nat /\ share <= OutputFloor BY <2>1 DEF Share, Lesser
    <2> HIDE DEF share
    <2>3. n * share <= n * d /\ n * share \in Nat /\ n * d \in Nat BY <2>1, <2>2, TimesMonotone
    <2> QED BY <2>1, <2>2, <2>3
  <1>5. \A k \in 1 .. n : Spare(o, k) = o[k] - Lesser(share, o[k]) BY DEF Spare
  <1>6. \A k \in 1 .. n : b[k] = o[k] - Lesser(excess[k - 1], Spare(o, k)) BY <1>1
  <1>7. b = [k \in 1 .. n |-> b[k]] BY <1>1
  <1>8. \A k \in 0 .. n : excess[k] \in Int /\ sum[k] \in Nat BY <1>1, <1>2
  <1>9. \A k \in 1 .. n : k - 1 \in 0 .. n /\ k \in 0 .. n OBVIOUS
  <1> HIDE DEF share, b
  \* One output.
  <1>10. ASSUME NEW k \in 1 .. n, excess[k - 1] >= 0
         PROVE  /\ b[k] \in Nat /\ b[k] <= o[k] /\ excess[k] >= 0
                /\ excess[k - 1] - excess[k] = o[k] - b[k]
                /\ excess[k] > 0 => excess[k - 1] > 0 /\ b[k] <= share
                /\ b[k] < o[k] => excess[k - 1] > 0
    <2>1. excess[k - 1] \in Int /\ excess[k] \in Int BY <1>8, <1>9
    <2>2. o[k] \in Nat BY <1>3
    <2>3. Spare(o, k) = o[k] - Lesser(share, o[k]) /\ b[k] = o[k] - Lesser(excess[k - 1], Spare(o, k))
          /\ excess[k] = excess[k - 1] - Lesser(excess[k - 1], Spare(o, k))
      BY <1>1, <1>5, <1>6
    <2>4. PICK p : p = Lesser(share, o[k]) /\ p \in {share, o[k]} /\ p <= share /\ p <= o[k]
      BY <1>4, <2>2, LesserIs
    <2>5. Spare(o, k) = o[k] - p /\ p \in Nat /\ Spare(o, k) \in Nat BY <1>4, <2>2, <2>3, <2>4
    <2>6. PICK q : q = Lesser(excess[k - 1], Spare(o, k)) /\ q \in {excess[k - 1], Spare(o, k)}
                   /\ q <= excess[k - 1] /\ q <= Spare(o, k)
      BY <2>1, <2>5, LesserIs
    <2>7. b[k] = o[k] - q /\ excess[k] = excess[k - 1] - q /\ q \in Nat BY <1>10, <2>1, <2>3, <2>5, <2>6
    <2>8. excess[k - 1] \in Nat /\ q \in {excess[k - 1], o[k] - p} /\ q <= o[k] - p BY <1>10, <2>1, <2>5, <2>6
    <2>9. PICK x \in Nat : x = excess[k - 1] BY <2>8
    <2>10. PICK z \in Nat : z = o[k] BY <2>2
    <2>11. /\ z - q \in Nat /\ z - q <= z /\ x - q >= 0
           /\ x - (x - q) = z - (z - q)
           /\ x - q > 0 => x > 0 /\ z - q <= share
           /\ z - q < z => x > 0
      <3>1. share \in Nat BY <1>4
      <3>2. PICK s \in Nat : s = share BY <3>1
      <3>3. p \in {s, z} /\ p <= s /\ p <= z BY <2>4, <2>10, <3>2
      <3>4. q \in {x, z - p} /\ q <= x /\ q <= z - p BY <2>6, <2>8, <2>9, <2>10
      <3>5. p \in Nat /\ q \in Nat BY <3>3, <3>4
      <3> QED BY <3>2, <3>3, <3>4, <3>5
    <2> QED BY <2>7, <2>9, <2>10, <2>11
  <1>11. \A k \in 0 .. n : excess[k] >= 0
    <2> DEFINE S == {k \in 0 .. n : excess[k] >= 0}
    <2>1. 0 \in S BY <1>1, <1>2, <1>8
    <2>2. \A k \in 0 .. n - 1 : k \in S => k + 1 \in S
      <3> SUFFICES ASSUME NEW k \in 0 .. n - 1, k \in S PROVE k + 1 \in S OBVIOUS
      <3>1. k + 1 \in 1 .. n /\ (k + 1) - 1 = k /\ k + 1 \in 0 .. n OBVIOUS
      <3>2. excess[(k + 1) - 1] >= 0 BY <3>1
      <3> QED BY <1>10, <3>1, <3>2
    <2> HIDE DEF S
    <2>3. \A k \in 0 .. n : k \in S BY <2>1, <2>2, UpTo
    <2> QED BY <2>3 DEF S
  <1>12. \A k \in 1 .. n : b[k] \in Nat BY <1>9, <1>10, <1>11
  <1>13. b \in Seq(Nat) /\ Len(b) = n
    <2>1. b \in [1 .. n -> Nat] BY <1>7, <1>12
    <2> QED BY <2>1
  <1>14. PICK kept : /\ kept \in [0 .. n -> Nat] /\ kept[0] = 0
                     /\ \A k \in 1 .. n : kept[k] = kept[k - 1] + b[k]
                     /\ Total(b) = kept[n]
    BY <1>13, TotalSums
  \* What is cut from the first k is what over has lost; while it has not lost
  \* all, each of them has its share.
  <1>15. \A k \in 0 .. n : /\ kept[k] = sum[k] - excess[0] + excess[k]
                           /\ excess[k] > 0 => kept[k] <= k * share
    <2> DEFINE S == {k \in 0 .. n : /\ kept[k] = sum[k] - excess[0] + excess[k]
                                    /\ excess[k] > 0 => kept[k] <= k * share}
    <2>1. 0 \in S
      <3>1. 0 * share = 0 BY <1>4
      <3>2. 0 \in 0 .. n OBVIOUS
      <3>3. kept[0] = sum[0] - excess[0] + excess[0] BY <1>2, <1>8, <1>14, <3>2
      <3> QED BY <1>14, <3>1, <3>2, <3>3
    <2>2. \A k \in 0 .. n - 1 : k \in S => k + 1 \in S
      <3> SUFFICES ASSUME NEW k \in 0 .. n - 1, k \in S PROVE k + 1 \in S OBVIOUS
      <3>1. k + 1 \in 1 .. n /\ (k + 1) - 1 = k /\ k \in 0 .. n /\ k + 1 \in 0 .. n /\ 0 \in 0 .. n OBVIOUS
      <3>2. kept[k + 1] = kept[k] + b[k + 1] /\ sum[k + 1] = sum[k] + o[k + 1] BY <1>2, <1>14, <3>1
      <3>3. /\ excess[k] \in Int /\ excess[k + 1] \in Int /\ excess[0] \in Int
            /\ sum[k] \in Nat /\ o[k + 1] \in Nat /\ b[k + 1] \in Nat
        BY <1>3, <1>8, <1>12, <3>1
      <3>4. kept[k] \in Nat BY <1>14, <3>1
      <3>5. kept[k] = sum[k] - excess[0] + excess[k] /\ (excess[k] > 0 => kept[k] <= k * share) OBVIOUS
      <3>6. /\ excess[k] - excess[k + 1] = o[k + 1] - b[k + 1]
            /\ excess[k + 1] > 0 => excess[k] > 0 /\ b[k + 1] <= share
        <4>1. excess[(k + 1) - 1] >= 0 BY <1>11, <3>1
        <4> QED BY <1>10, <3>1, <4>1
      <3> HIDE DEF S
      <3>7. kept[k + 1] = sum[k + 1] - excess[0] + excess[k + 1]
        <4>1. PICK x \in Int, y \in Int, all \in Int : x = excess[k] /\ y = excess[k + 1] /\ all = excess[0] BY <3>3
        <4>2. PICK a \in Int, u \in Int, v \in Int, c \in Int :
                 a = kept[k] /\ u = sum[k] /\ v = o[k + 1] /\ c = b[k + 1]
          BY <3>3, <3>4
        <4>3. a = u - all + x /\ x - y = v - c BY <3>5, <3>6, <4>1, <4>2
        <4>4. a + c = (u + v) - all + y BY <4>3
        <4> QED BY <3>2, <4>1, <4>2, <4>4
      <3>8. ASSUME excess[k + 1] > 0 PROVE kept[k + 1] <= (k + 1) * share
        <4>1. (k + 1) * share = k * share + share /\ k * share \in Int BY <1>4, <3>1
        <4> QED BY <1>4, <3>2, <3>3, <3>4, <3>5, <3>6, <3>8, <4>1
      <3> QED BY <3>1, <3>7, <3>8 DEF S
    <2> HIDE DEF S
    <2>3. \A k \in 0 .. n : k \in S BY <2>1, <2>2, UpTo
    <2> QED BY <2>3 DEF S
  <1>16. Total(b) <= OutputBudget
    <2>1. n \in 0 .. n /\ 0 \in 0 .. n OBVIOUS
    <2>2. kept[n] = Total(o) - excess[0] + excess[n] /\ (excess[n] > 0 => kept[n] <= n * share) /\ excess[n] >= 0
      BY <1>2, <1>11, <1>15, <2>1
    <2>3. excess[0] = Total(o) - OutputBudget /\ Total(o) \in Nat /\ excess[n] \in Int /\ kept[n] \in Nat
      BY <1>1, <1>2, <1>8, <1>14, <2>1
    <2> QED BY <1>4, <1>14, <2>2, <2>3
  <1>17. ASSUME NEW k \in 2 .. n, b[k] < o[k] PROVE b[k - 1] <= OutputFloor
    <2>1. k \in 1 .. n /\ k - 1 \in 1 .. n /\ (k - 1) - 1 \in 0 .. n /\ k - 1 \in 0 .. n OBVIOUS
    <2>2. excess[k - 1] >= 0 /\ excess[(k - 1) - 1] >= 0 BY <1>11, <2>1
    <2>3. excess[k - 1] > 0 BY <1>10, <1>17, <2>1, <2>2
    <2>4. b[k - 1] <= share /\ b[k - 1] \in Nat BY <1>10, <2>1, <2>2, <2>3
    <2> QED BY <1>4, <2>4
  <1> QED BY <1>13, <1>16, <1>17 DEF b

CompactOutcomes == {"none", "complete", "incomplete", "overflow", "refused", "failed", "error"}
CompactStops == {"none", "end_turn", "tool_use", "max_tokens", "window", "refusal"}
CompactAsk == [bounded : BOOLEAN, inert : BOOLEAN]

CompactRecord ==
    [given : Seq(Nat), outputs : Seq(Nat), asks : Seq(CompactAsk),
     last : [stop : CompactStops, calls : BOOLEAN, text : BOOLEAN], paid : SUBSET Nat,
     outcome : [what : CompactOutcomes, of : Nat], usage : SUBSET Nat, counted : Nat]

(* The requests there may be: the first one as it is; then shorter outputs, *)
(* or no tools, or one after the other.                                     *)
AsksInv(c) ==
    /\ Len(c.asks) \in 1 .. 3
    /\ ~c.asks[1].bounded /\ ~c.asks[1].inert
    /\ Len(c.asks) = 2 => (c.asks[2].bounded <=> ~c.asks[2].inert)
    /\ Len(c.asks) = 3 => /\ c.asks[2].bounded /\ ~c.asks[2].inert
                          /\ c.asks[3].bounded /\ c.asks[3].inert
    /\ c.paid \subseteq 1 .. Len(c.asks)
    /\ IF c.asks[Len(c.asks)].bounded
       THEN c.outputs = Bounded(c.given) /\ Bounded(c.given) # c.given
       ELSE c.outputs = c.given

OutcomeInv(c) ==
    /\ c.outcome.what = "complete" =>
          /\ c.outcome.of = Len(c.asks) /\ c.last.text /\ ~c.last.calls
          /\ c.last.stop \notin {"none", "max_tokens", "window", "refusal"}
    /\ c.counted = IF c.outcome.what = "complete" THEN 1 ELSE 0
    /\ c.outcome.what \in {"complete", "incomplete", "overflow", "refused", "failed"} => c.usage = c.paid

CompactInv == compact \in CompactRecord /\ AsksInv(compact) /\ OutcomeInv(compact)

LEMMA CompactInitially == CompactInit => CompactInv
  <1> SUFFICES ASSUME CompactInit PROVE CompactInv OBVIOUS
  <1>1. PICK outputs \in OutputLengths :
          compact = [given |-> outputs, outputs |-> outputs, asks |-> <<[bounded |-> FALSE, inert |-> FALSE]>>,
                     last |-> NoAnswer, paid |-> {}, outcome |-> [what |-> "none", of |-> 0],
                     usage |-> {}, counted |-> 0]
    BY DEF CompactInit
  <1>2. outputs \in Seq(Nat) BY BudgetAssumption
  <1>3. <<[bounded |-> FALSE, inert |-> FALSE]>> \in Seq(CompactAsk) BY DEF CompactAsk
  <1>4. NoAnswer \in [stop : CompactStops, calls : BOOLEAN, text : BOOLEAN] BY DEF NoAnswer, CompactStops
  <1>5. [what |-> "none", of |-> 0] \in [what : CompactOutcomes, of : Nat] BY DEF CompactOutcomes
  <1>6. compact \in CompactRecord BY <1>1, <1>2, <1>3, <1>4, <1>5 DEF CompactRecord
  <1>7. AsksInv(compact) BY <1>1 DEF AsksInv
  <1>8. OutcomeInv(compact) BY <1>1 DEF OutcomeInv
  <1> QED BY <1>6, <1>7, <1>8 DEF CompactInv

LEMMA TotalTyped ==
    ASSUME NEW o \in Seq(Nat), NEW n \in Nat, n = Len(o) PROVE Total(o) \in Nat
  <1>1. PICK sum : /\ sum \in [0 .. n -> Nat] /\ sum[0] = 0
                   /\ \A k \in 1 .. n : sum[k] = sum[k - 1] + o[k]
                   /\ Total(o) = sum[n]
    BY TotalSums
  <1> QED BY <1>1

LEMMA AsksTyped ==
    ASSUME NEW c \in CompactRecord, NEW bounded \in BOOLEAN, NEW inert \in BOOLEAN
    PROVE  /\ Asks(c, bounded, inert) \in CompactRecord
           /\ Len(Asks(c, bounded, inert).asks) = Len(c.asks) + 1
           /\ \A k \in 1 .. Len(c.asks) : Asks(c, bounded, inert).asks[k] = c.asks[k]
           /\ Asks(c, bounded, inert).asks[Len(c.asks) + 1] = [bounded |-> bounded, inert |-> inert]
           /\ Asks(c, bounded, inert).paid = c.paid /\ Asks(c, bounded, inert).given = c.given
           /\ Asks(c, bounded, inert).outputs = c.outputs /\ Asks(c, bounded, inert).outcome = c.outcome
           /\ Asks(c, bounded, inert).counted = c.counted
  <1>1. c.asks \in Seq(CompactAsk) /\ [bounded |-> bounded, inert |-> inert] \in CompactAsk
    BY DEF CompactRecord, CompactAsk
  <1> DEFINE more == Append(c.asks, [bounded |-> bounded, inert |-> inert])
  <1>2. /\ more \in Seq(CompactAsk) /\ Len(more) = Len(c.asks) + 1
        /\ \A k \in 1 .. Len(c.asks) : more[k] = c.asks[k]
        /\ more[Len(c.asks) + 1] = [bounded |-> bounded, inert |-> inert]
    BY <1>1, AppendProperties
  <1>3. Asks(c, bounded, inert) = [c EXCEPT !.asks = more] BY DEF Asks
  <1> HIDE DEF more
  <1>4. Asks(c, bounded, inert).asks = more BY <1>3 DEF CompactRecord
  <1>5. /\ Asks(c, bounded, inert) \in CompactRecord
        /\ Asks(c, bounded, inert).paid = c.paid /\ Asks(c, bounded, inert).given = c.given
        /\ Asks(c, bounded, inert).outputs = c.outputs /\ Asks(c, bounded, inert).outcome = c.outcome
        /\ Asks(c, bounded, inert).counted = c.counted
    BY <1>2, <1>3 DEF CompactRecord
  <1> QED BY <1>2, <1>4, <1>5

LEMMA ConcludedKeeps ==
    ASSUME NEW c \in CompactRecord, AsksInv(c), c.counted = 0
    PROVE  Concluded(c) \in CompactRecord /\ AsksInv(Concluded(c)) /\ OutcomeInv(Concluded(c))
  <1> DEFINE what == CASE c.last.stop = "max_tokens"         -> "incomplete"
                       [] c.last.stop \in {"none", "window"} -> "overflow"
                       [] c.last.stop = "refusal"            -> "refused"
                       [] OTHER -> IF c.last.calls \/ ~c.last.text THEN "failed" ELSE "complete"
             of == IF what = "complete" THEN Len(c.asks) ELSE 0
             counted == IF what = "complete" THEN c.counted + 1 ELSE c.counted
  <1>1. what \in CompactOutcomes BY DEF CompactOutcomes
  <1>2. what = "complete" => /\ c.last.stop \notin {"none", "max_tokens", "window", "refusal"}
                             /\ ~c.last.calls /\ c.last.text
    <2>1. c.last.calls \in BOOLEAN /\ c.last.text \in BOOLEAN BY DEF CompactRecord
    <2> QED BY <2>1
  <1>3. Concluded(c) = [c EXCEPT !.outcome = [what |-> what, of |-> of], !.usage = c.paid, !.counted = counted]
    BY DEF Concluded
  <1> HIDE DEF what
  <1>4. of \in Nat /\ counted \in Nat /\ (what = "complete" => of = Len(c.asks))
        /\ counted = IF what = "complete" THEN 1 ELSE 0
    BY DEF CompactRecord
  <1> HIDE DEF of, counted
  <1>5. [what |-> what, of |-> of] \in [what : CompactOutcomes, of : Nat] BY <1>1, <1>4
  <1>6. /\ Concluded(c) \in CompactRecord
        /\ Concluded(c).outcome = [what |-> what, of |-> of] /\ Concluded(c).usage = c.paid
        /\ Concluded(c).counted = counted
        /\ Concluded(c).asks = c.asks /\ Concluded(c).paid = c.paid /\ Concluded(c).given = c.given
        /\ Concluded(c).outputs = c.outputs /\ Concluded(c).last = c.last
    BY <1>3, <1>4, <1>5 DEF CompactRecord
  <1>7. AsksInv(Concluded(c)) BY <1>6 DEF AsksInv
  <1>8. OutcomeInv(Concluded(c)) BY <1>2, <1>4, <1>6 DEF OutcomeInv
  <1> QED BY <1>6, <1>7, <1>8

LEMMA ContinuedKeeps ==
    ASSUME NEW c \in CompactRecord, AsksInv(c), c.counted = 0, c.outcome.what = "none"
    PROVE  Continued(c) \in CompactRecord /\ AsksInv(Continued(c)) /\ OutcomeInv(Continued(c))
  <1>0. c.asks \in Seq(CompactAsk) /\ Len(c.asks) \in 1 .. 3 /\ c.given \in Seq(Nat) /\ c.outputs \in Seq(Nat)
    BY DEF CompactRecord, AsksInv
  <1> DEFINE first == Len(c.asks) = 1 /\ c.last.stop \in {"none", "window"} /\ Bounded(c.outputs) # c.outputs
             second == ~c.asks[Len(c.asks)].inert /\ c.last.calls
             cut == [c EXCEPT !.outputs = Bounded(c.outputs)]
  <1>1. CASE first
    <2>1. Continued(c) = Asks(cut, TRUE, FALSE)
      <3>1. Len(c.asks) = 1 /\ c.last.stop \in {"none", "window"} /\ Bounded(c.outputs) # c.outputs BY <1>1
      <3> HIDE DEF first, second
      <3> QED BY <3>1 DEF Continued
    <2>2. c.outputs = c.given BY <1>1 DEF AsksInv
    <2>3. Bounded(c.outputs) \in Seq(Nat)
      <3>1. c.outputs # <<>> /\ ~(Total(c.outputs) <= OutputBudget) BY <1>1 DEF Bounded
      <3>2. PICK n \in Nat : n = Len(c.outputs) /\ n # 0 BY <1>0, <3>1, EmptySeq
      <3>3. Total(c.outputs) \in Nat BY <1>0, <3>2, TotalTyped
      <3>4. Total(c.outputs) > OutputBudget BY <3>1, <3>3, BudgetAssumption
      <3> QED BY <1>0, <3>2, <3>4, BoundedFits, BudgetAssumption
    <2>4. cut \in CompactRecord /\ cut.asks = c.asks /\ cut.paid = c.paid /\ cut.given = c.given
          /\ cut.outputs = Bounded(c.outputs) /\ cut.outcome = c.outcome /\ cut.counted = c.counted
      BY <2>3 DEF CompactRecord
    <2> HIDE DEF cut
    <2>5. PICK d : d = Asks(cut, TRUE, FALSE) OBVIOUS
    <2>6. /\ d \in CompactRecord /\ Len(d.asks) = 2 /\ d.asks[1] = c.asks[1]
          /\ d.asks[2] = [bounded |-> TRUE, inert |-> FALSE]
          /\ d.paid = c.paid /\ d.given = c.given /\ d.outputs = Bounded(c.given)
          /\ d.outcome = c.outcome /\ d.counted = c.counted
      <3>1. /\ d \in CompactRecord /\ Len(d.asks) = Len(cut.asks) + 1
            /\ \A k \in 1 .. Len(cut.asks) : d.asks[k] = cut.asks[k]
            /\ d.asks[Len(cut.asks) + 1] = [bounded |-> TRUE, inert |-> FALSE]
            /\ d.paid = cut.paid /\ d.given = cut.given /\ d.outputs = cut.outputs
            /\ d.outcome = cut.outcome /\ d.counted = cut.counted
        BY <2>4, <2>5, AsksTyped
      <3>2. Len(cut.asks) = 1 BY <1>1, <2>4
      <3>3. cut.asks = c.asks /\ cut.outputs = Bounded(c.given) BY <2>2, <2>4
      <3> QED BY <2>4, <3>1, <3>2, <3>3
    <2>7. AsksInv(d) BY <1>1, <2>2, <2>6 DEF AsksInv
    <2>8. OutcomeInv(d) BY <2>6 DEF OutcomeInv
    <2> QED BY <2>1, <2>5, <2>6, <2>7, <2>8
  <1>2. CASE ~first /\ second
    <2>1. Continued(c) = Asks(c, c.asks[Len(c.asks)].bounded, TRUE) BY <1>2 DEF Continued
    <2> DEFINE b == c.asks[Len(c.asks)].bounded
    <2>2. b \in BOOLEAN /\ b = c.asks[Len(c.asks)].bounded
      <3>1. PICK len \in 1 .. 3 : len = Len(c.asks) BY <1>0
      <3>2. len \in 1 .. len OBVIOUS
      <3>3. c.asks[len] \in CompactAsk BY <1>0, <3>1, <3>2
      <3> QED BY <3>1, <3>3 DEF CompactAsk
    <2> HIDE DEF b
    <2>3. PICK d : d = Asks(c, b, TRUE) OBVIOUS
    <2>4. /\ d \in CompactRecord /\ Len(d.asks) = Len(c.asks) + 1
          /\ \A k \in 1 .. Len(c.asks) : d.asks[k] = c.asks[k]
          /\ d.asks[Len(c.asks) + 1] = [bounded |-> b, inert |-> TRUE]
          /\ d.paid = c.paid /\ d.given = c.given /\ d.outputs = c.outputs
          /\ d.outcome = c.outcome /\ d.counted = c.counted
      BY <2>2, <2>3, AsksTyped
    <2>5. AsksInv(d)
      <3>1. Len(c.asks) \in {1, 2}
        <4>1. Len(c.asks) # 3
          <5>1. ASSUME Len(c.asks) = 3 PROVE FALSE
            <6>1. c.asks[3].inert BY <5>1 DEF AsksInv
            <6> QED BY <1>2, <5>1, <6>1
          <5> QED BY <5>1
        <4> QED BY <1>0, <4>1
      <3>2. CASE Len(c.asks) = 1
        <4>1. ~b /\ Len(d.asks) = 2 /\ d.asks[1] = c.asks[1] /\ d.asks[2] = [bounded |-> b, inert |-> TRUE]
          BY <2>2, <2>4, <3>2 DEF AsksInv
        <4> QED BY <2>2, <2>4, <3>2, <4>1 DEF AsksInv
      <3>3. CASE Len(c.asks) = 2
        <4>1. b /\ ~c.asks[2].inert BY <1>2, <2>2, <3>3 DEF AsksInv
        <4>2. Len(d.asks) = 3 /\ d.asks[1] = c.asks[1] /\ d.asks[2] = c.asks[2]
              /\ d.asks[3] = [bounded |-> b, inert |-> TRUE]
          BY <2>4, <3>3
        <4> QED BY <2>2, <2>4, <3>3, <4>1, <4>2 DEF AsksInv
      <3> QED BY <3>1, <3>2, <3>3
    <2>6. OutcomeInv(d) BY <2>4 DEF OutcomeInv
    <2> QED BY <2>1, <2>2, <2>3, <2>4, <2>5, <2>6
  <1>3. CASE ~first /\ ~second
    <2>1. Continued(c) = Concluded(c) BY <1>3 DEF Continued
    <2> QED BY <2>1, ConcludedKeeps
  <1> QED BY <1>1, <1>2, <1>3

LEMMA CompactStep == CompactInv /\ [CompactNext]_compact => CompactInv'
  <1> SUFFICES ASSUME CompactInv, [CompactNext]_compact PROVE CompactInv' OBVIOUS
  <1>0. compact \in CompactRecord /\ AsksInv(compact) /\ OutcomeInv(compact) BY DEF CompactInv
  <1>1. CASE SummaryAnswers
    <2>1. PICK stop \in {"end_turn", "tool_use", "max_tokens", "window", "refusal"},
               calls \in BOOLEAN, text \in BOOLEAN :
              compact' = Continued([compact EXCEPT !.last = [stop |-> stop, calls |-> calls, text |-> text],
                                                   !.paid = @ \cup {Now}])
      BY <1>1 DEF SummaryAnswers
    <2> DEFINE c == [compact EXCEPT !.last = [stop |-> stop, calls |-> calls, text |-> text],
                                    !.paid = @ \cup {Now}]
    <2>2. [stop |-> stop, calls |-> calls, text |-> text] \in [stop : CompactStops, calls : BOOLEAN, text : BOOLEAN]
      BY DEF CompactStops
    <2>3. compact.paid \cup {Now} \in SUBSET Nat /\ Now \in 1 .. Len(compact.asks) BY <1>0 DEF Now, CompactRecord, AsksInv
    <2>4. /\ c \in CompactRecord /\ c.asks = compact.asks /\ c.paid = compact.paid \cup {Now}
          /\ c.given = compact.given /\ c.outputs = compact.outputs /\ c.outcome = compact.outcome
          /\ c.counted = compact.counted
      BY <1>0, <2>2, <2>3 DEF CompactRecord
    <2> HIDE DEF c
    <2>5. AsksInv(c) BY <1>0, <2>3, <2>4 DEF AsksInv
    <2>6. c.counted = 0 /\ c.outcome.what = "none" BY <1>0, <1>1, <2>4 DEF OutcomeInv, SummaryAnswers, Busy
    <2>7. compact' = Continued(c) BY <2>1 DEF c
    <2> QED BY <2>4, <2>5, <2>6, <2>7, ContinuedKeeps DEF CompactInv
  <1>2. CASE SummaryTooLong
    <2> DEFINE c == [compact EXCEPT !.last = NoAnswer]
    <2>1. compact' = Continued(c) BY <1>2 DEF SummaryTooLong
    <2>2. NoAnswer \in [stop : CompactStops, calls : BOOLEAN, text : BOOLEAN] BY DEF NoAnswer, CompactStops
    <2>3. /\ c \in CompactRecord /\ c.asks = compact.asks /\ c.paid = compact.paid
          /\ c.given = compact.given /\ c.outputs = compact.outputs /\ c.outcome = compact.outcome
          /\ c.counted = compact.counted
      BY <1>0, <2>2 DEF CompactRecord
    <2> HIDE DEF c
    <2>4. AsksInv(c) BY <1>0, <2>3 DEF AsksInv
    <2>5. c.counted = 0 /\ c.outcome.what = "none" BY <1>0, <1>2, <2>3 DEF OutcomeInv, SummaryTooLong, Busy
    <2> QED BY <2>1, <2>3, <2>4, <2>5, ContinuedKeeps DEF CompactInv
  <1>3. CASE SummaryFails
    <2>1. compact' = [compact EXCEPT !.outcome = [what |-> "error", of |-> 0]] BY <1>3 DEF SummaryFails
    <2>2. [what |-> "error", of |-> 0] \in [what : CompactOutcomes, of : Nat] BY DEF CompactOutcomes
    <2>3. /\ compact' \in CompactRecord /\ compact'.asks = compact.asks /\ compact'.paid = compact.paid
          /\ compact'.given = compact.given /\ compact'.outputs = compact.outputs
          /\ compact'.outcome = [what |-> "error", of |-> 0] /\ compact'.counted = compact.counted
      BY <1>0, <2>1, <2>2 DEF CompactRecord
    <2>4. AsksInv(compact)' BY <1>0, <2>3 DEF AsksInv
    <2>5. compact.counted = 0 BY <1>0, <1>3 DEF OutcomeInv, SummaryFails, Busy
    <2>6. OutcomeInv(compact)' BY <2>3, <2>5 DEF OutcomeInv
    <2> QED BY <2>3, <2>4, <2>6 DEF CompactInv
  <1>4. CASE UNCHANGED compact BY <1>4 DEF CompactInv, AsksInv, OutcomeInv
  <1> QED BY <1>1, <1>2, <1>3, <1>4 DEF CompactNext

LEMMA CompactSound == CompactInv => CompactTypeOK /\ SummarySound
  <1> SUFFICES ASSUME CompactInv PROVE CompactTypeOK /\ SummarySound OBVIOUS
  <1>0. compact \in CompactRecord /\ AsksInv(compact) /\ OutcomeInv(compact) BY DEF CompactInv
  <1>1. compact.asks \in Seq(CompactAsk) /\ compact.given \in Seq(Nat) /\ compact.outputs \in Seq(Nat)
    BY <1>0 DEF CompactRecord
  <1>2. CompactTypeOK BY <1>0 DEF AsksInv, OutcomeInv, CompactTypeOK, Now
  <1> DEFINE inert == {k \in DOMAIN compact.asks : compact.asks[k].inert}
  <1>3. ASSUME NEW k \in inert PROVE k = Now
    <2>1. Len(compact.asks) \in 1 .. 3 /\ ~compact.asks[1].inert BY <1>0 DEF AsksInv
    <2>2. Len(compact.asks) = 3 => ~compact.asks[2].inert BY <1>0 DEF AsksInv
    <2>3. k \in 1 .. Len(compact.asks) /\ compact.asks[k].inert BY <1>1
    <2>4. PICK len \in 1 .. 3 : len = Len(compact.asks) BY <2>1
    <2>5. k \in 1 .. len BY <2>3, <2>4
    <2>6. k # 1 /\ (len = 3 => k # 2) BY <2>1, <2>2, <2>3, <2>4
    <2>7. len = 1 \/ len = 2 \/ len = 3 BY <2>4
    <2> HIDE DEF inert
    <2>8. k = len BY <2>5, <2>6, <2>7
    <2> QED BY <2>4, <2>8 DEF Now
  <1>4. Cardinality(inert) <= 1
    <2>1. inert = {} \/ inert = {Now} BY <1>3
    <2>2. CASE inert = {} BY <2>2, FS_EmptySet
    <2>3. CASE inert = {Now} BY <2>3, FS_Singleton
    <2> QED BY <2>1, <2>2, <2>3
  <1>5. ASSUME compact.asks[Now].bounded
        PROVE  /\ Total(compact.outputs) <= OutputBudget
               /\ \A k \in DOMAIN compact.outputs \ {1} :
                     compact.outputs[k] < compact.given[k] => compact.outputs[k - 1] <= OutputFloor
    <2>1. compact.outputs = Bounded(compact.given) /\ Bounded(compact.given) # compact.given
      BY <1>0, <1>5 DEF AsksInv, Now
    <2>2. compact.given # <<>> /\ ~(Total(compact.given) <= OutputBudget) BY <2>1 DEF Bounded
    <2>3. PICK n \in Nat : n = Len(compact.given) /\ n # 0 BY <1>1, <2>2, EmptySeq
    <2>4. Total(compact.given) \in Nat BY <1>1, <2>3, TotalTyped
    <2>5. Total(compact.given) > OutputBudget BY <2>2, <2>4, BudgetAssumption
    <2>6. /\ Bounded(compact.given) \in Seq(Nat) /\ Len(Bounded(compact.given)) = n
          /\ Total(Bounded(compact.given)) <= OutputBudget
          /\ \A k \in 2 .. n : Bounded(compact.given)[k] < compact.given[k]
                                  => Bounded(compact.given)[k - 1] <= OutputFloor
      BY <1>1, <2>3, <2>5, BoundedFits, BudgetAssumption
    <2>7. DOMAIN compact.outputs = 1 .. n BY <2>1, <2>6
    <2>8. \A k \in DOMAIN compact.outputs \ {1} : k \in 2 .. n BY <2>7
    <2> QED BY <2>1, <2>6, <2>8
  <1>6. ~compact.asks[Now].bounded => compact.outputs = compact.given BY <1>0 DEF AsksInv, Now
  <1>7. \A k \in DOMAIN compact.asks : compact.asks[k].inert => k = Now BY <1>3
  <1>8. SummarySound BY <1>0, <1>4, <1>5, <1>6, <1>7 DEF OutcomeInv, SummarySound, Now
  <1> QED BY <1>2, <1>8

(* Streams are well formed: for any replies, bounds and calls, a stream of  *)
(* StreamContext is in the protocol at all times, however the reply ends.   *)
THEOREM StreamsWellFormed == ReplySpec => [](ReplyTypeOK /\ WellFormed)
  <1>1. ReplyInv => ReplyTypeOK /\ WellFormed BY ReplySound
  <1> QED BY <1>1, ReplyInitially, ReplyStep, PTL DEF ReplySpec

(* StreamSettlement and CreditUsageGuard: every stream leaves one usage      *)
(* record with the credits the upstream reported, and charges the same.      *)
THEOREM StreamsSettledOnce == ReplySpec => []UsageSettledOnce
  <1>1. ReplyInv => UsageSettledOnce BY ReplySound
  <1> QED BY <1>1, ReplyInitially, ReplyStep, PTL DEF ReplySpec

=============================================================================
