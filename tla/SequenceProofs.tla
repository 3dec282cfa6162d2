---------------------------- MODULE SequenceProofs ----------------------------
EXTENDS SequenceMatch, SequenceTheorems, FiniteSetTheorems, WellFoundedInduction, TLAPS

-----------------------------------------------------------------------------
(* Minima, induction over the naturals up to a bound, and the existence of *)
(* a function defined by recursion on them.                                *)
LEMMA LeastIn ==
  ASSUME NEW S, S \subseteq Nat, S # {}
  PROVE  Min(S) \in S /\ \A n \in S : Min(S) <= n
  <1> DEFINE Less == {ss \in Nat \X Nat : ss[1] < ss[2]}
  <1>1. IsWellFoundedOn(Less, Nat)
    BY NatLessThanWellFounded DEF OpToRel
  <1>2. ASSUME NEW i \in Nat, NEW j \in Nat, ~ (<<j, i>> \in Less) PROVE i <= j
    BY <1>2
  <1> HIDE DEF Less
  <1>3. PICK i \in S : \A j \in S : ~ (<<j, i>> \in Less)
    BY <1>1, WFMin, Zenon
  <1>4. \A j \in S : i <= j
    BY <1>2, <1>3
  <1> QED
    BY <1>4 DEF Min

LEMMA GreatestIn ==
  ASSUME NEW n \in Nat, NEW S, S \subseteq 0 .. n, S # {}
  PROVE  Max(S) \in S /\ \A y \in S : y <= Max(S)
  <1> DEFINE bounds == {k \in Nat : \A y \in S : y <= k}
  <1>1. bounds \subseteq Nat /\ n \in bounds
    OBVIOUS
  <1> DEFINE m == Min(bounds)
  <1>2. m \in bounds /\ \A k \in bounds : m <= k
    <2> HIDE DEF bounds
    <2> QED
      BY <1>1, LeastIn
  <1>3. m \in S
    <2>1. SUFFICES ASSUME m \notin S PROVE FALSE
      OBVIOUS
    <2>2. m \in Nat /\ \A y \in S : y <= m /\ y \in Nat
      BY <1>2
    <2>3. m # 0
      <3>1. PICK y \in S : y \in 0 .. n
        OBVIOUS
      <3>2. y <= m /\ y # m
        BY <2>1, <2>2, <3>1
      <3> HIDE DEF m
      <3> QED
        BY <3>1, <3>2
    <2>4. m - 1 \in bounds
      BY <2>1, <2>2, <2>3
    <2> HIDE DEF m, bounds
    <2> QED
      BY <1>2, <2>2, <2>4
  <1>4. \A y \in S : m >= y
    BY <1>2
  <1> HIDE DEF m
  <1> QED
    BY <1>3, <1>4 DEF Max

LEMMA UpTo0 ==
  ASSUME NEW N \in Nat, NEW P, 0 \in P, \A n \in 0 .. N - 1 : n \in P => n + 1 \in P
  PROVE  \A n \in 0 .. N : n \in P
  <1> DEFINE bad == (0 .. N) \ P
  <1>1. SUFFICES ASSUME bad # {} PROVE FALSE
    OBVIOUS
  <1>2. bad \subseteq Nat
    OBVIOUS
  <1>3. Min(bad) \in bad /\ \A n \in bad : Min(bad) <= n
    <2> HIDE DEF bad
    <2> QED
      BY <1>1, <1>2, LeastIn
  <1> DEFINE m == Min(bad)
  <1>4. m \in 0 .. N /\ m \notin P /\ m # 0
    BY <1>3
  <1>5. m - 1 \in 0 .. N - 1 /\ m - 1 \in P
    <2> HIDE DEF m
    <2>1. m - 1 \in 0 .. N - 1
      BY <1>4
    <2>2. m - 1 \notin bad
      BY <1>3, <1>4 DEF m
    <2> QED
      BY <2>1, <2>2
  <1> HIDE DEF m
  <1>6. m - 1 + 1 \in P
    BY <1>5
  <1> QED
    BY <1>4, <1>6

Iterates(N, S, base, step) ==
  \E f \in [0 .. N -> S] : f[0] = base /\ \A n \in 1 .. N : f[n] = step[<<f[n - 1], n>>]

LEMMA Recursion ==
  ASSUME NEW N \in Nat, NEW S, NEW base \in S, NEW step \in [S \X Nat -> S]
  PROVE  Iterates(N, S, base, step)
  <1> DEFINE solves(f, k) ==
        f \in [0 .. k -> S] /\ f[0] = base /\ \A n \in 1 .. k : f[n] = step[<<f[n - 1], n>>]
             P == {k \in 0 .. N : \E f : solves(f, k)}
  <1>1. 0 \in P
    <2> DEFINE f == [n \in 0 .. 0 |-> base]
    <2>1. solves(f, 0)
      OBVIOUS
    <2> HIDE DEF f, solves
    <2> QED
      BY <2>1
  <1>2. ASSUME NEW k \in 0 .. N - 1, k \in P PROVE k + 1 \in P
    <2>1. PICK f : solves(f, k)
      BY <1>2
    <2> DEFINE g == [n \in 0 .. k + 1 |-> IF n <= k THEN f[n] ELSE step[<<f[k], k + 1>>]]
    <2>2. f[k] \in S /\ step[<<f[k], k + 1>>] \in S
      BY <2>1
    <2>3. g \in [0 .. k + 1 -> S] /\ g[0] = base
      BY <2>1, <2>2
    <2>4. ASSUME NEW n \in 1 .. k + 1 PROVE g[n] = step[<<g[n - 1], n>>]
      <3>1. CASE n \in 1 .. k
        <4>1. f[n] = step[<<f[n - 1], n>>]
          BY <2>1, <3>1
        <4>2. g[n - 1] = f[n - 1] /\ g[n] = f[n]
          BY <3>1
        <4> HIDE DEF g
        <4> QED
          BY <4>1, <4>2
      <3>2. CASE n = k + 1
        <4>1. g[n - 1] = f[k] /\ g[n] = step[<<f[k], k + 1>>]
          BY <3>2
        <4> HIDE DEF g
        <4> QED
          BY <4>1, <3>2
      <3> QED
        BY <3>1, <3>2
    <2>5. solves(g, k + 1)
      <3> HIDE DEF g
      <3> QED
        BY <2>3, <2>4
    <2> HIDE DEF g, solves
    <2> QED
      BY <2>5
  <1> HIDE DEF P
  <1>3. N \in P
    BY <1>1, <1>2, UpTo0
  <1> QED
    BY <1>3 DEF P, Iterates

-----------------------------------------------------------------------------
(* FlattenSeq puts every entry of the sequences in one place and nothing   *)
(* else.                                                                   *)
Deals(ss, n, flat, at) ==
  /\ at \in [1 .. Len(flat) -> Nat \X Nat]
  /\ \A k \in 1 .. Len(flat) :
       /\ at[k][1] \in 1 .. n /\ at[k][2] \in 1 .. Len(ss[at[k][1]])
       /\ flat[k] = ss[at[k][1]][at[k][2]]
  /\ \A k, l \in 1 .. Len(flat) : k # l => at[k] # at[l]
  /\ \A i \in 1 .. n : \A j \in 1 .. Len(ss[i]) : \E k \in 1 .. Len(flat) : at[k] = <<i, j>>

LEMMA DealsMore ==
  ASSUME NEW S, NEW ss \in Seq(Seq(S)), NEW n \in Nat, n + 1 <= Len(ss),
         NEW flat \in Seq(S), NEW at, Deals(ss, n, flat, at)
  PROVE  /\ flat \o ss[n + 1] \in Seq(S)
         /\ \E new : Deals(ss, n + 1, flat \o ss[n + 1], new)
  <1> DEFINE more == ss[n + 1]
             all == flat \o more
             new == [k \in 1 .. Len(all) |-> IF k <= Len(flat) THEN at[k] ELSE <<n + 1, k - Len(flat)>>]
  <1>1. more \in Seq(S) /\ Len(more) \in Nat /\ Len(flat) \in Nat
    BY LenProperties
  <1>2. /\ all \in Seq(S) /\ Len(all) = Len(flat) + Len(more)
        /\ \A k \in 1 .. Len(flat) + Len(more) :
             all[k] = IF k <= Len(flat) THEN flat[k] ELSE more[k - Len(flat)]
    <2> HIDE DEF more
    <2> QED
      BY <1>1, ConcatProperties
  <1>3. /\ 1 .. Len(flat) \subseteq 1 .. Len(all)
        /\ \A k \in 1 .. Len(all) : k \notin 1 .. Len(flat) => k - Len(flat) \in 1 .. Len(more)
        /\ \A k \in 1 .. Len(more) : Len(flat) + k \in 1 .. Len(all) /\ Len(flat) + k \notin 1 .. Len(flat)
    <2> HIDE DEF all, more
    <2> QED
      BY <1>1, <1>2
  <1>10. \A k \in 1 .. Len(all) :
          /\ k \in 1 .. Len(flat) => all[k] = flat[k] /\ new[k] = at[k]
          /\ k \notin 1 .. Len(flat) => all[k] = more[k - Len(flat)] /\ new[k] = <<n + 1, k - Len(flat)>>
    <2> HIDE DEF all, more
    <2> QED
      BY <1>1, <1>2
  <1> HIDE DEF all, more
  <1>4. \A k \in 1 .. Len(flat) :
          /\ at[k] \in Nat \X Nat /\ at[k][1] \in 1 .. n /\ at[k][2] \in 1 .. Len(ss[at[k][1]])
          /\ flat[k] = ss[at[k][1]][at[k][2]]
    BY DEF Deals
  <1>5. new \in [1 .. Len(all) -> Nat \X Nat]
    BY <1>1, <1>2, <1>4
  <1> HIDE DEF new
  <1>6. ASSUME NEW k \in 1 .. Len(all)
        PROVE  /\ new[k][1] \in 1 .. n + 1 /\ new[k][2] \in 1 .. Len(ss[new[k][1]])
               /\ all[k] = ss[new[k][1]][new[k][2]]
    <2>1. CASE k \in 1 .. Len(flat)
      <3>1. at[k][1] \in 1 .. n + 1
        BY <1>4, <2>1
      <3> QED
        BY <1>4, <1>10, <2>1, <3>1
    <2>2. CASE k \notin 1 .. Len(flat)
      <3>1. new[k][1] = n + 1 /\ new[k][2] = k - Len(flat) /\ all[k] = more[k - Len(flat)]
        BY <1>10, <2>2
      <3>2. k - Len(flat) \in 1 .. Len(more)
        BY <1>3, <2>2
      <3> QED
        BY <3>1, <3>2 DEF more
    <2> QED
      BY <2>1, <2>2
  <1>7. ASSUME NEW k \in 1 .. Len(all), NEW l \in 1 .. Len(all), k # l PROVE new[k] # new[l]
    <2>1. CASE k \in 1 .. Len(flat) /\ l \in 1 .. Len(flat)
      <3>1. at[k] # at[l]
        BY <1>7, <2>1 DEF Deals
      <3> QED
        BY <1>10, <2>1, <3>1
    <2>2. CASE k \notin 1 .. Len(flat) /\ l \notin 1 .. Len(flat)
      <3>1. k - Len(flat) # l - Len(flat)
        BY <1>1, <1>7
      <3>2. new[k] = <<n + 1, k - Len(flat)>> /\ new[l] = <<n + 1, l - Len(flat)>>
        BY <1>10, <2>2
      <3> QED
        BY <3>1, <3>2
    <2>3. ASSUME NEW i \in 1 .. Len(all)
          PROVE  /\ i \in 1 .. Len(flat) => new[i][1] <= n /\ new[i][1] \in Nat
                 /\ i \notin 1 .. Len(flat) => new[i][1] = n + 1
      <3>1. i \in 1 .. Len(flat) => at[i][1] <= n /\ at[i][1] \in Nat
        BY <1>4
      <3> QED
        BY <1>10, <3>1
    <2>4. CASE k \in 1 .. Len(flat) /\ l \notin 1 .. Len(flat)
      <3>1. new[k][1] <= n /\ new[k][1] \in Nat /\ new[l][1] = n + 1
        BY <2>3, <2>4
      <3>2. new[k][1] # new[l][1]
        BY <1>1, <3>1
      <3> QED
        BY <3>2, Zenon
    <2>5. CASE k \notin 1 .. Len(flat) /\ l \in 1 .. Len(flat)
      <3>1. new[l][1] <= n /\ new[l][1] \in Nat /\ new[k][1] = n + 1
        BY <2>3, <2>5
      <3>2. new[k][1] # new[l][1]
        BY <1>1, <3>1
      <3> QED
        BY <3>2, Zenon
    <2> QED
      BY <2>1, <2>2, <2>4, <2>5, Zenon
  <1>8. ASSUME NEW i \in 1 .. n + 1, NEW j \in 1 .. Len(ss[i])
        PROVE  \E k \in 1 .. Len(all) : new[k] = <<i, j>>
    <2>1. CASE i \in 1 .. n
      <3>1. PICK k \in 1 .. Len(flat) : at[k] = <<i, j>>
        BY <2>1 DEF Deals
      <3>2. k \in 1 .. Len(all) /\ new[k] = <<i, j>>
        BY <1>3, <1>10, <3>1
      <3> QED
        BY <3>2
    <2>2. CASE i = n + 1
      <3>1. j \in 1 .. Len(more)
        BY <2>2 DEF more
      <3>2. Len(flat) + j \in 1 .. Len(all) /\ Len(flat) + j \notin 1 .. Len(flat)
        BY <1>3, <3>1
      <3>3. new[Len(flat) + j] = <<n + 1, Len(flat) + j - Len(flat)>>
        BY <1>10, <3>2
      <3>4. Len(flat) + j - Len(flat) = j
        BY <1>1, <3>1
      <3> QED
        BY <2>2, <3>2, <3>3, <3>4
    <2> QED
      BY <2>1, <2>2
  <1>9. Deals(ss, n + 1, all, new)
    BY <1>5, <1>6, <1>7, <1>8 DEF Deals
  <1> QED
    BY <1>2, <1>9 DEF all, more

LEMMA FlattenDeals ==
  ASSUME NEW S, NEW ss \in Seq(Seq(S))
  PROVE  FlattenSeq(ss) \in Seq(S) /\ \E at : Deals(ss, Len(ss), FlattenSeq(ss), at)
  <1> DEFINE N == Len(ss)
  <1>1. N \in Nat /\ N = Len(ss)
    BY LenProperties
  <1> HIDE DEF N
  <1>2. CASE N = 0
    <2>1. FlattenSeq(ss) = <<>> /\ ss = <<>>
      <3>1. ss = <<>>
        BY <1>1, <1>2, EmptySeq
      <3> QED
        BY <1>1, <1>2, <3>1 DEF FlattenSeq
    <2> DEFINE at == [k \in 1 .. 0 |-> <<0, 0>>]
    <2>2. Deals(ss, N, <<>>, at)
      BY <1>2 DEF Deals
    <2> HIDE DEF at
    <2>3. <<>> \in Seq(S)
      BY EmptySeq
    <2> QED
      BY <1>1, <2>1, <2>2, <2>3
  <1>3. CASE N # 0
    <2> DEFINE flat == CHOOSE f : f = [i \in 1 .. N |-> IF i = 1 THEN ss[i] ELSE f[i - 1] \o ss[i]]
    <2>1. FlattenSeq(ss) = flat[N]
      BY <1>1, <1>3 DEF FlattenSeq
    <2>2. flat = [i \in 1 .. N |-> IF i = 1 THEN ss[i] ELSE flat[i - 1] \o ss[i]]
      <3> DEFINE step == [p \in Seq(S) \X Nat |-> IF p[2] + 1 <= N THEN p[1] \o ss[p[2] + 1] ELSE p[1]]
      <3>1. ss[1] \in Seq(S)
        BY <1>1, <1>3
      <3>2. step \in [Seq(S) \X Nat -> Seq(S)]
        <4>1. ASSUME NEW p \in Seq(S) \X Nat
              PROVE  (IF p[2] + 1 <= N THEN p[1] \o ss[p[2] + 1] ELSE p[1]) \in Seq(S)
          <5>1. CASE p[2] + 1 <= N
            <6>1. ss[p[2] + 1] \in Seq(S)
              BY <1>1, <5>1
            <6> QED
              BY <5>1, <6>1, ConcatProperties
          <5> QED
            BY <5>1
        <4> QED
          BY <4>1
      <3>3. PICK g \in [0 .. N - 1 -> Seq(S)] :
              g[0] = ss[1] /\ \A n \in 1 .. N - 1 : g[n] = step[<<g[n - 1], n>>]
        <4> HIDE DEF step
        <4>1. N - 1 \in Nat
          BY <1>1, <1>3
        <4>2. Iterates(N - 1, Seq(S), ss[1], step)
          BY <3>1, <3>2, <4>1, Recursion
        <4> QED
          BY <4>2 DEF Iterates
      <3> DEFINE f == [i \in 1 .. N |-> g[i - 1]]
      <3>4. \A i \in 1 .. N : f[i] = IF i = 1 THEN ss[i] ELSE f[i - 1] \o ss[i]
        <4>1. TAKE i \in 1 .. N
        <4>2. CASE i = 1
          BY <1>1, <3>3, <4>2
        <4>3. CASE i # 1
          <5>1. i - 1 \in 1 .. N - 1 /\ i - 2 \in 0 .. N - 1 /\ (i - 1) - 1 = i - 2 /\ (i - 1) + 1 = i
            BY <1>1, <4>3
          <5>5. g[i - 2] \in Seq(S)
            BY <3>3, <5>1
          <5>2. g[i - 1] = step[<<g[i - 2], i - 1>>]
            <6> HIDE DEF step
            <6>1. g[i - 1] = step[<<g[(i - 1) - 1], i - 1>>]
              BY <1>1, <3>3, <5>1
            <6> QED
              BY <5>1, <6>1
          <5>3. step[<<g[i - 2], i - 1>>] = g[i - 2] \o ss[i]
            <6>1. <<g[i - 2], i - 1>> \in Seq(S) \X Nat /\ (i - 1) + 1 <= N
              BY <1>1, <5>1, <5>5
            <6> QED
              BY <5>1, <6>1
          <5>4. f[i] = g[i - 1] /\ f[i - 1] = g[i - 2]
            <6>1. i - 1 \in 1 .. N
              BY <1>1, <5>1
            <6> QED
              BY <5>1, <6>1
          <5> HIDE DEF f, step
          <5> QED
            BY <4>3, <5>2, <5>3, <5>4
        <4> QED
          BY <4>2, <4>3
      <3>5. f = [i \in 1 .. N |-> IF i = 1 THEN ss[i] ELSE f[i - 1] \o ss[i]]
        <4>1. f = [i \in 1 .. N |-> f[i]]
          OBVIOUS
        <4> HIDE DEF f
        <4> QED
          BY <3>4, <4>1
      <3> HIDE DEF f
      <3> QED
        BY <3>5
    <2> HIDE DEF flat
    <2> DEFINE P == {n \in 0 .. N : n # 0 => flat[n] \in Seq(S) /\ \E at : Deals(ss, n, flat[n], at)}
    <2>3. 0 \in P
      <3> HIDE DEF flat
      <3> QED
        BY <1>1
    <2>4. ASSUME NEW n \in 0 .. N - 1, n \in P PROVE n + 1 \in P
      <3>1. n + 1 \in 1 .. N
        BY <1>1
      <3>2. CASE n = 0
        <4>1. flat[1] = ss[1] /\ ss[1] \in Seq(S)
          BY <1>1, <2>2, <3>1, <3>2
        <4> DEFINE at == [k \in 1 .. Len(ss[1]) |-> <<1, k>>]
        <4>2. Len(ss[1]) \in Nat
          BY <4>1, LenProperties
        <4>3. Deals(ss, 1, ss[1], at)
          <5>1. \A k \in 1 .. Len(ss[1]) : at[k] = <<1, k>> /\ at[k][1] = 1 /\ at[k][2] = k
            OBVIOUS
          <5>2. at \in [1 .. Len(ss[1]) -> Nat \X Nat]
            OBVIOUS
          <5> HIDE DEF at
          <5>3. \A i \in 1 .. 1 : \A j \in 1 .. Len(ss[i]) : \E k \in 1 .. Len(ss[1]) : at[k] = <<i, j>>
            BY <5>1
          <5> QED
            <6>1. \A k \in 1 .. Len(ss[1]) : /\ at[k][1] \in 1 .. 1 /\ at[k][2] \in 1 .. Len(ss[at[k][1]])
                                             /\ ss[1][k] = ss[at[k][1]][at[k][2]]
              BY <5>1
            <6>2. \A k, l \in 1 .. Len(ss[1]) : k # l => at[k] # at[l]
              BY <5>1
            <6> QED
              BY <5>2, <5>3, <6>1, <6>2 DEF Deals
        <4> HIDE DEF at
        <4> QED
          BY <3>1, <3>2, <4>1, <4>3
      <3>3. CASE n # 0
        <4>1. flat[n] \in Seq(S) /\ \E at : Deals(ss, n, flat[n], at)
          BY <2>4, <3>3
        <4>2. flat[n + 1] = flat[n] \o ss[n + 1]
          <5>1. n + 1 # 1 /\ (n + 1) - 1 = n
            BY <3>3
          <5> QED
            BY <2>2, <3>1, <5>1
        <4>3. n + 1 <= Len(ss) /\ n \in Nat
          BY <1>1, <3>1
        <4>4. PICK at : Deals(ss, n, flat[n], at)
          BY <4>1
        <4>5. flat[n] \o ss[n + 1] \in Seq(S) /\ \E new : Deals(ss, n + 1, flat[n] \o ss[n + 1], new)
          BY <4>1, <4>3, <4>4, DealsMore
        <4>6. flat[n + 1] \in Seq(S) /\ \E new : Deals(ss, n + 1, flat[n + 1], new)
          BY <4>2, <4>5
        <4>7. n + 1 \in 0 .. N
          BY <3>1
        <4> QED
          BY <4>6, <4>7
      <3> QED
        BY <3>2, <3>3
    <2> HIDE DEF P
    <2>5. N \in P
      <3>1. N \in Nat /\ 0 \in P /\ \A n \in 0 .. N - 1 : n \in P => n + 1 \in P
        BY <1>1, <2>3, <2>4
      <3>2. \A n \in 0 .. N : n \in P
        BY <3>1, UpTo0
      <3> QED
        BY <3>1, <3>2
    <2> QED
      BY <1>1, <1>3, <2>1, <2>5 DEF P
  <1> QED
    BY <1>2, <1>3

-----------------------------------------------------------------------------
(* A finite set in a strict total order: the element of each rank.         *)
StrictTotal(D, less) ==
  /\ \A i \in D : <<i, i>> \notin less
  /\ \A i, j, k \in D : <<i, j>> \in less /\ <<j, k>> \in less => <<i, k>> \in less
  /\ \A i, j \in D : i = j \/ <<i, j>> \in less \/ <<j, i>> \in less

RankOf(D, less, i) == Cardinality({j \in D : <<j, i>> \in less}) + 1

LEMMA RankOrder ==
  ASSUME NEW D, IsFiniteSet(D), NEW less, StrictTotal(D, less)
  PROVE  /\ \A i \in D : RankOf(D, less, i) \in 1 .. Cardinality(D)
         /\ \A i, j \in D : <<i, j>> \in less => RankOf(D, less, i) < RankOf(D, less, j)
         /\ \A i, j \in D : RankOf(D, less, i) = RankOf(D, less, j) => i = j
  <1> DEFINE lower(i) == {j \in D : <<j, i>> \in less}
  <1>1. \A i \in D : lower(i) \in SUBSET D /\ IsFiniteSet(lower(i)) /\ Cardinality(lower(i)) \in Nat
    <2>1. TAKE i \in D
    <2>2. lower(i) \in SUBSET D
      OBVIOUS
    <2> HIDE DEF lower
    <2>3. IsFiniteSet(lower(i))
      BY <2>2, FS_Subset
    <2> QED
      BY <2>2, <2>3, FS_CardinalityType
  <1>2. Cardinality(D) \in Nat
    BY FS_CardinalityType
  <1>3. ASSUME NEW i \in D, NEW T \in SUBSET D, lower(i) \cup {i} \subseteq T
        PROVE  Cardinality(lower(i)) + 1 <= Cardinality(T)
    <2>1. i \notin lower(i)
      BY DEF StrictTotal
    <2> HIDE DEF lower
    <2>2. IsFiniteSet(T)
      BY FS_Subset
    <2>3. Cardinality(lower(i) \cup {i}) = Cardinality(lower(i)) + 1 /\ IsFiniteSet(lower(i) \cup {i})
      BY <1>1, <2>1, FS_AddElement
    <2>4. Cardinality(lower(i) \cup {i}) <= Cardinality(T)
      BY <1>3, <2>2, FS_Subset
    <2> QED
      BY <2>3, <2>4
  <1>4. \A i \in D : RankOf(D, less, i) = Cardinality(lower(i)) + 1
    BY DEF RankOf
  <1>5. ASSUME NEW i \in D PROVE RankOf(D, less, i) \in 1 .. Cardinality(D)
    <2>1. lower(i) \cup {i} \subseteq D
      OBVIOUS
    <2>2. Cardinality(lower(i)) + 1 <= Cardinality(D)
      BY <1>3, <2>1
    <2> HIDE DEF lower
    <2> QED
      BY <1>1, <1>2, <1>4, <2>2
  <1>6. ASSUME NEW i \in D, NEW j \in D, <<i, j>> \in less
        PROVE  RankOf(D, less, i) < RankOf(D, less, j)
    <2>1. lower(i) \cup {i} \subseteq lower(j) /\ lower(j) \in SUBSET D
      BY <1>6 DEF StrictTotal
    <2>2. Cardinality(lower(i)) + 1 <= Cardinality(lower(j))
      BY <1>3, <2>1
    <2> HIDE DEF lower
    <2> QED
      BY <1>1, <1>4, <2>2
  <1>7. ASSUME NEW i \in D, NEW j \in D, RankOf(D, less, i) = RankOf(D, less, j) PROVE i = j
    <2>1. RankOf(D, less, i) \in Nat
      BY <1>5
    <2>2. <<i, j>> \notin less /\ <<j, i>> \notin less
      BY <1>6, <1>7, <2>1
    <2> QED
      BY <2>2 DEF StrictTotal
  <1> QED
    BY <1>5, <1>6, <1>7

LEMMA Ranked ==
  ASSUME NEW D, IsFiniteSet(D), NEW less, StrictTotal(D, less)
  PROVE  \A k \in 1 .. Cardinality(D) : \E i \in D : RankOf(D, less, i) = k
  <1> DEFINE n == Cardinality(D)
             rank == [i \in D |-> RankOf(D, less, i)]
  <1>1. n \in Nat
    BY FS_CardinalityType
  <1>2. rank \in [D -> 1 .. n]
    BY RankOrder
  <1>3. \A i, j \in D : rank[i] = rank[j] => i = j
    BY RankOrder
  <1> HIDE DEF rank
  <1>4. rank \in Injection(D, 1 .. n)
    BY <1>2, <1>3 DEF Injection, IsInjective
  <1>5. IsFiniteSet(1 .. n) /\ Cardinality(1 .. n) = n
    <2> HIDE DEF n
    <2> QED
      BY <1>1, FS_Interval
  <1>6. rank \in Surjection(D, 1 .. n)
    BY <1>4, <1>5, FS_Injection
  <1>7. \A k \in 1 .. n : \E i \in D : rank[i] = k
    BY <1>6 DEF Surjection
  <1> QED
    BY <1>7 DEF rank

(* A list of the elements by rank is in order, and has each one once.      *)
ByRank(D, less, p) ==
  /\ p \in [1 .. Cardinality(D) -> D]
  /\ \A k \in 1 .. Cardinality(D) : RankOf(D, less, p[k]) = k
InOrder(D, less, p) ==
  /\ \A i \in D : \E k \in 1 .. Cardinality(D) : p[k] = i
  /\ \A k, l \in 1 .. Cardinality(D) : p[k] = p[l] => k = l
  /\ \A k, l \in 1 .. Cardinality(D) : k < l => <<p[k], p[l]>> \in less

LEMMA Ascends ==
  ASSUME NEW D, IsFiniteSet(D), NEW less, StrictTotal(D, less), NEW p, ByRank(D, less, p)
  PROVE  InOrder(D, less, p)
  <1>0. /\ p \in [1 .. Cardinality(D) -> D]
        /\ \A k \in 1 .. Cardinality(D) : RankOf(D, less, p[k]) = k
    BY DEF ByRank
  <1>1. ASSUME NEW i \in D PROVE \E k \in 1 .. Cardinality(D) : p[k] = i
    <2>1. RankOf(D, less, i) \in 1 .. Cardinality(D)
      BY RankOrder
    <2>2. RankOf(D, less, p[RankOf(D, less, i)]) = RankOf(D, less, i)
      BY <1>0, <2>1
    <2>3. p[RankOf(D, less, i)] = i
      BY <1>0, <2>1, <2>2, RankOrder
    <2> QED
      BY <2>1, <2>3
  <1>2. ASSUME NEW k \in 1 .. Cardinality(D), NEW l \in 1 .. Cardinality(D), k < l
        PROVE  <<p[k], p[l]>> \in less
    <2>1. p[k] \in D /\ p[l] \in D /\ p[k] # p[l]
      BY <1>0, <1>2
    <2>2. <<p[l], p[k]>> \notin less
      <3>1. <<p[l], p[k]>> \in less => l < k
        BY <1>0, <2>1, RankOrder
      <3> QED
        BY <1>2, <3>1
    <2> QED
      BY <2>1, <2>2 DEF StrictTotal
  <1>3. \A k, l \in 1 .. Cardinality(D) : p[k] = p[l] => k = l
    BY <1>0
  <1> QED
    BY <1>1, <1>2, <1>3 DEF InOrder

-----------------------------------------------------------------------------
(* Regions with an iteration to stand for, and a count in each.            *)
Lines == [slope : Int, intercept : Int]
Over(r) == r.outer .. r.outerMaximum

Regions ==
  {r \in [outer : Nat, outerMaximum : Nat, index : Nat, low : Lines, high : Lines,
          currentEmpty : BOOLEAN, emptyRepeatBlocked : BOOLEAN] :
     r.outer <= r.outerMaximum /\ \A o \in Over(r) : At(r.low, o) <= At(r.high, o)}

LEMMA RegionFields ==
  ASSUME NEW r \in Regions
  PROVE  /\ r.outer \in Nat /\ r.outerMaximum \in Nat /\ r.outer <= r.outerMaximum
         /\ r.index \in Nat /\ r.low \in Lines /\ r.high \in Lines
         /\ r.currentEmpty \in BOOLEAN /\ r.emptyRepeatBlocked \in BOOLEAN
         /\ Over(r) \subseteq Nat /\ Over(r) # {} /\ r.outer \in Over(r) /\ r.outerMaximum \in Over(r)
         /\ \A o \in Over(r) : At(r.low, o) <= At(r.high, o)
  BY DEF Regions, Over

LEMMA AtInt ==
  ASSUME NEW l \in Lines, NEW o \in Int
  PROVE  At(l, o) \in Int /\ At(l, o) = l.slope * o + l.intercept /\ l.slope \in Int /\ l.intercept \in Int
  BY DEF At, Lines

LEMMA ConstantLine ==
  ASSUME NEW n \in Int
  PROVE  Constant(n) \in Lines /\ \A o \in Int : At(Constant(n), o) = n
  BY DEF Constant, Line, At, Lines

LEMMA PlusLine ==
  ASSUME NEW l \in Lines, NEW n \in Int
  PROVE  Plus(l, n) \in Lines /\ \A o \in Int : At(Plus(l, n), o) = At(l, o) + n
  BY DEF Plus, At, Lines

(* The quotients round down and up.                                        *)
LEMMA Quotient ==
  ASSUME NEW n \in Int, NEW d \in Int, d > 0
  PROVE  n \div d \in Int /\ d * (n \div d) <= n /\ n < d * (n \div d) + d
  OBVIOUS

LEMMA Multiples ==
  ASSUME NEW d \in Int, d > 0, NEW x \in Int, NEW y \in Int
  PROVE  (x <= y <=> d * x <= d * y) /\ (x < y <=> d * x < d * y)
  OBVIOUS

LEMMA FloorBounds ==
  ASSUME NEW n \in Int, NEW d \in Int, d > 0, NEW o \in Int
  PROVE  /\ Floor(n, d) \in Int /\ (o <= Floor(n, d) <=> d * o <= n)
         /\ Floor(n, -d) \in Int /\ (o <= Floor(n, -d) <=> d * o <= -n)
         /\ Ceil(n, d) \in Int /\ (Ceil(n, d) <= o <=> n <= d * o)
         /\ Ceil(n, -d) \in Int /\ (Ceil(n, -d) <= o <=> -n <= d * o)
  <1> DEFINE below(m) == m \div d
  <1>1. ASSUME NEW m \in Int, NEW x \in Int PROVE below(m) \in Int /\ (x <= below(m) <=> d * x <= m)
    <2>1. below(m) \in Int /\ d * below(m) <= m /\ m < d * below(m) + d
      BY Quotient
    <2>2. d * (below(m) + 1) = d * below(m) + d
      BY <2>1
    <2>3. x <= below(m) => d * x <= d * below(m)
      BY <2>1, Multiples
    <2>4. d * x < d * (below(m) + 1) => x < below(m) + 1
      BY <2>1, Multiples
    <2>5. d * x \in Int /\ d * below(m) \in Int
      BY <2>1
    <2> HIDE DEF below
    <2> QED
      BY <2>1, <2>2, <2>3, <2>4, <2>5
  <1>2. Floor(n, d) = below(n) /\ Floor(n, -d) = below(-n)
    BY DEF Floor
  <1>3. Ceil(n, d) = -below(-n) /\ Ceil(n, -d) = -below(n)
    BY DEF Floor, Ceil
  <1>4. d * (-o) = -(d * o) /\ d * o \in Int
    OBVIOUS
  <1> HIDE DEF below
  <1>5. /\ below(n) \in Int /\ (o <= below(n) <=> d * o <= n)
        /\ below(-n) \in Int /\ (o <= below(-n) <=> d * o <= -n)
    BY <1>1
  <1>6. (-o <= below(-n) <=> d * (-o) <= -n) /\ (-o <= below(n) <=> d * (-o) <= n)
    BY <1>1
  <1> QED
    BY <1>2, <1>3, <1>4, <1>5, <1>6

-----------------------------------------------------------------------------
LEMMA TwoInts ==
  ASSUME NEW a \in Int, NEW b \in Int
  PROVE  /\ Max({a, b}) = IF a >= b THEN a ELSE b
         /\ Min({a, b}) = IF a <= b THEN a ELSE b
  BY DEF Max, Min

(* The sequence w holds the part of r over the iterations in K, or nothing *)
(* when there are none.                                                    *)
Part(s, r) ==
  /\ s \in Regions /\ Over(s) \subseteq Over(r)
  /\ s.index = r.index /\ s.low = r.low /\ s.high = r.high
  /\ s.currentEmpty = r.currentEmpty /\ s.emptyRepeatBlocked = r.emptyRepeatBlocked

Restricts(w, r, K) ==
  IF K = {} THEN w = <<>> ELSE \E s : w = <<s>> /\ Part(s, r) /\ Over(s) = K

LEMMA SubsetRestricts ==
  ASSUME NEW r \in Regions, NEW a \in Int, NEW b \in Int
  PROVE  Restricts(OuterSubset(r, a, b), r, {o \in Over(r) : a <= o /\ o <= b})
  <1> DEFINE lower == Max({r.outer, a})
             upper == Min({r.outerMaximum, b})
             K == {o \in Over(r) : a <= o /\ o <= b}
             s == [r EXCEPT !.outer = lower, !.outerMaximum = upper]
  <1>1. r.outer \in Nat /\ r.outerMaximum \in Nat
    BY RegionFields
  <1>2. lower = (IF r.outer >= a THEN r.outer ELSE a) /\ upper = (IF r.outerMaximum <= b THEN r.outerMaximum ELSE b)
    <2>1. r.outer \in Int /\ r.outerMaximum \in Int
      BY <1>1
    <2> QED
      BY <2>1, TwoInts
  <1>3. lower \in Nat /\ upper \in Int /\ K = lower .. upper
    BY <1>1, <1>2 DEF Over
  <1>4. OuterSubset(r, a, b) = IF lower > upper THEN <<>> ELSE <<s>>
    BY DEF OuterSubset
  <1>5. lower <= upper => Part(s, r) /\ Over(s) = lower .. upper
    <2> HIDE DEF lower, upper
    <2>1. ASSUME lower <= upper PROVE Part(s, r) /\ Over(s) = lower .. upper
      <3>1. upper \in Nat
        BY <1>3, <2>1
      <3>2. /\ s \in [outer : Nat, outerMaximum : Nat, index : Nat, low : Lines, high : Lines,
                      currentEmpty : BOOLEAN, emptyRepeatBlocked : BOOLEAN]
            /\ s.outer = lower /\ s.outerMaximum = upper /\ s.index = r.index /\ s.low = r.low
            /\ s.high = r.high
            /\ s.currentEmpty = r.currentEmpty /\ s.emptyRepeatBlocked = r.emptyRepeatBlocked
        BY <1>3, <3>1 DEF Regions
      <3> HIDE DEF s
      <3>3. Over(s) = lower .. upper
        BY <3>2 DEF Over
      <3>4. Over(s) \subseteq Over(r)
        BY <1>3, <3>3 DEF K
      <3>5. \A o \in Over(r) : At(r.low, o) <= At(r.high, o)
        BY RegionFields
      <3>6. \A o \in Over(s) : At(s.low, o) <= At(s.high, o)
        BY <3>2, <3>4, <3>5
      <3>7. s \in Regions
        BY <2>1, <3>2, <3>6 DEF Regions
      <3> QED
        BY <3>2, <3>3, <3>4, <3>7 DEF Part
    <2> QED
      BY <2>1
  <1>6. lower > upper <=> K = {}
    <2> HIDE DEF lower, upper, K
    <2> QED
      BY <1>3
  <1> HIDE DEF lower, upper, K, s
  <1>7. K = {} => OuterSubset(r, a, b) = <<>>
    BY <1>4, <1>6
  <1>8. K # {} => OuterSubset(r, a, b) = <<s>> /\ Part(s, r) /\ Over(s) = K
    BY <1>3, <1>4, <1>5, <1>6
  <1>9. Restricts(OuterSubset(r, a, b), r, K)
    BY <1>7, <1>8 DEF Restricts
  <1> QED
    BY <1>9 DEF K

LEMMA WholeRestricts ==
  ASSUME NEW r \in Regions, NEW K, K = Over(r)
  PROVE  Restricts(<<r>>, r, K)
  BY RegionFields DEF Restricts, Part

LEMMA WhereRestricts ==
  ASSUME NEW r \in Regions, NEW line \in Lines, NEW limit \in Int
  PROVE  /\ Restricts(WhereAtMost(r, line, limit), r, {o \in Over(r) : At(line, o) <= limit})
         /\ Restricts(WhereAtLeast(r, line, limit), r, {o \in Over(r) : At(line, o) >= limit})
  <1> DEFINE room == limit - line.intercept
             Most == {o \in Over(r) : At(line, o) <= limit}
             Least == {o \in Over(r) : At(line, o) >= limit}
             Within(a, b) == {o \in Over(r) : a <= o /\ o <= b}
  <1>1. /\ line.slope \in Int /\ line.intercept \in Int /\ room \in Int
        /\ \A o \in Over(r) : /\ o \in Int /\ At(line, o) \in Int
                              /\ (At(line, o) <= limit <=> line.slope * o <= room)
                              /\ (At(line, o) >= limit <=> room <= line.slope * o)
    <2>1. line.slope \in Int /\ line.intercept \in Int /\ room \in Int
      BY DEF Lines
    <2>2. ASSUME NEW o \in Over(r)
          PROVE  /\ o \in Int /\ At(line, o) \in Int
                 /\ (At(line, o) <= limit <=> line.slope * o <= room)
                 /\ (At(line, o) >= limit <=> room <= line.slope * o)
      <3>1. o \in Int
        BY RegionFields
      <3>2. At(line, o) = line.slope * o + line.intercept /\ line.slope * o \in Int
        BY <2>1, <3>1 DEF At
      <3> QED
        BY <2>1, <3>1, <3>2
    <2> QED
      BY <2>1, <2>2
  <1>2. r.outer \in Int /\ r.outerMaximum \in Int /\ \A o \in Over(r) : r.outer <= o /\ o <= r.outerMaximum
    BY RegionFields DEF Over
  <1>3. CASE line.slope = 0
    <2>1. \A o \in Over(r) : line.slope * o = 0
      BY <1>1, <1>3
    <2>2. WhereAtMost(r, line, limit) = (IF room >= 0 THEN <<r>> ELSE <<>>)
      BY <1>3 DEF WhereAtMost
    <2>3. WhereAtLeast(r, line, limit) = (IF room <= 0 THEN <<r>> ELSE <<>>)
      BY <1>3 DEF WhereAtLeast
    <2>4. room >= 0 => Most = Over(r)
      BY <1>1, <2>1
    <2>5. ~ (room >= 0) => Most = {}
      BY <1>1, <2>1
    <2>6. room <= 0 => Least = Over(r)
      BY <1>1, <2>1
    <2>7. ~ (room <= 0) => Least = {}
      BY <1>1, <2>1
    <2>8. Restricts(<<>>, r, {})
      BY DEF Restricts
    <2> HIDE DEF room, Most, Least
    <2>9. Restricts(WhereAtMost(r, line, limit), r, Most)
      BY <2>2, <2>4, <2>5, <2>8, WholeRestricts
    <2>10. Restricts(WhereAtLeast(r, line, limit), r, Least)
      BY <2>3, <2>6, <2>7, <2>8, WholeRestricts
    <2> QED
      BY <2>9, <2>10 DEF Most, Least
  <1>4. CASE line.slope > 0
    <2> DEFINE f == Floor(room, line.slope)
               c == Ceil(room, line.slope)
    <2>1. /\ f \in Int /\ c \in Int
          /\ \A o \in Int : (o <= f <=> line.slope * o <= room) /\ (c <= o <=> room <= line.slope * o)
      <3> HIDE DEF room
      <3> QED
        BY <1>1, <1>4, FloorBounds
    <2>2. WhereAtMost(r, line, limit) = OuterSubset(r, r.outer, f)
      BY <1>1, <1>4 DEF WhereAtMost
    <2>3. WhereAtLeast(r, line, limit) = OuterSubset(r, c, r.outerMaximum)
      BY <1>1, <1>4 DEF WhereAtLeast
    <2> HIDE DEF f, c, room
    <2>4. Most = Within(r.outer, f) /\ Least = Within(c, r.outerMaximum)
      BY <1>1, <1>2, <2>1
    <2> HIDE DEF Most, Least
    <2>5. /\ Restricts(OuterSubset(r, r.outer, f), r, Within(r.outer, f))
          /\ Restricts(OuterSubset(r, c, r.outerMaximum), r, Within(c, r.outerMaximum))
      BY <1>2, <2>1, SubsetRestricts
    <2>6. /\ Restricts(WhereAtMost(r, line, limit), r, Most)
          /\ Restricts(WhereAtLeast(r, line, limit), r, Least)
      BY <2>2, <2>3, <2>4, <2>5
    <2> QED
      BY <2>6 DEF Most, Least
  <1>5. CASE line.slope < 0
    <2> DEFINE f == Floor(room, line.slope)
               c == Ceil(room, line.slope)
               d == -line.slope
    <2>1. /\ f \in Int /\ c \in Int
          /\ \A o \in Int : (o <= f <=> room <= line.slope * o) /\ (c <= o <=> line.slope * o <= room)
      <3>1. d \in Int /\ d > 0 /\ line.slope = -d
        BY <1>1, <1>5
      <3> HIDE DEF room, d
      <3>2. /\ f \in Int /\ c \in Int
            /\ \A o \in Int : (o <= f <=> d * o <= -room) /\ (c <= o <=> -room <= d * o)
        BY <1>1, <3>1, FloorBounds
      <3>3. \A o \in Int : d * o = -(line.slope * o) /\ line.slope * o \in Int
        BY <1>1, <3>1
      <3> HIDE DEF f, c
      <3> QED
        BY <1>1, <3>2, <3>3
    <2>2. WhereAtMost(r, line, limit) = OuterSubset(r, c, r.outerMaximum)
      BY <1>1, <1>5 DEF WhereAtMost
    <2>3. WhereAtLeast(r, line, limit) = OuterSubset(r, r.outer, f)
      BY <1>1, <1>5 DEF WhereAtLeast
    <2> HIDE DEF f, c, room, d
    <2>4. Least = Within(r.outer, f) /\ Most = Within(c, r.outerMaximum)
      BY <1>1, <1>2, <2>1
    <2> HIDE DEF Most, Least
    <2>5. /\ Restricts(OuterSubset(r, r.outer, f), r, Within(r.outer, f))
          /\ Restricts(OuterSubset(r, c, r.outerMaximum), r, Within(c, r.outerMaximum))
      BY <1>2, <2>1, SubsetRestricts
    <2>6. /\ Restricts(WhereAtMost(r, line, limit), r, Most)
          /\ Restricts(WhereAtLeast(r, line, limit), r, Least)
      BY <2>2, <2>3, <2>4, <2>5
    <2> QED
      BY <2>6 DEF Most, Least
  <1> QED
    BY <1>1, <1>3, <1>4, <1>5

-----------------------------------------------------------------------------
(* Two regions of one frontier have no state in common; they do not even   *)
(* touch at an iteration with which both begin.                            *)
Apart(r, s) ==
  /\ \A o \in Over(r) \cap Over(s) : At(r.high, o) < At(s.low, o) \/ At(s.high, o) < At(r.low, o)
  /\ r.outer = s.outer => ~ CountsTouchAt(r, s, r.outer)

PairwiseApart(q) == \A i, j \in DOMAIN q : i # j => Apart(q[i], q[j])

Holds(r, o, n) == o \in Over(r) /\ At(r.low, o) <= n /\ n <= At(r.high, o)

(* The region of two that adjoin.                                          *)
Span(r, s) == [r EXCEPT !.outer = Min({@, s.outer}), !.outerMaximum = Max({@, s.outerMaximum})]

(* A property of regions that survives it.                                 *)
Keeps(G) ==
  /\ G \subseteq Regions
  /\ \A r, s \in G : SameState(r, s) /\ Adjoining(r, s) => Span(r, s) \in G

LEMMA ApartSymmetric ==
  ASSUME NEW r, NEW s, Apart(r, s)
  PROVE  Apart(s, r)
  BY DEF Apart, CountsTouchAt, Touch

LEMMA SpanOf ==
  ASSUME NEW r \in Regions, NEW s \in Regions, Adjoining(r, s)
  PROVE  /\ Span(r, s) \in Regions /\ Over(Span(r, s)) = Over(r) \cup Over(s)
         /\ Span(r, s).outer \in {r.outer, s.outer}
         /\ Span(r, s).low = r.low /\ Span(r, s).high = r.high
         /\ Span(r, s).index = r.index /\ Span(r, s).currentEmpty = r.currentEmpty
         /\ Span(r, s).emptyRepeatBlocked = r.emptyRepeatBlocked
  <1> DEFINE a == Min({r.outer, s.outer})
             b == Max({r.outerMaximum, s.outerMaximum})
             t == Span(r, s)
  <1>1. /\ r.outer \in Nat /\ r.outerMaximum \in Nat /\ r.outer <= r.outerMaximum
        /\ s.outer \in Nat /\ s.outerMaximum \in Nat /\ s.outer <= s.outerMaximum
    BY RegionFields
  <1>2. /\ a = (IF r.outer <= s.outer THEN r.outer ELSE s.outer)
        /\ b = (IF r.outerMaximum >= s.outerMaximum THEN r.outerMaximum ELSE s.outerMaximum)
    <2>1. /\ r.outer \in Int /\ r.outerMaximum \in Int /\ s.outer \in Int /\ s.outerMaximum \in Int
      BY <1>1
    <2> QED
      BY <2>1, TwoInts
  <1>3. /\ t \in [outer : Nat, outerMaximum : Nat, index : Nat, low : Lines, high : Lines,
                  currentEmpty : BOOLEAN, emptyRepeatBlocked : BOOLEAN]
        /\ t.outer = a /\ t.outerMaximum = b /\ t.low = r.low /\ t.high = r.high
        /\ t.index = r.index /\ t.currentEmpty = r.currentEmpty
        /\ t.emptyRepeatBlocked = r.emptyRepeatBlocked
    <2>1. a \in Nat /\ b \in Nat
      BY <1>1, <1>2
    <2> HIDE DEF a, b
    <2>2. t = [r EXCEPT !.outer = a, !.outerMaximum = b]
      BY DEF Span, a, b
    <2> HIDE DEF t
    <2> QED
      BY <2>1, <2>2 DEF Regions
  <1> HIDE DEF a, b, t
  <1>4. r.low = s.low /\ r.high = s.high /\ r.outerMaximum + 1 >= s.outer /\ s.outerMaximum + 1 >= r.outer
    BY DEF Adjoining, Touch
  <1>5. a \in {r.outer, s.outer} /\ a <= b
    BY <1>1, <1>2
  <1>6. Over(t) = Over(r) \cup Over(s)
    BY <1>1, <1>2, <1>3, <1>4 DEF Over
  <1>7. \A o \in Over(t) : At(t.low, o) <= At(t.high, o)
    <2>1. \A o \in Over(r) : At(r.low, o) <= At(r.high, o)
      BY RegionFields
    <2>2. \A o \in Over(s) : At(s.low, o) <= At(s.high, o)
      BY RegionFields
    <2> QED
      BY <1>3, <1>4, <1>6, <2>1, <2>2
  <1>8. t \in Regions
    BY <1>3, <1>5, <1>7 DEF Regions
  <1> QED
    BY <1>3, <1>5, <1>6, <1>8 DEF t

LEMMA ApartSpan ==
  ASSUME NEW x \in Regions, NEW r \in Regions, NEW s \in Regions,
         Adjoining(r, s), Apart(x, r), Apart(x, s)
  PROVE  Apart(x, Span(r, s))
  <1> DEFINE t == Span(r, s)
  <1>1. /\ Over(t) = Over(r) \cup Over(s) /\ t.outer \in {r.outer, s.outer}
        /\ t.low = r.low /\ t.high = r.high
    BY SpanOf
  <1>2. s.low = r.low /\ s.high = r.high
    BY DEF Adjoining
  <1> HIDE DEF t
  <1>3. \A o \in Over(x) \cap Over(t) : At(x.high, o) < At(t.low, o) \/ At(t.high, o) < At(x.low, o)
    BY <1>1, <1>2 DEF Apart
  <1>4. ASSUME x.outer = t.outer PROVE ~ CountsTouchAt(x, t, x.outer)
    BY <1>1, <1>2, <1>4 DEF Apart, CountsTouchAt
  <1> QED
    BY <1>3, <1>4 DEF Apart, t

(* Regions that are apart do not contain each other and can only be joined *)
(* along the iterations.                                                   *)
LEMMA ApartNotContained ==
  ASSUME NEW r \in Regions, NEW s \in Regions, Apart(r, s)
  PROVE  ~ ContainsRegion(r, s) /\ ~ ContainsRegion(s, r)
  <1>1. ASSUME NEW x \in Regions, NEW y \in Regions, Apart(x, y), ContainsRegion(x, y) PROVE FALSE
    <2>1. y.outer \in Over(x) /\ y.outer \in Over(y) /\ y.outer \in Int
      BY <1>1, RegionFields DEF ContainsRegion, Over
    <2>2. At(x.low, y.outer) <= At(y.low, y.outer) /\ At(x.high, y.outer) >= At(y.high, y.outer)
      BY <1>1 DEF ContainsRegion, CountContainsAt
    <2>3. At(y.low, y.outer) <= At(y.high, y.outer)
      BY <2>1, RegionFields
    <2>4. At(x.high, y.outer) < At(y.low, y.outer) \/ At(y.high, y.outer) < At(x.low, y.outer)
      BY <1>1, <2>1 DEF Apart
    <2>5. /\ At(x.low, y.outer) \in Int /\ At(x.high, y.outer) \in Int
          /\ At(y.low, y.outer) \in Int /\ At(y.high, y.outer) \in Int
      BY <2>1, AtInt, RegionFields
    <2> QED
      BY <2>2, <2>3, <2>4, <2>5
  <1>2. Apart(s, r)
    BY ApartSymmetric
  <1> QED
    BY <1>1, <1>2

LEMMA ApartMerge ==
  ASSUME NEW r \in Regions, NEW s \in Regions, Apart(r, s), Mergeable(r, s)
  PROVE  SameState(r, s) /\ Adjoining(r, s) /\ Merge(r, s) = Span(r, s)
  <1>1. ~ Parallel(r, s)
    BY DEF Parallel, Apart
  <1> QED
    BY <1>1 DEF Mergeable, Merge, Span

LEMMA Removed ==
  ASSUME NEW S, NEW s \in Seq(S), NEW i \in 1 .. Len(s)
  PROVE  /\ RemoveAt(s, i) \in Seq(S) /\ Len(RemoveAt(s, i)) = Len(s) - 1
         /\ \A k \in 1 .. Len(s) - 1 : RemoveAt(s, i)[k] = IF k < i THEN s[k] ELSE s[k + 1]
  <1> DEFINE before == SubSeq(s, 1, i - 1)
             after == SubSeq(s, i + 1, Len(s))
  <1>1. Len(s) \in Nat /\ \A k \in 1 .. Len(s) : s[k] \in S
    BY LenProperties, ElementOfSeq
  <1>2. /\ before \in Seq(S) /\ Len(before) = i - 1 /\ \A k \in 1 .. i - 1 : before[k] = s[k]
    <2>1. \A k \in 1 .. i - 1 : s[k] \in S
      BY <1>1
    <2>2. /\ before \in Seq(S) /\ Len(before) = (IF 1 <= i - 1 THEN i - 1 - 1 + 1 ELSE 0)
          /\ \A k \in 1 .. i - 1 - 1 + 1 : before[k] = s[1 + k - 1]
      BY <1>1, <2>1, SubSeqProperties
    <2> HIDE DEF before
    <2>3. Len(before) = i - 1
      BY <1>1, <2>2
    <2>4. ASSUME NEW k \in 1 .. i - 1 PROVE before[k] = s[k]
      <3>1. k \in 1 .. i - 1 - 1 + 1 /\ 1 + k - 1 = k
        BY <1>1
      <3> QED
        BY <2>2, <3>1
    <2> QED
      BY <2>2, <2>3, <2>4
  <1>3. /\ after \in Seq(S) /\ Len(after) = Len(s) - i
        /\ \A k \in 1 .. Len(s) - i : after[k] = s[i + k]
    <2>1. \A k \in i + 1 .. Len(s) : s[k] \in S
      BY <1>1
    <2>2. /\ after \in Seq(S) /\ Len(after) = (IF i + 1 <= Len(s) THEN Len(s) - (i + 1) + 1 ELSE 0)
          /\ \A k \in 1 .. Len(s) - (i + 1) + 1 : after[k] = s[(i + 1) + k - 1]
      BY <1>1, <2>1, SubSeqProperties
    <2> HIDE DEF after
    <2>3. Len(after) = Len(s) - i
      BY <1>1, <2>2
    <2>4. ASSUME NEW k \in 1 .. Len(s) - i PROVE after[k] = s[i + k]
      <3>1. k \in 1 .. Len(s) - (i + 1) + 1 /\ (i + 1) + k - 1 = i + k
        BY <1>1
      <3> QED
        BY <2>2, <3>1
    <2> QED
      BY <2>2, <2>3, <2>4
  <1>4. RemoveAt(s, i) = before \o after
    BY DEF RemoveAt
  <1> HIDE DEF before, after
  <1>5. /\ before \o after \in Seq(S) /\ Len(before \o after) = Len(before) + Len(after)
        /\ \A k \in 1 .. Len(before) + Len(after) :
             (before \o after)[k] = IF k <= Len(before) THEN before[k] ELSE after[k - Len(before)]
    BY <1>2, <1>3, ConcatProperties
  <1>6. Len(before) + Len(after) = Len(s) - 1
    BY <1>1, <1>2, <1>3
  <1>7. ASSUME NEW k \in 1 .. Len(s) - 1
        PROVE  (before \o after)[k] = IF k < i THEN s[k] ELSE s[k + 1]
    <2>1. CASE k < i
      BY <1>1, <1>2, <1>5, <1>6, <2>1
    <2>2. CASE ~ (k < i)
      <3>1. k - (i - 1) \in 1 .. Len(s) - i /\ i + (k - (i - 1)) = k + 1 /\ ~ (k <= i - 1)
        BY <1>1, <2>2
      <3>2. (before \o after)[k] = after[k - (i - 1)]
        BY <1>2, <1>5, <1>6, <3>1
      <3>3. after[k - (i - 1)] = s[i + (k - (i - 1))]
        BY <1>3, <3>1
      <3> QED
        BY <2>2, <3>1, <3>2, <3>3
    <2> QED
      BY <2>1, <2>2
  <1> QED
    BY <1>4, <1>5, <1>6, <1>7

-----------------------------------------------------------------------------
(* A round keeps the regions apart, keeps what survives joining, and loses *)
(* no state.                                                               *)
Rounds(G) ==
  {t \in [regions : Seq(G), new : G] :
     PairwiseApart(t.regions) /\ \A i \in DOMAIN t.regions : Apart(t.new, t.regions[i])}

HeldBy(t, o, n) ==
  Holds(t.new, o, n) \/ \E i \in DOMAIN t.regions : Holds(t.regions[i], o, n)

LEMMA FirstThat ==
  ASSUME NEW N \in Nat, NEW I, I \subseteq 1 .. N,
         NEW i, i = IF I # {} THEN Min(I) ELSE 0
  PROVE  IF I = {} THEN i = 0 ELSE i \in I /\ i \in 1 .. N
  <1>1. CASE I # {}
    <2>1. I \subseteq Nat
      OBVIOUS
    <2>2. Min(I) \in I
      BY <1>1, <2>1, LeastIn
    <2> QED
      BY <1>1, <2>2
  <1> QED
    BY <1>1

LEMMA AppendRoundKeeps ==
  ASSUME NEW G, Keeps(G), NEW t \in Rounds(G)
  PROVE  /\ AppendRound(t) \in Rounds(G)
         /\ \A o, n : HeldBy(t, o, n) => HeldBy(AppendRound(t), o, n)
  <1> DEFINE meets(s) == ContainsRegion(s, t.new) \/ ContainsRegion(t.new, s) \/ Mergeable(s, t.new)
             I == {k \in 1 .. Len(t.regions) : meets(t.regions[k])}
             i == IF I # {} THEN Min(I) ELSE 0
             rest == RemoveAt(t.regions, i)
             u == [regions |-> rest,
                   new |-> IF ContainsRegion(t.new, t.regions[i]) THEN t.new
                           ELSE Merge(t.regions[i], t.new)]
  <1>1. AppendRound(t) = IF i = 0 \/ ContainsRegion(t.regions[i], t.new) THEN t ELSE u
    BY DEF AppendRound, SelectInSeq
  <1>2. /\ t.regions \in Seq(G) /\ t.new \in G /\ PairwiseApart(t.regions)
        /\ \A k \in DOMAIN t.regions : Apart(t.new, t.regions[k])
    BY DEF Rounds
  <1>3. /\ Len(t.regions) \in Nat /\ DOMAIN t.regions = 1 .. Len(t.regions)
        /\ \A k \in 1 .. Len(t.regions) : t.regions[k] \in G
        /\ G \subseteq Regions
    BY <1>2, LenProperties, ElementOfSeq DEF Keeps
  <1>4. IF I = {} THEN i = 0 ELSE i \in I /\ i \in 1 .. Len(t.regions)
    <2>1. I \subseteq 1 .. Len(t.regions)
      OBVIOUS
    <2> HIDE DEF I
    <2> QED
      BY <1>3, <2>1, FirstThat
  <1>5. CASE i = 0 \/ ContainsRegion(t.regions[i], t.new)
    <2>1. AppendRound(t) = t
      BY <1>1, <1>5
    <2> QED
      BY <2>1
  <1>6. CASE ~ (i = 0 \/ ContainsRegion(t.regions[i], t.new))
    <2>1. i \in 1 .. Len(t.regions) /\ meets(t.regions[i])
      BY <1>4, <1>6
    <2> HIDE DEF i, I
    <2> DEFINE r == t.regions[i]
    <2>2. r \in G /\ r \in Regions /\ t.new \in G /\ t.new \in Regions /\ Apart(t.new, r)
      BY <1>2, <1>3, <2>1
    <2>3. Apart(r, t.new)
      BY <2>2, ApartSymmetric
    <2>4. ~ ContainsRegion(r, t.new) /\ ~ ContainsRegion(t.new, r)
      BY <2>2, <2>3, ApartNotContained
    <2>5. Mergeable(r, t.new)
      BY <2>1, <2>4
    <2>6. SameState(r, t.new) /\ Adjoining(r, t.new) /\ Merge(r, t.new) = Span(r, t.new)
      BY <2>2, <2>3, <2>5, ApartMerge
    <2>7. AppendRound(t) = [regions |-> rest, new |-> Span(r, t.new)]
      BY <1>1, <1>6, <2>4, <2>6
    <2>8. /\ rest \in Seq(G) /\ Len(rest) = Len(t.regions) - 1
          /\ \A k \in 1 .. Len(t.regions) - 1 : rest[k] = IF k < i THEN t.regions[k] ELSE t.regions[k + 1]
      BY <1>2, <2>1, Removed
    <2>9. DOMAIN rest = 1 .. Len(t.regions) - 1
      BY <2>8, LenProperties
    <2> DEFINE from(k) == IF k < i THEN k ELSE k + 1
    <2>10. ASSUME NEW k \in DOMAIN rest
           PROVE  from(k) \in DOMAIN t.regions /\ from(k) # i /\ rest[k] = t.regions[from(k)]
      BY <1>3, <2>1, <2>8, <2>9
    <2>11. ASSUME NEW k \in DOMAIN rest, NEW l \in DOMAIN rest, k # l PROVE from(k) # from(l)
      BY <1>3, <2>1, <2>9, <2>11
    <2>12. ASSUME NEW k \in DOMAIN t.regions, k # i PROVE \E l \in DOMAIN rest : rest[l] = t.regions[k]
      <3>1. CASE k < i
        <4>1. k \in DOMAIN rest /\ rest[k] = t.regions[k]
          BY <1>3, <2>1, <2>8, <2>9, <3>1
        <4> QED
          BY <4>1
      <3>2. CASE ~ (k < i)
        <4>1. k - 1 \in DOMAIN rest /\ ~ (k - 1 < i) /\ (k - 1) + 1 = k
          BY <1>3, <2>1, <2>9, <2>12, <3>2
        <4>2. rest[k - 1] = t.regions[(k - 1) + 1]
          BY <2>8, <2>9, <4>1
        <4> QED
          BY <4>1, <4>2
      <3> QED
        BY <3>1, <3>2
    <2> HIDE DEF from, rest
    <2>13. PairwiseApart(rest)
      <3>1. ASSUME NEW k \in DOMAIN rest, NEW l \in DOMAIN rest, k # l PROVE Apart(rest[k], rest[l])
        <4>1. Apart(t.regions[from(k)], t.regions[from(l)])
          BY <1>2, <2>10, <2>11, <3>1 DEF PairwiseApart
        <4> QED
          BY <2>10, <4>1
      <3> QED
        BY <3>1 DEF PairwiseApart
    <2>14. ASSUME NEW k \in DOMAIN rest PROVE Apart(Span(r, t.new), rest[k])
      <3>1. rest[k] \in Regions
        BY <1>3, <2>10
      <3>2. Apart(t.regions[from(k)], r)
        BY <1>2, <1>3, <2>1, <2>10 DEF PairwiseApart
      <3>3. Apart(t.regions[from(k)], t.new)
        <4>1. Apart(t.new, t.regions[from(k)])
          BY <1>2, <2>10
        <4> QED
          BY <4>1, ApartSymmetric
      <3>4. Apart(rest[k], r) /\ Apart(rest[k], t.new)
        BY <2>10, <3>2, <3>3
      <3> HIDE DEF r
      <3>5. Apart(rest[k], Span(r, t.new))
        BY <2>2, <2>6, <3>1, <3>4, ApartSpan
      <3> QED
        BY <3>5, ApartSymmetric
    <2>15. Span(r, t.new) \in G
      BY <2>2, <2>6 DEF Keeps
    <2>16. AppendRound(t) \in Rounds(G)
      <3> HIDE DEF r
      <3> QED
        BY <2>7, <2>8, <2>13, <2>14, <2>15 DEF Rounds
    <2>17. ASSUME NEW o, NEW n, HeldBy(t, o, n) PROVE HeldBy(AppendRound(t), o, n)
      <3> DEFINE w == Span(r, t.new)
      <3>1. /\ Over(w) = Over(r) \cup Over(t.new) /\ w.low = r.low /\ w.high = r.high
            /\ t.new.low = r.low /\ t.new.high = r.high
        BY <2>2, <2>6, SpanOf DEF Adjoining
      <3>2. (Holds(t.new, o, n) \/ Holds(r, o, n)) => Holds(w, o, n)
        <4> HIDE DEF r, w
        <4> QED
          BY <3>1 DEF Holds
      <3>3. AppendRound(t).new = w /\ AppendRound(t).regions = rest
        BY <2>7
      <3> HIDE DEF w
      <3>4. CASE Holds(t.new, o, n) \/ Holds(r, o, n)
        BY <3>2, <3>3, <3>4 DEF HeldBy
      <3>5. CASE ~ (Holds(t.new, o, n) \/ Holds(r, o, n))
        <4>1. PICK k \in DOMAIN t.regions : Holds(t.regions[k], o, n)
          BY <2>17, <3>5 DEF HeldBy
        <4>2. k # i
          BY <3>5, <4>1
        <4>3. PICK l \in DOMAIN rest : rest[l] = t.regions[k]
          BY <2>12, <4>2
        <4> QED
          BY <3>3, <4>1, <4>3 DEF HeldBy
      <3> QED
        BY <3>4, <3>5
    <2> QED
      BY <2>16, <2>17
  <1> QED
    BY <1>5, <1>6

HeldIn(q, o, n) == \E i \in DOMAIN q : Holds(q[i], o, n)

LEMMA AppendedApart ==
  ASSUME NEW G, G \subseteq Regions, NEW q \in Seq(G), NEW r \in G, PairwiseApart(q),
         \A i \in DOMAIN q : Apart(r, q[i])
  PROVE  /\ Append(q, r) \in Seq(G) /\ PairwiseApart(Append(q, r))
         /\ \A o, n : (HeldIn(q, o, n) \/ Holds(r, o, n)) => HeldIn(Append(q, r), o, n)
  <1> DEFINE w == Append(q, r)
  <1>1. /\ w \in Seq(G) /\ Len(q) \in Nat /\ DOMAIN q = 1 .. Len(q) /\ DOMAIN w = 1 .. Len(q) + 1
        /\ w[Len(q) + 1] = r /\ \A i \in 1 .. Len(q) : w[i] = q[i]
    BY AppendProperties, LenProperties
  <1> HIDE DEF w
  <1>2. ASSUME NEW i \in DOMAIN w, NEW j \in DOMAIN w, i # j PROVE Apart(w[i], w[j])
    <2>1. CASE i \in 1 .. Len(q) /\ j \in 1 .. Len(q)
      BY <1>1, <1>2, <2>1 DEF PairwiseApart
    <2>2. CASE i \in 1 .. Len(q) /\ j = Len(q) + 1
      <3>1. Apart(r, q[i])
        BY <1>1, <2>2
      <3> QED
        BY <1>1, <2>2, <3>1, ApartSymmetric
    <2>3. CASE i = Len(q) + 1 /\ j \in 1 .. Len(q)
      <3>1. Apart(r, q[j])
        BY <1>1, <2>3
      <3> QED
        BY <1>1, <2>3, <3>1
    <2> QED
      BY <1>1, <1>2, <2>1, <2>2, <2>3
  <1>3. ASSUME NEW o, NEW n, HeldIn(q, o, n) \/ Holds(r, o, n) PROVE HeldIn(w, o, n)
    <2>1. CASE HeldIn(q, o, n)
      <3>1. PICK i \in DOMAIN q : Holds(q[i], o, n)
        BY <2>1 DEF HeldIn
      <3>2. i \in DOMAIN w /\ w[i] = q[i]
        BY <1>1
      <3> QED
        BY <3>1, <3>2 DEF HeldIn
    <2>2. CASE Holds(r, o, n)
      <3>1. Len(q) + 1 \in DOMAIN w
        BY <1>1
      <3> QED
        BY <1>1, <2>2, <3>1 DEF HeldIn
    <2> QED
      BY <1>3, <2>1, <2>2
  <1> QED
    BY <1>1, <1>2, <1>3 DEF w, PairwiseApart

-----------------------------------------------------------------------------
(* The rounds of one region, and the regions one after the other.          *)
LEMMA AppendRegionKeeps ==
  ASSUME NEW G, Keeps(G), NEW q \in Seq(G), NEW r \in G, PairwiseApart(q),
         \A i \in DOMAIN q : Apart(r, q[i])
  PROVE  /\ AppendRegion(q, r) \in Seq(G) /\ PairwiseApart(AppendRegion(q, r))
         /\ \A o, n : (HeldIn(q, o, n) \/ Holds(r, o, n)) => HeldIn(AppendRegion(q, r), o, n)
  <1> DEFINE N == Len(q)
             base == [regions |-> q, new |-> r]
             round == CHOOSE f : f = [n \in 0 .. N |-> IF n = 0 THEN base ELSE AppendRound(f[n - 1])]
             S == Rounds(G)
             step == [p \in S \X Nat |-> AppendRound(p[1])]
             last == round[N]
  <1>1. N \in Nat /\ base \in S
    BY LenProperties DEF Rounds
  <1>2. AppendRegion(q, r) = IF \E s \in ToSet(last.regions) : ContainsRegion(s, last.new)
                               THEN last.regions ELSE Append(last.regions, last.new)
    BY DEF AppendRegion
  <1>3. round = [n \in 0 .. N |-> IF n = 0 THEN base ELSE AppendRound(round[n - 1])]
    <2> HIDE DEF N, base, S
    <2>1. step \in [S \X Nat -> S]
      BY AppendRoundKeeps DEF S
    <2> HIDE DEF step
    <2>2. Iterates(N, S, base, step)
      BY <1>1, <2>1, Recursion
    <2>3. PICK g \in [0 .. N -> S] : g[0] = base /\ \A n \in 1 .. N : g[n] = step[<<g[n - 1], n>>]
      BY <2>2 DEF Iterates
    <2>4. \A n \in 0 .. N : g[n] = IF n = 0 THEN base ELSE AppendRound(g[n - 1])
      <3>1. TAKE n \in 0 .. N
      <3>2. CASE n # 0
        <4>1. n \in 1 .. N /\ n - 1 \in 0 .. N
          BY <1>1, <3>2
        <4>2. g[n] = step[<<g[n - 1], n>>] /\ g[n - 1] \in S
          BY <2>3, <4>1
        <4> QED
          BY <3>2, <4>2 DEF step
      <3> QED
        BY <2>3, <3>2
    <2>5. g = [n \in 0 .. N |-> g[n]]
      OBVIOUS
    <2>6. g = [n \in 0 .. N |-> IF n = 0 THEN base ELSE AppendRound(g[n - 1])]
      BY <2>4, <2>5
    <2> QED
      BY <2>6
  <1> HIDE DEF round
  <1> DEFINE P == {n \in 0 .. N : round[n] \in S /\ \A o, m : HeldBy(base, o, m) => HeldBy(round[n], o, m)}
  <1>4. 0 \in P
    <2>1. round[0] = base
      BY <1>1, <1>3
    <2> HIDE DEF base
    <2> QED
      BY <1>1, <2>1
  <1>5. ASSUME NEW n \in 0 .. N - 1, n \in P PROVE n + 1 \in P
    <2>1. n + 1 \in 0 .. N /\ n + 1 # 0 /\ (n + 1) - 1 = n
      BY <1>1
    <2>2. round[n + 1] = AppendRound(round[n])
      <3> HIDE DEF N, base
      <3> QED
        BY <1>3, <2>1
    <2> HIDE DEF N, base
    <2> QED
      BY <1>5, <2>1, <2>2, AppendRoundKeeps DEF S
  <1>6. last \in S /\ \A o, m : HeldBy(base, o, m) => HeldBy(last, o, m)
    <2> HIDE DEF P
    <2>1. N \in P
      <3> HIDE DEF N
      <3>1. \A n \in 0 .. N : n \in P
        BY <1>1, <1>4, <1>5, UpTo0
      <3> QED
        BY <1>1, <3>1
    <2> QED
      BY <2>1 DEF P
  <1> HIDE DEF last
  <1>7. /\ last.regions \in Seq(G) /\ last.new \in G /\ PairwiseApart(last.regions)
        /\ \A i \in DOMAIN last.regions : Apart(last.new, last.regions[i])
    BY <1>6 DEF Rounds
  <1>8. G \subseteq Regions
    BY DEF Keeps
  <1>9. ~ \E s \in ToSet(last.regions) : ContainsRegion(s, last.new)
    <2>1. ASSUME NEW i \in DOMAIN last.regions PROVE ~ ContainsRegion(last.regions[i], last.new)
      <3>1. last.regions[i] \in G
        BY <1>7, LenProperties, ElementOfSeq
      <3> QED
        BY <1>7, <1>8, <3>1, ApartNotContained
    <2> QED
      BY <2>1 DEF ToSet
  <1>10. AppendRegion(q, r) = Append(last.regions, last.new)
    BY <1>2, <1>9
  <1>11. ASSUME NEW o, NEW n, HeldIn(q, o, n) \/ Holds(r, o, n)
         PROVE  HeldIn(last.regions, o, n) \/ Holds(last.new, o, n)
    <2>1. HeldBy(base, o, n)
      BY <1>11 DEF HeldBy, HeldIn
    <2> QED
      BY <1>6, <2>1 DEF HeldBy, HeldIn
  <1> QED
    BY <1>7, <1>8, <1>10, <1>11, AppendedApart

LEMMA AppendRegionsKeeps ==
  ASSUME NEW G, Keeps(G), NEW more \in Seq(G), PairwiseApart(more)
  PROVE  /\ AppendRegions(more) \in Seq(G) /\ PairwiseApart(AppendRegions(more))
         /\ \A o, n : HeldIn(more, o, n) => HeldIn(AppendRegions(more), o, n)
  <1> DEFINE N == Len(more)
             added == CHOOSE f : f = [n \in 0 .. N |-> IF n = 0 THEN <<>> ELSE AppendRegion(f[n - 1], more[n])]
             Fine(n, q) ==
               /\ q \in Seq(G) /\ PairwiseApart(q)
               /\ \A i \in 1 .. n : \A o, m : Holds(more[i], o, m) => HeldIn(q, o, m)
               /\ \A k \in n + 1 .. N, i \in DOMAIN q : Apart(more[k], q[i])
  <1>1. N \in Nat /\ N = Len(more) /\ DOMAIN more = 1 .. N /\ \A k \in 1 .. N : more[k] \in G
    BY LenProperties, ElementOfSeq
  <1>2. AppendRegions(more) = added[N]
    BY DEF AppendRegions
  <1> HIDE DEF N
  <1>3. Fine(0, <<>>)
    BY <1>1, EmptySeq DEF PairwiseApart
  <1>4. ASSUME NEW n \in 0 .. N - 1, NEW q, Fine(n, q) PROVE Fine(n + 1, AppendRegion(q, more[n + 1]))
    <2> DEFINE w == AppendRegion(q, more[n + 1])
    <2>1. n + 1 \in 1 .. N /\ n + 1 \in n + 1 .. N /\ more[n + 1] \in G
      BY <1>1
    <2>2. q \in Seq(G) /\ PairwiseApart(q) /\ \A i \in DOMAIN q : Apart(more[n + 1], q[i])
      BY <1>4, <2>1
    <2>3. /\ w \in Seq(G) /\ PairwiseApart(w)
          /\ \A o, m : (HeldIn(q, o, m) \/ Holds(more[n + 1], o, m)) => HeldIn(w, o, m)
      BY <2>1, <2>2, AppendRegionKeeps
    <2>4. ASSUME NEW i \in 1 .. n + 1, NEW o, NEW m, Holds(more[i], o, m) PROVE HeldIn(w, o, m)
      <3>1. CASE i \in 1 .. n
        BY <1>4, <2>3, <2>4, <3>1
      <3>2. CASE i = n + 1
        BY <2>3, <2>4, <3>2
      <3> QED
        BY <3>1, <3>2
    <2>5. ASSUME NEW k \in n + 2 .. N PROVE \A i \in DOMAIN w : Apart(more[k], w[i])
      <3> DEFINE x == more[k]
                 H == {s \in G : Apart(x, s)}
      <3>1. k \in 1 .. N /\ k \in n + 1 .. N /\ k # n + 1 /\ x \in G
        BY <1>1
      <3>2. x \in Regions /\ H \subseteq G /\ H \subseteq Regions
        BY <3>1 DEF Keeps
      <3> HIDE DEF x
      <3>3. Keeps(H)
        BY <3>2, ApartSpan DEF Keeps
      <3>4. more[n + 1] \in H
        BY <1>1, <2>1, <3>1 DEF x, PairwiseApart
      <3>5. q \in Seq(H)
        <4>1. Len(q) \in Nat /\ DOMAIN q = 1 .. Len(q) /\ \A i \in 1 .. Len(q) : q[i] \in G
          BY <2>2, LenProperties, ElementOfSeq
        <4>2. \A i \in 1 .. Len(q) : q[i] \in H
          BY <1>4, <3>1, <4>1 DEF x
        <4>3. q = [i \in 1 .. Len(q) |-> q[i]]
          BY <2>2, <4>1
        <4> HIDE DEF H
        <4> QED
          BY <4>1, <4>2, <4>3, IsASeq
      <3>6. w \in Seq(H)
        <4> HIDE DEF H
        <4> QED
          BY <2>2, <3>3, <3>4, <3>5, AppendRegionKeeps
      <3>7. \A i \in DOMAIN w : w[i] \in H
        <4> HIDE DEF H, w
        <4> QED
          BY <3>6, LenProperties, ElementOfSeq
      <3> QED
        BY <3>7 DEF x
    <2>6. (n + 1) + 1 = n + 2
      OBVIOUS
    <2> HIDE DEF w
    <2> QED
      BY <2>3, <2>4, <2>5, <2>6 DEF w
  <1> DEFINE S == Seq(G)
             step == [p \in S \X Nat |->
                        IF p[2] \in 1 .. N /\ AppendRegion(p[1], more[p[2]]) \in S
                          THEN AppendRegion(p[1], more[p[2]]) ELSE <<>>]
             P(f) == {n \in 0 .. N : Fine(n, f[n])}
  <1>5. ASSUME NEW f, f[0] = <<>>,
               \A n \in 1 .. N : Fine(n - 1, f[n - 1]) => f[n] = AppendRegion(f[n - 1], more[n])
        PROVE  \A n \in 0 .. N : Fine(n, f[n])
    <2> HIDE DEF Fine
    <2>1. 0 \in P(f)
      BY <1>1, <1>3, <1>5
    <2>2. ASSUME NEW n \in 0 .. N - 1, n \in P(f) PROVE n + 1 \in P(f)
      <3>1. n + 1 \in 1 .. N /\ n + 1 \in 0 .. N /\ (n + 1) - 1 = n
        BY <1>1
      <3>2. f[n + 1] = AppendRegion(f[n], more[n + 1])
        BY <1>5, <2>2, <3>1
      <3> QED
        BY <1>4, <2>2, <3>1, <3>2
    <2>3. \A n \in 0 .. N : n \in P(f)
      <3> HIDE DEF P
      <3> QED
        BY <1>1, <2>1, <2>2, UpTo0
    <2> QED
      BY <2>3
  <1> HIDE DEF Fine
  <1>6. added = [n \in 0 .. N |-> IF n = 0 THEN <<>> ELSE AppendRegion(added[n - 1], more[n])]
    <2>1. step \in [S \X Nat -> S]
      BY EmptySeq
    <2>2. PICK g \in [0 .. N -> S] : g[0] = <<>> /\ \A n \in 1 .. N : g[n] = step[<<g[n - 1], n>>]
      <3> HIDE DEF S, step
      <3>1. <<>> \in S
        BY EmptySeq DEF S
      <3>2. Iterates(N, S, <<>>, step)
        BY <1>1, <2>1, <3>1, Recursion
      <3> QED
        BY <3>2 DEF Iterates
    <2>3. ASSUME NEW n \in 1 .. N, Fine(n - 1, g[n - 1]) PROVE g[n] = AppendRegion(g[n - 1], more[n])
      <3>1. n - 1 \in 0 .. N - 1 /\ (n - 1) + 1 = n /\ n \in Nat /\ n - 1 \in 0 .. N
        BY <1>1
      <3>2. Fine(n, AppendRegion(g[n - 1], more[n]))
        BY <1>4, <2>3, <3>1
      <3>3. AppendRegion(g[n - 1], more[n]) \in S
        BY <3>2 DEF Fine
      <3>4. g[n - 1] \in S /\ g[n] = step[<<g[n - 1], n>>]
        BY <2>2, <3>1
      <3> HIDE DEF S
      <3> QED
        BY <3>1, <3>3, <3>4
    <2>4. \A n \in 0 .. N : Fine(n, g[n])
      BY <1>5, <2>2, <2>3
    <2>5. \A n \in 0 .. N : g[n] = IF n = 0 THEN <<>> ELSE AppendRegion(g[n - 1], more[n])
      <3>1. TAKE n \in 0 .. N
      <3>2. CASE n # 0
        <4>1. n \in 1 .. N /\ n - 1 \in 0 .. N
          BY <1>1, <3>2
        <4> QED
          BY <2>3, <2>4, <3>2, <4>1
      <3> QED
        BY <2>2, <3>2
    <2>6. g = [n \in 0 .. N |-> g[n]]
      OBVIOUS
    <2>7. g = [n \in 0 .. N |-> IF n = 0 THEN <<>> ELSE AppendRegion(g[n - 1], more[n])]
      BY <2>5, <2>6
    <2> HIDE DEF S, step
    <2> QED
      BY <2>7
  <1> HIDE DEF added, step, P
  <1>7. Fine(N, added[N])
    <2>1. added[0] = <<>> /\ \A n \in 1 .. N : added[n] = AppendRegion(added[n - 1], more[n])
      <3>1. 0 \in 0 .. N /\ \A n \in 1 .. N : n \in 0 .. N /\ n # 0
        BY <1>1
      <3> QED
        BY <1>6, <3>1
    <2>2. \A n \in 0 .. N : Fine(n, added[n])
      BY <1>5, <2>1
    <2> QED
      BY <1>1, <2>2
  <1> QED
    BY <1>1, <1>2, <1>7 DEF Fine, HeldIn

-----------------------------------------------------------------------------
(* The breakpoints are finitely many integers, and between two of them no  *)
(* two lines of the regions change their order.                            *)
LEMMA FiniteImage ==
  ASSUME NEW S, IsFiniteSet(S), NEW f
  PROVE  IsFiniteSet({f[x] : x \in S})
  <1> DEFINE T == {f[x] : x \in S}
             g == [x \in S |-> f[x]]
  <1>1. g \in Surjection(S, T)
    BY DEF Surjection
  <1> HIDE DEF g, T
  <1>2. IsFiniteSet(T)
    BY <1>1, FS_Surjection
  <1> QED
    BY <1>2 DEF T

LEMMA Transition ==
  ASSUME NEW a \in Lines, NEW b \in Lines, a.slope # b.slope, NEW k \in Int
  PROVE  /\ LineTransition(a, b, k) \in Int
         /\ \A o \in Int : At(a, o) - At(b, o) > k
              <=> IF a.slope > b.slope THEN o >= LineTransition(a, b, k) ELSE o < LineTransition(a, b, k)
  <1> DEFINE slope == a.slope - b.slope
             limit == b.intercept + k - a.intercept
             t == LineTransition(a, b, k)
  <1>1. /\ a.slope \in Int /\ b.slope \in Int /\ a.intercept \in Int /\ b.intercept \in Int
        /\ slope \in Int /\ limit \in Int /\ slope # 0 /\ (a.slope > b.slope <=> slope > 0)
    BY DEF Lines
  <1>2. \A o \in Int : /\ slope * o \in Int
                       /\ (At(a, o) - At(b, o) > k <=> slope * o > limit)
    <2>1. TAKE o \in Int
    <2>2. At(a, o) - At(b, o) = (a.slope * o - b.slope * o) + a.intercept - b.intercept
      BY <1>1 DEF At
    <2>3. a.slope * o - b.slope * o = slope * o /\ a.slope * o \in Int /\ b.slope * o \in Int
      <3>1. \A x, y \in Int : x * o - y * o = (x - y) * o /\ x * o \in Int
        OBVIOUS
      <3> QED
        BY <1>1, <3>1
    <2>4. slope * o \in Int
      BY <1>1
    <2>5. At(a, o) - At(b, o) = slope * o + a.intercept - b.intercept
      <3> HIDE DEF slope
      <3> QED
        BY <1>1, <2>2, <2>3, <2>4
    <2> DEFINE so == slope * o
    <2>6. so \in Int /\ At(a, o) - At(b, o) = so + a.intercept - b.intercept
      BY <2>4, <2>5
    <2> HIDE DEF so
    <2>7. At(a, o) - At(b, o) > k <=> so > limit
      BY <1>1, <2>6
    <2> QED
      BY <2>4, <2>7 DEF so
  <1>3. t = IF slope > 0 THEN Floor(limit, slope) + 1 ELSE Ceil(limit, slope)
    BY DEF LineTransition
  <1> HIDE DEF slope, limit, t
  <1>4. CASE slope > 0
    <2>1. /\ Floor(limit, slope) \in Int
          /\ \A o \in Int : o <= Floor(limit, slope) <=> slope * o <= limit
      BY <1>1, <1>4, FloorBounds
    <2>2. t = Floor(limit, slope) + 1
      BY <1>3, <1>4
    <2>3. \A o \in Int : slope * o > limit <=> o >= t
      BY <1>1, <1>2, <2>1, <2>2
    <2> QED
      BY <1>1, <1>2, <1>4, <2>1, <2>2, <2>3 DEF t
  <1>5. CASE ~ (slope > 0)
    <2> DEFINE d == -slope
    <2>1. d \in Int /\ d > 0 /\ slope = -d
      BY <1>1, <1>5
    <2> HIDE DEF d
    <2>2. /\ Ceil(limit, slope) \in Int
          /\ \A o \in Int : Ceil(limit, slope) <= o <=> -limit <= d * o
      BY <1>1, <2>1, FloorBounds
    <2>3. t = Ceil(limit, slope)
      BY <1>3, <1>5
    <2>4. \A o \in Int : d * o = -(slope * o)
      BY <1>1, <2>1
    <2>5. \A o \in Int : slope * o > limit <=> o < t
      BY <1>1, <1>2, <2>2, <2>3, <2>4
    <2> QED
      BY <1>1, <1>2, <1>5, <2>2, <2>3, <2>5 DEF t
  <1> QED
    BY <1>4, <1>5

Boundaries(group) == [i \in DOMAIN group |-> <<group[i].low, group[i].high>>]

LEMMA BoundaryLines ==
  ASSUME NEW group \in Seq(Regions)
  PROVE  /\ FlattenSeq(Boundaries(group)) \in Seq(Lines)
         /\ \A i \in DOMAIN group : \E k, l \in DOMAIN FlattenSeq(Boundaries(group)) :
              /\ FlattenSeq(Boundaries(group))[k] = group[i].low
              /\ FlattenSeq(Boundaries(group))[l] = group[i].high
  <1> DEFINE ss == Boundaries(group)
             lines == FlattenSeq(ss)
  <1>1. /\ Len(group) \in Nat /\ DOMAIN group = 1 .. Len(group)
        /\ \A i \in DOMAIN group : group[i] \in Regions
    BY LenProperties, ElementOfSeq
  <1>2. ASSUME NEW i \in 1 .. Len(group)
        PROVE  /\ ss[i] \in Seq(Lines) /\ Len(ss[i]) = 2
               /\ ss[i][1] = group[i].low /\ ss[i][2] = group[i].high
    <2>1. group[i].low \in Lines /\ group[i].high \in Lines
      BY <1>1, RegionFields
    <2>2. ss[i] = <<group[i].low, group[i].high>>
      BY <1>1 DEF Boundaries
    <2> QED
      BY <2>1, <2>2
  <1>3. ss \in Seq(Seq(Lines)) /\ Len(ss) = Len(group)
    <2>1. ss = [i \in 1 .. Len(group) |-> ss[i]]
      BY <1>1 DEF Boundaries
    <2>2. \A i \in 1 .. Len(group) : ss[i] \in Seq(Lines)
      BY <1>2
    <2> HIDE DEF ss
    <2> QED
      BY <1>1, <2>1, <2>2, IsASeq
  <1> HIDE DEF ss
  <1>4. lines \in Seq(Lines) /\ \E at : Deals(ss, Len(ss), lines, at)
    BY <1>3, FlattenDeals
  <1>5. PICK at : Deals(ss, Len(ss), lines, at)
    BY <1>4
  <1>6. DOMAIN lines = 1 .. Len(lines)
    BY <1>4, LenProperties
  <1>7. ASSUME NEW i \in 1 .. Len(group), NEW j \in 1 .. 2
        PROVE  \E k \in DOMAIN lines : lines[k] = ss[i][j]
    <2>1. PICK k \in 1 .. Len(lines) : at[k] = <<i, j>>
      BY <1>2, <1>3, <1>5 DEF Deals
    <2>2. lines[k] = ss[at[k][1]][at[k][2]]
      BY <1>5 DEF Deals
    <2> QED
      BY <1>6, <2>1, <2>2
  <1>8. ASSUME NEW i \in DOMAIN group
        PROVE  \E k, l \in DOMAIN lines : lines[k] = group[i].low /\ lines[l] = group[i].high
    <2>1. PICK k \in DOMAIN lines : lines[k] = ss[i][1]
      BY <1>1, <1>7
    <2>2. PICK l \in DOMAIN lines : lines[l] = ss[i][2]
      BY <1>1, <1>7
    <2> QED
      BY <1>1, <1>2, <2>1, <2>2
  <1> QED
    BY <1>4, <1>8 DEF ss

LEMMA BreakpointsFinite ==
  ASSUME NEW group \in Seq(Regions)
  PROVE  /\ Breakpoints(group) \subseteq Int /\ IsFiniteSet(Breakpoints(group))
         /\ \A i \in DOMAIN group : /\ group[i].outer \in Breakpoints(group)
                                    /\ group[i].outerMaximum + 1 \in Breakpoints(group)
         /\ \A k, l \in DOMAIN FlattenSeq(Boundaries(group)), n \in {-1, 0, 1} :
              LET a == FlattenSeq(Boundaries(group))[k]
                  b == FlattenSeq(Boundaries(group))[l] IN
              k < l /\ a.slope # b.slope => LineTransition(a, b, n) \in Breakpoints(group)
  <1> DEFINE lines == FlattenSeq(Boundaries(group))
             D == DOMAIN lines
             crossing == {c \in D \X D : c[1] < c[2] /\ lines[c[1]].slope # lines[c[2]].slope}
             at(c, n) == LineTransition(lines[c[1]], lines[c[2]], n)
             first == {group[i].outer : i \in DOMAIN group}
             after == {group[i].outerMaximum + 1 : i \in DOMAIN group}
             crossings == {LineTransition(lines[c[1]], lines[c[2]], n) : c \in crossing, n \in {-1, 0, 1}}
  <1>1. Breakpoints(group) = first \cup after \cup crossings
    <2>1. {r.outer : r \in ToSet(group)} = first
      BY DEF ToSet
    <2>2. {r.outerMaximum + 1 : r \in ToSet(group)} = after
      BY DEF ToSet
    <2>3. Breakpoints(group) = {r.outer : r \in ToSet(group)} \cup {r.outerMaximum + 1 : r \in ToSet(group)}
                                 \cup crossings
      BY DEF Breakpoints, Boundaries
    <2> HIDE DEF first, after, crossings
    <2> QED
      BY <2>1, <2>2, <2>3
  <1>2. lines \in Seq(Lines)
    BY BoundaryLines
  <1> HIDE DEF lines
  <1>3. /\ Len(group) \in Nat /\ DOMAIN group = 1 .. Len(group)
        /\ \A i \in DOMAIN group : group[i] \in Regions
        /\ Len(lines) \in Nat /\ D = 1 .. Len(lines) /\ \A k \in D : lines[k] \in Lines
    BY <1>2, LenProperties, ElementOfSeq
  <1>4. IsFiniteSet(DOMAIN group) /\ IsFiniteSet(D)
    BY <1>3, FS_Interval
  <1>5. IsFiniteSet(first)
    <2> DEFINE f == [i \in DOMAIN group |-> group[i].outer]
    <2>1. first = {f[i] : i \in DOMAIN group}
      OBVIOUS
    <2> HIDE DEF f, first
    <2> QED
      BY <1>4, <2>1, FiniteImage
  <1>6. IsFiniteSet(after)
    <2> DEFINE f == [i \in DOMAIN group |-> group[i].outerMaximum + 1]
    <2>1. after = {f[i] : i \in DOMAIN group}
      OBVIOUS
    <2> HIDE DEF f, after
    <2> QED
      BY <1>4, <2>1, FiniteImage
  <1>7. IsFiniteSet(crossings)
    <2> DEFINE Pairs == crossing \X {-1, 0, 1}
               f == [x \in Pairs |-> at(x[1], x[2])]
    <2>1. IsFiniteSet(crossing)
      <3>1. IsFiniteSet(D \X D)
        BY <1>4, FS_Product
      <3>2. crossing \in SUBSET (D \X D)
        OBVIOUS
      <3> HIDE DEF crossing, D
      <3> QED
        BY <3>1, <3>2, FS_Subset
    <2>2. IsFiniteSet({-1, 0, 1})
      <3>1. IsFiniteSet((-1) .. 1)
        <4>1. -1 \in Int /\ 1 \in Int
          OBVIOUS
        <4> QED
          BY <4>1, FS_Interval
      <3>2. (-1) .. 1 = {-1, 0, 1}
        OBVIOUS
      <3> QED
        BY <3>1, <3>2
    <2> HIDE DEF crossing
    <2>3. IsFiniteSet(Pairs)
      BY <2>1, <2>2, FS_Product
    <2>4. crossings = {f[x] : x \in Pairs}
      <3> HIDE DEF at
      <3>2. \A x \in Pairs : x[1] \in crossing /\ x[2] \in {-1, 0, 1} /\ f[x] = at(x[1], x[2])
        OBVIOUS
      <3> HIDE DEF Pairs, f
      <3>3. ASSUME NEW z \in crossings
            PROVE  z \in {f[x] : x \in Pairs}
        <4>1. PICK c \in crossing, n \in {-1, 0, 1} : z = at(c, n)
          BY DEF at
        <4>2. <<c, n>> \in Pairs /\ z = f[<<c, n>>]
          <5>1. <<c, n>> \in Pairs
            BY DEF Pairs
          <5>2. f[<<c, n>>] = z
            <6> HIDE DEF crossing
            <6> QED
              BY <4>1, <5>1 DEF f, Pairs, at
          <5> QED
            BY <5>1, <5>2
        <4> QED
          BY <4>2
      <3>4. ASSUME NEW x \in Pairs
            PROVE  f[x] \in crossings
        <4>1. at(x[1], x[2]) \in crossings
          BY <3>2 DEF at
        <4> QED
          BY <3>2, <4>1
      <3> HIDE DEF crossings
      <3> QED
        BY <3>3, <3>4
    <2> HIDE DEF Pairs, f, crossings
    <2> QED
      BY <2>3, <2>4, FiniteImage
  <1>8. first \subseteq Int /\ after \subseteq Int
    <2>1. \A i \in DOMAIN group : group[i].outer \in Int /\ group[i].outerMaximum + 1 \in Int
      BY <1>3, RegionFields
    <2> QED
      BY <2>1
  <1>9. crossings \subseteq Int
    <2>1. ASSUME NEW c \in crossing, NEW n \in {-1, 0, 1} PROVE at(c, n) \in Int
      <3>1. c[1] \in D /\ c[2] \in D /\ lines[c[1]].slope # lines[c[2]].slope
        OBVIOUS
      <3>2. lines[c[1]] \in Lines /\ lines[c[2]] \in Lines /\ n \in Int
        BY <1>3, <3>1
      <3> QED
        BY <3>1, <3>2, Transition
    <2> HIDE DEF crossing
    <2> QED
      BY <2>1
  <1>10. ASSUME NEW k \in D, NEW l \in D, NEW n \in {-1, 0, 1}, k < l, lines[k].slope # lines[l].slope
         PROVE  LineTransition(lines[k], lines[l], n) \in crossings
    <2>1. <<k, l>> \in crossing
      BY <1>10
    <2>2. at(<<k, l>>, n) \in crossings
      <3> HIDE DEF crossing
      <3> QED
        BY <2>1
    <2> QED
      BY <2>2
  <1> HIDE DEF crossings, first, after
  <1>11. IsFiniteSet(Breakpoints(group)) /\ Breakpoints(group) \subseteq Int
    BY <1>1, <1>5, <1>6, <1>7, <1>8, <1>9, FS_Union
  <1>12. \A i \in DOMAIN group : group[i].outer \in first /\ group[i].outerMaximum + 1 \in after
    BY DEF first, after
  <1> QED
    BY <1>1, <1>10, <1>11, <1>12 DEF lines, D

-----------------------------------------------------------------------------
Quiet(group, first, last) ==
  /\ first \in Int /\ last \in Int
  /\ \A b \in Breakpoints(group) : b <= first \/ last < b
IsBoundary(group, line) ==
  \E k \in DOMAIN FlattenSeq(Boundaries(group)) : line = FlattenSeq(Boundaries(group))[k]

LEMMA SameSide ==
  ASSUME NEW group \in Seq(Regions), NEW first, NEW last, Quiet(group, first, last),
         NEW k \in DOMAIN FlattenSeq(Boundaries(group)), NEW l \in DOMAIN FlattenSeq(Boundaries(group)),
         k < l, NEW a, NEW b, a = FlattenSeq(Boundaries(group))[k], b = FlattenSeq(Boundaries(group))[l],
         NEW o \in first .. last, NEW n \in {-1, 0, 1}
  PROVE  At(a, o) - At(b, o) > n <=> At(a, first) - At(b, first) > n
  <1>1. a \in Lines /\ b \in Lines
    BY BoundaryLines, ElementOfSeq
  <1>2. first \in Int /\ last \in Int /\ o \in Int /\ first <= o /\ o <= last /\ n \in Int
    BY DEF Quiet
  <1>3. CASE a.slope = b.slope
    <2>1. /\ a.slope \in Int /\ b.slope \in Int /\ a.intercept \in Int /\ b.intercept \in Int
      BY <1>1 DEF Lines
    <2>2. \A i \in Int : At(a, i) - At(b, i) = a.intercept - b.intercept
      <3>1. TAKE i \in Int
      <3>2. At(a, i) = a.slope * i + a.intercept /\ At(b, i) = a.slope * i + b.intercept
        BY <1>3 DEF At
      <3> DEFINE p == a.slope * i
      <3>3. p \in Int /\ At(a, i) = p + a.intercept /\ At(b, i) = p + b.intercept
        BY <2>1, <3>2
      <3> HIDE DEF p
      <3> QED
        BY <2>1, <3>3
    <2> QED
      BY <1>2, <2>2
  <1>4. CASE a.slope # b.slope
    <2>1. LineTransition(a, b, n) \in Breakpoints(group)
      BY <1>4, BreakpointsFinite
    <2>2. /\ LineTransition(a, b, n) \in Int
          /\ \A i \in Int : At(a, i) - At(b, i) > n
               <=> IF a.slope > b.slope THEN i >= LineTransition(a, b, n) ELSE i < LineTransition(a, b, n)
      BY <1>1, <1>2, <1>4, Transition
    <2>3. LineTransition(a, b, n) <= first \/ last < LineTransition(a, b, n)
      BY <2>1 DEF Quiet
    <2> QED
      BY <1>2, <2>2, <2>3
  <1> QED
    BY <1>3, <1>4

LEMMA SegmentOrder ==
  ASSUME NEW group \in Seq(Regions), NEW first, NEW last, Quiet(group, first, last),
         NEW a, NEW b, IsBoundary(group, a), IsBoundary(group, b),
         NEW o \in first .. last
  PROVE  /\ At(a, first) <= At(b, first) <=> At(a, o) <= At(b, o)
         /\ At(a, first) < At(b, first) <=> At(a, o) < At(b, o)
  <1> DEFINE lines == FlattenSeq(Boundaries(group))
  <1>1. PICK k \in DOMAIN lines : a = lines[k]
    BY DEF IsBoundary
  <1>2. PICK l \in DOMAIN lines : b = lines[l]
    BY DEF IsBoundary
  <1>3. lines \in Seq(Lines)
    BY BoundaryLines
  <1>4. /\ DOMAIN lines = 1 .. Len(lines) /\ Len(lines) \in Nat /\ a \in Lines /\ b \in Lines
    BY <1>1, <1>2, <1>3, LenProperties, ElementOfSeq
  <1>5. first \in Int /\ last \in Int /\ o \in Int
    BY DEF Quiet
  <1>6. At(a, first) \in Int /\ At(a, o) \in Int /\ At(b, first) \in Int /\ At(b, o) \in Int
    BY <1>4, <1>5, AtInt
  <1>7. CASE k < l
    <2>1. \A n \in {-1, 0, 1} : At(a, o) - At(b, o) > n <=> At(a, first) - At(b, first) > n
      BY <1>1, <1>2, <1>7, SameSide
    <2>2. /\ At(a, o) - At(b, o) > -1 <=> At(a, first) - At(b, first) > -1
          /\ At(a, o) - At(b, o) > 0 <=> At(a, first) - At(b, first) > 0
      BY <2>1
    <2> QED
      BY <1>6, <2>2
  <1>8. CASE l < k
    <2>1. \A n \in {-1, 0, 1} : At(b, o) - At(a, o) > n <=> At(b, first) - At(a, first) > n
      BY <1>1, <1>2, <1>8, SameSide
    <2>2. /\ At(b, o) - At(a, o) > -1 <=> At(b, first) - At(a, first) > -1
          /\ At(b, o) - At(a, o) > 0 <=> At(b, first) - At(a, first) > 0
      BY <2>1
    <2> QED
      BY <1>6, <2>2
  <1>9. CASE k = l
    <2>1. a = b
      BY <1>1, <1>2, <1>9
    <2> QED
      BY <1>6, <2>1
  <1>10. k \in Int /\ l \in Int
    BY <1>4
  <1> QED
    BY <1>7, <1>8, <1>9, <1>10

(* Between two neighbouring breakpoints a region is active throughout or   *)
(* not at all.                                                             *)
LEMMA SegmentActive ==
  ASSUME NEW group \in Seq(Regions), NEW first, NEW last, Quiet(group, first, last),
         NEW i \in DOMAIN group, NEW o \in first .. last
  PROVE  o \in Over(group[i]) <=> ActiveAt(group[i], first)
  <1>1. group[i].outer \in Breakpoints(group) /\ group[i].outerMaximum + 1 \in Breakpoints(group)
    BY BreakpointsFinite
  <1>2. group[i] \in Regions
    BY ElementOfSeq
  <1>3. group[i].outer \in Int /\ group[i].outerMaximum \in Int
    BY <1>2, RegionFields
  <1>4. first \in Int /\ last \in Int /\ o \in Int /\ first <= o /\ o <= last
    BY DEF Quiet
  <1>5. /\ group[i].outer <= first \/ last < group[i].outer
        /\ group[i].outerMaximum + 1 <= first \/ last < group[i].outerMaximum + 1
    BY <1>1 DEF Quiet
  <1> QED
    BY <1>3, <1>4, <1>5 DEF Over, ActiveAt

-----------------------------------------------------------------------------
(* The elements of a set of integers, in order.                            *)
LEMMA AscendingKeeps ==
  ASSUME NEW S, S \subseteq Int, IsFiniteSet(S)
  PROVE  /\ Cardinality(S) \in Nat
         /\ Ascending(S) \in [1 .. Cardinality(S) -> S]
         /\ \A n \in S : \E k \in 1 .. Cardinality(S) : Ascending(S)[k] = n
         /\ \A k, l \in 1 .. Cardinality(S) : k < l => Ascending(S)[k] < Ascending(S)[l]
  <1> DEFINE less == {x \in S \X S : x[1] < x[2]}
             N == Cardinality(S)
             p == Ascending(S)
  <1>1. \A m, n \in S : <<m, n>> \in less <=> m < n
    OBVIOUS
  <1>2. StrictTotal(S, less)
    <2> HIDE DEF less
    <2> QED
      BY <1>1 DEF StrictTotal
  <1>3. \A n \in S : RankOf(S, less, n) = Cardinality({m \in S : m < n}) + 1
    <2>1. TAKE n \in S
    <2>2. {j \in S : <<j, n>> \in less} = {m \in S : m < n}
      <3> HIDE DEF less
      <3> QED
        BY <1>1
    <2> HIDE DEF less
    <2> QED
      BY <2>2 DEF RankOf
  <1> HIDE DEF less
  <1>4. N \in Nat
    BY FS_CardinalityType
  <1>5. ASSUME NEW k \in 1 .. N
        PROVE  /\ p[k] \in S /\ RankOf(S, less, p[k]) = k
    <2>1. PICK i \in S : RankOf(S, less, i) = k
      BY <1>2, Ranked
    <2>2. Cardinality({m \in S : m < i}) \in Nat
      <3>1. IsFiniteSet({m \in S : m < i})
        BY FS_Subset
      <3> QED
        BY <3>1, FS_CardinalityType
    <2>3. Cardinality({m \in S : m < i}) = k - 1
      BY <1>3, <2>1, <2>2
    <2>4. p[k] = CHOOSE n \in S : Cardinality({m \in S : m < n}) = k - 1
      BY DEF Ascending
    <2>5. p[k] \in S /\ Cardinality({m \in S : m < p[k]}) = k - 1
      BY <2>3, <2>4
    <2>6. k - 1 + 1 = k
      OBVIOUS
    <2> QED
      BY <1>3, <2>5, <2>6
  <1>6. p \in [1 .. N -> S]
    BY <1>5 DEF Ascending
  <1> HIDE DEF p
  <1>7. \A k \in 1 .. N : RankOf(S, less, p[k]) = k
    BY <1>5
  <1>8. /\ \A i \in S : \E k \in 1 .. N : p[k] = i
        /\ \A k, l \in 1 .. N : k < l => <<p[k], p[l]>> \in less
    <2>1. ByRank(S, less, p)
      BY <1>6, <1>7 DEF ByRank
    <2> QED
      BY <1>2, <2>1, Ascends DEF InOrder
  <1>9. \A k, l \in 1 .. N : k < l => p[k] < p[l]
    BY <1>1, <1>6, <1>8
  <1> QED
    BY <1>4, <1>6, <1>8, <1>9 DEF p

-----------------------------------------------------------------------------
(* Sorting permutes the positions, and puts none after one that it comes   *)
(* before.                                                                 *)
WeakOrder(D, b) ==
  /\ \A i \in D : <<i, i>> \notin b
  /\ \A i, j, k \in D : <<i, j>> \in b /\ <<j, k>> \in b => <<i, k>> \in b
  /\ \A i, j, k \in D : <<i, k>> \in b => <<i, j>> \in b \/ <<j, k>> \in b
Order(D, b) ==
  {x \in D \X D : x \in b \/ (<<x[2], x[1]>> \notin b /\ x[1] < x[2])}
Sorting(D, b, p) ==
  /\ p \in [D -> D]
  /\ \A i \in D : \E k \in D : p[k] = i
  /\ \A k, l \in D : p[k] = p[l] => k = l
  /\ \A k, l \in D : k < l => <<p[l], p[k]>> \notin b

LEMMA SortedBy ==
  ASSUME NEW N \in Nat, NEW b, WeakOrder(1 .. N, b), NEW p, p = [k \in 1 .. N |-> p[k]],
         \A k \in 1 .. N : (\E i \in 1 .. N : RankOf(1 .. N, Order(1 .. N, b), i) = k)
                           => p[k] \in 1 .. N /\ RankOf(1 .. N, Order(1 .. N, b), p[k]) = k
  PROVE  Sorting(1 .. N, b, p)
  <1> DEFINE D == 1 .. N
             less == Order(D, b)
  <1>1. \A i, j \in D : <<i, j>> \in less <=> (<<i, j>> \in b \/ (<<j, i>> \notin b /\ i < j))
    BY DEF Order
  <1>2. IsFiniteSet(D) /\ Cardinality(D) = N
    BY FS_Interval
  <1>3. \A k \in D : (\E i \in D : RankOf(D, less, i) = k)
                      => p[k] \in D /\ RankOf(D, less, p[k]) = k
    OBVIOUS
  <1>4. \A i, j \in D : i < j \/ j < i \/ i = j
    OBVIOUS
  <1>5. \A i, j, k \in D : i < j /\ j < k => i < k
    OBVIOUS
  <1>5a. \A i \in D : ~ (i < i)
    OBVIOUS
  <1> HIDE DEF D, less
  <1>6. WeakOrder(D, b)
    BY DEF D
  <1>7. StrictTotal(D, less)
    <2>1. ASSUME NEW i \in D
          PROVE  <<i, i>> \notin less
      BY <1>1, <1>5a, <1>6 DEF WeakOrder
    <2>2. ASSUME NEW i \in D, NEW j \in D, NEW k \in D, <<i, j>> \in less, <<j, k>> \in less
          PROVE  <<i, k>> \in less
      BY <1>1, <1>5, <1>6, <2>2 DEF WeakOrder
    <2>3. ASSUME NEW i \in D, NEW j \in D
          PROVE  i = j \/ <<i, j>> \in less \/ <<j, i>> \in less
      BY <1>1, <1>4
    <2> QED
      BY <2>1, <2>2, <2>3 DEF StrictTotal
  <1>8. \A k \in D : p[k] \in D /\ RankOf(D, less, p[k]) = k
    <2>1. TAKE k \in D
    <2>2. \E i \in D : RankOf(D, less, i) = k
      BY <1>2, <1>7, Ranked DEF D
    <2> QED
      BY <1>3, <2>2
  <1>9. p \in [D -> D]
    BY <1>8 DEF D
  <1>10. D = 1 .. Cardinality(D)
    BY <1>2 DEF D
  <1>11. /\ \A i \in D : \E k \in D : p[k] = i
         /\ \A k, l \in D : p[k] = p[l] => k = l
         /\ \A k, l \in D : k < l => <<p[k], p[l]>> \in less
    <2>1. ByRank(D, less, p)
      BY <1>8, <1>9, <1>10 DEF ByRank
    <2>2. InOrder(D, less, p)
      BY <1>2, <1>7, <2>1, Ascends
    <2> QED
      BY <1>10, <2>2 DEF InOrder
  <1>12. ASSUME NEW k \in D, NEW l \in D, k < l
         PROVE  <<p[l], p[k]>> \notin b
    <2>1. p[k] \in D /\ p[l] \in D /\ <<p[k], p[l]>> \in less
      BY <1>8, <1>11, <1>12
    <2> QED
      BY <1>1, <1>6, <2>1 DEF WeakOrder
  <1> QED
    BY <1>9, <1>11, <1>12 DEF Sorting, D

-----------------------------------------------------------------------------
(* The elements at the positions K.                                        *)
Choosing(s, K) == [i \in DOMAIN s |-> IF i \in K THEN <<s[i]>> ELSE <<>>]
Picks(s, K, t) ==
  \E at \in [1 .. Len(t) -> K] :
    /\ \A k \in 1 .. Len(t) : t[k] = s[at[k]]
    /\ \A k, l \in 1 .. Len(t) : at[k] = at[l] => k = l
    /\ \A i \in K : \E k \in 1 .. Len(t) : at[k] = i

LEMMA Chosen ==
  ASSUME NEW S, NEW s \in Seq(S), NEW K \in SUBSET DOMAIN s
  PROVE  FlattenSeq(Choosing(s, K)) \in Seq(S) /\ Picks(s, K, FlattenSeq(Choosing(s, K)))
  <1> DEFINE ss == Choosing(s, K)
             flat == FlattenSeq(ss)
  <1>1. Len(s) \in Nat /\ DOMAIN s = 1 .. Len(s) /\ \A i \in DOMAIN s : s[i] \in S
    BY LenProperties, ElementOfSeq
  <1>2. \A i \in 1 .. Len(s) : ss[i] = IF i \in K THEN <<s[i]>> ELSE <<>>
    BY <1>1 DEF Choosing
  <1>3. \A i \in 1 .. Len(s) : ss[i] \in Seq(S)
    <2>1. TAKE i \in 1 .. Len(s)
    <2>2. <<s[i]>> \in Seq(S) /\ <<>> \in Seq(S)
      BY <1>1
    <2> QED
      BY <1>2, <2>2
  <1>4. ss \in Seq(Seq(S)) /\ Len(ss) = Len(s)
    <2>1. ss = [i \in 1 .. Len(s) |-> ss[i]]
      BY <1>1 DEF Choosing
    <2> HIDE DEF ss
    <2> QED
      BY <1>1, <1>3, <2>1, IsASeq
  <1>5. \A i \in 1 .. Len(s) : /\ i \in K => Len(ss[i]) = 1 /\ ss[i][1] = s[i]
                               /\ i \notin K => Len(ss[i]) = 0
    <2>1. TAKE i \in 1 .. Len(s)
    <2>2. i \in K => ss[i] = <<s[i]>>
      BY <1>2
    <2>3. i \notin K => ss[i] = <<>>
      BY <1>2
    <2> HIDE DEF ss
    <2>4. \A e : Len(<<e>>) = 1 /\ <<e>>[1] = e
      OBVIOUS
    <2>5. Len(<<>>) = 0
      OBVIOUS
    <2> QED
      BY <2>2, <2>3, <2>4, <2>5
  <1> HIDE DEF ss
  <1>6. flat \in Seq(S) /\ \E at : Deals(ss, Len(ss), flat, at)
    BY <1>4, FlattenDeals
  <1>7. PICK at : Deals(ss, Len(ss), flat, at)
    BY <1>6
  <1> DEFINE N == Len(flat)
             by == [k \in 1 .. N |-> at[k][1]]
  <1>8. N \in Nat
    BY <1>6, LenProperties
  <1> HIDE DEF flat
  <1>9. \A k \in 1 .. N : at[k] \in Nat \X Nat /\ at[k][1] \in 1 .. Len(s)
             /\ at[k][2] \in 1 .. Len(ss[at[k][1]]) /\ flat[k] = ss[at[k][1]][at[k][2]]
    BY <1>4, <1>7 DEF Deals
  <1>10. ASSUME NEW k \in 1 .. N
         PROVE  at[k][1] \in K /\ at[k] = <<at[k][1], 1>> /\ flat[k] = s[at[k][1]]
    <2> DEFINE i == at[k][1]
               j == at[k][2]
    <2>1. i \in 1 .. Len(s) /\ j \in 1 .. Len(ss[i]) /\ flat[k] = ss[i][j] /\ at[k] = <<i, j>>
      BY <1>9
    <2> HIDE DEF i, j
    <2>2. i \in K
      BY <1>5, <2>1
    <2>3. j = 1
      BY <1>5, <2>1, <2>2
    <2> QED
      BY <1>5, <2>1, <2>2, <2>3 DEF i, j
  <1>11. by \in [1 .. N -> K] /\ \A k \in 1 .. N : flat[k] = s[by[k]]
    BY <1>10
  <1>12. ASSUME NEW k \in 1 .. N, NEW l \in 1 .. N, by[k] = by[l]
         PROVE  k = l
    <2>1. at[k] = <<by[k], 1>> /\ at[l] = <<by[l], 1>>
      BY <1>10
    <2>2. at[k] = at[l]
      BY <1>12, <2>1
    <2> QED
      BY <1>7, <2>2 DEF Deals
  <1>13. ASSUME NEW i \in K
         PROVE  \E k \in 1 .. N : by[k] = i
    <2>1. i \in 1 .. Len(s) /\ 1 \in 1 .. Len(ss[i])
      BY <1>1, <1>5
    <2>2. PICK k \in 1 .. N : at[k] = <<i, 1>>
      BY <1>4, <1>7, <2>1 DEF Deals
    <2> QED
      BY <2>2
  <1> HIDE DEF by
  <1>14. Picks(s, K, flat)
    BY <1>11, <1>12, <1>13 DEF Picks
  <1> QED
    BY <1>6, <1>14 DEF flat, ss

-----------------------------------------------------------------------------
(* A function defined by recursion exists and has a property that its      *)
(* steps keep.                                                             *)
Chain(N, base, step, f) == f = [n \in 0 .. N |-> IF n = 0 THEN base ELSE step[<<f[n - 1], n>>]]
Follows(N, S, base, step, f) ==
  f[0] = base /\ \A n \in 1 .. N : f[n - 1] \in S => f[n] = step[<<f[n - 1], n>>]
Runs(N, S, base, step) == \E f : Chain(N, base, step, f) /\ \A n \in 0 .. N : f[n] \in S

LEMMA Folded ==
  ASSUME NEW N \in Nat, NEW S, NEW Fine, Fine \subseteq Nat \X S, NEW base, <<0, base>> \in Fine,
         NEW step, \A n \in 1 .. N, q \in S : <<n - 1, q>> \in Fine => <<n, step[<<q, n>>]>> \in Fine
  PROVE  /\ Runs(N, S, base, step)
         /\ \A f : Follows(N, S, base, step, f) => \A n \in 0 .. N : <<n, f[n]>> \in Fine /\ f[n] \in S
  <1> DEFINE total == [x \in S \X Nat |-> IF <<x[2], step[x]>> \in Fine THEN step[x] ELSE base]
  <1>1. base \in S /\ \A n, q : <<n, q>> \in Fine => q \in S
    OBVIOUS
  <1>2. ASSUME NEW f, f[0] = base,
               \A n \in 1 .. N : <<n - 1, f[n - 1]>> \in Fine => f[n] = step[<<f[n - 1], n>>]
        PROVE  \A n \in 0 .. N : <<n, f[n]>> \in Fine
    <2> DEFINE P == {n \in 0 .. N : <<n, f[n]>> \in Fine}
    <2>1. 0 \in P
      BY <1>2
    <2>2. ASSUME NEW n \in 0 .. N - 1, n \in P PROVE n + 1 \in P
      <3>1. n + 1 \in 1 .. N /\ n + 1 \in 0 .. N /\ (n + 1) - 1 = n
        OBVIOUS
      <3>2. <<n, f[n]>> \in Fine /\ f[n] \in S
        BY <1>1, <2>2
      <3>3. f[n + 1] = step[<<f[n], n + 1>>]
        BY <1>2, <3>1, <3>2
      <3>4. <<n + 1, step[<<f[n], n + 1>>]>> \in Fine
        BY <3>1, <3>2
      <3> QED
        BY <3>1, <3>3, <3>4
    <2> HIDE DEF P
    <2>3. \A n \in 0 .. N : n \in P
      BY <2>1, <2>2, UpTo0
    <2> QED
      BY <2>3 DEF P
  <1>3. ASSUME NEW f, Follows(N, S, base, step, f)
        PROVE  \A n \in 0 .. N : <<n, f[n]>> \in Fine /\ f[n] \in S
    BY <1>1, <1>2, <1>3 DEF Follows
  <1>4. total \in [S \X Nat -> S]
    BY <1>1
  <1>5. PICK g \in [0 .. N -> S] : g[0] = base /\ \A n \in 1 .. N : g[n] = total[<<g[n - 1], n>>]
    <2> HIDE DEF total
    <2>1. Iterates(N, S, base, total)
      BY <1>1, <1>4, Recursion
    <2> QED
      BY <2>1 DEF Iterates
  <1>6. \A n \in 1 .. N : <<n - 1, g[n - 1]>> \in Fine => g[n] = step[<<g[n - 1], n>>]
    <2>1. SUFFICES ASSUME NEW n \in 1 .. N, <<n - 1, g[n - 1]>> \in Fine
                   PROVE  g[n] = step[<<g[n - 1], n>>]
      OBVIOUS
    <2>2. n \in Nat /\ g[n - 1] \in S /\ <<n, step[<<g[n - 1], n>>]>> \in Fine
      BY <1>1, <2>1
    <2>3. g[n] = total[<<g[n - 1], n>>]
      BY <1>5
    <2> QED
      BY <2>2, <2>3
  <1>7. \A n \in 0 .. N : <<n, g[n]>> \in Fine
    BY <1>2, <1>5, <1>6
  <1>8. Chain(N, base, step, g)
    <2>1. g = [n \in 0 .. N |-> g[n]]
      OBVIOUS
    <2>2. \A n \in 0 .. N : g[n] = IF n = 0 THEN base ELSE step[<<g[n - 1], n>>]
      <3>1. TAKE n \in 0 .. N
      <3>2. CASE n # 0
        <4>1. n \in 1 .. N /\ n - 1 \in 0 .. N
          BY <3>2
        <4> QED
          BY <1>6, <1>7, <3>2, <4>1
      <3> QED
        BY <1>5, <3>2
    <2> QED
      BY <2>1, <2>2 DEF Chain
  <1> QED
    BY <1>3, <1>5, <1>8 DEF Runs

-----------------------------------------------------------------------------
(* The regions whose every highest count is the highest of a region of q.  *)
Tops(q, x) ==
  {r \in Regions :
     /\ SameState(x, r)
     /\ \A o \in Over(r) : \E i \in DOMAIN q : o \in Over(q[i]) /\ At(q[i].high, o) = At(r.high, o)}

LEMMA TopsKeeps ==
  ASSUME NEW q \in Seq(Regions), NEW x
  PROVE  Keeps(Tops(q, x))
  <1>1. ASSUME NEW r \in Tops(q, x), NEW s \in Tops(q, x), Adjoining(r, s)
        PROVE  Span(r, s) \in Tops(q, x)
    <2>1. r \in Regions /\ s \in Regions
      BY DEF Tops
    <2>2. /\ Span(r, s) \in Regions /\ Over(Span(r, s)) = Over(r) \cup Over(s)
          /\ Span(r, s).high = r.high /\ r.high = s.high
          /\ Span(r, s).index = r.index /\ Span(r, s).currentEmpty = r.currentEmpty
          /\ Span(r, s).emptyRepeatBlocked = r.emptyRepeatBlocked
      BY <1>1, <2>1, SpanOf DEF Adjoining
    <2>3. SameState(x, Span(r, s))
      BY <2>2 DEF Tops, SameState
    <2> HIDE DEF Span
    <2>4. ASSUME NEW o \in Over(Span(r, s))
          PROVE  \E i \in DOMAIN q : o \in Over(q[i]) /\ At(q[i].high, o) = At(Span(r, s).high, o)
      BY <2>2 DEF Tops
    <2> QED
      BY <2>2, <2>3, <2>4 DEF Tops
  <1> QED
    BY <1>1 DEF Keeps, Tops

-----------------------------------------------------------------------------
(* The regions active at an iteration, by their lowest counts there.       *)
LEMMA ActiveSorted ==
  ASSUME NEW group \in Seq(Regions), NEW first \in Int
  PROVE  /\ Active(group, first) \in Seq(Regions)
         /\ \A k \in DOMAIN Active(group, first) : \E i \in DOMAIN group :
              Active(group, first)[k] = group[i] /\ ActiveAt(group[i], first)
         /\ \A i \in DOMAIN group : ActiveAt(group[i], first)
              => \E k \in DOMAIN Active(group, first) : Active(group, first)[k] = group[i]
         /\ \A k, l \in DOMAIN Active(group, first) :
              k < l => At(Active(group, first)[k].low, first) <= At(Active(group, first)[l].low, first)
  <1> DEFINE K == {i \in DOMAIN group : ActiveAt(group[i], first)}
             t == FlattenSeq([i \in DOMAIN group |-> IF ActiveAt(group[i], first) THEN <<group[i]>> ELSE <<>>])
             D == DOMAIN t
             before(r, s) ==
               \/ At(r.low, first) < At(s.low, first)
               \/ At(r.low, first) = At(s.low, first) /\ At(r.high, first) < At(s.high, first)
             b == {x \in D \X D : before(t[x[1]], t[x[2]])}
             order(i, j) == before(t[i], t[j]) \/ (~ before(t[j], t[i]) /\ i < j)
             ranked(k) == CHOOSE i \in D : Cardinality({j \in D : order(j, i)}) + 1 = k
             p == [k \in D |-> ranked(k)]
             sorted == Active(group, first)
  <1>1. t = FlattenSeq(Choosing(group, K))
    <2>1. Choosing(group, K) = [i \in DOMAIN group |-> IF ActiveAt(group[i], first) THEN <<group[i]>> ELSE <<>>]
      BY DEF Choosing
    <2> QED
      BY <2>1
  <1>3. sorted = [k \in D |-> t[CHOOSE i \in D : Cardinality({j \in D : order(j, i)}) + 1 = k]]
    BY DEF Active, SortRegions, Only
  <1>2. t \in Seq(Regions) /\ Picks(group, K, t)
    <2> HIDE DEF K, t
    <2>1. K \in SUBSET DOMAIN group
      BY DEF K
    <2> QED
      BY <1>1, <2>1, Chosen
  <1> HIDE DEF K, t
  <1>4. Len(t) \in Nat /\ D = 1 .. Len(t) /\ \A i \in D : t[i] \in Regions
    BY <1>2, LenProperties, ElementOfSeq
  <1>5. sorted = [k \in D |-> t[p[k]]]
    <2> HIDE DEF order
    <2> QED
      BY <1>3
  <1>6. \A i \in D : At(t[i].low, first) \in Int /\ At(t[i].high, first) \in Int
    <2>1. TAKE i \in D
    <2>2. t[i].low \in Lines /\ t[i].high \in Lines
      BY <1>4, RegionFields
    <2> QED
      BY <2>2, AtInt
  <1>7a. \A i, j \in D : <<i, j>> \in b <=> before(t[i], t[j])
    <2> HIDE DEF D
    <2> QED
      OBVIOUS
  <1>7b. \A i, j \in D : <<i, j>> \in Order(D, b) <=> order(i, j)
    <2> HIDE DEF D, b, before
    <2> QED
      BY <1>7a DEF Order
  <1>8. WeakOrder(D, b)
    <2> DEFINE L == [i \in D |-> At(t[i].low, first)]
               H == [i \in D |-> At(t[i].high, first)]
    <2>1. L \in [D -> Int] /\ H \in [D -> Int]
      BY <1>6
    <2>2. \A i, j \in D : <<i, j>> \in b <=> (L[i] < L[j] \/ (L[i] = L[j] /\ H[i] < H[j]))
      OBVIOUS
    <2> HIDE DEF L, H, b, D
    <2>3. \A i \in D : <<i, i>> \notin b
      BY <2>1, <2>2
    <2>4. ASSUME NEW i \in D, NEW j \in D, NEW k \in D, <<i, j>> \in b, <<j, k>> \in b
          PROVE  <<i, k>> \in b
      BY <2>1, <2>2, <2>4
    <2>5. ASSUME NEW i \in D, NEW j \in D, NEW k \in D, <<i, k>> \in b
          PROVE  <<i, j>> \in b \/ <<j, k>> \in b
      <3>1. L[i] \in Int /\ L[j] \in Int /\ L[k] \in Int /\ H[i] \in Int /\ H[j] \in Int /\ H[k] \in Int
        BY <2>1
      <3>2. L[i] < L[k] \/ (L[i] = L[k] /\ H[i] < H[k])
        BY <2>2, <2>5
      <3>3. \/ L[i] < L[j] \/ (L[i] = L[j] /\ H[i] < H[j])
            \/ L[j] < L[k] \/ (L[j] = L[k] /\ H[j] < H[k])
        BY <3>1, <3>2
      <3> QED
        BY <2>2, <3>3
    <2> QED
      BY <2>3, <2>4, <2>5 DEF WeakOrder
  <1>9. ASSUME NEW i \in D
        PROVE  RankOf(D, Order(D, b), i) = Cardinality({j \in D : order(j, i)}) + 1
    <2> HIDE DEF b, order, D
    <2>1. {j \in D : <<j, i>> \in Order(D, b)} = {j \in D : order(j, i)}
      BY <1>7b
    <2> QED
      BY <2>1 DEF RankOf
  <1>10. ASSUME NEW k \in D, \E i \in D : RankOf(D, Order(D, b), i) = k
         PROVE  p[k] \in D /\ RankOf(D, Order(D, b), p[k]) = k
    <2> HIDE DEF b, order, D
    <2>1. PICK i \in D : RankOf(D, Order(D, b), i) = k
      BY <1>10
    <2>2. Cardinality({j \in D : order(j, i)}) + 1 = k
      BY <1>9, <2>1
    <2>3. p[k] = CHOOSE i_1 \in D : Cardinality({j \in D : order(j, i_1)}) + 1 = k
      OBVIOUS
    <2> HIDE DEF p
    <2>4. p[k] \in D /\ Cardinality({j \in D : order(j, p[k])}) + 1 = k
      BY <2>2, <2>3
    <2> QED
      BY <1>9, <2>4
  <1>11. Sorting(D, b, p)
    <2>1. p = [k \in D |-> p[k]]
      <3> HIDE DEF ranked, D
      <3> QED
        OBVIOUS
    <2> HIDE DEF b, p, D
    <2> QED
      BY <1>4, <1>8, <1>10, <2>1, SortedBy
  <1> HIDE DEF p
  <1>12. DOMAIN sorted = D /\ \A k \in D : sorted[k] = t[p[k]] /\ p[k] \in D
    BY <1>5, <1>11 DEF Sorting
  <1> HIDE DEF sorted
  <1>13. sorted \in Seq(Regions)
    <2>1. sorted = [k \in 1 .. Len(t) |-> sorted[k]]
      BY <1>4, <1>5
    <2> QED
      BY <1>4, <1>12, <2>1, IsASeq
  <1>14. PICK at \in [1 .. Len(t) -> K] :
           /\ \A k \in 1 .. Len(t) : t[k] = group[at[k]]
           /\ \A i \in K : \E k \in 1 .. Len(t) : at[k] = i
    BY <1>2 DEF Picks
  <1>15. ASSUME NEW k \in D
         PROVE  \E i \in DOMAIN group : sorted[k] = group[i] /\ ActiveAt(group[i], first)
    <2>1. at[p[k]] \in K /\ sorted[k] = group[at[p[k]]]
      BY <1>4, <1>12, <1>14
    <2> QED
      BY <2>1 DEF K
  <1>16. ASSUME NEW i \in DOMAIN group, ActiveAt(group[i], first)
         PROVE  \E k \in D : sorted[k] = group[i]
    <2>1. i \in K
      BY <1>16 DEF K
    <2>2. PICK j \in D : at[j] = i
      BY <1>4, <1>14, <2>1
    <2>3. PICK k \in D : p[k] = j
      BY <1>11 DEF Sorting
    <2> QED
      BY <1>4, <1>12, <1>14, <2>2, <2>3
  <1>17. ASSUME NEW k \in D, NEW l \in D, k < l
         PROVE  At(sorted[k].low, first) <= At(sorted[l].low, first)
    <2>1. <<p[l], p[k]>> \notin b
      BY <1>11, <1>17 DEF Sorting
    <2>2. ~ before(t[p[l]], t[p[k]])
      <3> HIDE DEF before, order, b
      <3> QED
        BY <1>7a, <1>12, <2>1
    <2>3. ~ (At(t[p[l]].low, first) < At(t[p[k]].low, first))
      BY <2>2
    <2> DEFINE m == At(t[p[k]].low, first)
               n == At(t[p[l]].low, first)
    <2>4. m \in Int /\ n \in Int /\ ~ (n < m)
      BY <1>6, <1>12, <2>3
    <2>5. At(sorted[k].low, first) = m /\ At(sorted[l].low, first) = n
      BY <1>12
    <2> HIDE DEF m, n
    <2> QED
      BY <2>4, <2>5
  <1> QED
    BY <1>12, <1>13, <1>15, <1>16, <1>17 DEF sorted

-----------------------------------------------------------------------------
(* What the regions of a segment are cut down to and joined into.          *)
Pieces(group, x, first, last) ==
  {r \in Tops(group, x) : /\ r.outer = first /\ r.outerMaximum = last
                          /\ IsBoundary(group, r.low) /\ IsBoundary(group, r.high)}
Clipped(r, first, last) == [r EXCEPT !.outer = first, !.outerMaximum = last]
Uniform(q, x) == \A i \in DOMAIN q : SameState(x, q[i])

LEMMA ClippedPiece ==
  ASSUME NEW group \in Seq(Regions), NEW x, Uniform(group, x),
         NEW first, NEW last, Quiet(group, first, last), first <= last,
         NEW i \in DOMAIN group, ActiveAt(group[i], first)
  PROVE  /\ Clipped(group[i], first, last) \in Pieces(group, x, first, last)
         /\ Clipped(group[i], first, last).low = group[i].low
         /\ \A o \in first .. last : \A n : Holds(group[i], o, n) => Holds(Clipped(group[i], first, last), o, n)
  <1> DEFINE r == group[i]
             c == Clipped(r, first, last)
  <1>1. r \in Regions
    BY ElementOfSeq
  <1>2. first .. last \subseteq Over(r)
    BY SegmentActive
  <1>3. first \in Int /\ last \in Int /\ first \in first .. last /\ last \in first .. last
    BY DEF Quiet
  <1>4. first \in Nat /\ last \in Nat
    BY <1>1, <1>2, <1>3, RegionFields
  <1>5. /\ c.outer = first /\ c.outerMaximum = last /\ c.low = r.low /\ c.high = r.high
        /\ c.index = r.index /\ c.currentEmpty = r.currentEmpty
        /\ c.emptyRepeatBlocked = r.emptyRepeatBlocked
        /\ c \in [outer : Nat, outerMaximum : Nat, index : Nat, low : Lines, high : Lines,
                  currentEmpty : BOOLEAN, emptyRepeatBlocked : BOOLEAN]
    BY <1>1, <1>4 DEF Regions, Clipped
  <1>6. IsBoundary(group, r.low) /\ IsBoundary(group, r.high)
    BY BoundaryLines DEF IsBoundary
  <1> HIDE DEF c
  <1>7. Over(c) = first .. last
    BY <1>5 DEF Over
  <1>8. \A o \in Over(c) : At(c.low, o) <= At(c.high, o)
    <2>1. \A o \in Over(r) : At(r.low, o) <= At(r.high, o)
      BY <1>1, RegionFields
    <2> HIDE DEF r
    <2> QED
      BY <1>2, <1>5, <1>7, <2>1
  <1>9. c \in Regions
    BY <1>5, <1>8 DEF Regions
  <1>10. SameState(x, c)
    BY <1>5 DEF Uniform, SameState
  <1>11. \A o \in Over(c) : o \in Over(group[i]) /\ At(group[i].high, o) = At(c.high, o)
    BY <1>2, <1>5, <1>7
  <1>12. c \in Tops(group, x)
    BY <1>9, <1>10, <1>11 DEF Tops
  <1>13. c \in Pieces(group, x, first, last)
    BY <1>5, <1>6, <1>12 DEF Pieces
  <1>14. \A o \in first .. last : \A n : Holds(r, o, n) => Holds(c, o, n)
    BY <1>5, <1>7 DEF Holds
  <1> QED
    BY <1>5, <1>13, <1>14 DEF c

LEMMA PieceFields ==
  ASSUME NEW group, NEW x, NEW first, NEW last, NEW r \in Pieces(group, x, first, last),
         first \in Int, last \in Int, first <= last
  PROVE  /\ r \in Tops(group, x) /\ r \in Regions /\ r.outer = first /\ r.outerMaximum = last
         /\ Over(r) = first .. last /\ r.low \in Lines /\ r.high \in Lines
         /\ IsBoundary(group, r.low) /\ IsBoundary(group, r.high)
         /\ first \in Over(r) /\ At(r.low, first) \in Int /\ At(r.high, first) \in Int
         /\ At(r.low, first) <= At(r.high, first)
  <1>1. r \in Tops(group, x) /\ r \in Regions /\ r.outer = first /\ r.outerMaximum = last
    BY DEF Pieces, Tops
  <1>2. Over(r) = first .. last
    BY <1>1 DEF Over
  <1>3. r.low \in Lines /\ r.high \in Lines /\ \A o \in Over(r) : At(r.low, o) <= At(r.high, o)
    BY <1>1, RegionFields
  <1>4. first \in Over(r)
    BY <1>2
  <1>5. At(r.low, first) \in Int /\ At(r.high, first) \in Int
    BY <1>3, AtInt
  <1>6. IsBoundary(group, r.low) /\ IsBoundary(group, r.high)
    BY DEF Pieces
  <1> QED
    BY <1>1, <1>2, <1>3, <1>4, <1>5, <1>6

LEMMA ExtendPiece ==
  ASSUME NEW group \in Seq(Regions), NEW x,
         NEW first, NEW last, Quiet(group, first, last), first <= last,
         NEW r \in Pieces(group, x, first, last), NEW s \in Pieces(group, x, first, last),
         At(r.low, first) <= At(s.low, first)
  PROVE  /\ Extend(r, s, first) \in Pieces(group, x, first, last)
         /\ Extend(r, s, first).low = r.low
         /\ \A o \in first .. last : \A n : n \in Int /\ (Holds(r, o, n) \/ Holds(s, o, n))
              => (At(r.low, o) <= n /\ n <= At(Extend(r, s, first).high, o))
  <1> DEFINE e == Extend(r, s, first)
             high == IF At(s.high, first) > At(r.high, first) THEN s.high ELSE r.high
  <1>1. first \in Int /\ last \in Int
    BY DEF Quiet
  <1>2. /\ r \in Tops(group, x) /\ r \in Regions /\ r.outer = first /\ r.outerMaximum = last
        /\ Over(r) = first .. last /\ r.low \in Lines /\ r.high \in Lines
        /\ IsBoundary(group, r.low) /\ IsBoundary(group, r.high)
        /\ first \in Over(r) /\ At(r.low, first) \in Int /\ At(r.high, first) \in Int
    BY <1>1, PieceFields
  <1>3. /\ s \in Tops(group, x) /\ s \in Regions
        /\ Over(s) = first .. last /\ s.low \in Lines /\ s.high \in Lines
        /\ IsBoundary(group, s.low) /\ IsBoundary(group, s.high)
        /\ At(s.low, first) \in Int /\ At(s.high, first) \in Int
    BY <1>1, PieceFields
  <1>4. ~ (At(s.low, first) < At(r.low, first))
    BY <1>2, <1>3
  <1>5. e = [r EXCEPT !.low = r.low, !.high = high]
    BY <1>4 DEF Extend
  <1>6. /\ e.outer = first /\ e.outerMaximum = last /\ e.low = r.low /\ e.high = high
        /\ e.index = r.index /\ e.currentEmpty = r.currentEmpty
        /\ e.emptyRepeatBlocked = r.emptyRepeatBlocked
        /\ e \in [outer : Nat, outerMaximum : Nat, index : Nat, low : Lines, high : Lines,
                  currentEmpty : BOOLEAN, emptyRepeatBlocked : BOOLEAN]
    <2>1. high \in Lines
      BY <1>2, <1>3
    <2> HIDE DEF high
    <2> QED
      BY <1>2, <1>5, <2>1 DEF Regions
  <1>7. high \in {r.high, s.high} /\ IsBoundary(group, high) /\ high \in Lines
    BY <1>2, <1>3
  <1>8. At(r.high, first) <= At(high, first) /\ At(s.high, first) <= At(high, first)
    BY <1>2, <1>3
  <1> HIDE DEF e, high
  <1>9. Over(e) = first .. last
    BY <1>6 DEF Over
  <1>10. ASSUME NEW o \in first .. last
         PROVE  /\ At(r.high, o) <= At(high, o) /\ At(s.high, o) <= At(high, o)
                /\ At(r.low, o) <= At(s.low, o) /\ At(r.low, o) <= At(r.high, o)
                /\ At(r.low, o) <= At(high, o)
                /\ At(r.low, o) \in Int /\ At(s.low, o) \in Int
                /\ At(high, o) \in Int /\ At(r.high, o) \in Int /\ At(s.high, o) \in Int
    <2>1. At(r.high, o) <= At(high, o)
      BY <1>2, <1>7, <1>8, SegmentOrder
    <2>2. At(s.high, o) <= At(high, o)
      BY <1>3, <1>7, <1>8, SegmentOrder
    <2>3. At(r.low, o) <= At(s.low, o)
      BY <1>2, <1>3, SegmentOrder
    <2>4. At(r.low, o) <= At(r.high, o)
      BY <1>2, RegionFields
    <2>5. /\ At(r.low, o) \in Int /\ At(high, o) \in Int /\ At(r.high, o) \in Int
          /\ At(s.high, o) \in Int /\ At(s.low, o) \in Int
      <3>1. o \in Int
        BY <1>1
      <3>2. \A l \in Lines : At(l, o) \in Int
        BY <3>1, AtInt
      <3> QED
        BY <1>2, <1>3, <1>7, <3>2
    <2> QED
      BY <2>1, <2>2, <2>3, <2>4, <2>5
  <1>11. e \in Regions
    BY <1>6, <1>9, <1>10 DEF Regions
  <1>12. SameState(x, e)
    BY <1>2, <1>6 DEF Tops, SameState
  <1>13. ASSUME NEW o \in Over(e)
         PROVE  \E i \in DOMAIN group : o \in Over(group[i]) /\ At(group[i].high, o) = At(e.high, o)
    <2>1. o \in Over(r) /\ o \in Over(s)
      BY <1>2, <1>3, <1>9
    <2>2. CASE high = r.high
      BY <1>2, <1>6, <2>1, <2>2 DEF Tops
    <2>3. CASE high = s.high
      BY <1>3, <1>6, <2>1, <2>3 DEF Tops
    <2> QED
      BY <1>7, <2>2, <2>3
  <1>14. e \in Pieces(group, x, first, last)
    BY <1>2, <1>6, <1>7, <1>11, <1>12, <1>13 DEF Pieces, Tops
  <1>15. ASSUME NEW o \in first .. last, NEW n \in Int, Holds(r, o, n) \/ Holds(s, o, n)
         PROVE  At(r.low, o) <= n /\ n <= At(e.high, o)
    <2>1. \/ At(r.low, o) <= n /\ n <= At(r.high, o)
          \/ At(s.low, o) <= n /\ n <= At(s.high, o)
      BY <1>15 DEF Holds
    <2> QED
      BY <1>6, <1>10, <2>1
  <1> QED
    BY <1>6, <1>14, <1>15 DEF e

-----------------------------------------------------------------------------
Spread(q, first) ==
  \A k, l \in DOMAIN q : k < l => At(q[k].high, first) + 1 < At(q[l].low, first)

LEMMA JoinKeeps ==
  ASSUME NEW group \in Seq(Regions), NEW x,
         NEW first, NEW last, Quiet(group, first, last), first <= last,
         NEW q \in Seq(Pieces(group, x, first, last)), NEW r \in Pieces(group, x, first, last),
         Spread(q, first), \A k \in DOMAIN q : At(q[k].low, first) <= At(r.low, first)
  PROVE  /\ Join(q, r, first) \in Seq(Pieces(group, x, first, last))
         /\ Spread(Join(q, r, first), first)
         /\ \A k \in DOMAIN Join(q, r, first) :
              \/ Join(q, r, first)[k].low = r.low
              \/ \E j \in DOMAIN q : Join(q, r, first)[k].low = q[j].low
         /\ \A o \in first .. last, n \in Int :
              HeldIn(q, o, n) \/ Holds(r, o, n) => HeldIn(Join(q, r, first), o, n)
  <1> DEFINE P == Pieces(group, x, first, last)
             N == Len(q)
             w == Join(q, r, first)
  <1>1. N \in Nat /\ DOMAIN q = 1 .. N /\ \A k \in 1 .. N : q[k] \in P
    BY LenProperties, ElementOfSeq
  <1>2. first \in Int /\ last \in Int
    BY DEF Quiet
  <1>3. \A s \in P : /\ s \in Regions /\ At(s.low, first) \in Int /\ At(s.high, first) \in Int
                     /\ At(s.low, first) <= At(s.high, first) /\ Over(s) = first .. last
    BY <1>2, PieceFields
  <1>4. q \in Seq(P) /\ r \in P
    OBVIOUS
  <1>5. \A k \in 1 .. N : At(q[k].low, first) <= At(r.low, first)
    BY <1>1
  <1>6. \A k, l \in 1 .. N : k < l => At(q[k].high, first) + 1 < At(q[l].low, first)
    BY <1>1 DEF Spread
  <1> HIDE DEF P, N
  <1>7. CASE N = 0 \/ ~ CountsTouchAt(q[N], r, first)
    <2>1. w = Append(q, r)
      BY <1>7 DEF Join, N
    <2>2. /\ w \in Seq(P) /\ DOMAIN w = 1 .. N + 1 /\ w[N + 1] = r
          /\ \A k \in 1 .. N : w[k] = q[k]
      <3>1. /\ Append(q, r) \in Seq(P) /\ Len(Append(q, r)) = N + 1
            /\ \A k \in 1 .. N : Append(q, r)[k] = q[k]
            /\ Append(q, r)[N + 1] = r
        BY <1>4, AppendProperties DEF N
      <3>2. DOMAIN w = 1 .. N + 1
        BY <2>1, <3>1, LenProperties
      <3> QED
        BY <2>1, <3>1, <3>2
    <2> HIDE DEF w
    <2>3. ASSUME NEW k \in 1 .. N
          PROVE  At(q[k].high, first) + 1 < At(r.low, first)
      <3>1. N \in 1 .. N /\ q[N] \in P /\ q[k] \in P
        BY <1>1
      <3>2. At(q[N].high, first) + 1 < At(r.low, first)
        <4>1. ~ (/\ At(q[N].high, first) + 1 >= At(r.low, first)
                 /\ At(r.high, first) + 1 >= At(q[N].low, first))
          BY <1>1, <1>7 DEF CountsTouchAt, Touch
        <4>2. At(q[N].low, first) <= At(r.low, first)
          BY <1>5, <3>1
        <4> QED
          BY <1>3, <1>4, <3>1, <4>1, <4>2
      <3>3. CASE k = N
        BY <3>2, <3>3
      <3>4. CASE k < N
        <4>1. At(q[k].high, first) + 1 < At(q[N].low, first)
          BY <1>6, <3>1, <3>4
        <4>2. At(q[N].low, first) <= At(r.low, first)
          BY <1>5, <3>1
        <4> QED
          BY <1>3, <1>4, <3>1, <4>1, <4>2
      <3> QED
        BY <1>1, <3>3, <3>4
    <2>4. Spread(w, first)
      <3>1. ASSUME NEW k \in 1 .. N + 1, NEW l \in 1 .. N + 1, k < l
            PROVE  At(w[k].high, first) + 1 < At(w[l].low, first)
        <4>1. k \in 1 .. N /\ w[k] = q[k]
          BY <1>1, <2>2, <3>1
        <4>2. CASE l = N + 1
          BY <2>2, <2>3, <4>1, <4>2
        <4>3. CASE l \in 1 .. N
          BY <1>6, <2>2, <3>1, <4>1, <4>3
        <4> QED
          BY <1>1, <4>2, <4>3
      <3> QED
        BY <2>2, <3>1 DEF Spread
    <2>5. \A k \in DOMAIN w : w[k].low = r.low \/ \E j \in DOMAIN q : w[k].low = q[j].low
      BY <1>1, <2>2
    <2>6. ASSUME NEW o, NEW n, HeldIn(q, o, n) \/ Holds(r, o, n)
          PROVE  HeldIn(w, o, n)
      BY <1>1, <2>2, <2>6 DEF HeldIn
    <2> QED
      BY <2>2, <2>4, <2>5, <2>6 DEF w, P
  <1>8. CASE N # 0 /\ CountsTouchAt(q[N], r, first)
    <2> DEFINE e == Extend(q[N], r, first)
    <2>1. w = [q EXCEPT ![N] = e]
      BY <1>8 DEF Join, N
    <2>2. N \in 1 .. N /\ q[N] \in P
      BY <1>1, <1>8
    <2>3. /\ e \in P /\ e.low = q[N].low
          /\ \A o \in first .. last : \A n : n \in Int /\ (Holds(q[N], o, n) \/ Holds(r, o, n))
               => (At(q[N].low, o) <= n /\ n <= At(e.high, o))
      BY <1>5, <2>2, ExtendPiece DEF P
    <2> HIDE DEF e
    <2>4. DOMAIN w = 1 .. N /\ w[N] = e /\ \A k \in 1 .. N : k # N => w[k] = q[k]
      BY <1>1, <2>1, <2>2
    <2>5. w \in Seq(P)
      <3>1. w = [k \in 1 .. N |-> w[k]]
        BY <1>1, <2>1
      <3>2. \A k \in 1 .. N : w[k] \in P
        BY <1>1, <2>3, <2>4
      <3> HIDE DEF w
      <3> QED
        BY <1>1, <3>1, <3>2, IsASeq
    <2> HIDE DEF w
    <2>6. \A k \in 1 .. N : w[k].low = q[k].low
      BY <2>3, <2>4
    <2>7. Spread(w, first)
      <3>1. ASSUME NEW k \in 1 .. N, NEW l \in 1 .. N, k < l
            PROVE  At(w[k].high, first) + 1 < At(w[l].low, first)
        <4>1. w[k] = q[k]
          BY <1>1, <2>4, <3>1
        <4> QED
          BY <1>6, <2>6, <3>1, <4>1
      <3> QED
        BY <2>4, <3>1 DEF Spread
    <2>8. ASSUME NEW o \in first .. last, NEW n \in Int, HeldIn(q, o, n) \/ Holds(r, o, n)
          PROVE  HeldIn(w, o, n)
      <3>1. CASE Holds(q[N], o, n) \/ Holds(r, o, n)
        <4>1. At(e.low, o) <= n /\ n <= At(e.high, o)
          BY <2>3, <3>1
        <4>2. o \in Over(e)
          BY <1>3, <2>3
        <4>3. Holds(w[N], o, n)
          BY <2>4, <4>1, <4>2 DEF Holds
        <4> QED
          BY <2>2, <2>4, <4>3 DEF HeldIn
      <3>2. CASE \E k \in 1 .. N : k # N /\ Holds(q[k], o, n)
        BY <2>4, <3>2 DEF HeldIn
      <3> QED
        BY <1>1, <2>8, <3>1, <3>2 DEF HeldIn
    <2> QED
      BY <1>1, <2>4, <2>5, <2>6, <2>7, <2>8 DEF w, P
  <1> QED
    BY <1>7, <1>8

LEMMA SpreadApart ==
  ASSUME NEW group \in Seq(Regions), NEW x,
         NEW first, NEW last, Quiet(group, first, last), first <= last,
         NEW q \in Seq(Pieces(group, x, first, last)), Spread(q, first)
  PROVE  PairwiseApart(q)
  <1> DEFINE P == Pieces(group, x, first, last)
  <1>1. Len(q) \in Nat /\ DOMAIN q = 1 .. Len(q) /\ \A k \in DOMAIN q : q[k] \in P
    BY LenProperties, ElementOfSeq
  <1>2. first \in Int /\ last \in Int
    BY DEF Quiet
  <1>3. ASSUME NEW k \in DOMAIN q, NEW l \in DOMAIN q, k < l
        PROVE  Apart(q[k], q[l])
    <2> DEFINE r == q[k]
               s == q[l]
    <2>1. /\ r.outer = first /\ Over(r) = first .. last
          /\ IsBoundary(group, r.high) /\ r.high \in Lines
          /\ At(r.high, first) \in Int /\ At(r.low, first) \in Int
      BY <1>1, <1>2, PieceFields
    <2>2. /\ s.outer = first /\ Over(s) = first .. last
          /\ IsBoundary(group, s.low) /\ s.low \in Lines
          /\ At(s.low, first) \in Int /\ At(s.high, first) \in Int
      BY <1>1, <1>2, PieceFields
    <2>3. At(r.high, first) + 1 < At(s.low, first)
      BY <1>3 DEF Spread
    <2> HIDE DEF r, s
    <2>4. At(r.high, first) < At(s.low, first)
      BY <2>1, <2>2, <2>3
    <2>5. \A o \in first .. last : At(r.high, o) < At(s.low, o)
      BY <2>1, <2>2, <2>4, SegmentOrder
    <2>6. ~ CountsTouchAt(r, s, first)
      BY <2>1, <2>2, <2>3 DEF CountsTouchAt, Touch
    <2> QED
      BY <2>1, <2>2, <2>5, <2>6 DEF Apart, r, s
  <1>4. ASSUME NEW k \in DOMAIN q, NEW l \in DOMAIN q, k # l
        PROVE  Apart(q[k], q[l])
    <2>1. k < l \/ l < k
      BY <1>1, <1>4
    <2> QED
      BY <1>3, <2>1, ApartSymmetric
  <1> QED
    BY <1>4 DEF PairwiseApart

-----------------------------------------------------------------------------
(* The regions of a segment: over all of it, apart, and with every state   *)
(* of the group in it.                                                     *)
LEMMA ComponentsKeep ==
  ASSUME NEW group \in Seq(Regions), NEW x, Uniform(group, x),
         NEW first, NEW last, Quiet(group, first, last), first <= last
  PROVE  /\ Components(group, first, last) \in Seq(Pieces(group, x, first, last))
         /\ PairwiseApart(Components(group, first, last))
         /\ \A o \in first .. last, n \in Int :
              HeldIn(group, o, n) => HeldIn(Components(group, first, last), o, n)
  <1> DEFINE A == Active(group, first)
             N == Len(A)
             P == Pieces(group, x, first, last)
             S == Seq(P)
             step == [y \in S \X (1 .. N) |-> Join(y[1], Clipped(A[y[2]], first, last), first)]
             joined == CHOOSE f : f = [n \in 0 .. N |->
                         IF n = 0 THEN <<>> ELSE Join(f[n - 1], Clipped(A[n], first, last), first)]
             Good(n, q) ==
               /\ Spread(q, first)
               /\ \A k \in DOMAIN q, m \in n + 1 .. N : At(q[k].low, first) <= At(A[m].low, first)
               /\ \A i \in 1 .. n, o \in first .. last, c \in Int : Holds(A[i], o, c) => HeldIn(q, o, c)
             Fine == {y \in Nat \X S : Good(y[1], y[2])}
  <1>1. Components(group, first, last) = joined[N]
    BY DEF Components, Clipped
  <1>2. first \in Int /\ last \in Int
    BY DEF Quiet
  <1>3. /\ N \in Nat /\ DOMAIN A = 1 .. N
        /\ \A k \in 1 .. N : \E i \in DOMAIN group : A[k] = group[i] /\ ActiveAt(group[i], first)
        /\ \A i \in DOMAIN group : ActiveAt(group[i], first) => \E k \in 1 .. N : A[k] = group[i]
        /\ \A k, l \in 1 .. N : k < l => At(A[k].low, first) <= At(A[l].low, first)
    <2>1. /\ A \in Seq(Regions)
          /\ \A k \in DOMAIN A : \E i \in DOMAIN group : A[k] = group[i] /\ ActiveAt(group[i], first)
          /\ \A i \in DOMAIN group : ActiveAt(group[i], first) => \E k \in DOMAIN A : A[k] = group[i]
          /\ \A k, l \in DOMAIN A : k < l => At(A[k].low, first) <= At(A[l].low, first)
      BY <1>2, ActiveSorted
    <2> HIDE DEF A
    <2>2. N \in Nat /\ DOMAIN A = 1 .. N
      BY <2>1, LenProperties
    <2> QED
      BY <2>1, <2>2
  <1> HIDE DEF A, N, joined
  <1>4. ASSUME NEW k \in 1 .. N
        PROVE  /\ Clipped(A[k], first, last) \in P /\ Clipped(A[k], first, last).low = A[k].low
               /\ \A o \in first .. last : \A n : Holds(A[k], o, n) => Holds(Clipped(A[k], first, last), o, n)
    <2>1. PICK i \in DOMAIN group : A[k] = group[i] /\ ActiveAt(group[i], first)
      BY <1>3
    <2> QED
      BY <2>1, ClippedPiece
  <1> HIDE DEF P
  <1>5. ASSUME NEW n \in 1 .. N, NEW q \in S, Good(n - 1, q)
        PROVE  /\ Join(q, Clipped(A[n], first, last), first) \in S
               /\ Good(n, Join(q, Clipped(A[n], first, last), first))
    <2> DEFINE r == Clipped(A[n], first, last)
               w == Join(q, r, first)
    <2>1. r \in P /\ r.low = A[n].low
          /\ \A o \in first .. last : \A c : Holds(A[n], o, c) => Holds(r, o, c)
      BY <1>4
    <2> HIDE DEF r
    <2>2. n \in n - 1 + 1 .. N
      BY <1>3
    <2>3. Spread(q, first) /\ \A k \in DOMAIN q : At(q[k].low, first) <= At(r.low, first)
      BY <1>5, <2>1, <2>2
    <2>4. /\ w \in S /\ Spread(w, first)
          /\ \A k \in DOMAIN w : w[k].low = r.low \/ \E j \in DOMAIN q : w[k].low = q[j].low
          /\ \A o \in first .. last, c \in Int : HeldIn(q, o, c) \/ Holds(r, o, c) => HeldIn(w, o, c)
      BY <2>1, <2>3, JoinKeeps DEF P
    <2> HIDE DEF w
    <2>5. ASSUME NEW k \in DOMAIN w, NEW m \in n + 1 .. N
          PROVE  At(w[k].low, first) <= At(A[m].low, first)
      <3>1. m \in n - 1 + 1 .. N /\ m \in 1 .. N /\ n < m
        BY <1>3
      <3>2. CASE w[k].low = r.low
        BY <1>3, <2>1, <3>1, <3>2
      <3>3. ASSUME NEW j \in DOMAIN q, w[k].low = q[j].low
            PROVE  At(w[k].low, first) <= At(A[m].low, first)
        BY <1>5, <3>1, <3>3
      <3> QED
        BY <2>4, <3>2, <3>3
    <2>6. ASSUME NEW i \in 1 .. n, NEW o \in first .. last, NEW c \in Int, Holds(A[i], o, c)
          PROVE  HeldIn(w, o, c)
      <3>1. CASE i = n
        BY <2>1, <2>4, <2>6, <3>1
      <3>2. CASE i \in 1 .. n - 1
        BY <1>5, <2>4, <2>6, <3>2
      <3> QED
        BY <3>1, <3>2
    <2> HIDE DEF S
    <2> QED
      BY <2>4, <2>5, <2>6 DEF r, w
  <1>6. <<0, <<>>>> \in Fine
    <2>1. <<>> \in S /\ DOMAIN <<>> = {}
      BY EmptySeq
    <2>2. Good(0, <<>>)
      BY <2>1 DEF Spread
    <2> HIDE DEF S, Good
    <2> QED
      BY <2>1, <2>2
  <1>7. ASSUME NEW n \in 1 .. N, NEW q \in S, <<n - 1, q>> \in Fine
        PROVE  <<n, step[<<q, n>>]>> \in Fine
    <2> HIDE DEF S, Good
    <2>1. Good(n - 1, q) /\ n \in Nat
      BY <1>3, <1>7
    <2>2. step[<<q, n>>] = Join(q, Clipped(A[n], first, last), first)
      OBVIOUS
    <2> HIDE DEF step
    <2> QED
      BY <1>5, <2>1, <2>2
  <1> HIDE DEF S, Good
  <1>8. Fine \subseteq Nat \X S
    OBVIOUS
  <1> HIDE DEF Fine
  <1>9. ASSUME NEW f, \A n \in 0 .. N : f[n] \in S
        PROVE  [n \in 0 .. N |-> IF n = 0 THEN <<>> ELSE step[<<f[n - 1], n>>]]
                 = [n \in 0 .. N |-> IF n = 0 THEN <<>> ELSE Join(f[n - 1], Clipped(A[n], first, last), first)]
    <2>1. ASSUME NEW n \in 0 .. N, n # 0
          PROVE  step[<<f[n - 1], n>>] = Join(f[n - 1], Clipped(A[n], first, last), first)
      <3>1. n \in 1 .. N /\ f[n - 1] \in S
        BY <1>3, <1>9, <2>1
      <3> QED
        BY <3>1
    <2> HIDE DEF step
    <2> QED
      BY <2>1
  <1>10. PICK g : Chain(N, <<>>, step, g) /\ \A n \in 0 .. N : g[n] \in S
    <2> HIDE DEF step
    <2>1. Runs(N, S, <<>>, step)
      BY <1>3, <1>6, <1>7, <1>8, Folded
    <2> QED
      BY <2>1 DEF Runs
  <1>11. joined = [n \in 0 .. N |->
                     IF n = 0 THEN <<>> ELSE Join(joined[n - 1], Clipped(A[n], first, last), first)]
    <2>1. g = [n \in 0 .. N |-> IF n = 0 THEN <<>> ELSE Join(g[n - 1], Clipped(A[n], first, last), first)]
      BY <1>9, <1>10 DEF Chain
    <2> QED
      BY <2>1 DEF joined
  <1>12. Follows(N, S, <<>>, step, joined)
    <2>1. joined[0] = <<>>
      BY <1>3, <1>11
    <2>2. ASSUME NEW n \in 1 .. N, joined[n - 1] \in S
          PROVE  joined[n] = step[<<joined[n - 1], n>>]
      <3>1. n \in 0 .. N /\ n # 0
        BY <1>3
      <3>2. joined[n] = Join(joined[n - 1], Clipped(A[n], first, last), first)
        BY <1>11, <3>1
      <3> QED
        BY <2>2, <3>2
    <2> QED
      BY <2>1, <2>2 DEF Follows
  <1>13. <<N, joined[N]>> \in Fine /\ joined[N] \in S
    <2> HIDE DEF step
    <2>1. \A n \in 0 .. N : <<n, joined[n]>> \in Fine /\ joined[n] \in S
      BY <1>3, <1>6, <1>7, <1>8, <1>12, Folded
    <2> HIDE DEF joined
    <2> QED
      BY <1>3, <2>1
  <1> DEFINE c == joined[N]
  <1>14. c \in S /\ Good(N, c)
    BY <1>13 DEF Fine
  <1> HIDE DEF c
  <1>15. Spread(c, first)
    BY <1>14 DEF Good
  <1>16. PairwiseApart(c)
    BY <1>14, <1>15, SpreadApart DEF S, P
  <1>17. ASSUME NEW o \in first .. last, NEW n \in Int, HeldIn(group, o, n)
         PROVE  HeldIn(c, o, n)
    <2>1. PICK i \in DOMAIN group : Holds(group[i], o, n)
      BY <1>17 DEF HeldIn
    <2>2. ActiveAt(group[i], first)
      BY <2>1, SegmentActive DEF Holds
    <2>3. PICK k \in 1 .. N : A[k] = group[i]
      BY <1>3, <2>2
    <2> QED
      BY <1>14, <2>1, <2>3 DEF Good
  <1> QED
    BY <1>1, <1>14, <1>16, <1>17 DEF c, S, P

-----------------------------------------------------------------------------
(* The segments between the breakpoints, one after the other.              *)
Segments(group) ==
  [i \in 1 .. Len(Ascending(Breakpoints(group))) - 1 |->
     Components(group, Ascending(Breakpoints(group))[i], Ascending(Breakpoints(group))[i + 1] - 1)]

LEMMA BreakpointsInOrder ==
  ASSUME NEW group \in Seq(Regions), group # <<>>, NEW bp, bp = Ascending(Breakpoints(group))
  PROVE  /\ Len(bp) \in Nat \ {0} /\ bp \in [1 .. Len(bp) -> Int]
         /\ \A k, l \in 1 .. Len(bp) : k < l => bp[k] < bp[l]
         /\ \A i \in DOMAIN group : \E k, l \in 1 .. Len(bp) :
              bp[k] = group[i].outer /\ bp[l] = group[i].outerMaximum + 1
         /\ \A k \in 1 .. Len(bp) - 1 : /\ Quiet(group, bp[k], bp[k + 1] - 1)
                                        /\ bp[k] <= bp[k + 1] - 1
  <1> DEFINE B == Breakpoints(group)
             M == Cardinality(B)
  <1>1. /\ B \subseteq Int /\ IsFiniteSet(B)
        /\ \A i \in DOMAIN group : group[i].outer \in B /\ group[i].outerMaximum + 1 \in B
    BY BreakpointsFinite
  <1>2. 1 \in DOMAIN group
    <2>1. Len(group) \in Nat /\ DOMAIN group = 1 .. Len(group) /\ Len(group) # 0
      BY LenProperties, EmptySeq
    <2> QED
      BY <2>1
  <1> HIDE DEF B
  <1>3. /\ M \in Nat /\ bp \in [1 .. M -> B]
        /\ \A n \in B : \E k \in 1 .. M : bp[k] = n
        /\ \A k, l \in 1 .. M : k < l => bp[k] < bp[l]
    BY <1>1, AscendingKeeps DEF B
  <1> HIDE DEF M
  <1>4. M # 0
    <2>1. PICK k \in 1 .. M : bp[k] = group[1].outer
      BY <1>1, <1>2, <1>3
    <2> QED
      BY <1>3, <2>1
  <1>5. Len(bp) = M
    <2>1. bp \in Seq(Int)
      <3>1. bp = [k \in 1 .. M |-> bp[k]] /\ \A k \in 1 .. M : bp[k] \in Int
        BY <1>1, <1>3
      <3> QED
        BY <1>3, <3>1, IsASeq
    <2>2. DOMAIN bp = 1 .. M
      BY <1>3
    <2> QED
      BY <1>3, <2>1, <2>2, LenProperties
  <1>6. bp \in [1 .. M -> Int]
    BY <1>1, <1>3
  <1>7. ASSUME NEW k \in 1 .. M - 1
        PROVE  Quiet(group, bp[k], bp[k + 1] - 1) /\ bp[k] <= bp[k + 1] - 1
    <2>1. /\ k \in 1 .. M /\ k + 1 \in 1 .. M /\ k < k + 1
          /\ bp[k] \in Int /\ bp[k + 1] \in Int /\ bp[k + 1] - 1 \in Int
      BY <1>3, <1>6
    <2>2. bp[k] < bp[k + 1]
      BY <1>3, <2>1
    <2>3. ASSUME NEW b \in B
          PROVE  b <= bp[k] \/ bp[k + 1] - 1 < b
      <3>1. PICK l \in 1 .. M : bp[l] = b
        BY <1>3
      <3>2. bp[l] \in Int
        BY <1>6
      <3>3. CASE l < k
        BY <1>3, <2>1, <3>1, <3>2, <3>3
      <3>4. CASE l = k
        BY <2>1, <3>1, <3>4
      <3>5. CASE l = k + 1
        BY <2>1, <3>1, <3>5
      <3>6. CASE l > k + 1
        <4>1. bp[k + 1] < bp[l]
          BY <1>3, <2>1, <3>6
        <4> QED
          BY <2>1, <3>1, <3>2, <4>1
      <3> QED
        BY <1>3, <2>1, <3>3, <3>4, <3>5, <3>6
    <2>4. bp[k] <= bp[k + 1] - 1
      BY <2>1, <2>2
    <2> QED
      BY <2>1, <2>3, <2>4 DEF Quiet, B
  <1>8. \A i \in DOMAIN group : \E k, l \in 1 .. M : bp[k] = group[i].outer /\ bp[l] = group[i].outerMaximum + 1
    BY <1>1, <1>3
  <1> QED
    BY <1>3, <1>4, <1>5, <1>6, <1>7, <1>8

LEMMA SegmentsKeep ==
  ASSUME NEW group \in Seq(Regions), group # <<>>, NEW x, Uniform(group, x)
  PROVE  /\ FlattenSeq(Segments(group)) \in Seq(Tops(group, x))
         /\ PairwiseApart(FlattenSeq(Segments(group)))
         /\ \A o, n \in Int : HeldIn(group, o, n) => HeldIn(FlattenSeq(Segments(group)), o, n)
  <1> DEFINE bp == Ascending(Breakpoints(group))
             M == Len(bp)
             T == Tops(group, x)
             ss == Segments(group)
             flat == FlattenSeq(ss)
  <1>1. /\ M \in Nat \ {0} /\ bp \in [1 .. M -> Int]
        /\ \A k, l \in 1 .. M : k < l => bp[k] < bp[l]
        /\ \A i \in DOMAIN group : \E k, l \in 1 .. M :
             bp[k] = group[i].outer /\ bp[l] = group[i].outerMaximum + 1
        /\ \A k \in 1 .. M - 1 : Quiet(group, bp[k], bp[k + 1] - 1) /\ bp[k] <= bp[k + 1] - 1
    BY BreakpointsInOrder
  <1>2. ss = [i \in 1 .. M - 1 |-> Components(group, bp[i], bp[i + 1] - 1)]
    BY DEF Segments
  <1> HIDE DEF bp, M, ss
  <1>3. ASSUME NEW i \in 1 .. M - 1
        PROVE  /\ ss[i] \in Seq(Pieces(group, x, bp[i], bp[i + 1] - 1)) /\ PairwiseApart(ss[i])
               /\ \A o \in bp[i] .. bp[i + 1] - 1, n \in Int : HeldIn(group, o, n) => HeldIn(ss[i], o, n)
               /\ ss[i] \in Seq(T)
               /\ DOMAIN ss[i] = 1 .. Len(ss[i])
               /\ \A j \in 1 .. Len(ss[i]) : /\ ss[i][j] \in T /\ ss[i][j].outer = bp[i]
                                             /\ Over(ss[i][j]) = bp[i] .. bp[i + 1] - 1
    <2>1. /\ ss[i] \in Seq(Pieces(group, x, bp[i], bp[i + 1] - 1)) /\ PairwiseApart(ss[i])
          /\ \A o \in bp[i] .. bp[i + 1] - 1, n \in Int : HeldIn(group, o, n) => HeldIn(ss[i], o, n)
      BY <1>1, <1>2, ComponentsKeep
    <2>2. /\ Len(ss[i]) \in Nat /\ DOMAIN ss[i] = 1 .. Len(ss[i])
          /\ \A j \in 1 .. Len(ss[i]) : ss[i][j] \in Pieces(group, x, bp[i], bp[i + 1] - 1)
      BY <2>1, LenProperties, ElementOfSeq
    <2>3. ASSUME NEW j \in 1 .. Len(ss[i])
          PROVE  /\ ss[i][j] \in T /\ ss[i][j].outer = bp[i]
                 /\ Over(ss[i][j]) = bp[i] .. bp[i + 1] - 1
      BY <2>2 DEF Pieces, Over
    <2>4. ss[i] \in Seq(T)
      <3> HIDE DEF T
      <3>1. ss[i] = [j \in 1 .. Len(ss[i]) |-> ss[i][j]]
        BY <2>1, <2>2
      <3> QED
        BY <2>2, <2>3, <3>1, IsASeq
    <2> QED
      BY <2>1, <2>2, <2>3, <2>4
  <1> HIDE DEF T
  <1>4. ss \in Seq(Seq(T)) /\ Len(ss) = M - 1
    <2>1. ss = [i \in 1 .. M - 1 |-> ss[i]]
      BY <1>2
    <2> QED
      <3>1. M - 1 \in Nat /\ \A i \in 1 .. M - 1 : ss[i] \in Seq(T)
        BY <1>1, <1>3
      <3> QED
        BY <2>1, <3>1, IsASeq
  <1>5. flat \in Seq(T) /\ \E at : Deals(ss, Len(ss), flat, at)
    BY <1>4, FlattenDeals
  <1>6. PICK at : Deals(ss, Len(ss), flat, at)
    BY <1>5
  <1>7. Len(flat) \in Nat /\ DOMAIN flat = 1 .. Len(flat)
    BY <1>5, LenProperties
  <1> HIDE DEF flat
  <1>8. ASSUME NEW k \in DOMAIN flat
        PROVE  /\ at[k][1] \in 1 .. M - 1 /\ at[k][2] \in 1 .. Len(ss[at[k][1]])
               /\ flat[k] = ss[at[k][1]][at[k][2]] /\ at[k] = <<at[k][1], at[k][2]>>
    <2>1. at[k] \in Nat \X Nat
      BY <1>6, <1>7 DEF Deals
    <2> QED
      BY <1>4, <1>6, <1>7, <2>1 DEF Deals
  <1>9. ASSUME NEW k \in DOMAIN flat, NEW l \in DOMAIN flat, at[k][1] < at[l][1]
        PROVE  Apart(flat[k], flat[l])
    <2> DEFINE i == at[k][1]
               j == at[l][1]
               r == flat[k]
               s == flat[l]
    <2>1. i \in 1 .. M - 1 /\ j \in 1 .. M - 1 /\ i < j
      BY <1>8, <1>9
    <2>2. r.outer = bp[i] /\ Over(r) = bp[i] .. bp[i + 1] - 1
      BY <1>3, <1>8
    <2>3. s.outer = bp[j] /\ Over(s) = bp[j] .. bp[j + 1] - 1
      BY <1>3, <1>8
    <2> HIDE DEF i, j, r, s
    <2>4. /\ i \in 1 .. M /\ i + 1 \in 1 .. M /\ j \in 1 .. M /\ j + 1 \in 1 .. M
          /\ i + 1 = j \/ i + 1 < j
      BY <1>1, <2>1
    <2>5. bp[i] \in Int /\ bp[i + 1] \in Int /\ bp[j] \in Int /\ bp[j + 1] \in Int
      BY <1>1, <2>4
    <2>6. bp[i] < bp[j] /\ bp[i + 1] <= bp[j]
      <3>1. \A k_1, l_1 \in 1 .. M : k_1 < l_1 => bp[k_1] < bp[l_1]
        BY <1>1
      <3>2. bp[i] < bp[j]
        BY <2>1, <2>4, <3>1
      <3>3. CASE i + 1 = j
        BY <2>5, <3>2, <3>3
      <3>4. CASE i + 1 < j
        <4>1. bp[i + 1] < bp[j]
          BY <2>4, <3>1, <3>4
        <4> QED
          BY <2>5, <3>2, <4>1
      <3> QED
        BY <2>4, <3>3, <3>4
    <2>7. Over(r) \cap Over(s) = {} /\ r.outer # s.outer
      BY <2>2, <2>3, <2>5, <2>6
    <2> QED
      BY <2>7 DEF Apart, r, s
  <1>10. ASSUME NEW k \in DOMAIN flat, NEW l \in DOMAIN flat, k # l
         PROVE  Apart(flat[k], flat[l])
    <2>1. at[k] # at[l]
      BY <1>6, <1>7, <1>10 DEF Deals
    <2>2. CASE at[k][1] < at[l][1]
      BY <1>9, <2>2
    <2>3. CASE at[l][1] < at[k][1]
      BY <1>9, <2>3, ApartSymmetric
    <2>4. CASE at[k][1] = at[l][1]
      <3>1. at[k][2] # at[l][2]
        BY <1>8, <2>1, <2>4
      <3> QED
        BY <1>3, <1>8, <2>4, <3>1 DEF PairwiseApart
    <2>5. at[k][1] \in Int /\ at[l][1] \in Int
      BY <1>1, <1>8
    <2> QED
      BY <2>2, <2>3, <2>4, <2>5
  <1>11. ASSUME NEW o \in Int, NEW n \in Int, HeldIn(group, o, n)
         PROVE  HeldIn(flat, o, n)
    <2>1. PICK g \in DOMAIN group : Holds(group[g], o, n)
      BY <1>11 DEF HeldIn
    <2>2. group[g] \in Regions
      BY ElementOfSeq
    <2>3. group[g].outer <= o /\ o < group[g].outerMaximum + 1
      BY <2>1, <2>2, RegionFields DEF Holds, Over
    <2>4. PICK b, c \in 1 .. M : bp[b] = group[g].outer /\ bp[c] = group[g].outerMaximum + 1
      BY <1>1
    <2> DEFINE I == {k \in 1 .. M : bp[k] <= o}
               i == Max(I)
    <2>5. I \subseteq 0 .. M /\ b \in I
      BY <1>1, <2>3, <2>4
    <2>6. i \in I /\ \A k \in I : k <= i
      <3> HIDE DEF I
      <3> QED
        BY <1>1, <2>5, GreatestIn
    <2> HIDE DEF i
    <2>7. i \in 1 .. M /\ bp[i] <= o
      BY <2>6
    <2>8. i # M
      <3>1. bp[c] \in Int /\ bp[i] \in Int
        BY <1>1, <2>7
      <3>2. c <= M
        BY <1>1
      <3>3. CASE i = M
        <4>1. bp[c] <= bp[i]
          <5>1. CASE c = M
            BY <3>1, <3>3, <5>1
          <5>2. CASE c < M
            <6>1. bp[c] < bp[M]
              BY <1>1, <5>2
            <6> QED
              BY <3>1, <3>3, <6>1
          <5> QED
            BY <1>1, <3>2, <5>1, <5>2
        <4> QED
          BY <2>3, <2>4, <2>7, <3>1, <4>1
      <3> QED
        BY <3>3
    <2>9. i \in 1 .. M - 1 /\ i + 1 \in 1 .. M /\ i + 1 > i
      BY <1>1, <2>7, <2>8
    <2>10. ~ (bp[i + 1] <= o)
      BY <2>6, <2>9
    <2>11. o \in bp[i] .. bp[i + 1] - 1
      <3>1. bp[i] \in Int /\ bp[i + 1] \in Int
        BY <1>1, <2>7, <2>9
      <3> QED
        BY <2>7, <2>10, <3>1
    <2>12. HeldIn(ss[i], o, n)
      BY <1>3, <1>11, <2>9, <2>11
    <2>13. PICK j \in DOMAIN ss[i] : Holds(ss[i][j], o, n)
      BY <2>12 DEF HeldIn
    <2>14. j \in 1 .. Len(ss[i])
      BY <1>3, <2>9, <2>13
    <2>15. PICK k \in 1 .. Len(flat) : at[k] = <<i, j>>
      BY <1>4, <1>6, <2>9, <2>14 DEF Deals
    <2>16. flat[k] = ss[i][j]
      BY <1>7, <1>8, <2>15
    <2> QED
      BY <1>7, <2>13, <2>15, <2>16 DEF HeldIn
  <1> QED
    BY <1>5, <1>10, <1>11 DEF flat, ss, T, PairwiseApart

-----------------------------------------------------------------------------
(* Rows on two lines are the region between the lines.                     *)
LEMMA AppendRegionApart ==
  ASSUME NEW G, Keeps(G), NEW q \in Seq(G), NEW r \in G, PairwiseApart(q),
         \A i \in DOMAIN q : Apart(r, q[i]),
         NEW x \in Regions, Apart(x, r), \A i \in DOMAIN q : Apart(x, q[i])
  PROVE  \A i \in DOMAIN AppendRegion(q, r) : Apart(x, AppendRegion(q, r)[i])
  <1> DEFINE H == {s \in G : Apart(x, s)}
             w == AppendRegion(q, r)
  <1>1. H \subseteq G /\ H \subseteq Regions
    BY DEF Keeps
  <1>2. Keeps(H)
    BY <1>1, ApartSpan DEF Keeps
  <1>3. r \in H
    OBVIOUS
  <1>4. q \in Seq(H)
    <2>1. Len(q) \in Nat /\ DOMAIN q = 1 .. Len(q) /\ \A i \in 1 .. Len(q) : q[i] \in G
      BY LenProperties, ElementOfSeq
    <2>2. \A i \in 1 .. Len(q) : q[i] \in H
      BY <2>1
    <2>3. q = [i \in 1 .. Len(q) |-> q[i]]
      BY <2>1
    <2> HIDE DEF H
    <2> QED
      BY <2>1, <2>2, <2>3, IsASeq
  <1>5. w \in Seq(H)
    <2> HIDE DEF H
    <2> QED
      BY <1>2, <1>3, <1>4, AppendRegionKeeps
  <1>6. \A i \in DOMAIN w : w[i] \in H
    <2> HIDE DEF H, w
    <2> QED
      BY <1>5, LenProperties, ElementOfSeq
  <1> QED
    BY <1>6

LEMMA ExactFloor ==
  ASSUME NEW n \in Int, NEW d \in Int, d > 0, NEW m, m = n * d
  PROVE  Floor(m, d) = n
  <1>1. m \in Int /\ d * n = m
    OBVIOUS
  <1>2. Floor(m, d) \in Int /\ \A o \in Int : o <= Floor(m, d) <=> d * o <= m
    BY <1>1, FloorBounds
  <1>3. n <= Floor(m, d)
    BY <1>1, <1>2
  <1>4. d * Floor(m, d) <= d * n
    BY <1>1, <1>2
  <1>5. Floor(m, d) <= n
    BY <1>2, <1>4, Multiples
  <1> QED
    BY <1>2, <1>3, <1>5

(* The line through two points, as FromRows computes it.                   *)
Through(from, outer, to, distance) ==
  Line(Floor(to - from, distance), from - Floor(to - from, distance) * outer)

Climbs(line, from, slope, outer) == \A k \in Int : At(line, outer + k) = from + slope * k

LEMMA ThroughLine ==
  ASSUME NEW a \in Int, NEW slope \in Int, NEW outer \in Int, NEW distance \in Int, distance > 0,
         NEW to, to = a + slope * distance
  PROVE  /\ Through(a, outer, to, distance) \in Lines
         /\ Climbs(Through(a, outer, to, distance), a, slope, outer)
  <1> DEFINE rise == slope * distance
             base == slope * outer
  <1>1. rise \in Int /\ base \in Int
    OBVIOUS
  <1>2. to - a = rise
    <2>1. to = a + rise
      OBVIOUS
    <2> HIDE DEF rise
    <2> QED
      BY <1>1, <2>1
  <1>3. Floor(to - a, distance) = slope
    BY <1>2, ExactFloor
  <1>4. Through(a, outer, to, distance) = [slope |-> slope, intercept |-> a - base]
    BY <1>3 DEF Through, Line
  <1>5. a - base \in Int
    BY <1>1
  <1>6. Through(a, outer, to, distance) \in Lines
    BY <1>4, <1>5 DEF Lines
  <1>7. ASSUME NEW k \in Int
        PROVE  At(Through(a, outer, to, distance), outer + k) = a + slope * k
    <2>1. slope * (outer + k) = base + slope * k
      OBVIOUS
    <2>2. At(Through(a, outer, to, distance), outer + k) = slope * (outer + k) + (a - base)
      BY <1>4 DEF At
    <2> DEFINE y == slope * k
    <2>3. y \in Int
      OBVIOUS
    <2>4. At(Through(a, outer, to, distance), outer + k) = (base + y) + (a - base)
      BY <2>1, <2>2
    <2> HIDE DEF y, base
    <2>5. At(Through(a, outer, to, distance), outer + k) = a + y
      BY <1>1, <2>3, <2>4
    <2> QED
      BY <2>5 DEF y
  <1> QED
    BY <1>6, <1>7 DEF Climbs

(* The rows i to e of R, on the lines of the first two.                    *)
RowsOf(R, i, e) ==
  /\ i \in DOMAIN R /\ e \in DOMAIN R /\ i < e
  /\ \A k \in i .. e : IsRow(R[k]) /\ R[k].outer = R[i].outer + (k - i)
  /\ \A k \in i .. e : RowMatches(R[k], FromRows(R[i], R[i + 1]))

Lies(R, i, e, f) ==
  /\ f \in Regions /\ SameState(R[i], f) /\ f.outer = R[i].outer
  /\ Over(f) = R[i].outer .. R[i].outer + (e - i)
  /\ \A k \in i .. e : /\ R[k].outer \in Over(f) /\ Over(R[k]) = {R[k].outer}
                       /\ At(f.low, R[k].outer) = At(R[k].low, R[k].outer)
                       /\ At(f.high, R[k].outer) = At(R[k].high, R[k].outer)

LEMMA RowsJoined ==
  ASSUME NEW R \in Seq(Regions), NEW i, NEW e, RowsOf(R, i, e), NEW f, f = FromRows(R[i], R[e])
  PROVE  Lies(R, i, e, f)
  <1> DEFINE o == R[i].outer
             r == R[i]
             al == At(r.low, o)
             ah == At(r.high, o)
             low(k) == At(R[k].low, R[k].outer)
             high(k) == At(R[k].high, R[k].outer)
             sl == low(i + 1) - al
             sh == high(i + 1) - ah
             d == e - i
  <1>1. /\ Len(R) \in Nat /\ i \in 1 .. Len(R) /\ e \in 1 .. Len(R) /\ i < e
        /\ \A k \in i .. e : k \in 1 .. Len(R) /\ k \in DOMAIN R
    BY LenProperties DEF RowsOf
  <1>2. ASSUME NEW k \in i .. e
        PROVE  /\ R[k] \in Regions /\ R[k].outer = o + (k - i) /\ Over(R[k]) = {R[k].outer}
               /\ R[k].outer \in Nat /\ R[k].outerMaximum = R[k].outer
               /\ low(k) \in Int /\ high(k) \in Int /\ low(k) <= high(k)
    <2>1. R[k] \in Regions
      BY <1>1, ElementOfSeq
    <2>2. R[k].outerMaximum = R[k].outer /\ R[k].outer = o + (k - i)
      BY DEF RowsOf, IsRow
    <2>3. /\ R[k].outer \in Nat /\ R[k].low \in Lines /\ R[k].high \in Lines
          /\ R[k].outer \in Over(R[k]) /\ At(R[k].low, R[k].outer) <= At(R[k].high, R[k].outer)
      BY <2>1, RegionFields
    <2>4. Over(R[k]) = {R[k].outer}
      BY <2>2, <2>3 DEF Over
    <2>5. low(k) \in Int /\ high(k) \in Int
      <3>1. R[k].outer \in Int
        BY <2>3
      <3> QED
        BY <2>3, <3>1, AtInt
    <2> QED
      BY <2>1, <2>2, <2>3, <2>4, <2>5
  <1>3. i \in i .. e /\ i + 1 \in i .. e /\ e \in i .. e /\ i \in Int /\ d \in Int /\ d > 0
    BY <1>1
  <1>4. al = low(i) /\ ah = high(i) /\ o \in Nat /\ al \in Int /\ ah \in Int /\ sl \in Int /\ sh \in Int
    <2>1. low(i + 1) \in Int /\ high(i + 1) \in Int /\ low(i) \in Int /\ high(i) \in Int /\ o \in Nat
      BY <1>2, <1>3
    <2> QED
      BY <2>1
  <1> DEFINE f1 == FromRows(R[i], R[i + 1])
  <1>5. \A s \in {i + 1, e} : s \in i .. e => R[s].outer - o = s - i
    <2>1. TAKE s \in {i + 1, e}
    <2>2. s \in i .. e
      BY <1>3
    <2>3. R[s].outer = o + (s - i) /\ s \in Int
      BY <1>1, <1>2, <2>2
    <2> HIDE DEF o
    <2> QED
      BY <1>3, <1>4, <2>3
  <1>6. ASSUME NEW s \in {i + 1, e}
        PROVE  FromRows(R[i], R[s]) = [r EXCEPT !.outerMaximum = R[s].outer,
                                                !.low = Through(al, o, low(s), s - i),
                                                !.high = Through(ah, o, high(s), s - i)]
    <2>1. R[s].outer - o = s - i
      BY <1>3, <1>5
    <2>2. FromRows(R[i], R[s]) = [r EXCEPT !.outerMaximum = R[s].outer,
                                           !.low = Through(al, o, low(s), R[s].outer - o),
                                           !.high = Through(ah, o, high(s), R[s].outer - o)]
      BY DEF FromRows, Through
    <2> QED
      BY <2>1, <2>2
  <1>7. f1.low = Through(al, o, low(i + 1), 1) /\ f1.high = Through(ah, o, high(i + 1), 1)
    <2>1. (i + 1) - i = 1
      BY <1>3
    <2>2. r \in Regions
      BY <1>2, <1>3
    <2>3. f1 = [r EXCEPT !.outerMaximum = R[i + 1].outer,
                         !.low = Through(al, o, low(i + 1), 1),
                         !.high = Through(ah, o, high(i + 1), 1)]
      BY <1>6, <2>1
    <2> HIDE DEF r, f1, al, ah, o, low, high
    <2> QED
      BY <2>2, <2>3 DEF Regions
  <1> HIDE DEF f1, al, ah, o, low, high, sl, sh, d
  <1>8. \A k \in Int : At(f1.low, o + k) = al + sl * k /\ At(f1.high, o + k) = ah + sh * k
    <2>1. low(i + 1) \in Int /\ high(i + 1) \in Int
      BY <1>2, <1>3
    <2>2. low(i + 1) = al + sl * 1 /\ high(i + 1) = ah + sh * 1
      BY <1>4, <2>1 DEF sl, sh
    <2>3. o \in Int /\ 1 > 0 /\ 1 \in Int
      BY <1>4
    <2>4. Climbs(Through(al, o, low(i + 1), 1), al, sl, o)
      BY <1>4, <2>2, <2>3, ThroughLine
    <2>5. Climbs(Through(ah, o, high(i + 1), 1), ah, sh, o)
      BY <1>4, <2>2, <2>3, ThroughLine
    <2> QED
      BY <1>7, <2>4, <2>5 DEF Climbs
  <1>9. ASSUME NEW k \in i .. e
        PROVE  low(k) = al + sl * (k - i) /\ high(k) = ah + sh * (k - i)
    <2>1. low(k) = At(f1.low, R[k].outer) /\ high(k) = At(f1.high, R[k].outer)
      BY DEF RowsOf, RowMatches, f1, low, high
    <2>2. R[k].outer = o + (k - i) /\ k - i \in Int
      BY <1>1, <1>2
    <2> QED
      BY <1>8, <2>1, <2>2
  <1>10. low(e) = al + sl * d /\ high(e) = ah + sh * d
    BY <1>3, <1>9 DEF d
  <1>11. /\ Through(al, o, low(e), d) \in Lines /\ Through(ah, o, high(e), d) \in Lines
         /\ Climbs(Through(al, o, low(e), d), al, sl, o)
         /\ Climbs(Through(ah, o, high(e), d), ah, sh, o)
    <2>1. o \in Int
      BY <1>4
    <2> QED
      BY <1>3, <1>4, <1>10, <2>1, ThroughLine
  <1>12. f = [r EXCEPT !.outerMaximum = R[e].outer,
                       !.low = Through(al, o, low(e), d), !.high = Through(ah, o, high(e), d)]
    BY <1>6 DEF d
  <1>13. r \in Regions /\ R[e].outer \in Nat /\ R[e].outer = o + d
    BY <1>2, <1>3 DEF d
  <1> HIDE DEF r
  <1>14. /\ f \in [outer : Nat, outerMaximum : Nat, index : Nat, low : Lines, high : Lines,
                   currentEmpty : BOOLEAN, emptyRepeatBlocked : BOOLEAN]
         /\ f.outer = r.outer /\ f.outerMaximum = o + d
         /\ f.low = Through(al, o, low(e), d) /\ f.high = Through(ah, o, high(e), d)
         /\ f.index = r.index /\ f.currentEmpty = r.currentEmpty
         /\ f.emptyRepeatBlocked = r.emptyRepeatBlocked
    BY <1>11, <1>12, <1>13 DEF Regions
  <1>15. Over(f) = o .. o + d
    BY <1>14 DEF Over, o, r
  <1>16. ASSUME NEW k \in i .. e
         PROVE  /\ R[k].outer \in Over(f)
                /\ At(f.low, R[k].outer) = low(k) /\ At(f.high, R[k].outer) = high(k)
    <2>1. R[k].outer = o + (k - i) /\ k - i \in Int /\ 0 <= k - i /\ k - i <= d
      BY <1>1, <1>2 DEF d
    <2>2. R[k].outer \in o .. o + d
      <3> DEFINE y == k - i
      <3>1. y \in Int /\ 0 <= y /\ y <= d /\ R[k].outer = o + y /\ o \in Int /\ d \in Int
        BY <1>3, <1>4, <2>1
      <3> HIDE DEF y
      <3> QED
        BY <3>1
    <2>3. At(f.low, R[k].outer) = al + sl * (k - i) /\ At(f.high, R[k].outer) = ah + sh * (k - i)
      BY <1>11, <1>14, <2>1 DEF Climbs
    <2> QED
      BY <1>9, <1>15, <2>2, <2>3
  <1>17. ASSUME NEW p \in Over(f)
         PROVE  At(f.low, p) <= At(f.high, p)
    <2> DEFINE k == i + (p - o)
    <2>1. k \in i .. e /\ o + (k - i) = p
      <3>1. o \in Int /\ i \in Int /\ e \in Int /\ d = e - i /\ p \in Int /\ o <= p /\ p <= o + d
        BY <1>1, <1>3, <1>4, <1>15 DEF d
      <3> QED
        BY <3>1
    <2>2. R[k].outer = p
      BY <1>2, <2>1
    <2> HIDE DEF k
    <2> QED
      BY <1>2, <1>16, <2>1, <2>2
  <1>18. f \in Regions
    <2>1. f.outer <= f.outerMaximum
      BY <1>3, <1>4, <1>14 DEF r, o
    <2> QED
      BY <1>14, <1>17, <2>1 DEF Regions
  <1>19. SameState(R[i], f)
    BY <1>14 DEF SameState, r
  <1> QED
    BY <1>2, <1>14, <1>15, <1>16, <1>18, <1>19 DEF r, o, d, low, high, Lies

-----------------------------------------------------------------------------
(* A region that stands for some of the rows.                              *)
Stands(R, i, e, r) ==
  /\ \A y \in Regions : (\A k \in i .. e : Apart(y, R[k])) => Apart(y, r)
  /\ \A k \in i .. e : \A o, n : Holds(R[k], o, n) => Holds(r, o, n)

LEMMA OneStands ==
  ASSUME NEW R, NEW i \in Int
  PROVE  Stands(R, i, i, R[i])
  <1>1. i \in i .. i /\ \A k \in i .. i : k = i
    OBVIOUS
  <1> QED
    BY <1>1 DEF Stands

LEMMA RowsStand ==
  ASSUME NEW q \in Seq(Regions), NEW x, NEW R \in Seq(Tops(q, x)), NEW i, NEW e, RowsOf(R, i, e)
  PROVE  FromRows(R[i], R[e]) \in Tops(q, x) /\ Stands(R, i, e, FromRows(R[i], R[e]))
  <1> DEFINE f == FromRows(R[i], R[e])
             T == Tops(q, x)
  <1>1. T \subseteq Regions
    BY DEF Tops
  <1>2. R \in Seq(Regions) /\ \A k \in DOMAIN R : R[k] \in T
    <2>1. Len(R) \in Nat /\ DOMAIN R = 1 .. Len(R) /\ \A k \in 1 .. Len(R) : R[k] \in T
      BY LenProperties, ElementOfSeq
    <2>2. R = [k \in 1 .. Len(R) |-> R[k]]
      BY <2>1
    <2> HIDE DEF T
    <2> QED
      BY <1>1, <2>1, <2>2, IsASeq
  <1>3. /\ f \in Regions /\ SameState(R[i], f) /\ f.outer = R[i].outer
        /\ Over(f) = R[i].outer .. R[i].outer + (e - i)
        /\ \A k \in i .. e : /\ R[k].outer \in Over(f) /\ Over(R[k]) = {R[k].outer}
                             /\ At(f.low, R[k].outer) = At(R[k].low, R[k].outer)
                             /\ At(f.high, R[k].outer) = At(R[k].high, R[k].outer)
    <2>1. Lies(R, i, e, f)
      BY <1>2, RowsJoined
    <2> HIDE DEF f
    <2> QED
      BY <2>1 DEF Lies
  <1> HIDE DEF f
  <1>4. /\ i \in Nat /\ e \in Nat /\ i < e /\ i \in i .. e
        /\ \A k \in i .. e : k \in DOMAIN R /\ R[k].outer = R[i].outer + (k - i)
    <2>1. DOMAIN R = 1 .. Len(R) /\ Len(R) \in Nat
      BY LenProperties
    <2> QED
      BY <2>1 DEF RowsOf
  <1>5. R[i].outer \in Nat
    BY <1>2, <1>4, RegionFields DEF Tops
  <1>6. ASSUME NEW o \in Over(f)
        PROVE  \E k \in i .. e : o = R[k].outer
    <2> DEFINE k == i + (o - R[i].outer)
    <2>1. k \in i .. e /\ R[i].outer + (k - i) = o
      <3>1. /\ R[i].outer \in Int /\ i \in Int /\ e \in Int /\ o \in Int
            /\ R[i].outer <= o /\ o <= R[i].outer + (e - i)
        BY <1>3, <1>4, <1>5
      <3> QED
        BY <3>1
    <2> HIDE DEF k
    <2> QED
      BY <1>4, <2>1
  <1>7. f \in T
    <2>1. SameState(x, R[i])
      BY <1>2, <1>4 DEF Tops
    <2>2. SameState(x, f)
      BY <1>3, <2>1 DEF SameState
    <2>3. ASSUME NEW o \in Over(f)
          PROVE  \E j \in DOMAIN q : o \in Over(q[j]) /\ At(q[j].high, o) = At(f.high, o)
      <3>1. PICK k \in i .. e : o = R[k].outer
        BY <1>6
      <3>2. R[k] \in T /\ o \in Over(R[k]) /\ At(f.high, o) = At(R[k].high, o)
        BY <1>2, <1>3, <1>4, <3>1
      <3> QED
        BY <3>2 DEF Tops
    <2> QED
      BY <1>3, <2>2, <2>3 DEF Tops
  <1>8. ASSUME NEW y \in Regions, \A k \in i .. e : Apart(y, R[k])
        PROVE  Apart(y, f)
    <2>1. ASSUME NEW o \in Over(y) \cap Over(f)
          PROVE  At(y.high, o) < At(f.low, o) \/ At(f.high, o) < At(y.low, o)
      <3>1. PICK k \in i .. e : o = R[k].outer
        BY <1>6
      <3>2. /\ o \in Over(R[k]) /\ At(f.low, o) = At(R[k].low, o)
            /\ At(f.high, o) = At(R[k].high, o)
        BY <1>3, <3>1
      <3> QED
        BY <1>8, <3>2 DEF Apart
    <2>2. ASSUME y.outer = f.outer
          PROVE  ~ CountsTouchAt(y, f, y.outer)
      <3>1. ~ CountsTouchAt(y, R[i], y.outer)
        BY <1>3, <1>4, <1>8, <2>2 DEF Apart
      <3>2. At(f.low, y.outer) = At(R[i].low, y.outer) /\ At(f.high, y.outer) = At(R[i].high, y.outer)
        BY <1>3, <1>4, <2>2
      <3> QED
        BY <3>1, <3>2 DEF CountsTouchAt
    <2> QED
      BY <2>1, <2>2 DEF Apart
  <1>9. ASSUME NEW k \in i .. e, NEW o, NEW n, Holds(R[k], o, n)
        PROVE  Holds(f, o, n)
    <2>1. o = R[k].outer
      BY <1>3, <1>9 DEF Holds
    <2> QED
      BY <1>3, <1>9, <2>1 DEF Holds
  <1> QED
    BY <1>7, <1>8, <1>9 DEF Stands, f

JoinedUpTo(R, T, t) ==
  /\ t \in [next : 1 .. Len(R) + 1, result : Seq(T)]
  /\ PairwiseApart(t.result)
  /\ \A k \in t.next .. Len(R), j \in DOMAIN t.result : Apart(R[k], t.result[j])
  /\ \A k \in 1 .. t.next - 1 : \A o, n : Holds(R[k], o, n) => HeldIn(t.result, o, n)

LEMMA JoinStep ==
  ASSUME NEW T, Keeps(T), NEW R \in Seq(T), PairwiseApart(R), NEW t, JoinedUpTo(R, T, t),
         NEW e \in t.next .. Len(R), NEW r \in T, Stands(R, t.next, e, r)
  PROVE  JoinedUpTo(R, T, [next |-> e + 1, result |-> AppendRegion(t.result, r)])
  <1> DEFINE i == t.next
             old == t.result
             w == AppendRegion(old, r)
             u == [next |-> e + 1, result |-> w]
  <1>1. /\ Len(R) \in Nat /\ DOMAIN R = 1 .. Len(R) /\ \A k \in 1 .. Len(R) : R[k] \in T
        /\ T \subseteq Regions
    BY LenProperties, ElementOfSeq DEF Keeps
  <1>2. /\ i \in 1 .. Len(R) + 1 /\ old \in Seq(T) /\ PairwiseApart(old)
        /\ \A k \in i .. Len(R), j \in DOMAIN old : Apart(R[k], old[j])
        /\ \A k \in 1 .. i - 1 : \A o, n : Holds(R[k], o, n) => HeldIn(old, o, n)
    BY DEF JoinedUpTo
  <1>3. DOMAIN old = 1 .. Len(old) /\ \A j \in DOMAIN old : old[j] \in T
    BY <1>2, LenProperties, ElementOfSeq
  <1>4. Stands(R, i, e, r) /\ e \in i .. Len(R)
    OBVIOUS
  <1> HIDE DEF i, old
  <1>5. e \in 1 .. Len(R) /\ i <= e /\ \A k \in i .. e : k \in i .. Len(R) /\ k \in 1 .. Len(R)
    BY <1>1, <1>2, <1>4
  <1>6. \A j \in DOMAIN old : Apart(r, old[j])
    <2>1. TAKE j \in DOMAIN old
    <2>2. old[j] \in Regions /\ \A k \in i .. e : Apart(old[j], R[k])
      BY <1>1, <1>2, <1>3, <1>5, ApartSymmetric
    <2>3. Apart(old[j], r)
      BY <1>4, <2>2 DEF Stands
    <2> QED
      BY <2>3, ApartSymmetric
  <1>7. /\ w \in Seq(T) /\ PairwiseApart(w)
        /\ \A o, n : (HeldIn(old, o, n) \/ Holds(r, o, n)) => HeldIn(w, o, n)
    BY <1>2, <1>6, AppendRegionKeeps
  <1>8. ASSUME NEW k \in e + 1 .. Len(R)
        PROVE  \A j \in DOMAIN w : Apart(R[k], w[j])
    <2>1. k \in 1 .. Len(R) /\ k \in i .. Len(R) /\ k \in DOMAIN R
      BY <1>1, <1>2, <1>5
    <2>2. \A l \in i .. e : Apart(R[k], R[l])
      <3>1. TAKE l \in i .. e
      <3>2. l \in DOMAIN R /\ l # k
        BY <1>1, <1>2, <1>5
      <3> QED
        BY <2>1, <3>2 DEF PairwiseApart
    <2>3. R[k] \in Regions
      BY <1>1, <2>1
    <2>4. Apart(R[k], r)
      BY <1>4, <2>2, <2>3 DEF Stands
    <2>5. \A j \in DOMAIN old : Apart(R[k], old[j])
      BY <1>2, <2>1
    <2> QED
      BY <1>2, <1>6, <2>3, <2>4, <2>5, AppendRegionApart
  <1>9. ASSUME NEW k \in 1 .. e, NEW o, NEW n, Holds(R[k], o, n)
        PROVE  HeldIn(w, o, n)
    <2>1. CASE k \in 1 .. i - 1
      BY <1>2, <1>7, <1>9, <2>1
    <2>2. CASE k \in i .. e
      BY <1>4, <1>7, <1>9, <2>2 DEF Stands
    <2> QED
      BY <1>1, <1>2, <1>5, <2>1, <2>2
  <1> HIDE DEF w
  <1>10. u \in [next : 1 .. Len(R) + 1, result : Seq(T)] /\ u.next = e + 1 /\ u.result = w
    BY <1>1, <1>5, <1>7
  <1>11. e + 1 - 1 = e
    BY <1>5
  <1> HIDE DEF u
  <1>12. JoinedUpTo(R, T, u)
    BY <1>7, <1>8, <1>9, <1>10, <1>11 DEF JoinedUpTo
  <1> QED
    BY <1>12 DEF u, w, old

-----------------------------------------------------------------------------
(* The rows are joined one run after the other.                            *)
LEMMA JoinRowKeeps ==
  ASSUME NEW q \in Seq(Regions), NEW x, NEW R \in Seq(Tops(q, x)), PairwiseApart(R),
         NEW t, JoinedUpTo(R, Tops(q, x), t)
  PROVE  /\ JoinedUpTo(R, Tops(q, x), JoinRow(R, t))
         /\ t.next <= Len(R) => JoinRow(R, t).next > t.next
         /\ t.next > Len(R) => JoinRow(R, t) = t
  <1> DEFINE T == Tops(q, x)
             i == t.next
             ends == RowsUpTo(R, i)
             u == JoinRow(R, t)
  <1>1. /\ Len(R) \in Nat /\ DOMAIN R = 1 .. Len(R) /\ \A k \in 1 .. Len(R) : R[k] \in T
    BY LenProperties, ElementOfSeq
  <1>2. i \in 1 .. Len(R) + 1
    BY DEF JoinedUpTo
  <1>3. Keeps(T)
    BY TopsKeeps
  <1>4. u = CASE i > Len(R) -> t
              [] i <= Len(R) /\ ends = {} -> [next |-> i + 1, result |-> AppendRegion(t.result, R[i])]
              [] i <= Len(R) /\ ends # {} ->
                   [next |-> Max(ends) + 1, result |-> AppendRegion(t.result, FromRows(R[i], R[Max(ends)]))]
    BY DEF JoinRow
  <1> HIDE DEF u, ends, T
  <1>5. CASE i > Len(R)
    <2>1. u = t /\ ~ (i <= Len(R))
      BY <1>1, <1>2, <1>4, <1>5
    <2> QED
      BY <2>1 DEF u, T
  <1>6. CASE i <= Len(R) /\ ends = {}
    <2>1. u = [next |-> i + 1, result |-> AppendRegion(t.result, R[i])] /\ ~ (i > Len(R))
      BY <1>1, <1>2, <1>4, <1>6
    <2>2. i \in i .. Len(R) /\ R[i] \in T /\ i \in Int
      BY <1>1, <1>2, <1>6
    <2>3. Stands(R, i, i, R[i])
      BY <2>2, OneStands
    <2>4. JoinedUpTo(R, T, u)
      BY <1>3, <2>1, <2>2, <2>3, JoinStep DEF T
    <2>5. u.next > i
      BY <2>1, <2>2
    <2> QED
      BY <2>1, <2>4, <2>5 DEF u, T
  <1>7. CASE i <= Len(R) /\ ends # {}
    <2> DEFINE e == Max(ends)
    <2>1. u = [next |-> e + 1, result |-> AppendRegion(t.result, FromRows(R[i], R[e]))] /\ ~ (i > Len(R))
      BY <1>1, <1>2, <1>4, <1>7
    <2>2. ends \subseteq i + 1 .. Len(R)
      BY DEF ends, RowsUpTo
    <2>3. e \in ends
      <3>1. ends \subseteq 0 .. Len(R)
        BY <1>2, <2>2
      <3> QED
        BY <1>1, <1>7, <3>1, GreatestIn
    <2> HIDE DEF e
    <2>4. e \in i .. Len(R) /\ i < e /\ e \in Int /\ i \in Int
      BY <1>1, <1>2, <2>2, <2>3
    <2>5. RowsOf(R, i, e)
      <3>1. /\ \A k \in i .. e : IsRow(R[k]) /\ R[k].outer = R[i].outer + (k - i)
            /\ \A k \in i .. e : RowMatches(R[k], FromRows(R[i], R[i + 1]))
        BY <2>3 DEF ends, RowsUpTo
      <3>2. i \in DOMAIN R /\ e \in DOMAIN R
        BY <1>1, <1>2, <2>4
      <3> QED
        BY <2>4, <3>1, <3>2 DEF RowsOf
    <2>6. FromRows(R[i], R[e]) \in T /\ Stands(R, i, e, FromRows(R[i], R[e]))
      BY <2>5, RowsStand DEF T
    <2>7. JoinedUpTo(R, T, u)
      <3> DEFINE f == FromRows(R[i], R[e])
      <3>1. f \in T /\ Stands(R, i, e, f)
        BY <2>6
      <3>2. u = [next |-> e + 1, result |-> AppendRegion(t.result, f)]
        BY <2>1
      <3> HIDE DEF f
      <3> QED
        BY <1>3, <2>4, <3>1, <3>2, JoinStep DEF T
    <2>8. u.next > i
      BY <2>1, <2>4
    <2> QED
      BY <2>1, <2>7, <2>8 DEF u, T
  <1> QED
    BY <1>1, <1>2, <1>5, <1>6, <1>7

LEMMA JoinRowsKeep ==
  ASSUME NEW q \in Seq(Regions), NEW x, NEW R \in Seq(Tops(q, x)), PairwiseApart(R)
  PROVE  /\ JoinRows(R) \in Seq(Tops(q, x)) /\ PairwiseApart(JoinRows(R))
         /\ \A o, n : HeldIn(R, o, n) => HeldIn(JoinRows(R), o, n)
  <1> DEFINE T == Tops(q, x)
             N == Len(R)
             S == [next : 1 .. N + 1, result : Seq(T)]
             base == [next |-> 1, result |-> <<>>]
             step == [y \in S \X (1 .. N) |-> JoinRow(R, y[1])]
             joined == CHOOSE f : f = [n \in 0 .. N |-> IF n = 0 THEN base ELSE JoinRow(R, f[n - 1])]
             Good(n, t) == JoinedUpTo(R, T, t) /\ n < t.next
             Fine == {y \in Nat \X S : Good(y[1], y[2])}
  <1>1. JoinRows(R) = joined[N].result
    BY DEF JoinRows
  <1>2. N \in Nat /\ DOMAIN R = 1 .. N
    BY LenProperties
  <1>3. ASSUME NEW t, JoinedUpTo(R, T, t)
        PROVE  t \in S /\ t.next \in 1 .. N + 1
    BY <1>3 DEF JoinedUpTo
  <1>4. Good(0, base) /\ base \in S
    <2>1. base.next = 1 /\ base.result = <<>> /\ <<>> \in Seq(T) /\ DOMAIN <<>> = {}
      BY EmptySeq
    <2>2. base \in S
      BY <1>2, <2>1
    <2> HIDE DEF base
    <2>3. PairwiseApart(base.result)
      BY <2>1 DEF PairwiseApart
    <2>4. \A k \in 1 .. base.next - 1 : FALSE
      BY <2>1
    <2>5. JoinedUpTo(R, T, base)
      BY <2>1, <2>2, <2>3, <2>4 DEF JoinedUpTo
    <2> QED
      BY <2>1, <2>2, <2>5
  <1> HIDE DEF base
  <1>5. ASSUME NEW n \in 1 .. N, NEW t \in S, Good(n - 1, t)
        PROVE  JoinRow(R, t) \in S /\ Good(n, JoinRow(R, t))
    <2> DEFINE u == JoinRow(R, t)
    <2>1. /\ JoinedUpTo(R, T, u)
          /\ t.next <= Len(R) => u.next > t.next
          /\ t.next > Len(R) => u = t
      BY <1>5, JoinRowKeeps
    <2> HIDE DEF u
    <2>2. u \in S /\ u.next \in 1 .. N + 1 /\ t.next \in 1 .. N + 1
      BY <1>3, <1>5, <2>1
    <2>3. n < u.next
      <3>1. n - 1 < t.next
        BY <1>5
      <3>2. CASE t.next <= N
        BY <1>2, <2>1, <2>2, <3>1, <3>2
      <3>3. CASE t.next > N
        BY <1>2, <2>1, <2>2, <3>3
      <3> QED
        BY <1>2, <2>2, <3>2, <3>3
    <2> QED
      BY <2>1, <2>2, <2>3 DEF u
  <1> HIDE DEF S, Good, N, joined
  <1>6. <<0, base>> \in Fine
    BY <1>4
  <1>7. ASSUME NEW n \in 1 .. N, NEW t \in S, <<n - 1, t>> \in Fine
        PROVE  <<n, step[<<t, n>>]>> \in Fine
    <2>1. Good(n - 1, t) /\ n \in Nat
      BY <1>2, <1>7
    <2>2. step[<<t, n>>] = JoinRow(R, t)
      OBVIOUS
    <2> HIDE DEF step
    <2> QED
      BY <1>5, <2>1, <2>2
  <1>8. Fine \subseteq Nat \X S
    OBVIOUS
  <1> HIDE DEF Fine
  <1>9. PICK g : Chain(N, base, step, g) /\ \A n \in 0 .. N : g[n] \in S
    <2> HIDE DEF step
    <2>1. Runs(N, S, base, step)
      BY <1>2, <1>6, <1>7, <1>8, Folded
    <2> QED
      BY <2>1 DEF Runs
  <1>10. joined = [n \in 0 .. N |-> IF n = 0 THEN base ELSE JoinRow(R, joined[n - 1])]
    <2>1. ASSUME NEW n \in 0 .. N, n # 0
          PROVE  step[<<g[n - 1], n>>] = JoinRow(R, g[n - 1])
      <3>1. n \in 1 .. N /\ g[n - 1] \in S
        BY <1>2, <1>9, <2>1
      <3> QED
        BY <3>1
    <2>2. g = [n \in 0 .. N |-> IF n = 0 THEN base ELSE JoinRow(R, g[n - 1])]
      <3> HIDE DEF step
      <3> QED
        BY <1>9, <2>1 DEF Chain
    <2> QED
      BY <2>2 DEF joined
  <1>11. Follows(N, S, base, step, joined)
    <2>1. joined[0] = base
      BY <1>2, <1>10
    <2>2. ASSUME NEW n \in 1 .. N, joined[n - 1] \in S
          PROVE  joined[n] = step[<<joined[n - 1], n>>]
      <3>1. n \in 0 .. N /\ n # 0
        BY <1>2
      <3>2. joined[n] = JoinRow(R, joined[n - 1])
        BY <1>10, <3>1
      <3> QED
        BY <2>2, <3>2
    <2> QED
      BY <2>1, <2>2 DEF Follows
  <1>12. <<N, joined[N]>> \in Fine
    <2> HIDE DEF step
    <2>1. \A n \in 0 .. N : <<n, joined[n]>> \in Fine /\ joined[n] \in S
      BY <1>2, <1>6, <1>7, <1>8, <1>11, Folded
    <2> QED
      BY <1>2, <2>1
  <1> DEFINE t == joined[N]
  <1>13. JoinedUpTo(R, T, t) /\ N < t.next
    BY <1>12 DEF Fine, Good
  <1> HIDE DEF t
  <1>14. t.next = N + 1 /\ t.next - 1 = N
    BY <1>2, <1>3, <1>13
  <1>15. t.result \in Seq(T) /\ PairwiseApart(t.result)
    BY <1>13 DEF JoinedUpTo
  <1>16. ASSUME NEW o, NEW n, HeldIn(R, o, n)
         PROVE  HeldIn(t.result, o, n)
    BY <1>2, <1>13, <1>14, <1>16 DEF JoinedUpTo, HeldIn
  <1> QED
    BY <1>1, <1>15, <1>16 DEF t

-----------------------------------------------------------------------------
(* Sorting the regions of a group and joining its rows.                    *)
LEMMA PermutedApart ==
  ASSUME NEW G, NEW R \in Seq(G), PairwiseApart(R), NEW b, NEW p, Sorting(DOMAIN R, b, p),
         NEW s, s = [k \in DOMAIN R |-> R[p[k]]]
  PROVE  /\ s \in Seq(G) /\ PairwiseApart(s)
         /\ \A o, n : HeldIn(R, o, n) => HeldIn(s, o, n)
  <1>1. Len(R) \in Nat /\ DOMAIN R = 1 .. Len(R) /\ \A k \in DOMAIN R : R[k] \in G
    BY LenProperties, ElementOfSeq
  <1>2. /\ \A k \in DOMAIN R : p[k] \in DOMAIN R
        /\ \A i \in DOMAIN R : \E k \in DOMAIN R : p[k] = i
        /\ \A k, l \in DOMAIN R : p[k] = p[l] => k = l
    BY DEF Sorting
  <1>3. DOMAIN s = DOMAIN R /\ \A k \in DOMAIN R : s[k] = R[p[k]]
    OBVIOUS
  <1>4. s \in Seq(G)
    <2>1. s = [k \in 1 .. Len(R) |-> s[k]] /\ \A k \in 1 .. Len(R) : s[k] \in G
      BY <1>1, <1>2, <1>3
    <2> QED
      BY <1>1, <2>1, IsASeq
  <1>5. PairwiseApart(s)
    <2>1. ASSUME NEW i \in DOMAIN s, NEW j \in DOMAIN s, i # j
          PROVE  Apart(s[i], s[j])
      <3>1. p[i] \in DOMAIN R /\ p[j] \in DOMAIN R /\ p[i] # p[j]
        BY <1>2, <1>3, <2>1
      <3>2. s[i] = R[p[i]] /\ s[j] = R[p[j]]
        BY <1>3
      <3> QED
        BY <3>1, <3>2 DEF PairwiseApart
    <2> QED
      BY <2>1 DEF PairwiseApart
  <1>6. ASSUME NEW o, NEW n, HeldIn(R, o, n)
        PROVE  HeldIn(s, o, n)
    BY <1>2, <1>3, <1>6 DEF HeldIn
  <1> QED
    BY <1>4, <1>5, <1>6

LEMMA CompactRowsKeep ==
  ASSUME NEW q \in Seq(Regions), NEW x, NEW R \in Seq(Tops(q, x)), PairwiseApart(R)
  PROVE  /\ CompactRows(R) \in Seq(Tops(q, x)) /\ PairwiseApart(CompactRows(R))
         /\ \A o, n : HeldIn(R, o, n) => HeldIn(CompactRows(R), o, n)
  <1> DEFINE T == Tops(q, x)
             D == DOMAIN R
             key(r) == <<r.outer, r.outerMaximum, At(r.low, r.outer), At(r.high, r.outer)>>
             before(r, s) ==
               \E k \in 1 .. 4 : key(r)[k] < key(s)[k] /\ \A j \in 1 .. k - 1 : key(r)[j] = key(s)[j]
             b == {y \in D \X D : before(R[y[1]], R[y[2]])}
             order(i, j) == before(R[i], R[j]) \/ (~ before(R[j], R[i]) /\ i < j)
             ranked(k) == CHOOSE i \in D : Cardinality({j \in D : order(j, i)}) + 1 = k
             p == [k \in D |-> ranked(k)]
             sorted == SortRegions(R, before)
  <1>1. CompactRows(R) = JoinRows(sorted)
    BY DEF CompactRows
  <1>2. sorted = [k \in D |-> R[p[k]]]
    <2>1. sorted = [k \in D |-> R[CHOOSE i \in D : Cardinality({j \in D : order(j, i)}) + 1 = k]]
      <3> HIDE DEF key
      <3> QED
        BY DEF SortRegions
    <2> HIDE DEF order, sorted, before, key
    <2> QED
      BY <2>1
  <1> HIDE DEF sorted
  <1>3. Len(R) \in Nat /\ D = 1 .. Len(R) /\ \A k \in D : R[k] \in Regions
    <2>1. Len(R) \in Nat /\ D = 1 .. Len(R) /\ \A k \in D : R[k] \in T
      <3>1. R \in Seq(T)
        OBVIOUS
      <3> HIDE DEF T
      <3> QED
        BY <3>1, LenProperties, ElementOfSeq
    <2> QED
      BY <2>1 DEF Tops
  <1>4. WeakOrder(D, b)
    <2> DEFINE A1 == [i \in D |-> R[i].outer]
               A2 == [i \in D |-> R[i].outerMaximum]
               A3 == [i \in D |-> At(R[i].low, R[i].outer)]
               A4 == [i \in D |-> At(R[i].high, R[i].outer)]
    <2>1. A1 \in [D -> Int] /\ A2 \in [D -> Int] /\ A3 \in [D -> Int] /\ A4 \in [D -> Int]
      <3>1. ASSUME NEW i \in D
            PROVE  /\ R[i].outer \in Int /\ R[i].outerMaximum \in Int
                   /\ At(R[i].low, R[i].outer) \in Int /\ At(R[i].high, R[i].outer) \in Int
        <4>1. /\ R[i].outer \in Int /\ R[i].outerMaximum \in Int
              /\ R[i].low \in Lines /\ R[i].high \in Lines
          BY <1>3, RegionFields
        <4>2. At(R[i].low, R[i].outer) \in Int /\ At(R[i].high, R[i].outer) \in Int
          BY <4>1, AtInt
        <4> QED
          BY <4>1, <4>2
      <3> QED
        BY <3>1
    <2> DEFINE Lex(i, j) ==
                 \/ A1[i] < A1[j]
                 \/ A1[i] = A1[j] /\ A2[i] < A2[j]
                 \/ A1[i] = A1[j] /\ A2[i] = A2[j] /\ A3[i] < A3[j]
                 \/ A1[i] = A1[j] /\ A2[i] = A2[j] /\ A3[i] = A3[j] /\ A4[i] < A4[j]
    <2>2. ASSUME NEW i \in D, NEW j \in D
          PROVE  <<i, j>> \in b <=> Lex(i, j)
      <3> DEFINE u == key(R[i])
                 v == key(R[j])
      <3>1. <<i, j>> \in b <=> \E k \in 1 .. 4 : u[k] < v[k] /\ \A l \in 1 .. k - 1 : u[l] = v[l]
        <4> HIDE DEF key
        <4> QED
          OBVIOUS
      <3>2. /\ u[1] = A1[i] /\ u[2] = A2[i] /\ u[3] = A3[i] /\ u[4] = A4[i]
            /\ v[1] = A1[j] /\ v[2] = A2[j] /\ v[3] = A3[j] /\ v[4] = A4[j]
        OBVIOUS
      <3> HIDE DEF u, v, b, A1, A2, A3, A4
      <3>3. 1 .. 4 = {1, 2, 3, 4} /\ 1 .. 1 - 1 = {} /\ 1 .. 2 - 1 = {1} /\ 1 .. 3 - 1 = {1, 2}
            /\ 1 .. 4 - 1 = {1, 2, 3}
        OBVIOUS
      <3>4. (\E k \in {1, 2, 3, 4} : u[k] < v[k] /\ \A l \in 1 .. k - 1 : u[l] = v[l])
              <=> \/ u[1] < v[1]
                  \/ u[1] = v[1] /\ u[2] < v[2]
                  \/ u[1] = v[1] /\ u[2] = v[2] /\ u[3] < v[3]
                  \/ u[1] = v[1] /\ u[2] = v[2] /\ u[3] = v[3] /\ u[4] < v[4]
        BY <3>3
      <3> QED
        BY <3>1, <3>2, <3>3, <3>4
    <2> HIDE DEF A1, A2, A3, A4, b, D
    <2>3. ASSUME NEW i \in D
          PROVE  <<i, i>> \notin b
      <3>1. /\ A1[i] \in Int /\ A2[i] \in Int /\ A3[i] \in Int /\ A4[i] \in Int
        BY <2>1
      <3>2. ~ Lex(i, i)
        BY <3>1
      <3> HIDE DEF Lex
      <3> QED
        BY <2>2, <3>2
    <2>4. ASSUME NEW i \in D, NEW j \in D, NEW k \in D, <<i, j>> \in b, <<j, k>> \in b
          PROVE  <<i, k>> \in b
      <3>1. /\ A1[i] \in Int /\ A2[i] \in Int /\ A3[i] \in Int /\ A4[i] \in Int
            /\ A1[j] \in Int /\ A2[j] \in Int /\ A3[j] \in Int /\ A4[j] \in Int
            /\ A1[k] \in Int /\ A2[k] \in Int /\ A3[k] \in Int /\ A4[k] \in Int
        BY <2>1
      <3> HIDE DEF T, key, before, order, ranked, p
      <3>2. Lex(i, j) /\ Lex(j, k) => Lex(i, k)
        <4>1. CASE A1[i] < A1[j] \/ A1[j] < A1[k]
          BY <3>1, <4>1, SMTT(30)
        <4>2. CASE A1[i] = A1[j] /\ A1[j] = A1[k] /\ (A2[i] < A2[j] \/ A2[j] < A2[k])
          BY <3>1, <4>2, SMTT(30)
        <4>3. CASE A1[i] = A1[j] /\ A1[j] = A1[k] /\ A2[i] = A2[j] /\ A2[j] = A2[k]
          BY <3>1, <4>3, SMTT(30)
        <4>4. CASE A1[j] < A1[i] \/ A1[k] < A1[j]
          BY <3>1, <4>4, SMTT(30)
        <4>5. CASE A1[i] = A1[j] /\ A1[j] = A1[k] /\ (A2[j] < A2[i] \/ A2[k] < A2[j])
          BY <3>1, <4>5, SMTT(30)
        <4> HIDE DEF Lex
        <4>6. \/ A1[i] < A1[j] \/ A1[j] < A1[k] \/ A1[j] < A1[i] \/ A1[k] < A1[j]
              \/ A1[i] = A1[j] /\ A1[j] = A1[k]
          BY <3>1
        <4>7. \/ A2[i] < A2[j] \/ A2[j] < A2[k] \/ A2[j] < A2[i] \/ A2[k] < A2[j]
              \/ A2[i] = A2[j] /\ A2[j] = A2[k]
          BY <3>1
        <4> QED
          BY <4>1, <4>2, <4>3, <4>4, <4>5, <4>6, <4>7
      <3> HIDE DEF Lex
      <3> QED
        BY <2>2, <2>4, <3>2
    <2>5. ASSUME NEW i \in D, NEW j \in D, NEW k \in D, <<i, k>> \in b
          PROVE  <<i, j>> \in b \/ <<j, k>> \in b
      <3>1. /\ A1[i] \in Int /\ A2[i] \in Int /\ A3[i] \in Int /\ A4[i] \in Int
            /\ A1[j] \in Int /\ A2[j] \in Int /\ A3[j] \in Int /\ A4[j] \in Int
            /\ A1[k] \in Int /\ A2[k] \in Int /\ A3[k] \in Int /\ A4[k] \in Int
        BY <2>1
      <3> HIDE DEF T, key, before, order, ranked, p
      <3>2. Lex(i, k) => Lex(i, j) \/ Lex(j, k)
        BY <3>1, SMTT(30)
      <3> HIDE DEF Lex
      <3> QED
        BY <2>2, <2>5, <3>2
    <2> QED
      BY <2>3, <2>4, <2>5 DEF WeakOrder
  <1>5a. \A i, j \in D : <<i, j>> \in b <=> before(R[i], R[j])
    <2> HIDE DEF D, before
    <2> QED
      OBVIOUS
  <1> HIDE DEF before
  <1>5b. \A i, j \in D : <<i, j>> \in Order(D, b) <=> order(i, j)
    <2> HIDE DEF D, b
    <2> QED
      BY <1>5a DEF Order
  <1>6. ASSUME NEW i \in D
        PROVE  RankOf(D, Order(D, b), i) = Cardinality({j \in D : order(j, i)}) + 1
    <2> HIDE DEF b, order, D
    <2>1. {j \in D : <<j, i>> \in Order(D, b)} = {j \in D : order(j, i)}
      BY <1>5b
    <2> QED
      BY <2>1 DEF RankOf
  <1>7. ASSUME NEW k \in D, \E i \in D : RankOf(D, Order(D, b), i) = k
        PROVE  p[k] \in D /\ RankOf(D, Order(D, b), p[k]) = k
    <2> HIDE DEF b, order, D
    <2>1. PICK i \in D : RankOf(D, Order(D, b), i) = k
      BY <1>7
    <2>2. Cardinality({j \in D : order(j, i)}) + 1 = k
      BY <1>6, <2>1
    <2>3. p[k] = CHOOSE i_1 \in D : Cardinality({j \in D : order(j, i_1)}) + 1 = k
      OBVIOUS
    <2> HIDE DEF p
    <2>4. p[k] \in D /\ Cardinality({j \in D : order(j, p[k])}) + 1 = k
      BY <2>2, <2>3
    <2> QED
      BY <1>6, <2>4
  <1>8. Sorting(D, b, p)
    <2>1. p = [k \in D |-> p[k]]
      <3> HIDE DEF ranked, D
      <3> QED
        OBVIOUS
    <2> HIDE DEF b, p, D
    <2> QED
      BY <1>3, <1>4, <1>7, <2>1, SortedBy
  <1>9. /\ sorted \in Seq(T) /\ PairwiseApart(sorted)
        /\ \A o, n : HeldIn(R, o, n) => HeldIn(sorted, o, n)
    <2> HIDE DEF p, b, T
    <2> QED
      BY <1>2, <1>8, PermutedApart DEF T
  <1>10. /\ JoinRows(sorted) \in Seq(T) /\ PairwiseApart(JoinRows(sorted))
         /\ \A o, n : HeldIn(sorted, o, n) => HeldIn(JoinRows(sorted), o, n)
    BY <1>9, JoinRowsKeep
  <1> QED
    BY <1>1, <1>9, <1>10

LEMMA CompactGroupKeeps ==
  ASSUME NEW group \in Seq(Regions), group # <<>>, NEW x, Uniform(group, x)
  PROVE  /\ CompactGroup(group) \in Seq(Tops(group, x)) /\ PairwiseApart(CompactGroup(group))
         /\ \A o, n \in Int : HeldIn(group, o, n) => HeldIn(CompactGroup(group), o, n)
  <1> DEFINE flat == FlattenSeq(Segments(group))
             R == AppendRegions(flat)
             T == Tops(group, x)
  <1>1. CompactGroup(group) = CompactRows(R)
    BY DEF CompactGroup, Segments
  <1>2. /\ flat \in Seq(T) /\ PairwiseApart(flat)
        /\ \A o, n \in Int : HeldIn(group, o, n) => HeldIn(flat, o, n)
    BY SegmentsKeep
  <1>3. Keeps(T)
    BY TopsKeeps
  <1> HIDE DEF flat, T
  <1>4. /\ R \in Seq(T) /\ PairwiseApart(R)
        /\ \A o, n : HeldIn(flat, o, n) => HeldIn(R, o, n)
    BY <1>2, <1>3, AppendRegionsKeeps
  <1> HIDE DEF R
  <1>5. /\ CompactRows(R) \in Seq(T) /\ PairwiseApart(CompactRows(R))
        /\ \A o, n : HeldIn(R, o, n) => HeldIn(CompactRows(R), o, n)
    BY <1>4, CompactRowsKeep DEF T
  <1> QED
    BY <1>1, <1>2, <1>4, <1>5 DEF T

-----------------------------------------------------------------------------
(* Compaction group by group: nothing above the highest counts, no state   *)
(* in two regions, and no state lost.                                      *)
Shadows(q, r) ==
  \A o \in Over(r) : \E i \in DOMAIN q :
    SameState(q[i], r) /\ o \in Over(q[i]) /\ At(q[i].high, o) = At(r.high, o)
Covers(q, c) ==
  \A i \in DOMAIN q : \A o, n \in Int : Holds(q[i], o, n)
    => \E k \in DOMAIN c : SameState(q[i], c[k]) /\ Holds(c[k], o, n)
Distinct(c) == \A k, l \in DOMAIN c : k # l /\ SameState(c[k], c[l]) => Apart(c[k], c[l])

Flags == <<<<FALSE, FALSE>>, <<FALSE, TRUE>>, <<TRUE, FALSE>>, <<TRUE, TRUE>>>>
Member(r, n) ==
  /\ r.index = 1 + ((n - 1) \div 4)
  /\ <<r.currentEmpty, r.emptyRepeatBlocked>> = Flags[1 + ((n - 1) % 4)]
GroupOf(q, n) == FlattenSeq(Choosing(q, {i \in DOMAIN q : Member(q[i], n)}))

LEMMA FlagValues ==
  /\ Flags[1] = <<FALSE, FALSE>> /\ Flags[2] = <<FALSE, TRUE>>
  /\ Flags[3] = <<TRUE, FALSE>> /\ Flags[4] = <<TRUE, TRUE>>
  /\ \A i, j \in 1 .. 4 : Flags[i] = Flags[j] => i = j
  <1>1. \A a, b, c, d : /\ <<a, b, c, d>>[1] = a /\ <<a, b, c, d>>[2] = b
                        /\ <<a, b, c, d>>[3] = c /\ <<a, b, c, d>>[4] = d
    OBVIOUS
  <1>2. /\ Flags[1] = <<FALSE, FALSE>> /\ Flags[2] = <<FALSE, TRUE>>
        /\ Flags[3] = <<TRUE, FALSE>> /\ Flags[4] = <<TRUE, TRUE>>
    BY <1>1, Zenon DEF Flags
  <1>3. /\ Flags[1] # Flags[2] /\ Flags[1] # Flags[3] /\ Flags[1] # Flags[4]
        /\ Flags[2] # Flags[3] /\ Flags[2] # Flags[4] /\ Flags[3] # Flags[4]
    <2>1. /\ <<FALSE, FALSE>> # <<FALSE, TRUE>> /\ <<FALSE, FALSE>> # <<TRUE, FALSE>>
          /\ <<FALSE, FALSE>> # <<TRUE, TRUE>> /\ <<FALSE, TRUE>> # <<TRUE, FALSE>>
          /\ <<FALSE, TRUE>> # <<TRUE, TRUE>> /\ <<TRUE, FALSE>> # <<TRUE, TRUE>>
      OBVIOUS
    <2> QED
      BY <1>2, <2>1
  <1>4. 1 .. 4 = {1, 2, 3, 4}
    OBVIOUS
  <1>5. \A i, j \in {1, 2, 3, 4} : Flags[i] = Flags[j] => i = j
    BY <1>3
  <1> QED
    BY <1>2, <1>4, <1>5

LEMMA MemberSame ==
  ASSUME NEW r \in Regions, NEW s \in Regions, NEW n \in Nat \ {0}, NEW m \in Nat \ {0},
         Member(r, n), Member(s, m)
  PROVE  SameState(r, s) <=> n = m
  <1>1. /\ (n - 1) \div 4 \in Int /\ (n - 1) % 4 \in 0 .. 3
        /\ (m - 1) \div 4 \in Int /\ (m - 1) % 4 \in 0 .. 3
        /\ n - 1 = 4 * ((n - 1) \div 4) + ((n - 1) % 4)
        /\ m - 1 = 4 * ((m - 1) \div 4) + ((m - 1) % 4)
    OBVIOUS
  <1>2. \A i, j \in 1 .. 4 : Flags[i] = Flags[j] => i = j
    BY FlagValues
  <1> DEFINE i == (n - 1) \div 4
             j == (m - 1) \div 4
             u == (n - 1) % 4
             v == (m - 1) % 4
  <1>3. /\ i \in Int /\ j \in Int /\ u \in 0 .. 3 /\ v \in 0 .. 3
        /\ n - 1 = 4 * i + u /\ m - 1 = 4 * j + v
    BY <1>1
  <1>4. /\ r.index = 1 + i /\ <<r.currentEmpty, r.emptyRepeatBlocked>> = Flags[1 + u]
        /\ s.index = 1 + j /\ <<s.currentEmpty, s.emptyRepeatBlocked>> = Flags[1 + v]
    BY DEF Member
  <1> HIDE DEF i, j, u, v
  <1>5. SameState(r, s) => n = m
    <2>1. SUFFICES ASSUME SameState(r, s) PROVE n = m
      OBVIOUS
    <2>2. 1 + i = 1 + j /\ Flags[1 + u] = Flags[1 + v]
      BY <1>4, <2>1 DEF SameState
    <2>3. 1 + u = 1 + v
      BY <1>2, <1>3, <2>2
    <2> QED
      BY <1>3, <2>2, <2>3
  <1>6. n = m => SameState(r, s)
    <2>1. SUFFICES ASSUME n = m PROVE SameState(r, s)
      OBVIOUS
    <2>2. r.index = s.index
      BY <1>4, <2>1 DEF i, j
    <2>3. <<r.currentEmpty, r.emptyRepeatBlocked>> = <<s.currentEmpty, s.emptyRepeatBlocked>>
      BY <1>4, <2>1 DEF u, v
    <2>4. \A a, b, c, d : <<a, b>> = <<c, d>> => a = c /\ b = d
      OBVIOUS
    <2> QED
      BY <2>2, <2>3, <2>4 DEF SameState
  <1> QED
    BY <1>5, <1>6

LEMMA SomeMember ==
  ASSUME NEW end \in Nat, NEW r \in Regions, r.index \in 1 .. end
  PROVE  \E n \in 1 .. 4 * end : Member(r, n)
  <1>1. r.currentEmpty \in BOOLEAN /\ r.emptyRepeatBlocked \in BOOLEAN
    BY RegionFields
  <1>2. PICK u \in 0 .. 3 : <<r.currentEmpty, r.emptyRepeatBlocked>> = Flags[1 + u]
    <2>1. /\ Flags[1 + 0] = <<FALSE, FALSE>> /\ Flags[1 + 1] = <<FALSE, TRUE>>
          /\ Flags[1 + 2] = <<TRUE, FALSE>> /\ Flags[1 + 3] = <<TRUE, TRUE>>
      <3>1. 1 + 0 = 1 /\ 1 + 1 = 2 /\ 1 + 2 = 3 /\ 1 + 3 = 4
        OBVIOUS
      <3> QED
        BY <3>1, FlagValues
    <2>2. 0 \in 0 .. 3 /\ 1 \in 0 .. 3 /\ 2 \in 0 .. 3 /\ 3 \in 0 .. 3
      OBVIOUS
    <2> QED
      BY <1>1, <2>1, <2>2
  <1> DEFINE n == 4 * (r.index - 1) + u + 1
  <1>3. r.index \in Int
    OBVIOUS
  <1>4. n \in 1 .. 4 * end /\ (n - 1) \div 4 = r.index - 1 /\ (n - 1) % 4 = u
    BY <1>3
  <1>5. r.index = 1 + (r.index - 1)
    BY <1>3
  <1> HIDE DEF n
  <1>6. Member(r, n)
    BY <1>2, <1>4, <1>5 DEF Member
  <1> QED
    BY <1>4, <1>6

LEMMA GroupKeeps ==
  ASSUME NEW q \in Seq(Regions), NEW n
  PROVE  /\ GroupOf(q, n) \in Seq(Regions)
         /\ \A k \in DOMAIN GroupOf(q, n) : Member(GroupOf(q, n)[k], n)
                                            /\ \E i \in DOMAIN q : GroupOf(q, n)[k] = q[i]
         /\ \A i \in DOMAIN q : Member(q[i], n) => \E k \in DOMAIN GroupOf(q, n) : GroupOf(q, n)[k] = q[i]
  <1> DEFINE K == {i \in DOMAIN q : Member(q[i], n)}
             g == GroupOf(q, n)
  <1>1. g \in Seq(Regions) /\ Picks(q, K, g)
    <2>1. K \in SUBSET DOMAIN q
      OBVIOUS
    <2>2. g = FlattenSeq(Choosing(q, K))
      BY DEF GroupOf
    <2> HIDE DEF K
    <2> QED
      BY <2>1, <2>2, Chosen
  <1> HIDE DEF g
  <1>2. DOMAIN g = 1 .. Len(g)
    BY <1>1, LenProperties
  <1>3. PICK at \in [1 .. Len(g) -> K] :
          /\ \A k \in 1 .. Len(g) : g[k] = q[at[k]]
          /\ \A i \in K : \E k \in 1 .. Len(g) : at[k] = i
    BY <1>1 DEF Picks
  <1>4. ASSUME NEW k \in DOMAIN g
        PROVE  Member(g[k], n) /\ \E i \in DOMAIN q : g[k] = q[i]
    <2>1. at[k] \in K /\ g[k] = q[at[k]]
      BY <1>2, <1>3
    <2> QED
      BY <2>1
  <1>5. ASSUME NEW i \in DOMAIN q, Member(q[i], n)
        PROVE  \E k \in DOMAIN g : g[k] = q[i]
    <2>1. i \in K
      BY <1>5
    <2> HIDE DEF K
    <2> QED
      BY <1>2, <1>3, <2>1
  <1> QED
    BY <1>1, <1>4, <1>5 DEF g

-----------------------------------------------------------------------------
PartOf(q, n, w) ==
  /\ w \in Seq(Regions) /\ PairwiseApart(w)
  /\ \A k \in DOMAIN w : Member(w[k], n) /\ Shadows(q, w[k])
  /\ \A i \in DOMAIN q : Member(q[i], n)
       => \A o, c \in Int : Holds(q[i], o, c) => \E k \in DOMAIN w : Holds(w[k], o, c)

LEMMA CompactGroupOf ==
  ASSUME NEW q \in Seq(Regions), NEW n \in Nat \ {0}, NEW w,
         w = IF GroupOf(q, n) = <<>> THEN <<>> ELSE CompactGroup(GroupOf(q, n))
  PROVE  PartOf(q, n, w)
  <1> DEFINE g == GroupOf(q, n)
             x == g[1]
  <1>1. /\ g \in Seq(Regions)
        /\ \A k \in DOMAIN g : Member(g[k], n) /\ \E i \in DOMAIN q : g[k] = q[i]
        /\ \A i \in DOMAIN q : Member(q[i], n) => \E k \in DOMAIN g : g[k] = q[i]
    BY GroupKeeps
  <1>2. w = IF g = <<>> THEN <<>> ELSE CompactGroup(g)
    OBVIOUS
  <1> HIDE DEF g
  <1>3. CASE g = <<>>
    <2>1. w = <<>> /\ DOMAIN g = {} /\ DOMAIN w = {} /\ w \in Seq(Regions)
      <3>1. w = <<>>
        BY <1>2, <1>3
      <3>2. DOMAIN <<>> = {} /\ <<>> \in Seq(Regions)
        BY EmptySeq
      <3> QED
        BY <1>3, <3>1, <3>2
    <2>2. PairwiseApart(w)
      BY <2>1 DEF PairwiseApart
    <2> QED
      BY <1>1, <2>1, <2>2 DEF PartOf
  <1>4. CASE g # <<>>
    <2>1. 1 \in DOMAIN g /\ DOMAIN g = 1 .. Len(g)
      <3>1. Len(g) \in Nat /\ DOMAIN g = 1 .. Len(g) /\ Len(g) # 0
        BY <1>1, <1>4, LenProperties, EmptySeq
      <3> QED
        BY <3>1
    <2>2. \A k \in DOMAIN g : g[k] \in Regions
      BY <1>1, ElementOfSeq
    <2>3. Uniform(g, x)
      BY <1>1, <2>1, <2>2, MemberSame DEF Uniform
    <2>4. w = CompactGroup(g)
      BY <1>2, <1>4
    <2> DEFINE T == Tops(g, x)
    <2>5. /\ w \in Seq(T) /\ PairwiseApart(w)
          /\ \A o, c \in Int : HeldIn(g, o, c) => HeldIn(w, o, c)
      BY <1>1, <1>4, <2>3, <2>4, CompactGroupKeeps
    <2>6. T \subseteq Regions
      BY DEF Tops
    <2> HIDE DEF T
    <2>7. Len(w) \in Nat /\ DOMAIN w = 1 .. Len(w) /\ \A k \in DOMAIN w : w[k] \in T /\ w[k] \in Regions
      <3>1. Len(w) \in Nat /\ DOMAIN w = 1 .. Len(w) /\ \A k \in DOMAIN w : w[k] \in T
        BY <2>5, LenProperties, ElementOfSeq
      <3> QED
        BY <2>6, <3>1
    <2>8. w \in Seq(Regions)
      <3>1. w = [k \in 1 .. Len(w) |-> w[k]]
        BY <2>5, <2>7
      <3> QED
        BY <2>7, <3>1, IsASeq
    <2>9. ASSUME NEW k \in DOMAIN w
          PROVE  Member(w[k], n) /\ Shadows(q, w[k])
      <3>1. SameState(x, w[k])
        BY <2>7 DEF T, Tops
      <3>2. Member(x, n)
        BY <1>1, <2>1
      <3>3. Member(w[k], n)
        BY <3>1, <3>2 DEF Member, SameState
      <3>4. ASSUME NEW o \in Over(w[k])
            PROVE  \E i \in DOMAIN q : /\ SameState(q[i], w[k]) /\ o \in Over(q[i])
                                       /\ At(q[i].high, o) = At(w[k].high, o)
        <4>1. PICK j \in DOMAIN g : o \in Over(g[j]) /\ At(g[j].high, o) = At(w[k].high, o)
          BY <2>7 DEF T, Tops
        <4>2. PICK i \in DOMAIN q : g[j] = q[i]
          BY <1>1
        <4>3. SameState(g[j], w[k])
          BY <2>3, <3>1 DEF Uniform, SameState
        <4> QED
          BY <4>1, <4>2, <4>3
      <3> QED
        BY <3>3, <3>4 DEF Shadows
    <2>10. ASSUME NEW i \in DOMAIN q, Member(q[i], n), NEW o \in Int, NEW c \in Int, Holds(q[i], o, c)
           PROVE  \E k \in DOMAIN w : Holds(w[k], o, c)
      <3>1. PICK j \in DOMAIN g : g[j] = q[i]
        BY <1>1, <2>10
      <3>2. HeldIn(g, o, c)
        BY <2>10, <3>1 DEF HeldIn
      <3> QED
        BY <2>5, <3>2 DEF HeldIn
    <2> QED
      BY <2>5, <2>8, <2>9, <2>10 DEF PartOf
  <1> QED
    BY <1>3, <1>4

LEMMA CompactKeeps ==
  ASSUME NEW q \in Seq(Regions), NEW end \in Nat, \A i \in DOMAIN q : q[i].index \in 1 .. end
  PROVE  /\ Compact(q, end) \in Seq(Regions) /\ Distinct(Compact(q, end)) /\ Covers(q, Compact(q, end))
         /\ \A k \in DOMAIN Compact(q, end) : Shadows(q, Compact(q, end)[k])
  <1> DEFINE N == 4 * end
             part(n) == IF GroupOf(q, n) = <<>> THEN <<>> ELSE CompactGroup(GroupOf(q, n))
             ss == [n \in 1 .. N |-> part(n)]
             c == FlattenSeq(ss)
  <1>1. Compact(q, end) = c
    <2> DEFINE group(n) == FlattenSeq([i \in DOMAIN q |->
                 IF /\ q[i].index = 1 + ((n - 1) \div 4)
                    /\ <<q[i].currentEmpty, q[i].emptyRepeatBlocked>> = Flags[1 + ((n - 1) % 4)]
                   THEN <<q[i]>> ELSE <<>>])
    <2>1. Compact(q, end) = FlattenSeq([n \in 1 .. N |-> IF group(n) = <<>> THEN <<>> ELSE CompactGroup(group(n))])
      BY DEF Compact, Only, Flags
    <2>2. ASSUME NEW n
          PROVE  group(n) = GroupOf(q, n)
      <3> DEFINE K == {i \in DOMAIN q : Member(q[i], n)}
      <3>1. Choosing(q, K) = [i \in DOMAIN q |-> IF Member(q[i], n) THEN <<q[i]>> ELSE <<>>]
        BY DEF Choosing
      <3>2. group(n) = FlattenSeq([i \in DOMAIN q |-> IF Member(q[i], n) THEN <<q[i]>> ELSE <<>>])
        BY DEF Member
      <3> QED
        BY <3>1, <3>2 DEF GroupOf
    <2> HIDE DEF group
    <2> QED
      BY <2>1, <2>2
  <1>2. N \in Nat
    OBVIOUS
  <1>3. ASSUME NEW n \in 1 .. N
        PROVE  /\ ss[n] \in Seq(Regions) /\ PairwiseApart(ss[n])
               /\ DOMAIN ss[n] = 1 .. Len(ss[n]) /\ \A k \in DOMAIN ss[n] : ss[n][k] \in Regions
               /\ \A k \in DOMAIN ss[n] : Member(ss[n][k], n) /\ Shadows(q, ss[n][k])
               /\ \A i \in DOMAIN q : Member(q[i], n)
                    => \A o, m \in Int : Holds(q[i], o, m) => \E k \in DOMAIN ss[n] : Holds(ss[n][k], o, m)
    <2> DEFINE w == ss[n]
    <2>1. n \in Nat \ {0} /\ w = IF GroupOf(q, n) = <<>> THEN <<>> ELSE CompactGroup(GroupOf(q, n))
      OBVIOUS
    <2> HIDE DEF w
    <2>2. /\ w \in Seq(Regions) /\ PairwiseApart(w)
          /\ \A k \in DOMAIN w : Member(w[k], n) /\ Shadows(q, w[k])
          /\ \A i \in DOMAIN q : Member(q[i], n)
               => \A o, m \in Int : Holds(q[i], o, m) => \E k \in DOMAIN w : Holds(w[k], o, m)
      <3>1. PartOf(q, n, w)
        BY <2>1, CompactGroupOf
      <3> QED
        BY <3>1 DEF PartOf
    <2>3. DOMAIN w = 1 .. Len(w) /\ \A k \in DOMAIN w : w[k] \in Regions
      BY <2>2, LenProperties, ElementOfSeq
    <2>4. w = ss[n]
      BY DEF w
    <2> HIDE DEF ss
    <2> QED
      BY <2>2, <2>3, <2>4
  <1>4. ss \in Seq(Seq(Regions)) /\ Len(ss) = N
    <2>1. ss = [n \in 1 .. N |-> ss[n]]
      <3> HIDE DEF part
      <3> QED
        OBVIOUS
    <2> HIDE DEF ss, N
    <2> QED
      BY <1>2, <1>3, <2>1, IsASeq
  <1> HIDE DEF ss, N
  <1>5. c \in Seq(Regions) /\ \E at : Deals(ss, Len(ss), c, at)
    BY <1>4, FlattenDeals
  <1>6. PICK at : Deals(ss, Len(ss), c, at)
    BY <1>5
  <1>7. Len(c) \in Nat /\ DOMAIN c = 1 .. Len(c)
    BY <1>5, LenProperties
  <1> HIDE DEF c
  <1>8. ASSUME NEW k \in DOMAIN c
        PROVE  /\ at[k][1] \in 1 .. N /\ at[k][2] \in DOMAIN ss[at[k][1]]
               /\ c[k] = ss[at[k][1]][at[k][2]] /\ at[k] = <<at[k][1], at[k][2]>>
               /\ c[k] \in Regions /\ Member(c[k], at[k][1]) /\ Shadows(q, c[k])
    <2>1. at[k] \in Nat \X Nat
      BY <1>6, <1>7 DEF Deals
    <2>2. at[k][1] \in 1 .. N /\ at[k][2] \in 1 .. Len(ss[at[k][1]]) /\ c[k] = ss[at[k][1]][at[k][2]]
      BY <1>4, <1>6, <1>7 DEF Deals
    <2> QED
      BY <1>3, <2>1, <2>2
  <1>9. ASSUME NEW k \in DOMAIN c, NEW l \in DOMAIN c, k # l, SameState(c[k], c[l])
        PROVE  Apart(c[k], c[l])
    <2>1. at[k] # at[l]
      BY <1>6, <1>7, <1>9 DEF Deals
    <2>2. at[k][1] \in Nat \ {0} /\ at[l][1] \in Nat \ {0}
      BY <1>2, <1>8
    <2>3. at[k][1] = at[l][1]
      BY <1>8, <1>9, <2>2, MemberSame
    <2>4. at[k][2] # at[l][2]
      BY <1>8, <2>1, <2>3
    <2> QED
      BY <1>3, <1>8, <2>3, <2>4 DEF PairwiseApart
  <1>10. ASSUME NEW i \in DOMAIN q, NEW o \in Int, NEW m \in Int, Holds(q[i], o, m)
         PROVE  \E k \in DOMAIN c : SameState(q[i], c[k]) /\ Holds(c[k], o, m)
    <2>1. q[i] \in Regions
      BY ElementOfSeq
    <2>2. PICK n \in 1 .. N : Member(q[i], n)
      BY <2>1, SomeMember DEF N
    <2>3. PICK j \in DOMAIN ss[n] : Holds(ss[n][j], o, m)
      BY <1>3, <1>10, <2>2
    <2>4. j \in 1 .. Len(ss[n])
      BY <1>3, <2>3
    <2>5. PICK k \in 1 .. Len(c) : at[k] = <<n, j>>
      BY <1>4, <1>6, <2>4 DEF Deals
    <2>6. c[k] = ss[n][j] /\ c[k] \in Regions /\ Member(c[k], n)
      BY <1>7, <1>8, <2>5
    <2>7. SameState(q[i], c[k])
      BY <1>2, <2>1, <2>2, <2>6, MemberSame
    <2> QED
      BY <1>7, <2>3, <2>6, <2>7
  <1> QED
    BY <1>1, <1>5, <1>8, <1>9, <1>10 DEF Distinct, Covers

-----------------------------------------------------------------------------
(* The automaton, child by child.                                          *)
EndOf(p) == Len(p.particles) + 1
States == [done : Nat, at : Nat, count : Nat]
Beginning == [done |-> 0, at |-> 0, count |-> 0]

LEMMA ProgramFacts ==
  ASSUME NEW p \in Programs
  PROVE  /\ Len(p.particles) \in Nat /\ DOMAIN p.particles = 1 .. Len(p.particles)
         /\ EndOf(p) \in Nat /\ EndOf(p) - 1 = Len(p.particles)
         /\ \A i \in DOMAIN p.particles :
              /\ i \in Nat /\ i >= 1 /\ i < EndOf(p)
              /\ p.particles[i].min \in Nat
              /\ p.particles[i].max # Unbounded => p.particles[i].max \in Nat /\ p.particles[i].max >= 1
              /\ p.particles[i].name \notin {Unknown, NoName}
         /\ p.outer.min \in Nat /\ (p.outer.max # Unbounded => p.outer.max \in Nat)
  <1> DEFINE names == {p.particles[i].name : i \in DOMAIN p.particles}
             P == [name : names, min : Nat, max : Maxima]
  <1>1. /\ p.outer \in [min : Nat, max : Maxima]
        /\ p.particles \in Seq(P) /\ names \cap {Unknown, NoName} = {}
        /\ \A i \in DOMAIN p.particles : IsRange(p.particles[i])
    BY SequenceAssumption
  <1> HIDE DEF names
  <1>2. /\ Len(p.particles) \in Nat /\ DOMAIN p.particles = 1 .. Len(p.particles)
        /\ \A i \in DOMAIN p.particles : p.particles[i] \in P
    <2> HIDE DEF P
    <2> QED
      BY <1>1, LenProperties, ElementOfSeq
  <1>3. ASSUME NEW i \in DOMAIN p.particles
        PROVE  /\ i \in Nat /\ i >= 1 /\ i < EndOf(p)
               /\ p.particles[i].min \in Nat
               /\ p.particles[i].max # Unbounded => p.particles[i].max \in Nat /\ p.particles[i].max >= 1
               /\ p.particles[i].name \notin {Unknown, NoName}
    <2>1. p.particles[i].min \in Nat /\ p.particles[i].max \in Maxima /\ p.particles[i].name \in names
      BY <1>2
    <2>2. p.particles[i].max # Unbounded => p.particles[i].max \in Nat /\ p.particles[i].max >= 1
      BY <1>1, <2>1 DEF IsRange, Maxima
    <2>3. i \in Nat /\ i >= 1 /\ i < EndOf(p)
      BY <1>2 DEF EndOf
    <2> QED
      BY <1>1, <2>1, <2>2, <2>3
  <1>4. p.outer.min \in Nat /\ (p.outer.max # Unbounded => p.outer.max \in Nat)
    BY <1>1 DEF Maxima
  <1>5. EndOf(p) \in Nat /\ EndOf(p) - 1 = Len(p.particles)
    BY <1>2 DEF EndOf
  <1> QED
    BY <1>2, <1>3, <1>4, <1>5

LEMMA TakeStates ==
  ASSUME NEW p, NEW q \in States, NEW j \in Nat
  PROVE  Take(p, q, j) \subseteq States
  <1>1. q.done \in Nat /\ q.count \in Nat
    BY DEF States
  <1>2. \A d, n \in Nat : [done |-> d, at |-> j, count |-> n] \in States
    BY DEF States
  <1>3. q.done + 1 \in Nat /\ q.count + 1 \in Nat /\ 1 \in Nat
    BY <1>1
  <1> QED
    BY <1>1, <1>2, <1>3 DEF Take

After(p, children) ==
  CHOOSE f : f = [n \in 0 .. Len(children) |->
                    IF n = 0 THEN {Beginning} ELSE UNION {Take(p, q, j) : q \in f[n - 1], j \in children[n]}]

StepsOf(p, children, f) ==
  /\ f[0] = {Beginning}
  /\ \A n \in 1 .. Len(children) :
       f[n] = UNION {Take(p, q, j) : q \in f[n - 1], j \in children[n]}
  /\ \A n \in 0 .. Len(children) : f[n] \subseteq States

LEMMA AfterSteps ==
  ASSUME NEW p, NEW children \in Seq(SUBSET Nat)
  PROVE  StepsOf(p, children, After(p, children))
  <1> DEFINE N == Len(children)
             S == SUBSET States
             base == {Beginning}
             Op(Q, n) == UNION {Take(p, q, j) : q \in Q, j \in children[n]}
             step == [y \in S \X (1 .. N) |-> Op(y[1], y[2])]
             after == After(p, children)
             Fine == Nat \X S
  <1>1. N \in Nat /\ \A n \in 1 .. N : children[n] \subseteq Nat
    <2>1. N \in Nat /\ \A n \in 1 .. N : children[n] \in SUBSET Nat
      BY LenProperties, ElementOfSeq
    <2> QED
      BY <2>1
  <1>2. base \in S
    BY DEF States, Beginning
  <1>3. ASSUME NEW n \in 1 .. N, NEW Q \in S
        PROVE  Op(Q, n) \in S /\ step[<<Q, n>>] = Op(Q, n)
    <2>1. \A q \in Q, j \in children[n] : Take(p, q, j) \subseteq States
      BY <1>1, TakeStates
    <2>2. Op(Q, n) \in S
      BY <2>1
    <2>3. step[<<Q, n>>] = Op(Q, n)
      <3> HIDE DEF Op, S
      <3> QED
        OBVIOUS
    <2> QED
      BY <2>2, <2>3
  <1>4. after = CHOOSE f : f = [n \in 0 .. N |-> IF n = 0 THEN base ELSE Op(f[n - 1], n)]
    BY DEF After
  <1> HIDE DEF base, S, N, Op, step, after
  <1>5. \A n \in 1 .. N, Q \in S : <<n - 1, Q>> \in Fine => <<n, step[<<Q, n>>]>> \in Fine
    <2>1. SUFFICES ASSUME NEW n \in 1 .. N, NEW Q \in S PROVE <<n, step[<<Q, n>>]>> \in Fine
      OBVIOUS
    <2>2. n \in Nat /\ step[<<Q, n>>] \in S
      BY <1>1, <1>3
    <2> QED
      BY <2>2
  <1>6. <<0, base>> \in Fine /\ Fine \subseteq Nat \X S
    BY <1>2
  <1> HIDE DEF Fine
  <1>7. PICK g : Chain(N, base, step, g) /\ \A n \in 0 .. N : g[n] \in S
    <2>1. Runs(N, S, base, step)
      BY <1>1, <1>5, <1>6, Folded
    <2> QED
      BY <2>1 DEF Runs
  <1>8. after = [n \in 0 .. N |-> IF n = 0 THEN base ELSE Op(after[n - 1], n)]
    <2>1. ASSUME NEW n \in 0 .. N, n # 0
          PROVE  step[<<g[n - 1], n>>] = Op(g[n - 1], n)
      <3>1. n \in 1 .. N /\ g[n - 1] \in S
        BY <1>1, <1>7, <2>1
      <3> QED
        BY <1>3, <3>1
    <2>2. g = [n \in 0 .. N |-> IF n = 0 THEN base ELSE Op(g[n - 1], n)]
      BY <1>7, <2>1 DEF Chain
    <2> QED
      BY <1>4, <2>2
  <1>9. after[0] = base /\ \A n \in 1 .. N : after[n] = Op(after[n - 1], n)
    <2>1. 0 \in 0 .. N /\ \A n \in 1 .. N : n \in 0 .. N /\ n # 0
      BY <1>1
    <2> QED
      BY <1>8, <2>1
  <1>10. Follows(N, S, base, step, after)
    BY <1>3, <1>9 DEF Follows
  <1>11. \A n \in 0 .. N : after[n] \in S
    BY <1>1, <1>5, <1>6, <1>10, Folded
  <1> QED
    BY <1>9, <1>11 DEF base, S, N, Op, after, StepsOf

LEMMA ReachedFirst ==
  ASSUME NEW p
  PROVE  Reached(p, <<>>) = {Beginning}
  <1>1. <<>> \in Seq(SUBSET Nat) /\ Len(<<>>) = 0
    BY EmptySeq
  <1>2. Reached(p, <<>>) = After(p, <<>>)[0]
    BY <1>1 DEF Reached, After, Beginning
  <1>3. StepsOf(p, <<>>, After(p, <<>>))
    BY <1>1, AfterSteps
  <1> QED
    BY <1>2, <1>3 DEF StepsOf

LEMMA ReachedMore ==
  ASSUME NEW p, NEW w \in Seq(SUBSET Nat), NEW a \in SUBSET Nat
  PROVE  /\ Reached(p, w) \subseteq States
         /\ Append(w, a) \in Seq(SUBSET Nat)
         /\ Reached(p, Append(w, a)) = UNION {Take(p, q, j) : q \in Reached(p, w), j \in a}
  <1> DEFINE N == Len(w)
             v == Append(w, a)
             f == After(p, w)
             g == After(p, v)
             Op(Q, A) == UNION {Take(p, q, j) : q \in Q, j \in A}
  <1>1. /\ N \in Nat /\ v \in Seq(SUBSET Nat) /\ Len(v) = N + 1 /\ v[N + 1] = a
        /\ \A n \in 1 .. N : v[n] = w[n]
    BY LenProperties, AppendProperties
  <1>2. /\ f[0] = {Beginning}
        /\ \A n \in 1 .. N : f[n] = Op(f[n - 1], w[n])
        /\ \A n \in 0 .. N : f[n] \subseteq States
    <2>1. StepsOf(p, w, f)
      BY AfterSteps
    <2> HIDE DEF f
    <2> QED
      BY <2>1 DEF StepsOf
  <1>3. /\ g[0] = {Beginning}
        /\ \A n \in 1 .. N + 1 : g[n] = Op(g[n - 1], v[n])
    <2> HIDE DEF v
    <2>1. StepsOf(p, v, g)
      BY <1>1, AfterSteps
    <2> HIDE DEF g
    <2>2. g[0] = {Beginning} /\ \A n \in 1 .. Len(v) : g[n] = Op(g[n - 1], v[n])
      BY <2>1 DEF StepsOf
    <2> QED
      BY <1>1, <2>2
  <1>4. Reached(p, w) = f[N] /\ Reached(p, v) = g[N + 1]
    <2>1. Reached(p, w) = f[N]
      BY DEF Reached, After, Beginning
    <2>2. Reached(p, v) = g[Len(v)]
      BY DEF Reached, After, Beginning
    <2> HIDE DEF g, v
    <2> QED
      BY <1>1, <2>1, <2>2
  <1> HIDE DEF f, g, v, N, Op
  <1>5. \A n \in 0 .. N : g[n] = f[n]
    <2> DEFINE P == {n \in 0 .. N : g[n] = f[n]}
    <2>1. 0 \in P
      <3>1. 0 \in 0 .. N
        BY <1>1
      <3> QED
        BY <1>2, <1>3, <3>1
    <2>2. ASSUME NEW n \in 0 .. N - 1, n \in P PROVE n + 1 \in P
      <3>1. n + 1 \in 1 .. N /\ n + 1 \in 1 .. N + 1 /\ n + 1 \in 0 .. N /\ (n + 1) - 1 = n
        BY <1>1
      <3>2. g[n + 1] = Op(g[n], v[n + 1])
        BY <1>3, <3>1
      <3>3. f[n + 1] = Op(f[n], w[n + 1])
        BY <1>2, <3>1
      <3>4. g[n] = f[n] /\ v[n + 1] = w[n + 1]
        BY <1>1, <2>2, <3>1
      <3>5. g[n + 1] = f[n + 1]
        BY <3>2, <3>3, <3>4
      <3> QED
        BY <3>1, <3>5
    <2> HIDE DEF P
    <2>3. \A n \in 0 .. N : n \in P
      BY <1>1, <2>1, <2>2, UpTo0
    <2> QED
      BY <2>3 DEF P
  <1>6. g[N + 1] = Op(g[N], a)
    <2>1. N + 1 \in 1 .. N + 1 /\ (N + 1) - 1 = N
      BY <1>1
    <2>2. g[N + 1] = Op(g[(N + 1) - 1], v[N + 1])
      BY <1>3, <2>1
    <2> QED
      BY <1>1, <2>1, <2>2
  <1>7. N \in 0 .. N
    BY <1>1
  <1>8. Reached(p, v) = Op(Reached(p, w), a) /\ Reached(p, w) \subseteq States
    BY <1>2, <1>4, <1>5, <1>6, <1>7
  <1> QED
    BY <1>1, <1>8 DEF v, Op

-----------------------------------------------------------------------------
(* The automaton of a program whose maxima are lifted, and what it says of *)
(* a region: that some run of it stands where the region's highest count   *)
(* does, or can get there without a child.  The maxima are lifted because  *)
(* a count that reaches the maximum is cut off to it.                      *)
Lift(p) ==
  [outer |-> [p.outer EXCEPT !.max = Unbounded],
   particles |-> [i \in DOMAIN p.particles |-> [p.particles[i] EXCEPT !.max = Unbounded]]]

Loop(l, q) == q.at = 0 \/ (Enough(l, q) /\ Skippable(l, q.at, EndOf(l)))

Stays(l, q, i, h) == h >= 1 /\ q.at = i /\ q.count >= h
Comes(l, q, i) ==
  \/ q.at < i /\ Enough(l, q) /\ Skippable(l, q.at, i)
  \/ Loop(l, q) /\ Skippable(l, 0, i)
Stand(l, q, i, h) ==
  IF i = EndOf(l) THEN Loop(l, q) ELSE Stays(l, q, i, h) \/ (h <= 0 /\ Comes(l, q, i))
Reachable(l, w, i, h) == \E q \in Reached(l, w) : Stand(l, q, i, h)

(* The regions of a closure, and those that fit an open child.             *)
Sound(l, w) ==
  {r \in Regions : /\ r.index \in 1 .. EndOf(l)
                   /\ \A o \in Over(r) : At(r.high, o) >= 0 /\ Reachable(l, w, r.index, At(r.high, o))}

Counts(l, w, i, h) ==
  h >= 1 /\ \E q \in Reached(l, w) : \E s \in Take(l, q, i) : s.at = i /\ s.count >= h

Fit(l, w, n) ==
  {r \in Regions : /\ r.index \in 1 .. EndOf(l) - 1 /\ l.particles[r.index].name = n
                   /\ r.currentEmpty = FALSE
                   /\ \A o \in Over(r) : Counts(l, w, r.index, At(r.high, o))}

(* What a lifted program is.                                               *)
IsLifted(l) ==
  /\ Len(l.particles) \in Nat /\ DOMAIN l.particles = 1 .. EndOf(l) - 1 /\ EndOf(l) \in Nat /\ EndOf(l) >= 1
  /\ \A i \in 1 .. EndOf(l) - 1 : l.particles[i].min \in Nat /\ l.particles[i].max = Unbounded
  /\ l.outer.max = Unbounded

LEMMA Lifting ==
  ASSUME NEW p \in Programs
  PROVE  /\ IsLifted(Lift(p)) /\ EndOf(Lift(p)) = EndOf(p)
         /\ \A i \in DOMAIN p.particles :
              Lift(p).particles[i].min = p.particles[i].min /\ Lift(p).particles[i].name = p.particles[i].name
  <1> DEFINE l == Lift(p)
             names == {p.particles[i].name : i \in DOMAIN p.particles}
  <1>1. /\ Len(p.particles) \in Nat /\ DOMAIN p.particles = 1 .. Len(p.particles)
        /\ EndOf(p) \in Nat /\ EndOf(p) - 1 = Len(p.particles)
        /\ \A i \in DOMAIN p.particles : p.particles[i].min \in Nat
    BY ProgramFacts
  <1>2. l.particles = [i \in 1 .. Len(p.particles) |-> [p.particles[i] EXCEPT !.max = Unbounded]]
    BY <1>1 DEF Lift
  <1>3. /\ p.outer \in [min : Nat, max : Maxima] /\ p.particles \in Seq([name : names, min : Nat, max : Maxima])
    BY SequenceAssumption
  <1>4. /\ DOMAIN l.particles = 1 .. Len(p.particles)
        /\ \A i \in 1 .. Len(p.particles) : l.particles[i] = [p.particles[i] EXCEPT !.max = Unbounded]
    BY <1>2
  <1>5. Len(l.particles) = Len(p.particles)
    <2>1. l.particles = [i \in 1 .. Len(p.particles) |-> l.particles[i]]
      BY <1>2, <1>4
    <2> HIDE DEF l
    <2> QED
      BY <1>1, <2>1
  <1>6. l.outer.max = Unbounded
    BY <1>3 DEF Lift
  <1>7. ASSUME NEW i \in DOMAIN p.particles
        PROVE  l.particles[i].min = p.particles[i].min /\ l.particles[i].name = p.particles[i].name
               /\ l.particles[i].max = Unbounded
    <2> HIDE DEF names
    <2>1. p.particles[i] \in [name : names, min : Nat, max : Maxima]
      BY <1>1, <1>3, ElementOfSeq
    <2>2. l.particles[i] = [p.particles[i] EXCEPT !.max = Unbounded]
      BY <1>1, <1>4
    <2> HIDE DEF l
    <2> QED
      BY <2>1, <2>2
  <1> HIDE DEF l
  <1>8. EndOf(l) = EndOf(p) /\ EndOf(l) >= 1
    BY <1>1, <1>5 DEF EndOf
  <1> QED
    BY <1>1, <1>4, <1>5, <1>6, <1>7, <1>8 DEF IsLifted, l

(* A run that stands at a particle can take one more of it.                *)
LEMMA StandCounts ==
  ASSUME NEW l, IsLifted(l), NEW q \in States, NEW i \in 1 .. EndOf(l) - 1, NEW h \in Int, h >= 0,
         Stand(l, q, i, h)
  PROVE  \E s \in Take(l, q, i) : s.at = i /\ s.count >= h + 1
  <1>1. i \in Nat /\ i # 0 /\ i # EndOf(l) /\ q.at \in Nat /\ q.count \in Nat /\ q.done \in Nat
    BY DEF IsLifted, States
  <1>2. l.particles[i].max = Unbounded /\ l.outer.max = Unbounded
    BY DEF IsLifted
  <1> DEFINE state(d, n) == [done |-> d, at |-> i, count |-> n]
  <1>3. \A d, n : state(d, n).at = i /\ state(d, n).count = n
    OBVIOUS
  <1>4. CASE Stays(l, q, i, h)
    <2>1. state(q.done, q.count + 1) \in Take(l, q, i)
      BY <1>2, <1>4 DEF Take, Stays, Below
    <2>2. q.count + 1 >= h + 1
      BY <1>1, <1>4 DEF Stays
    <2> HIDE DEF state
    <2> QED
      BY <1>3, <2>1, <2>2
  <1>5. CASE h <= 0 /\ Comes(l, q, i)
    <2>1. h + 1 <= 1
      BY <1>5
    <2>2. CASE q.at < i /\ Enough(l, q) /\ Skippable(l, q.at, i)
      <3>1. state(q.done, 1) \in Take(l, q, i)
        BY <1>1, <2>2 DEF Take
      <3> HIDE DEF state
      <3> QED
        BY <1>3, <2>1, <3>1
    <2>3. CASE Loop(l, q) /\ Skippable(l, 0, i)
      <3>1. CASE q.at = 0
        <4>1. state(q.done, 1) \in Take(l, q, i)
          BY <1>1, <2>3, <3>1 DEF Take, Enough
        <4> HIDE DEF state
        <4> QED
          BY <1>3, <2>1, <4>1
      <3>2. CASE q.at # 0
        <4>1. state(q.done + 1, 1) \in Take(l, q, i)
          BY <1>1, <1>2, <2>3, <3>2 DEF Take, Loop, EndOf, Below
        <4> HIDE DEF state
        <4> QED
          BY <1>3, <2>1, <4>1
      <3> QED
        BY <3>1, <3>2
    <2> QED
      BY <1>5, <2>2, <2>3 DEF Comes
  <1> QED
    BY <1>1, <1>4, <1>5 DEF Stand

(* Past a particle that has occurred often enough.                         *)
LEMMA StandPasses ==
  ASSUME NEW l, IsLifted(l), NEW q \in States, NEW i \in 1 .. EndOf(l) - 1, NEW h \in Int, h >= 0,
         Stand(l, q, i, h), h >= l.particles[i].min
  PROVE  Stand(l, q, i + 1, 0)
  <1>1. /\ i \in Nat /\ i # 0 /\ i # EndOf(l) /\ q.at \in Nat /\ q.count \in Nat
        /\ l.particles[i].min \in Nat /\ EndOf(l) \in Nat
    BY DEF IsLifted, States
  <1>2. CASE Stays(l, q, i, h)
    <2>1. q.at = i /\ Enough(l, q)
      BY <1>1, <1>2 DEF Stays, Enough
    <2>2. Skippable(l, q.at, i + 1) /\ q.at < i + 1
      BY <1>1, <2>1 DEF Skippable
    <2> QED
      BY <2>1, <2>2 DEF Stand, Comes, Loop
  <1>3. CASE h <= 0 /\ Comes(l, q, i)
    <2>1. l.particles[i].min = 0
      BY <1>1, <1>3
    <2>2. \A j \in Nat : Skippable(l, j, i) => Skippable(l, j, i + 1)
      <3>1. SUFFICES ASSUME NEW j \in Nat, Skippable(l, j, i), NEW k \in j + 1 .. (i + 1) - 1
                     PROVE  l.particles[k].min = 0
        BY DEF Skippable
      <3>2. k = i \/ k \in j + 1 .. i - 1
        BY <1>1
      <3> QED
        BY <2>1, <3>1, <3>2 DEF Skippable
    <2>3. CASE q.at < i /\ Enough(l, q) /\ Skippable(l, q.at, i)
      <3>1. q.at < i + 1 /\ Skippable(l, q.at, i + 1)
        BY <1>1, <2>2, <2>3
      <3> QED
        BY <2>3, <3>1 DEF Stand, Comes, Loop
    <2>4. CASE Loop(l, q) /\ Skippable(l, 0, i)
      <3>1. Skippable(l, 0, i + 1)
        BY <2>2, <2>4
      <3> QED
        BY <2>4, <3>1 DEF Stand, Comes
    <2> QED
      BY <1>3, <2>3, <2>4 DEF Comes
  <1> QED
    BY <1>1, <1>2, <1>3 DEF Stand

(* From the end of the body to the first particle, and back.               *)
LEMMA StandRestarts ==
  ASSUME NEW l, IsLifted(l), NEW q \in States
  PROVE  /\ Stand(l, q, EndOf(l), 0) => \A h : Stand(l, q, EndOf(l), h)
         /\ Stand(l, q, EndOf(l), 0) => Stand(l, q, 1, 0)
         /\ Stand(l, q, 1, 0) => Stand(l, q, EndOf(l), 0)
  <1>1. q.at \in Nat /\ EndOf(l) \in Nat /\ EndOf(l) >= 1
    BY DEF IsLifted, States
  <1>2. Skippable(l, 0, 1)
    BY DEF Skippable
  <1>3. q.at < 1 => q.at = 0
    BY <1>1
  <1> QED
    BY <1>1, <1>2, <1>3 DEF Stand, Stays, Comes, Loop

-----------------------------------------------------------------------------
(* Sequences built element by element.                                     *)
LEMMA Mapped ==
  ASSUME NEW A, NEW x \in Seq(A), NEW B, NEW f, f = [i \in DOMAIN x |-> f[i]],
         \A i \in DOMAIN x : x[i] \in A => f[i] \in B
  PROVE  f \in Seq(B) /\ DOMAIN f = DOMAIN x /\ (x = <<>> => f = <<>>)
  <1>1. Len(x) \in Nat /\ DOMAIN x = 1 .. Len(x) /\ \A i \in DOMAIN x : x[i] \in A
    BY LenProperties, ElementOfSeq
  <1>2. f = [i \in 1 .. Len(x) |-> f[i]] /\ \A i \in 1 .. Len(x) : f[i] \in B
    BY <1>1
  <1>3. [i \in 1 .. Len(x) |-> f[i]] \in Seq(B)
    BY <1>1, <1>2, IsASeq
  <1>4. f \in Seq(B) /\ DOMAIN f = DOMAIN x
    BY <1>1, <1>2, <1>3
  <1>5. ASSUME x = <<>> PROVE f = <<>>
    <2>1. Len(x) = 0
      BY <1>5, EmptySeq
    <2>2. DOMAIN f = 1 .. 0
      BY <1>1, <1>4, <2>1
    <2>3. Len(f) \in Nat /\ DOMAIN f = 1 .. Len(f)
      BY <1>4, LenProperties
    <2>4. Len(f) = 0
      BY <2>2, <2>3
    <2> QED
      BY <1>4, <2>4, EmptySeq
  <1> QED
    BY <1>4, <1>5

LEMMA Flattened ==
  ASSUME NEW A, NEW x \in Seq(A), NEW B, NEW f, f = [i \in DOMAIN x |-> f[i]],
         \A i \in DOMAIN x : x[i] \in A => f[i] \in Seq(B)
  PROVE  FlattenSeq(f) \in Seq(B)
  <1>1. f \in Seq(Seq(B))
    BY Mapped
  <1> QED
    BY <1>1, FlattenDeals

LEMMA Joined ==
  ASSUME NEW S, NEW s \in Seq(S), NEW t \in Seq(S)
  PROVE  s \o t \in Seq(S)
  BY ConcatProperties

LEMMA OnlyKeeps ==
  ASSUME NEW S, NEW s \in Seq(S), NEW K \in SUBSET DOMAIN s
  PROVE  /\ FlattenSeq(Choosing(s, K)) \in Seq(S)
         /\ \A k \in DOMAIN FlattenSeq(Choosing(s, K)) : \E i \in K : FlattenSeq(Choosing(s, K))[k] = s[i]
  <1> DEFINE t == FlattenSeq(Choosing(s, K))
  <1>1. t \in Seq(S) /\ Picks(s, K, t)
    BY Chosen
  <1> HIDE DEF t
  <1>2. PICK at \in [1 .. Len(t) -> K] : \A k \in 1 .. Len(t) : t[k] = s[at[k]]
    BY <1>1 DEF Picks
  <1>3. DOMAIN t = 1 .. Len(t)
    BY <1>1, LenProperties
  <1>4. \A k \in DOMAIN t : \E i \in K : t[k] = s[i]
    BY <1>2, <1>3
  <1> QED
    BY <1>1, <1>4 DEF t

(* Parts of a region.                                                      *)
Cut(r, K) == {s \in Regions : Part(s, r) /\ Over(s) = K}
Parts(r) == {s \in Regions : Part(s, r)}

LEMMA RestrictedSeq ==
  ASSUME NEW r, NEW K, NEW w, Restricts(w, r, K)
  PROVE  w \in Seq(Cut(r, K)) /\ w \in Seq(Parts(r))
  <1>1. CASE K = {}
    BY <1>1, EmptySeq DEF Restricts
  <1>2. CASE K # {}
    <2>1. PICK s : w = <<s>> /\ Part(s, r) /\ Over(s) = K
      BY <1>2 DEF Restricts
    <2>2. s \in Cut(r, K) /\ s \in Parts(r)
      BY <2>1 DEF Cut, Parts, Part
    <2> QED
      BY <2>1, <2>2
  <1> QED
    BY <1>1, <1>2

LEMMA StartParts ==
  ASSUME program \in Programs, NEW r \in Regions
  PROVE  StartOf(r) \in Seq(Parts(r)) /\ OuterAllowed(r) \in Seq(Parts(r))
  <1> DEFINE K(a, b) == {o \in Over(r) : a <= o /\ o <= b}
             bound == IF program.outer.max = Unbounded THEN r.outerMaximum ELSE program.outer.max
             least == IF BodyCanBeEmpty THEN 0 ELSE program.outer.min
  <1>1. /\ program.outer.min \in Nat
        /\ program.outer.max # Unbounded => program.outer.max \in Int /\ program.outer.max - 1 \in Int
    BY ProgramFacts
  <1>2. r.outer \in Int /\ r.outerMaximum \in Int /\ bound \in Int /\ least \in Int
    BY <1>1, RegionFields
  <1>3. StartOf(r) \in Seq(Parts(r))
    <2>1. CASE program.outer.max = Unbounded
      <3>1. StartOf(r) = <<r>>
        BY <2>1 DEF StartOf
      <3>2. Restricts(<<r>>, r, Over(r))
        BY WholeRestricts
      <3> QED
        BY <3>1, <3>2, RestrictedSeq
    <2>2. CASE program.outer.max # Unbounded
      <3>1. StartOf(r) = OuterSubset(r, r.outer, program.outer.max - 1)
        BY <2>2 DEF StartOf
      <3>2. Restricts(OuterSubset(r, r.outer, program.outer.max - 1), r, K(r.outer, program.outer.max - 1))
        BY <1>1, <1>2, <2>2, SubsetRestricts
      <3> HIDE DEF K
      <3> QED
        BY <3>1, <3>2, RestrictedSeq
    <2> QED
      BY <2>1, <2>2
  <1>4. OuterAllowed(r) \in Seq(Parts(r))
    <2>1. OuterAllowed(r) = OuterSubset(r, least, bound)
      BY DEF OuterAllowed
    <2> HIDE DEF least, bound
    <2>2. Restricts(OuterSubset(r, least, bound), r, K(least, bound))
      BY <1>2, SubsetRestricts
    <2> HIDE DEF K
    <2> QED
      BY <2>1, <2>2, RestrictedSeq
  <1> QED
    BY <1>3, <1>4

-----------------------------------------------------------------------------
(* The regions of a closure stay sound.                                    *)
RegionRecords ==
  [outer : Nat, outerMaximum : Nat, index : Nat, low : Lines, high : Lines,
   currentEmpty : BOOLEAN, emptyRepeatBlocked : BOOLEAN]

(* A closure begins an iteration with no element taken: such a region      *)
(* counts nothing.                                                         *)
Zeroed(r) == r.currentEmpty => r.low = Constant(0) /\ r.high = Constant(0)
Fresh(l, w) == {r \in Sound(l, w) : Zeroed(r)}

LEMMA SoundFields ==
  ASSUME NEW l, NEW w, NEW r \in Sound(l, w)
  PROVE  /\ r \in Regions /\ r \in RegionRecords /\ r.index \in 1 .. EndOf(l)
         /\ \A o \in Over(r) : /\ At(r.high, o) \in Int /\ At(r.high, o) >= 0
                               /\ Reachable(l, w, r.index, At(r.high, o))
  <1>1. r \in Regions /\ r.index \in 1 .. EndOf(l)
        /\ \A o \in Over(r) : At(r.high, o) >= 0 /\ Reachable(l, w, r.index, At(r.high, o))
    BY DEF Sound
  <1>2. r \in RegionRecords
    BY <1>1 DEF Regions, RegionRecords
  <1>3. r.high \in Lines /\ Over(r) \subseteq Int
    BY <1>1, RegionFields
  <1>4. \A o \in Over(r) : At(r.high, o) \in Int
    BY <1>3, AtInt
  <1> QED
    BY <1>1, <1>2, <1>4

LEMMA SoundEmpty ==
  ASSUME NEW l, NEW w, NEW t \in RegionRecords, t.outer <= t.outerMaximum,
         t.low = Constant(0), t.high = Constant(0), t.index \in 1 .. EndOf(l),
         Reachable(l, w, t.index, 0)
  PROVE  t \in Fresh(l, w)
  <1>1. Over(t) \subseteq Int
    BY DEF Over, RegionRecords
  <1>2. \A o \in Over(t) : At(t.high, o) = 0 /\ At(t.low, o) = 0
    BY <1>1, ConstantLine
  <1>3. t \in Regions
    BY <1>2 DEF Regions, RegionRecords
  <1>4. t \in Sound(l, w)
    BY <1>2, <1>3 DEF Sound
  <1> QED
    BY <1>4 DEF Fresh, Zeroed

LEMMA PartSound ==
  ASSUME NEW l, NEW w, NEW r \in Sound(l, w), NEW s \in Parts(r)
  PROVE  s \in Sound(l, w) /\ s.index = r.index
  <1>1. s \in Regions /\ s.index = r.index /\ s.high = r.high /\ Over(s) \subseteq Over(r)
    BY DEF Parts, Part
  <1> QED
    BY <1>1 DEF Sound

LEMMA InitialSound ==
  ASSUME NEW l, IsLifted(l)
  PROVE  Initial \in Fresh(l, <<>>)
  <1>1. Beginning \in Reached(l, <<>>)
    BY ReachedFirst
  <1>2. Stand(l, Beginning, 1, 0)
    <2>1. Beginning.at = 0 /\ Skippable(l, 0, 1)
      BY DEF Beginning, Skippable
    <2> QED
      BY <2>1 DEF Stand, Comes, Loop
  <1>3. Reachable(l, <<>>, 1, 0)
    BY <1>1, <1>2 DEF Reachable
  <1>4. /\ Initial \in RegionRecords /\ Initial.outer <= Initial.outerMaximum
        /\ Initial.low = Constant(0) /\ Initial.high = Constant(0) /\ Initial.index = 1
    <2>1. Constant(0) \in Lines
      BY ConstantLine
    <2> QED
      BY <2>1 DEF Initial, RegionRecords
  <1>5. 1 \in 1 .. EndOf(l)
    BY DEF IsLifted
  <1> QED
    BY <1>3, <1>4, <1>5, SoundEmpty

-----------------------------------------------------------------------------
LEMMA NextIterationSound ==
  ASSUME program \in Programs, NEW w \in Seq(SUBSET Nat), NEW r \in Sound(Lift(program), w), r.index = End
  PROVE  NextIteration(r) \in Seq(Fresh(Lift(program), w))
  <1> DEFINE l == Lift(program)
             S == Fresh(l, w)
             begin(s) == [Restarted(s, 1) EXCEPT !.currentEmpty = TRUE, !.emptyRepeatBlocked = s.currentEmpty]
             open == StartOf(r)
             K == {i \in DOMAIN open : ~ (open[i].currentEmpty /\ open[i].emptyRepeatBlocked)}
             starting == FlattenSeq(Choosing(open, K))
             more == NextIteration(r)
  <1>1. /\ r \in Regions /\ End = EndOf(l) /\ 1 \in 1 .. EndOf(l)
        /\ \A o \in Over(r) : Reachable(l, w, EndOf(l), At(r.high, o))
    <2>1. End = EndOf(l) /\ IsLifted(l)
      BY Lifting DEF End, EndOf
    <2>2. r \in Regions /\ \A o \in Over(r) : Reachable(l, w, r.index, At(r.high, o))
      BY SoundFields
    <2> HIDE DEF l
    <2> QED
      BY <2>1, <2>2 DEF IsLifted
  <1>2. more = [i \in DOMAIN starting |-> begin(starting[i])]
    BY DEF NextIteration, Only, Choosing
  <1>3. open \in Seq(Parts(r))
    BY <1>1, StartParts
  <1> HIDE DEF open
  <1>4. starting \in Seq(Parts(r))
    <2> HIDE DEF K
    <2>1. K \in SUBSET DOMAIN open
      BY DEF K
    <2> QED
      BY <1>3, <2>1, OnlyKeeps
  <1>5. Reachable(l, w, 1, 0)
    <2>1. r.outer \in Over(r)
      BY <1>1, RegionFields
    <2>2. Reachable(l, w, EndOf(l), At(r.high, r.outer))
      BY <1>1, <2>1
    <2>3. IsLifted(l) /\ Reached(l, w) \subseteq States
      BY Lifting, ReachedMore
    <2> HIDE DEF l
    <2>4. PICK q \in Reached(l, w) : Stand(l, q, EndOf(l), At(r.high, r.outer))
      BY <2>2 DEF Reachable
    <2>5. Stand(l, q, EndOf(l), 0)
      BY <2>4 DEF Stand
    <2>6. Stand(l, q, 1, 0)
      BY <2>3, <2>4, <2>5, StandRestarts
    <2> QED
      BY <2>4, <2>6 DEF Reachable
  <1>6. ASSUME NEW s \in Parts(r) PROVE begin(s) \in S
    <2> HIDE DEF l
    <2>1. s \in Sound(l, w)
      BY PartSound DEF l
    <2>2. s \in RegionRecords /\ s.outer <= s.outerMaximum
      <3>1. s \in Regions
        BY <2>1, SoundFields
      <3> QED
        BY <3>1 DEF Regions, RegionRecords
    <2>3. Constant(0) \in Lines
      BY ConstantLine
    <2>4. /\ begin(s) \in RegionRecords /\ begin(s).outer = s.outer /\ begin(s).outerMaximum = s.outerMaximum
          /\ begin(s).low = Constant(0) /\ begin(s).high = Constant(0) /\ begin(s).index = 1
      BY <2>2, <2>3 DEF Restarted, RegionRecords
    <2> HIDE DEF begin
    <2> QED
      BY <1>1, <1>5, <2>2, <2>4, SoundEmpty
  <1> HIDE DEF begin, starting, S, more
  <1>7. /\ more = [i \in DOMAIN starting |-> more[i]]
        /\ \A i \in DOMAIN starting : starting[i] \in Parts(r) => more[i] \in S
    BY <1>2, <1>6
  <1>8. more \in Seq(S)
    BY <1>4, <1>7, Mapped
  <1> QED
    BY <1>8 DEF more, S

LEMMA BeforeIterationSound ==
  ASSUME program \in Programs, NEW w \in Seq(SUBSET Nat), NEW r \in Sound(Lift(program), w), r.index # End
  PROVE  BeforeIteration(r) \in Seq(Fresh(Lift(program), w))
  <1> DEFINE l == Lift(program)
             S == Fresh(l, w)
             finish(s) == [Restarted(s, End) EXCEPT !.currentEmpty = FALSE, !.emptyRepeatBlocked = FALSE]
             allowed == OuterAllowed(r)
             more == BeforeIteration(r)
  <1>1. /\ r \in Regions /\ End = EndOf(l) /\ EndOf(l) \in 1 .. EndOf(l) /\ End \in Nat
        /\ \A o \in Over(r) : Reachable(l, w, r.index, At(r.high, o))
    <2>1. End = EndOf(l) /\ IsLifted(l)
      BY Lifting DEF End, EndOf
    <2>2. r \in Regions /\ \A o \in Over(r) : Reachable(l, w, r.index, At(r.high, o))
      BY SoundFields
    <2> HIDE DEF l
    <2> QED
      BY <2>1, <2>2 DEF IsLifted
  <1>2. CASE ~ (r.index = 1 /\ r.currentEmpty /\ CountIsZero(r))
    <2>1. more = <<>>
      BY <1>2 DEF BeforeIteration
    <2> HIDE DEF more, S
    <2>2. more \in Seq(S)
      BY <2>1, EmptySeq
    <2> QED
      BY <2>2 DEF more, S
  <1>3. CASE r.index = 1 /\ r.currentEmpty /\ CountIsZero(r)
    <2>1. more = [i \in DOMAIN allowed |-> finish(allowed[i])]
      BY <1>3 DEF BeforeIteration
    <2>2. allowed \in Seq(Parts(r))
      BY <1>1, StartParts
    <2>3. Reachable(l, w, End, 0)
      <3>1. r.outer \in Over(r) /\ At(r.high, r.outer) = 0
        BY <1>1, <1>3, RegionFields DEF CountIsZero
      <3>2. Reachable(l, w, 1, 0)
        BY <1>1, <1>3, <3>1
      <3>3. IsLifted(l) /\ Reached(l, w) \subseteq States
        BY Lifting, ReachedMore
      <3> HIDE DEF l
      <3>4. PICK q \in Reached(l, w) : Stand(l, q, 1, 0)
        BY <3>2 DEF Reachable
      <3>5. Stand(l, q, EndOf(l), 0)
        BY <3>3, <3>4, StandRestarts
      <3> QED
        BY <1>1, <3>4, <3>5 DEF Reachable
    <2>4. ASSUME NEW s \in Parts(r) PROVE finish(s) \in S
      <3> HIDE DEF l
      <3>1. s \in Sound(l, w)
        BY PartSound DEF l
      <3>2. s \in RegionRecords /\ s.outer <= s.outerMaximum
        <4>1. s \in Regions
          BY <3>1, SoundFields
        <4> QED
          BY <4>1 DEF Regions, RegionRecords
      <3>3. Constant(0) \in Lines
        BY ConstantLine
      <3>4. /\ finish(s) \in RegionRecords /\ finish(s).outer = s.outer /\ finish(s).outerMaximum = s.outerMaximum
            /\ finish(s).low = Constant(0) /\ finish(s).high = Constant(0) /\ finish(s).index = End
        <4> HIDE DEF End
        <4> QED
          BY <1>1, <3>2, <3>3 DEF Restarted, RegionRecords
      <3> HIDE DEF finish
      <3> QED
        BY <1>1, <2>3, <3>2, <3>4, SoundEmpty
    <2> HIDE DEF finish, allowed, S, more
    <2>5. /\ more = [i \in DOMAIN allowed |-> more[i]]
          /\ \A i \in DOMAIN allowed : allowed[i] \in Parts(r) => more[i] \in S
      BY <2>1, <2>4
    <2>6. more \in Seq(S)
      BY <2>2, <2>5, Mapped
    <2> QED
      BY <2>6 DEF more, S
  <1> QED
    BY <1>2, <1>3

LEMMA ShiftedRecord ==
  ASSUME NEW r \in RegionRecords, NEW t, t = [r EXCEPT !.outer = @ + 1, !.outerMaximum = @ + 1]
  PROVE  /\ t \in RegionRecords /\ t.outer = r.outer + 1 /\ t.outerMaximum = r.outerMaximum + 1
         /\ t.low = r.low /\ t.high = r.high /\ t.index = r.index
  <1>1. /\ r.outer \in Nat /\ r.outerMaximum \in Nat /\ r.index \in Nat /\ r.low \in Lines /\ r.high \in Lines
        /\ r.currentEmpty \in BOOLEAN /\ r.emptyRepeatBlocked \in BOOLEAN
        /\ r = [outer |-> r.outer, outerMaximum |-> r.outerMaximum, index |-> r.index, low |-> r.low,
                high |-> r.high, currentEmpty |-> r.currentEmpty,
                emptyRepeatBlocked |-> r.emptyRepeatBlocked]
    BY DEF RegionRecords
  <1>2. t = [outer |-> r.outer + 1, outerMaximum |-> r.outerMaximum + 1, index |-> r.index, low |-> r.low,
             high |-> r.high, currentEmpty |-> r.currentEmpty,
             emptyRepeatBlocked |-> r.emptyRepeatBlocked]
    BY <1>1
  <1>3. r.outer + 1 \in Nat /\ r.outerMaximum + 1 \in Nat
    BY <1>1
  <1> QED
    BY <1>1, <1>2, <1>3 DEF RegionRecords

LEMMA PastParticleSound ==
  ASSUME program \in Programs, NEW w \in Seq(SUBSET Nat), NEW r \in Sound(Lift(program), w), r.index # End
  PROVE  PastParticle(r) \in Seq(Fresh(Lift(program), w))
  <1> DEFINE l == Lift(program)
             S == Fresh(l, w)
             least == program.particles[r.index].min
             K == {o \in Over(r) : At(r.high, o) >= least}
             skipped == WhereAtLeast(r, r.high, least)
             next(s) == Restarted(s, s.index + 1)
             pass(s) == IF next(s).index = End /\ ~ next(s).currentEmpty
                          THEN [next(s) EXCEPT !.outer = @ + 1, !.outerMaximum = @ + 1]
                          ELSE next(s)
             more == PastParticle(r)
  <1>1. /\ r \in Regions /\ End = EndOf(l) /\ EndOf(l) \in Nat /\ r.index \in 1 .. EndOf(l) - 1
        /\ \A o \in Over(r) : /\ At(r.high, o) \in Int /\ At(r.high, o) >= 0
                              /\ Reachable(l, w, r.index, At(r.high, o))
        /\ r.high \in Lines
    <2>1. End = EndOf(l) /\ IsLifted(l)
      BY Lifting DEF End, EndOf
    <2> HIDE DEF l
    <2>2. /\ r \in Regions /\ r.index \in 1 .. EndOf(l)
          /\ \A o \in Over(r) : /\ At(r.high, o) \in Int /\ At(r.high, o) >= 0
                                /\ Reachable(l, w, r.index, At(r.high, o))
      BY SoundFields DEF l
    <2>3. r.index \in 1 .. EndOf(l) - 1
      BY <2>1, <2>2 DEF IsLifted
    <2> QED
      BY <2>1, <2>2, <2>3, RegionFields DEF IsLifted
  <1>2. least = l.particles[r.index].min /\ least \in Int
    <2>1. r.index \in DOMAIN program.particles
      BY <1>1, Lifting, ProgramFacts
    <2>2. least \in Nat
      BY <2>1, ProgramFacts
    <2>3. l.particles[r.index].min = least
      BY <2>1, Lifting
    <2> QED
      BY <2>2, <2>3
  <1>3. more = [i \in DOMAIN skipped |-> pass(skipped[i])]
    BY DEF PastParticle
  <1>4. skipped \in Seq(Cut(r, K))
    <2> HIDE DEF least
    <2>1. Restricts(skipped, r, K)
      BY <1>1, <1>2, WhereRestricts
    <2> HIDE DEF skipped, K
    <2> QED
      BY <2>1, RestrictedSeq
  <1>5. ASSUME NEW s \in Cut(r, K) PROVE pass(s) \in S
    <2>1. /\ s \in Regions /\ s.index = r.index /\ s.high = r.high /\ Over(s) \subseteq Over(r)
          /\ Over(s) = K
      BY DEF Cut, Part
    <2>2. s.outer \in Over(r) /\ At(r.high, s.outer) >= least
      <3>1. s.outer \in K
        BY <2>1, RegionFields
      <3> QED
        BY <3>1
    <2>3. Reachable(l, w, r.index + 1, 0)
      <3>1. /\ At(r.high, s.outer) \in Int /\ At(r.high, s.outer) >= 0
            /\ Reachable(l, w, r.index, At(r.high, s.outer))
        BY <1>1, <2>2
      <3>2. IsLifted(l) /\ Reached(l, w) \subseteq States
        <4>1. IsLifted(l)
          BY Lifting
        <4> HIDE DEF l
        <4>2. Reached(l, w) \subseteq States
          BY ReachedMore
        <4> QED
          BY <4>1, <4>2
      <3> HIDE DEF l, least
      <3>3. PICK q \in Reached(l, w) : Stand(l, q, r.index, At(r.high, s.outer))
        BY <3>1 DEF Reachable
      <3>4. q \in States /\ At(r.high, s.outer) >= l.particles[r.index].min
        BY <1>2, <2>2, <3>2, <3>3
      <3>5. Stand(l, q, r.index + 1, 0)
        BY <1>1, <3>1, <3>2, <3>3, <3>4, StandPasses
      <3> QED
        BY <3>3, <3>5 DEF Reachable
    <2>4. r.index + 1 \in 1 .. EndOf(l) /\ r.index + 1 \in Nat
      BY <1>1
    <2>5. s \in RegionRecords /\ s.outer <= s.outerMaximum /\ Constant(0) \in Lines
      BY <2>1, ConstantLine DEF Regions, RegionRecords
    <2>6. /\ next(s) \in RegionRecords /\ next(s).outer = s.outer /\ next(s).outerMaximum = s.outerMaximum
          /\ next(s).low = Constant(0) /\ next(s).high = Constant(0) /\ next(s).index = r.index + 1
      BY <2>1, <2>4, <2>5 DEF Restarted, RegionRecords
    <2> HIDE DEF next
    <2>7. /\ pass(s) \in RegionRecords /\ pass(s).outer <= pass(s).outerMaximum
          /\ pass(s).low = Constant(0) /\ pass(s).high = Constant(0) /\ pass(s).index = r.index + 1
      <3>1. CASE next(s).index = End /\ ~ next(s).currentEmpty
        <4> DEFINE t == [next(s) EXCEPT !.outer = @ + 1, !.outerMaximum = @ + 1]
        <4>1. pass(s) = t
          BY <3>1
        <4>2. /\ t \in RegionRecords /\ t.outer = s.outer + 1 /\ t.outerMaximum = s.outerMaximum + 1
              /\ t.low = Constant(0) /\ t.high = Constant(0) /\ t.index = r.index + 1
          BY <2>6, ShiftedRecord
        <4>3. s.outer + 1 <= s.outerMaximum + 1
          BY <2>5 DEF RegionRecords
        <4> HIDE DEF t, pass
        <4> QED
          BY <4>1, <4>2, <4>3
      <3>2. CASE ~ (next(s).index = End /\ ~ next(s).currentEmpty)
        <4>1. pass(s) = next(s)
          BY <3>2
        <4> HIDE DEF pass
        <4> QED
          BY <2>5, <2>6, <4>1
      <3> QED
        BY <3>1, <3>2
    <2> HIDE DEF pass, l
    <2> QED
      BY <2>3, <2>4, <2>7, SoundEmpty
  <1> HIDE DEF pass, skipped, S, more, K
  <1>6. /\ more = [i \in DOMAIN skipped |-> more[i]]
        /\ \A i \in DOMAIN skipped : skipped[i] \in Cut(r, K) => more[i] \in S
    BY <1>3, <1>5
  <1>7. more \in Seq(S)
    BY <1>4, <1>6, Mapped
  <1> QED
    BY <1>7 DEF more, S

LEMMA SuccessorsSound ==
  ASSUME program \in Programs, NEW w \in Seq(SUBSET Nat), NEW r \in Sound(Lift(program), w)
  PROVE  Successors(r) \in Seq(Fresh(Lift(program), w))
  <1>1. CASE r.index = End
    BY <1>1, NextIterationSound DEF Successors
  <1>2. CASE r.index # End
    <2>1. /\ BeforeIteration(r) \in Seq(Fresh(Lift(program), w))
          /\ PastParticle(r) \in Seq(Fresh(Lift(program), w))
      BY <1>2, BeforeIterationSound, PastParticleSound
    <2>2. BeforeIteration(r) \o PastParticle(r) \in Seq(Fresh(Lift(program), w))
      BY <2>1, Joined
    <2> QED
      BY <1>2, <2>2 DEF Successors
  <1> QED
    BY <1>1, <1>2

-----------------------------------------------------------------------------
(* One more element of a particle.                                         *)
Counted(l, w, i) == {s \in Regions : s.index = i /\ \A o \in Over(s) : Counts(l, w, i, At(s.high, o))}

LEMMA ReachedStates ==
  ASSUME NEW p, NEW w \in Seq(SUBSET Nat)
  PROVE  Reached(p, w) \subseteq States
  <1>1. {} \in SUBSET Nat
    OBVIOUS
  <1> QED
    BY <1>1, ReachedMore

LEMMA SoundCounts ==
  ASSUME NEW l, IsLifted(l), NEW w \in Seq(SUBSET Nat), NEW r \in Sound(l, w), r.index # EndOf(l),
         NEW o \in Over(r), NEW h \in Int, h >= 1, h <= At(r.high, o) + 1
  PROVE  Counts(l, w, r.index, h)
  <1>1. /\ r.index \in 1 .. EndOf(l) /\ At(r.high, o) \in Int /\ At(r.high, o) >= 0
        /\ Reachable(l, w, r.index, At(r.high, o))
    BY SoundFields
  <1>2. r.index \in 1 .. EndOf(l) - 1
    BY <1>1 DEF IsLifted
  <1>3. PICK q \in Reached(l, w) : Stand(l, q, r.index, At(r.high, o))
    BY <1>1 DEF Reachable
  <1>4. q \in States
    <2>1. Reached(l, w) \subseteq States
      BY ReachedStates
    <2> QED
      BY <1>3, <2>1
  <1>5. PICK s \in Take(l, q, r.index) : s.at = r.index /\ s.count >= At(r.high, o) + 1
    BY <1>1, <1>2, <1>3, <1>4, StandCounts
  <1>6. s.count \in Int
    <2>1. s \in States
      BY <1>2, <1>4, <1>5, TakeStates
    <2> QED
      BY <2>1 DEF States
  <1>7. s.count >= h
    BY <1>1, <1>5, <1>6
  <1> QED
    BY <1>3, <1>5, <1>7 DEF Counts

LEMMA CountedFits ==
  ASSUME NEW l, IsLifted(l), NEW w \in Seq(SUBSET Nat), NEW r \in Sound(l, w), r.index # EndOf(l),
         NEW s \in Regions, Part(s, r),
         NEW t, t = [s EXCEPT !.low = Plus(@, 1), !.high = Plus(@, 1)]
  PROVE  t \in Counted(l, w, r.index)
  <1>1. /\ s.low \in Lines /\ s.high \in Lines /\ Over(s) \subseteq Int
        /\ \A o \in Over(s) : At(s.low, o) <= At(s.high, o)
    BY RegionFields
  <1>2. /\ Plus(s.low, 1) \in Lines /\ Plus(s.high, 1) \in Lines
        /\ \A o \in Over(s) : /\ At(Plus(s.low, 1), o) = At(s.low, o) + 1
                              /\ At(Plus(s.high, 1), o) = At(s.high, o) + 1
    BY <1>1, PlusLine
  <1>3. /\ t \in RegionRecords /\ t.outer = s.outer /\ t.outerMaximum = s.outerMaximum /\ t.index = s.index
        /\ t.low = Plus(s.low, 1) /\ t.high = Plus(s.high, 1)
    BY <1>2 DEF Regions, RegionRecords
  <1>4. Over(t) = Over(s) /\ s.outer <= s.outerMaximum
    BY <1>3 DEF Over, Regions
  <1>5. \A o \in Over(s) : At(s.low, o) \in Int /\ At(s.high, o) \in Int
    BY <1>1, AtInt
  <1>6. \A o \in Over(t) : At(t.low, o) <= At(t.high, o)
    BY <1>1, <1>2, <1>3, <1>4, <1>5
  <1>7. t \in Regions
    BY <1>3, <1>4, <1>6 DEF Regions, RegionRecords
  <1>8. ASSUME NEW o \in Over(t) PROVE Counts(l, w, r.index, At(t.high, o))
    <2>1. o \in Over(r) /\ At(s.high, o) = At(r.high, o)
      BY <1>4 DEF Part
    <2>2. At(t.high, o) = At(r.high, o) + 1 /\ At(r.high, o) \in Int
      BY <1>2, <1>3, <1>4, <1>5, <2>1
    <2>3. At(r.high, o) >= 0
      BY <2>1, SoundFields
    <2>4. At(t.high, o) \in Int /\ At(t.high, o) >= 1 /\ At(t.high, o) <= At(r.high, o) + 1
      BY <2>2, <2>3
    <2> QED
      BY <2>1, <2>4, SoundCounts
  <1> QED
    BY <1>3, <1>7, <1>8 DEF Counted, Part

LEMMA CutFits ==
  ASSUME NEW l, IsLifted(l), NEW w \in Seq(SUBSET Nat), NEW r \in Sound(l, w), r.index # EndOf(l),
         NEW s \in Regions, Part(s, r), NEW maximum \in Nat, maximum >= 1,
         \A o \in Over(s) : At(s.low, o) <= maximum - 1 /\ At(s.high, o) >= maximum,
         NEW t, t = [s EXCEPT !.low = Plus(@, 1), !.high = Constant(maximum)]
  PROVE  t \in Counted(l, w, r.index)
  <1>1. s.low \in Lines /\ s.high \in Lines /\ Over(s) \subseteq Int
    BY RegionFields
  <1>2. /\ Plus(s.low, 1) \in Lines /\ Constant(maximum) \in Lines
        /\ \A o \in Over(s) : /\ At(Plus(s.low, 1), o) = At(s.low, o) + 1
                              /\ At(Constant(maximum), o) = maximum
    BY <1>1, PlusLine, ConstantLine
  <1>3. /\ t \in RegionRecords /\ t.outer = s.outer /\ t.outerMaximum = s.outerMaximum /\ t.index = s.index
        /\ t.low = Plus(s.low, 1) /\ t.high = Constant(maximum)
    BY <1>2 DEF Regions, RegionRecords
  <1>4. Over(t) = Over(s) /\ s.outer <= s.outerMaximum
    BY <1>3 DEF Over, Regions
  <1>5. \A o \in Over(s) : At(s.low, o) \in Int /\ At(s.high, o) \in Int
    BY <1>1, AtInt
  <1>6. \A o \in Over(t) : At(t.low, o) <= At(t.high, o)
    BY <1>2, <1>3, <1>4, <1>5
  <1>7. t \in Regions
    BY <1>3, <1>4, <1>6 DEF Regions, RegionRecords
  <1>8. ASSUME NEW o \in Over(t) PROVE Counts(l, w, r.index, At(t.high, o))
    <2>1. o \in Over(r) /\ At(s.high, o) = At(r.high, o)
      BY <1>4 DEF Part
    <2>2. At(t.high, o) = maximum /\ At(r.high, o) \in Int
      BY <1>2, <1>3, <1>4, <1>5, <2>1
    <2>3. At(r.high, o) >= maximum
      BY <1>4, <2>1
    <2>4. At(t.high, o) \in Int /\ At(t.high, o) >= 1 /\ At(t.high, o) <= At(r.high, o) + 1
      BY <2>2, <2>3
    <2> QED
      BY <2>1, <2>4, SoundCounts
  <1> QED
    BY <1>3, <1>7, <1>8 DEF Counted, Part

(* A part of a region whose lowest count is below the maximum: where the   *)
(* highest is, too, and where it is not.                                   *)
CountOne(s) == [s EXCEPT !.low = Plus(@, 1), !.high = Plus(@, 1)]
CutOff(s, maximum) == [s EXCEPT !.low = Plus(@, 1), !.high = Constant(maximum)]
WithRoom(s, maximum) == WhereAtMost(s, s.high, maximum - 1)
WithoutRoom(s, maximum) == WhereAtLeast(s, s.high, maximum)
Free(s, maximum) == [i \in DOMAIN WithRoom(s, maximum) |-> CountOne(WithRoom(s, maximum)[i])]
Bound(s, maximum) == [i \in DOMAIN WithoutRoom(s, maximum) |-> CutOff(WithoutRoom(s, maximum)[i], maximum)]

Lowest(r, maximum) == {o \in Over(r) : At(r.low, o) <= maximum - 1}

LEMMA SegmentCounted ==
  ASSUME NEW l, IsLifted(l), NEW w \in Seq(SUBSET Nat), NEW r \in Sound(l, w), r.index # EndOf(l),
         NEW maximum \in Nat, maximum >= 1, NEW s \in Cut(r, Lowest(r, maximum))
  PROVE  /\ Free(s, maximum) \in Seq(Counted(l, w, r.index))
         /\ Bound(s, maximum) \in Seq(Counted(l, w, r.index))
  <1> DEFINE C == Counted(l, w, r.index)
             B == {o \in Over(s) : At(s.high, o) <= maximum - 1}
             R == {o \in Over(s) : At(s.high, o) >= maximum}
             x == WithRoom(s, maximum)
             y == WithoutRoom(s, maximum)
             f == Free(s, maximum)
             g == Bound(s, maximum)
  <1>1. s \in Regions /\ Part(s, r) /\ \A o \in Over(s) : At(s.low, o) <= maximum - 1
    BY DEF Cut, Part, Lowest
  <1>2. s.high \in Lines /\ maximum \in Int /\ maximum - 1 \in Int
    BY <1>1, RegionFields
  <1>3. x \in Seq(Cut(s, B)) /\ y \in Seq(Cut(s, R))
    <2>1. Restricts(x, s, B) /\ Restricts(y, s, R)
      BY <1>1, <1>2, WhereRestricts DEF WithRoom, WithoutRoom
    <2> HIDE DEF x, y, B, R
    <2> QED
      BY <2>1, RestrictedSeq
  <1>4. ASSUME NEW t \in Cut(s, B) PROVE CountOne(t) \in C
    <2>1. t \in Regions /\ Part(t, r)
      BY <1>1 DEF Cut, Part
    <2> QED
      BY <2>1, CountedFits DEF CountOne
  <1>5. ASSUME NEW t \in Cut(s, R) PROVE CutOff(t, maximum) \in C
    <2>1. t \in Regions /\ Part(t, r)
      BY <1>1 DEF Cut, Part
    <2>2. \A o \in Over(t) : At(t.low, o) <= maximum - 1 /\ At(t.high, o) >= maximum
      BY <1>1 DEF Cut, Part
    <2> QED
      BY <2>1, <2>2, CutFits DEF CutOff
  <1>6. f = [i \in DOMAIN x |-> CountOne(x[i])] /\ g = [i \in DOMAIN y |-> CutOff(y[i], maximum)]
    BY DEF Free, Bound
  <1> HIDE DEF x, y, f, g, B, R, C
  <1>7. /\ f = [i \in DOMAIN x |-> f[i]] /\ \A i \in DOMAIN x : x[i] \in Cut(s, B) => f[i] \in C
        /\ g = [i \in DOMAIN y |-> g[i]] /\ \A i \in DOMAIN y : y[i] \in Cut(s, R) => g[i] \in C
    BY <1>4, <1>5, <1>6
  <1>8. f \in Seq(C)
    BY <1>3, <1>7, Mapped
  <1>9. g \in Seq(C)
    BY <1>3, <1>7, Mapped
  <1> QED
    BY <1>8, <1>9 DEF f, g, C

(* Consume, part by part.                                                  *)
Opened(r, maximum) == WhereAtMost(r, r.low, maximum - 1)
Segmented(r, maximum) ==
  [i \in DOMAIN Opened(r, maximum) |-> Free(Opened(r, maximum)[i], maximum) \o Bound(Opened(r, maximum)[i], maximum)]

LEMMA ConsumeSegments ==
  ASSUME NEW l, IsLifted(l), NEW w \in Seq(SUBSET Nat), NEW r \in Sound(l, w), r.index # EndOf(l),
         NEW maximum \in Nat, maximum >= 1, maximum # Unbounded
  PROVE  /\ Opened(r, maximum) \in Seq(Cut(r, Lowest(r, maximum)))
         /\ Segmented(r, maximum) \in Seq(Seq(Counted(l, w, r.index)))
         /\ Consume(r, maximum) = FlattenSeq(Segmented(r, maximum))
  <1> DEFINE C == Counted(l, w, r.index)
             K == Lowest(r, maximum)
             open == Opened(r, maximum)
             each == Segmented(r, maximum)
  <1>1. r \in Regions /\ r.low \in Lines /\ maximum - 1 \in Int
    BY SoundFields, RegionFields
  <1>2. Consume(r, maximum) = FlattenSeq(each)
    BY DEF Consume, ConcatMap, Segmented, Opened, Free, Bound, WithRoom, WithoutRoom, CountOne, CutOff
  <1>3. open \in Seq(Cut(r, K))
    <2>1. Restricts(open, r, K)
      BY <1>1, WhereRestricts DEF Opened, Lowest
    <2> HIDE DEF open, K
    <2> QED
      BY <2>1, RestrictedSeq
  <1>4. ASSUME NEW s \in Cut(r, K) PROVE Free(s, maximum) \o Bound(s, maximum) \in Seq(C)
    <2>1. Free(s, maximum) \in Seq(C) /\ Bound(s, maximum) \in Seq(C)
      BY SegmentCounted
    <2> HIDE DEF C
    <2> QED
      BY <2>1, Joined
  <1>5. each = [i \in DOMAIN open |-> Free(open[i], maximum) \o Bound(open[i], maximum)]
    BY DEF Segmented
  <1> HIDE DEF open, K, C, each
  <1>6. /\ each = [i \in DOMAIN open |-> each[i]]
        /\ \A i \in DOMAIN open : open[i] \in Cut(r, K) => each[i] \in Seq(C)
    BY <1>4, <1>5
  <1>7. each \in Seq(Seq(C))
    BY <1>3, <1>6, Mapped
  <1> QED
    BY <1>2, <1>3, <1>7 DEF each, open, K, C

LEMMA ConsumeCounted ==
  ASSUME NEW l, IsLifted(l), NEW w \in Seq(SUBSET Nat), NEW r \in Sound(l, w), r.index # EndOf(l),
         NEW maximum, maximum # Unbounded => maximum \in Nat /\ maximum >= 1
  PROVE  Consume(r, maximum) \in Seq(Counted(l, w, r.index))
  <1> DEFINE C == Counted(l, w, r.index)
  <1>1. CASE maximum = Unbounded
    <2>1. Consume(r, maximum) = <<CountOne(r)>>
      BY <1>1 DEF Consume, CountOne
    <2>2. r \in Regions /\ Part(r, r)
      BY SoundFields DEF Part
    <2>3. CountOne(r) \in C
      BY <2>2, CountedFits DEF CountOne
    <2> HIDE DEF C
    <2>4. <<CountOne(r)>> \in Seq(C)
      BY <2>3
    <2> QED
      BY <2>1, <2>4 DEF C
  <1>2. CASE maximum # Unbounded
    <2> DEFINE each == Segmented(r, maximum)
    <2>1. each \in Seq(Seq(C)) /\ Consume(r, maximum) = FlattenSeq(each)
      BY <1>2, ConsumeSegments
    <2> HIDE DEF each, C
    <2>2. FlattenSeq(each) \in Seq(C)
      BY <2>1, FlattenDeals
    <2> QED
      BY <2>1, <2>2 DEF C
  <1> QED
    BY <1>1, <1>2

-----------------------------------------------------------------------------
(* The regions that fit a child, what a child makes of them, and what      *)
(* compaction leaves.                                                      *)
LEMMA FitFields ==
  ASSUME NEW l, IsLifted(l), NEW w, NEW n, NEW r \in Fit(l, w, n)
  PROVE  /\ r \in Regions /\ r.index \in 1 .. EndOf(l) - 1 /\ r.index \in 1 .. EndOf(l)
         /\ l.particles[r.index].name = n
         /\ \A o \in Over(r) : Counts(l, w, r.index, At(r.high, o))
  BY DEF Fit, IsLifted

(* What of one region fits a child.                                        *)
FitOf(r, n) ==
  LET next == Consume(r, program.particles[r.index].max) IN
  IF r.index = End \/ program.particles[r.index].name # n THEN <<>>
  ELSE [i \in DOMAIN next |-> [next[i] EXCEPT !.currentEmpty = FALSE, !.emptyRepeatBlocked = FALSE]]

LEMMA FitSeq ==
  ASSUME program \in Programs, NEW w \in Seq(SUBSET Nat), NEW n, NEW r \in Sound(Lift(program), w)
  PROVE  FitOf(r, n) \in Seq(Fit(Lift(program), w, n))
  <1> DEFINE l == Lift(program)
             F == Fit(l, w, n)
             next == Consume(r, program.particles[r.index].max)
             plain(s) == [s EXCEPT !.currentEmpty = FALSE, !.emptyRepeatBlocked = FALSE]
             fit == FitOf(r, n)
  <1>0. IsLifted(l) /\ End = EndOf(l)
    BY Lifting DEF End, EndOf
  <1>1. CASE r.index = End \/ program.particles[r.index].name # n
    <2>1. fit = <<>>
      BY <1>1 DEF FitOf
    <2> HIDE DEF fit, F
    <2>2. fit \in Seq(F)
      BY <2>1, EmptySeq
    <2> QED
      BY <2>2 DEF fit, F
  <1>2. CASE ~ (r.index = End \/ program.particles[r.index].name # n)
    <2> DEFINE x == next
               f == fit
               C == Counted(l, w, r.index)
    <2>1. f = [i \in DOMAIN x |-> plain(x[i])]
      BY <1>2 DEF FitOf
    <2>2. r.index \in 1 .. EndOf(l)
      BY SoundFields
    <2>3. r.index \in DOMAIN program.particles /\ r.index \in 1 .. EndOf(l) - 1
      <3>1. EndOf(l) = EndOf(program)
        BY Lifting
      <3> HIDE DEF l
      <3>2. r.index \in 1 .. EndOf(l) - 1
        BY <1>0, <1>2, <2>2 DEF IsLifted
      <3> QED
        BY <3>1, <3>2, ProgramFacts
    <2>4. /\ program.particles[r.index].max # Unbounded
               => program.particles[r.index].max \in Nat /\ program.particles[r.index].max >= 1
          /\ l.particles[r.index].name = n
      <3>1. l.particles[r.index].name = program.particles[r.index].name
        BY <2>3, Lifting
      <3> HIDE DEF l
      <3> QED
        BY <1>2, <2>3, <3>1, ProgramFacts
    <2>5. x \in Seq(C)
      <3>1. r \in Sound(l, w)
        OBVIOUS
      <3>2. r.index # EndOf(l)
        BY <1>0, <1>2
      <3> HIDE DEF l
      <3> QED
        BY <1>0, <2>4, <3>1, <3>2, ConsumeCounted
    <2>6. ASSUME NEW s \in C PROVE plain(s) \in F
      <3> HIDE DEF l
      <3>1. s \in Regions /\ s.index = r.index /\ \A o \in Over(s) : Counts(l, w, r.index, At(s.high, o))
        BY DEF Counted
      <3>2. /\ plain(s) \in RegionRecords /\ plain(s).outer = s.outer
            /\ plain(s).outerMaximum = s.outerMaximum /\ plain(s).index = s.index
            /\ plain(s).low = s.low /\ plain(s).high = s.high /\ plain(s).currentEmpty = FALSE
        BY <3>1 DEF Regions, RegionRecords
      <3> HIDE DEF plain
      <3>3. Over(plain(s)) = Over(s)
        BY <3>2 DEF Over
      <3>4. plain(s) \in Regions
        <4>1. s.outer <= s.outerMaximum /\ \A o \in Over(s) : At(s.low, o) <= At(s.high, o)
          BY <3>1, RegionFields
        <4> QED
          BY <3>2, <3>3, <4>1 DEF Regions, RegionRecords
      <3> QED
        BY <2>3, <2>4, <3>1, <3>2, <3>3, <3>4 DEF Fit
    <2> HIDE DEF fit, x, C, F, plain
    <2>7. f = [i \in DOMAIN x |-> f[i]] /\ \A i \in DOMAIN x : x[i] \in C => f[i] \in F
      BY <2>1, <2>6
    <2>8. f \in Seq(F)
      BY <2>5, <2>7, Mapped
    <2> QED
      BY <2>8 DEF fit, F
  <1> QED
    BY <1>1, <1>2

LEMMA FittingFit ==
  ASSUME program \in Programs, NEW w \in Seq(SUBSET Nat), NEW q \in Seq(Sound(Lift(program), w)), NEW n
  PROVE  /\ Fitting(q, n) \in Seq(Fit(Lift(program), w, n))
         /\ \E each \in Seq(Seq(Fit(Lift(program), w, n))) :
              each = [i \in DOMAIN q |-> FitOf(q[i], n)] /\ Fitting(q, n) = FlattenSeq(each)
  <1> DEFINE F == Fit(Lift(program), w, n)
             S == Sound(Lift(program), w)
             each == [i \in DOMAIN q |-> FitOf(q[i], n)]
  <1>1. Fitting(q, n) = FlattenSeq(each)
    BY DEF Fitting, ConcatMap, FitOf
  <1>2. \A i \in DOMAIN q : q[i] \in S => FitOf(q[i], n) \in Seq(F)
    BY FitSeq
  <1> HIDE DEF F, S
  <1>3. each = [i \in DOMAIN q |-> each[i]] /\ \A i \in DOMAIN q : q[i] \in S => each[i] \in Seq(F)
    BY <1>2
  <1>4. q \in Seq(S) /\ each = [i \in DOMAIN q |-> FitOf(q[i], n)]
    BY DEF S
  <1> HIDE DEF each
  <1>5. each \in Seq(Seq(F))
    BY <1>3, <1>4, Mapped
  <1>6. FlattenSeq(each) \in Seq(F)
    BY <1>5, FlattenDeals
  <1> QED
    BY <1>1, <1>4, <1>5, <1>6 DEF F

LEMMA FitEnds ==
  ASSUME NEW l, IsLifted(l), NEW w \in Seq(SUBSET Nat), NEW a \in SUBSET Nat, NEW n,
         NEW r \in Fit(l, w, n), r.index \in a
  PROVE  /\ r \in Sound(l, Append(w, a))
         /\ \E q \in Reached(l, Append(w, a)) : q.at = r.index
  <1> DEFINE v == Append(w, a)
  <1>1. /\ r \in Regions /\ r.index \in 1 .. EndOf(l) - 1 /\ r.index \in 1 .. EndOf(l)
        /\ \A o \in Over(r) : Counts(l, w, r.index, At(r.high, o))
    BY FitFields
  <1>2. Reached(l, v) = UNION {Take(l, q, j) : q \in Reached(l, w), j \in a}
    BY ReachedMore
  <1> HIDE DEF v
  <1>3. r.index # EndOf(l)
    BY <1>1 DEF IsLifted
  <1>4. ASSUME NEW o \in Over(r)
        PROVE  /\ At(r.high, o) >= 0
               /\ \E s \in Reached(l, v) : s.at = r.index /\ Stand(l, s, r.index, At(r.high, o))
    <2>1. At(r.high, o) \in Int
      <3>1. r.high \in Lines /\ o \in Int
        BY <1>1, RegionFields
      <3> QED
        BY <3>1, AtInt
    <2>2. At(r.high, o) >= 1
      BY <1>1 DEF Counts
    <2>3. PICK q \in Reached(l, w) : \E s \in Take(l, q, r.index) : s.at = r.index /\ s.count >= At(r.high, o)
      BY <1>1 DEF Counts
    <2>4. PICK s \in Take(l, q, r.index) : s.at = r.index /\ s.count >= At(r.high, o)
      BY <2>3
    <2>5. s \in Reached(l, v)
      BY <1>2, <2>3, <2>4
    <2>6. Stand(l, s, r.index, At(r.high, o))
      BY <1>3, <2>2, <2>4 DEF Stand, Stays
    <2>7. At(r.high, o) >= 0
      BY <2>1, <2>2
    <2> QED
      BY <2>4, <2>5, <2>6, <2>7
  <1>5. r \in Sound(l, v)
    BY <1>1, <1>4 DEF Sound, Reachable
  <1>6. r.outer \in Over(r)
    BY <1>1, RegionFields
  <1> QED
    BY <1>4, <1>5, <1>6 DEF v

LEMMA CompactSound ==
  ASSUME NEW l, IsLifted(l), NEW w, NEW q \in Seq(Sound(l, w))
  PROVE  Compact(q, EndOf(l)) \in Seq(Sound(l, w)) /\ Distinct(Compact(q, EndOf(l)))
  <1> DEFINE S == Sound(l, w)
             c == Compact(q, EndOf(l))
  <1>1. /\ Len(q) \in Nat /\ DOMAIN q = 1 .. Len(q) /\ \A i \in DOMAIN q : q[i] \in S
        /\ q \in [1 .. Len(q) -> S]
    BY LenProperties, ElementOfSeq
  <1>2. \A i \in DOMAIN q : q[i].index \in 1 .. EndOf(l)
    BY <1>1 DEF Sound
  <1>3. q \in Seq(Regions) /\ EndOf(l) \in Nat
    <2>1. S \subseteq Regions
      BY DEF Sound
    <2> HIDE DEF S
    <2>2. q \in Seq(Regions)
      BY <2>1, SeqMonotonic DEF S
    <2> QED
      BY <2>2 DEF IsLifted
  <1>4. /\ c \in Seq(Regions) /\ Distinct(c)
        /\ \A k \in DOMAIN c : Shadows(q, c[k])
    BY <1>2, <1>3, CompactKeeps
  <1> HIDE DEF c
  <1>5. Len(c) \in Nat /\ DOMAIN c = 1 .. Len(c) /\ \A k \in DOMAIN c : c[k] \in Regions
    BY <1>4, LenProperties, ElementOfSeq
  <1>6. ASSUME NEW k \in DOMAIN c PROVE c[k] \in S
    <2>1. c[k] \in Regions /\ Shadows(q, c[k])
      BY <1>4, <1>5
    <2>2. c[k].outer \in Over(c[k])
      BY <2>1, RegionFields
    <2>3. PICK i \in DOMAIN q : SameState(q[i], c[k])
      BY <2>1, <2>2 DEF Shadows
    <2>4. c[k].index \in 1 .. EndOf(l)
      BY <1>2, <2>3 DEF SameState
    <2>5. ASSUME NEW o \in Over(c[k])
          PROVE  At(c[k].high, o) >= 0 /\ Reachable(l, w, c[k].index, At(c[k].high, o))
      <3>1. PICK j \in DOMAIN q : SameState(q[j], c[k]) /\ o \in Over(q[j]) /\ At(q[j].high, o) = At(c[k].high, o)
        BY <2>1, <2>5 DEF Shadows
      <3>2. At(q[j].high, o) >= 0 /\ Reachable(l, w, q[j].index, At(q[j].high, o))
        BY <1>1, <3>1 DEF Sound
      <3> QED
        BY <3>1, <3>2 DEF SameState
    <2> QED
      BY <2>1, <2>4, <2>5 DEF Sound
  <1>7. c \in Seq(S)
    <2> HIDE DEF S
    <2>1. c = [k \in 1 .. Len(c) |-> c[k]]
      BY <1>4, <1>5, LenProperties
    <2>2. \A k \in 1 .. Len(c) : c[k] \in S
      BY <1>5, <1>6
    <2>3. [k \in 1 .. Len(c) |-> c[k]] \in Seq(S)
      BY <1>5, <2>2, IsASeq
    <2> QED
      BY <2>1, <2>3
  <1> QED
    BY <1>4, <1>7 DEF c

-----------------------------------------------------------------------------
(* The inductive invariant: every region the validator holds is sound for  *)
(* the children seen so far, and a code is explained by the automaton.     *)
NamesOf(p) == {p.particles[i].name : i \in DOMAIN p.particles}
DeclaringIn(p, n) == {i \in DOMAIN p.particles : p.particles[i].name = n}

(* Some run stands at an element of this name.                             *)
Attained(p, w, n) ==
  \E q \in Reached(Lift(p), w) : q.at \in DOMAIN p.particles /\ p.particles[q.at].name = n

CodesMean(p, c, n, w) ==
  /\ c = "occurrence" => Reached(Lift(p), Append(w, DeclaringIn(p, n))) # {}
  /\ c \in {"occurrence", "order"} => n \in NamesOf(p)
  /\ c = "unexpected" => n \notin NamesOf(p)

Bounded ==
  /\ program \in Programs
  /\ phase \in {"closing root", "content", "child", "closing child", "closing end",
                "accepted", "rejected"}
  /\ code \in {"none", "occurrence", "order", "unexpected", "value", "content", "missing"}
  /\ name \in NamesOf(program) \cup {Unknown} /\ previous \in NamesOf(program) \cup {NoName}
  /\ word \in Seq(SUBSET DOMAIN program.particles) /\ Len(word) <= MaxWord
  /\ phase = "child" => Len(word) < MaxWord
  /\ phase = "closing root" => word = <<>>

Followed ==
  /\ frontier \in Seq(Sound(Lift(program), word)) /\ queue \in Seq(Sound(Lift(program), word))
  /\ starts \in Seq(Sound(Lift(program), <<>>))
  /\ paths \in Seq(Fit(Lift(program), word, name))
  /\ phase \in {"content", "child", "accepted", "rejected"} => queue = <<>>
  /\ phase = "content" => Distinct(frontier)

Explained ==
  /\ CodesMean(program, code, name, word)
  /\ phase # "rejected" => code = "none"
  /\ phase # "rejected" /\ previous # NoName => Attained(program, word, previous)

IInv == Bounded /\ Followed /\ Explained

LEMMA Facts ==
  ASSUME IInv
  PROVE  /\ program \in Programs /\ IsLifted(Lift(program)) /\ End = EndOf(Lift(program))
         /\ DOMAIN program.particles = 1 .. End - 1 /\ DOMAIN program.particles \subseteq Nat
         /\ word \in Seq(SUBSET Nat) /\ Len(word) \in Nat /\ MaxWord \in Nat
  <1>1. program \in Programs /\ word \in Seq(SUBSET DOMAIN program.particles)
    BY DEF IInv, Bounded
  <1>2. IsLifted(Lift(program)) /\ End = EndOf(Lift(program)) /\ End = EndOf(program)
    BY <1>1, Lifting DEF End, EndOf
  <1>3. DOMAIN program.particles = 1 .. End - 1 /\ DOMAIN program.particles \subseteq Nat
    BY <1>1, <1>2, ProgramFacts
  <1>4. SUBSET DOMAIN program.particles \subseteq SUBSET Nat
    BY <1>3
  <1>5. word \in Seq(SUBSET Nat) /\ Len(word) \in Nat
    BY <1>1, <1>4, SeqMonotonic, LenProperties
  <1> QED
    BY <1>1, <1>2, <1>3, <1>5, SequenceAssumption

LEMMA InitIInv == Init => IInv
  <1> SUFFICES ASSUME Init PROVE IInv
    OBVIOUS
  <1> DEFINE l == Lift(program)
  <1>1. program \in Programs /\ IsLifted(l) /\ MaxWord \in Nat
    BY Lifting, SequenceAssumption DEF Init
  <1> HIDE DEF l
  <1>2. Bounded
    <2>1. word = <<>> /\ <<>> \in Seq(SUBSET DOMAIN program.particles) /\ Len(<<>>) = 0
      BY EmptySeq DEF Init
    <2>2. Len(word) <= MaxWord
      BY <1>1, <2>1
    <2> QED
      BY <2>1, <2>2 DEF Bounded, Init
  <1>3. Followed
    <2>1. Initial \in Sound(l, <<>>)
      BY <1>1, InitialSound DEF Fresh
    <2>2. <<Initial>> \in Seq(Sound(l, <<>>)) /\ <<>> \in Seq(Sound(l, <<>>))
      BY <2>1, EmptySeq
    <2>3. <<>> \in Seq(Fit(l, word, name))
      BY EmptySeq
    <2>4. queue \in Seq(Sound(l, <<>>))
      BY <2>2 DEF Init
    <2> QED
      BY <2>2, <2>3, <2>4 DEF Followed, Init, l
  <1>4. Explained
    BY DEF Explained, Init, CodesMean
  <1> QED
    BY <1>2, <1>3, <1>4 DEF IInv

-----------------------------------------------------------------------------
LEMMA CloseRegionKeeps == IInv /\ CloseRegion => IInv'
  <1> SUFFICES ASSUME IInv, CloseRegion PROVE IInv'
    OBVIOUS
  <1> DEFINE l == Lift(program)
             S == Sound(l, word)
             r == Head(queue)
  <1>1. /\ program \in Programs /\ word \in Seq(SUBSET Nat)
        /\ frontier \in Seq(S) /\ queue \in Seq(S) /\ queue # <<>>
    BY Facts DEF IInv, Followed, CloseRegion
  <1>2. /\ \/ frontier' = frontier /\ queue' = Tail(queue)
           \/ frontier' = Append(frontier, r) /\ queue' = Tail(queue) \o Successors(r)
        /\ UNCHANGED <<program, phase, paths, name, previous, starts, code, word>>
        /\ phase \in {"closing root", "closing child", "closing end"}
    BY DEF CloseRegion, Closing
  <1>3. r \in S /\ Tail(queue) \in Seq(S)
    <2> HIDE DEF S
    <2> QED
      BY <1>1, HeadTailProperties
  <1> HIDE DEF r
  <1>4. Successors(r) \in Seq(S)
    <2>1. Successors(r) \in Seq(Fresh(l, word))
      BY <1>1, <1>3, SuccessorsSound
    <2>2. Fresh(l, word) \subseteq S
      BY DEF Fresh
    <2> HIDE DEF S, l
    <2> QED
      BY <2>1, <2>2, SeqMonotonic
  <1> HIDE DEF S, l
  <1>5. frontier' \in Seq(S) /\ queue' \in Seq(S)
    <2>1. Tail(queue) \o Successors(r) \in Seq(S)
      BY <1>3, <1>4, Joined
    <2>2. Append(frontier, r) \in Seq(S)
      BY <1>1, <1>3, AppendProperties
    <2> QED
      BY <1>1, <1>2, <1>3, <2>1, <2>2
  <1>6. Bounded'
    BY <1>2 DEF IInv, Bounded
  <1>7. Followed'
    BY <1>2, <1>5 DEF IInv, Followed, S, l
  <1>8. Explained'
    BY <1>2 DEF IInv, Explained
  <1> QED
    BY <1>6, <1>7, <1>8 DEF IInv

LEMMA ClosedKeeps == IInv /\ Closed => IInv'
  <1> SUFFICES ASSUME IInv, Closed PROVE IInv'
    OBVIOUS
  <1> DEFINE l == Lift(program)
             S == Sound(l, word)
  <1>1. IsLifted(l) /\ End = EndOf(l) /\ frontier \in Seq(S)
    BY Facts DEF IInv, Followed
  <1>2. /\ phase \in {"closing root", "closing child"} /\ queue = <<>>
        /\ frontier' = Compact(frontier, End) /\ phase' = "content"
        /\ starts' = IF phase = "closing root" THEN frontier' ELSE starts
        /\ UNCHANGED <<program, queue, paths, name, previous, code, word>>
    BY DEF Closed
  <1>3. frontier' \in Seq(S) /\ Distinct(frontier')
    <2> HIDE DEF l
    <2> QED
      BY <1>1, <1>2, CompactSound
  <1>4. starts' \in Seq(Sound(l, <<>>))
    <2> HIDE DEF l
    <2>1. phase = "closing root" => word = <<>>
      BY DEF IInv, Bounded
    <2>2. starts \in Seq(Sound(l, <<>>))
      BY DEF IInv, Followed, l
    <2> QED
      BY <1>2, <1>3, <2>1, <2>2
  <1> HIDE DEF S, l
  <1>5. Bounded'
    BY <1>2 DEF IInv, Bounded
  <1>6. Followed'
    BY <1>2, <1>3, <1>4 DEF IInv, Followed, S, l
  <1>7. Explained'
    BY <1>2 DEF IInv, Explained
  <1> QED
    BY <1>5, <1>6, <1>7 DEF IInv

LEMMA WrongContentKeeps == IInv /\ WrongContent => IInv'
  <1> SUFFICES ASSUME IInv, WrongContent PROVE IInv'
    OBVIOUS
  <1>1. /\ phase \in {"child", "content"} /\ phase' = "rejected" /\ code' = "content"
        /\ frontier' \in {<<>>, frontier}
        /\ UNCHANGED <<program, queue, paths, name, previous, starts, word>>
    BY DEF WrongContent
  <1>2. Bounded'
    BY <1>1 DEF IInv, Bounded
  <1>3. Followed'
    <2>1. <<>> \in Seq(Sound(Lift(program), word))
      BY EmptySeq
    <2> QED
      BY <1>1, <2>1 DEF IInv, Followed
  <1>4. Explained'
    BY <1>1 DEF IInv, Explained, CodesMean
  <1> QED
    BY <1>2, <1>3, <1>4 DEF IInv

LEMMA EndRootKeeps == IInv /\ EndRoot => IInv'
  <1> SUFFICES ASSUME IInv, EndRoot PROVE IInv'
    OBVIOUS
  <1>1. /\ phase = "content" /\ phase' = "closing end" /\ frontier' = <<>>
        /\ queue' \in {<<>>, frontier}
        /\ UNCHANGED <<program, paths, name, previous, starts, code, word>>
    BY DEF EndRoot, BeginClosure
  <1>2. Bounded'
    BY <1>1 DEF IInv, Bounded
  <1>3. Followed'
    <2>1. <<>> \in Seq(Sound(Lift(program), word))
      BY EmptySeq
    <2> QED
      BY <1>1, <2>1 DEF IInv, Followed
  <1>4. Explained'
    BY <1>1 DEF IInv, Explained
  <1> QED
    BY <1>2, <1>3, <1>4 DEF IInv

LEMMA DecideKeeps == IInv /\ Decide => IInv'
  <1> SUFFICES ASSUME IInv, Decide PROVE IInv'
    OBVIOUS
  <1> DEFINE l == Lift(program)
             S == Sound(l, word)
  <1>1. IsLifted(l) /\ End = EndOf(l) /\ frontier \in Seq(S)
    BY Facts DEF IInv, Followed
  <1>2. /\ phase = "closing end" /\ queue = <<>>
        /\ frontier' = Compact(frontier, End)
        /\ \/ phase' = "accepted" /\ code' = code
           \/ phase' = "rejected" /\ code' = "missing"
        /\ UNCHANGED <<program, queue, paths, name, previous, starts, word>>
    BY DEF Decide
  <1>3. frontier' \in Seq(S)
    <2> HIDE DEF l
    <2> QED
      BY <1>1, <1>2, CompactSound
  <1> HIDE DEF S, l
  <1>4. Bounded'
    BY <1>2 DEF IInv, Bounded
  <1>5. Followed'
    BY <1>2, <1>3 DEF IInv, Followed, S, l
  <1>6. Explained'
    BY <1>2 DEF IInv, Explained, CodesMean
  <1> QED
    BY <1>4, <1>5, <1>6 DEF IInv

-----------------------------------------------------------------------------
(* A rejected child.                                                       *)
LEMMA TakesReach ==
  ASSUME NEW l, NEW w \in Seq(SUBSET Nat), NEW a \in SUBSET Nat, NEW q \in Reached(l, w), NEW j \in a,
         Take(l, q, j) # {}
  PROVE  Reached(l, Append(w, a)) # {}
  <1>1. Reached(l, Append(w, a)) = UNION {Take(l, x, k) : x \in Reached(l, w), k \in a}
    BY ReachedMore
  <1>2. PICK t \in Take(l, q, j) : TRUE
    OBVIOUS
  <1>3. t \in UNION {Take(l, x, k) : x \in Reached(l, w), k \in a}
    BY <1>2
  <1> QED
    BY <1>1, <1>3

LEMMA AttainedTakes ==
  ASSUME NEW p \in Programs, NEW w \in Seq(SUBSET Nat), NEW n, Attained(p, w, n)
  PROVE  Reached(Lift(p), Append(w, DeclaringIn(p, n))) # {} /\ n \in NamesOf(p)
  <1> DEFINE l == Lift(p)
             a == DeclaringIn(p, n)
  <1>1. PICK q \in Reached(l, w) : q.at \in DOMAIN p.particles /\ p.particles[q.at].name = n
    BY DEF Attained
  <1>2. /\ a \in SUBSET Nat /\ q.at \in a /\ n \in NamesOf(p)
    <2>1. DOMAIN p.particles \subseteq Nat
      BY ProgramFacts
    <2> QED
      BY <1>1, <2>1 DEF DeclaringIn, NamesOf
  <1>3. l.particles[q.at].max = Unbounded
    <2>1. IsLifted(l) /\ DOMAIN p.particles = 1 .. EndOf(l) - 1
      BY Lifting, ProgramFacts
    <2> QED
      BY <1>1, <2>1 DEF IsLifted
  <1> HIDE DEF l, a
  <1>4. Take(l, q, q.at) # {}
    <2> DEFINE s == [done |-> q.done, at |-> q.at, count |-> q.count + 1]
    <2>1. s \in Take(l, q, q.at)
      BY <1>3 DEF Take, Below
    <2> QED
      BY <2>1
  <1>5. q \in Reached(l, w)
    BY <1>1 DEF l
  <1>6. Reached(l, Append(w, a)) # {}
    BY <1>2, <1>4, <1>5, TakesReach
  <1> QED
    BY <1>2, <1>6 DEF l, a

LEMMA LoopTakes ==
  ASSUME NEW p \in Programs, NEW w \in Seq(SUBSET Nat), NEW n,
         NEW q \in Reached(Lift(p), w), Loop(Lift(p), q),
         NEW s \in Fit(Lift(p), <<>>, n)
  PROVE  Reached(Lift(p), Append(w, DeclaringIn(p, n))) # {} /\ n \in NamesOf(p)
  <1> DEFINE l == Lift(p)
             a == DeclaringIn(p, n)
             i == s.index
  <1>1. IsLifted(l) /\ DOMAIN p.particles = 1 .. EndOf(l) - 1 /\ DOMAIN p.particles \subseteq Nat
    BY Lifting, ProgramFacts
  <1>2. s \in Regions /\ i \in 1 .. EndOf(l) - 1 /\ l.particles[i].name = n
        /\ \A o \in Over(s) : Counts(l, <<>>, i, At(s.high, o))
    BY <1>1, FitFields
  <1>3. i \in a /\ a \in SUBSET Nat /\ n \in NamesOf(p) /\ i # 0 /\ i \in Nat /\ i >= 1
    <2>1. p.particles[i].name = n
      BY <1>1, <1>2, Lifting
    <2>2. i \in a /\ n \in NamesOf(p) /\ a \subseteq DOMAIN p.particles
      BY <1>1, <1>2, <2>1 DEF DeclaringIn, NamesOf
    <2>3. i # 0 /\ i \in Nat /\ i >= 1
      BY <1>1, <1>2
    <2> QED
      BY <1>1, <2>2, <2>3
  <1>4. Skippable(l, 0, i)
    <2>1. s.outer \in Over(s)
      BY <1>2, RegionFields
    <2>2. Counts(l, <<>>, i, At(s.high, s.outer))
      BY <1>2, <2>1
    <2>3. Reached(l, <<>>) = {Beginning}
      BY ReachedFirst
    <2> HIDE DEF l, i
    <2>4. Take(l, Beginning, i) # {}
      BY <2>2, <2>3 DEF Counts
    <2> QED
      BY <1>3, <2>4 DEF Take, Beginning
  <1>5. q \in States /\ l.outer.max = Unbounded
    <2>1. Reached(l, w) \subseteq States
      BY ReachedStates
    <2> QED
      BY <1>1, <2>1 DEF IsLifted
  <1> HIDE DEF l, a, i
  <1>6. Take(l, q, i) # {}
    <2> DEFINE state(d) == [done |-> d, at |-> i, count |-> 1]
    <2>1. CASE q.at = 0
      <3>1. state(q.done) \in Take(l, q, i)
        BY <1>3, <1>4, <2>1 DEF Take, Enough
      <3> QED
        BY <3>1
    <2>2. CASE q.at # 0
      <3>1. Enough(l, q) /\ Skippable(l, q.at, Len(l.particles) + 1)
        BY <2>2 DEF Loop, l, EndOf
      <3>2. state(q.done + 1) \in Take(l, q, i)
        BY <1>4, <1>5, <2>2, <3>1 DEF Take, Below
      <3> QED
        BY <3>2
    <2> QED
      BY <2>1, <2>2
  <1>8. q \in Reached(l, w)
    BY DEF l
  <1>9. Reached(l, Append(w, a)) # {}
    <2>1. i \in a /\ a \in SUBSET Nat
      BY <1>3
    <2> QED
      BY <1>6, <1>8, <2>1, TakesReach
  <1> QED
    BY <1>3, <1>9 DEF l, a

LEMMA FailureExplained ==
  ASSUME IInv, phase = "content", NEW n \in NamesOf(program) \cup {Unknown}
  PROVE  /\ CodesMean(program, ChildFailureCode(n), n, word)
         /\ ChildFailureCode(n) \in {"occurrence", "order", "unexpected"}
  <1> DEFINE l == Lift(program)
             c == ChildFailureCode(n)
             Exceeded == OuterMaximumReached /\ Fitting(starts, n) # <<>>
  <1>1. /\ program \in Programs /\ word \in Seq(SUBSET Nat) /\ IsLifted(l) /\ End = EndOf(l)
        /\ Names = NamesOf(program)
    BY Facts DEF Names, NamesOf, Particles
  <1>2. /\ c = "occurrence" => Exceeded \/ n = previous
        /\ c = "order" => n \in NamesOf(program)
        /\ c = "unexpected" => n \notin NamesOf(program)
        /\ c \in {"occurrence", "order", "unexpected"}
    BY <1>1 DEF ChildFailureCode
  <1> HIDE DEF c
  <1>3. ASSUME n = previous
        PROVE  Reached(l, Append(word, DeclaringIn(program, n))) # {} /\ n \in NamesOf(program)
    <2>1. previous # NoName
      <3>1. n \in NamesOf(program) \/ n = Unknown
        OBVIOUS
      <3>2. NoName \notin NamesOf(program)
        BY <1>1, ProgramFacts DEF NamesOf
      <3>3. NoName # Unknown
        BY DEF NoName, Unknown
      <3> QED
        BY <1>3, <3>1, <3>2, <3>3
    <2>2. Attained(program, word, n)
      BY <1>3, <2>1 DEF IInv, Explained
    <2> QED
      BY <1>1, <2>2, AttainedTakes
  <1>4. ASSUME Exceeded
        PROVE  Reached(l, Append(word, DeclaringIn(program, n))) # {} /\ n \in NamesOf(program)
    <2> DEFINE S == Sound(l, word)
               f == Fitting(starts, n)
    <2>1. frontier \in Seq(S) /\ starts \in Seq(Sound(l, <<>>))
      BY DEF IInv, Followed
    <2>2. \E r \in ToSet(frontier) : r.index = End
      BY <1>4 DEF OuterMaximumReached
    <2>3. PICK r \in S : r.index = End
      <3>1. DOMAIN frontier = 1 .. Len(frontier) /\ \A k \in DOMAIN frontier : frontier[k] \in S
        <4> HIDE DEF S
        <4> QED
          BY <2>1, LenProperties, ElementOfSeq
      <3>2. \A x \in ToSet(frontier) : \E k \in DOMAIN frontier : x = frontier[k]
        BY DEF ToSet
      <3> HIDE DEF S
      <3> QED
        BY <2>2, <3>1, <3>2
    <2>4. PICK q \in Reached(l, word) : Loop(l, q)
      <3> HIDE DEF l
      <3>1. r \in Regions /\ \A o \in Over(r) : Reachable(l, word, r.index, At(r.high, o))
        BY <2>3, SoundFields
      <3>2. r.outer \in Over(r)
        BY <3>1, RegionFields
      <3>3. Reachable(l, word, EndOf(l), At(r.high, r.outer))
        BY <1>1, <2>3, <3>1, <3>2
      <3> QED
        BY <3>3 DEF Reachable, Stand
    <2>5. PICK s \in Fit(l, <<>>, n) : TRUE
      <3>1. <<>> \in Seq(SUBSET Nat)
        BY EmptySeq
      <3>2. f \in Seq(Fit(l, <<>>, n))
        BY <1>1, <2>1, <3>1, FittingFit
      <3>3. f # <<>>
        BY <1>4
      <3> HIDE DEF f, l
      <3>4. Head(f) \in Fit(l, <<>>, n)
        BY <3>2, <3>3, HeadTailProperties
      <3> QED
        BY <3>4
    <2> QED
      BY <1>1, <2>4, <2>5, LoopTakes
  <1>5. CodesMean(program, c, n, word)
    <2> HIDE DEF Exceeded
    <2> QED
      BY <1>2, <1>3, <1>4 DEF CodesMean, l
  <1> QED
    BY <1>2, <1>5 DEF c

-----------------------------------------------------------------------------
LEMMA StartChildKeeps == IInv /\ StartChild => IInv'
  <1> SUFFICES ASSUME IInv, StartChild PROVE IInv'
    OBVIOUS
  <1> DEFINE l == Lift(program)
  <1>1. /\ phase = "content" /\ Len(word) < MaxWord /\ queue = <<>>
        /\ UNCHANGED <<program, queue, previous, starts, word>>
    BY DEF StartChild, IInv, Followed
  <1>2. PICK n \in NamesOf(program) \cup {Unknown} :
          /\ name' = n /\ paths' = Fitting(frontier, n)
          /\ \/ phase' = "rejected" /\ code' = ChildFailureCode(n) /\ frontier' = <<>>
             \/ phase' = "child" /\ code' = code /\ frontier' = frontier
    BY DEF StartChild, Names, NamesOf, Particles
  <1>3. program \in Programs /\ word \in Seq(SUBSET Nat)
    BY Facts
  <1>4. frontier \in Seq(Sound(l, word)) /\ starts \in Seq(Sound(l, <<>>))
    BY DEF IInv, Followed
  <1>5. paths' \in Seq(Fit(l, word, n))
    BY <1>2, <1>3, <1>4, FittingFit
  <1>6. /\ CodesMean(program, ChildFailureCode(n), n, word)
        /\ ChildFailureCode(n) \in {"occurrence", "order", "unexpected"}
    BY <1>1, FailureExplained
  <1>7. code = "none"
    BY <1>1 DEF IInv, Explained
  <1> HIDE DEF l
  <1>8. Bounded'
    BY <1>1, <1>2, <1>6 DEF IInv, Bounded
  <1>9. Followed'
    <2>1. <<>> \in Seq(Sound(l, word))
      BY EmptySeq
    <2>2. frontier' \in Seq(Sound(l, word))
      BY <1>2, <1>4, <2>1
    <2>3. queue' \in Seq(Sound(l, word))
      BY <1>1, <2>1
    <2>4. phase' # "content"
      BY <1>2
    <2> QED
      BY <1>1, <1>2, <1>4, <1>5, <2>2, <2>3, <2>4 DEF Followed, l
  <1>10. Explained'
    <2>1. CodesMean(program, code', n, word)
      <3>1. code' = "none" => CodesMean(program, code', n, word)
        BY DEF CodesMean
      <3> QED
        BY <1>2, <1>6, <1>7, <3>1
    <2>2. phase' # "rejected" => code' = "none"
      BY <1>2, <1>7
    <2>3. previous # NoName => Attained(program, word, previous)
      BY <1>1 DEF IInv, Explained
    <2> QED
      BY <1>1, <1>2, <2>1, <2>2, <2>3 DEF Explained
  <1> QED
    BY <1>8, <1>9, <1>10 DEF IInv

(* The regions that stay valid when a child ends.                          *)
AllAt(q, a, l, v) ==
  \A k \in DOMAIN q : q[k].index \in a /\ \E t \in Reached(l, v) : t.at = q[k].index

LEMMA ValidFresh ==
  ASSUME NEW l, IsLifted(l), NEW w \in Seq(SUBSET Nat), NEW a \in SUBSET Nat, NEW n,
         NEW q \in Seq(Fit(l, w, n)), NEW K \in SUBSET DOMAIN q, \A i \in K : q[i].index \in a
  PROVE  /\ FlattenSeq(Choosing(q, K)) \in Seq(Fresh(l, Append(w, a)))
         /\ AllAt(FlattenSeq(Choosing(q, K)), a, l, Append(w, a))
  <1> DEFINE v == Append(w, a)
             S == Fresh(l, v)
             valid == FlattenSeq(Choosing(q, K))
  <1>1. /\ valid \in Seq(Fit(l, w, n))
        /\ \A k \in DOMAIN valid : \E i \in K : valid[k] = q[i]
    BY OnlyKeeps
  <1>2. /\ Len(valid) \in Nat /\ DOMAIN valid = 1 .. Len(valid)
        /\ \A k \in DOMAIN valid : valid[k] \in Fit(l, w, n) /\ valid[k].index \in a
    <2> HIDE DEF valid
    <2> QED
      BY <1>1, LenProperties, ElementOfSeq
  <1> HIDE DEF valid
  <1>3. ASSUME NEW k \in DOMAIN valid
        PROVE  valid[k] \in S /\ \E t \in Reached(l, v) : t.at = valid[k].index
    <2>1. valid[k] \in Sound(l, v) /\ \E t \in Reached(l, v) : t.at = valid[k].index
      BY <1>2, FitEnds
    <2>2. Zeroed(valid[k])
      BY <1>2 DEF Fit, Zeroed
    <2> QED
      BY <2>1, <2>2 DEF Fresh
  <1>4. valid \in Seq(S)
    <2> HIDE DEF S, v
    <2>1. valid = [k \in 1 .. Len(valid) |-> valid[k]]
      BY <1>1, <1>2, LenProperties
    <2>2. \A k \in 1 .. Len(valid) : valid[k] \in S
      BY <1>2, <1>3
    <2>3. [k \in 1 .. Len(valid) |-> valid[k]] \in Seq(S)
      BY <1>2, <2>2, IsASeq
    <2> QED
      BY <2>1, <2>3
  <1>5. AllAt(valid, a, l, v)
    BY <1>2, <1>3 DEF AllAt
  <1> QED
    BY <1>4, <1>5 DEF valid

LEMMA EndChildKeeps == IInv /\ EndChild => IInv'
  <1> SUFFICES ASSUME IInv, EndChild PROVE IInv'
    OBVIOUS
  <1> DEFINE l == Lift(program)
             D == DOMAIN program.particles
             KeptOf(a) == {i \in DOMAIN paths : paths[i].index \in a}
             validOf(a) == FlattenSeq(Choosing(paths, KeptOf(a)))
  <1>1. PICK a \in SUBSET {i \in D : program.particles[i].name = name} :
          /\ word' = Append(word, a)
          /\ IF validOf(a) = <<>>
               THEN phase' = "rejected" /\ code' = "value" /\ frontier' = <<>>
                    /\ UNCHANGED <<previous, queue>>
               ELSE BeginClosure(validOf(a), "closing child") /\ previous' = name /\ code' = code
    BY DEF EndChild, Only, Choosing, Particles
  <1> DEFINE K == KeptOf(a)
             valid == validOf(a)
             v == Append(word, a)
             S == Sound(l, v)
  <1>2. /\ phase = "child" /\ paths' = <<>> /\ UNCHANGED <<program, name, starts>>
        /\ Len(word) < MaxWord /\ queue = <<>> /\ code = "none"
    BY DEF EndChild, IInv, Bounded, Followed, Explained
  <1>3. /\ word' = v
        /\ \/ valid = <<>> /\ phase' = "rejected" /\ code' = "value" /\ frontier' = <<>> /\ queue' = queue
              /\ previous' = previous
           \/ valid # <<>> /\ phase' = "closing child" /\ frontier' = <<>> /\ queue' \in {<<>>, valid}
              /\ previous' = name /\ code' = code
    BY <1>1 DEF BeginClosure
  <1>4. /\ program \in Programs /\ IsLifted(l) /\ word \in Seq(SUBSET Nat) /\ a \in SUBSET Nat
        /\ paths \in Seq(Fit(l, word, name)) /\ Len(word) \in Nat /\ MaxWord \in Nat
        /\ starts \in Seq(Sound(l, <<>>))
    BY <1>1, Facts DEF IInv, Followed
  <1>5. v \in Seq(SUBSET D) /\ Len(v) <= MaxWord
    <2>1. word \in Seq(SUBSET D) /\ a \in SUBSET D
      BY <1>1 DEF IInv, Bounded
    <2>2. v \in Seq(SUBSET D) /\ Len(v) = Len(word) + 1
      <3> HIDE DEF D
      <3> QED
        BY <2>1, AppendProperties
    <2> HIDE DEF v, D
    <2> QED
      BY <1>2, <1>4, <2>2
  <1>6. valid \in Seq(Fresh(l, v)) /\ AllAt(valid, a, l, v)
    <2> HIDE DEF l
    <2>1. K \in SUBSET DOMAIN paths /\ \A i \in K : paths[i].index \in a
      OBVIOUS
    <2> HIDE DEF K, KeptOf
    <2>2. /\ FlattenSeq(Choosing(paths, K)) \in Seq(Fresh(l, Append(word, a)))
          /\ AllAt(FlattenSeq(Choosing(paths, K)), a, l, Append(word, a))
      BY <1>4, <2>1, ValidFresh
    <2> QED
      BY <2>2 DEF K
  <1> HIDE DEF valid, K, validOf, KeptOf
  <1>7. Len(valid) \in Nat /\ DOMAIN valid = 1 .. Len(valid)
    <2> HIDE DEF l, v
    <2> QED
      BY <1>6, LenProperties
  <1>8. \A k \in DOMAIN valid : valid[k].index \in a /\ \E q \in Reached(l, v) : q.at = valid[k].index
    BY <1>6 DEF AllAt
  <1>9. valid \in Seq(S)
    <2>1. Fresh(l, v) \subseteq S
      BY DEF Fresh
    <2> HIDE DEF S, v, l
    <2> QED
      BY <1>6, <2>1, SeqMonotonic
  <1>10. ASSUME valid # <<>> PROVE Attained(program, v, name)
    <2>1. 1 \in DOMAIN valid
      <3>1. Len(valid) # 0
        BY <1>6, <1>10, EmptySeq
      <3> QED
        BY <1>7, <3>1
    <2>2. PICK q \in Reached(l, v) : q.at = valid[1].index
      BY <1>8, <2>1
    <2>3. valid[1].index \in a
      BY <1>8, <2>1
    <2> HIDE DEF v
    <2> QED
      BY <1>1, <2>2, <2>3 DEF Attained
  <1>11. name \in NamesOf(program) \/ valid = <<>>
    BY <1>10 DEF Attained, NamesOf
  <1> HIDE DEF S, v, l
  <1>12. Bounded'
    <2>1. name \in NamesOf(program) \cup {Unknown} /\ previous \in NamesOf(program) \cup {NoName}
      BY DEF IInv, Bounded
    <2>2. previous' \in NamesOf(program) \cup {NoName}
      BY <1>3, <1>11, <2>1
    <2>3. phase' \in {"rejected", "closing child"} /\ code' \in {"none", "value"}
      BY <1>2, <1>3
    <2> QED
      BY <1>2, <1>3, <1>4, <1>5, <2>1, <2>2, <2>3 DEF Bounded, D
  <1>13. Followed'
    <2>1. <<>> \in Seq(S) /\ <<>> \in Seq(Fit(l, v, name))
      BY EmptySeq
    <2>2. frontier' \in Seq(S) /\ queue' \in Seq(S)
      BY <1>2, <1>3, <1>9, <2>1
    <2>3. phase' = "rejected" => queue' = <<>>
      BY <1>2, <1>3
    <2>4. phase' \in {"rejected", "closing child"}
      BY <1>3
    <2> QED
      BY <1>2, <1>3, <1>4, <2>1, <2>2, <2>3, <2>4 DEF Followed, S, l
  <1>14. Explained'
    <2>1. code' \in {"none", "value"} /\ (phase' # "rejected" => code' = "none" /\ previous' = name /\ valid # <<>>)
      BY <1>2, <1>3
    <2>2. CodesMean(program, code', name, v)
      BY <2>1 DEF CodesMean
    <2> QED
      BY <1>2, <1>3, <1>10, <2>1, <2>2 DEF Explained
  <1> QED
    BY <1>12, <1>13, <1>14 DEF IInv

LEMMA NextKeeps == IInv /\ [Next]_vars => IInv'
  <1> SUFFICES ASSUME IInv, [Next]_vars PROVE IInv'
    OBVIOUS
  <1>1. CASE CloseRegion
    BY <1>1, CloseRegionKeeps
  <1>2. CASE Closed
    BY <1>2, ClosedKeeps
  <1>3. CASE StartChild
    BY <1>3, StartChildKeeps
  <1>4. CASE EndChild
    BY <1>4, EndChildKeeps
  <1>5. CASE WrongContent
    BY <1>5, WrongContentKeeps
  <1>6. CASE EndRoot
    BY <1>6, EndRootKeeps
  <1>7. CASE Decide
    BY <1>7, DecideKeeps
  <1>8. CASE UNCHANGED vars
    BY <1>8 DEF IInv, Bounded, Followed, Explained, vars
  <1> QED
    BY <1>1, <1>2, <1>3, <1>4, <1>5, <1>6, <1>7, <1>8 DEF Next

THEOREM Inductive == Spec => []IInv
  <1>1. Init => IInv
    BY InitIInv
  <1>2. IInv /\ [Next]_vars => IInv'
    BY NextKeeps
  <1> QED
    BY <1>1, <1>2, PTL DEF Spec

-----------------------------------------------------------------------------
LEMMA PointsApart ==
  ASSUME NEW r \in Regions, NEW s \in Regions, Apart(r, s)
  PROVE  Points(r) \cap Points(s) = {}
  <1>1. SUFFICES ASSUME NEW x \in Points(r), x \in Points(s) PROVE FALSE
    OBVIOUS
  <1>2. PICK o \in Over(r) : \E n \in At(r.low, o) .. At(r.high, o) : x = [done |-> o, at |-> r.index, count |-> n]
    BY DEF Points, Over
  <1>3. PICK n \in At(r.low, o) .. At(r.high, o) : x = [done |-> o, at |-> r.index, count |-> n]
    BY <1>2
  <1>4. PICK u \in Over(s) : \E m \in At(s.low, u) .. At(s.high, u) : x = [done |-> u, at |-> s.index, count |-> m]
    BY <1>1 DEF Points, Over
  <1>5. PICK m \in At(s.low, u) .. At(s.high, u) : x = [done |-> u, at |-> s.index, count |-> m]
    BY <1>4
  <1>6. o = u /\ n = m
    BY <1>3, <1>5
  <1>7. /\ At(r.low, o) \in Int /\ At(r.high, o) \in Int /\ At(s.low, o) \in Int /\ At(s.high, o) \in Int
    <2>1. r.low \in Lines /\ r.high \in Lines /\ s.low \in Lines /\ s.high \in Lines /\ o \in Int
      BY RegionFields
    <2> QED
      BY <2>1, AtInt
  <1>8. At(r.high, o) < At(s.low, o) \/ At(s.high, o) < At(r.low, o)
    BY <1>6 DEF Apart
  <1>9. n \in At(s.low, o) .. At(s.high, o)
    BY <1>6
  <1> QED
    BY <1>7, <1>8, <1>9

LEMMA RegionHasPoints ==
  ASSUME NEW r \in Regions
  PROVE  Points(r) # {}
  <1>1. r.outer \in Over(r) /\ r.outer \in Int /\ At(r.low, r.outer) <= At(r.high, r.outer)
    BY RegionFields
  <1>2. At(r.low, r.outer) \in Int /\ At(r.high, r.outer) \in Int
    <2>1. r.low \in Lines /\ r.high \in Lines
      BY RegionFields
    <2> QED
      BY <1>1, <2>1, AtInt
  <1>3. At(r.low, r.outer) \in At(r.low, r.outer) .. At(r.high, r.outer)
    BY <1>1, <1>2
  <1>4. [done |-> r.outer, at |-> r.index, count |-> At(r.low, r.outer)] \in Points(r)
    BY <1>1, <1>3 DEF Points, Over
  <1> QED
    BY <1>4

LEMMA IInvTypeOK == IInv => TypeOK
  <1> SUFFICES ASSUME IInv PROVE TypeOK
    OBVIOUS
  <1> DEFINE l == Lift(program)
             P == {r \in Regions : r.index \in 1 .. End}
             all == frontier \o queue \o paths \o starts
  <1>1. /\ program \in Programs /\ IsLifted(l) /\ End = EndOf(l)
        /\ Names = NamesOf(program) /\ Particles = DOMAIN program.particles
    BY Facts DEF Names, NamesOf, Particles
  <1>2. Sound(l, word) \subseteq P /\ Sound(l, <<>>) \subseteq P /\ Fit(l, word, name) \subseteq P
    <2> HIDE DEF l
    <2>1. \A w : Sound(l, w) \subseteq P
      BY <1>1 DEF Sound
    <2>2. Fit(l, word, name) \subseteq P
      BY <1>1, FitFields
    <2> QED
      BY <2>1, <2>2
  <1>3. /\ frontier \in Seq(Sound(l, word)) /\ queue \in Seq(Sound(l, word))
        /\ starts \in Seq(Sound(l, <<>>)) /\ paths \in Seq(Fit(l, word, name))
    BY DEF IInv, Followed
  <1> HIDE DEF l, P, all
  <1>4. frontier \in Seq(P) /\ queue \in Seq(P) /\ starts \in Seq(P) /\ paths \in Seq(P)
    <2>1. frontier \in Seq(P) /\ queue \in Seq(P)
      BY <1>2, <1>3, SeqMonotonic
    <2>2. starts \in Seq(P)
      BY <1>2, <1>3, SeqMonotonic
    <2>3. paths \in Seq(P)
      BY <1>2, <1>3, SeqMonotonic
    <2> QED
      BY <2>1, <2>2, <2>3
  <1>5. all \in Seq(P)
    <2>1. frontier \o queue \in Seq(P)
      BY <1>4, Joined
    <2>2. (frontier \o queue) \o paths \in Seq(P)
      BY <1>4, <2>1, Joined
    <2>3. ((frontier \o queue) \o paths) \o starts \in Seq(P)
      BY <1>4, <2>2, Joined
    <2> QED
      BY <2>3 DEF all
  <1>6. ASSUME NEW r \in ToSet(all)
        PROVE  /\ r.index \in 1 .. End /\ {r.currentEmpty, r.emptyRepeatBlocked} \subseteq BOOLEAN
               /\ r.outer >= 0 /\ Points(r) # {}
    <2>1. PICK k \in DOMAIN all : r = all[k]
      BY DEF ToSet
    <2>2. r \in P
      BY <1>5, <2>1, LenProperties, ElementOfSeq
    <2>3. r \in Regions /\ r.index \in 1 .. End
      BY <2>2 DEF P
    <2>4. r.currentEmpty \in BOOLEAN /\ r.emptyRepeatBlocked \in BOOLEAN /\ r.outer \in Nat
      BY <2>3, RegionFields
    <2>5. Points(r) # {}
      BY <2>3, RegionHasPoints
    <2> QED
      BY <2>3, <2>4, <2>5
  <1>7. Bounded
    BY DEF IInv
  <1> QED
    BY <1>1, <1>6, <1>7 DEF TypeOK, Bounded, all

LEMMA IInvDisjoint == IInv => FrontierDisjoint
  <1> SUFFICES ASSUME IInv, phase = "content", NEW i \in DOMAIN frontier, NEW j \in DOMAIN frontier,
                      i # j, SameState(frontier[i], frontier[j])
               PROVE  Points(frontier[i]) \cap Points(frontier[j]) = {}
    BY DEF FrontierDisjoint
  <1>1. Distinct(frontier)
    BY DEF IInv, Followed
  <1>2. Apart(frontier[i], frontier[j])
    BY <1>1 DEF Distinct
  <1>3. frontier[i] \in Regions /\ frontier[j] \in Regions
    <2>1. frontier \in Seq(Sound(Lift(program), word))
      BY DEF IInv, Followed
    <2>2. frontier[i] \in Sound(Lift(program), word) /\ frontier[j] \in Sound(Lift(program), word)
      BY <2>1, LenProperties, ElementOfSeq
    <2> QED
      BY <2>2 DEF Sound
  <1> QED
    BY <1>2, <1>3, PointsApart

LEMMA IInvCodes == IInv => CodesMeanWhatTheySay
  <1>1. /\ Lifted = Lift(program) /\ Names = NamesOf(program)
        /\ WithName = Append(word, DeclaringIn(program, name))
    BY DEF Lifted, Lift, Names, NamesOf, WithName, Declaring, DeclaringIn, Particles
  <1> QED
    BY <1>1 DEF IInv, Explained, CodesMean, CodesMeanWhatTheySay

(* Type correctness: every region of the frontier, of the queue and of the *)
(* open child's paths is at a particle of the sequence or at its end, and  *)
(* stands for at least one state (validation_sequence.go:25-41).           *)
THEOREM TypeCorrect == Spec => []TypeOK
  <1>1. IInv => TypeOK
    BY IInvTypeOK
  <1> QED
    BY <1>1, Inductive, PTL

(* After compaction no state of the automaton is in two regions of the     *)
(* frontier, whatever the program and the children                         *)
(* (compactSequenceCandidates, validation_sequence.go:1459-1537).          *)
THEOREM Disjoint == Spec => []FrontierDisjoint
  <1>1. IInv => FrontierDisjoint
    BY IInvDisjoint
  <1> QED
    BY <1>1, Inductive, PTL

(* A rejected child's code means what validation.go:37-45 says: it is      *)
(* called a violated occurrence bound only if it would fit with all maxima *)
(* lifted, out of order only if it is declared, and unexpected only if it  *)
(* is not (sequenceChildFailureCode).                                      *)
THEOREM Codes == Spec => []CodesMeanWhatTheySay
  <1>1. IInv => CodesMeanWhatTheySay
    BY IInvCodes
  <1> QED
    BY <1>1, Inductive, PTL

-----------------------------------------------------------------------------
(* Completeness: where the automaton may go without a child, one           *)
(* configuration at a time, and the regions that hold a configuration.     *)
Configs == [index : Nat, empty : BOOLEAN, blocked : BOOLEAN, done : Nat, count : Nat]
Config(i, a, b, o, n) == [index |-> i, empty |-> a, blocked |-> b, done |-> o, count |-> n]

InRegion(r, c) ==
  /\ r.index = c.index /\ r.currentEmpty = c.empty /\ r.emptyRepeatBlocked = c.blocked
  /\ Holds(r, c.done, c.count)

Within(q) == {c \in Configs : \E k \in DOMAIN q : InRegion(q[k], c)}

MayStop(p, o) ==
  /\ o >= p.outer.min \/ \A i \in DOMAIN p.particles : p.particles[i].min = 0
  /\ p.outer.max = Unbounded \/ o <= p.outer.max

Passes(p, c) == c.index \in DOMAIN p.particles /\ c.count >= p.particles[c.index].min
Past(p, c) ==
  Config(c.index + 1, c.empty, c.blocked,
         IF c.index + 1 = EndOf(p) /\ ~ c.empty THEN c.done + 1 ELSE c.done, 0)

Begins(p, c) == c.index = EndOf(p) /\ ~ (c.empty /\ c.blocked) /\ Below(c.done, p.outer.max)
Begun(c) == Config(1, TRUE, c.empty, c.done, 0)

Finishes(p, c) == c.index = 1 /\ c.index # EndOf(p) /\ c.empty /\ MayStop(p, c.done)
Finished(p, c) == Config(EndOf(p), FALSE, FALSE, c.done, 0)

Goes(p, c, d) ==
  \/ Passes(p, c) /\ d = Past(p, c)
  \/ Begins(p, c) /\ d = Begun(c)
  \/ Finishes(p, c) /\ d = Finished(p, c)

LEMMA GoesConfigs ==
  ASSUME NEW p \in Programs, NEW c \in Configs, NEW d, Goes(p, c, d)
  PROVE  d \in Configs
  <1>1. c.index \in Nat /\ c.empty \in BOOLEAN /\ c.blocked \in BOOLEAN /\ c.done \in Nat /\ c.count \in Nat
    BY DEF Configs
  <1>2. EndOf(p) \in Nat /\ c.index + 1 \in Nat /\ c.done + 1 \in Nat
    BY <1>1, ProgramFacts
  <1>3. \A i, o, n \in Nat, a, b \in BOOLEAN : Config(i, a, b, o, n) \in Configs
    BY DEF Configs, Config
  <1>4. Past(p, c) \in Configs
    BY <1>1, <1>2, <1>3 DEF Past
  <1>5. Begun(c) \in Configs /\ Finished(p, c) \in Configs
    BY <1>1, <1>2, <1>3 DEF Begun, Finished
  <1> QED
    BY <1>4, <1>5 DEF Goes

(* Lines that keep their order at both ends keep it between them.          *)
LEMMA OrderBetween ==
  ASSUME NEW a \in Lines, NEW b \in Lines, NEW x \in Int, NEW y \in Int, NEW o \in Int,
         x <= o, o <= y, At(a, x) <= At(b, x), At(a, y) <= At(b, y)
  PROVE  At(a, o) <= At(b, o)
  <1> DEFINE s == a.slope - b.slope
             c == b.intercept - a.intercept
  <1>1. /\ a.slope \in Int /\ b.slope \in Int /\ a.intercept \in Int /\ b.intercept \in Int
        /\ s \in Int /\ c \in Int
    BY DEF Lines
  <1>2. \A z \in Int : s * z \in Int /\ (At(a, z) <= At(b, z) <=> s * z <= c)
    <2>1. TAKE z \in Int
    <2>2. s * z = a.slope * z - b.slope * z /\ a.slope * z \in Int /\ b.slope * z \in Int
      BY <1>1
    <2>3. At(a, z) = a.slope * z + a.intercept /\ At(b, z) = b.slope * z + b.intercept
      BY DEF At
    <2> HIDE DEF s
    <2> QED
      BY <1>1, <2>2, <2>3
  <1> HIDE DEF s, c
  <1>3. s * x <= c /\ s * y <= c
    BY <1>2
  <1>4. CASE s = 0
    <2>1. s * o = s * x
      BY <1>4
    <2> QED
      BY <1>2, <1>3, <2>1
  <1>5. CASE s > 0
    <2>1. s * o <= s * y
      BY <1>1, <1>5, Multiples
    <2> QED
      BY <1>1, <1>2, <1>3, <2>1
  <1>6. CASE s < 0
    <2> DEFINE d == -s
    <2>1. d \in Int /\ d > 0
      BY <1>1, <1>6
    <2>2. d * x <= d * o
      <3> HIDE DEF d
      <3> QED
        BY <2>1, Multiples
    <2>3. d * x = -(s * x) /\ d * o = -(s * o)
      BY <1>1
    <2>4. s * o <= s * x
      <3> HIDE DEF d
      <3> QED
        BY <1>2, <2>2, <2>3
    <2> QED
      BY <1>1, <1>2, <1>3, <2>4
  <1> QED
    BY <1>1, <1>4, <1>5, <1>6

LEMMA ContainsHolds ==
  ASSUME NEW r \in Regions, NEW s \in Regions, ContainsRegion(r, s), NEW c \in Configs, InRegion(s, c)
  PROVE  InRegion(r, c)
  <1> DEFINE o == c.done
  <1>1. /\ r.low \in Lines /\ r.high \in Lines /\ s.low \in Lines /\ s.high \in Lines
        /\ s.outer \in Nat /\ s.outerMaximum \in Nat /\ r.outer \in Nat /\ r.outerMaximum \in Nat
    BY RegionFields
  <1>2. /\ SameState(r, s) /\ r.outer <= s.outer /\ s.outerMaximum <= r.outerMaximum
        /\ At(r.low, s.outer) <= At(s.low, s.outer) /\ At(r.high, s.outer) >= At(s.high, s.outer)
        /\ At(r.low, s.outerMaximum) <= At(s.low, s.outerMaximum)
        /\ At(r.high, s.outerMaximum) >= At(s.high, s.outerMaximum)
    BY DEF ContainsRegion, CountContainsAt
  <1>3. Holds(s, o, c.count) /\ c.count \in Nat
    BY DEF InRegion, Configs
  <1>4. o \in Int /\ s.outer <= o /\ o <= s.outerMaximum
    BY <1>1, <1>3 DEF Holds, Over
  <1>5. o \in Over(r)
    BY <1>1, <1>2, <1>4 DEF Over
  <1>6. At(r.low, o) <= At(s.low, o)
    BY <1>1, <1>2, <1>4, OrderBetween
  <1>7. At(s.high, o) <= At(r.high, o)
    <2>1. At(s.high, s.outer) <= At(r.high, s.outer) /\ At(s.high, s.outerMaximum) <= At(r.high, s.outerMaximum)
      <3>1. /\ At(s.high, s.outer) \in Int /\ At(r.high, s.outer) \in Int
            /\ At(s.high, s.outerMaximum) \in Int /\ At(r.high, s.outerMaximum) \in Int
        BY <1>1, AtInt
      <3> QED
        BY <1>2, <3>1
    <2> QED
      BY <1>1, <1>4, <2>1, OrderBetween
  <1>8. At(r.low, o) \in Int /\ At(s.low, o) \in Int /\ At(r.high, o) \in Int /\ At(s.high, o) \in Int
    BY <1>1, <1>4, AtInt
  <1>9. At(s.low, o) <= c.count /\ c.count <= At(s.high, o)
    BY <1>3 DEF Holds
  <1>10. At(r.low, o) <= c.count /\ c.count <= At(r.high, o)
    BY <1>3, <1>6, <1>7, <1>8, <1>9
  <1> QED
    BY <1>2, <1>5, <1>10 DEF InRegion, SameState, Holds

LEMMA WithinJoined ==
  ASSUME NEW s \in Seq(Regions), NEW t \in Seq(Regions)
  PROVE  Within(s) \subseteq Within(s \o t) /\ Within(t) \subseteq Within(s \o t)
  <1>1. /\ Len(s) \in Nat /\ Len(t) \in Nat /\ DOMAIN s = 1 .. Len(s) /\ DOMAIN t = 1 .. Len(t)
        /\ s \o t \in Seq(Regions) /\ Len(s \o t) = Len(s) + Len(t)
        /\ \A i \in 1 .. Len(s) + Len(t) : (s \o t)[i] = IF i <= Len(s) THEN s[i] ELSE t[i - Len(s)]
    BY LenProperties, ConcatProperties
  <1>2. DOMAIN (s \o t) = 1 .. Len(s) + Len(t)
    BY <1>1, LenProperties
  <1>3. \A k \in DOMAIN s : k \in DOMAIN (s \o t) /\ (s \o t)[k] = s[k]
    BY <1>1, <1>2
  <1>4. \A k \in DOMAIN t : Len(s) + k \in DOMAIN (s \o t) /\ (s \o t)[Len(s) + k] = t[k]
    BY <1>1, <1>2
  <1> QED
    BY <1>3, <1>4 DEF Within

LEMMA WithinAppended ==
  ASSUME NEW s \in Seq(Regions), NEW r \in Regions
  PROVE  /\ Within(s) \subseteq Within(Append(s, r))
         /\ \A c \in Configs : InRegion(r, c) => c \in Within(Append(s, r))
  <1>1. /\ Len(s) \in Nat /\ DOMAIN s = 1 .. Len(s)
        /\ Append(s, r) \in Seq(Regions) /\ Len(Append(s, r)) = Len(s) + 1
        /\ \A i \in 1 .. Len(s) : Append(s, r)[i] = s[i]
        /\ Append(s, r)[Len(s) + 1] = r
    BY LenProperties, AppendProperties
  <1>2. DOMAIN Append(s, r) = 1 .. Len(s) + 1
    BY <1>1, LenProperties
  <1>3. \A k \in DOMAIN s : k \in DOMAIN Append(s, r) /\ Append(s, r)[k] = s[k]
    BY <1>1, <1>2
  <1>4. Len(s) + 1 \in DOMAIN Append(s, r)
    BY <1>1, <1>2
  <1> QED
    BY <1>1, <1>3, <1>4 DEF Within

LEMMA WithinTail ==
  ASSUME NEW s \in Seq(Regions), s # <<>>, NEW c \in Within(s)
  PROVE  InRegion(Head(s), c) \/ c \in Within(Tail(s))
  <1>1. /\ Len(s) \in Nat /\ DOMAIN s = 1 .. Len(s)
        /\ Tail(s) \in Seq(Regions) /\ Len(Tail(s)) = Len(s) - 1
        /\ \A i \in 1 .. Len(Tail(s)) : Tail(s)[i] = s[i + 1]
        /\ Head(s) = s[1]
    BY LenProperties, HeadTailProperties
  <1>2. DOMAIN Tail(s) = 1 .. Len(s) - 1
    BY <1>1, LenProperties
  <1>3. PICK k \in DOMAIN s : InRegion(s[k], c)
    BY DEF Within
  <1>4. CASE k = 1
    BY <1>1, <1>3, <1>4
  <1>5. CASE k # 1
    <2>1. k - 1 \in DOMAIN Tail(s) /\ Tail(s)[k - 1] = s[k]
      BY <1>1, <1>2, <1>5
    <2> QED
      BY <1>3, <2>1 DEF Within
  <1> QED
    BY <1>4, <1>5

LEMMA CompactWithin ==
  ASSUME NEW q \in Seq(Regions), NEW end \in Nat, \A i \in DOMAIN q : q[i].index \in 1 .. end
  PROVE  Within(q) \subseteq Within(Compact(q, end))
  <1> DEFINE c == Compact(q, end)
  <1>1. Covers(q, c)
    BY CompactKeeps
  <1> HIDE DEF c
  <1>2. ASSUME NEW x \in Within(q) PROVE x \in Within(c)
    <2>1. PICK i \in DOMAIN q : InRegion(q[i], x)
      BY DEF Within
    <2>2. x \in Configs /\ x.done \in Int /\ x.count \in Int
      BY DEF Within, Configs
    <2>3. PICK k \in DOMAIN c : SameState(q[i], c[k]) /\ Holds(c[k], x.done, x.count)
      BY <1>1, <2>1, <2>2 DEF Covers, InRegion
    <2> QED
      BY <2>1, <2>2, <2>3 DEF Within, InRegion, SameState
  <1> QED
    BY <1>2 DEF c

-----------------------------------------------------------------------------
(* The successors of a region hold those of its configurations.            *)
LEMMA RestrictedHas ==
  ASSUME NEW r, NEW K, NEW w, Restricts(w, r, K), NEW o \in K
  PROVE  \E s \in Parts(r) : w = <<s>> /\ o \in Over(s)
  BY DEF Restricts, Parts, Part

LEMMA OneMapped ==
  ASSUME NEW s, NEW w, w = <<s>>, NEW e, NEW f, f = [i \in DOMAIN w |-> f[i]], f[1] = e,
         NEW c \in Configs, InRegion(e, c)
  PROVE  c \in Within(f)
  <1>1. DOMAIN w = {1}
    OBVIOUS
  <1>2. 1 \in DOMAIN f
    BY <1>1
  <1> QED
    BY <1>2 DEF Within

LEMMA OnlyHas ==
  ASSUME NEW S, NEW s \in Seq(S), NEW K \in SUBSET DOMAIN s, NEW i \in K
  PROVE  \E k \in DOMAIN FlattenSeq(Choosing(s, K)) : FlattenSeq(Choosing(s, K))[k] = s[i]
  <1> DEFINE t == FlattenSeq(Choosing(s, K))
  <1>1. t \in Seq(S) /\ Picks(s, K, t)
    BY Chosen
  <1> HIDE DEF t
  <1>2. PICK at \in [1 .. Len(t) -> K] :
          /\ \A k \in 1 .. Len(t) : t[k] = s[at[k]]
          /\ \A j \in K : \E k \in 1 .. Len(t) : at[k] = j
    BY <1>1 DEF Picks
  <1>3. DOMAIN t = 1 .. Len(t)
    BY <1>1, LenProperties
  <1>4. \E k \in DOMAIN t : t[k] = s[i]
    BY <1>2, <1>3
  <1> QED
    BY <1>4 DEF t

LEMMA EmptyHolds ==
  ASSUME NEW t, t.outer \in Nat, t.outerMaximum \in Nat, t.low = Constant(0), t.high = Constant(0),
         NEW c \in Configs, c.count = 0, c.done \in Over(t), t.index = c.index,
         t.currentEmpty = c.empty, t.emptyRepeatBlocked = c.blocked
  PROVE  InRegion(t, c)
  <1>1. c.done \in Int
    BY DEF Configs
  <1>2. At(t.low, c.done) = 0 /\ At(t.high, c.done) = 0
    BY <1>1, ConstantLine
  <1> QED
    BY <1>2 DEF InRegion, Holds

LEMMA StartHas ==
  ASSUME program \in Programs, NEW r \in Regions, NEW o \in Over(r)
  PROVE  /\ Below(o, program.outer.max) => \E s \in Parts(r) : StartOf(r) = <<s>> /\ o \in Over(s)
         /\ MayStop(program, o) => \E s \in Parts(r) : OuterAllowed(r) = <<s>> /\ o \in Over(s)
  <1> DEFINE K(a, b) == {x \in Over(r) : a <= x /\ x <= b}
             bound == IF program.outer.max = Unbounded THEN r.outerMaximum ELSE program.outer.max
             least == IF BodyCanBeEmpty THEN 0 ELSE program.outer.min
  <1>1. /\ program.outer.min \in Nat
        /\ program.outer.max # Unbounded => program.outer.max \in Int /\ program.outer.max - 1 \in Int
    BY ProgramFacts
  <1>2. r.outer \in Int /\ r.outerMaximum \in Int /\ bound \in Int /\ least \in Int /\ o \in Nat
        /\ r.outer <= o /\ o <= r.outerMaximum
    BY <1>1, RegionFields DEF Over
  <1>3. ASSUME Below(o, program.outer.max) PROVE \E s \in Parts(r) : StartOf(r) = <<s>> /\ o \in Over(s)
    <2>1. CASE program.outer.max = Unbounded
      <3>1. StartOf(r) = <<r>>
        BY <2>1 DEF StartOf
      <3>2. Restricts(<<r>>, r, Over(r))
        BY WholeRestricts
      <3> QED
        BY <3>1, <3>2, RestrictedHas
    <2>2. CASE program.outer.max # Unbounded
      <3>1. StartOf(r) = OuterSubset(r, r.outer, program.outer.max - 1)
        BY <2>2 DEF StartOf
      <3>2. Restricts(OuterSubset(r, r.outer, program.outer.max - 1), r, K(r.outer, program.outer.max - 1))
        BY <1>1, <1>2, <2>2, SubsetRestricts
      <3>3. o \in K(r.outer, program.outer.max - 1)
        BY <1>1, <1>2, <1>3, <2>2 DEF Below
      <3> HIDE DEF K
      <3> QED
        BY <3>1, <3>2, <3>3, RestrictedHas
    <2> QED
      BY <2>1, <2>2
  <1>4. ASSUME MayStop(program, o) PROVE \E s \in Parts(r) : OuterAllowed(r) = <<s>> /\ o \in Over(s)
    <2>1. OuterAllowed(r) = OuterSubset(r, least, bound)
      BY DEF OuterAllowed
    <2>2. o \in K(least, bound)
      <3>1. least <= o
        BY <1>1, <1>2, <1>4 DEF MayStop, BodyCanBeEmpty, Particles
      <3>2. o <= bound
        BY <1>1, <1>2, <1>4 DEF MayStop
      <3> HIDE DEF least, bound
      <3> QED
        BY <3>1, <3>2
    <2> HIDE DEF least, bound
    <2>3. Restricts(OuterSubset(r, least, bound), r, K(least, bound))
      BY <1>2, SubsetRestricts
    <2> HIDE DEF K
    <2> QED
      BY <2>1, <2>2, <2>3, RestrictedHas
  <1> QED
    BY <1>3, <1>4

LEMMA PastCovered ==
  ASSUME program \in Programs, NEW r \in Regions, NEW c \in Configs, InRegion(r, c), Passes(program, c)
  PROVE  Past(program, c) \in Within(PastParticle(r))
  <1> DEFINE least == program.particles[r.index].min
             K == {o \in Over(r) : At(r.high, o) >= least}
             skipped == WhereAtLeast(r, r.high, least)
             next(s) == Restarted(s, s.index + 1)
             pass(s) == IF next(s).index = End /\ ~ next(s).currentEmpty
                          THEN [next(s) EXCEPT !.outer = @ + 1, !.outerMaximum = @ + 1]
                          ELSE next(s)
             more == PastParticle(r)
             d == Past(program, c)
  <1>1. /\ r.index = c.index /\ r.index \in DOMAIN program.particles /\ least \in Int
        /\ c.count >= least /\ r.high \in Lines /\ c.count \in Int /\ c.done \in Int /\ c.done \in Nat
    <2>1. r.index = c.index /\ r.index \in DOMAIN program.particles
      BY DEF InRegion, Passes
    <2>2. least \in Nat
      BY <2>1, ProgramFacts
    <2> QED
      BY <2>1, <2>2, RegionFields DEF Passes, Configs
  <1>2. c.done \in K
    <2>1. Holds(r, c.done, c.count)
      BY DEF InRegion
    <2>2. At(r.high, c.done) \in Int
      BY <1>1, AtInt
    <2> HIDE DEF least
    <2> QED
      BY <1>1, <2>1, <2>2 DEF Holds
  <1>3. PICK s \in Parts(r) : skipped = <<s>> /\ c.done \in Over(s)
    <2> HIDE DEF least
    <2>1. Restricts(skipped, r, K)
      BY <1>1, WhereRestricts
    <2> HIDE DEF skipped, K
    <2> QED
      BY <1>2, <2>1, RestrictedHas
  <1>4. more = [i \in DOMAIN skipped |-> pass(skipped[i])]
    BY DEF PastParticle
  <1>5. /\ s \in Regions /\ s.index = r.index /\ s.currentEmpty = r.currentEmpty
        /\ s.emptyRepeatBlocked = r.emptyRepeatBlocked /\ s \in RegionRecords
    BY <1>3 DEF Parts, Part, Regions, RegionRecords
  <1>6. /\ next(s) \in RegionRecords /\ next(s).outer = s.outer /\ next(s).outerMaximum = s.outerMaximum
        /\ next(s).low = Constant(0) /\ next(s).high = Constant(0) /\ next(s).index = c.index + 1
        /\ next(s).currentEmpty = c.empty /\ next(s).emptyRepeatBlocked = c.blocked
    <2>1. Constant(0) \in Lines /\ c.index + 1 \in Nat
      BY ConstantLine DEF Configs
    <2> QED
      BY <1>1, <1>5, <2>1 DEF Restarted, RegionRecords, InRegion
  <1>7. /\ d \in Configs /\ d.count = 0 /\ d.index = c.index + 1 /\ d.empty = c.empty /\ d.blocked = c.blocked
        /\ d.done = IF c.index + 1 = End /\ ~ c.empty THEN c.done + 1 ELSE c.done
    <2>1. d \in Configs
      BY GoesConfigs DEF Goes
    <2> QED
      BY <2>1 DEF Past, Config, End, EndOf
  <1> HIDE DEF d, next, least, K, skipped
  <1>8. InRegion(pass(s), d)
    <2>1. CASE c.index + 1 = End /\ ~ c.empty
      <3> DEFINE t == [next(s) EXCEPT !.outer = @ + 1, !.outerMaximum = @ + 1]
      <3>1. pass(s) = t
        BY <1>6, <2>1
      <3>2. /\ t \in RegionRecords /\ t.outer = s.outer + 1 /\ t.outerMaximum = s.outerMaximum + 1
            /\ t.low = Constant(0) /\ t.high = Constant(0) /\ t.index = c.index + 1
            /\ t.currentEmpty = c.empty /\ t.emptyRepeatBlocked = c.blocked
        BY <1>6, ShiftedRecord DEF RegionRecords
      <3>3. d.done = c.done + 1
        BY <1>7, <2>1
      <3> HIDE DEF t, pass
      <3>4. s.outer \in Nat /\ s.outerMaximum \in Nat /\ s.outer <= c.done /\ c.done <= s.outerMaximum
        BY <1>3, <1>5, RegionFields DEF Over
      <3>5. d.done \in Over(t) /\ t.outer \in Nat /\ t.outerMaximum \in Nat
        BY <1>1, <3>2, <3>3, <3>4 DEF Over
      <3> QED
        BY <1>7, <3>1, <3>2, <3>5, EmptyHolds
    <2>2. CASE ~ (c.index + 1 = End /\ ~ c.empty)
      <3>1. pass(s) = next(s) /\ d.done = c.done
        BY <1>6, <1>7, <2>2
      <3> HIDE DEF pass
      <3>2. d.done \in Over(next(s))
        BY <1>3, <1>6, <3>1 DEF Over
      <3>3. next(s).outer \in Nat /\ next(s).outerMaximum \in Nat
        BY <1>6 DEF RegionRecords
      <3> QED
        BY <1>6, <1>7, <3>1, <3>2, <3>3, EmptyHolds
    <2> QED
      BY <2>1, <2>2
  <1>9. more = [i \in DOMAIN skipped |-> more[i]] /\ more[1] = pass(s)
    <2>1. DOMAIN skipped = {1} /\ skipped[1] = s
      BY <1>3
    <2> HIDE DEF pass
    <2> QED
      BY <1>4, <2>1
  <1> HIDE DEF more, pass
  <1>10. d \in Within(more)
    BY <1>3, <1>7, <1>8, <1>9, OneMapped
  <1> QED
    BY <1>10 DEF more, d

-----------------------------------------------------------------------------
LEMMA BegunCovered ==
  ASSUME program \in Programs, NEW r \in Regions, NEW c \in Configs, InRegion(r, c), Begins(program, c)
  PROVE  Begun(c) \in Within(NextIteration(r))
  <1> DEFINE begin(s) == [Restarted(s, 1) EXCEPT !.currentEmpty = TRUE, !.emptyRepeatBlocked = s.currentEmpty]
             open == StartOf(r)
             K == {i \in DOMAIN open : ~ (open[i].currentEmpty /\ open[i].emptyRepeatBlocked)}
             starting == FlattenSeq(Choosing(open, K))
             more == NextIteration(r)
             d == Begun(c)
  <1>1. more = [i \in DOMAIN starting |-> begin(starting[i])]
    BY DEF NextIteration, Only, Choosing
  <1>2. PICK s \in Parts(r) : open = <<s>> /\ c.done \in Over(s)
    <2>1. c.done \in Over(r) /\ Below(c.done, program.outer.max)
      BY DEF InRegion, Holds, Begins
    <2> QED
      BY <2>1, StartHas
  <1>3. /\ s \in Regions /\ s.currentEmpty = c.empty /\ s.emptyRepeatBlocked = c.blocked /\ s \in RegionRecords
    BY <1>2 DEF Parts, Part, Regions, RegionRecords, InRegion
  <1>4. 1 \in K /\ K \in SUBSET DOMAIN open /\ open[1] = s /\ open \in Seq(Regions)
    <2>1. DOMAIN open = {1} /\ open[1] = s
      BY <1>2
    <2>2. ~ (s.currentEmpty /\ s.emptyRepeatBlocked)
      BY <1>3 DEF Begins
    <2>3. <<s>> \in Seq(Regions)
      BY <1>3
    <2> HIDE DEF open
    <2> QED
      BY <1>2, <2>1, <2>2, <2>3
  <1> HIDE DEF open, K
  <1>5. PICK k \in DOMAIN starting : starting[k] = s
    BY <1>4, OnlyHas
  <1>6. /\ d \in Configs /\ d.count = 0 /\ d.index = 1 /\ d.empty = TRUE /\ d.blocked = c.empty /\ d.done = c.done
    <2>1. d \in Configs
      BY GoesConfigs DEF Goes
    <2> QED
      BY <2>1 DEF Begun, Config
  <1>7. InRegion(begin(s), d)
    <2>1. Constant(0) \in Lines
      BY ConstantLine
    <2>2. /\ begin(s).outer = s.outer /\ begin(s).outerMaximum = s.outerMaximum
          /\ begin(s).low = Constant(0) /\ begin(s).high = Constant(0) /\ begin(s).index = 1
          /\ begin(s).currentEmpty = TRUE /\ begin(s).emptyRepeatBlocked = c.empty
      BY <1>3, <2>1 DEF Restarted, RegionRecords
    <2> HIDE DEF begin, d
    <2>3. d.done \in Over(begin(s)) /\ s.outer \in Nat /\ s.outerMaximum \in Nat
      BY <1>2, <1>3, <1>6, <2>2, RegionFields DEF Over
    <2> QED
      BY <1>6, <2>2, <2>3, EmptyHolds
  <1> HIDE DEF begin, d, starting
  <1>8. k \in DOMAIN more /\ more[k] = begin(s)
    BY <1>1, <1>5
  <1>9. d \in Within(more)
    BY <1>6, <1>7, <1>8 DEF Within
  <1> QED
    BY <1>9 DEF d

LEMMA FinishedCovered ==
  ASSUME program \in Programs, NEW r \in Regions, Zeroed(r), NEW c \in Configs, InRegion(r, c),
         Finishes(program, c)
  PROVE  Finished(program, c) \in Within(BeforeIteration(r))
  <1> DEFINE finish(s) == [Restarted(s, End) EXCEPT !.currentEmpty = FALSE, !.emptyRepeatBlocked = FALSE]
             allowed == OuterAllowed(r)
             more == BeforeIteration(r)
             d == Finished(program, c)
  <1>1. r.index = 1 /\ r.currentEmpty /\ CountIsZero(r)
    <2>1. r.index = 1 /\ r.currentEmpty
      BY DEF InRegion, Finishes
    <2>2. r.low = Constant(0) /\ r.high = Constant(0) /\ r.outer \in Int /\ r.outerMaximum \in Int
      BY <2>1, RegionFields DEF Zeroed
    <2> QED
      BY <2>1, <2>2, ConstantLine DEF CountIsZero
  <1>2. more = [i \in DOMAIN allowed |-> finish(allowed[i])]
    BY <1>1 DEF BeforeIteration
  <1>3. PICK s \in Parts(r) : allowed = <<s>> /\ c.done \in Over(s)
    <2>1. c.done \in Over(r) /\ MayStop(program, c.done)
      BY DEF InRegion, Holds, Finishes
    <2> QED
      BY <2>1, StartHas
  <1>4. s \in Regions /\ s \in RegionRecords
    BY <1>3 DEF Parts, Regions, RegionRecords
  <1>5. /\ d \in Configs /\ d.count = 0 /\ d.index = End /\ d.empty = FALSE /\ d.blocked = FALSE /\ d.done = c.done
    <2>1. d \in Configs
      BY GoesConfigs DEF Goes
    <2> QED
      BY <2>1 DEF Finished, Config, End, EndOf
  <1>6. InRegion(finish(s), d)
    <2>1. Constant(0) \in Lines /\ End \in Nat
      BY ConstantLine, ProgramFacts DEF End, EndOf
    <2>2. /\ finish(s).outer = s.outer /\ finish(s).outerMaximum = s.outerMaximum
          /\ finish(s).low = Constant(0) /\ finish(s).high = Constant(0) /\ finish(s).index = End
          /\ finish(s).currentEmpty = FALSE /\ finish(s).emptyRepeatBlocked = FALSE
      BY <1>4, <2>1 DEF Restarted, RegionRecords
    <2> HIDE DEF finish, d
    <2>3. d.done \in Over(finish(s)) /\ s.outer \in Nat /\ s.outerMaximum \in Nat
      BY <1>3, <1>4, <1>5, <2>2, RegionFields DEF Over
    <2> QED
      BY <1>5, <2>2, <2>3, EmptyHolds
  <1>7. more = [i \in DOMAIN allowed |-> more[i]] /\ more[1] = finish(s)
    <2>1. DOMAIN allowed = {1} /\ allowed[1] = s
      BY <1>3
    <2> HIDE DEF finish, allowed
    <2> QED
      BY <1>2, <2>1
  <1> HIDE DEF more, finish, d, allowed
  <1>8. d \in Within(more)
    BY <1>3, <1>5, <1>6, <1>7, OneMapped
  <1> QED
    BY <1>8 DEF d, more

LEMMA SuccessorsCovered ==
  ASSUME program \in Programs, NEW w \in Seq(SUBSET Nat), NEW r \in Sound(Lift(program), w), Zeroed(r),
         NEW c \in Configs, InRegion(r, c), NEW d, Goes(program, c, d)
  PROVE  d \in Within(Successors(r))
  <1> DEFINE S == Fresh(Lift(program), w)
  <1>1. r \in Regions /\ r.index = c.index /\ End = EndOf(program) /\ S \subseteq Regions
    BY SoundFields DEF InRegion, End, EndOf, Fresh, Sound
  <1>2. CASE r.index = End
    <2>1. Begins(program, c) /\ d = Begun(c)
      <3>1. ~ Passes(program, c)
        BY <1>1, <1>2, ProgramFacts DEF Passes
      <3>2. ~ Finishes(program, c)
        BY <1>1, <1>2 DEF Finishes
      <3> QED
        BY <3>1, <3>2 DEF Goes
    <2>2. d \in Within(NextIteration(r))
      BY <1>1, <2>1, BegunCovered
    <2> QED
      BY <1>2, <2>2 DEF Successors
  <1>3. CASE r.index # End
    <2>1. Successors(r) = BeforeIteration(r) \o PastParticle(r)
      BY <1>3 DEF Successors
    <2>2. BeforeIteration(r) \in Seq(Regions) /\ PastParticle(r) \in Seq(Regions)
      <3>1. BeforeIteration(r) \in Seq(S) /\ PastParticle(r) \in Seq(S)
        BY <1>3, BeforeIterationSound, PastParticleSound
      <3> HIDE DEF S
      <3>2. BeforeIteration(r) \in Seq(Regions)
        BY <1>1, <3>1, SeqMonotonic
      <3>3. PastParticle(r) \in Seq(Regions)
        BY <1>1, <3>1, SeqMonotonic
      <3> QED
        BY <3>2, <3>3
    <2>3. d \in Within(BeforeIteration(r)) \/ d \in Within(PastParticle(r))
      <3>1. ~ Begins(program, c)
        BY <1>1, <1>3 DEF Begins
      <3>2. Passes(program, c) => Past(program, c) \in Within(PastParticle(r))
        BY <1>1, PastCovered
      <3>3. Finishes(program, c) => Finished(program, c) \in Within(BeforeIteration(r))
        BY <1>1, FinishedCovered
      <3> QED
        BY <3>1, <3>2, <3>3 DEF Goes
    <2> QED
      BY <2>1, <2>2, <2>3, WithinJoined
  <1> QED
    BY <1>2, <1>3

-----------------------------------------------------------------------------
(* One more element of a configuration, and the regions that fit a child.  *)
LEMMA FlattenWithin ==
  ASSUME NEW f \in Seq(Seq(Regions)), NEW i \in DOMAIN f
  PROVE  Within(f[i]) \subseteq Within(FlattenSeq(f))
  <1> DEFINE flat == FlattenSeq(f)
  <1>1. flat \in Seq(Regions) /\ \E at : Deals(f, Len(f), flat, at)
    BY FlattenDeals
  <1>2. DOMAIN f = 1 .. Len(f) /\ f[i] \in Seq(Regions)
    BY LenProperties, ElementOfSeq
  <1>3. DOMAIN f[i] = 1 .. Len(f[i])
    BY <1>2, LenProperties
  <1> HIDE DEF flat
  <1>4. DOMAIN flat = 1 .. Len(flat)
    BY <1>1, LenProperties
  <1>5. PICK at : Deals(f, Len(f), flat, at)
    BY <1>1
  <1>6. ASSUME NEW k \in DOMAIN f[i] PROVE \E m \in DOMAIN flat : flat[m] = f[i][k]
    <2>1. PICK m \in 1 .. Len(flat) : at[m] = <<i, k>>
      BY <1>2, <1>3, <1>5 DEF Deals
    <2>2. flat[m] = f[at[m][1]][at[m][2]]
      BY <1>5 DEF Deals
    <2>3. at[m][1] = i /\ at[m][2] = k
      BY <2>1
    <2> QED
      BY <1>4, <2>2, <2>3
  <1>7. ASSUME NEW c \in Within(f[i]) PROVE c \in Within(flat)
    <2>1. PICK k \in DOMAIN f[i] : InRegion(f[i][k], c)
      BY DEF Within
    <2>2. PICK m \in DOMAIN flat : flat[m] = f[i][k]
      BY <1>6
    <2> QED
      BY <2>1, <2>2 DEF Within
  <1> QED
    BY <1>7 DEF flat

More(c) == Config(c.index, c.empty, c.blocked, c.done, c.count + 1)

LEMMA MoreFields ==
  ASSUME NEW c \in Configs
  PROVE  /\ More(c) \in Configs /\ More(c).index = c.index /\ More(c).empty = c.empty
         /\ More(c).blocked = c.blocked /\ More(c).done = c.done /\ More(c).count = c.count + 1
         /\ c.done \in Int /\ c.count \in Int
  BY DEF More, Config, Configs

LEMMA CountOneHolds ==
  ASSUME NEW s \in Regions, NEW c \in Configs, InRegion(s, c)
  PROVE  InRegion(CountOne(s), More(c))
  <1> DEFINE t == CountOne(s)
  <1>1. s.low \in Lines /\ s.high \in Lines /\ c.done \in Int /\ c.count \in Int /\ s \in RegionRecords
    BY RegionFields, MoreFields DEF Regions, RegionRecords
  <1>2. /\ At(Plus(s.low, 1), c.done) = At(s.low, c.done) + 1
        /\ At(Plus(s.high, 1), c.done) = At(s.high, c.done) + 1
    BY <1>1, PlusLine
  <1>3. At(s.low, c.done) \in Int /\ At(s.high, c.done) \in Int
    BY <1>1, AtInt
  <1>4. /\ t.index = s.index /\ t.currentEmpty = s.currentEmpty /\ t.emptyRepeatBlocked = s.emptyRepeatBlocked
        /\ t.outer = s.outer /\ t.outerMaximum = s.outerMaximum
        /\ t.low = Plus(s.low, 1) /\ t.high = Plus(s.high, 1)
    BY <1>1 DEF CountOne, RegionRecords
  <1> HIDE DEF t
  <1>5. /\ c.done \in Over(t) /\ At(s.low, c.done) <= c.count /\ c.count <= At(s.high, c.done)
    BY <1>4 DEF InRegion, Holds, Over
  <1>6. At(t.low, c.done) <= c.count + 1 /\ c.count + 1 <= At(t.high, c.done)
    BY <1>1, <1>2, <1>3, <1>4, <1>5
  <1>7. InRegion(t, More(c))
    BY <1>4, <1>5, <1>6, MoreFields DEF InRegion, Holds
  <1> QED
    BY <1>7 DEF t

LEMMA CutOffHolds ==
  ASSUME NEW s \in Regions, NEW c \in Configs, InRegion(s, c), NEW maximum \in Nat, c.count < maximum
  PROVE  InRegion(CutOff(s, maximum), More(c))
  <1> DEFINE t == CutOff(s, maximum)
  <1>1. s.low \in Lines /\ s.high \in Lines /\ c.done \in Int /\ c.count \in Int /\ s \in RegionRecords
    BY RegionFields, MoreFields DEF Regions, RegionRecords
  <1>2. /\ At(Plus(s.low, 1), c.done) = At(s.low, c.done) + 1
        /\ At(Constant(maximum), c.done) = maximum
    <2>1. At(Plus(s.low, 1), c.done) = At(s.low, c.done) + 1
      BY <1>1, PlusLine
    <2>2. At(Constant(maximum), c.done) = maximum
      BY <1>1, ConstantLine
    <2> QED
      BY <2>1, <2>2
  <1>3. At(s.low, c.done) \in Int
    BY <1>1, AtInt
  <1>4. /\ t.index = s.index /\ t.currentEmpty = s.currentEmpty /\ t.emptyRepeatBlocked = s.emptyRepeatBlocked
        /\ t.outer = s.outer /\ t.outerMaximum = s.outerMaximum
        /\ t.low = Plus(s.low, 1) /\ t.high = Constant(maximum)
    BY <1>1 DEF CutOff, RegionRecords
  <1> HIDE DEF t
  <1>5. /\ c.done \in Over(t) /\ At(s.low, c.done) <= c.count
    BY <1>4 DEF InRegion, Holds, Over
  <1>6. At(t.low, c.done) <= c.count + 1 /\ c.count + 1 <= At(t.high, c.done)
    BY <1>1, <1>2, <1>3, <1>4, <1>5
  <1>7. InRegion(t, More(c))
    BY <1>4, <1>5, <1>6, MoreFields DEF InRegion, Holds
  <1> QED
    BY <1>7 DEF t

LEMMA PartHolds ==
  ASSUME NEW r, NEW s \in Parts(r), NEW c \in Configs, InRegion(r, c), c.done \in Over(s)
  PROVE  s \in Regions /\ InRegion(s, c)
  BY DEF Parts, Part, InRegion, Holds

LEMMA ConsumeHolds ==
  ASSUME NEW l, IsLifted(l), NEW w \in Seq(SUBSET Nat), NEW r \in Sound(l, w), r.index # EndOf(l),
         NEW maximum, maximum # Unbounded => maximum \in Nat /\ maximum >= 1,
         NEW c \in Configs, InRegion(r, c), Below(c.count, maximum)
  PROVE  More(c) \in Within(Consume(r, maximum))
  <1>1. r \in Regions /\ r.low \in Lines /\ r.high \in Lines /\ c.done \in Int /\ c.count \in Int
    BY SoundFields, RegionFields, MoreFields
  <1>2. CASE maximum = Unbounded
    <2>1. Consume(r, maximum) = <<CountOne(r)>>
      BY <1>2 DEF Consume, CountOne
    <2>2. InRegion(CountOne(r), More(c)) /\ More(c) \in Configs
      BY <1>1, CountOneHolds, MoreFields
    <2>3. DOMAIN <<CountOne(r)>> = {1} /\ <<CountOne(r)>>[1] = CountOne(r)
      OBVIOUS
    <2> QED
      BY <2>1, <2>2, <2>3 DEF Within
  <1>3. CASE maximum # Unbounded
    <2> DEFINE open == Opened(r, maximum)
               each == Segmented(r, maximum)
               C == Counted(l, w, r.index)
               K == Lowest(r, maximum)
               f(s) == Free(s, maximum)
               g(s) == Bound(s, maximum)
    <2>1. maximum \in Nat /\ maximum >= 1 /\ c.count < maximum /\ maximum - 1 \in Int /\ maximum \in Int
      BY <1>3 DEF Below
    <2>2. each \in Seq(Seq(C)) /\ Consume(r, maximum) = FlattenSeq(each)
      BY <1>3, <2>1, ConsumeSegments
    <2>3. c.done \in K
      <3>1. c.done \in Over(r) /\ At(r.low, c.done) <= c.count /\ At(r.low, c.done) \in Int
        BY <1>1, AtInt DEF InRegion, Holds
      <3>2. At(r.low, c.done) <= maximum - 1
        BY <1>1, <2>1, <3>1
      <3> QED
        BY <3>1, <3>2 DEF Lowest
    <2>4. PICK s \in Parts(r) : open = <<s>> /\ c.done \in Over(s) /\ s \in Cut(r, K)
      <3>1. Restricts(open, r, K)
        BY <1>1, <2>1, WhereRestricts DEF Opened, Lowest
      <3> HIDE DEF open, K
      <3> QED
        BY <2>3, <3>1 DEF Restricts, Parts, Part, Cut
    <2>5. s \in Regions /\ InRegion(s, c) /\ s.high \in Lines
      BY <2>4, PartHolds, RegionFields
    <2>6. f(s) \in Seq(Regions) /\ g(s) \in Seq(Regions)
      <3>1. f(s) \in Seq(C) /\ g(s) \in Seq(C)
        BY <2>1, <2>4, SegmentCounted
      <3>2. C \subseteq Regions
        BY DEF Counted
      <3> HIDE DEF C, f, g
      <3>3. f(s) \in Seq(Regions)
        BY <3>1, <3>2, SeqMonotonic
      <3>4. g(s) \in Seq(Regions)
        BY <3>1, <3>2, SeqMonotonic
      <3> QED
        BY <3>3, <3>4
    <2>7. More(c) \in Within(f(s)) \/ More(c) \in Within(g(s))
      <3>1. At(s.high, c.done) \in Int /\ c.done \in Over(s)
        BY <1>1, <2>4, <2>5, AtInt
      <3>2. CASE At(s.high, c.done) <= maximum - 1
        <4> DEFINE B == {o \in Over(s) : At(s.high, o) <= maximum - 1}
                   x == WithRoom(s, maximum)
        <4>1. PICK t \in Parts(s) : x = <<t>> /\ c.done \in Over(t)
          <5>1. Restricts(x, s, B) /\ c.done \in B
            BY <2>1, <2>5, <3>1, <3>2, WhereRestricts DEF WithRoom
          <5> HIDE DEF x, B
          <5> QED
            BY <5>1, RestrictedHas
        <4>2. InRegion(CountOne(t), More(c)) /\ More(c) \in Configs
          BY <2>5, <4>1, PartHolds, CountOneHolds, MoreFields
        <4>3. f(s) = [i \in DOMAIN x |-> CountOne(x[i])]
          BY DEF Free
        <4> HIDE DEF x, f
        <4>4. DOMAIN x = {1} /\ x[1] = t
          BY <4>1
        <4>5. f(s) = [i \in DOMAIN x |-> f(s)[i]] /\ f(s)[1] = CountOne(t)
          BY <4>3, <4>4
        <4>6. More(c) \in Within(f(s))
          BY <4>1, <4>2, <4>5, OneMapped
        <4> QED
          BY <4>6
      <3>3. CASE At(s.high, c.done) >= maximum
        <4> DEFINE R == {o \in Over(s) : At(s.high, o) >= maximum}
                   x == WithoutRoom(s, maximum)
        <4>1. PICK t \in Parts(s) : x = <<t>> /\ c.done \in Over(t)
          <5>1. Restricts(x, s, R) /\ c.done \in R
            BY <2>1, <2>5, <3>1, <3>3, WhereRestricts DEF WithoutRoom
          <5> HIDE DEF x, R
          <5> QED
            BY <5>1, RestrictedHas
        <4>2. InRegion(CutOff(t, maximum), More(c)) /\ More(c) \in Configs
          BY <2>1, <2>5, <4>1, PartHolds, CutOffHolds, MoreFields
        <4>3. g(s) = [i \in DOMAIN x |-> CutOff(x[i], maximum)]
          BY DEF Bound
        <4> HIDE DEF x, g
        <4>4. DOMAIN x = {1} /\ x[1] = t
          BY <4>1
        <4>5. g(s) = [i \in DOMAIN x |-> g(s)[i]] /\ g(s)[1] = CutOff(t, maximum)
          BY <4>3, <4>4
        <4>6. More(c) \in Within(g(s))
          BY <4>1, <4>2, <4>5, OneMapped
        <4> QED
          BY <4>6
      <3> QED
        BY <2>1, <3>1, <3>2, <3>3
    <2>8. More(c) \in Within(f(s) \o g(s))
      <3> HIDE DEF f, g
      <3> QED
        BY <2>6, <2>7, WithinJoined
    <2>9. 1 \in DOMAIN each /\ each[1] = f(s) \o g(s)
      <3>1. each = [i \in DOMAIN open |-> f(open[i]) \o g(open[i])]
        BY DEF Segmented
      <3> HIDE DEF open, each, f, g
      <3>2. DOMAIN open = {1} /\ open[1] = s
        BY <2>4
      <3> QED
        BY <3>1, <3>2
    <2>10. each \in Seq(Seq(Regions))
      <3>1. C \subseteq Regions
        BY DEF Counted
      <3> HIDE DEF C, each
      <3>2. Seq(C) \subseteq Seq(Regions)
        BY <3>1, SeqMonotonic
      <3> QED
        BY <2>2, <3>2, SeqMonotonic
    <2> HIDE DEF each, f, g
    <2>11. Within(each[1]) \subseteq Within(FlattenSeq(each))
      BY <2>9, <2>10, FlattenWithin
    <2> QED
      BY <2>2, <2>8, <2>9, <2>11
  <1> QED
    BY <1>2, <1>3

-----------------------------------------------------------------------------
(* The paths of a child hold every configuration that it leads to.         *)
Taken(c) == Config(c.index, FALSE, FALSE, c.done, c.count + 1)

LEMMA FittingHolds ==
  ASSUME program \in Programs, NEW w \in Seq(SUBSET Nat), NEW q \in Seq(Sound(Lift(program), w)), NEW n,
         NEW c \in Within(q), c.index \in DOMAIN program.particles, program.particles[c.index].name = n,
         Below(c.count, program.particles[c.index].max)
  PROVE  Taken(c) \in Within(Fitting(q, n))
  <1> DEFINE l == Lift(program)
             F == Fit(l, w, n)
             S == Sound(l, w)
             next(r) == Consume(r, program.particles[r.index].max)
             plain(s) == [s EXCEPT !.currentEmpty = FALSE, !.emptyRepeatBlocked = FALSE]
             d == Taken(c)
  <1>1. PICK each \in Seq(Seq(F)) : each = [i \in DOMAIN q |-> FitOf(q[i], n)] /\ Fitting(q, n) = FlattenSeq(each)
    BY FittingFit
  <1>2. IsLifted(l) /\ End = EndOf(l) /\ End = EndOf(program)
    BY Lifting DEF End, EndOf
  <1>3. DOMAIN q = 1 .. Len(q) /\ \A i \in DOMAIN q : q[i] \in S
    <2> HIDE DEF S
    <2>1. q \in Seq(S)
      BY DEF S
    <2> QED
      BY <2>1, LenProperties, ElementOfSeq
  <1>4. PICK k \in DOMAIN q : InRegion(q[k], c)
    BY DEF Within
  <1> DEFINE r == q[k]
             maximum == program.particles[r.index].max
             x == next(r)
             f == FitOf(r, n)
  <1>5. /\ r \in S /\ r.index = c.index /\ c \in Configs /\ r.index # End
        /\ maximum # Unbounded => maximum \in Nat /\ maximum >= 1
    <2>1. r \in S /\ r.index = c.index /\ c \in Configs
      BY <1>3, <1>4 DEF InRegion, Within
    <2>2. r.index # End
      BY <1>2, <2>1, ProgramFacts
    <2>3. maximum # Unbounded => maximum \in Nat /\ maximum >= 1
      BY <2>1, ProgramFacts
    <2> QED
      BY <2>1, <2>2, <2>3
  <1>6. More(c) \in Within(x) /\ x \in Seq(Counted(l, w, r.index))
    <2> HIDE DEF l
    <2>1. r \in Sound(l, w) /\ r.index # EndOf(l)
      BY <1>2, <1>5
    <2>2. Below(c.count, maximum) /\ InRegion(r, c)
      BY <1>4, <1>5
    <2> HIDE DEF maximum, r
    <2>3. Consume(r, maximum) \in Seq(Counted(l, w, r.index))
      BY <1>2, <1>5, <2>1, ConsumeCounted
    <2>4. More(c) \in Within(Consume(r, maximum))
      BY <1>2, <1>5, <2>1, <2>2, ConsumeHolds
    <2> QED
      BY <2>3, <2>4 DEF maximum
  <1>7. f = [i \in DOMAIN x |-> plain(x[i])]
    BY <1>5 DEF FitOf
  <1>8. /\ d \in Configs /\ d.index = c.index /\ d.empty = FALSE /\ d.blocked = FALSE /\ d.done = c.done
        /\ d.count = c.count + 1
    BY <1>5 DEF Taken, Config, Configs
  <1>9. PICK m \in DOMAIN x : InRegion(x[m], More(c))
    BY <1>6 DEF Within
  <1>10. x[m] \in Regions
    <2> HIDE DEF x
    <2>1. x[m] \in Counted(l, w, r.index)
      BY <1>6, <1>9, LenProperties, ElementOfSeq
    <2> QED
      BY <2>1 DEF Counted
  <1>11. InRegion(plain(x[m]), d)
    <2> DEFINE s == x[m]
    <2> HIDE DEF s, d, x
    <2>1. s \in RegionRecords
      BY <1>10 DEF s, Regions, RegionRecords
    <2>2. /\ plain(s).outer = s.outer /\ plain(s).outerMaximum = s.outerMaximum /\ plain(s).index = s.index
          /\ plain(s).low = s.low /\ plain(s).high = s.high
          /\ plain(s).currentEmpty = FALSE /\ plain(s).emptyRepeatBlocked = FALSE
      BY <2>1 DEF RegionRecords
    <2> HIDE DEF plain
    <2>3. /\ s.index = c.index /\ c.done \in Over(s) /\ At(s.low, c.done) <= c.count + 1
          /\ c.count + 1 <= At(s.high, c.done)
      BY <1>5, <1>9, MoreFields DEF s, InRegion, Holds
    <2>4. Over(plain(s)) = Over(s)
      BY <2>2 DEF Over
    <2>5. InRegion(plain(s), d)
      BY <1>8, <2>2, <2>3, <2>4 DEF InRegion, Holds
    <2> QED
      BY <2>5 DEF s
  <1>12. d \in Within(f)
    <2>1. m \in DOMAIN f /\ f[m] = plain(x[m])
      <3> HIDE DEF f, x, plain
      <3> QED
        BY <1>7, <1>9
    <2> HIDE DEF f, plain, x, d
    <2> QED
      BY <1>8, <1>11, <2>1 DEF Within
  <1>13. each \in Seq(Seq(Regions))
    <2>1. F \subseteq Regions
      BY DEF Fit
    <2> HIDE DEF F
    <2>2. Seq(F) \subseteq Seq(Regions)
      BY <2>1, SeqMonotonic
    <2>3. Seq(Seq(F)) \subseteq Seq(Seq(Regions))
      BY <2>2, SeqMonotonic
    <2> QED
      BY <1>1, <2>3
  <1>14. k \in DOMAIN each /\ each[k] = f
    BY <1>1
  <1> HIDE DEF f, d
  <1>15. Within(each[k]) \subseteq Within(FlattenSeq(each))
    BY <1>13, <1>14, FlattenWithin
  <1>16. d \in Within(Fitting(q, n))
    BY <1>1, <1>12, <1>14, <1>15
  <1> QED
    BY <1>16 DEF d

-----------------------------------------------------------------------------
(* A set of configurations with those of the states the automaton has      *)
(* reached, and with what they go to, holds all that a child or the end    *)
(* needs.                                                                  *)
Seed(q) ==
  IF q.at = 0 THEN Config(1, TRUE, FALSE, q.done, 0) ELSE Config(q.at, FALSE, FALSE, q.done, q.count)
Seeds(p, w) == {Seed(q) : q \in Reached(p, w)}
Stable(p, X) == \A c \in X : \A d \in Configs : Goes(p, c, d) => d \in X
Retains(p, w, S) == \E X \in SUBSET Configs : X \subseteq S /\ Seeds(p, w) \subseteq X /\ Stable(p, X)

LEMMA ConfigFields ==
  ASSUME NEW i \in Nat, NEW a \in BOOLEAN, NEW b \in BOOLEAN, NEW o \in Nat, NEW n \in Nat
  PROVE  /\ Config(i, a, b, o, n) \in Configs /\ Config(i, a, b, o, n).index = i
         /\ Config(i, a, b, o, n).empty = a /\ Config(i, a, b, o, n).blocked = b
         /\ Config(i, a, b, o, n).done = o /\ Config(i, a, b, o, n).count = n
  BY DEF Config, Configs

(* Past one particle, and past those that need not occur.                  *)
LEMMA PastOne ==
  ASSUME NEW p \in Programs, NEW X \in SUBSET Configs, Stable(p, X),
         NEW i \in DOMAIN p.particles, NEW a \in BOOLEAN, NEW b \in BOOLEAN, NEW o \in Nat, NEW n \in Nat,
         Config(i, a, b, o, n) \in X, n >= p.particles[i].min
  PROVE  /\ i + 1 # EndOf(p) => Config(i + 1, a, b, o, 0) \in X
         /\ i + 1 = EndOf(p) => Config(i + 1, a, b, IF a THEN o ELSE o + 1, 0) \in X
  <1> DEFINE c == Config(i, a, b, o, n)
             d == Past(p, c)
  <1>1. i \in Nat /\ i + 1 \in Nat /\ o + 1 \in Nat /\ 0 \in Nat
    BY ProgramFacts
  <1>2. c.index = i /\ c.empty = a /\ c.blocked = b /\ c.done = o /\ c.count = n
    BY <1>1 DEF Config
  <1>3. d = Config(i + 1, a, b, IF i + 1 = EndOf(p) /\ ~ a THEN o + 1 ELSE o, 0)
    BY <1>2 DEF Past
  <1>4. Passes(p, c)
    BY <1>2 DEF Passes
  <1>5. Goes(p, c, d)
    BY <1>4 DEF Goes
  <1>6. d \in Configs
    <2> HIDE DEF c, d
    <2> QED
      BY <1>5, GoesConfigs DEF c
  <1>7. d \in X
    BY <1>5, <1>6 DEF Stable
  <1> HIDE DEF c, d
  <1> QED
    BY <1>3, <1>7

LEMMA PastMany ==
  ASSUME NEW p \in Programs, NEW X \in SUBSET Configs, Stable(p, X),
         NEW i \in DOMAIN p.particles, NEW j \in DOMAIN p.particles, i <= j,
         NEW a \in BOOLEAN, NEW b \in BOOLEAN, NEW o \in Nat,
         Config(i, a, b, o, 0) \in X, Skippable(p, i - 1, j)
  PROVE  Config(j, a, b, o, 0) \in X
  <1> DEFINE P == {k \in Nat : Config(i + k, a, b, o, 0) \in X}
             N == j - i
  <1>1. /\ DOMAIN p.particles = 1 .. EndOf(p) - 1 /\ EndOf(p) \in Nat
        /\ i \in Nat /\ j \in Nat /\ N \in Nat /\ i >= 1 /\ j < EndOf(p)
    BY ProgramFacts
  <1>2. 0 \in P
    <2>1. i + 0 = i
      BY <1>1
    <2> QED
      BY <2>1
  <1>3. ASSUME NEW k \in 0 .. N - 1, k \in P PROVE k + 1 \in P
    <2>1. /\ i + k \in DOMAIN p.particles /\ i + k \in (i - 1) + 1 .. j - 1
          /\ (i + k) + 1 = i + (k + 1) /\ (i + k) + 1 # EndOf(p) /\ k + 1 \in Nat
      BY <1>1, <1>3
    <2>2. p.particles[i + k].min = 0
      BY <2>1 DEF Skippable
    <2>3. 0 >= p.particles[i + k].min /\ 0 \in Nat
      BY <2>2
    <2>4. Config((i + k) + 1, a, b, o, 0) \in X
      BY <1>3, <2>1, <2>3, PastOne
    <2> QED
      BY <2>1, <2>4
  <1> HIDE DEF P
  <1>4. \A k \in 0 .. N : k \in P
    <2> HIDE DEF N
    <2> QED
      BY <1>1, <1>2, <1>3, UpTo0
  <1>5. N \in P /\ i + N = j
    BY <1>1, <1>4
  <1> QED
    BY <1>5 DEF P

-----------------------------------------------------------------------------
(* Every state that takes a child has a configuration that does.           *)
LEMMA FromStart ==
  ASSUME NEW p \in Programs, NEW X \in SUBSET Configs, Stable(p, X), NEW j \in DOMAIN p.particles,
         NEW o \in Nat, Config(1, TRUE, FALSE, o, 0) \in X, Skippable(p, 0, j)
  PROVE  Config(j, TRUE, FALSE, o, 0) \in X
  <1>1. 1 \in DOMAIN p.particles /\ 1 <= j /\ 1 - 1 = 0
    BY ProgramFacts
  <1>2. TRUE \in BOOLEAN /\ FALSE \in BOOLEAN
    OBVIOUS
  <1>3. Skippable(p, 1 - 1, j)
    BY <1>1
  <1> QED
    BY <1>1, <1>2, <1>3, PastMany

LEMMA PastSeed ==
  ASSUME NEW p \in Programs, NEW X \in SUBSET Configs, Stable(p, X),
         NEW q \in States, q.at \in DOMAIN p.particles, Seed(q) \in X, Enough(p, q)
  PROVE  /\ \A j \in DOMAIN p.particles :
              j > q.at /\ Skippable(p, q.at, j) => Config(j, FALSE, FALSE, q.done, 0) \in X
         /\ Skippable(p, q.at, EndOf(p)) => Config(EndOf(p), FALSE, FALSE, q.done + 1, 0) \in X
  <1> DEFINE i == q.at
             n == EndOf(p) - 1
  <1>1. /\ DOMAIN p.particles = 1 .. n /\ n \in Nat /\ n + 1 = EndOf(p) /\ EndOf(p) \in Nat
        /\ i \in 1 .. n /\ i # 0
    BY ProgramFacts
  <1>2. q.done \in Nat /\ q.count \in Nat /\ q.done + 1 \in Nat
    BY DEF States
  <1>3. Config(i, FALSE, FALSE, q.done, q.count) \in X /\ q.count >= p.particles[i].min
    BY <1>1 DEF Seed, Enough
  <1> HIDE DEF i, n
  <1>4. /\ i + 1 # EndOf(p) => Config(i + 1, FALSE, FALSE, q.done, 0) \in X
        /\ i + 1 = EndOf(p) => Config(i + 1, FALSE, FALSE, q.done + 1, 0) \in X
    BY <1>1, <1>2, <1>3, PastOne
  <1>5. ASSUME NEW j \in DOMAIN p.particles, j > i, Skippable(p, i, j)
        PROVE  Config(j, FALSE, FALSE, q.done, 0) \in X
    <2>1. i + 1 \in DOMAIN p.particles /\ i + 1 <= j /\ i + 1 # EndOf(p) /\ (i + 1) - 1 = i
      BY <1>1, <1>5
    <2>2. Config(i + 1, FALSE, FALSE, q.done, 0) \in X
      BY <1>4, <2>1
    <2>3. Skippable(p, (i + 1) - 1, j) /\ FALSE \in BOOLEAN
      BY <1>5, <2>1
    <2> QED
      BY <1>2, <2>1, <2>2, <2>3, PastMany
  <1>6. ASSUME Skippable(p, i, EndOf(p))
        PROVE  Config(EndOf(p), FALSE, FALSE, q.done + 1, 0) \in X
    <2>1. CASE i = n
      BY <1>1, <1>4, <2>1
    <2>2. CASE i # n
      <3>1. n \in DOMAIN p.particles /\ n > i /\ n \in i + 1 .. EndOf(p) - 1
        BY <1>1, <2>2
      <3>2. Skippable(p, i, n)
        <4>1. i + 1 .. n - 1 \subseteq i + 1 .. EndOf(p) - 1
          BY <1>1
        <4> QED
          BY <1>6, <4>1 DEF Skippable
      <3>3. Config(n, FALSE, FALSE, q.done, 0) \in X
        BY <1>5, <3>1, <3>2
      <3>4. 0 >= p.particles[n].min
        <4>1. p.particles[n].min = 0
          BY <1>6, <3>1 DEF Skippable
        <4> QED
          BY <4>1
      <3> QED
        BY <1>1, <1>2, <3>1, <3>3, <3>4, PastOne
    <2> QED
      BY <2>1, <2>2
  <1> QED
    BY <1>5, <1>6 DEF i

LEMMA TakeHeld ==
  ASSUME NEW p \in Programs, NEW X \in SUBSET Configs, Stable(p, X),
         NEW q \in States, q.at \in DOMAIN p.particles \cup {0}, Seed(q) \in X,
         NEW j \in DOMAIN p.particles, NEW s \in Take(p, q, j)
  PROVE  \E c \in X : c.index = j /\ Below(c.count, p.particles[j].max) /\ Taken(c) = Seed(s)
  <1> DEFINE state(d, n) == [done |-> d, at |-> j, count |-> n]
             m == p.particles[j].max
  <1>1. /\ j \in Nat /\ j # 0 /\ 0 \in Nat /\ q.done \in Nat /\ q.count \in Nat /\ q.done + 1 \in Nat
        /\ q.at \in Nat /\ Below(0, m)
    <2>1. j \in Nat /\ j # 0 /\ Below(0, m)
      BY ProgramFacts DEF Below
    <2> QED
      BY <2>1 DEF States
  <1>2. ASSUME NEW a \in BOOLEAN, NEW o \in Nat, NEW n \in Nat, Config(j, a, FALSE, o, n) \in X,
               Below(n, m), s = state(o, n + 1)
        PROVE  \E c \in X : c.index = j /\ Below(c.count, m) /\ Taken(c) = Seed(s)
    <2>1. Seed(s) = Config(j, FALSE, FALSE, o, n + 1)
      BY <1>1, <1>2 DEF Seed
    <2>2. Taken(Config(j, a, FALSE, o, n)) = Config(j, FALSE, FALSE, o, n + 1)
      BY DEF Taken, Config
    <2>3. Config(j, a, FALSE, o, n).index = j /\ Config(j, a, FALSE, o, n).count = n
      BY DEF Config
    <2> QED
      BY <1>2, <2>1, <2>2, <2>3
  <1>3. ASSUME j = q.at, Below(q.count, m), s = state(q.done, q.count + 1)
        PROVE  \E c \in X : c.index = j /\ Below(c.count, m) /\ Taken(c) = Seed(s)
    <2>1. Config(j, FALSE, FALSE, q.done, q.count) \in X
      BY <1>1, <1>3 DEF Seed
    <2> QED
      BY <1>1, <1>2, <1>3, <2>1
  <1>4. ASSUME j > q.at, Enough(p, q), Skippable(p, q.at, j), s = state(q.done, 1)
        PROVE  \E c \in X : c.index = j /\ Below(c.count, m) /\ Taken(c) = Seed(s)
    <2>1. \E a \in BOOLEAN : Config(j, a, FALSE, q.done, 0) \in X
      <3>1. CASE q.at = 0
        <4>1. Config(1, TRUE, FALSE, q.done, 0) \in X
          BY <3>1 DEF Seed
        <4>2. Config(j, TRUE, FALSE, q.done, 0) \in X
          BY <1>1, <1>4, <3>1, <4>1, FromStart
        <4> QED
          BY <4>2
      <3>2. CASE q.at # 0
        BY <1>4, <3>2, PastSeed
      <3> QED
        BY <3>1, <3>2
    <2>2. 0 + 1 = 1
      OBVIOUS
    <2> QED
      BY <1>1, <1>2, <1>4, <2>1, <2>2
  <1>5. ASSUME q.at # 0, Enough(p, q), Skippable(p, q.at, Len(p.particles) + 1),
               Below(q.done + 1, p.outer.max), Skippable(p, 0, j), s = state(q.done + 1, 1)
        PROVE  \E c \in X : c.index = j /\ Below(c.count, m) /\ Taken(c) = Seed(s)
    <2> DEFINE e == Config(EndOf(p), FALSE, FALSE, q.done + 1, 0)
    <2>1. e \in X
      BY <1>5, PastSeed DEF EndOf
    <2>2. Begun(e) = Config(1, TRUE, FALSE, q.done + 1, 0) /\ Begins(p, e)
      BY <1>5 DEF Begun, Begins, Config
    <2>3. Begun(e) \in X
      <3>1. Begun(e) \in Configs
        <4> HIDE DEF e
        <4>1. 1 \in Nat /\ TRUE \in BOOLEAN /\ FALSE \in BOOLEAN
          OBVIOUS
        <4>2. Config(1, TRUE, FALSE, q.done + 1, 0) \in Configs
          BY <1>1, <4>1, ConfigFields
        <4> QED
          BY <2>2, <4>2
      <3>2. Goes(p, e, Begun(e))
        BY <2>2 DEF Goes
      <3> QED
        BY <2>1, <3>1, <3>2 DEF Stable
    <2>4. Config(j, TRUE, FALSE, q.done + 1, 0) \in X
      BY <1>1, <1>5, <2>2, <2>3, FromStart
    <2>5. 0 + 1 = 1
      OBVIOUS
    <2> QED
      BY <1>1, <1>2, <1>5, <2>4, <2>5
  <1>6. \/ j = q.at /\ Below(q.count, m) /\ s = state(q.done, q.count + 1)
        \/ j > q.at /\ Enough(p, q) /\ Skippable(p, q.at, j) /\ s = state(q.done, 1)
        \/ /\ q.at # 0 /\ Enough(p, q) /\ Skippable(p, q.at, Len(p.particles) + 1)
           /\ Below(q.done + 1, p.outer.max) /\ Skippable(p, 0, j) /\ s = state(q.done + 1, 1)
    BY DEF Take
  <1> QED
    BY <1>3, <1>4, <1>5, <1>6

-----------------------------------------------------------------------------
(* A frontier that holds a stable set loses no child and no end.           *)
Standing(p, w) == \A q \in Reached(p, w) : q.at \in DOMAIN p.particles \cup {0}

LEMMA ReachedFrom ==
  ASSUME NEW l, NEW w \in Seq(SUBSET Nat), NEW a \in SUBSET Nat, NEW s \in Reached(l, Append(w, a))
  PROVE  \E q \in Reached(l, w) : \E j \in a : q \in States /\ s \in Take(l, q, j)
  <1> DEFINE v == Append(w, a)
  <1>1. Reached(l, v) = UNION {Take(l, x, k) : x \in Reached(l, w), k \in a}
    BY ReachedMore
  <1>2. Reached(l, w) \subseteq States
    BY ReachedStates
  <1> HIDE DEF v
  <1>3. PICK q \in Reached(l, w), j \in a : s \in Take(l, q, j)
    BY <1>1 DEF v
  <1> QED
    BY <1>2, <1>3

LEMMA ReachedBy ==
  ASSUME NEW l, NEW w \in Seq(SUBSET Nat), NEW a \in SUBSET Nat, NEW q \in Reached(l, w), NEW j \in a,
         NEW s \in Take(l, q, j)
  PROVE  s \in Reached(l, Append(w, a))
  <1> DEFINE v == Append(w, a)
  <1>1. Reached(l, v) = UNION {Take(l, x, k) : x \in Reached(l, w), k \in a}
    BY ReachedMore
  <1> HIDE DEF v
  <1>2. s \in Reached(l, v)
    BY <1>1
  <1> QED
    BY <1>2 DEF v

LEMMA StandingMore ==
  ASSUME NEW p \in Programs, NEW w \in Seq(SUBSET Nat), NEW a \in SUBSET DOMAIN p.particles
  PROVE  /\ \A q \in Reached(p, Append(w, a)) : q.at \in a
         /\ Standing(p, Append(w, a))
  <1>1. a \in SUBSET Nat
    BY ProgramFacts
  <1>2. ASSUME NEW s \in Reached(p, Append(w, a)) PROVE s.at \in a
    <2>1. PICK q \in Reached(p, w), j \in a : s \in Take(p, q, j)
      BY <1>1, ReachedFrom
    <2> QED
      BY <2>1 DEF Take
  <1> QED
    BY <1>2 DEF Standing

LEMMA FittingHeld ==
  ASSUME program \in Programs, NEW w \in Seq(SUBSET Nat), NEW q \in Seq(Sound(Lift(program), w)), NEW n,
         Retains(program, w, Within(q)), Standing(program, w),
         NEW s \in Reached(program, Append(w, DeclaringIn(program, n)))
  PROVE  Seed(s) \in Within(Fitting(q, n))
  <1> DEFINE a == DeclaringIn(program, n)
  <1>1. a \in SUBSET Nat /\ a \subseteq DOMAIN program.particles
    BY ProgramFacts DEF DeclaringIn
  <1>2. PICK t \in Reached(program, w), j \in a : t \in States /\ s \in Take(program, t, j)
    BY <1>1, ReachedFrom
  <1>3. PICK X \in SUBSET Configs : X \subseteq Within(q) /\ Seeds(program, w) \subseteq X /\ Stable(program, X)
    BY DEF Retains
  <1>4. /\ t \in States /\ t.at \in DOMAIN program.particles \cup {0} /\ Seed(t) \in X
        /\ j \in DOMAIN program.particles /\ program.particles[j].name = n
    BY <1>1, <1>2, <1>3 DEF Seeds, Standing, DeclaringIn
  <1>5. PICK c \in X : c.index = j /\ Below(c.count, program.particles[j].max) /\ Taken(c) = Seed(s)
    BY <1>2, <1>3, <1>4, TakeHeld
  <1>6. c \in Within(q)
    BY <1>3
  <1> QED
    BY <1>4, <1>5, <1>6, FittingHolds

LEMMA EndHeld ==
  ASSUME NEW p \in Programs, DOMAIN p.particles # {}, NEW X \in SUBSET Configs, Stable(p, X),
         NEW q \in States, q.at \in DOMAIN p.particles \cup {0}, Seed(q) \in X, Ends(p, q)
  PROVE  \E c \in X : c.index = EndOf(p) /\ MayStop(p, c.done)
  <1>1. /\ DOMAIN p.particles = 1 .. EndOf(p) - 1 /\ EndOf(p) \in Nat /\ 1 # EndOf(p)
        /\ q.done \in Nat /\ q.count \in Nat /\ q.done + 1 \in Nat
    BY ProgramFacts DEF States
  <1>2. ASSUME NEW o \in Nat, Skippable(p, 0, EndOf(p)) \/ o >= p.outer.min,
               p.outer.max = Unbounded \/ o <= p.outer.max
        PROVE  MayStop(p, o)
    <2>1. 0 + 1 .. EndOf(p) - 1 = DOMAIN p.particles
      BY <1>1
    <2> QED
      BY <1>2, <2>1 DEF MayStop, Skippable
  <1>3. CASE q.at = 0
    <2> DEFINE c == Config(1, TRUE, FALSE, q.done, 0)
    <2>1. c \in X /\ MayStop(p, q.done)
      BY <1>1, <1>2, <1>3 DEF Seed, Ends, EndOf
    <2>2. Finishes(p, c) /\ Finished(p, c) = Config(EndOf(p), FALSE, FALSE, q.done, 0)
      BY <1>1, <2>1 DEF Finishes, Finished, Config
    <2>3. Goes(p, c, Finished(p, c))
      BY <2>2 DEF Goes
    <2>4. Finished(p, c) \in Configs
      <3> HIDE DEF c
      <3> QED
        BY <2>1, <2>3, GoesConfigs
    <2>5. Finished(p, c) \in X
      BY <2>1, <2>3, <2>4 DEF Stable
    <2>6. Finished(p, c).index = EndOf(p) /\ Finished(p, c).done = q.done
      BY <2>2 DEF Config
    <2> HIDE DEF c
    <2> QED
      BY <2>1, <2>5, <2>6
  <1>4. CASE q.at # 0
    <2> DEFINE d == Config(EndOf(p), FALSE, FALSE, q.done + 1, 0)
    <2>1. Enough(p, q) /\ Skippable(p, q.at, EndOf(p)) /\ q.at \in DOMAIN p.particles
      BY <1>4 DEF Ends, EndOf
    <2>2. MayStop(p, q.done + 1)
      BY <1>1, <1>2, <1>4 DEF Ends, EndOf
    <2>3. d \in X
      BY <2>1, PastSeed
    <2>4. d.index = EndOf(p) /\ d.done = q.done + 1
      BY DEF Config
    <2> QED
      BY <2>2, <2>3, <2>4
  <1> QED
    BY <1>3, <1>4

-----------------------------------------------------------------------------
(* No state is lost: what the validator holds between two steps.  While a  *)
(* closure runs, every configuration goes to one that has been found; when *)
(* it has ended, the frontier holds a set that is stable, and compaction   *)
(* takes nothing away.                                                     *)
Live == Within(frontier) \cup Within(queue)

Spreading ==
  /\ frontier \in Seq(Fresh(Lift(program), word)) /\ queue \in Seq(Fresh(Lift(program), word))
  /\ Seeds(program, word) \subseteq Live
  /\ \A c \in Within(frontier) : \A d \in Configs : Goes(program, c, d) => d \in Live

Held ==
  \A s \in Reached(program, Append(word, DeclaringIn(program, name))) : Seed(s) \in Within(paths)

Excused ==
  /\ code \in {"occurrence", "order", "unexpected"} =>
       Reached(program, Append(word, DeclaringIn(program, name))) = {}
  /\ code = "value" => Reached(program, word) = {}
  /\ code = "missing" => \A q \in Reached(program, word) : ~ Ends(program, q)

Kept ==
  /\ Standing(program, word)
  /\ DOMAIN program.particles # {} =>
       /\ phase \in {"closing root", "closing child"} => Spreading
       /\ phase = "content" => Retains(program, word, Within(frontier))
       /\ phase = "closing end" => Retains(program, word, Live)
  /\ phase = "child" => Held
  /\ Excused

LEMMA NoneWithin == Within(<<>>) = {}
  BY DEF Within

LEMMA AppendedWithin ==
  ASSUME NEW s \in Seq(Regions), NEW r \in Regions, NEW c \in Within(Append(s, r))
  PROVE  c \in Within(s) \/ InRegion(r, c)
  <1>1. PICK k \in DOMAIN Append(s, r) : InRegion(Append(s, r)[k], c)
    BY DEF Within
  <1>2. /\ Len(s) \in Nat /\ DOMAIN s = 1 .. Len(s) /\ DOMAIN Append(s, r) = 1 .. Len(s) + 1
        /\ \A i \in 1 .. Len(s) : Append(s, r)[i] = s[i]
        /\ Append(s, r)[Len(s) + 1] = r
    BY LenProperties, AppendProperties
  <1>3. c \in Configs
    BY DEF Within
  <1>4. CASE k \in 1 .. Len(s)
    BY <1>1, <1>2, <1>3, <1>4 DEF Within
  <1>5. CASE k = Len(s) + 1
    BY <1>1, <1>2, <1>5
  <1>6. k \in 1 .. Len(s) \/ k = Len(s) + 1
    BY <1>1, <1>2
  <1> QED
    BY <1>4, <1>5, <1>6

LEMMA RetainsMore ==
  ASSUME NEW p, NEW w, NEW S, NEW T, S \subseteq T, Retains(p, w, S)
  PROVE  Retains(p, w, T)
  BY DEF Retains

LEMMA InitKept == Init => Kept
  <1> SUFFICES ASSUME Init PROVE Kept
    OBVIOUS
  <1> DEFINE l == Lift(program)
             c == Config(1, TRUE, FALSE, 0, 0)
  <1>1. /\ program \in Programs /\ IsLifted(l) /\ word = <<>> /\ frontier = <<>>
        /\ phase = "closing root" /\ code = "none"
        /\ DOMAIN program.particles # {} => queue = <<Initial>>
    BY Lifting DEF Init, Particles
  <1>2. Reached(program, word) = {Beginning}
    BY <1>1, ReachedFirst
  <1>3. Standing(program, word)
    BY <1>2 DEF Standing, Beginning
  <1>4. ASSUME DOMAIN program.particles # {} PROVE Spreading
    <2>1. Initial \in Fresh(l, <<>>)
      <3> HIDE DEF l
      <3> QED
        BY <1>1, InitialSound
    <2>2. frontier \in Seq(Fresh(l, word)) /\ queue \in Seq(Fresh(l, word))
      <3> DEFINE F == Fresh(l, word)
      <3>1. Initial \in F
        BY <1>1, <2>1
      <3> HIDE DEF F
      <3>2. <<>> \in Seq(F) /\ <<Initial>> \in Seq(F)
        BY <3>1, EmptySeq
      <3> QED
        BY <1>1, <1>4, <3>2 DEF F
    <2>3. Within(frontier) = {}
      BY <1>1, NoneWithin
    <2>4. Seeds(program, word) = {c}
      <3>1. Seed(Beginning) = c
        BY DEF Seed, Beginning
      <3> HIDE DEF c
      <3>2. Seeds(program, word) = {Seed(Beginning)}
        BY <1>2 DEF Seeds
      <3> QED
        BY <3>1, <3>2
    <2>5. InRegion(Initial, c) /\ c \in Configs
      BY DEF InRegion, Holds, Initial, Over, At, Constant, Line, Config, Configs
    <2>6. c \in Within(queue)
      <3> HIDE DEF c
      <3>1. queue = <<Initial>>
        BY <1>1, <1>4
      <3> QED
        BY <2>5, <3>1 DEF Within
    <2> QED
      BY <2>2, <2>3, <2>4, <2>6 DEF Spreading, Live
  <1> QED
    BY <1>1, <1>3, <1>4 DEF Kept, Excused

(* One turn of the closure's loop.                                         *)
LEMMA LiveGrows ==
  ASSUME IInv, CloseRegion
  PROVE  /\ Within(frontier) \cup Within(queue) \subseteq Within(frontier') \cup Within(queue')
         /\ UNCHANGED <<program, phase, paths, name, previous, starts, code, word>>
  <1> DEFINE S == Sound(Lift(program), word)
             r == Head(queue)
  <1>1. /\ program \in Programs /\ word \in Seq(SUBSET Nat)
        /\ frontier \in Seq(S) /\ queue \in Seq(S) /\ queue # <<>> /\ S \subseteq Regions
    BY Facts DEF IInv, Followed, CloseRegion, Sound
  <1>2. /\ \/ Contained(frontier, r) /\ frontier' = frontier /\ queue' = Tail(queue)
           \/ frontier' = Append(frontier, r) /\ queue' = Tail(queue) \o Successors(r)
        /\ UNCHANGED <<program, phase, paths, name, previous, starts, code, word>>
    BY DEF CloseRegion
  <1>3. r \in S /\ Tail(queue) \in Seq(S)
    <2> HIDE DEF S
    <2> QED
      BY <1>1, HeadTailProperties
  <1>4. frontier \in Seq(Regions) /\ queue \in Seq(Regions) /\ Tail(queue) \in Seq(Regions) /\ r \in Regions
    <2> HIDE DEF S, r
    <2>1. frontier \in Seq(Regions) /\ queue \in Seq(Regions)
      BY <1>1, SeqMonotonic
    <2>2. Tail(queue) \in Seq(Regions)
      BY <1>1, <1>3, SeqMonotonic
    <2> QED
      BY <1>1, <1>3, <2>1, <2>2
  <1>5. Successors(r) \in Seq(Regions)
    <2> HIDE DEF r
    <2>1. Successors(r) \in Seq(Fresh(Lift(program), word))
      BY <1>1, <1>3, SuccessorsSound
    <2>2. Fresh(Lift(program), word) \subseteq Regions
      BY <1>1 DEF Fresh
    <2> DEFINE F == Fresh(Lift(program), word)
    <2> HIDE DEF F
    <2> QED
      BY <2>1, <2>2, SeqMonotonic DEF F
  <1>6. ASSUME NEW c \in Within(queue) PROVE InRegion(r, c) \/ c \in Within(Tail(queue))
    BY <1>1, <1>4, WithinTail
  <1>7. CASE Contained(frontier, r) /\ frontier' = frontier /\ queue' = Tail(queue)
    <2>1. ASSUME NEW c \in Configs, InRegion(r, c) PROVE c \in Within(frontier)
      <3>1. PICK i \in DOMAIN frontier : ContainsRegion(frontier[i], r)
        BY <1>7 DEF Contained
      <3>2. frontier[i] \in Regions
        BY <1>4, LenProperties, ElementOfSeq
      <3> HIDE DEF r
      <3>3. InRegion(frontier[i], c)
        BY <1>4, <2>1, <3>1, <3>2, ContainsHolds
      <3> QED
        BY <3>3 DEF Within
    <2>2. Within(queue) \subseteq Configs
      BY DEF Within
    <2> HIDE DEF r
    <2> QED
      BY <1>2, <1>6, <1>7, <2>1, <2>2
  <1>8. CASE frontier' = Append(frontier, r) /\ queue' = Tail(queue) \o Successors(r)
    <2> HIDE DEF r
    <2>1. /\ Within(frontier) \subseteq Within(Append(frontier, r))
          /\ \A c \in Configs : InRegion(r, c) => c \in Within(Append(frontier, r))
      BY <1>4, WithinAppended
    <2>2. Within(Tail(queue)) \subseteq Within(Tail(queue) \o Successors(r))
      BY <1>4, <1>5, WithinJoined
    <2>3. Within(queue) \subseteq Configs
      BY DEF Within
    <2> QED
      BY <1>2, <1>6, <1>8, <2>1, <2>2, <2>3
  <1> QED
    BY <1>2, <1>7, <1>8

-----------------------------------------------------------------------------
LEMMA SpreadingKept ==
  ASSUME IInv, CloseRegion, Spreading
  PROVE  Spreading'
  <1> DEFINE F == Fresh(Lift(program), word)
             r == Head(queue)
  <1>1. /\ program \in Programs /\ word \in Seq(SUBSET Nat)
        /\ frontier \in Seq(F) /\ queue \in Seq(F) /\ queue # <<>> /\ F \subseteq Regions
    BY Facts DEF Spreading, Fresh, Sound, CloseRegion
  <1>2. \/ frontier' = frontier /\ queue' = Tail(queue)
        \/ frontier' = Append(frontier, r) /\ queue' = Tail(queue) \o Successors(r)
    BY DEF CloseRegion
  <1>3. /\ Within(frontier) \cup Within(queue) \subseteq Within(frontier') \cup Within(queue')
        /\ UNCHANGED <<program, phase, paths, name, previous, starts, code, word>>
    BY LiveGrows
  <1>4. r \in F /\ Tail(queue) \in Seq(F)
    <2> HIDE DEF F
    <2> QED
      BY <1>1, HeadTailProperties
  <1> HIDE DEF r
  <1>5. r \in Sound(Lift(program), word) /\ Zeroed(r) /\ r \in Regions
    BY <1>1, <1>4 DEF Fresh
  <1>6. Successors(r) \in Seq(F)
    BY <1>1, <1>5, SuccessorsSound
  <1> HIDE DEF F
  <1>7. frontier' \in Seq(F) /\ queue' \in Seq(F)
    <2>1. Tail(queue) \o Successors(r) \in Seq(F)
      BY <1>4, <1>6, Joined
    <2>2. Append(frontier, r) \in Seq(F)
      BY <1>1, <1>4, AppendProperties
    <2> QED
      BY <1>1, <1>2, <1>4, <2>1, <2>2
  <1>8. Seeds(program, word) \subseteq Live'
    BY <1>3 DEF Spreading, Live
  <1>9. ASSUME NEW c \in Within(frontier'), NEW d \in Configs, Goes(program, c, d)
        PROVE  d \in Live'
    <2>1. c \in Configs
      BY DEF Within
    <2>2. c \in Within(frontier) => d \in Live'
      BY <1>3, <1>9 DEF Spreading, Live
    <2>3. CASE frontier' = frontier
      BY <1>9, <2>2, <2>3
    <2>4. CASE frontier' = Append(frontier, r) /\ queue' = Tail(queue) \o Successors(r)
      <3>1. frontier \in Seq(Regions) /\ Tail(queue) \in Seq(Regions) /\ Successors(r) \in Seq(Regions)
        <4>1. frontier \in Seq(Regions)
          BY <1>1, SeqMonotonic
        <4>2. Tail(queue) \in Seq(Regions)
          BY <1>1, <1>4, SeqMonotonic
        <4>3. Successors(r) \in Seq(Regions)
          BY <1>1, <1>6, SeqMonotonic
        <4> QED
          BY <4>1, <4>2, <4>3
      <3>2. c \in Within(frontier) \/ InRegion(r, c)
        <4>1. c \in Within(Append(frontier, r))
          BY <2>4
        <4> QED
          BY <1>5, <3>1, <4>1, AppendedWithin
      <3>3. CASE InRegion(r, c)
        <4>1. d \in Within(Successors(r))
          BY <1>1, <1>5, <1>9, <2>1, <3>3, SuccessorsCovered
        <4>2. Within(Successors(r)) \subseteq Within(Tail(queue) \o Successors(r))
          BY <3>1, WithinJoined
        <4> QED
          BY <2>4, <4>1, <4>2 DEF Live
      <3> QED
        BY <2>2, <3>2, <3>3
    <2> QED
      BY <1>2, <2>3, <2>4
  <1> QED
    BY <1>3, <1>7, <1>8, <1>9 DEF Spreading, F

LEMMA CloseRegionKept == IInv /\ Kept /\ CloseRegion => Kept'
  <1> SUFFICES ASSUME IInv, Kept, CloseRegion PROVE Kept'
    OBVIOUS
  <1>1. /\ Live \subseteq Live'
        /\ UNCHANGED <<program, phase, paths, name, previous, starts, code, word>>
        /\ phase \in {"closing root", "closing child", "closing end"}
    BY LiveGrows DEF Live, CloseRegion, Closing
  <1>2. Spreading => Spreading'
    BY SpreadingKept
  <1>3. Retains(program, word, Live) => Retains(program, word, Live')
    BY <1>1, RetainsMore
  <1>4. Excused'
    BY <1>1 DEF Kept, Excused
  <1> QED
    BY <1>1, <1>2, <1>3, <1>4 DEF Kept

LEMMA ClosedKept == IInv /\ Kept /\ Closed => Kept'
  <1> SUFFICES ASSUME IInv, Kept, Closed PROVE Kept'
    OBVIOUS
  <1> DEFINE closed == Compact(frontier, End)
  <1>1. /\ phase \in {"closing root", "closing child"} /\ queue = <<>> /\ frontier' = closed
        /\ phase' = "content" /\ UNCHANGED <<program, paths, name, code, word>>
    BY DEF Closed
  <1>2. ASSUME DOMAIN program.particles # {}
        PROVE  Retains(program, word, Within(closed))
    <2> DEFINE X == Within(frontier)
    <2>1. Spreading /\ Live = X
      BY <1>1, <1>2, NoneWithin DEF Kept, Live
    <2>2. X \in SUBSET Configs /\ Seeds(program, word) \subseteq X /\ Stable(program, X)
      BY <2>1 DEF Spreading, Stable, Within
    <2>3. frontier \in Seq(Sound(Lift(program), word)) /\ End = EndOf(Lift(program)) /\ End \in Nat
      BY Facts DEF IInv, Followed, IsLifted
    <2>4. X \subseteq Within(closed)
      <3> DEFINE S == Sound(Lift(program), word)
      <3>1. S \subseteq Regions /\ \A r \in S : r.index \in 1 .. End
        BY <2>3 DEF Sound
      <3> HIDE DEF S
      <3>2. frontier \in Seq(S)
        BY <2>3 DEF S
      <3>3. frontier \in Seq(Regions)
        BY <3>1, <3>2, SeqMonotonic
      <3>4. \A i \in DOMAIN frontier : frontier[i].index \in 1 .. End
        BY <3>1, <3>2, LenProperties, ElementOfSeq
      <3> QED
        BY <2>3, <3>3, <3>4, CompactWithin
    <2> HIDE DEF X, closed
    <2> QED
      BY <2>2, <2>4 DEF Retains
  <1> QED
    BY <1>1, <1>2 DEF Kept, Excused

LEMMA EndRootKept == IInv /\ Kept /\ EndRoot => Kept'
  <1> SUFFICES ASSUME IInv, Kept, EndRoot PROVE Kept'
    OBVIOUS
  <1>1. /\ phase = "content" /\ phase' = "closing end" /\ frontier' = <<>>
        /\ DOMAIN program.particles # {} => queue' = frontier
        /\ UNCHANGED <<program, paths, name, code, word>>
    BY DEF EndRoot, BeginClosure, Particles
  <1>2. ASSUME DOMAIN program.particles # {} PROVE Retains(program, word, Live')
    <2>1. Within(frontier) \subseteq Live'
      BY <1>1, <1>2 DEF Live
    <2>2. Retains(program, word, Within(frontier))
      BY <1>1, <1>2 DEF Kept
    <2> QED
      BY <2>1, <2>2, RetainsMore
  <1> QED
    BY <1>1, <1>2 DEF Kept, Excused

LEMMA WrongContentKept == IInv /\ Kept /\ WrongContent => Kept'
  BY DEF WrongContent, Kept, Excused

-----------------------------------------------------------------------------
LEMMA StartChildKept == IInv /\ Kept /\ StartChild => Kept'
  <1> SUFFICES ASSUME IInv, Kept, StartChild PROVE Kept'
    OBVIOUS
  <1>1. /\ phase = "content" /\ UNCHANGED <<program, queue, previous, starts, word>>
        /\ program \in Programs /\ word \in Seq(SUBSET Nat) /\ code = "none"
        /\ frontier \in Seq(Sound(Lift(program), word)) /\ Standing(program, word)
    BY Facts DEF StartChild, IInv, Followed, Explained, Kept
  <1>2. PICK n \in NamesOf(program) \cup {Unknown} :
          /\ name' = n /\ paths' = Fitting(frontier, n)
          /\ IF paths' = <<>>
               THEN phase' = "rejected" /\ code' = ChildFailureCode(n)
               ELSE phase' = "child" /\ code' = code
    BY DEF StartChild, Names, NamesOf, Particles
  <1>3. ASSUME NEW s \in Reached(program, Append(word, DeclaringIn(program, n)))
        PROVE  Seed(s) \in Within(paths')
    <2>1. DOMAIN program.particles # {}
      <3>1. DeclaringIn(program, n) \in SUBSET DOMAIN program.particles
        BY DEF DeclaringIn
      <3>2. s.at \in DeclaringIn(program, n)
        BY <1>1, <3>1, StandingMore
      <3> QED
        BY <3>1, <3>2
    <2>2. Retains(program, word, Within(frontier))
      BY <1>1, <2>1 DEF Kept
    <2>3. Seed(s) \in Within(Fitting(frontier, n))
      BY <1>1, <2>2, FittingHeld
    <2> QED
      BY <1>2, <2>3
  <1>4. phase' = "child" => Held'
    BY <1>1, <1>2, <1>3 DEF Held
  <1>5. Excused'
    <2>1. CASE paths' = <<>>
      <3>1. Reached(program, Append(word, DeclaringIn(program, n))) = {}
        BY <1>3, <2>1, NoneWithin
      <3>2. code' \in {"occurrence", "order", "unexpected"}
        BY <1>1, <1>2, <2>1, FailureExplained
      <3> QED
        BY <1>1, <1>2, <3>1, <3>2 DEF Excused
    <2>2. CASE paths' # <<>>
      BY <1>1, <1>2, <2>2 DEF Excused
    <2> QED
      BY <2>1, <2>2
  <1>6. phase' \in {"rejected", "child"}
    BY <1>2
  <1> QED
    BY <1>1, <1>4, <1>5, <1>6 DEF Kept

(* What is left of the paths holds what the child leads to.                *)
LEMMA ValidHeld ==
  ASSUME IInv, Kept, phase = "child", NEW a \in SUBSET DeclaringIn(program, name),
         NEW s \in Reached(program, Append(word, a)), NEW K, K = {i \in DOMAIN paths : paths[i].index \in a}
  PROVE  Seed(s) \in Within(FlattenSeq(Choosing(paths, K)))
  <1> DEFINE b == DeclaringIn(program, name)
             F == Fit(Lift(program), word, name)
             valid == FlattenSeq(Choosing(paths, K))
  <1>1. /\ program \in Programs /\ word \in Seq(SUBSET Nat) /\ paths \in Seq(F)
        /\ b \in SUBSET DOMAIN program.particles /\ a \in SUBSET DOMAIN program.particles
        /\ b \in SUBSET Nat /\ a \in SUBSET Nat
    BY Facts DEF IInv, Followed, DeclaringIn
  <1>2. s \in Reached(program, Append(word, b))
    <2>1. PICK q \in Reached(program, word), j \in a : s \in Take(program, q, j)
      BY <1>1, ReachedFrom
    <2>2. j \in b
      OBVIOUS
    <2> HIDE DEF b
    <2> QED
      BY <1>1, <2>1, <2>2, ReachedBy
  <1>3. Seed(s) \in Within(paths)
    BY <1>2 DEF Kept, Held
  <1>4. s.at \in a /\ s.at # 0
    BY <1>1, StandingMore, ProgramFacts
  <1>5. PICK k \in DOMAIN paths : InRegion(paths[k], Seed(s))
    BY <1>3 DEF Within
  <1>6. Seed(s).index = s.at /\ paths[k].index = Seed(s).index
    BY <1>4, <1>5 DEF Seed, Config, InRegion
  <1>7. k \in K /\ K \in SUBSET DOMAIN paths
    BY <1>4, <1>5, <1>6
  <1> HIDE DEF F
  <1>8. PICK m \in DOMAIN valid : valid[m] = paths[k]
    BY <1>1, <1>7, OnlyHas
  <1>9. Seed(s) \in Configs
    BY <1>3 DEF Within
  <1> HIDE DEF valid
  <1> QED
    BY <1>5, <1>8, <1>9 DEF Within, valid

LEMMA EndChildKept == IInv /\ Kept /\ EndChild => Kept'
  <1> SUFFICES ASSUME IInv, Kept, EndChild PROVE Kept'
    OBVIOUS
  <1> DEFINE l == Lift(program)
             D == DOMAIN program.particles
             KeptOf(a) == {i \in DOMAIN paths : paths[i].index \in a}
             validOf(a) == FlattenSeq(Choosing(paths, KeptOf(a)))
  <1>1. PICK a \in SUBSET DeclaringIn(program, name) :
          /\ word' = Append(word, a)
          /\ IF validOf(a) = <<>>
               THEN phase' = "rejected" /\ code' = "value" /\ frontier' = <<>>
                    /\ UNCHANGED <<previous, queue>>
               ELSE BeginClosure(validOf(a), "closing child") /\ previous' = name /\ code' = code
    BY DEF EndChild, Only, Choosing, Particles, DeclaringIn
  <1> DEFINE K == KeptOf(a)
             valid == validOf(a)
             v == Append(word, a)
  <1>2. /\ phase = "child" /\ UNCHANGED <<program, name>> /\ code = "none"
        /\ program \in Programs /\ IsLifted(l) /\ word \in Seq(SUBSET Nat)
        /\ paths \in Seq(Fit(l, word, name))
        /\ a \in SUBSET D /\ a \in SUBSET Nat
    BY <1>1, Facts DEF EndChild, IInv, Followed, Explained, DeclaringIn
  <1>3. /\ word' = v
        /\ \/ valid = <<>> /\ phase' = "rejected" /\ code' = "value"
           \/ phase' = "closing child" /\ frontier' = <<>> /\ (D # {} => queue' = valid) /\ code' = code
    BY <1>1 DEF BeginClosure, Particles
  <1>4. valid \in Seq(Fresh(l, v))
    <2> HIDE DEF l
    <2>1. K \in SUBSET DOMAIN paths /\ \A i \in K : paths[i].index \in a
      OBVIOUS
    <2> HIDE DEF K, KeptOf
    <2> QED
      BY <1>2, <2>1, ValidFresh DEF K
  <1>5. \A s \in Reached(program, v) : Seed(s) \in Within(valid)
    <2>1. K = {i \in DOMAIN paths : paths[i].index \in a}
      OBVIOUS
    <2> HIDE DEF K, KeptOf
    <2> QED
      BY <1>2, <2>1, ValidHeld DEF K
  <1>6. Standing(program, v)
    BY <1>2, StandingMore
  <1> HIDE DEF valid, K, KeptOf, validOf, v, l
  <1>7. phase' = "closing child" /\ D # {} => Spreading'
    <2>1. SUFFICES ASSUME phase' = "closing child", D # {} PROVE Spreading'
      OBVIOUS
    <2>2. frontier' = <<>> /\ queue' = valid
      BY <1>3, <2>1
    <2>3. <<>> \in Seq(Fresh(l, v)) /\ Within(frontier') = {}
      BY <2>2, EmptySeq, NoneWithin
    <2>4. Seeds(program, v) \subseteq Within(queue')
      BY <1>5, <2>2 DEF Seeds
    <2> QED
      BY <1>2, <1>3, <1>4, <2>2, <2>3, <2>4 DEF Spreading, Live, l
  <1>8. Excused'
    <2>1. CASE valid = <<>> /\ phase' = "rejected" /\ code' = "value"
      <3>1. Reached(program, v) = {}
        BY <1>5, <2>1, NoneWithin
      <3> QED
        BY <1>2, <1>3, <2>1, <3>1 DEF Excused
    <2>2. CASE code' = code
      BY <1>2, <2>2 DEF Excused
    <2> QED
      BY <1>3, <2>1, <2>2
  <1>9. phase' \in {"rejected", "closing child"}
    BY <1>3
  <1> QED
    BY <1>2, <1>3, <1>6, <1>7, <1>8, <1>9 DEF Kept, D

LEMMA DecideKept == IInv /\ Kept /\ Decide => Kept'
  <1> SUFFICES ASSUME IInv, Kept, Decide PROVE Kept'
    OBVIOUS
  <1> DEFINE closed == Compact(frontier, End)
             S == Sound(Lift(program), word)
  <1>1. /\ phase = "closing end" /\ queue = <<>> /\ phase' \in {"accepted", "rejected"}
        /\ UNCHANGED <<program, paths, name, word>> /\ code = "none" /\ code' \in {"none", "missing"}
        /\ code' = "missing" =>
             ~ (Particles = {} \/ \E r \in ToSet(closed) : r.index = End /\ OuterAllowed(r) # <<>>)
    BY DEF Decide, IInv, Explained
  <1>2. /\ program \in Programs /\ word \in Seq(SUBSET Nat) /\ frontier \in Seq(S)
        /\ IsLifted(Lift(program)) /\ End = EndOf(Lift(program)) /\ End \in Nat /\ End = EndOf(program)
    BY Facts DEF IInv, Followed, IsLifted, End, EndOf
  <1>3. ASSUME code' = "missing", NEW q \in Reached(program, word), Ends(program, q) PROVE FALSE
    <2>1. DOMAIN program.particles # {}
      BY <1>1, <1>3 DEF Particles
    <2>2. Retains(program, word, Within(frontier))
      <3>1. Live = Within(frontier)
        BY <1>1, NoneWithin DEF Live
      <3> QED
        BY <1>1, <2>1, <3>1 DEF Kept
    <2>3. PICK X \in SUBSET Configs : X \subseteq Within(frontier) /\ Seeds(program, word) \subseteq X /\ Stable(program, X)
      BY <2>2 DEF Retains
    <2>4. q \in States /\ q.at \in DOMAIN program.particles \cup {0} /\ Seed(q) \in X
      <3>1. q \in States
        BY <1>2, ReachedStates
      <3> QED
        BY <2>3, <3>1 DEF Seeds, Kept, Standing
    <2>5. PICK c \in X : c.index = EndOf(program) /\ MayStop(program, c.done)
      BY <1>2, <1>3, <2>1, <2>3, <2>4, EndHeld
    <2>6. frontier \in Seq(Regions) /\ (\A i \in DOMAIN frontier : frontier[i].index \in 1 .. End)
          /\ closed \in Seq(Regions)
      <3>1. S \subseteq Regions /\ \A r \in S : r.index \in 1 .. End
        BY <1>2 DEF Sound
      <3>2. closed \in Seq(S)
        BY <1>2, CompactSound
      <3> HIDE DEF S, closed
      <3>3. frontier \in Seq(Regions)
        BY <1>2, <3>1, SeqMonotonic
      <3>4. closed \in Seq(Regions)
        BY <3>1, <3>2, SeqMonotonic
      <3>5. \A i \in DOMAIN frontier : frontier[i].index \in 1 .. End
        BY <1>2, <3>1, LenProperties, ElementOfSeq
      <3> QED
        BY <3>3, <3>4, <3>5
    <2>7. c \in Within(closed)
      BY <1>2, <2>3, <2>6, CompactWithin
    <2> HIDE DEF closed
    <2>8. PICK k \in DOMAIN closed : InRegion(closed[k], c)
      BY <2>7 DEF Within
    <2>9. closed[k] \in Regions /\ closed[k] \in ToSet(closed)
      BY <2>6, <2>8, LenProperties, ElementOfSeq DEF ToSet
    <2>10. closed[k].index = End /\ c.done \in Over(closed[k])
      BY <1>2, <2>5, <2>8 DEF InRegion, Holds
    <2>11. PICK s \in Parts(closed[k]) : OuterAllowed(closed[k]) = <<s>>
      BY <1>2, <2>5, <2>9, <2>10, StartHas
    <2>12. OuterAllowed(closed[k]) # <<>>
      BY <2>11
    <2> QED
      BY <1>1, <1>3, <2>9, <2>10, <2>12 DEF closed
  <1>4. Excused'
    BY <1>1, <1>3 DEF Excused
  <1> QED
    BY <1>1, <1>4 DEF Kept

-----------------------------------------------------------------------------
LEMMA NextKept == IInv /\ Kept /\ [Next]_vars => Kept'
  <1> SUFFICES ASSUME IInv, Kept, [Next]_vars PROVE Kept'
    OBVIOUS
  <1>1. CASE CloseRegion
    BY <1>1, CloseRegionKept
  <1>2. CASE Closed
    BY <1>2, ClosedKept
  <1>3. CASE StartChild
    BY <1>3, StartChildKept
  <1>4. CASE EndChild
    BY <1>4, EndChildKept
  <1>5. CASE WrongContent
    BY <1>5, WrongContentKept
  <1>6. CASE EndRoot
    BY <1>6, EndRootKept
  <1>7. CASE Decide
    BY <1>7, DecideKept
  <1>8. CASE UNCHANGED vars
    <2>1. UNCHANGED <<program, phase, frontier, queue, paths, name, code, word>>
      BY <1>8 DEF vars
    <2> QED
      BY <2>1 DEF Kept, Spreading, Live, Held, Excused
  <1> QED
    BY <1>1, <1>2, <1>3, <1>4, <1>5, <1>6, <1>7, <1>8 DEF Next

LEMMA SeedPoint ==
  ASSUME NEW q \in Seq(Regions), NEW s \in States, s.at # 0, Seed(s) \in Within(q)
  PROVE  \E r \in ToSet(q) : s \in Points(r)
  <1>1. PICK k \in DOMAIN q : InRegion(q[k], Seed(s))
    BY DEF Within
  <1>2. q[k] \in Regions /\ q[k] \in ToSet(q)
    BY LenProperties, ElementOfSeq DEF ToSet
  <1>3. /\ s = [done |-> s.done, at |-> s.at, count |-> s.count]
        /\ s.done \in Nat /\ s.at \in Nat /\ s.count \in Nat
    BY DEF States
  <1>4. Seed(s).index = s.at /\ Seed(s).done = s.done /\ Seed(s).count = s.count
    BY <1>3 DEF Seed, Config
  <1>5. q[k].index = s.at /\ Holds(q[k], s.done, s.count)
    BY <1>1, <1>4 DEF InRegion
  <1>6. s.count \in At(q[k].low, s.done) .. At(q[k].high, s.done) /\ s.done \in q[k].outer .. q[k].outerMaximum
    <2>1. s.done \in Over(q[k]) /\ At(q[k].low, s.done) \in Int /\ At(q[k].high, s.done) \in Int
      <3>1. q[k].low \in Lines /\ q[k].high \in Lines /\ s.done \in Over(q[k])
        BY <1>2, <1>5 DEF Holds, Regions
      <3>2. s.done \in Int
        BY <1>3
      <3> QED
        BY <3>1, <3>2, AtInt
    <2> QED
      BY <1>3, <1>5, <2>1 DEF Holds, Over
  <1>7. s \in Points(q[k])
    BY <1>3, <1>5, <1>6 DEF Points
  <1> QED
    BY <1>2, <1>7

LEMMA KeptLosesNone == IInv /\ Kept => NoStateLost
  <1> SUFFICES ASSUME IInv, Kept PROVE NoStateLost
    OBVIOUS
  <1>1. /\ WithName = Append(word, DeclaringIn(program, name))
        /\ program \in Programs /\ word \in Seq(SUBSET Nat)
        /\ DeclaringIn(program, name) \in SUBSET DOMAIN program.particles
    BY Facts DEF IInv, Followed, WithName, Declaring, DeclaringIn, Particles
  <1>2. ASSUME phase = "child", NEW s \in Reached(program, WithName)
        PROVE  \E r \in ToSet(paths) : s \in Points(r)
    <2>1. paths \in Seq(Regions)
      <3> DEFINE F == Fit(Lift(program), word, name)
      <3>1. paths \in Seq(F) /\ F \subseteq Regions
        BY DEF IInv, Followed, Fit
      <3> HIDE DEF F
      <3> QED
        BY <3>1, SeqMonotonic
    <2>2. s \in States /\ s.at # 0
      <3>1. WithName \in Seq(SUBSET Nat)
        BY <1>1, ProgramFacts, AppendProperties
      <3>2. s.at \in DeclaringIn(program, name)
        BY <1>1, <1>2, StandingMore
      <3>3. s \in States
        BY <1>2, <3>1, ReachedStates
      <3> QED
        BY <1>1, <3>2, <3>3, ProgramFacts
    <2>3. Seed(s) \in Within(paths)
      BY <1>1, <1>2 DEF Kept, Held
    <2> QED
      BY <2>1, <2>2, <2>3, SeedPoint
  <1>3. phase = "child" => Reached(program, WithName) \subseteq UNION {Points(r) : r \in ToSet(paths)}
    <2> SUFFICES ASSUME phase = "child", NEW s \in Reached(program, WithName)
                 PROVE  s \in UNION {Points(r) : r \in ToSet(paths)}
      OBVIOUS
    <2>1. PICK r \in ToSet(paths) : s \in Points(r)
      BY <1>2
    <2> QED
      BY <2>1
  <1> QED
    BY <1>1, <1>3 DEF NoStateLost, Kept, Excused

(* Whatever the program and the children, the paths of an open child hold  *)
(* every state of the automaton that the children read so far lead to, and *)
(* a child or an end is rejected only when no state takes it: merging,     *)
(* cutting, extrapolating and dropping regions (validation_sequence.go:    *)
(* 638-665, 712-771, 907-1056, 1459-1537) lose none.                       *)
THEOREM Complete == Spec => []NoStateLost
  <1>1. Init => Kept
    BY InitKept
  <1>2. IInv /\ Kept /\ [Next]_vars => Kept'
    BY NextKept
  <1>3. IInv /\ Kept => NoStateLost
    BY KeptLosesNone
  <1> QED
    BY <1>1, <1>2, <1>3, Inductive, PTL DEF Spec
=============================================================================
