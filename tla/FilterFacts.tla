----------------------------- MODULE FilterFacts -----------------------------
(***************************************************************************)
(* Facts about the sequences the lanes are made of.                        *)
(*                                                                         *)
(* No prover does induction over data, so that the recursive function      *)
(* Filtered has the values its definition says, and that each of them is   *)
(* the subsequence of the kept elements (Picks), is shown by looking at    *)
(* the least position where it fails (LeastNatural).  A subsequence is     *)
(* determined by what it keeps (PicksUnique); every equation between       *)
(* filtered sequences below is proved by exhibiting the positions.         *)
(***************************************************************************)
EXTENDS Filter, WellFoundedInduction, TLAPS

\* Induction by the least counterexample.
LEMMA LeastNatural ==
  ASSUME NEW T, T \subseteq Nat, T # {}
  PROVE  \E m \in T : \A k \in T : m <= k
<1>1. PICK m \in T : \A k \in T : <<k, m>> \notin OpToRel(<, Nat)
  BY WFMin, NatLessThanWellFounded
<1>2. \A k \in T : ~(k < m)
  BY <1>1, Zenon DEF OpToRel
<1> QED
  BY <1>2

\* The recursive definition of Filtered has a solution.
LEMMA FilteredExists ==
  ASSUME NEW T, NEW s \in Seq(T), NEW S
  PROVE  /\ Filtered(s, S) \in [0 .. Len(s) -> Seq(T)]
         /\ Filtered(s, S)[0] = <<>>
         /\ \A n \in 1 .. Len(s) : Filtered(s, S)[n] =
              IF s[n] \in S THEN Append(Filtered(s, S)[n - 1], s[n]) ELSE Filtered(s, S)[n - 1]
<1> DEFINE N == Len(s)
           Def(f, n) == IF n = 0 THEN <<>> ELSE IF s[n] \in S THEN Append(f[n - 1], s[n]) ELSE f[n - 1]
           Up(n) == \E f \in [0 .. N -> Seq(T)] : \A k \in 0 .. n : f[k] = Def(f, k)
           Bad == {n \in 0 .. N : ~Up(n)}
<1>1. N \in Nat /\ \A n \in 1 .. N : s[n] \in T
  OBVIOUS
<1>2. Up(0)
  <2> DEFINE f == [k \in 0 .. N |-> <<>>]
  <2>1. f \in [0 .. N -> Seq(T)] /\ f[0] = <<>>
    BY <1>1
  <2>2. \A k \in 0 .. 0 : f[k] = Def(f, k)
    BY <2>1
  <2> QED
    BY <2>1, <2>2
<1>3. ASSUME NEW n \in 1 .. N, Up(n - 1) PROVE Up(n)
  <2>1. PICK f \in [0 .. N -> Seq(T)] : \A k \in 0 .. n - 1 : f[k] = Def(f, k)
    BY <1>3
  <2> DEFINE g == [f EXCEPT ![n] = Def(f, n)]
  <2>2. Def(f, n) \in Seq(T)
    BY <1>1
  <2>3. g \in [0 .. N -> Seq(T)] /\ g[n] = Def(f, n) /\ \A k \in 0 .. n - 1 : g[k] = f[k]
    <3> HIDE DEF Def
    <3> QED BY <1>1, <2>2
  <2>4. \A k \in 0 .. n : Def(g, k) = Def(f, k)
    <3> HIDE DEF g
    <3> QED BY <1>1, <2>3
  <2>5. \A k \in 0 .. n : g[k] = Def(g, k)
    <3> HIDE DEF Def, g
    <3> QED BY <1>1, <2>1, <2>3, <2>4
  <2> QED
    <3> HIDE DEF Def, g
    <3> QED BY <2>3, <2>5
<1>4. Bad = {}
  <2> HIDE DEF Up
  <2> SUFFICES ASSUME Bad # {} PROVE FALSE
    OBVIOUS
  <2>1. PICK n \in Bad : \A k \in Bad : n <= k
    <3>1. Bad \subseteq Nat
      BY <1>1
    <3> HIDE DEF Bad
    <3> QED BY LeastNatural, <3>1
  <2>2. n # 0
    BY <1>2
  <2>3. n - 1 \in 0 .. N /\ n - 1 \notin Bad /\ n \in 1 .. N
    BY <1>1, <2>1, <2>2
  <2> QED
    BY <1>3, <2>3, <2>1
<1>5. PICK f \in [0 .. N -> Seq(T)] : \A k \in 0 .. N : f[k] = Def(f, k)
  <2>1. Up(N)
    <3> HIDE DEF Up
    <3> QED BY <1>1, <1>4
  <2> QED BY <2>1
<1>6. f = [n \in 0 .. N |-> Def(f, n)]
  <2> HIDE DEF Def
  <2> QED BY <1>1, <1>5
<1> DEFINE F == Filtered(s, S)
<1>7. F = [n \in 0 .. N |-> Def(F, n)]
  <2>1. F = CHOOSE h : h = [n \in 0 .. N |-> Def(h, n)]
    BY DEF Filtered
  <2> HIDE DEF F, Def
  <2> QED BY <1>6, <2>1
<1> QED
  OBVIOUS

-----------------------------------------------------------------------------
\* g leads from each position of t to the position of the first n of s that it
\* came from: t is what S leaves of them, in order.
Picks(g, t, s, n, S) ==
  /\ g \in [1 .. Len(t) -> 1 .. n]
  /\ \A p, q \in 1 .. Len(t) : p < q => g[p] < g[q]
  /\ \A p \in 1 .. Len(t) : t[p] = s[g[p]] /\ t[p] \in S
  /\ \A m \in 1 .. n : s[m] \in S => \E p \in 1 .. Len(t) : g[p] = m

\* A kept element goes to the end.
LEMMA PicksMore ==
  ASSUME NEW T, NEW s \in Seq(T), NEW S, NEW n \in 1 .. Len(s),
         NEW t \in Seq(T), NEW g, Picks(g, t, s, n - 1, S),
         s[n] \in S
  PROVE  \E h : Picks(h, Append(t, s[n]), s, n, S)
<1> DEFINE L == Len(t)
           e == s[n]
           u == Append(t, e)
           h == [p \in 1 .. L + 1 |-> IF p = L + 1 THEN n ELSE g[p]]
<1>1. L \in Nat /\ e \in T /\ n \in Nat /\ Len(u) = L + 1
  OBVIOUS
<1>2. u[L + 1] = e /\ \A p \in 1 .. L : u[p] = t[p]
  BY <1>1
<1>3. /\ \A p \in 1 .. L : g[p] \in 1 .. n - 1
      /\ \A p, q \in 1 .. L : p < q => g[p] < g[q]
      /\ \A p \in 1 .. L : t[p] = s[g[p]] /\ t[p] \in S
      /\ \A m \in 1 .. n - 1 : s[m] \in S => \E p \in 1 .. L : g[p] = m
  BY DEF Picks
<1>4. h[L + 1] = n /\ \A p \in 1 .. L : h[p] = g[p]
  BY <1>1
<1>5. h \in [1 .. L + 1 -> 1 .. n]
  BY <1>1, <1>3
<1> HIDE DEF L, u, h
<1>6. \A p, q \in 1 .. L + 1 : p < q => h[p] < h[q]
  BY <1>1, <1>3, <1>4
<1>7. \A p \in 1 .. L + 1 : u[p] = s[h[p]] /\ u[p] \in S
  BY <1>1, <1>2, <1>3, <1>4
<1>8. ASSUME NEW m \in 1 .. n, s[m] \in S PROVE \E p \in 1 .. L + 1 : h[p] = m
  <2>1. CASE m = n
    <3>1. L + 1 \in 1 .. L + 1
      BY <1>1
    <3> QED
      BY <1>4, <2>1, <3>1
  <2>2. CASE m # n
    <3>1. m \in 1 .. n - 1
      BY <1>1, <2>2
    <3>2. PICK p \in 1 .. L : g[p] = m
      BY <1>3, <1>8, <3>1
    <3>3. p \in 1 .. L + 1
      BY <1>1
    <3> QED
      BY <1>4, <3>2, <3>3
  <2> QED
    BY <2>1, <2>2
<1> QED
  <2>1. Picks(h, u, s, n, S)
    BY <1>1, <1>5, <1>6, <1>7, <1>8 DEF Picks
  <2> QED
    BY <2>1 DEF u

\* Each prefix is filtered to what S leaves of it.
LEMMA FilteredPicks ==
  ASSUME NEW T, NEW s \in Seq(T), NEW S
  PROVE  \A n \in 0 .. Len(s) : \E g : Picks(g, Filtered(s, S)[n], s, n, S)
<1> DEFINE N == Len(s)
           F == Filtered(s, S)
           Good(n) == \E g : Picks(g, F[n], s, n, S)
           Bad == {n \in 0 .. N : ~Good(n)}
<1>1. N \in Nat
  OBVIOUS
<1>2. F \in [0 .. N -> Seq(T)] /\ F[0] = <<>>
      /\ \A n \in 1 .. N : F[n] = IF s[n] \in S THEN Append(F[n - 1], s[n]) ELSE F[n - 1]
  BY FilteredExists
<1> HIDE DEF F
<1>3. Good(0)
  <2> DEFINE g == [p \in 1 .. 0 |-> 0]
  <2>1. Picks(g, <<>>, s, 0, S)
    BY DEF Picks
  <2> QED
    BY <1>2, <2>1
<1>4. ASSUME NEW n \in 1 .. N, Good(n - 1) PROVE Good(n)
  <2>1. PICK g : Picks(g, F[n - 1], s, n - 1, S)
    BY <1>4
  <2>2. n - 1 \in 0 .. N /\ n \in Nat
    BY <1>1
  <2>3. CASE s[n] \in S
    BY <1>2, <2>1, <2>2, <2>3, PicksMore
  <2>4. CASE s[n] \notin S
    <3>1. F[n] = F[n - 1] /\ F[n - 1] \in Seq(T)
      BY <1>2, <2>2, <2>4
    <3>2. Picks(g, F[n - 1], s, n, S)
      <4> DEFINE t == F[n - 1]
      <4>1. t \in Seq(T)
        BY <3>1
      <4> HIDE DEF t
      <4>2. Picks(g, t, s, n - 1, S)
        BY <2>1 DEF t
      <4>3. Picks(g, t, s, n, S)
        BY <4>1, <4>2, <2>2, <2>4 DEF Picks
      <4> QED
        BY <4>3 DEF t
    <3> QED
      BY <3>1, <3>2
  <2> QED
    BY <2>3, <2>4
<1>5. Bad = {}
  <2> HIDE DEF Good
  <2> SUFFICES ASSUME Bad # {} PROVE FALSE
    OBVIOUS
  <2>1. PICK n \in Bad : \A k \in Bad : n <= k
    <3>1. Bad \subseteq Nat
      BY <1>1
    <3> HIDE DEF Bad
    <3> QED BY LeastNatural, <3>1
  <2>2. n # 0
    BY <1>3
  <2>3. n - 1 \in 0 .. N /\ n - 1 \notin Bad /\ n \in 1 .. N
    BY <1>1, <2>1, <2>2
  <2> QED
    BY <1>4, <2>3, <2>1
<1> QED
  BY <1>5 DEF F

\* What the filter returns, and that it can only be that.
LEMMA OnlyPicks ==
  ASSUME NEW T, NEW s \in Seq(T), NEW S
  PROVE  Only(s, S) \in Seq(T) /\ \E g : Picks(g, Only(s, S), s, Len(s), S)
<1>1. Len(s) \in 0 .. Len(s)
  OBVIOUS
<1> QED
  BY <1>1, FilteredExists, FilteredPicks DEF Only

\* S leaves only one sequence.
LEMMA PicksUnique ==
  ASSUME NEW T, NEW s, NEW n \in Nat, NEW S,
         NEW t \in Seq(T), NEW u \in Seq(T), NEW g, NEW h,
         Picks(g, t, s, n, S), Picks(h, u, s, n, S)
  PROVE  t = u
<1> DEFINE L == Len(t)
           M == Len(u)
<1>1. L \in Nat /\ M \in Nat
  OBVIOUS
<1>2. /\ \A p \in 1 .. L : g[p] \in 1 .. n
      /\ \A p, q \in 1 .. L : p < q => g[p] < g[q]
      /\ \A p \in 1 .. L : t[p] = s[g[p]] /\ t[p] \in S
      /\ \A m \in 1 .. n : s[m] \in S => \E p \in 1 .. L : g[p] = m
  BY DEF Picks
<1>3. /\ \A p \in 1 .. M : h[p] \in 1 .. n
      /\ \A p, q \in 1 .. M : p < q => h[p] < h[q]
      /\ \A p \in 1 .. M : u[p] = s[h[p]] /\ u[p] \in S
      /\ \A m \in 1 .. n : s[m] \in S => \E p \in 1 .. M : h[p] = m
  BY DEF Picks
<1> HIDE DEF L, M
<1> DEFINE Agree(p) == p \in 1 .. L /\ p \in 1 .. M /\ g[p] = h[p]
           Bad == {p \in Nat : (p \in 1 .. L \/ p \in 1 .. M) /\ ~Agree(p)}
<1>4. Bad = {}
  <2> SUFFICES ASSUME Bad # {} PROVE FALSE
    OBVIOUS
  <2>1. PICK k \in Bad : \A p \in Bad : k <= p
    <3>1. Bad \subseteq Nat
      OBVIOUS
    <3> HIDE DEF Bad
    <3> QED BY LeastNatural, <3>1
  <2>2. k \in Nat /\ k >= 1 /\ (k \in 1 .. L \/ k \in 1 .. M) /\ ~Agree(k)
    BY <1>1, <2>1
  <2>3. \A p \in 1 .. L : p < k => Agree(p)
    BY <1>1, <2>1, <2>2
  <2>4. \A p \in 1 .. M : p < k => Agree(p)
    BY <1>1, <2>1, <2>2
  <2>5. ASSUME k \in 1 .. L, k \in 1 .. M => g[k] < h[k] PROVE FALSE
    <3>1. g[k] \in 1 .. n /\ s[g[k]] \in S
      BY <1>2, <2>5
    <3>2. PICK p \in 1 .. M : h[p] = g[k]
      BY <1>3, <3>1
    <3>3. CASE p < k
      <4>1. p \in 1 .. L /\ h[p] = g[p]
        BY <2>4, <3>3
      <4>2. g[p] < g[k] /\ g[p] \in Int /\ g[k] \in Int
        BY <1>2, <2>5, <3>3, <4>1
      <4> QED
        BY <3>2, <4>1, <4>2
    <3>4. CASE p >= k
      <4>1. k \in 1 .. M
        BY <1>1, <2>2, <3>4
      <4>2. h[k] <= h[p] /\ g[k] < h[k] /\ h[k] \in Int /\ h[p] \in Int /\ g[k] \in Int
        <5>1. k = p \/ k < p
          BY <2>2, <3>4
        <5>2. h[k] \in Int /\ h[p] \in Int /\ g[k] \in Int
          BY <1>2, <1>3, <2>5, <4>1
        <5>3. g[k] < h[k]
          BY <2>5, <4>1
        <5> QED
          BY <1>3, <4>1, <5>1, <5>2, <5>3
      <4> QED
        BY <3>2, <4>2
    <3> QED
      BY <3>3, <3>4, <2>2
  <2>6. ASSUME k \in 1 .. M, k \in 1 .. L => h[k] < g[k] PROVE FALSE
    <3>1. h[k] \in 1 .. n /\ s[h[k]] \in S
      BY <1>3, <2>6
    <3>2. PICK p \in 1 .. L : g[p] = h[k]
      BY <1>2, <3>1
    <3>3. CASE p < k
      <4>1. p \in 1 .. M /\ h[p] = g[p]
        BY <2>3, <3>3
      <4>2. h[p] < h[k] /\ h[p] \in Int /\ h[k] \in Int
        BY <1>3, <2>6, <3>3, <4>1
      <4> QED
        BY <3>2, <4>1, <4>2
    <3>4. CASE p >= k
      <4>1. k \in 1 .. L
        BY <1>1, <2>2, <3>4
      <4>2. g[k] <= g[p] /\ h[k] < g[k] /\ g[k] \in Int /\ g[p] \in Int /\ h[k] \in Int
        <5>1. k = p \/ k < p
          BY <2>2, <3>4
        <5>2. g[k] \in Int /\ g[p] \in Int /\ h[k] \in Int
          BY <1>2, <1>3, <2>6, <4>1
        <5>3. h[k] < g[k]
          BY <2>6, <4>1
        <5> QED
          BY <1>2, <4>1, <5>1, <5>2, <5>3
      <4> QED
        BY <3>2, <4>2
    <3> QED
      BY <3>3, <3>4, <2>2
  <2>7. k \in 1 .. L /\ k \in 1 .. M => g[k] \in Int /\ h[k] \in Int /\ g[k] # h[k]
    BY <1>2, <1>3, <2>2
  <2> QED
    BY <2>2, <2>5, <2>6, <2>7
<1>5. \A p \in Nat : p \in 1 .. L \/ p \in 1 .. M => Agree(p)
  BY <1>4
<1>6. L = M
  <2>1. L >= 1 => L \in 1 .. M
    BY <1>1, <1>5
  <2>2. M >= 1 => M \in 1 .. L
    BY <1>1, <1>5
  <2> QED
    BY <1>1, <2>1, <2>2
<1>7. \A p \in 1 .. L : t[p] = u[p]
  <2>1. \A p \in 1 .. L : g[p] = h[p] /\ p \in 1 .. M
    BY <1>1, <1>5
  <2> QED
    BY <1>2, <1>3, <2>1
<1> QED
  BY <1>6, <1>7 DEF L, M

\* So whatever picks what S leaves is the filtered sequence.
LEMMA OnlyIs ==
  ASSUME NEW T, NEW s \in Seq(T), NEW S, NEW t \in Seq(T), NEW g, Picks(g, t, s, Len(s), S)
  PROVE  Only(s, S) = t
<1>1. PICK h : Picks(h, Only(s, S), s, Len(s), S)
  BY OnlyPicks
<1>2. Only(s, S) \in Seq(T) /\ Len(s) \in Nat
  BY OnlyPicks
<1> QED
  BY <1>1, <1>2, PicksUnique

-----------------------------------------------------------------------------
(* What the lanes need of it. *)

\* The type and the elements of a filtered sequence.
LEMMA OnlyType ==
  ASSUME NEW T, NEW s \in Seq(T), NEW S
  PROVE  /\ Only(s, S) \in Seq(T)
         /\ Elements(Only(s, S)) = Elements(s) \cap S
<1>1. PICK g : Picks(g, Only(s, S), s, Len(s), S)
  BY OnlyPicks
<1>2. Only(s, S) \in Seq(T)
  BY OnlyPicks
<1> DEFINE t == Only(s, S)
<1> HIDE DEF t
<1>3. /\ \A p \in 1 .. Len(t) : g[p] \in 1 .. Len(s)
      /\ \A p \in 1 .. Len(t) : t[p] = s[g[p]] /\ t[p] \in S
      /\ \A m \in 1 .. Len(s) : s[m] \in S => \E p \in 1 .. Len(t) : g[p] = m
  BY <1>1 DEF Picks, t
<1>4. DOMAIN s = 1 .. Len(s) /\ DOMAIN t = 1 .. Len(t)
  BY <1>2 DEF t
<1>5. Elements(t) = Elements(s) \cap S
  BY <1>3, <1>4 DEF Elements
<1> QED
  BY <1>2, <1>5 DEF t

\* The filter keeps the order.
LEMMA OnlyOrder ==
  ASSUME NEW T, NEW s \in Seq(T), NEW S,
         NEW p \in DOMAIN Only(s, S), NEW q \in DOMAIN Only(s, S), p < q
  PROVE  \E a, b \in DOMAIN s : a < b /\ s[a] = Only(s, S)[p] /\ s[b] = Only(s, S)[q]
<1>1. PICK g : Picks(g, Only(s, S), s, Len(s), S)
  BY OnlyPicks
<1>2. DOMAIN Only(s, S) = 1 .. Len(Only(s, S)) /\ DOMAIN s = 1 .. Len(s)
  BY OnlyPicks
<1>3. /\ g[p] \in DOMAIN s /\ g[q] \in DOMAIN s /\ g[p] < g[q]
      /\ Only(s, S)[p] = s[g[p]] /\ Only(s, S)[q] = s[g[q]]
  BY <1>1, <1>2 DEF Picks
<1> QED
  BY <1>3

\* Nothing is left out of a sequence of kept elements.
LEMMA OnlyAll ==
  ASSUME NEW T, NEW s \in Seq(T), NEW S, Elements(s) \subseteq S
  PROVE  Only(s, S) = s
<1> DEFINE g == [p \in 1 .. Len(s) |-> p]
<1>1. Len(s) \in Nat /\ DOMAIN s = 1 .. Len(s)
  OBVIOUS
<1>2. \A p \in 1 .. Len(s) : s[p] \in S
  BY <1>1 DEF Elements
<1>3. Picks(g, s, s, Len(s), S)
  BY <1>1, <1>2 DEF Picks
<1> HIDE DEF g
<1> QED
  BY <1>3, OnlyIs

\* Nothing is left of nothing.
LEMMA OnlyEmpty == ASSUME NEW S PROVE Only(<<>>, S) = <<>>
<1>1. <<>> \in Seq({}) /\ Len(<<>>) = 0
  OBVIOUS
<1>2. Only(<<>>, S) \in Seq({})
  BY <1>1, OnlyType
<1> QED
  BY <1>2

\* The elements of a longer sequence.
LEMMA ElementsAppend ==
  ASSUME NEW T, NEW s \in Seq(T), NEW i \in T
  PROVE  Elements(Append(s, i)) = Elements(s) \cup {i}
<1> DEFINE t == Append(s, i)
           N == Len(s)
<1>1. /\ N \in Nat /\ DOMAIN s = 1 .. N /\ DOMAIN t = 1 .. N + 1
      /\ t[N + 1] = i /\ \A c \in 1 .. N : t[c] = s[c]
  OBVIOUS
<1> HIDE DEF t, N
<1>2. \A c \in DOMAIN t : c \in DOMAIN s \/ c = N + 1
  BY <1>1
<1>3. (\A c \in DOMAIN s : c \in DOMAIN t) /\ N + 1 \in DOMAIN t
  BY <1>1
<1>4. Elements(t) \subseteq Elements(s) \cup {i}
  BY <1>1, <1>2 DEF Elements
<1>5. ASSUME NEW e \in Elements(s) PROVE e \in Elements(t)
  <2>1. PICK c \in DOMAIN s : e = s[c]
    BY DEF Elements
  <2>2. c \in DOMAIN t /\ t[c] = e
    BY <1>1, <1>3, <2>1
  <2> QED
    BY <2>2 DEF Elements
<1>6. i \in Elements(t)
  BY <1>1, <1>3 DEF Elements
<1> QED
  BY <1>4, <1>5, <1>6 DEF t

\* Filtering after an addition is adding after filtering.
LEMMA OnlyAppend ==
  ASSUME NEW T, NEW s \in Seq(T), NEW e \in T, NEW S
  PROVE  Only(Append(s, e), S) = IF e \in S THEN Append(Only(s, S), e) ELSE Only(s, S)
<1> DEFINE N == Len(s)
           u == Append(s, e)
           t == Only(s, S)
<1>1. N \in Nat /\ u \in Seq(T) /\ Len(u) = N + 1 /\ u[N + 1] = e
      /\ \A m \in 1 .. N : u[m] = s[m]
  OBVIOUS
<1>2. t \in Seq(T)
  BY OnlyPicks
<1>3. PICK g : Picks(g, t, s, N, S)
  BY OnlyPicks
<1> HIDE DEF N, u, t
<1>4. Picks(g, t, u, N, S)
  <2>1. \A p \in 1 .. Len(t) : g[p] \in 1 .. N
    BY <1>3 DEF Picks
  <2> QED
    BY <1>1, <1>3, <2>1 DEF Picks
<1>5. CASE e \in S
  <2>1. N + 1 \in 1 .. Len(u) /\ N + 1 - 1 = N
    BY <1>1
  <2>2. PICK h : Picks(h, Append(t, u[N + 1]), u, N + 1, S)
    BY <1>1, <1>2, <1>4, <1>5, <2>1, PicksMore
  <2>3. Append(t, e) \in Seq(T)
    BY <1>2
  <2>4. Picks(h, Append(t, e), u, Len(u), S)
    BY <1>1, <2>2
  <2>5. Only(u, S) = Append(t, e)
    BY <1>1, <2>3, <2>4, OnlyIs
  <2> QED
    BY <1>5, <2>5 DEF u, t
<1>6. CASE e \notin S
  <2>1. Picks(g, t, u, N + 1, S)
    BY <1>1, <1>2, <1>4, <1>6 DEF Picks
  <2>2. Only(u, S) = t
    BY <1>1, <1>2, <2>1, OnlyIs
  <2> QED
    BY <1>6, <2>2 DEF u, t
<1> QED
  BY <1>5, <1>6

\* Only membership of what is in the sequence counts.
LEMMA OnlyAgree ==
  ASSUME NEW T, NEW s \in Seq(T), NEW S, NEW U, Elements(s) \cap S = Elements(s) \cap U
  PROVE  Only(s, S) = Only(s, U)
<1>1. PICK g : Picks(g, Only(s, U), s, Len(s), U)
  BY OnlyPicks
<1>2. Only(s, U) \in Seq(T)
  BY OnlyPicks
<1> DEFINE t == Only(s, U)
<1> HIDE DEF t
<1>3. \A m \in 1 .. Len(s) : s[m] \in S <=> s[m] \in U
  BY DEF Elements
<1>4. \A p \in 1 .. Len(t) : g[p] \in 1 .. Len(s)
  BY <1>1 DEF Picks, t
<1>5. Picks(g, t, s, Len(s), S)
  BY <1>1, <1>3, <1>4 DEF Picks, t
<1> QED
  BY <1>2, <1>5, OnlyIs DEF t

\* Two filters are one.
LEMMA OnlyOnly ==
  ASSUME NEW T, NEW s \in Seq(T), NEW A, NEW B
  PROVE  Only(Only(s, A), B) = Only(s, A \cap B)
<1> DEFINE t == Only(s, A)
           u == Only(t, B)
<1>1. t \in Seq(T) /\ \E g : Picks(g, t, s, Len(s), A)
  BY OnlyPicks
<1>2. PICK g : Picks(g, t, s, Len(s), A)
  BY <1>1
<1> HIDE DEF t
<1>3. u \in Seq(T) /\ \E h : Picks(h, u, t, Len(t), B)
  BY <1>1, OnlyPicks
<1>4. PICK h : Picks(h, u, t, Len(t), B)
  BY <1>3
<1> HIDE DEF u
<1>5. /\ g \in [1 .. Len(t) -> 1 .. Len(s)]
      /\ \A p, q \in 1 .. Len(t) : p < q => g[p] < g[q]
      /\ \A p \in 1 .. Len(t) : t[p] = s[g[p]] /\ t[p] \in A
      /\ \A m \in 1 .. Len(s) : s[m] \in A => \E p \in 1 .. Len(t) : g[p] = m
  BY <1>2 DEF Picks
<1>6. /\ h \in [1 .. Len(u) -> 1 .. Len(t)]
      /\ \A p, q \in 1 .. Len(u) : p < q => h[p] < h[q]
      /\ \A p \in 1 .. Len(u) : u[p] = t[h[p]] /\ u[p] \in B
      /\ \A m \in 1 .. Len(t) : t[m] \in B => \E p \in 1 .. Len(u) : h[p] = m
  BY <1>4 DEF Picks
<1> DEFINE k == [p \in 1 .. Len(u) |-> g[h[p]]]
<1>7. k \in [1 .. Len(u) -> 1 .. Len(s)]
  BY <1>5, <1>6
<1>8. \A p, q \in 1 .. Len(u) : p < q => k[p] < k[q]
  BY <1>5, <1>6
<1>9. \A p \in 1 .. Len(u) : u[p] = s[k[p]] /\ u[p] \in A \cap B
  BY <1>5, <1>6
<1>10. ASSUME NEW m \in 1 .. Len(s), s[m] \in A \cap B PROVE \E p \in 1 .. Len(u) : k[p] = m
  <2>1. PICK q \in 1 .. Len(t) : g[q] = m
    BY <1>5, <1>10
  <2>2. t[q] = s[m]
    BY <1>5, <2>1
  <2>3. PICK p \in 1 .. Len(u) : h[p] = q
    BY <1>6, <1>10, <2>2
  <2> QED
    BY <2>1, <2>3
<1> HIDE DEF k
<1>11. Picks(k, u, s, Len(s), A \cap B)
  BY <1>7, <1>8, <1>9, <1>10 DEF Picks
<1> QED
  BY <1>3, <1>11, OnlyIs DEF t, u

\* Two elements the filter keeps change places.
Exchanged(s, a, b) == [s EXCEPT ![a] = s[b], ![b] = s[a]]

\* Exchanging two kept elements exchanges them in what is left.
LEMMA OnlyExchanged ==
  ASSUME NEW T, NEW s \in Seq(T), NEW S, NEW a \in DOMAIN s, NEW b \in DOMAIN s,
         s[a] \in S, s[b] \in S
  PROVE  \E p, q \in DOMAIN Only(s, S) :
           /\ Only(s, S)[p] = s[a] /\ Only(s, S)[q] = s[b]
           /\ Only(Exchanged(s, a, b), S) = Exchanged(Only(s, S), p, q)
<1> DEFINE t == Only(s, S)
<1>1. t \in Seq(T) /\ \E g : Picks(g, t, s, Len(s), S)
  BY OnlyPicks
<1>2. PICK g : Picks(g, t, s, Len(s), S)
  BY <1>1
<1> HIDE DEF t
<1>3. /\ g \in [1 .. Len(t) -> 1 .. Len(s)]
      /\ \A p, q \in 1 .. Len(t) : p < q => g[p] < g[q]
      /\ \A p \in 1 .. Len(t) : t[p] = s[g[p]] /\ t[p] \in S
      /\ \A m \in 1 .. Len(s) : s[m] \in S => \E p \in 1 .. Len(t) : g[p] = m
  BY <1>2 DEF Picks
<1>4. PICK p \in 1 .. Len(t), q \in 1 .. Len(t) : g[p] = a /\ g[q] = b
  BY <1>3
<1> DEFINE x == Exchanged(s, a, b)
           y == Exchanged(t, p, q)
<1>5. x \in Seq(T) /\ Len(x) = Len(s)
      /\ \A m \in 1 .. Len(s) : x[m] = IF m = b THEN s[a] ELSE IF m = a THEN s[b] ELSE s[m]
  BY DEF Exchanged
<1>6. y \in Seq(T) /\ Len(y) = Len(t)
      /\ \A m \in 1 .. Len(t) : y[m] = IF m = q THEN t[p] ELSE IF m = p THEN t[q] ELSE t[m]
  BY <1>1 DEF Exchanged
<1> HIDE DEF x, y
<1>7. \A m, n \in 1 .. Len(t) : g[m] = g[n] => m = n
  <2>1. Len(t) \in Nat /\ Len(s) \in Nat
    BY <1>1
  <2>2. ASSUME NEW m \in 1 .. Len(t) PROVE g[m] \in Int
    <3>1. g[m] \in 1 .. Len(s)
      BY <1>3
    <3> QED
      BY <2>1, <3>1
  <2> QED
    BY <1>3, <2>1, <2>2
<1>8. ASSUME NEW m \in 1 .. Len(t) PROVE y[m] = x[g[m]] /\ y[m] \in S
  <2>1. g[m] \in 1 .. Len(s) /\ t[m] = s[g[m]] /\ t[m] \in S
        /\ t[p] = s[a] /\ t[q] = s[b]
    BY <1>3, <1>4
  <2>2. (g[m] = a <=> m = p) /\ (g[m] = b <=> m = q)
    BY <1>4, <1>7
  <2> QED
    BY <1>5, <1>6, <2>1, <2>2
<1>9. \A m \in 1 .. Len(s) : x[m] \in S => s[m] \in S
  BY <1>5
<1>10. Picks(g, y, x, Len(x), S)
  BY <1>3, <1>5, <1>6, <1>8, <1>9 DEF Picks
<1>11. Only(x, S) = y
  BY <1>5, <1>6, <1>10, OnlyIs
<1>12. p \in DOMAIN t /\ q \in DOMAIN t /\ t[p] = s[a] /\ t[q] = s[b]
  BY <1>1, <1>3, <1>4
<1> QED
  BY <1>11, <1>12 DEF t, x, y

\* An exchange keeps the elements.
LEMMA ExchangedElements ==
  ASSUME NEW T, NEW s \in Seq(T), NEW a \in DOMAIN s, NEW b \in DOMAIN s
  PROVE  /\ Exchanged(s, a, b) \in Seq(T) /\ DOMAIN Exchanged(s, a, b) = DOMAIN s
         /\ Exchanged(s, a, b)[a] = s[b] /\ Exchanged(s, a, b)[b] = s[a]
         /\ \A c \in DOMAIN s \ {a, b} : Exchanged(s, a, b)[c] = s[c]
         /\ Elements(Exchanged(s, a, b)) = Elements(s)
<1> DEFINE t == Exchanged(s, a, b)
<1>1. /\ t \in Seq(T) /\ DOMAIN t = DOMAIN s
      /\ \A c \in DOMAIN s : t[c] = IF c = b THEN s[a] ELSE IF c = a THEN s[b] ELSE s[c]
  BY DEF Exchanged
<1> HIDE DEF t
<1>2. t[a] = s[b] /\ t[b] = s[a] /\ \A c \in DOMAIN s \ {a, b} : t[c] = s[c]
  BY <1>1
<1>3. ASSUME NEW e \in Elements(t) PROVE e \in Elements(s)
  BY <1>1 DEF Elements
<1>4. ASSUME NEW e \in Elements(s) PROVE e \in Elements(t)
  <2>1. PICK c \in DOMAIN s : e = s[c]
    BY DEF Elements
  <2>2. \E d \in DOMAIN t : t[d] = e
    BY <1>1, <1>2, <2>1
  <2> QED
    BY <2>2 DEF Elements
<1> QED
  BY <1>1, <1>2, <1>3, <1>4 DEF t

\* An update of two places of one component, both read before.
LEMMA TwoPlaces ==
  ASSUME NEW K, NEW f, f = [k \in K |-> f[k]], NEW l \in K, NEW a, NEW b, NEW x, NEW y
  PROVE  [f EXCEPT ![l][a] = x, ![l][b] = y] = [f EXCEPT ![l] = [f[l] EXCEPT ![a] = x, ![b] = y]]
OBVIOUS
=============================================================================
