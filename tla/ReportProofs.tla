---------------------------- MODULE ReportProofs ----------------------------
(***************************************************************************)
(* Proofs about the report of an exception, for every kernel image and     *)
(* every size of the disassembly's window and ring: the symbol table is    *)
(* sorted and keeps the functions, resolve_address finds the last one at   *)
(* or below an address, and the window marks the instruction it is about.  *)
(***************************************************************************)
EXTENDS Exceptions, SequenceTheorems, WellFoundedInduction, TLAPS

\* The provers of the leaves that name none.
USE SMTT(30), ZenonT(30)

-----------------------------------------------------------------------------
(* The symbol table: what the loops of init_symbols, sort_symbol_table and  *)
(* resolve_address do to it.                                                 *)

\* A set of natural numbers that is not empty has a least element.
LEMMA LeastNumber ==
  ASSUME NEW T, T \subseteq Nat, T # {}
  PROVE  Min(T) \in T /\ \A k \in T : Min(T) <= k
<1> DEFINE R == OpToRel(<, Nat)
<1>1. IsWellFoundedOn(R, Nat)
  BY NatLessThanWellFounded, Zenon
<1>2. \A x, y \in Nat : y < x => <<y, x>> \in R
  BY DEF OpToRel
<1> HIDE DEF R
<1>3. PICK m \in T : \A k \in T : ~(<<k, m>> \in R)
  BY <1>1, WFMin, Zenon
<1>4. \A k \in T : k \in Nat /\ m \in Nat
  OBVIOUS
<1>5. \A k \in T : ~(k < m)
  BY <1>2, <1>3, <1>4, Zenon
<1>6. \A k \in T : m <= k
  BY <1>4, <1>5
<1>7. \E x \in T : \A k \in T : x <= k
  BY <1>6
<1> QED  BY <1>7, Zenon DEF Min

\* Induction, for the set of the numbers of which something is true.
LEMMA InductionUpTo ==
  ASSUME NEW n \in Nat, NEW T, 0 \in T,
         \A k \in 0 .. n - 1 : k \in T => k + 1 \in T
  PROVE  \A k \in 0 .. n : k \in T
<1> SUFFICES ASSUME (0 .. n) \ T # {} PROVE FALSE
  OBVIOUS
<1> DEFINE m == Min((0 .. n) \ T)
<1>1. (0 .. n) \ T \subseteq Nat
  OBVIOUS
<1>2. m \in (0 .. n) \ T /\ \A k \in (0 .. n) \ T : m <= k
  BY <1>1, LeastNumber
<1> HIDE DEF m
<1>3. m # 0 /\ m - 1 \in 0 .. n - 1 /\ m - 1 \in 0 .. n /\ ~(m <= m - 1) /\ (m - 1) + 1 = m
  BY <1>2
<1>4. m - 1 \in T
  BY <1>2, <1>3
<1>5. m \in T
  BY <1>3, <1>4
<1> QED  BY <1>2, <1>5

\* The values a loop variable goes through: x before turn m + 1, and turn k
\* makes of it what G[k] does.
Turns(G, X, n) == \A k \in 1 .. n : \A y \in X : G[k][y] \in X
Run(f, x, G, m, n) ==
  (\A k \in 0 .. m : f[k] = x) /\ (\A k \in m + 1 .. n : f[k] = G[k][f[k - 1]])

LEMMA LoopRuns ==
  ASSUME NEW n \in Nat, NEW m \in 0 .. n, NEW X, NEW x \in X, NEW G, Turns(G, X, n)
  PROVE  \E f \in [0 .. n -> X] : Run(f, x, G, m, n)
<1> DEFINE Upto(l, f) == Run(f, x, G, m, l)
           T == {l \in 0 .. n : \E f \in [0 .. n -> X] : Upto(l, f)}
<1>1. 0 \in T
  <2> DEFINE f == [k \in 0 .. n |-> x]
  <2>1. f \in [0 .. n -> X] /\ 0 \in 0 .. n
    OBVIOUS
  <2>2. \A k \in 0 .. m : f[k] = x
    OBVIOUS
  <2>3. \A k \in m + 1 .. 0 : FALSE
    OBVIOUS
  <2> HIDE DEF f
  <2>4. Upto(0, f)
    BY <2>2, <2>3 DEF Run
  <2> HIDE DEF Upto
  <2> QED  BY <2>1, <2>4
<1>2. \A l \in 0 .. n - 1 : l \in T => l + 1 \in T
  <2> SUFFICES ASSUME NEW l \in 0 .. n - 1, l \in T PROVE l + 1 \in T
    OBVIOUS
  <2>1. PICK f \in [0 .. n -> X] : Upto(l, f)
    OBVIOUS
  <2> DEFINE g == [f EXCEPT ![l + 1] = IF l + 1 <= m THEN x ELSE G[l + 1][f[l]]]
  <2>2. l \in 0 .. n /\ l + 1 \in 1 .. n /\ l + 1 \in 0 .. n /\ (l + 1) - 1 = l
    OBVIOUS
  <2>3. f[l] \in X /\ G[l + 1][f[l]] \in X
    BY <2>2 DEF Turns
  <2>4. g \in [0 .. n -> X]
    BY <2>2, <2>3
  <2>5. /\ g[l + 1] = IF l + 1 <= m THEN x ELSE G[l + 1][f[l]]
        /\ \A k \in 0 .. n : k # l + 1 => g[k] = f[k]
    BY <2>2
  <2> HIDE DEF g
  <2>6. ASSUME NEW k \in 0 .. m PROVE g[k] = x
    <3>1. k \in 0 .. n /\ f[k] = x
      BY <2>1 DEF Run
    <3> QED  BY <2>5, <3>1
  <2>7. ASSUME NEW k \in m + 1 .. l + 1 PROVE g[k] = G[k][g[k - 1]]
    <3>1. CASE k = l + 1
      <4>1. ~(l + 1 <= m) /\ g[l] = f[l] /\ k - 1 = l
        BY <2>2, <2>5, <3>1
      <4> QED  BY <2>5, <3>1, <4>1
    <3>2. CASE k # l + 1
      <4>1. k \in m + 1 .. l /\ k \in 0 .. n /\ k - 1 \in 0 .. n /\ k - 1 # l + 1
        BY <3>2
      <4>2. g[k] = f[k] /\ g[k - 1] = f[k - 1]
        BY <2>5, <3>2, <4>1
      <4> QED  BY <2>1, <4>1, <4>2 DEF Run
    <3> QED  BY <3>1, <3>2
  <2>8. Upto(l + 1, g)
    BY <2>6, <2>7 DEF Run
  <2> HIDE DEF Upto
  <2> QED  BY <2>2, <2>4, <2>8
<1>3. n \in T
  <2> HIDE DEF T
  <2>1. n \in 0 .. n
    OBVIOUS
  <2> QED  BY <1>1, <1>2, <2>1, InductionUpTo
<1> QED  BY <1>3

\* What the table's loops keep: its length and the symbols in it.
Same(t, u) == u \in Seq(Symbols) /\ Len(u) = Len(t) /\ Range(u) = Range(t)

\* The first i entries of a table are in their places: none is above a later one.
Settled(t, i) == \A k \in 1 .. i : \A l \in k .. Len(t) : t[k].address <= t[l].address

\* After turn j of the inner loop for place i the entry there is the least seen.
LeastSeen(t, i, j) == Settled(t, i - 1) /\ \A k \in i .. j : t[i].address <= t[k].address

LEMMA ExchangeKeeps ==
  ASSUME NEW t \in Seq(Symbols), NEW i \in 1 .. Len(t), NEW j \in 1 .. Len(t),
         NEW u, u = Exchange(t, i, j)
  PROVE  /\ Same(t, u)
         /\ t[j].address < t[i].address =>
              /\ u[i] = t[j] /\ u[j] = t[i]
              /\ \A k \in 1 .. Len(t) : k # i /\ k # j => u[k] = t[k]
         /\ ~(t[j].address < t[i].address) => u = t
<1> DEFINE n == Len(t)
<1>1. n \in Nat /\ t \in [1 .. n -> Symbols] /\ DOMAIN t = 1 .. n
  OBVIOUS
<1>2. CASE ~(t[j].address < t[i].address)
  BY <1>2 DEF Exchange, Same
<1>3. CASE t[j].address < t[i].address
  <2>1. u = [t EXCEPT ![i] = t[j], ![j] = t[i]] /\ i # j
    <3>1. t[i].address \in Nat
      BY <1>1, Zenon DEF Symbols
    <3> QED  BY <1>3, <3>1 DEF Exchange
  <2>2. u \in [1 .. n -> Symbols]
    BY <1>1, <2>1
  <2>3. u \in Seq(Symbols) /\ Len(u) = n
    BY <1>1, <2>2
  <2>4. u[i] = t[j] /\ u[j] = t[i] /\ \A k \in 1 .. n : k # i /\ k # j => u[k] = t[k]
    BY <1>1, <2>1
  <2>5. Range(u) = Range(t)
    <3>1. DOMAIN u = 1 .. n
      BY <2>2
    <3>2. \A k \in 1 .. n : \E l \in 1 .. n : u[k] = t[l]
      BY <2>4
    <3>3. \A k \in 1 .. n : \E l \in 1 .. n : t[k] = u[l]
      BY <2>4
    <3>4. Range(u) = {u[k] : k \in 1 .. n} /\ Range(t) = {t[k] : k \in 1 .. n}
      BY <1>1, <3>1 DEF Range
    <3>5. Range(u) \subseteq Range(t)
      BY <3>2, <3>4, Zenon
    <3>6. Range(t) \subseteq Range(u)
      BY <3>3, <3>4, Zenon
    <3> QED  BY <3>5, <3>6, Zenon
  <2> QED  BY <1>3, <2>3, <2>4, <2>5 DEF Same
<1> QED  BY <1>2, <1>3

LEMMA ExchangeSees ==
  ASSUME NEW t \in Seq(Symbols), NEW i \in 1 .. Len(t), NEW j \in i + 1 .. Len(t),
         LeastSeen(t, i, j - 1), NEW u, u = Exchange(t, i, j)
  PROVE  LeastSeen(u, i, j)
<1> DEFINE n == Len(t)
<1>1. /\ n \in Nat /\ j \in 1 .. n /\ i \in 1 .. n /\ i # j
      /\ \A k \in 1 .. n : t[k].address \in Nat
  <2>1. n \in Nat /\ j \in 1 .. n /\ i # j
    OBVIOUS
  <2>2. ASSUME NEW k \in 1 .. n PROVE t[k].address \in Nat
    <3>1. t[k] \in Symbols
      OBVIOUS
    <3> QED  BY <3>1, Zenon DEF Symbols
  <2> QED  BY <2>1, <2>2
<1>2. /\ Same(t, u)
      /\ t[j].address < t[i].address =>
           /\ u[i] = t[j] /\ u[j] = t[i]
           /\ \A k \in 1 .. n : k # i /\ k # j => u[k] = t[k]
      /\ ~(t[j].address < t[i].address) => u = t
  BY <1>1, ExchangeKeeps
<1>3. Len(u) = n
  BY <1>2 DEF Same
<1>4. CASE ~(t[j].address < t[i].address)
  <2>1. u = t
    BY <1>2, <1>4
  <2>2. ASSUME NEW k \in i .. j PROVE t[i].address <= t[k].address
    <3>1. CASE k = j
      BY <1>1, <1>4, <3>1
    <3>2. CASE k # j
      <4>1. k \in i .. j - 1
        BY <1>1, <3>2
      <4> QED  BY <4>1 DEF LeastSeen
    <3> QED  BY <3>1, <3>2
  <2> QED  BY <2>1, <2>2 DEF LeastSeen
<1>5. CASE t[j].address < t[i].address
  <2>1. /\ u[i] = t[j] /\ u[j] = t[i]
        /\ \A k \in 1 .. n : k # i /\ k # j => u[k] = t[k]
    BY <1>2, <1>5
  <2>2. ASSUME NEW k \in i .. j PROVE u[i].address <= u[k].address
    <3>1. CASE k = j \/ k = i
      BY <1>1, <1>5, <2>1, <3>1
    <3>2. CASE k # j /\ k # i
      <4>1. k \in i .. j - 1 /\ k \in 1 .. n
        BY <1>1, <3>2
      <4>2. t[i].address <= t[k].address
        BY <4>1 DEF LeastSeen
      <4> QED  BY <1>1, <1>5, <2>1, <3>2, <4>1, <4>2
    <3> QED  BY <3>1, <3>2
  <2>3. ASSUME NEW k \in 1 .. i - 1, NEW l \in k .. n PROVE u[k].address <= u[l].address
    <3>1. k \in 1 .. n /\ l \in 1 .. n /\ k # i /\ k # j
      BY <1>1
    <3>2. \A p \in k .. n : t[k].address <= t[p].address
      BY DEF LeastSeen, Settled
    <3>3. PICK p \in {i, j, l} : u[l] = t[p]
      BY <2>1, <3>1
    <3>4. p \in k .. n
      BY <1>1, <3>1
    <3> QED  BY <2>1, <3>1, <3>2, <3>3, <3>4
  <2> QED  BY <1>3, <2>2, <2>3 DEF LeastSeen, Settled
<1> QED  BY <1>4, <1>5

\* The inner loop settles one more place, and the outer loop all of them.
LEMMA PlaceSettled ==
  ASSUME NEW t \in Seq(Symbols), NEW i \in 1 .. Len(t), Settled(t, i - 1)
  PROVE  Same(t, SortPlace(t, i)) /\ Settled(SortPlace(t, i), i)
<1> DEFINE n == Len(t)
           X == {y \in Seq(Symbols) : Same(t, y)}
           G == [k \in 1 .. n |-> [y \in X |-> Exchange(y, i, k)]]
           Eq(f) == f = [j \in 0 .. n |-> IF j <= i THEN t ELSE Exchange(f[j - 1], i, j)]
           F == CHOOSE f : Eq(f)
<1>1. n \in Nat /\ t \in X /\ i \in 0 .. n
  BY DEF Same
<1>2. ASSUME NEW k \in 1 .. n, NEW y \in X PROVE Exchange(y, i, k) \in X
  <2>1. y \in Seq(Symbols) /\ Len(y) = n /\ Range(y) = Range(t)
    BY DEF Same
  <2>2. Same(y, Exchange(y, i, k))
    BY <2>1, ExchangeKeeps
  <2> QED  BY <2>1, <2>2 DEF Same
<1> HIDE DEF X
<1>3. \A k \in 1 .. n : \A y \in X : G[k][y] = Exchange(y, i, k)
  OBVIOUS
<1> HIDE DEF G
<1>4. PICK g \in [0 .. n -> X] : Run(g, t, G, i, n)
  <2>1. Turns(G, X, n)
    BY <1>2, <1>3 DEF Turns
  <2> HIDE DEF n
  <2> QED  BY <1>1, <2>1, LoopRuns
<1>5. Eq(g)
  <2>1. ASSUME NEW k \in 0 .. n
        PROVE  g[k] = IF k <= i THEN t ELSE Exchange(g[k - 1], i, k)
    <3>1. CASE k <= i
      <4>1. k \in 0 .. i
        BY <3>1
      <4> QED  BY <1>4, <3>1, <4>1 DEF Run
    <3>2. CASE ~(k <= i)
      <4>1. k \in i + 1 .. n /\ k \in 1 .. n /\ k - 1 \in 0 .. n
        BY <3>2
      <4>2. g[k - 1] \in X
        BY <1>4, <4>1
      <4> QED  BY <1>3, <1>4, <3>2, <4>1, <4>2 DEF Run
    <3> QED  BY <3>1, <3>2
  <2> QED  BY <2>1
<1>6. Eq(F)
  <2> HIDE DEF Eq
  <2> QED  BY <1>5
<1>7. SortPlace(t, i) = F[n]
  BY DEF SortPlace
<1> HIDE DEF F
<1>8. /\ \A k \in 0 .. i : F[k] = t
      /\ \A k \in i + 1 .. n : F[k] = Exchange(F[k - 1], i, k)
  <2>1. \A k \in 0 .. n : F[k] = IF k <= i THEN t ELSE Exchange(F[k - 1], i, k)
    BY <1>6, Zenon
  <2>2. /\ \A k \in 0 .. i : k \in 0 .. n /\ k <= i
        /\ \A k \in i + 1 .. n : k \in 0 .. n /\ ~(k <= i)
    BY <1>1
  <2> QED  BY <2>1, <2>2
<1> DEFINE T == {k \in 0 .. n : F[k] \in X /\ (k >= i => LeastSeen(F[k], i, k))}
<1>9. 0 \in T
  BY <1>1, <1>8
<1>10. \A k \in 0 .. n - 1 : k \in T => k + 1 \in T
  <2> SUFFICES ASSUME NEW k \in 0 .. n - 1, k \in T PROVE k + 1 \in T
    OBVIOUS
  <2>1. k + 1 \in 0 .. n /\ (k + 1) - 1 = k /\ F[k] \in X
    BY <1>1
  <2>2. CASE k + 1 < i
    BY <1>1, <1>8, <2>1, <2>2
  <2>3. CASE k + 1 = i
    <3>1. F[k + 1] = t
      BY <1>1, <1>8, <2>3
    <3>2. \A l \in i .. i : t[i].address <= t[l].address
      <4>1. t[i] \in Symbols
        OBVIOUS
      <4>2. t[i].address \in Nat
        BY <4>1, Zenon DEF Symbols
      <4>3. \A l \in i .. i : l = i
        OBVIOUS
      <4> QED  BY <4>2, <4>3
    <3>3. LeastSeen(t, i, i)
      BY <3>2 DEF LeastSeen
    <3> QED  BY <1>1, <2>1, <2>3, <3>1, <3>3
  <2>4. CASE k + 1 > i
    <3>1. k + 1 \in i + 1 .. n /\ k + 1 \in 1 .. n /\ k >= i
      BY <2>1, <2>4
    <3>2. F[k + 1] = Exchange(F[k], i, k + 1)
      BY <1>8, <2>1, <3>1
    <3>3. F[k] \in Seq(Symbols) /\ Len(F[k]) = n
      BY <2>1 DEF X, Same
    <3>4. LeastSeen(F[k], i, (k + 1) - 1)
      BY <2>1, <3>1
    <3>5. LeastSeen(F[k + 1], i, k + 1)
      BY <3>1, <3>2, <3>3, <3>4, ExchangeSees
    <3>6. F[k + 1] \in X
      BY <1>2, <2>1, <3>1, <3>2
    <3> QED  BY <2>1, <3>5, <3>6
  <2> QED  BY <2>1, <2>2, <2>3, <2>4
<1>11. n \in T
  <2> HIDE DEF T, n
  <2>1. n \in 0 .. n
    BY <1>1
  <2> QED  BY <1>1, <1>9, <1>10, <2>1, InductionUpTo, Zenon
<1>12. F[n] \in X /\ LeastSeen(F[n], i, n)
  BY <1>1, <1>11
<1>13. Same(t, F[n])
  BY <1>12 DEF X
<1>14. Settled(F[n], i)
  <2>1. Len(F[n]) = n
    BY <1>13 DEF Same
  <2>2. ASSUME NEW k \in 1 .. i, NEW l \in k .. n PROVE F[n][k].address <= F[n][l].address
    <3>1. CASE k = i
      BY <1>12, <3>1 DEF LeastSeen
    <3>2. CASE k # i
      <4>1. k \in 1 .. i - 1
        BY <3>2
      <4> QED  BY <1>12, <2>1, <4>1 DEF LeastSeen, Settled
    <3> QED  BY <3>1, <3>2
  <2> QED  BY <2>1, <2>2 DEF Settled
<1> QED  BY <1>7, <1>13, <1>14

LEMMA TableSorted ==
  ASSUME NEW t \in Seq(Symbols)
  PROVE  Same(t, sort_symbol_table(t)) /\ Settled(sort_symbol_table(t), Len(t))
<1> DEFINE n == Len(t)
           X == {y \in Seq(Symbols) : Same(t, y)}
           P(i) == {y \in X : Settled(y, i)}
           place(y, i) == IF y \in P(i - 1) THEN SortPlace(y, i) ELSE y
           G == [k \in 1 .. n |-> [y \in X |-> place(y, k)]]
           Eq(f) == f = [i \in 0 .. n |-> IF i = 0 THEN t ELSE SortPlace(f[i - 1], i)]
           F == CHOOSE f : Eq(f)
<1>1. n \in Nat /\ t \in X /\ 0 \in 0 .. n /\ t \in P(0)
  BY DEF Same, Settled
<1>2. ASSUME NEW k \in 1 .. n, NEW y \in P(k - 1) PROVE SortPlace(y, k) \in P(k)
  <2>1. y \in Seq(Symbols) /\ Len(y) = n /\ Range(y) = Range(t) /\ Settled(y, k - 1)
    BY DEF Same
  <2>2. Same(y, SortPlace(y, k)) /\ Settled(SortPlace(y, k), k)
    BY <2>1, PlaceSettled
  <2> QED  BY <2>1, <2>2 DEF Same
<1>3. \A k \in 1 .. n : \A y \in X : place(y, k) \in X
  BY <1>2
<1> HIDE DEF X
<1>4. \A k \in 1 .. n : \A y \in X : G[k][y] = place(y, k)
  OBVIOUS
<1> HIDE DEF G
<1>5. PICK g \in [0 .. n -> X] : Run(g, t, G, 0, n)
  <2>1. Turns(G, X, n)
    BY <1>3, <1>4 DEF Turns
  <2> HIDE DEF n, P
  <2> QED  BY <1>1, <2>1, LoopRuns
<1>6. g[0] = t /\ \A k \in 1 .. n : g[k] = place(g[k - 1], k)
  <2>1. g[0] = t
    BY <1>5 DEF Run
  <2>2. ASSUME NEW k \in 1 .. n PROVE g[k] = place(g[k - 1], k)
    <3>1. k \in 0 + 1 .. n /\ k - 1 \in 0 .. n
      OBVIOUS
    <3>2. g[k - 1] \in X
      BY <1>5, <3>1
    <3> HIDE DEF place
    <3> QED  BY <1>4, <1>5, <3>1, <3>2 DEF Run
  <2> QED  BY <2>1, <2>2
<1>7. ASSUME NEW f, f[0] = t, \A k \in 1 .. n : f[k - 1] \in P(k - 1) => f[k] = SortPlace(f[k - 1], k)
      PROVE  \A k \in 0 .. n : f[k] \in P(k)
  <2> DEFINE T == {k \in 0 .. n : f[k] \in P(k)}
  <2> HIDE DEF P
  <2>1. 0 \in T
    BY <1>1, <1>7
  <2>2. \A k \in 0 .. n - 1 : k \in T => k + 1 \in T
    <3> SUFFICES ASSUME NEW k \in 0 .. n - 1, k \in T PROVE k + 1 \in T
      OBVIOUS
    <3>1. k + 1 \in 1 .. n /\ k + 1 \in 0 .. n /\ (k + 1) - 1 = k
      OBVIOUS
    <3>2. f[k + 1] = SortPlace(f[k], k + 1)
      BY <1>7, <3>1
    <3> QED  BY <1>2, <3>1, <3>2
  <2> HIDE DEF T, n
  <2>3. \A k \in 0 .. n : k \in T
    BY <1>1, <2>1, <2>2, InductionUpTo
  <2> QED  BY <2>3 DEF T
<1>8. \A k \in 0 .. n : g[k] \in P(k)
  BY <1>6, <1>7
<1>9. Eq(g)
  <2>1. ASSUME NEW k \in 0 .. n PROVE g[k] = IF k = 0 THEN t ELSE SortPlace(g[k - 1], k)
    <3>1. CASE k = 0
      BY <1>6, <3>1
    <3>2. CASE k # 0
      <4>1. k \in 1 .. n /\ k - 1 \in 0 .. n
        BY <3>2
      <4>2. g[k - 1] \in P(k - 1)
        BY <1>8, <4>1
      <4> HIDE DEF P
      <4> QED  BY <1>6, <3>2, <4>1, <4>2
    <3> QED  BY <3>1, <3>2
  <2> QED  BY <2>1
<1>10. Eq(F)
  <2> HIDE DEF Eq
  <2> QED  BY <1>9
<1>11. sort_symbol_table(t) = F[n]
  BY DEF sort_symbol_table
<1> HIDE DEF F
<1>12. F[0] = t /\ \A k \in 1 .. n : F[k] = SortPlace(F[k - 1], k)
  BY <1>1, <1>10
<1>13. F[n] \in P(n)
  <2> HIDE DEF P
  <2>1. \A k \in 0 .. n : F[k] \in P(k)
    BY <1>7, <1>12
  <2> QED  BY <1>1, <2>1
<1>14. Same(t, F[n]) /\ Settled(F[n], n)
  BY <1>13 DEF X
<1> QED  BY <1>11, <1>14

LEMMA AppendRange ==
  ASSUME NEW t \in Seq(Symbols), NEW e \in Symbols
  PROVE  Append(t, e) \in Seq(Symbols) /\ Range(Append(t, e)) = Range(t) \cup {e}
<1> DEFINE n == Len(t)
           u == Append(t, e)
<1>1. n \in Nat /\ u \in Seq(Symbols) /\ DOMAIN t = 1 .. n
  OBVIOUS
<1>2. Len(u) = n + 1 /\ u[n + 1] = e /\ \A k \in 1 .. n : u[k] = t[k]
  OBVIOUS
<1> HIDE DEF u
<1>3. DOMAIN u = 1 .. n + 1
  BY <1>1, <1>2
<1>4. Range(u) \subseteq Range(t) \cup {e}
  <2> SUFFICES ASSUME NEW k \in 1 .. n + 1 PROVE u[k] = e \/ \E l \in 1 .. n : u[k] = t[l]
    BY <1>1, <1>3 DEF Range
  <2>1. CASE k = n + 1
    BY <1>2, <2>1
  <2>2. CASE k \in 1 .. n
    BY <1>2, <2>2
  <2> QED  BY <1>1, <2>1, <2>2
<1>5. Range(t) \cup {e} \subseteq Range(u)
  <2>1. \A k \in 1 .. n : k \in 1 .. n + 1
    BY <1>1
  <2>2. n + 1 \in 1 .. n + 1
    BY <1>1
  <2> QED  BY <1>1, <1>2, <1>3, <2>1, <2>2 DEF Range
<1> QED  BY <1>1, <1>4, <1>5 DEF u

\* The first loop of init_symbols keeps the functions, and nothing else.
LEMMA FunctionsKept ==
  ASSUME NEW symtab \in Seq(Symbols)
  PROVE  /\ functions(symtab) \in Seq(Symbols)
         /\ Range(functions(symtab)) = {s \in Range(symtab) : s.func}
<1> DEFINE n == Len(symtab)
           X == Seq(Symbols)
           step(y, k) == IF symtab[k].func THEN Append(y, symtab[k]) ELSE y
           kept(k) == {s \in Symbols : \E l \in 1 .. k : s = symtab[l] /\ s.func}
           P(k) == {y \in X : Range(y) = kept(k)}
           G == [k \in 1 .. n |-> [y \in X |-> step(y, k)]]
           Eq(f) == f = [i \in 0 .. n |-> IF i = 0 THEN <<>> ELSE
                           IF symtab[i].func THEN Append(f[i - 1], symtab[i]) ELSE f[i - 1]]
           F == CHOOSE f : Eq(f)
<1>1. n \in Nat /\ <<>> \in X /\ 0 \in 0 .. n /\ \A k \in 1 .. n : symtab[k] \in Symbols
  OBVIOUS
<1>2. <<>> \in P(0)
  <2>1. Range(<<>>) = {}
    BY DEF Range
  <2>2. kept(0) = {}
    OBVIOUS
  <2> HIDE DEF kept
  <2> QED  BY <1>1, <2>1, <2>2
<1>3. ASSUME NEW k \in 1 .. n, NEW y \in X PROVE step(y, k) \in X
  BY <1>1, AppendRange
<1>4. ASSUME NEW k \in 1 .. n, NEW y \in P(k - 1) PROVE step(y, k) \in P(k)
  <2>1. y \in X /\ Range(y) = kept(k - 1) /\ symtab[k] \in Symbols
    BY <1>1
  <2>2. \A l \in 1 .. k : l \in 1 .. k - 1 \/ l = k
    OBVIOUS
  <2>3. k \in 1 .. k /\ \A l \in 1 .. k - 1 : l \in 1 .. k
    OBVIOUS
  <2>4. CASE symtab[k].func
    <3>1. kept(k) = kept(k - 1) \cup {symtab[k]}
      BY <2>1, <2>2, <2>3, <2>4
    <3> HIDE DEF kept
    <3>2. Range(Append(y, symtab[k])) = Range(y) \cup {symtab[k]}
      BY <2>1, AppendRange
    <3> QED  BY <1>3, <2>1, <2>4, <3>1, <3>2
  <2>5. CASE ~symtab[k].func
    <3>1. kept(k) = kept(k - 1)
      BY <2>1, <2>2, <2>3, <2>5
    <3> HIDE DEF kept
    <3> QED  BY <2>1, <2>5, <3>1
  <2> QED  BY <2>4, <2>5
<1>5. \A k \in 1 .. n : \A y \in X : G[k][y] = step(y, k)
  OBVIOUS
<1> HIDE DEF G, X
<1>6. PICK g \in [0 .. n -> X] : Run(g, <<>>, G, 0, n)
  <2>1. Turns(G, X, n)
    BY <1>3, <1>5 DEF Turns
  <2> HIDE DEF n
  <2> QED  BY <1>1, <2>1, LoopRuns
<1>7. Eq(g)
  <2>1. ASSUME NEW k \in 0 .. n PROVE g[k] = IF k = 0 THEN <<>> ELSE step(g[k - 1], k)
    <3>1. CASE k = 0
      BY <1>6, <3>1 DEF Run
    <3>2. CASE k # 0
      <4>1. k \in 0 + 1 .. n /\ k \in 1 .. n /\ k - 1 \in 0 .. n
        BY <3>2
      <4>2. g[k - 1] \in X
        BY <1>6, <4>1
      <4> HIDE DEF step
      <4> QED  BY <1>5, <1>6, <3>2, <4>1, <4>2 DEF Run
    <3> QED  BY <3>1, <3>2
  <2> QED  BY <2>1
<1>8. Eq(F)
  <2> HIDE DEF Eq
  <2> QED  BY <1>7
<1>9. functions(symtab) = F[n]
  BY DEF functions
<1> HIDE DEF F
<1>10. F[0] = <<>> /\ \A k \in 1 .. n : F[k] = step(F[k - 1], k)
  <2>1. \A k \in 0 .. n : F[k] = IF k = 0 THEN <<>> ELSE step(F[k - 1], k)
    BY <1>8, Zenon
  <2>2. 0 \in 0 .. n /\ \A k \in 1 .. n : k \in 0 .. n /\ k # 0
    BY <1>1
  <2> HIDE DEF step
  <2> QED  BY <2>1, <2>2
<1> DEFINE T == {k \in 0 .. n : F[k] \in P(k)}
<1>11. 0 \in T
  <2> HIDE DEF P
  <2> QED  BY <1>1, <1>2, <1>10
<1>12. \A k \in 0 .. n - 1 : k \in T => k + 1 \in T
  <2> SUFFICES ASSUME NEW k \in 0 .. n - 1, k \in T PROVE k + 1 \in T
    BY Zenon
  <2>1. k + 1 \in 1 .. n /\ k + 1 \in 0 .. n /\ (k + 1) - 1 = k
    OBVIOUS
  <2> HIDE DEF P, step
  <2>2. F[k + 1] = step(F[k], k + 1) /\ F[k] \in P(k)
    BY <1>10, <2>1
  <2> QED  BY <1>4, <2>1, <2>2
<1>13. n \in T
  <2> HIDE DEF T, n
  <2>1. n \in 0 .. n
    BY <1>1
  <2> QED  BY <1>1, <1>11, <1>12, <2>1, InductionUpTo, Zenon
<1>14. F[n] \in Seq(Symbols) /\ Range(F[n]) = kept(n)
  BY <1>13 DEF X
<1>15. kept(n) = {s \in Range(symtab) : s.func}
  BY <1>1 DEF Range
<1> QED  BY <1>9, <1>14, <1>15

\* A table in order: resolve_address finds the last entry at or below the address.
LEMMA Resolved ==
  ASSUME NEW t \in Seq(Symbols), Settled(t, Len(t)), NEW address \in Nat,
         NEW r, r = resolve_address(t, address), r # 0
  PROVE  /\ r \in 1 .. Len(t) /\ t[r].address <= address
         /\ \A k \in 1 .. Len(t) : t[k].address <= address => t[k].address <= t[r].address
<1> DEFINE n == Len(t)
           stops == {k \in DOMAIN t : t[k].address >= address}
           m == Min(stops)
<1>1. n \in Nat /\ DOMAIN t = 1 .. n
  OBVIOUS
<1>2. ASSUME NEW k \in 1 .. n PROVE t[k].address \in Nat
  <2>1. t[k] \in Symbols
    OBVIOUS
  <2> QED  BY <2>1, Zenon DEF Symbols
<1>3. ASSUME NEW k \in 1 .. n, NEW l \in k .. n PROVE t[k].address <= t[l].address
  BY DEF Settled
<1>4. r = IF stops = {} THEN n ELSE IF t[m].address = address THEN m ELSE m - 1
  BY DEF resolve_address
<1>5. stops \subseteq Nat /\ stops \subseteq 1 .. n
  BY <1>1
<1>6. \A k \in 1 .. n : k \in stops <=> t[k].address >= address
  BY <1>1
<1>7. stops # {} => m \in stops /\ \A k \in stops : m <= k
  BY <1>5, LeastNumber, Zenon
<1> HIDE DEF stops, m
<1>8. stops # {} => m \in 1 .. n /\ t[m].address >= address
  BY <1>5, <1>6, <1>7, Zenon
<1>9. CASE stops = {}
  <2>1. r = n /\ r \in 1 .. n
    BY <1>1, <1>4, <1>9
  <2>2. \A k \in 1 .. n : n \in k .. n
    BY <1>1
  <2> QED  BY <1>2, <1>3, <1>6, <1>9, <2>1, <2>2
<1>10. CASE stops # {} /\ t[m].address = address
  BY <1>2, <1>4, <1>8, <1>10
<1>11. CASE stops # {} /\ t[m].address # address
  <2>1. m \in 1 .. n /\ t[m].address > address
    BY <1>2, <1>8, <1>11
  <2>2. r = m - 1 /\ r \in 1 .. n /\ r < m
    BY <1>1, <1>4, <1>11, <2>1
  <2>3. t[r].address < address
    <3>1. r \notin stops
      BY <1>5, <1>7, <1>11, <2>1, <2>2
    <3> QED  BY <1>2, <1>6, <2>2, <3>1
  <2>4. ASSUME NEW k \in 1 .. n, t[k].address <= address PROVE t[k].address <= t[r].address
    <3>1. ~(m <= k)
      <4> SUFFICES ASSUME m <= k PROVE FALSE
        OBVIOUS
      <4>1. k \in m .. n
        BY <2>1
      <4>2. t[m].address <= t[k].address
        BY <1>3, <2>1, <4>1
      <4> QED  BY <1>2, <2>1, <2>4, <4>2
    <3>2. r \in k .. n
      BY <2>1, <2>2, <3>1
    <3> QED  BY <1>3, <3>2
  <2> QED  BY <1>2, <2>2, <2>3, <2>4
<1> QED  BY <1>9, <1>10, <1>11

-----------------------------------------------------------------------------
(* The disassembly: the scan, the ring of addresses and the window.          *)

\* The addresses of a function's instructions: each starts where the one before ends.
LEMMA InstrAddrs ==
  ASSUME NEW start \in Nat, NEW lens \in Seq(Nat \ {0})
  PROVE  /\ InstrAddr(start, lens, 1) = start
         /\ \A k \in 1 .. Len(lens) + 1 : InstrAddr(start, lens, k) \in Nat
         /\ \A k \in 1 .. Len(lens) :
              InstrAddr(start, lens, k + 1) = InstrAddr(start, lens, k) + lens[k]
<1> DEFINE n == Len(lens)
           G == [k \in 1 .. n |-> [y \in Nat |-> y + lens[k]]]
           Eq(f) == f = [i \in 0 .. n |-> IF i = 0 THEN start ELSE f[i - 1] + lens[i]]
           F == CHOOSE f : Eq(f)
<1>1. n \in Nat /\ 0 \in 0 .. n /\ \A k \in 1 .. n : lens[k] \in Nat
  OBVIOUS
<1>2. \A k \in 1 .. n : \A y \in Nat : G[k][y] = y + lens[k]
  OBVIOUS
<1> HIDE DEF G
<1>3. PICK g \in [0 .. n -> Nat] : Run(g, start, G, 0, n)
  <2>1. ASSUME NEW k \in 1 .. n, NEW y \in Nat PROVE G[k][y] \in Nat
    <3>1. lens[k] \in Nat /\ G[k][y] = y + lens[k]
      BY <1>1, <1>2
    <3> QED  BY <3>1
  <2>2. Turns(G, Nat, n)
    BY <2>1 DEF Turns
  <2> HIDE DEF n
  <2> QED  BY <1>1, <2>2, LoopRuns, Zenon
<1>4. Eq(g)
  <2>1. ASSUME NEW k \in 0 .. n PROVE g[k] = IF k = 0 THEN start ELSE g[k - 1] + lens[k]
    <3>1. CASE k = 0
      BY <1>3, <3>1 DEF Run
    <3>2. CASE k # 0
      <4>1. k \in 0 + 1 .. n /\ k \in 1 .. n /\ k - 1 \in 0 .. n
        BY <3>2
      <4>2. g[k - 1] \in Nat
        BY <1>3, <4>1, Zenon
      <4> QED  BY <1>2, <1>3, <3>2, <4>1, <4>2, Zenon DEF Run
    <3> QED  BY <3>1, <3>2
  <2> QED  BY <2>1
<1>5. Eq(F)
  <2> HIDE DEF Eq
  <2> QED  BY <1>4
<1>6. \A k : InstrAddr(start, lens, k) = F[k - 1]
  BY DEF InstrAddr
<1> HIDE DEF F
<1>7. \A k \in 0 .. n : F[k] = IF k = 0 THEN start ELSE F[k - 1] + lens[k]
  BY <1>5, Zenon
<1> DEFINE T == {k \in 0 .. n : F[k] \in Nat}
<1>8. 0 \in T
  BY <1>1, <1>7
<1>9. \A k \in 0 .. n - 1 : k \in T => k + 1 \in T
  <2> SUFFICES ASSUME NEW k \in 0 .. n - 1, k \in T PROVE k + 1 \in T
    OBVIOUS
  <2>1. k + 1 \in 1 .. n /\ k + 1 \in 0 .. n /\ (k + 1) - 1 = k /\ k + 1 # 0
    OBVIOUS
  <2>2. F[k + 1] = F[k] + lens[k + 1] /\ lens[k + 1] \in Nat
    BY <1>1, <1>7, <2>1
  <2> QED  BY <2>1, <2>2
<1>10. \A k \in 0 .. n : k \in T
  <2> HIDE DEF T, n
  <2> QED  BY <1>1, <1>8, <1>9, InductionUpTo, Zenon
<1>11. InstrAddr(start, lens, 1) = start
  BY <1>1, <1>6, <1>7
<1>12. ASSUME NEW k \in 1 .. n + 1 PROVE InstrAddr(start, lens, k) \in Nat
  <2>1. k - 1 \in 0 .. n
    BY <1>1
  <2> QED  BY <1>6, <1>10, <2>1, Zenon
<1>13. ASSUME NEW k \in 1 .. n
       PROVE  InstrAddr(start, lens, k + 1) = InstrAddr(start, lens, k) + lens[k]
  <2>1. k \in 0 .. n /\ k # 0 /\ (k + 1) - 1 = k
    BY <1>1
  <2> QED  BY <1>6, <1>7, <2>1
<1> QED  BY <1>11, <1>12, <1>13

LEMMA InstrAddrsGrow ==
  ASSUME NEW start \in Nat, NEW lens \in Seq(Nat \ {0}),
         NEW k \in 1 .. Len(lens) + 1, NEW l \in 1 .. Len(lens) + 1, k < l
  PROVE  InstrAddr(start, lens, k) < InstrAddr(start, lens, l)
<1> DEFINE n == Len(lens)
           A == [i \in 1 .. n + 1 |-> InstrAddr(start, lens, i)]
           T == {d \in 0 .. n : \A i \in 1 .. d : A[i] < A[d + 1]}
<1>1. n \in Nat /\ \A i \in 1 .. n : lens[i] \in Nat /\ lens[i] > 0
  OBVIOUS
<1>2. /\ \A i \in 1 .. n + 1 : A[i] \in Nat
      /\ \A i \in 1 .. n : A[i + 1] = A[i] + lens[i]
  <2>1. \A i \in 1 .. n : i \in 1 .. n + 1 /\ i + 1 \in 1 .. n + 1
    BY <1>1
  <2> QED  BY <2>1, InstrAddrs, Zenon
<1> HIDE DEF A
<1>3. 0 \in T
  BY <1>1
<1>4. \A d \in 0 .. n - 1 : d \in T => d + 1 \in T
  <2> SUFFICES ASSUME NEW d \in 0 .. n - 1, d \in T, NEW i \in 1 .. d + 1
               PROVE  A[i] < A[(d + 1) + 1]
    <3>1. \A d \in 0 .. n - 1 : d + 1 \in 0 .. n
      BY <1>1
    <3> QED  BY <3>1, Zenon
  <2>1. d + 1 \in 1 .. n /\ d + 1 \in 1 .. n + 1 /\ i \in 1 .. n + 1
    BY <1>1
  <2>2. A[i] \in Nat /\ A[d + 1] \in Nat /\ lens[d + 1] \in Nat /\ lens[d + 1] > 0
    BY <1>1, <1>2, <2>1
  <2>3. A[(d + 1) + 1] = A[d + 1] + lens[d + 1]
    BY <1>2, <2>1
  <2>4. A[i] <= A[d + 1]
    <3>1. CASE i = d + 1
      BY <2>2, <3>1
    <3>2. CASE i # d + 1
      <4>1. i \in 1 .. d
        BY <3>2
      <4>2. A[i] < A[d + 1]
        BY <4>1
      <4> QED  BY <2>2, <4>2
    <3> QED  BY <3>1, <3>2
  <2>5. A[i] < A[d + 1] + lens[d + 1]
    <3>1. \A x, y, z \in Nat : x <= y /\ z > 0 => x < y + z
      OBVIOUS
    <3> QED  BY <2>2, <2>4, <3>1
  <2> QED  BY <2>3, <2>5
<1>5. \A d \in 0 .. n : d \in T
  <2> HIDE DEF T, n
  <2> QED  BY <1>1, <1>3, <1>4, InductionUpTo, Zenon
<1>6. l - 1 \in 0 .. n /\ k \in 1 .. l - 1 /\ (l - 1) + 1 = l
  BY <1>1
<1>7. A[k] < A[l]
  BY <1>5, <1>6, Zenon
<1> QED  BY <1>7 DEF A

\* Two numbers less than R apart have different remainders.
LEMMA RemaindersDiffer ==
  ASSUME NEW R \in Nat \ {0}, NEW x \in Nat, NEW y \in Nat, x < y, y < x + R
  PROVE  x % R # y % R
<1> DEFINE p == x \div R
           q == y \div R
<1>1. p \in Int /\ x % R \in Int /\ x = R * p + (x % R)
  OBVIOUS
<1>2. q \in Int /\ y % R \in Int /\ y = R * q + (y % R)
  OBVIOUS
<1> HIDE DEF p, q
<1> SUFFICES ASSUME x % R = y % R PROVE FALSE
  OBVIOUS
<1>3. y - x = R * q - R * p
  BY <1>1, <1>2
<1>4. R * q - R * p = R * (q - p)
  BY <1>1, <1>2
<1> DEFINE d == q - p
<1>5. d \in Int /\ 0 < R * d /\ R * d < R
  BY <1>1, <1>2, <1>3, <1>4
<1> HIDE DEF d
<1>6. CASE d <= 0
  BY <1>5, <1>6
<1>7. CASE d >= 1
  <2>1. R * d >= R * 1
    BY <1>5, <1>7
  <2> QED  BY <1>5, <2>1
<1> QED  BY <1>5, <1>6, <1>7

\* The instruction that holds an address, if the function has one.
Holding(start, lens, a) ==
  {k \in DOMAIN lens : InstrAddr(start, lens, k) <= a /\ a < InstrEnd(start, lens, k)}

\* The first scan ends with the instruction that holds the address, or the next.
LEMMA ScanEnds ==
  ASSUME NEW start \in Nat, NEW lens \in Seq(Nat \ {0}), lens # <<>>, NEW a \in Nat
  PROVE  LET n == Scanned(start, lens, a)
         IN n \in 1 .. Len(lens) /\ \A k \in Holding(start, lens, a) : n \in {k, k + 1}
<1> DEFINE L == Len(lens)
           A == [i \in 1 .. L + 1 |-> InstrAddr(start, lens, i)]
           stops == {k \in DOMAIN lens : InstrAddr(start, lens, k) >= a}
           m == Min(stops)
           n == Scanned(start, lens, a)
<1>1. L \in Nat /\ L >= 1 /\ DOMAIN lens = 1 .. L
  OBVIOUS
<1>2. \A i \in 1 .. L : i \in 1 .. L + 1 /\ i + 1 \in 1 .. L + 1
  BY <1>1
<1>3. /\ \A i \in 1 .. L + 1 : A[i] \in Nat
      /\ \A i, j \in 1 .. L + 1 : i < j => A[i] < A[j]
  BY InstrAddrs, InstrAddrsGrow, Zenon
<1>4. \A k \in Holding(start, lens, a) : k \in 1 .. L /\ A[k] <= a /\ a < A[k + 1]
  <2> SUFFICES ASSUME NEW k \in Holding(start, lens, a)
               PROVE  k \in 1 .. L /\ A[k] <= a /\ a < A[k + 1]
    OBVIOUS
  <2>1. /\ k \in 1 .. L /\ InstrAddr(start, lens, k) <= a
        /\ a < InstrAddr(start, lens, k) + lens[k]
    BY <1>1 DEF Holding, InstrEnd
  <2>2. InstrAddr(start, lens, k + 1) = InstrAddr(start, lens, k) + lens[k]
    BY <2>1, InstrAddrs
  <2>3. A[k] = InstrAddr(start, lens, k) /\ A[k + 1] = InstrAddr(start, lens, k + 1)
    BY <1>2, <2>1
  <2> HIDE DEF A
  <2> QED  BY <2>1, <2>2, <2>3
<1>5. n = IF stops = {} THEN L ELSE m
  BY DEF Scanned
<1>6. stops \subseteq Nat /\ stops \subseteq 1 .. L
  BY <1>1
<1>7. \A k \in 1 .. L : k \in stops <=> A[k] >= a
  BY <1>1, <1>2
<1>8. stops # {} => m \in stops /\ \A k \in stops : m <= k
  BY <1>6, LeastNumber, Zenon
<1> HIDE DEF A, stops, m, n
<1>9. n \in 1 .. L
  <2>1. L \in 1 .. L
    BY <1>1
  <2>2. CASE stops = {}
    BY <1>5, <2>1, <2>2
  <2>3. CASE stops # {}
    BY <1>5, <1>6, <1>8, <2>3, Zenon
  <2> QED  BY <2>2, <2>3
<1>10. ASSUME NEW k \in Holding(start, lens, a) PROVE n \in {k, k + 1}
  <2>1. k \in 1 .. L /\ A[k] <= a /\ a < A[k + 1] /\ A[k] \in Nat /\ A[k + 1] \in Nat
    BY <1>2, <1>3, <1>4
  <2>2. k < L => k + 1 \in stops
    <3>1. k < L => k + 1 \in 1 .. L
      BY <1>1, <2>1
    <3> QED  BY <1>7, <2>1, <3>1
  <2>3. CASE stops = {}
    <3>1. n = L /\ ~(k < L)
      BY <1>5, <2>2, <2>3
    <3> HIDE DEF L
    <3>2. k = L
      BY <1>1, <2>1, <3>1
    <3> QED  BY <3>1, <3>2
  <2>4. CASE stops # {}
    <3>1. n = m /\ m \in stops /\ m \in 1 .. L /\ m \in 1 .. L + 1
      BY <1>2, <1>5, <1>6, <1>8, <2>4, Zenon
    <3>2. ~(m < k)
      <4> SUFFICES ASSUME m < k PROVE FALSE
        OBVIOUS
      <4>1. A[m] < A[k] /\ A[m] \in Nat /\ A[m] >= a
        BY <1>2, <1>3, <1>7, <2>1, <3>1
      <4> QED  BY <2>1, <4>1
    <3>3. k < L => m <= k + 1
      BY <1>8, <2>2, <2>4
    <3> QED  BY <1>1, <2>1, <3>1, <3>2, <3>3
  <2> QED  BY <2>3, <2>4
<1> QED  BY <1>9, <1>10 DEF n

\* No two instructions hold it.
LEMMA HeldByOne ==
  ASSUME NEW start \in Nat, NEW lens \in Seq(Nat \ {0}), NEW a \in Nat,
         NEW k \in Holding(start, lens, a), NEW l \in Holding(start, lens, a)
  PROVE  k = l
<1> DEFINE L == Len(lens)
<1>1. L \in Nat /\ DOMAIN lens = 1 .. L
  OBVIOUS
<1>2. ASSUME NEW i \in Holding(start, lens, a), NEW j \in Holding(start, lens, a), i < j
      PROVE  FALSE
  <2>1. i \in 1 .. L /\ j \in 1 .. L
    BY <1>1 DEF Holding
  <2>2. i + 1 \in 1 .. L + 1 /\ j \in 1 .. L + 1 /\ i \in 1 .. L + 1 /\ (i + 1 = j \/ i + 1 < j)
    BY <1>1, <1>2, <2>1
  <2>3. a < InstrAddr(start, lens, i + 1)
    <3>1. InstrAddr(start, lens, i + 1) = InstrAddr(start, lens, i) + lens[i]
      BY <2>1, InstrAddrs
    <3> QED  BY <3>1 DEF Holding, InstrEnd
  <2>4. InstrAddr(start, lens, j) <= a
    BY DEF Holding
  <2>5. InstrAddr(start, lens, i + 1) \in Nat /\ InstrAddr(start, lens, j) \in Nat
    BY <2>2, InstrAddrs, Zenon
  <2>6. CASE i + 1 = j
    BY <2>3, <2>4, <2>5, <2>6
  <2>7. CASE i + 1 < j
    <3>1. InstrAddr(start, lens, i + 1) < InstrAddr(start, lens, j)
      BY <2>2, <2>7, InstrAddrsGrow, Zenon
    <3> QED  BY <2>3, <2>4, <2>5, <3>1
  <2> QED  BY <2>2, <2>6, <2>7
<1>3. k \in 1 .. L /\ l \in 1 .. L
  BY <1>1 DEF Holding
<1>4. k < l \/ l < k \/ k = l
  BY <1>3
<1> QED  BY <1>2, <1>4

\* The ring still holds the address that the window starts with.
LEMMA WindowStart ==
  ASSUME NEW start, NEW lens, NEW a, NEW n \in Nat \ {0}, n = Scanned(start, lens, a)
  PROVE  StartIndex(start, lens, a) = IF n >= Back THEN n - Back + 1 ELSE 1
<1> DEFINE index == IF n >= Back THEN n - Back ELSE 0
           Last(k) == (k - 1) % Ring = index % Ring
                      /\ \A l \in k + 1 .. n : (l - 1) % Ring # index % Ring
<1>1. /\ Back \in Nat /\ Back >= 3 /\ Ring \in Nat \ {0} /\ Back <= Ring
      /\ index \in Nat /\ index < n /\ n <= index + Ring
  BY CrashDumpAssumption
<1>2. StartIndex(start, lens, a) = CHOOSE k \in 1 .. n : Last(k)
  BY DEF StartIndex
<1>3. index + 1 = IF n >= Back THEN n - Back + 1 ELSE 1
  BY <1>1
<1> HIDE DEF index
<1>4. ASSUME NEW l \in index + 2 .. n PROVE (l - 1) % Ring # index % Ring
  <2>1. l - 1 \in Nat /\ index < l - 1 /\ l - 1 < index + Ring
    BY <1>1
  <2> QED  BY <1>1, <2>1, RemaindersDiffer, Zenon
<1>5. index + 1 \in 1 .. n /\ (index + 1) - 1 = index /\ (index + 1) + 1 = index + 2
  BY <1>1
<1>6. Last(index + 1)
  BY <1>4, <1>5
<1>7. ASSUME NEW k \in 1 .. n, Last(k) PROVE k = index + 1
  <2>1. ~(index + 1 \in k + 1 .. n)
    BY <1>5, <1>7
  <2>2. ~(k \in index + 2 .. n)
    BY <1>4, <1>7
  <2> QED  BY <1>1, <2>1, <2>2
<1> HIDE DEF Last
<1>8. StartIndex(start, lens, a) = index + 1
  BY <1>2, <1>5, <1>6, <1>7
<1> QED  BY <1>3, <1>8

\* The window marks the instruction that holds the address, and shows the line
\* before it; near the start of the function it may end before that instruction.
LEMMA WindowMarks ==
  ASSUME NEW start \in Nat, NEW lens \in Seq(Nat \ {0}), lens # <<>>, NEW a \in Nat
  PROVE  LET K == Holding(start, lens, a)
             marked == Marked(start, lens, a)
         IN /\ \/ marked = K
               \/ marked = {} /\ a - start <= Threshold /\ \A k \in K : k > Show
            /\ \A k \in marked : k = 1 \/ (k - 1) \in Shown(start, lens, a)
<1> DEFINE L == Len(lens)
           K == Holding(start, lens, a)
           n == Scanned(start, lens, a)
           from == FirstShown(start, lens, a)
           shown == Shown(start, lens, a)
           marked == Marked(start, lens, a)
<1>1. /\ L \in Nat /\ Show \in Nat /\ Show >= 1 /\ Back \in Nat /\ Back >= 3 /\ Back <= Show
      /\ DOMAIN lens = 1 .. L
  BY CrashDumpAssumption
<1>2. n \in 1 .. L /\ \A k \in K : k \in 1 .. L /\ n \in {k, k + 1}
  BY <1>1, ScanEnds, Zenon DEF Holding
<1>3. from = IF a - start <= Threshold THEN 1 ELSE IF n >= Back THEN n - Back + 1 ELSE 1
  <2>1. n \in Nat \ {0}
    BY <1>1, <1>2
  <2>2. StartIndex(start, lens, a) = IF n >= Back THEN n - Back + 1 ELSE 1
    BY <2>1, WindowStart
  <2> QED  BY <2>2 DEF FirstShown
<1>4. shown = from .. (IF from + Show - 1 < L THEN from + Show - 1 ELSE L)
  BY DEF Shown
<1>5. marked = {k \in shown : /\ InstrAddr(start, lens, k) <= a
                              /\ a < InstrEnd(start, lens, k)}
  BY DEF Marked
<1> HIDE DEF n, from, shown, marked
<1>6. from \in 1 .. L /\ from \in Nat /\ from >= 1
  BY <1>1, <1>2, <1>3
<1>7. \A k \in 1 .. L : k \in shown <=> from <= k /\ k <= from + Show - 1
  BY <1>1, <1>4, <1>6
<1>8. shown \subseteq 1 .. L
  BY <1>1, <1>4, <1>6
<1>9. marked = K \cap shown
  BY <1>1, <1>5, <1>8, Zenon DEF Holding
<1> HIDE DEF K
<1>10. CASE a - start <= Threshold
  <2>1. from = 1
    BY <1>3, <1>10
  <2>2. \A k \in 1 .. L : k \in shown <=> k <= Show
    BY <1>1, <1>7, <2>1
  <2>3. ASSUME NEW k \in marked PROVE k = 1 \/ (k - 1) \in shown
    <3>1. k \in 1 .. L /\ k <= Show
      BY <1>2, <1>9, <2>2
    <3>2. CASE k = 1
      BY <3>2
    <3>3. CASE k # 1
      <4>1. k - 1 \in 1 .. L /\ k - 1 <= Show
        BY <1>1, <3>1, <3>3
      <4> QED  BY <2>2, <4>1
    <3> QED  BY <3>2, <3>3
  <2>4. \A k, l \in K : k = l
    <3> SUFFICES ASSUME NEW k \in K, NEW l \in K, k # l PROVE FALSE
      OBVIOUS
    <3> QED  BY HeldByOne DEF K
  <2>5. \/ marked = K
        \/ marked = {} /\ a - start <= Threshold /\ \A k \in K : k > Show
    <3>1. CASE \E k \in K : k <= Show
      <4>1. PICK k \in K : k <= Show
        BY <3>1
      <4>2. k \in shown
        BY <1>2, <2>2, <4>1
      <4>3. \A l \in K : l \in shown
        BY <2>4, <4>2
      <4> QED  BY <1>9, <4>3
    <3>2. CASE ~\E k \in K : k <= Show
      <4>1. \A k \in K : k \in 1 .. L /\ ~(k <= Show) /\ k \notin shown
        BY <1>2, <2>2, <3>2
      <4>2. \A k \in K : k > Show
        BY <1>1, <4>1
      <4>3. marked = {}
        BY <1>9, <4>1
      <4> QED  BY <1>10, <4>2, <4>3
    <3> QED  BY <3>1, <3>2
  <2> QED  BY <2>3, <2>5 DEF K, shown, marked
<1>11. CASE ~(a - start <= Threshold)
  <2>1. from = IF n >= Back THEN n - Back + 1 ELSE 1
    BY <1>3, <1>11
  <2>2. ASSUME NEW k \in K PROVE k \in shown /\ (k = 1 \/ (k - 1) \in shown)
    <3>1. k \in 1 .. L /\ (n = k \/ n = k + 1)
      BY <1>2
    <3>2. n \in Nat /\ n <= k + 1 /\ k <= n /\ k \in Nat /\ k >= 1
      BY <1>1, <3>1
    <3>3. from <= k /\ k <= from + Show - 1 /\ (k # 1 => from <= k - 1)
      BY <1>1, <1>6, <2>1, <3>2
    <3>4. k \in shown
      BY <1>7, <3>1, <3>3
    <3>5. CASE k # 1
      <4>1. k - 1 \in 1 .. L /\ from <= k - 1 /\ k - 1 <= from + Show - 1
        BY <1>1, <1>6, <3>1, <3>3, <3>5
      <4> QED  BY <1>7, <3>4, <4>1
    <3> QED  BY <3>4, <3>5
  <2>3. marked = K
    BY <1>9, <2>2
  <2> QED  BY <2>2, <2>3 DEF K, shown, marked
<1> QED  BY <1>10, <1>11

-----------------------------------------------------------------------------
(* The report. *)

\* find_rip, of the rows of a line table.
RowOf(rows, a) == {r \in rows : r <= a /\ \A q \in rows : q <= a => q <= r}
FindRip(rows, at) ==
  IF RowOf(rows, at - 1) = {} THEN at ELSE CHOOSE r \in RowOf(rows, at - 1) : TRUE

\* The report is about the kernel image it was made from: the table is the sorted
\* one, and address and symbol are the ones looked up for the interrupted instruction.
ReportInv ==
  /\ image \in Images /\ table = init_symbols(image.symtab)
  /\ report \in [rip : Nat, at : Nat, symbol : Int, frames : Int]
  /\ mode \in {"report", "halted"} =>
       /\ report.rip = FindRip(image.rows, report.at)
       /\ report.symbol \in {0, resolve_address(table, report.rip)}

LEMMA LineFound ==
  ASSUME NEW rows, rows \subseteq Nat, NEW at \in Nat, NEW rip, rip = FindRip(rows, at)
  PROVE  /\ rip \in Nat /\ rip <= at
         /\ \A r \in rows : ~(rip < r /\ r < at)
<1> DEFINE R == RowOf(rows, at - 1)
<1>1. CASE R = {}
  <2>1. rip = at
    BY <1>1 DEF FindRip
  <2> QED  BY <2>1
<1>2. CASE R # {}
  <2>1. rip \in R
    BY <1>2 DEF FindRip
  <2>2. rip \in rows /\ rip <= at - 1 /\ \A q \in rows : q <= at - 1 => q <= rip
    BY <2>1 DEF RowOf
  <2> QED  BY <2>2
<1> QED  BY <1>1, <1>2

LEMMA ResolvesToIndex ==
  ASSUME NEW t \in Seq(Symbols), NEW address \in Nat
  PROVE  resolve_address(t, address) \in Int
<1> DEFINE stops == {k \in DOMAIN t : t[k].address >= address}
<1>1. stops \subseteq Nat /\ Len(t) \in Int
  OBVIOUS
<1>2. stops # {} => Min(stops) \in stops
  BY <1>1, LeastNumber, Zenon
<1>3. resolve_address(t, address)
        \in {Len(t)} \cup (IF stops = {} THEN {} ELSE {Min(stops), Min(stops) - 1})
  BY DEF resolve_address
<1> HIDE DEF stops
<1>4. stops # {} => Min(stops) \in Nat
  BY <1>1, <1>2, Zenon
<1> QED  BY <1>1, <1>3, <1>4

\* What init_symbols makes of an image's symbols.
LEMMA TableOf ==
  ASSUME NEW i \in Images, NEW t, t = init_symbols(i.symtab)
  PROVE  /\ t \in Seq(Symbols) /\ Settled(t, Len(t))
         /\ Range(t) = {s \in Range(i.symtab) : s.func}
<1> DEFINE u == functions(i.symtab)
<1>1. i.symtab \in Seq(Symbols)
  BY ExceptionsAssumption
<1>2. u \in Seq(Symbols) /\ Range(u) = {s \in Range(i.symtab) : s.func}
  BY <1>1, FunctionsKept
<1>3. t = sort_symbol_table(u)
  BY DEF init_symbols
<1> HIDE DEF u
<1>4. Same(u, t) /\ Settled(t, Len(u))
  BY <1>2, <1>3, TableSorted
<1> QED  BY <1>2, <1>4 DEF Same

LEMMA AddressesNat ==
  ASSUME image \in Images
  PROVE  Addresses \subseteq Nat
<1>1. image.symtab \in Seq(Symbols)
  BY ExceptionsAssumption
<1>2. ASSUME NEW s \in Range(image.symtab), NEW k \in DOMAIN s.lens
      PROVE  InstrAddr(s.address, s.lens, k) \in Nat
  <2>1. s \in Symbols
    BY <1>1 DEF Range
  <2>2. s.address \in Nat /\ s.lens \in Seq(Nat \ {0})
    BY <2>1 DEF Symbols
  <2>3. k \in 1 .. Len(s.lens) + 1
    BY <2>2
  <2> QED  BY <2>2, <2>3, InstrAddrs, Zenon
<1> QED  BY <1>2 DEF Addresses

LEMMA ReportInitially == Init => ReportInv
BY DEF Init, ReportInv, NoReport

LEMMA ReportEntered ==
  ASSUME ReportInv, NEW v, Enter(v)
  PROVE  ReportInv'
<1>1. mode' = "stub" /\ report' = NoReport /\ image' = image /\ table' = table
  BY DEF Enter
<1> QED  BY <1>1 DEF ReportInv, NoReport

\* A step that leaves the report alone.
Keeps ==
  /\ report' = report /\ image' = image /\ table' = table
  /\ mode' = mode \/ mode' \in {"program", "stub"} \/ (mode = "report" /\ mode' = "halted")

LEMMA ReportKept ==
  ASSUME ReportInv, Keeps
  PROVE  ReportInv'
BY DEF ReportInv, Keeps

LEMMA ReportStarts ==
  ASSUME ReportInv, NEW a \in Addresses, CallReports(a)
  PROVE  ReportInv'
<1>1. /\ report' = [rip |-> find_rip(a), at |-> a, symbol |-> 0, frames |-> 0]
      /\ image' = image /\ table' = table
  BY Zenon DEF CallReports, NoReport
<1>2. a \in Nat /\ image.rows \subseteq Nat
  BY AddressesNat, ExceptionsAssumption DEF ReportInv
<1>3. find_rip(a) = FindRip(image.rows, a)
  BY DEF find_rip, FindRip, Row, RowOf
<1>4. find_rip(a) \in Nat
  BY <1>2, <1>3, LineFound, Zenon
<1> QED  BY <1>1, <1>2, <1>3, <1>4 DEF ReportInv

\* Naming a symbol goes on with the report or halts the machine.
LEMMA NamingStays ==
  ASSUME NEW s, NEW p, search_repr(s, p)
  PROVE  mode' \in {mode, "halted"}
BY Zenon DEF search_repr

LEMMA SymbolFound ==
  ASSUME ReportInv, DumpAtAddr
  PROVE  ReportInv'
<1>1. /\ report' = [report EXCEPT !.symbol = resolve_address(table, report.rip)]
      /\ mode' \in {mode, "halted"} /\ image' = image /\ table' = table /\ mode = "report"
  BY NamingStays, ZenonT(30) DEF DumpAtAddr
<1>2. resolve_address(table, report.rip) \in Int
  BY TableOf, ResolvesToIndex DEF ReportInv
<1> QED  BY <1>1, <1>2 DEF ReportInv

LEMMA ReportInvStep == ReportInv /\ [Next]_vars => ReportInv'
<1> SUFFICES ASSUME ReportInv, [Next]_vars PROVE ReportInv'
  OBVIOUS
<1>1. ASSUME NEW v \in Vectors, Raise(v) PROVE ReportInv'
  BY <1>1, ReportEntered DEF Raise
<1>2. CASE Nmi
  BY <1>2, ReportEntered DEF Nmi
<1>3. CASE Nested \/ Runaway
  BY <1>3, ReportEntered DEF Nested, Runaway
<1>4. CASE Instruction \/ Return \/ CallReturns \/ HandleErrCode \/ DumpWindow \/ Halt
  <2>1. Keeps
    BY <1>4, NamingStays, ZenonT(30) DEF Keeps, Instruction, Return, CallReturns, HandleErrCode, DumpWindow, Halt
  <2> QED  BY <2>1, ReportKept
<1>5. ASSUME NEW a \in Addresses, CallReports(a) PROVE ReportInv'
  BY <1>5, ReportStarts
<1>6. CASE DumpRegisters
  <2>1. Nested \/ Keeps
    BY <1>6 DEF DumpRegisters, Keeps
  <2> QED  BY <1>3, <2>1, ReportKept
<1>7. CASE DumpAtAddr
  BY <1>7, SymbolFound
<1>8. CASE Backtrace
  <2>1. CASE Keeps
    BY <2>1, ReportKept
  <2>2. CASE /\ report' = [report EXCEPT !.frames = @ + 1] /\ mode = "report"
             /\ mode' \in {mode, "halted"} /\ image' = image /\ table' = table
    BY <2>2 DEF ReportInv
  <2>3. FrameNamed => mode' \in {mode, "halted"}
    BY NamingStays, Zenon DEF FrameNamed
  <2> QED  BY <1>3, <1>8, <2>1, <2>2, <2>3, ZenonT(30) DEF Backtrace, Keeps
<1>9. CASE UNCHANGED vars
  <2>1. Keeps
    BY <1>9 DEF vars, Keeps
  <2> QED  BY <2>1, ReportKept
<1> QED  BY <1>1, <1>2, <1>3, <1>4, <1>5, <1>6, <1>7, <1>8, <1>9 DEF Next, Handler

LEMMA ReportInvariant == Spec => []ReportInv
<1> QED  BY ReportInitially, ReportInvStep, PTL DEF Spec

\* What the report says of one image, one interrupted instruction and one symbol.
LEMMA Located ==
  ASSUME ReportInv, mode = "halted", report.symbol # 0
  PROVE  ReportLocates
<1> DEFINE a == disas_addr(report)
           funcs == {f \in Range(image.symtab) : f.func}
           s == table[report.symbol]
<1>1. /\ image.rows \subseteq Nat /\ table \in Seq(Symbols) /\ Settled(table, Len(table))
      /\ Range(table) = funcs
  BY TableOf, ExceptionsAssumption DEF ReportInv
<1>2. /\ report.rip \in Nat /\ report.at \in Nat /\ report.rip = FindRip(image.rows, report.at)
      /\ report.symbol = resolve_address(table, report.rip)
  BY DEF ReportInv
<1>3. /\ report.rip <= report.at
      /\ \A r \in image.rows : ~(report.rip < r /\ r < report.at)
  BY <1>1, <1>2, LineFound, Zenon
<1>4. /\ report.symbol \in 1 .. Len(table) /\ s.address <= report.rip
      /\ \A k \in 1 .. Len(table) :
           table[k].address <= report.rip => table[k].address <= s.address
  BY <1>1, <1>2, Resolved
<1>5. s \in funcs /\ s \in Symbols
  BY <1>1, <1>4 DEF Range
<1>6. \A f \in funcs : f.address <= report.rip => f.address <= s.address
  <2>1. \A f \in funcs : \E k \in 1 .. Len(table) : f = table[k]
    BY <1>1 DEF Range
  <2> QED  BY <1>4, <2>1
<1>7. /\ a \in Nat /\ a <= report.at
      /\ \A r \in image.rows : ~(a < r /\ r < report.at)
  BY <1>1, <1>2, <1>3 DEF disas_addr
<1>8. s.address \in Nat /\ s.lens \in Seq(Nat \ {0}) /\ s.lens # <<>>
  BY <1>5 DEF Symbols
<1> HIDE DEF a, s, funcs
<1> DEFINE K == Holding(s.address, s.lens, a)
           marked == Marked(s.address, s.lens, a)
           shown == Shown(s.address, s.lens, a)
<1>9. /\ \/ marked = K
         \/ marked = {} /\ a - s.address <= Threshold /\ \A k \in K : k > Show
      /\ \A k \in marked : k = 1 \/ (k - 1) \in shown
  BY <1>7, <1>8, WindowMarks
<1>10. K = {k \in DOMAIN s.lens : InstrAddr(s.address, s.lens, k) <= a
                                  /\ a < InstrEnd(s.address, s.lens, k)}
  BY DEF Holding
<1> HIDE DEF K, marked, shown
<1> QED  BY <1>4, <1>5, <1>6, <1>7, <1>9, <1>10, ZenonT(30) DEF ReportLocates, a, s, funcs, K, marked, shown

THEOREM ReportCorrect == Spec => []ReportLocates
<1>1. ReportInv => ReportLocates
  <2>1. CASE mode = "halted" /\ report.symbol # 0
    BY <2>1, Located
  <2>2. CASE ~(mode = "halted" /\ report.symbol # 0)
    BY <2>2 DEF ReportLocates
  <2> QED  BY <2>1, <2>2
<1> QED  BY <1>1, ReportInvariant, PTL
=============================================================================
