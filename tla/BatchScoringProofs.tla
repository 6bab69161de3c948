-------------------------- MODULE BatchScoringProofs --------------------------
(***************************************************************************)
(* Proofs about the payouts of a batch.  That better work is paid no less  *)
(* goes step by step: each result, from the weight of the covered units to *)
(* the payout, keeps the order of what it is made of.  That payouts add up *)
(* goes over the miners by score: the best ones, and then all of a score,  *)
(* get what the ranks they take are worth, without a remainder.            *)
(*                                                                         *)
(* Sums are SumFunctionOnSet, a recursive function; what it does is proved *)
(* from its equation, by a smallest part of the set for which it fails.    *)
(***************************************************************************)
EXTENDS BatchScoring, FiniteSetTheorems, TLAPS

-----------------------------------------------------------------------------
(* Arithmetic.                                                             *)

\* Products grow with their factors.
LEMMA TimesMonotone ==
    \A a, b, c \in Nat : a <= b => a * c <= b * c /\ c * a <= c * b
  OBVIOUS

\* What div and % are.
LEMMA DivFacts ==
    ASSUME NEW n \in Nat, NEW d \in Nat \ {0}
    PROVE  /\ n \div d \in Nat /\ n % d \in Nat /\ n % d < d
           /\ n = d * (n \div d) + (n % d)
  OBVIOUS

\* A quotient is no less than what goes into the number.
LEMMA DivLeast ==
    ASSUME NEW n \in Nat, NEW d \in Nat \ {0}, NEW q \in Nat, d * q <= n
    PROVE  q <= n \div d
  <1> DEFINE e == n \div d
             r == n % d
  <1>1. e \in Nat /\ r \in Nat /\ r < d /\ n = d * e + r
    BY DivFacts
  <1> HIDE DEF e, r
  <1>2. ASSUME e + 1 <= q PROVE FALSE
    <2>1. d * (e + 1) <= d * q
      BY <1>1, <1>2, TimesMonotone
    <2>2. d * (e + 1) = d * e + d
      BY <1>1
    <2> QED
      BY <1>1, <2>1, <2>2
  <1> QED
    BY <1>1, <1>2 DEF e

\* Quotients grow with what is divided.
LEMMA DivMonotone ==
    ASSUME NEW m \in Nat, NEW n \in Nat, NEW d \in Nat \ {0}, m <= n
    PROVE  m \div d <= n \div d
  <1>1. m \div d \in Nat /\ d * (m \div d) <= m
    BY DivFacts
  <1>2. d * (m \div d) <= n
    BY <1>1
  <1> QED
    BY <1>1, <1>2, DivLeast

\* A quotient is no greater than what covers the number.
LEMMA DivAtMost ==
    ASSUME NEW n \in Nat, NEW d \in Nat \ {0}, NEW q \in Nat, n <= d * q
    PROVE  n \div d <= q
  <1> DEFINE e == n \div d
             r == n % d
  <1>1. e \in Nat /\ r \in Nat /\ r < d /\ n = d * e + r
    BY DivFacts
  <1> HIDE DEF e, r
  <1>2. ASSUME q + 1 <= e PROVE FALSE
    <2>1. d * (q + 1) <= d * e
      BY <1>1, <1>2, TimesMonotone
    <2>2. d * (q + 1) = d * q + d
      OBVIOUS
    <2> QED
      BY <1>1, <2>1, <2>2
  <1> QED
    BY <1>1, <1>2 DEF e

\* Without a remainder the quotient gives the number back.
LEMMA DivExact ==
    ASSUME NEW n \in Nat, NEW d \in Nat \ {0}, n % d = 0
    PROVE  n \div d \in Nat /\ n = d * (n \div d)
  BY DivFacts

\* To divide a product by a factor gives the other one.
LEMMA DivTimes ==
    ASSUME NEW q \in Nat, NEW d \in Nat \ {0}
    PROVE  (d * q) \div d = q
  <1>1. d * q \in Nat
    OBVIOUS
  <1>2. q <= (d * q) \div d
    BY <1>1, DivLeast
  <1>3. (d * q) \div d <= q
    BY <1>1, DivAtMost
  <1>4. (d * q) \div d \in Nat
    BY <1>1, DivFacts
  <1> QED
    BY <1>2, <1>3, <1>4

\* What is rounded is a natural number.
LEMMA RoundNat ==
    ASSUME NEW n \in Nat, NEW d \in Nat \ {0}
    PROVE  Round(n, d) \in Nat
  BY DivFacts DEF Round

\* Rounding to even keeps the order: of n and a greater number over one
\* divisor, n is not rounded to more.
LEMMA RoundMonotone ==
    ASSUME NEW m \in Nat, NEW n \in Nat, NEW d \in Nat \ {0}, m <= n
    PROVE  Round(m, d) <= Round(n, d)
  <1> DEFINE p == m \div d
             q == n \div d
             r == m % d
             s == n % d
             up(x, y) == 2 * y > d \/ (2 * y = d /\ x % 2 = 1)
  <1>1. p \in Nat /\ r \in Nat /\ m = d * p + r
    BY DivFacts
  <1>2. q \in Nat /\ s \in Nat /\ n = d * q + s
    BY DivFacts
  <1>3. p <= q
    BY DivMonotone
  <1>4. Round(m, d) = IF up(p, r) THEN p + 1 ELSE p
    BY DEF Round
  <1>5. Round(n, d) = IF up(q, s) THEN q + 1 ELSE q
    BY DEF Round
  <1> HIDE DEF p, q, r, s
  <1>6. CASE p = q
    <2>1. d * p \in Nat /\ d * p + r <= d * p + s
      BY <1>1, <1>2, <1>6
    <2>2. r <= s
      BY <1>1, <1>2, <2>1
    <2>3. up(p, r) => up(q, s)
      BY <1>1, <1>2, <1>6, <2>2
    <2> HIDE DEF up
    <2> QED
      BY <1>1, <1>4, <1>5, <1>6, <2>3
  <1>7. CASE p # q
    <2>1. p + 1 <= q
      BY <1>1, <1>2, <1>3, <1>7
    <2> HIDE DEF up
    <2> QED
      BY <1>1, <1>2, <1>4, <1>5, <2>1
  <1> QED
    BY <1>6, <1>7

\* A set of natural numbers has a least one.
LEMMA LeastOfSome ==
    ASSUME NEW T \in SUBSET Nat, T # {}
    PROVE  \E x \in T : \A y \in T : x <= y
  <1> DEFINE R == {ss \in Nat \X Nat : ss[1] < ss[2]}
  <1>1. IsWellFoundedOn(R, Nat)
    BY NatLessThanWellFounded DEF OpToRel
  <1> HIDE DEF R
  <1>2. PICK x \in T : \A y \in T : ~(<<y, x>> \in R)
    BY <1>1, WFMin
  <1>3. ASSUME NEW y \in T PROVE x <= y
    <2>1. y \in Nat /\ x \in Nat /\ ~(<<y, x>> \in R)
      BY <1>2
    <2>2. y < x => <<y, x>> \in R
      BY <2>1 DEF R
    <2> QED
      BY <2>1, <2>2
  <1> QED
    BY <1>3

\* Min is that one.
LEMMA MinFacts ==
    ASSUME NEW T \in SUBSET Nat, T # {}
    PROVE  Min(T) \in T /\ \A y \in T : Min(T) <= y
  BY LeastOfSome DEF Min

\* Of two, it is the lesser.
LEMMA MinOfTwo ==
    \A x, y \in Nat : Min({x, y}) = IF x <= y THEN x ELSE y
  <1> SUFFICES ASSUME NEW x \in Nat, NEW y \in Nat
               PROVE  Min({x, y}) = IF x <= y THEN x ELSE y
    OBVIOUS
  <1> DEFINE two == {x, y}
  <1>1. two \in SUBSET Nat /\ two # {} /\ x \in two /\ y \in two
    OBVIOUS
  <1> HIDE DEF two
  <1>2. Min(two) \in two /\ \A z \in two : Min(two) <= z
    BY <1>1, MinFacts
  <1>3. Min(two) = IF x <= y THEN x ELSE y
    BY <1>1, <1>2 DEF two
  <1> QED
    BY <1>3 DEF two

\* And Max the greater.
LEMMA MaxOfTwo ==
    \A x, y \in Int : Max({x, y}) = IF x >= y THEN x ELSE y
  <1> SUFFICES ASSUME NEW x \in Int, NEW y \in Int
               PROVE  Max({x, y}) = IF x >= y THEN x ELSE y
    OBVIOUS
  <1> DEFINE z == IF x >= y THEN x ELSE y
  <1>1. z \in {x, y} /\ \A v \in {x, y} : z >= v
    OBVIOUS
  <1>2. Max({x, y}) \in {x, y} /\ \A v \in {x, y} : Max({x, y}) >= v
    <2> HIDE DEF z
    <2> QED
      BY <1>1 DEF Max
  <1> QED
    BY <1>2

-----------------------------------------------------------------------------
(* Sums.                                                                   *)

\* Of some parts of a finite set there is one that has no other of them in it.
LEMMA SmallestPart ==
    ASSUME NEW S, IsFiniteSet(S), NEW B, B \subseteq SUBSET S, B # {}
    PROVE  \E M \in B : \A T \in B : T \subseteq M => T = M
  <1>1. IsWellFoundedOn(StrictSubsetOrdering(S), SUBSET S)
    BY FS_StrictSubsetOrderingWellFounded, FS_FiniteSubsetsOfFinite
  <1>2. PICK M \in B : \A T \in B : ~(<<T, M>> \in StrictSubsetOrdering(S))
    BY <1>1, WFMin
  <1>3. ASSUME NEW T \in B, T \subseteq M PROVE T = M
    <2>1. T \in SUBSET S /\ M \in SUBSET S
      OBVIOUS
    <2>2. T # M => <<T, M>> \in StrictSubsetOrdering(S)
      BY <1>3, <2>1 DEF StrictSubsetOrdering
    <2> QED
      BY <1>2, <2>2
  <1> QED
    BY <1>3

\* The element of T that SumFunctionOnSet takes next.
Pick(T) == CHOOSE x \in T : TRUE

\* What SumFunctionOnSet chooses for S: the sum of f over every part of it.
IsSum(s, f, S) ==
    s = [T \in SUBSET S |-> IF T = {} THEN 0 ELSE f[Pick(T)] + s[T \ {Pick(T)}]]

\* What SumFunctionOnSet is by its definition.
LEMMA SumIs ==
    ASSUME NEW f, NEW S
    PROVE  SumFunctionOnSet(f, S) = (CHOOSE s : IsSum(s, f, S))[S]
  BY DEF SumFunctionOnSet, FoldFunctionOnSet, MapThenFoldSet, IsSum, Pick

\* What a sum is at one part of its set.
LEMMA SumAt ==
    ASSUME NEW f, NEW S, NEW s, IsSum(s, f, S), NEW T \in SUBSET S
    PROVE  s[T] = IF T = {} THEN 0 ELSE f[Pick(T)] + s[T \ {Pick(T)}]
  BY DEF IsSum

\* Two sums agree where both are.
LEMMA SumsAgree ==
    ASSUME NEW f, NEW S, NEW s, IsSum(s, f, S), NEW U, NEW u, IsSum(u, f, U),
           NEW X, IsFiniteSet(X), X \subseteq S, X \subseteq U
    PROVE  s[X] = u[X]
  <1> DEFINE B == {T \in SUBSET X : s[T] # u[T]}
  <1>1. ASSUME B # {} PROVE FALSE
    <2>1. PICK M \in B : \A T \in B : T \subseteq M => T = M
      <3>1. B \subseteq SUBSET X
        OBVIOUS
      <3> HIDE DEF B
      <3> QED
        BY <1>1, <3>1, SmallestPart
    <2>2. M \in SUBSET S /\ M \in SUBSET U /\ M \subseteq X
      OBVIOUS
    <2> DEFINE c == Pick(M)
    <2>3. CASE M = {}
      <3>1. s[M] = 0 /\ u[M] = 0
        BY <2>2, <2>3, SumAt
      <3> QED
        BY <3>1
    <2>4. CASE M # {}
      <3>1. c \in M
        BY <2>4 DEF Pick
      <3>2. s[M \ {c}] = u[M \ {c}]
        BY <2>1, <2>2, <3>1
      <3>3. s[M] = f[c] + s[M \ {c}]
        BY <2>2, <2>4, SumAt
      <3>4. u[M] = f[c] + u[M \ {c}]
        BY <2>2, <2>4, SumAt
      <3> QED
        BY <3>2, <3>3, <3>4
    <2> QED
      BY <2>3, <2>4
  <1> QED
    BY <1>1

\* The equation of the sum, over any finite set.
LEMMA SumExists ==
    ASSUME NEW f, NEW S, IsFiniteSet(S)
    PROVE  \E s : IsSum(s, f, S)
  <1> DEFINE sum(T) == (CHOOSE s : IsSum(s, f, T))[T]
             B == {T \in SUBSET S : ~\E s : IsSum(s, f, T)}
  <1>1. ASSUME B # {} PROVE FALSE
    <2>1. PICK M \in B : \A T \in B : T \subseteq M => T = M
      <3>1. B \subseteq SUBSET S
        OBVIOUS
      <3> HIDE DEF B
      <3> QED
        BY <1>1, <3>1, SmallestPart
    <2>2. \A T \in SUBSET M : T # M => \E s : IsSum(s, f, T)
      BY <2>1
    <2> DEFINE s == [T \in SUBSET M |->
                        IF T = {} THEN 0 ELSE f[Pick(T)] + sum(T \ {Pick(T)})]
    <2>3. ASSUME NEW T \in SUBSET M, T # M PROVE s[T] = sum(T)
      <3>1. PICK t : t = (CHOOSE x : IsSum(x, f, T)) /\ IsSum(t, f, T)
        BY <2>2, <2>3
      <3>2. sum(T) = t[T]
        BY <3>1
      <3>3. CASE T = {}
        BY <3>1, <3>2, <3>3, SumAt
      <3>4. CASE T # {}
        <4> DEFINE U == T \ {Pick(T)}
        <4>1. Pick(T) \in T
          BY <3>4 DEF Pick
        <4>2. U \in SUBSET M /\ U # M /\ U \subseteq T
          BY <4>1
        <4>3. PICK u : u = (CHOOSE x : IsSum(x, f, U)) /\ IsSum(u, f, U)
          BY <2>2, <4>2
        <4>4. IsFiniteSet(U)
          BY <4>2, FS_Subset
        <4>5. u[U] = t[U]
          <5> HIDE DEF U
          <5> QED
            BY <3>1, <4>2, <4>3, <4>4, SumsAgree
        <4>6. sum(U) = u[U]
          BY <4>3
        <4>7. t[T] = f[Pick(T)] + t[U]
          BY <3>1, <3>4, SumAt
        <4>8. s[T] = f[Pick(T)] + sum(U)
          BY <3>4
        <4> QED
          BY <3>2, <4>5, <4>6, <4>7, <4>8
      <3> QED
        BY <3>3, <3>4
    <2>4. IsSum(s, f, M)
      <3>1. ASSUME NEW T \in SUBSET M
            PROVE  s[T] = IF T = {} THEN 0 ELSE f[Pick(T)] + s[T \ {Pick(T)}]
        <4>1. CASE T = {}
          BY <4>1
        <4>2. CASE T # {}
          <5>1. Pick(T) \in T
            BY <4>2 DEF Pick
          <5>2. s[T \ {Pick(T)}] = sum(T \ {Pick(T)})
            BY <5>1, <2>3
          <5> HIDE DEF sum
          <5> QED
            BY <4>2, <5>2
        <4> QED
          BY <4>1, <4>2
      <3> DEFINE e(T) == IF T = {} THEN 0 ELSE f[Pick(T)] + s[T \ {Pick(T)}]
      <3>2. \A T \in SUBSET M : s[T] = e(T)
        BY <3>1
      <3>3. s = [T \in SUBSET M |-> s[T]]
        OBVIOUS
      <3> HIDE DEF s
      <3> QED
        BY <3>2, <3>3 DEF IsSum
    <2> QED
      BY <2>1, <2>4
  <1> QED
    BY <1>1

\* A sum is what one element adds to the sum over the others.
LEMMA SumPick ==
    ASSUME NEW f, NEW S, IsFiniteSet(S)
    PROVE  SumFunctionOnSet(f, S) =
               IF S = {} THEN 0
               ELSE f[Pick(S)] + SumFunctionOnSet(f, S \ {Pick(S)})
  <1> DEFINE U == S \ {Pick(S)}
  <1>1. PICK s : s = (CHOOSE x : IsSum(x, f, S)) /\ IsSum(s, f, S)
    BY SumExists
  <1>2. SumFunctionOnSet(f, S) = s[S]
    BY <1>1, SumIs
  <1>3. IsFiniteSet(U) /\ U \subseteq S
    BY FS_Subset
  <1>4. PICK u : u = (CHOOSE x : IsSum(x, f, U)) /\ IsSum(u, f, U)
    BY <1>3, SumExists
  <1>5. SumFunctionOnSet(f, U) = u[U]
    BY <1>4, SumIs
  <1>6. s[U] = u[U]
    <2> HIDE DEF U
    <2> QED
      BY <1>1, <1>3, <1>4, SumsAgree
  <1> QED
    BY <1>1, <1>2, <1>5, <1>6, SumAt

\* The sum over nothing is 0.
LEMMA SumEmpty ==
    \A f, S : S = {} => SumFunctionOnSet(f, S) = 0
  <1> SUFFICES ASSUME NEW f, NEW S, S = {}
               PROVE  SumFunctionOnSet(f, S) = 0
    OBVIOUS
  <1>1. IsFiniteSet(S)
    BY FS_EmptySet
  <1> QED
    BY <1>1, SumPick

\* A sum of natural numbers is one.
LEMMA SumNat ==
    ASSUME NEW f, NEW S, IsFiniteSet(S), \A x \in S : f[x] \in Nat
    PROVE  SumFunctionOnSet(f, S) \in Nat
  <1> DEFINE B == {T \in SUBSET S : SumFunctionOnSet(f, T) \notin Nat}
  <1>1. ASSUME B # {} PROVE FALSE
    <2>1. PICK M \in B : \A T \in B : T \subseteq M => T = M
      <3>1. B \subseteq SUBSET S
        OBVIOUS
      <3> HIDE DEF B
      <3> QED
        BY <1>1, <3>1, SmallestPart
    <2>2. IsFiniteSet(M) /\ M \subseteq S
      BY FS_Subset
    <2>3. M # {}
      BY <2>1, SumEmpty
    <2>4. Pick(M) \in M
      BY <2>3 DEF Pick
    <2>5. SumFunctionOnSet(f, M \ {Pick(M)}) \in Nat
      BY <2>1, <2>4
    <2>6. SumFunctionOnSet(f, M) = f[Pick(M)] + SumFunctionOnSet(f, M \ {Pick(M)})
      BY <2>2, <2>3, SumPick
    <2> QED
      BY <2>2, <2>4, <2>5, <2>6
  <1> QED
    BY <1>1

\* It does not matter which number is added last.
LEMMA SumLast ==
    ASSUME NEW f, NEW S, IsFiniteSet(S), \A x \in S : f[x] \in Nat, NEW a \in S
    PROVE  SumFunctionOnSet(f, S) = f[a] + SumFunctionOnSet(f, S \ {a})
  <1> DEFINE sum(T) == SumFunctionOnSet(f, T)
             B == {T \in SUBSET S : \E x \in T : sum(T) # f[x] + sum(T \ {x})}
  <1>1. ASSUME B # {} PROVE FALSE
    <2>1. PICK M \in B : \A T \in B : T \subseteq M => T = M
      <3>1. B \subseteq SUBSET S
        OBVIOUS
      <3> HIDE DEF B
      <3> QED
        BY <1>1, <3>1, SmallestPart
    <2>2. IsFiniteSet(M) /\ M \subseteq S
      BY FS_Subset
    <2>3. PICK b \in M : sum(M) # f[b] + sum(M \ {b})
      BY <2>1
    <2> DEFINE c == Pick(M)
    <2>4. c \in M
      BY <2>3 DEF Pick
    <2>5. sum(M) = f[c] + sum(M \ {c})
      BY <2>2, <2>3, SumPick
    <2>6. b # c
      BY <2>3, <2>5
    <2>7. \A x \in M, T \in SUBSET M : T # M /\ x \in T => sum(T) = f[x] + sum(T \ {x})
      BY <2>1, <2>2
    <2> HIDE DEF sum, c
    <2>8. sum(M \ {c}) = f[b] + sum((M \ {c}) \ {b})
      BY <2>4, <2>6, <2>7
    <2>9. sum(M \ {b}) = f[c] + sum((M \ {b}) \ {c})
      BY <2>4, <2>6, <2>7
    <2> DEFINE U == (M \ {c}) \ {b}
    <2>10. U = (M \ {b}) \ {c} /\ U \subseteq S
      BY <2>2
    <2>11. sum(U) \in Nat
      <3>1. IsFiniteSet(U)
        BY <2>10, FS_Subset
      <3> HIDE DEF U
      <3> QED
        BY <2>10, <3>1, SumNat DEF sum
    <2>12. f[b] \in Nat /\ f[c] \in Nat
      BY <2>2, <2>4
    <2> HIDE DEF U
    <2>13. sum(M \ {c}) = f[b] + sum(U) /\ sum(M \ {b}) = f[c] + sum(U)
      BY <2>8, <2>9, <2>10 DEF U
    <2> QED
      BY <2>3, <2>5, <2>11, <2>12, <2>13
  <1> QED
    BY <1>1

\* Of two sums over one set, that of the greater numbers is no less.
LEMMA SumLess ==
    ASSUME NEW f, NEW g, NEW S, IsFiniteSet(S),
           \A x \in S : f[x] \in Nat /\ g[x] \in Nat /\ f[x] <= g[x]
    PROVE  SumFunctionOnSet(f, S) <= SumFunctionOnSet(g, S)
  <1> DEFINE B == {T \in SUBSET S : ~(SumFunctionOnSet(f, T) <= SumFunctionOnSet(g, T))}
  <1>1. ASSUME B # {} PROVE FALSE
    <2>1. PICK M \in B : \A T \in B : T \subseteq M => T = M
      <3>1. B \subseteq SUBSET S
        OBVIOUS
      <3> HIDE DEF B
      <3> QED
        BY <1>1, <3>1, SmallestPart
    <2>2. IsFiniteSet(M) /\ M \subseteq S
      BY FS_Subset
    <2>3. M # {}
      BY <2>1, SumEmpty
    <2> DEFINE U == M \ {Pick(M)}
    <2>4. Pick(M) \in M
      BY <2>3 DEF Pick
    <2>5. SumFunctionOnSet(f, U) <= SumFunctionOnSet(g, U)
      BY <2>1, <2>4
    <2>6. /\ SumFunctionOnSet(f, M) = f[Pick(M)] + SumFunctionOnSet(f, U)
          /\ SumFunctionOnSet(g, M) = g[Pick(M)] + SumFunctionOnSet(g, U)
      BY <2>2, <2>3, SumPick
    <2>7. IsFiniteSet(U) /\ U \subseteq S
      BY <2>2, FS_Subset
    <2>8. SumFunctionOnSet(f, U) \in Nat /\ SumFunctionOnSet(g, U) \in Nat
      BY <2>7, SumNat
    <2>9. f[Pick(M)] \in Nat /\ g[Pick(M)] \in Nat /\ f[Pick(M)] <= g[Pick(M)]
      BY <2>2, <2>4
    <2> HIDE DEF U
    <2>10. ~(SumFunctionOnSet(f, M) <= SumFunctionOnSet(g, M))
      BY <2>1
    <2> QED
      BY <2>5, <2>6, <2>8, <2>9, <2>10
  <1> QED
    BY <1>1

\* So sums of the same numbers are the same.
LEMMA SumSame ==
    ASSUME NEW f, NEW g, NEW S, IsFiniteSet(S),
           \A x \in S : f[x] \in Nat /\ f[x] = g[x]
    PROVE  SumFunctionOnSet(f, S) = SumFunctionOnSet(g, S)
  <1>1. SumFunctionOnSet(f, S) <= SumFunctionOnSet(g, S)
    BY SumLess
  <1>2. SumFunctionOnSet(g, S) <= SumFunctionOnSet(f, S)
    BY SumLess
  <1>3. SumFunctionOnSet(f, S) \in Nat /\ SumFunctionOnSet(g, S) \in Nat
    BY SumNat
  <1> QED
    BY <1>1, <1>2, <1>3

\* The sum over two sets apart is that of their sums.
LEMMA SumUnion ==
    ASSUME NEW f, NEW S, NEW U, IsFiniteSet(S), IsFiniteSet(U), S \intersect U = {},
           \A x \in S \union U : f[x] \in Nat
    PROVE  SumFunctionOnSet(f, S \union U)
               = SumFunctionOnSet(f, S) + SumFunctionOnSet(f, U)
  <1> DEFINE sum(T) == SumFunctionOnSet(f, T)
             B == {T \in SUBSET U : sum(S \union T) # sum(S) + sum(T)}
  <1>1. ASSUME B # {} PROVE FALSE
    <2>1. PICK M \in B : \A T \in B : T \subseteq M => T = M
      <3>1. B \subseteq SUBSET U
        OBVIOUS
      <3> HIDE DEF B
      <3> QED
        BY <1>1, <3>1, SmallestPart
    <2>2. IsFiniteSet(M) /\ M \subseteq U /\ IsFiniteSet(S \union M)
      BY FS_Subset, FS_Union
    <2>3. sum(S) \in Nat
      BY SumNat
    <2>4. M # {}
      <3> SUFFICES ASSUME M = {} PROVE FALSE
        OBVIOUS
      <3>1. S \union M = S /\ sum(M) = 0
        BY SumEmpty
      <3>2. sum(S \union M) # sum(S) + sum(M)
        BY <2>1
      <3> QED
        BY <2>3, <3>1, <3>2
    <2> DEFINE c == Pick(M)
               V == M \ {c}
    <2>5. c \in M
      BY <2>4 DEF Pick
    <2>6. sum(S \union V) = sum(S) + sum(V)
      BY <2>1, <2>5
    <2>7. sum(M) = f[c] + sum(V)
      BY <2>2, <2>4, SumPick
    <2>8. (S \union M) \ {c} = S \union V /\ c \in S \union M
      BY <2>2, <2>5
    <2>9. sum(S \union M) = f[c] + sum((S \union M) \ {c})
      <3> HIDE DEF c
      <3> QED
        BY <2>2, <2>8, SumLast
    <2>10. sum(V) \in Nat
      <3>1. IsFiniteSet(V) /\ V \subseteq U
        BY <2>2, FS_Subset
      <3> QED
        BY <3>1, SumNat
    <2>11. f[c] \in Nat
      BY <2>2, <2>5
    <2>12. sum(S \union M) # sum(S) + sum(M)
      BY <2>1
    <2> HIDE DEF sum, c, V
    <2> QED
      BY <2>3, <2>6, <2>7, <2>8, <2>9, <2>10, <2>11, <2>12
  <1> QED
    BY <1>1

\* The sum over a part is no greater.
LEMMA SumPart ==
    ASSUME NEW f, NEW S, NEW U, IsFiniteSet(S), U \subseteq S,
           \A x \in S : f[x] \in Nat
    PROVE  SumFunctionOnSet(f, U) <= SumFunctionOnSet(f, S)
  <1> DEFINE V == S \ U
  <1>1. IsFiniteSet(U) /\ IsFiniteSet(V)
    BY FS_Subset
  <1>2. U \union V = S /\ U \intersect V = {}
    OBVIOUS
  <1>3. SumFunctionOnSet(f, U \union V) = SumFunctionOnSet(f, U) + SumFunctionOnSet(f, V)
    <2> HIDE DEF V
    <2> QED
      BY <1>1, <1>2, SumUnion
  <1>4. SumFunctionOnSet(f, U) \in Nat /\ SumFunctionOnSet(f, V) \in Nat
    BY <1>1, <1>2, SumNat
  <1>5. SumFunctionOnSet(f, S) = SumFunctionOnSet(f, U) + SumFunctionOnSet(f, V)
    BY <1>2, <1>3
  <1> HIDE DEF V
  <1> QED
    BY <1>4, <1>5

\* The sum of equal numbers is a product.
LEMMA SumEqual ==
    ASSUME NEW f, NEW S, IsFiniteSet(S), NEW k \in Nat, \A x \in S : f[x] = k
    PROVE  SumFunctionOnSet(f, S) = Cardinality(S) * k
  <1> DEFINE B == {T \in SUBSET S : SumFunctionOnSet(f, T) # Cardinality(T) * k}
  <1>1. ASSUME B # {} PROVE FALSE
    <2>1. PICK M \in B : \A T \in B : T \subseteq M => T = M
      <3>1. B \subseteq SUBSET S
        OBVIOUS
      <3> HIDE DEF B
      <3> QED
        BY <1>1, <3>1, SmallestPart
    <2>2. IsFiniteSet(M) /\ M \subseteq S
      BY FS_Subset
    <2>3. M # {}
      <3>1. Cardinality({}) = 0
        BY FS_EmptySet
      <3> QED
        BY <2>1, <3>1, SumEmpty
    <2> DEFINE U == M \ {Pick(M)}
               n == Cardinality(U)
    <2>4. Pick(M) \in M
      BY <2>3 DEF Pick
    <2>5. SumFunctionOnSet(f, U) = n * k
      BY <2>1, <2>4
    <2>6. SumFunctionOnSet(f, M) = f[Pick(M)] + SumFunctionOnSet(f, U)
      BY <2>2, <2>3, SumPick
    <2>7. Cardinality(M) = n + 1 /\ n \in Nat
      <3>1. IsFiniteSet(U) /\ n = Cardinality(M) - 1
        BY <2>2, <2>4, FS_RemoveElement
      <3>2. n \in Nat /\ Cardinality(M) \in Nat
        BY <2>2, <3>1, FS_CardinalityType
      <3> HIDE DEF n
      <3> QED
        BY <3>1, <3>2
    <2>8. f[Pick(M)] = k
      BY <2>2, <2>4
    <2>9. SumFunctionOnSet(f, M) # Cardinality(M) * k
      BY <2>1
    <2> HIDE DEF n
    <2>10. (n + 1) * k = k + n * k
      BY <2>7
    <2> QED
      BY <2>5, <2>6, <2>7, <2>8, <2>9, <2>10
  <1> QED
    BY <1>1

\* A sum of multiples is a multiple of the sum.
LEMMA SumTimes ==
    ASSUME NEW f, NEW g, NEW S, IsFiniteSet(S), NEW k \in Nat,
           \A x \in S : f[x] \in Nat /\ g[x] = k * f[x]
    PROVE  SumFunctionOnSet(g, S) = k * SumFunctionOnSet(f, S)
  <1> DEFINE B == {T \in SUBSET S : SumFunctionOnSet(g, T) # k * SumFunctionOnSet(f, T)}
  <1>1. ASSUME B # {} PROVE FALSE
    <2>1. PICK M \in B : \A T \in B : T \subseteq M => T = M
      <3>1. B \subseteq SUBSET S
        OBVIOUS
      <3> HIDE DEF B
      <3> QED
        BY <1>1, <3>1, SmallestPart
    <2>2. IsFiniteSet(M) /\ M \subseteq S
      BY FS_Subset
    <2>3. M # {}
      BY <2>1, SumEmpty
    <2> DEFINE U == M \ {Pick(M)}
    <2>4. Pick(M) \in M
      BY <2>3 DEF Pick
    <2>5. SumFunctionOnSet(g, U) = k * SumFunctionOnSet(f, U)
      BY <2>1, <2>4
    <2>6. /\ SumFunctionOnSet(f, M) = f[Pick(M)] + SumFunctionOnSet(f, U)
          /\ SumFunctionOnSet(g, M) = g[Pick(M)] + SumFunctionOnSet(g, U)
      BY <2>2, <2>3, SumPick
    <2>7. SumFunctionOnSet(f, U) \in Nat
      <3>1. IsFiniteSet(U) /\ U \subseteq S
        BY <2>2, FS_Subset
      <3> QED
        BY <3>1, SumNat
    <2>8. f[Pick(M)] \in Nat /\ g[Pick(M)] = k * f[Pick(M)]
      BY <2>2, <2>4
    <2>9. SumFunctionOnSet(g, M) # k * SumFunctionOnSet(f, M)
      BY <2>1
    <2> HIDE DEF U
    <2>10. \A a, b \in Nat : k * (a + b) = k * a + k * b
      OBVIOUS
    <2> QED
      BY <2>5, <2>6, <2>7, <2>8, <2>9, <2>10
  <1> QED
    BY <1>1

\* The sum of the sums of two functions.
LEMMA SumPlus ==
    ASSUME NEW f, NEW g, NEW h, NEW S, IsFiniteSet(S),
           \A x \in S : f[x] \in Nat /\ g[x] \in Nat /\ h[x] = f[x] + g[x]
    PROVE  SumFunctionOnSet(h, S) = SumFunctionOnSet(f, S) + SumFunctionOnSet(g, S)
  <1> DEFINE B == {T \in SUBSET S : SumFunctionOnSet(h, T)
                       # SumFunctionOnSet(f, T) + SumFunctionOnSet(g, T)}
  <1>1. ASSUME B # {} PROVE FALSE
    <2>1. PICK M \in B : \A T \in B : T \subseteq M => T = M
      <3>1. B \subseteq SUBSET S
        OBVIOUS
      <3> HIDE DEF B
      <3> QED
        BY <1>1, <3>1, SmallestPart
    <2>2. IsFiniteSet(M) /\ M \subseteq S
      BY FS_Subset
    <2>3. M # {}
      BY <2>1, SumEmpty
    <2> DEFINE U == M \ {Pick(M)}
    <2>4. Pick(M) \in M
      BY <2>3 DEF Pick
    <2>5. SumFunctionOnSet(h, U) = SumFunctionOnSet(f, U) + SumFunctionOnSet(g, U)
      BY <2>1, <2>4
    <2>6. /\ SumFunctionOnSet(f, M) = f[Pick(M)] + SumFunctionOnSet(f, U)
          /\ SumFunctionOnSet(g, M) = g[Pick(M)] + SumFunctionOnSet(g, U)
          /\ SumFunctionOnSet(h, M) = h[Pick(M)] + SumFunctionOnSet(h, U)
      BY <2>2, <2>3, SumPick
    <2>7. SumFunctionOnSet(f, U) \in Nat /\ SumFunctionOnSet(g, U) \in Nat
      <3>1. IsFiniteSet(U) /\ U \subseteq S
        BY <2>2, FS_Subset
      <3> QED
        BY <3>1, SumNat
    <2>8. f[Pick(M)] \in Nat /\ g[Pick(M)] \in Nat /\ h[Pick(M)] = f[Pick(M)] + g[Pick(M)]
      BY <2>2, <2>4
    <2>9. SumFunctionOnSet(h, M) # SumFunctionOnSet(f, M) + SumFunctionOnSet(g, M)
      BY <2>1
    <2> HIDE DEF U
    <2> QED
      BY <2>5, <2>6, <2>7, <2>8, <2>9
  <1> QED
    BY <1>1

-----------------------------------------------------------------------------
(* The score of a paper.                                                   *)

\* Finitely many units, each of an importance that has a weight.
Weighed(S) ==
    IsFiniteSet(S) /\ \A u \in S : u.importance \in DOMAIN IMPORTANCE_WEIGHTS

\* Fewer units weigh no more.
LEMMA WeightLess ==
    ASSUME NEW T, Weighed(T), NEW S, S \subseteq T
    PROVE  WeightOf(S) \in Nat /\ WeightOf(S) <= WeightOf(T)
  <1> DEFINE f == [u \in S |-> IMPORTANCE_WEIGHTS[u.importance]]
             g == [u \in T |-> IMPORTANCE_WEIGHTS[u.importance]]
  <1>1. IsFiniteSet(T) /\ IsFiniteSet(S)
    BY FS_Subset DEF Weighed
  <1>2. \A u \in T : g[u] \in Nat
    BY DEF Weighed, IMPORTANCE_WEIGHTS
  <1>3. \A u \in S : f[u] \in Nat /\ f[u] = g[u]
    BY <1>2
  <1>4. WeightOf(S) = SumFunctionOnSet(f, S) /\ WeightOf(T) = SumFunctionOnSet(g, T)
    BY DEF WeightOf, SumFunction
  <1> HIDE DEF f, g
  <1>5. SumFunctionOnSet(f, S) = SumFunctionOnSet(g, S)
    BY <1>1, <1>3, SumSame
  <1>6. SumFunctionOnSet(g, S) <= SumFunctionOnSet(g, T)
    BY <1>1, <1>2, SumPart
  <1>7. SumFunctionOnSet(f, S) \in Nat
    BY <1>1, <1>3, SumNat
  <1> QED
    BY <1>4, <1>5, <1>6, <1>7

\* Fewer findings cost no more.
LEMMA PenaltyLess ==
    ASSUME NEW G, Judged(G), NEW F, F \subseteq G
    PROVE  /\ Penalty(F) \in Nat /\ Penalty(G) \in Nat /\ Penalty(F) <= Penalty(G)
  <1> DEFINE f == [x \in F |-> PENALTIES[x.severity]]
             g == [x \in G |-> PENALTIES[x.severity]]
  <1>1. IsFiniteSet(G) /\ IsFiniteSet(F)
    BY FS_Subset DEF Judged
  <1>2. \A x \in G : g[x] \in Nat
    BY DEF Judged, PENALTIES
  <1>3. \A x \in F : f[x] \in Nat /\ f[x] = g[x]
    BY <1>2
  <1>4. Penalty(F) = SumFunctionOnSet(f, F) /\ Penalty(G) = SumFunctionOnSet(g, G)
    BY DEF Penalty, SumFunction
  <1> HIDE DEF f, g
  <1>5. SumFunctionOnSet(f, F) = SumFunctionOnSet(g, F)
    BY <1>1, <1>3, SumSame
  <1>6. SumFunctionOnSet(g, F) <= SumFunctionOnSet(g, G)
    BY <1>1, <1>2, SumPart
  <1>7. SumFunctionOnSet(f, F) \in Nat /\ SumFunctionOnSet(g, G) \in Nat
    BY <1>1, <1>2, <1>3, SumNat
  <1> QED
    BY <1>4, <1>5, <1>6, <1>7

\* What the penalties leave.
Left(n) == Max({0, 10000 - n})

\* More penalties leave no more.
LEMMA LeftFacts ==
    ASSUME NEW m \in Nat, NEW n \in Nat, m <= n
    PROVE  Left(m) \in Nat /\ Left(n) \in Nat /\ Left(n) <= Left(m)
  <1>1. \A k \in Nat : Left(k) = IF 0 >= 10000 - k THEN 0 ELSE 10000 - k
    BY MaxOfTwo DEF Left
  <1> QED
    BY <1>1

\* A ceiling is a natural number.
LEMMA CeilingNat ==
    \A f : Ceiling(f) \in Nat
  <1> SUFFICES ASSUME NEW f PROVE Ceiling(f) \in Nat
    OBVIOUS
  <1> DEFINE a == IF f.severity = "blocker" THEN 500 ELSE 10000
             b == CASE f.code \in {"invalid_json", "schema_validation_failed"} -> 2000
                    [] f.code = "missing_layer" -> 2500
                    [] f.code = "no_evidence_records" -> 4000
                    [] f.code \in {"no_source_refs", "missing_source_span"} -> 5000
                    [] OTHER -> 10000
  <1>1. a \in Nat
    OBVIOUS
  <1>2. b \in Nat
    <2>1. CASE f.code \in {"invalid_json", "schema_validation_failed"}
      BY <2>1
    <2>2. CASE f.code = "missing_layer"
      BY <2>2
    <2>3. CASE f.code = "no_evidence_records"
      BY <2>3
    <2>4. CASE f.code \in {"no_source_refs", "missing_source_span"}
      BY <2>4
    <2>5. CASE f.code \notin {"invalid_json", "schema_validation_failed", "missing_layer",
                  "no_evidence_records", "no_source_refs", "missing_source_span"}
      BY <2>5
    <2> QED
      BY <2>1, <2>2, <2>3, <2>4, <2>5
  <1>3. Ceiling(f) = Min({a, b})
    BY DEF Ceiling
  <1> HIDE DEF a, b
  <1> QED
    BY <1>1, <1>2, <1>3, MinOfTwo

\* Fewer findings are of no lower a quality, through the penalties and the
\* ceilings.
LEMMA QualityLess ==
    ASSUME NEW G, Judged(G), NEW F, F \subseteq G
    PROVE  Quality(F) \in Nat /\ Quality(G) \in Nat /\ Quality(G) <= Quality(F)
  <1> DEFINE C(H) == {Left(Penalty(H))} \union {Ceiling(f) : f \in H}
  <1>1. Left(Penalty(F)) \in Nat /\ Left(Penalty(G)) \in Nat
        /\ Left(Penalty(G)) <= Left(Penalty(F))
    BY PenaltyLess, LeftFacts
  <1>2. \A f : Ceiling(f) \in Nat
    BY CeilingNat
  <1>3. C(F) \in SUBSET Nat /\ C(F) # {} /\ C(G) \in SUBSET Nat /\ C(G) # {}
    BY <1>1, <1>2
  <1>4. Quality(F) = Min(C(F)) /\ Quality(G) = Min(C(G))
    BY DEF Quality, Left
  <1>5. \A x \in C(F) : \E y \in C(G) : y <= x
    BY <1>1, <1>2
  <1>6. Min(C(F)) \in C(F) /\ \A y \in C(F) : Min(C(F)) <= y
    <2> HIDE DEF C
    <2> QED
      BY <1>3, MinFacts
  <1>7. Min(C(G)) \in C(G) /\ \A y \in C(G) : Min(C(G)) <= y
    <2> HIDE DEF C
    <2> QED
      BY <1>3, MinFacts
  <1> HIDE DEF C
  <1>8. PICK y \in C(G) : y <= Min(C(F))
    BY <1>5, <1>6
  <1> QED
    BY <1>3, <1>4, <1>6, <1>7, <1>8

\* So are fewer invalid candidates.
LEMMA AdjudicationLess ==
    ASSUME NEW v, NEW w, Judged(v.invalid), w.invalid \subseteq v.invalid
    PROVE  /\ AdjudicationQuality(v) \in Nat /\ AdjudicationQuality(w) \in Nat
           /\ AdjudicationQuality(v) <= AdjudicationQuality(w)
  <1>1. Left(Penalty(v.invalid)) \in Nat /\ Left(Penalty(w.invalid)) \in Nat
        /\ Left(Penalty(v.invalid)) <= Left(Penalty(w.invalid))
    BY PenaltyLess, LeftFacts
  <1> QED
    BY <1>1 DEF AdjudicationQuality, Left

\* Whoever covers more has no lower a coverage, with the cap of the minor
\* units.
LEMMA CoverageLess ==
    ASSUME NEW p \in Papers, NEW c, NEW d, c \subseteq d
    PROVE  Coverage(p, c) \in Nat /\ Coverage(p, d) \in Nat
           /\ Coverage(p, c) <= Coverage(p, d)
  <1> DEFINE scored == Scored(p)
             minors == MinorOf(scored)
             others == scored \ minors
             total == WeightOf(others)
             minor == WeightOf(minors)
             capped(w) == Min({95 * w, 5 * total})
             low == WeightOf(others \intersect c)
             high == WeightOf(others \intersect d)
             minorLow == WeightOf(minors \intersect c)
             minorHigh == WeightOf(minors \intersect d)
             den == 95 * total + capped(minor)
  <1>1. Weighed(scored) /\ Weighed(minors) /\ Weighed(others)
    <2>1. Weighed(Units[p])
      BY BatchAssumption DEF IsBatch, Weighed
    <2>2. scored \subseteq Units[p] /\ minors \subseteq Units[p] /\ others \subseteq Units[p]
      BY DEF Scored, MinorOf
    <2> HIDE DEF scored, minors, others
    <2> QED
      BY <2>1, <2>2, FS_Subset DEF Weighed
  <1>2. total \in Nat /\ minor \in Nat
    <2> HIDE DEF scored, minors, others
    <2> QED
      BY <1>1, WeightLess
  <1>3. low \in Nat /\ high \in Nat /\ low <= high
    <2> DEFINE S == others \intersect c
               T == others \intersect d
    <2>1. S \subseteq T /\ T \subseteq others
      OBVIOUS
    <2>2. Weighed(T)
      BY <1>1, <2>1, FS_Subset DEF Weighed
    <2> HIDE DEF S, T
    <2>3. WeightOf(S) \in Nat /\ WeightOf(T) \in Nat /\ WeightOf(S) <= WeightOf(T)
      BY <2>1, <2>2, WeightLess
    <2> QED
      BY <2>3 DEF S, T
  <1>4. minorLow \in Nat /\ minorHigh \in Nat /\ minorLow <= minorHigh
    <2> DEFINE S == minors \intersect c
               T == minors \intersect d
    <2>1. S \subseteq T /\ T \subseteq minors
      OBVIOUS
    <2>2. Weighed(T)
      BY <1>1, <2>1, FS_Subset DEF Weighed
    <2> HIDE DEF S, T
    <2>3. WeightOf(S) \in Nat /\ WeightOf(T) \in Nat /\ WeightOf(S) <= WeightOf(T)
      BY <2>1, <2>2, WeightLess
    <2> QED
      BY <2>3 DEF S, T
  <1>5. Coverage(p, c) =
            IF total > 0 THEN Round(10000 * (95 * low + capped(minorLow)), den)
            ELSE IF minor = 0 THEN 10000 ELSE Round(10000 * minorLow, minor)
    BY DEF Coverage
  <1>6. Coverage(p, d) =
            IF total > 0 THEN Round(10000 * (95 * high + capped(minorHigh)), den)
            ELSE IF minor = 0 THEN 10000 ELSE Round(10000 * minorHigh, minor)
    BY DEF Coverage
  <1> HIDE DEF scored, minors, others, total, minor, low, high, minorLow, minorHigh
  <1>7. \A w \in Nat : capped(w) = IF 95 * w <= 5 * total THEN 95 * w ELSE 5 * total
    BY <1>2, MinOfTwo
  <1> HIDE DEF capped
  <1>8. CASE total > 0
    <2> DEFINE a == 10000 * (95 * low + capped(minorLow))
               b == 10000 * (95 * high + capped(minorHigh))
    <2>1. a \in Nat /\ b \in Nat /\ a <= b
      BY <1>2, <1>3, <1>4, <1>7
    <2>2. den \in Nat \ {0}
      BY <1>2, <1>7, <1>8
    <2> HIDE DEF a, b, den
    <2>3. Round(a, den) \in Nat /\ Round(b, den) \in Nat /\ Round(a, den) <= Round(b, den)
      BY <2>1, <2>2, RoundNat, RoundMonotone
    <2> QED
      BY <1>5, <1>6, <1>8, <2>3 DEF a, b
  <1>9. CASE ~(total > 0) /\ minor = 0
    BY <1>5, <1>6, <1>9
  <1>10. CASE ~(total > 0) /\ minor # 0
    <2> DEFINE a == 10000 * minorLow
               b == 10000 * minorHigh
    <2>1. a \in Nat /\ b \in Nat /\ a <= b
      BY <1>4
    <2>2. minor \in Nat \ {0}
      BY <1>2, <1>10
    <2> HIDE DEF a, b
    <2>3. Round(a, minor) \in Nat /\ Round(b, minor) \in Nat
          /\ Round(a, minor) <= Round(b, minor)
      BY <2>1, <2>2, RoundNat, RoundMonotone
    <2> QED
      BY <1>5, <1>6, <1>10, <2>3 DEF a, b
  <1> QED
    BY <1>8, <1>9, <1>10

\* No better a work has no higher a score.
LEMMA ScoreLess ==
    ASSUME work \in [Miners -> [Papers -> Works]],
           NEW m \in Miners, NEW n \in Miners, NEW p \in Papers
    PROVE  /\ ScoreOf(n, p) \in Nat
           /\ NoBetter(work[n][p], work[m][p]) => ScoreOf(n, p) <= ScoreOf(m, p)
  <1> DEFINE v == work[n][p]
             w == work[m][p]
             q(x) == Quality(x.findings) * AdjudicationQuality(x)
             s(x) == Round(Coverage(p, x.covered) * Round(q(x), 10000), 10000)
  <1>1. v \in Works /\ w \in Works
    OBVIOUS
  <1>2. Judged(v.findings) /\ Judged(v.invalid) /\ Judged(w.findings) /\ Judged(w.invalid)
    BY <1>1, BatchAssumption DEF IsBatch
  <1>3. ScoreOf(n, p) = IF ~v.submitted \/ EmptyRecord(p) THEN 0 ELSE s(v)
    BY DEF ScoreOf
  <1>4. ScoreOf(m, p) = IF ~w.submitted \/ EmptyRecord(p) THEN 0 ELSE s(w)
    BY DEF ScoreOf
  <1> HIDE DEF v, w
  <1>5. \A x : Judged(x.findings) /\ Judged(x.invalid) =>
            Coverage(p, x.covered) \in Nat /\ q(x) \in Nat /\ Round(q(x), 10000) \in Nat
            /\ Quality(x.findings) \in Nat /\ AdjudicationQuality(x) \in Nat
    <2> SUFFICES ASSUME NEW x, Judged(x.findings), Judged(x.invalid)
                 PROVE  Coverage(p, x.covered) \in Nat /\ q(x) \in Nat
                        /\ Round(q(x), 10000) \in Nat
                        /\ Quality(x.findings) \in Nat /\ AdjudicationQuality(x) \in Nat
      OBVIOUS
    <2>1. Quality(x.findings) \in Nat /\ AdjudicationQuality(x) \in Nat
      BY QualityLess, AdjudicationLess
    <2>2. q(x) \in Nat
      BY <2>1
    <2> HIDE DEF q
    <2>3. Round(q(x), 10000) \in Nat
      BY <2>2, RoundNat
    <2> QED
      BY <2>1, <2>2, <2>3, CoverageLess
  <1>6. \A x : Judged(x.findings) /\ Judged(x.invalid) => s(x) \in Nat
    <2> SUFFICES ASSUME NEW x, Judged(x.findings), Judged(x.invalid) PROVE s(x) \in Nat
      OBVIOUS
    <2> DEFINE a == Coverage(p, x.covered) * Round(q(x), 10000)
    <2>1. a \in Nat
      BY <1>5
    <2> HIDE DEF a
    <2>2. Round(a, 10000) \in Nat
      BY <2>1, RoundNat
    <2> QED
      BY <2>2 DEF a
  <1>7. ASSUME v.covered \subseteq w.covered, w.findings \subseteq v.findings,
               w.invalid \subseteq v.invalid
        PROVE  s(v) <= s(w)
    <2>1. Quality(v.findings) <= Quality(w.findings)
      BY <1>2, <1>7, QualityLess
    <2>2. AdjudicationQuality(v) <= AdjudicationQuality(w)
      BY <1>2, <1>7, AdjudicationLess
    <2>3. q(v) <= q(w)
      <3>1. \A a, b, c, e \in Nat : a <= b /\ c <= e => a * c <= b * e
        BY TimesMonotone
      <3> QED
        BY <1>2, <1>5, <2>1, <2>2, <3>1
    <2>4. Round(q(v), 10000) <= Round(q(w), 10000)
      <3>1. q(v) \in Nat /\ q(w) \in Nat
        BY <1>2, <1>5
      <3> HIDE DEF q
      <3> QED
        BY <2>3, <3>1, RoundMonotone
    <2>5. Coverage(p, v.covered) <= Coverage(p, w.covered)
      BY <1>7, CoverageLess
    <2> DEFINE a == Coverage(p, v.covered) * Round(q(v), 10000)
               b == Coverage(p, w.covered) * Round(q(w), 10000)
    <2>6. a \in Nat /\ b \in Nat /\ a <= b
      <3>1. \A i, j, k, l \in Nat : i <= j /\ k <= l => i * k <= j * l /\ i * k \in Nat
        BY TimesMonotone
      <3> HIDE DEF q
      <3> QED
        BY <1>2, <1>5, <2>4, <2>5, <3>1
    <2> HIDE DEF a, b
    <2>7. Round(a, 10000) <= Round(b, 10000)
      BY <2>6, RoundMonotone
    <2> QED
      BY <2>7 DEF a, b
  <1> HIDE DEF s
  <1>8. s(v) \in Nat /\ s(w) \in Nat
    BY <1>2, <1>6
  <1>9. ScoreOf(n, p) \in Nat
    BY <1>3, <1>8
  <1>10. NoBetter(v, w) => ScoreOf(n, p) <= ScoreOf(m, p)
    BY <1>3, <1>4, <1>7, <1>8 DEF NoBetter
  <1> QED
    BY <1>9, <1>10 DEF v, w

-----------------------------------------------------------------------------
(* The batch.                                                              *)

\* Scores are natural numbers.
Scores == \A m \in Miners : batchScore[m] \in Nat

\* What holds of a batch at any time: each of its results is what the code
\* makes of the one before.
BatchInv ==
    /\ batchPhase \in {"submitted", "scored", "ranked", "paid"}
    /\ work \in [Miners -> [Papers -> Works]]
    /\ newcomers \subseteq Miners
    /\ batchPhase # "submitted" =>
          paperScore = [m \in Miners |-> [p \in Papers |-> ScoreOf(m, p)]]
    /\ batchPhase \in {"ranked", "paid"} =>
          \A m \in Miners :
              /\ batchScore[m] =
                    Round(SumFunctionOnSet(paperScore[m], Papers), Cardinality(Papers))
              /\ rank[m] = 1 + Cardinality(Better(m))
    /\ batchPhase = "paid" => payout = [m \in Miners |-> Payout(m)]

\* There are finitely many miners and papers.
LEMMA SizesOfBatch ==
    /\ IsFiniteSet(Miners) /\ Cardinality(Miners) \in Nat
    /\ IsFiniteSet(Papers) /\ Cardinality(Papers) \in Nat \ {0}
  <1>1. IsFiniteSet(Miners) /\ IsFiniteSet(Papers) /\ Papers # {}
    BY BatchAssumption DEF IsBatch
  <1> QED
    BY <1>1, FS_CardinalityType, FS_EmptySet

\* Miners are numbered from 1.
LEMMA MinersAre == Miners = 1..Cardinality(Miners) /\ \A m \in Miners : m \in Nat \ {0}
  BY SizesOfBatch, BatchAssumption DEF IsBatch

\* Better work has no lower a mean.
LEMMA MeanLess ==
    ASSUME BatchInv, batchPhase \in {"ranked", "paid"}
    PROVE  /\ Scores
           /\ \A m, n \in Miners :
                (\A p \in Papers : NoBetter(work[n][p], work[m][p]))
                => batchScore[n] <= batchScore[m]
  <1> DEFINE sum(m) == SumFunctionOnSet(paperScore[m], Papers)
             count == Cardinality(Papers)
  <1>1. work \in [Miners -> [Papers -> Works]]
    BY DEF BatchInv
  <1>2. \A m \in Miners, p \in Papers :
            paperScore[m][p] = ScoreOf(m, p) /\ paperScore[m][p] \in Nat
    BY <1>1, ScoreLess DEF BatchInv
  <1>3. \A m \in Miners : batchScore[m] = Round(sum(m), count)
    BY DEF BatchInv
  <1>4. count \in Nat \ {0}
    BY SizesOfBatch
  <1>5. \A m \in Miners : sum(m) \in Nat
    BY <1>2, SizesOfBatch, SumNat
  <1>6. ASSUME NEW m \in Miners, NEW n \in Miners,
               \A p \in Papers : NoBetter(work[n][p], work[m][p])
        PROVE  sum(n) <= sum(m)
    <2>1. \A p \in Papers : paperScore[n][p] <= paperScore[m][p]
      BY <1>1, <1>2, <1>6, ScoreLess
    <2> QED
      BY <1>2, <2>1, SizesOfBatch, SumLess
  <1> HIDE DEF sum, count
  <1>7. Scores
    BY <1>3, <1>4, <1>5, RoundNat DEF Scores
  <1>8. ASSUME NEW m \in Miners, NEW n \in Miners,
               \A p \in Papers : NoBetter(work[n][p], work[m][p])
        PROVE  batchScore[n] <= batchScore[m]
    <2>1. sum(n) <= sum(m) /\ sum(n) \in Nat /\ sum(m) \in Nat
      BY <1>5, <1>6, <1>8
    <2> QED
      BY <1>3, <1>4, <2>1, RoundMonotone
  <1> QED
    BY <1>7, <1>8

\* The miners ahead of one, and of its score.
LEMMA PlacesOf ==
    ASSUME Scores, NEW m \in Miners
    PROVE  /\ Cardinality(Better(m)) \in Nat
           /\ Cardinality(Level(m)) \in Nat \ {0}
           /\ IsFiniteSet(Better(m)) /\ IsFiniteSet(Level(m))
           /\ Better(m) \subseteq Miners /\ Level(m) \subseteq Miners
           /\ Cardinality(Better(m)) + Cardinality(Level(m)) <= Cardinality(Miners)
  <1>1. Better(m) \subseteq Miners /\ Level(m) \subseteq Miners /\ m \in Level(m)
    BY DEF Better, Level
  <1>2. IsFiniteSet(Better(m)) /\ IsFiniteSet(Level(m))
        /\ IsFiniteSet(Better(m) \union Level(m))
    BY <1>1, SizesOfBatch, FS_Subset, FS_Union
  <1>3. Better(m) \intersect Level(m) = {}
    BY DEF Scores, Better, Level
  <1>4. Cardinality(Better(m)) \in Nat /\ Cardinality(Level(m)) \in Nat
        /\ Cardinality(Level(m)) # 0
    BY <1>1, <1>2, FS_CardinalityType, FS_EmptySet
  <1>5. Cardinality(Better(m) \union Level(m))
            = Cardinality(Better(m)) + Cardinality(Level(m))
    <2>1. Cardinality(Better(m) \intersect Level(m)) = 0
      BY <1>3, FS_EmptySet
    <2>2. Cardinality(Better(m) \union Level(m)) = Cardinality(Better(m))
              + Cardinality(Level(m)) - Cardinality(Better(m) \intersect Level(m))
      BY <1>2, FS_Union
    <2> QED
      BY <1>4, <2>1, <2>2
  <1>6. Cardinality(Better(m) \union Level(m)) <= Cardinality(Miners)
    BY <1>1, SizesOfBatch, FS_Subset
  <1> QED
    BY <1>1, <1>2, <1>4, <1>5, <1>6

\* A lower score is behind all of a higher one's.
LEMMA PlacesBehind ==
    ASSUME Scores, NEW m \in Miners, NEW n \in Miners
    PROVE  /\ batchScore[n] <= batchScore[m] =>
                Cardinality(Better(m)) <= Cardinality(Better(n))
           /\ batchScore[n] < batchScore[m] =>
                Cardinality(Better(m)) + Cardinality(Level(m)) <= Cardinality(Better(n))
  <1>1. batchScore[m] \in Nat /\ batchScore[n] \in Nat
    BY DEF Scores
  <1>2. ASSUME batchScore[n] <= batchScore[m]
        PROVE  Cardinality(Better(m)) <= Cardinality(Better(n))
    <2>1. Better(m) \subseteq Better(n)
      BY <1>1, <1>2 DEF Scores, Better
    <2> QED
      BY <2>1, PlacesOf, FS_Subset
  <1>3. ASSUME batchScore[n] < batchScore[m]
        PROVE  Cardinality(Better(m)) + Cardinality(Level(m)) <= Cardinality(Better(n))
    <2> DEFINE S == Better(m)
               T == Level(m)
    <2>1. S \union T \subseteq Better(n) /\ S \intersect T = {}
      BY <1>1, <1>3 DEF Scores, Better, Level
    <2>2. IsFiniteSet(S) /\ IsFiniteSet(T) /\ IsFiniteSet(Better(n))
          /\ Cardinality(S) \in Nat /\ Cardinality(T) \in Nat
      BY PlacesOf
    <2> HIDE DEF S, T
    <2>3. Cardinality(S \union T)
              = Cardinality(S) + Cardinality(T) - Cardinality(S \intersect T)
      BY <2>2, FS_Union
    <2>4. Cardinality(S \intersect T) = 0
      BY <2>1, FS_EmptySet
    <2>5. Cardinality(S \union T) <= Cardinality(Better(n))
      BY <2>1, <2>2, FS_Subset
    <2>6. Cardinality(S) + Cardinality(T) <= Cardinality(Better(n))
      BY <2>2, <2>3, <2>4, <2>5
    <2> QED
      BY <2>6 DEF S, T
  <1> QED
    BY <1>2, <1>3

\* A batch starts with its invariant.
LEMMA BatchInvInit ==
    (work \in [Miners -> [Papers -> Works]]) /\ BatchInit => BatchInv
  <1>1. BatchInit => newcomers \subseteq Miners
    BY BatchAssumption DEF BatchInit, IsBatch
  <1> QED
    BY <1>1 DEF BatchInit, BatchInv

\* Each step keeps it.
LEMMA BatchInvStep ==
    ASSUME BatchInv, [BatchNext]_batchVars
    PROVE  BatchInv'
  <1>1. CASE ScorePapers
    <2>1. \A m, p : ScoreOf(m, p)' = ScoreOf(m, p)
      BY <1>1 DEF ScorePapers, ScoreOf, EmptyRecord, AdjudicationQuality
    <2> QED
      BY <1>1, <2>1 DEF ScorePapers, BatchInv
  <1>2. CASE RankMiners
    <2>1. \A m, p : ScoreOf(m, p)' = ScoreOf(m, p)
      BY <1>2 DEF RankMiners, ScoreOf, EmptyRecord, AdjudicationQuality
    <2> QED
      BY <1>2, <2>1 DEF RankMiners, BatchInv, Better
  <1>3. CASE Pay
    <2>1. \A m, p : ScoreOf(m, p)' = ScoreOf(m, p)
      BY <1>3 DEF Pay, ScoreOf, EmptyRecord, AdjudicationQuality
    <2>2. \A m : Better(m)' = Better(m) /\ Payout(m)' = Payout(m)
      BY <1>3 DEF Pay, Better, Payout, Proportional, Bucket, Bonus, WinnerTakesMost,
                  Positive, Level, SlotWeight, Runners, NewcomerWinners, NewcomerShare,
                  Submitted
    <2> QED
      BY <1>3, <2>1, <2>2 DEF Pay, BatchInv
  <1>4. CASE UNCHANGED batchVars
    <2>1. \A m, p : ScoreOf(m, p)' = ScoreOf(m, p)
      BY <1>4 DEF batchVars, ScoreOf, EmptyRecord, AdjudicationQuality
    <2>2. \A m : Better(m)' = Better(m) /\ Payout(m)' = Payout(m)
      BY <1>4 DEF batchVars, Better, Payout, Proportional, Bucket, Bonus, WinnerTakesMost,
                  Positive, Level, SlotWeight, Runners, NewcomerWinners, NewcomerShare,
                  Submitted
    <2> QED
      BY <1>4, <2>1, <2>2 DEF batchVars, BatchInv
  <1> QED
    BY <1>1, <1>2, <1>3, <1>4 DEF BatchNext

\* So it holds throughout.
LEMMA BatchInvariant == BatchSpec => []BatchInv
  BY BatchInvInit, BatchInvStep, PTL DEF BatchSpec

-----------------------------------------------------------------------------
(* The weights of the ranks.                                               *)

\* The winner's share is no less than a half, as its default of 0.70, and the
\* factors do not grow: the decay is at most 1.
Falling ==
    /\ WinnerPercent >= 50
    /\ \A r \in RunnerCounts : \A i, j \in RunnerUps(r) :
          i <= j => Factors[r][j] <= Factors[r][i]

\* The runner-ups that are paid are no more than the miners behind the first.
LEMMA RunnersOf ==
    ASSUME Scores, Positive # {}
    PROVE  /\ Runners \in Nat /\ Runners + 1 <= Cardinality(Positive)
           /\ Runners # 0 => Runners \in RunnerCounts
           /\ Cardinality(Positive) \in Nat \ {0} /\ IsFiniteSet(Positive)
           /\ Cardinality(Positive) <= Cardinality(Miners)
  <1>1. Positive \subseteq Miners
    BY DEF Positive
  <1>2. IsFiniteSet(Positive) /\ Cardinality(Positive) <= Cardinality(Miners)
    BY <1>1, SizesOfBatch, FS_Subset
  <1>3. Cardinality(Positive) \in Nat \ {0}
    BY <1>2, FS_CardinalityType, FS_EmptySet
  <1> DEFINE k == Cardinality(Positive) - 1
  <1>4. k \in Nat
    BY <1>3
  <1>5. Runners = IF RunnerUpSlots <= k THEN RunnerUpSlots ELSE k
    <2> HIDE DEF k
    <2>1. Min({RunnerUpSlots, k}) = IF RunnerUpSlots <= k THEN RunnerUpSlots ELSE k
      BY <1>4, MinOfTwo, BatchAssumption
    <2> QED
      BY <2>1 DEF Runners, k
  <1> QED
    BY <1>2, <1>3, <1>4, <1>5, SizesOfBatch, BatchAssumption DEF RunnerCounts

\* The factors of some runner-ups have a sum to divide by.
LEMMA FactorFacts ==
    ASSUME NEW r \in RunnerCounts
    PROVE  /\ IsFiniteSet(RunnerUps(r))
           /\ \A i \in RunnerUps(r) : Factors[r][i] \in Nat \ {0}
           /\ FactorTotal(r) \in Nat \ {0}
           /\ \A i \in RunnerUps(r) : Factors[r][i] <= FactorTotal(r)
  <1>1. IsFiniteSet(RunnerUps(r))
    BY SizesOfBatch, FS_Interval DEF RunnerCounts, RunnerUps
  <1>2. \A i \in RunnerUps(r) : Factors[r][i] \in Nat \ {0}
    BY BatchAssumption DEF IsDecay
  <1>3. \A i \in RunnerUps(r) : Factors[r][i] <= FactorTotal(r) /\ FactorTotal(r) \in Nat
    <2> SUFFICES ASSUME NEW i \in RunnerUps(r)
                 PROVE  Factors[r][i] <= FactorTotal(r) /\ FactorTotal(r) \in Nat
      OBVIOUS
    <2> DEFINE rest == RunnerUps(r) \ {i}
    <2>1. FactorTotal(r) = Factors[r][i] + SumFunctionOnSet(Factors[r], rest)
      BY <1>1, <1>2, SumLast DEF FactorTotal
    <2>2. IsFiniteSet(rest) /\ \A j \in rest : Factors[r][j] \in Nat
      BY <1>1, <1>2, FS_Subset
    <2>3. SumFunctionOnSet(Factors[r], rest) \in Nat
      BY <2>2, SumNat
    <2> QED
      BY <1>2, <2>1, <2>3
  <1>4. 2 \in RunnerUps(r)
    BY SizesOfBatch DEF RunnerCounts, RunnerUps
  <1>5. FactorTotal(r) # 0
    BY <1>2, <1>3, <1>4
  <1> QED
    BY <1>1, <1>2, <1>3, <1>4, <1>5

\* Percents are natural numbers.
LEMMA PercentNat == Percent \in Nat /\ 100 - WinnerPercent \in Nat /\ WinnerPercent \in Nat
  <1>1. Whole \in Nat /\ WinnerPercent \in 0..100
    BY BatchAssumption DEF IsDivisible
  <1>2. Whole \div 100 \in Nat
    BY <1>1, DivFacts
  <1> QED
    BY <1>1, <1>2 DEF Percent

\* What one runner-up's factor is worth.
Unit == (Percent * (100 - WinnerPercent)) \div FactorTotal(Runners)

\* The weight of a rank, and that of a runner-up.
LEMMA SlotFacts ==
    ASSUME Scores, Positive # {}
    PROVE  /\ SlotWeight(1) \in Nat
           /\ Runners # 0 => SlotWeight(1) = Percent * WinnerPercent
           /\ \A i \in Nat : i > Runners + 1 => SlotWeight(i) = 0
           /\ \A i \in RunnerUps(Runners) :
                 /\ Unit \in Nat /\ Factors[Runners][i] \in Nat
                 /\ SlotWeight(i) = Unit * Factors[Runners][i]
                 /\ SlotWeight(i) <= Percent * (100 - WinnerPercent)
  <1>1. Runners \in Nat /\ (Runners # 0 => Runners \in RunnerCounts)
    BY RunnersOf
  <1>2. SlotWeight(1) = IF Runners = 0 /\ (WinnerPercent > 0 \/ Cardinality(Positive) = 1)
                        THEN Whole ELSE Percent * WinnerPercent
    BY DEF SlotWeight
  <1>3. Whole \in Nat /\ Percent * WinnerPercent \in Nat
    BY PercentNat, BatchAssumption DEF IsDivisible
  <1>4. ASSUME NEW i \in Nat, i > Runners + 1 PROVE SlotWeight(i) = 0
    BY <1>1, <1>4 DEF SlotWeight
  <1>5. ASSUME NEW i \in RunnerUps(Runners)
        PROVE  /\ Unit \in Nat /\ Factors[Runners][i] \in Nat
               /\ SlotWeight(i) = Unit * Factors[Runners][i]
               /\ SlotWeight(i) <= Percent * (100 - WinnerPercent)
    <2>1. i \in Nat /\ i # 1 /\ ~(i > Runners + 1) /\ Runners \in RunnerCounts
      BY <1>1, <1>5 DEF RunnerUps
    <2> DEFINE mass == Percent * (100 - WinnerPercent)
               total == FactorTotal(Runners)
               factor == Factors[Runners][i]
    <2>2. total \in Nat \ {0} /\ factor \in Nat /\ factor <= total
      BY <2>1, FactorFacts
    <2>3. mass \in Nat
      BY PercentNat
    <2>4. SlotWeight(i) = (mass \div total) * factor /\ Unit = mass \div total
      BY <2>1 DEF SlotWeight, Unit
    <2> HIDE DEF mass, total, factor
    <2>5. mass \div total \in Nat /\ total * (mass \div total) <= mass
      BY <2>2, <2>3, DivFacts
    <2>6. (mass \div total) * factor <= (mass \div total) * total
      BY <2>2, <2>5, TimesMonotone
    <2>7. (mass \div total) * total = total * (mass \div total)
      BY <2>2, <2>5
    <2>8. SlotWeight(i) \in Nat /\ SlotWeight(i) <= mass
      BY <2>2, <2>3, <2>4, <2>5, <2>6, <2>7
    <2> QED
      BY <2>2, <2>4, <2>5, <2>8 DEF mass, factor
  <1> QED
    BY <1>2, <1>3, <1>4, <1>5

\* So is the weight of any rank.
LEMMA SlotNat ==
    ASSUME Scores, Positive # {}, NEW i \in Nat \ {0}
    PROVE  SlotWeight(i) \in Nat
  <1>1. Runners \in Nat
    BY RunnersOf
  <1>2. CASE i = 1
    BY <1>2, SlotFacts
  <1>3. CASE i > Runners + 1
    BY <1>3, SlotFacts
  <1>4. CASE i \in RunnerUps(Runners)
    <2>1. Unit \in Nat /\ Factors[Runners][i] \in Nat
          /\ SlotWeight(i) = Unit * Factors[Runners][i]
      BY <1>4, SlotFacts
    <2> QED
      BY <2>1
  <1> QED
    BY <1>1, <1>2, <1>3, <1>4 DEF RunnerUps

\* A lower rank is worth no more.
LEMMA SlotsFall ==
    ASSUME Falling, Scores, Positive # {}, NEW i \in Nat \ {0}, NEW j \in Nat, i <= j
    PROVE  SlotWeight(j) <= SlotWeight(i)
  <1>1. Runners \in Nat /\ (Runners # 0 => Runners \in RunnerCounts)
    BY RunnersOf
  <1>2. SlotWeight(i) \in Nat /\ SlotWeight(j) \in Nat
    BY SlotNat
  <1>3. CASE j > Runners + 1
    BY <1>2, <1>3, SlotFacts
  <1>4. CASE ~(j > Runners + 1) /\ i = 1 /\ j = 1
    BY <1>2, <1>4
  <1>5. CASE ~(j > Runners + 1) /\ i = 1 /\ j # 1
    <2>1. j \in RunnerUps(Runners) /\ Runners # 0
      BY <1>1, <1>5 DEF RunnerUps
    <2>2. SlotWeight(j) <= Percent * (100 - WinnerPercent)
          /\ SlotWeight(1) = Percent * WinnerPercent
      BY <2>1, SlotFacts
    <2>3. Percent * (100 - WinnerPercent) <= Percent * WinnerPercent
      <3>1. 100 - WinnerPercent <= WinnerPercent
        BY PercentNat DEF Falling
      <3> DEFINE a == 100 - WinnerPercent
      <3> HIDE DEF a
      <3>2. a \in Nat /\ a <= WinnerPercent
        BY <3>1, PercentNat DEF a
      <3>3. Percent * a <= Percent * WinnerPercent
        BY <3>2, PercentNat, TimesMonotone
      <3> QED
        BY <3>3 DEF a
    <2>4. Percent * (100 - WinnerPercent) \in Nat /\ Percent * WinnerPercent \in Nat
      BY PercentNat
    <2> QED
      BY <1>2, <1>5, <2>2, <2>3, <2>4
  <1>6. CASE ~(j > Runners + 1) /\ i # 1
    <2>1. i \in RunnerUps(Runners) /\ j \in RunnerUps(Runners) /\ Runners # 0
      BY <1>1, <1>6 DEF RunnerUps
    <2> DEFINE f == Factors[Runners][i]
               g == Factors[Runners][j]
    <2>2. Unit \in Nat /\ f \in Nat /\ g \in Nat
          /\ SlotWeight(i) = Unit * f /\ SlotWeight(j) = Unit * g
      BY <2>1, SlotFacts
    <2>3. g <= f
      BY <1>1, <2>1 DEF Falling
    <2> HIDE DEF f, g
    <2> QED
      BY <2>2, <2>3, TimesMonotone
  <1> QED
    BY <1>3, <1>4, <1>5, <1>6

-----------------------------------------------------------------------------
(* Better work is paid no less.                                            *)

\* The ranks a miner shares with those of its score.
Places(m) == (Cardinality(Better(m)) + 1)..(Cardinality(Better(m)) + Cardinality(Level(m)))

\* What they are worth.
Worth(m) == SumFunction([i \in Places(m) |-> SlotWeight(i)])

\* The ranks of a paid miner are as many as the miners of its score.
LEMMA PlacesFacts ==
    ASSUME Scores, NEW m \in Positive
    PROVE  /\ IsFiniteSet(Places(m)) /\ Cardinality(Places(m)) = Cardinality(Level(m))
           /\ \A i \in Places(m) : i \in Nat \ {0} /\ SlotWeight(i) \in Nat
           /\ Worth(m) \in Nat
           /\ Worth(m) = SumFunctionOnSet([i \in Places(m) |-> SlotWeight(i)], Places(m))
           /\ WinnerTakesMost(m) = Worth(m) \div Cardinality(Level(m))
           /\ WinnerTakesMost(m) \in Nat
  <1> DEFINE a == Cardinality(Better(m))
             l == Cardinality(Level(m))
             f == [i \in Places(m) |-> SlotWeight(i)]
  <1>1. m \in Miners
    BY DEF Positive
  <1>2. a \in Nat /\ l \in Nat \ {0}
    BY <1>1, PlacesOf
  <1>3. Places(m) = (a + 1)..(a + l)
    BY DEF Places
  <1>4. WinnerTakesMost(m) = Worth(m) \div l
    BY DEF WinnerTakesMost, Worth, Places
  <1> HIDE DEF a, l
  <1>5. IsFiniteSet(Places(m)) /\ Cardinality(Places(m)) = l
    <2>1. a + 1 \in Int /\ a + l \in Int /\ ~(a + 1 > a + l)
          /\ (a + l) - (a + 1) + 1 = l
      BY <1>2
    <2> QED
      BY <1>3, <2>1, FS_Interval
  <1>6. \A i \in Places(m) : i \in Nat \ {0} /\ SlotWeight(i) \in Nat
    <2>1. \A i \in Places(m) : i \in Nat \ {0}
      BY <1>2, <1>3
    <2> QED
      BY <2>1, SlotNat
  <1>7. Worth(m) = SumFunctionOnSet(f, Places(m))
    BY DEF Worth, SumFunction
  <1>8. \A i \in Places(m) : f[i] \in Nat
    BY <1>6
  <1>9. Worth(m) \in Nat
    <2> HIDE DEF f
    <2> QED
      BY <1>5, <1>7, <1>8, SumNat
  <1>10. Worth(m) \div l \in Nat
    BY <1>2, <1>9, DivFacts
  <1> QED
    BY <1>4, <1>5, <1>6, <1>7, <1>9, <1>10 DEF l

\* The ranks pay a lower score no more.
LEMMA WinnerTakesMostLess ==
    ASSUME Falling, Scores, NEW m \in Miners, NEW n \in Miners,
           batchScore[n] <= batchScore[m]
    PROVE  /\ WinnerTakesMost(m) \in Nat /\ WinnerTakesMost(n) \in Nat
           /\ WinnerTakesMost(n) <= WinnerTakesMost(m)
  <1>1. \A k \in Miners : WinnerTakesMost(k) \in Nat
    BY PlacesFacts DEF WinnerTakesMost
  <1>2. CASE n \notin Positive
    BY <1>1, <1>2 DEF WinnerTakesMost
  <1>3. CASE n \in Positive /\ batchScore[n] = batchScore[m]
    <2>1. Better(m) = Better(n) /\ Level(m) = Level(n) /\ m \in Positive
      BY <1>3 DEF Better, Level, Positive
    <2>2. WinnerTakesMost(m) = WinnerTakesMost(n)
      BY <1>3, <2>1, PlacesFacts DEF Worth, Places
    <2> QED
      BY <1>1, <2>2
  <1>4. CASE n \in Positive /\ batchScore[n] # batchScore[m]
    <2>1. m \in Positive /\ batchScore[n] < batchScore[m]
      BY <1>4 DEF Scores, Positive
    <2> DEFINE am == Cardinality(Better(m))
               an == Cardinality(Better(n))
               lm == Cardinality(Level(m))
               ln == Cardinality(Level(n))
               f(k) == [i \in Places(k) |-> SlotWeight(i)]
               s == SlotWeight(am + lm)
    <2>2. am \in Nat /\ an \in Nat /\ lm \in Nat \ {0} /\ ln \in Nat \ {0}
      BY PlacesOf
    <2>3. am + lm <= an
      BY <2>1, PlacesBehind
    <2>4. Places(m) = (am + 1)..(am + lm) /\ Places(n) = (an + 1)..(an + ln)
      BY DEF Places
    <2> HIDE DEF am, an, lm, ln
    <2>5. Positive # {} /\ am + lm \in Nat \ {0}
      BY <2>1, <2>2
    <2>6. s \in Nat
      BY <2>5, SlotNat
    <2>7. \A i \in Places(m) : i \in Nat \ {0} /\ i <= am + lm
      BY <2>2, <2>4
    <2>8. \A i \in Places(n) : i \in Nat /\ am + lm <= i
      BY <2>2, <2>3, <2>4
    <2>9. \A i \in Places(m) : s <= SlotWeight(i)
      BY <2>5, <2>7, SlotsFall
    <2>10. \A i \in Places(n) : SlotWeight(i) <= s
      BY <2>5, <2>8, SlotsFall
    <2> HIDE DEF s
    <2>11. lm * s <= Worth(m)
      <3> DEFINE g == [i \in Places(m) |-> s]
      <3>1. IsFiniteSet(Places(m)) /\ Cardinality(Places(m)) = lm
            /\ Worth(m) = SumFunctionOnSet(f(m), Places(m))
            /\ \A i \in Places(m) : SlotWeight(i) \in Nat
        BY <2>1, PlacesFacts DEF lm
      <3>2. \A i \in Places(m) : g[i] = s /\ f(m)[i] \in Nat /\ g[i] <= f(m)[i]
        BY <2>9, <3>1
      <3> HIDE DEF f, g
      <3>3. SumFunctionOnSet(g, Places(m)) = lm * s
        BY <2>6, <3>1, <3>2, SumEqual
      <3>4. SumFunctionOnSet(g, Places(m)) <= SumFunctionOnSet(f(m), Places(m))
        BY <2>6, <3>1, <3>2, SumLess
      <3> QED
        BY <3>1, <3>3, <3>4
    <2>12. Worth(n) <= ln * s
      <3> DEFINE g == [i \in Places(n) |-> s]
      <3>1. IsFiniteSet(Places(n)) /\ Cardinality(Places(n)) = ln
            /\ Worth(n) = SumFunctionOnSet(f(n), Places(n))
            /\ \A i \in Places(n) : SlotWeight(i) \in Nat
        BY <1>4, PlacesFacts DEF ln
      <3>2. \A i \in Places(n) : g[i] = s /\ f(n)[i] \in Nat /\ f(n)[i] <= g[i]
        BY <2>10, <3>1
      <3> HIDE DEF f, g
      <3>3. SumFunctionOnSet(g, Places(n)) = ln * s
        BY <2>6, <3>1, <3>2, SumEqual
      <3>4. SumFunctionOnSet(f(n), Places(n)) <= SumFunctionOnSet(g, Places(n))
        BY <2>6, <3>1, <3>2, SumLess
      <3> QED
        BY <3>1, <3>3, <3>4
    <2>13. Worth(m) \in Nat /\ Worth(n) \in Nat
           /\ WinnerTakesMost(m) = Worth(m) \div lm /\ WinnerTakesMost(n) = Worth(n) \div ln
      BY <1>4, <2>1, PlacesFacts DEF lm, ln
    <2>14. s <= Worth(m) \div lm
      BY <2>2, <2>6, <2>11, <2>13, DivLeast
    <2>15. Worth(n) \div ln <= s
      BY <2>2, <2>6, <2>12, <2>13, DivAtMost
    <2> QED
      BY <1>1, <2>6, <2>13, <2>14, <2>15
  <1> QED
    BY <1>1, <1>2, <1>3, <1>4

\* The sum of the scores that are paid.
LEMMA TotalFacts ==
    ASSUME Scores, NEW m \in Positive
    PROVE  /\ SumFunctionOnSet(batchScore, Positive) \in Nat \ {0}
           /\ batchScore[m] \in Nat
  <1> DEFINE rest == Positive \ {m}
  <1>1. Positive \subseteq Miners /\ IsFiniteSet(Positive) /\ IsFiniteSet(rest)
    <2>1. Positive \subseteq Miners
      BY DEF Positive
    <2> QED
      BY <2>1, SizesOfBatch, FS_Subset
  <1>2. \A k \in Positive : batchScore[k] \in Nat /\ batchScore[k] > 0
    BY DEF Scores, Positive
  <1>3. SumFunctionOnSet(batchScore, Positive)
            = batchScore[m] + SumFunctionOnSet(batchScore, rest)
    BY <1>1, <1>2, SumLast
  <1>4. SumFunctionOnSet(batchScore, rest) \in Nat
    BY <1>1, <1>2, SumNat
  <1> QED
    BY <1>2, <1>3, <1>4

\* Neither do the parts of the sum.
LEMMA ProportionalLess ==
    ASSUME Scores, NEW m \in Miners, NEW n \in Miners, batchScore[n] <= batchScore[m]
    PROVE  /\ Proportional(m) \in Nat /\ Proportional(n) \in Nat
           /\ Proportional(n) <= Proportional(m)
  <1> DEFINE total == SumFunctionOnSet(batchScore, Positive)
             part(k) == Whole * batchScore[k]
  <1>1. Whole \in Nat
    BY BatchAssumption DEF IsDivisible
  <1>2. \A k \in Positive : part(k) \in Nat /\ total \in Nat \ {0}
    BY <1>1, TotalFacts
  <1>3. \A k \in Positive : Proportional(k) = part(k) \div total
    BY DEF Proportional
  <1>4. \A k \in Miners : k \notin Positive => Proportional(k) = 0
    BY DEF Proportional
  <1>5. n \in Positive => m \in Positive /\ part(n) <= part(m)
    <2>1. batchScore[n] \in Nat /\ batchScore[m] \in Nat
      BY DEF Scores
    <2>2. part(n) <= part(m)
      BY <1>1, <2>1, TimesMonotone
    <2>3. n \in Positive => m \in Positive
      BY <2>1 DEF Positive
    <2> QED
      BY <2>2, <2>3
  <1> HIDE DEF total, part
  <1>6. \A k \in Miners : Proportional(k) \in Nat
    BY <1>2, <1>3, <1>4, DivFacts
  <1>7. CASE n \in Positive
    BY <1>2, <1>3, <1>5, <1>6, <1>7, DivMonotone
  <1> QED
    BY <1>4, <1>6, <1>7

\* The newcomers with the bonus are finitely many, and what it takes off is
\* at most 40 percent.
LEMMA NewcomerFacts ==
    ASSUME newcomers \subseteq Miners
    PROVE  /\ NewcomerWinners \subseteq Miners /\ IsFiniteSet(NewcomerWinners)
           /\ NewcomerWinners # {} => Cardinality(NewcomerWinners) \in Nat \ {0}
           /\ NewcomerShare \in 0..40
           /\ \A m : Bonus(m) \in Nat
  <1>1. NewcomerWinners \subseteq Miners
    BY DEF NewcomerWinners
  <1>2. IsFiniteSet(NewcomerWinners)
    BY <1>1, SizesOfBatch, FS_Subset
  <1>3. NewcomerWinners # {} => Cardinality(NewcomerWinners) \in Nat \ {0}
    BY <1>2, FS_CardinalityType, FS_EmptySet
  <1>4. NewcomerShare \in 0..40
    <2>1. Min({40, NewcomerPercent}) = IF 40 <= NewcomerPercent THEN 40 ELSE NewcomerPercent
      BY MinOfTwo, BatchAssumption
    <2> QED
      BY <2>1, BatchAssumption DEF NewcomerShare
  <1>5. ASSUME NEW m PROVE Bonus(m) \in Nat
    <2> DEFINE a == Percent * NewcomerShare
               k == Cardinality(NewcomerWinners)
    <2>1. a \in Nat
      BY <1>4, PercentNat
    <2>2. m \in NewcomerWinners => k \in Nat \ {0}
      BY <1>3
    <2>3. Bonus(m) = IF m \in NewcomerWinners THEN a \div k ELSE 0
      BY DEF Bonus
    <2> HIDE DEF a, k
    <2> QED
      BY <2>1, <2>2, <2>3, DivFacts
  <1> QED
    BY <1>1, <1>2, <1>3, <1>4, <1>5

\* A newcomer with more than the least score is one with a score.
LEMMA WinnersHaveAScore ==
    ASSUME Scores, newcomers \subseteq Miners PROVE NewcomerWinners \subseteq Positive
  <1> SUFFICES ASSUME NEW m \in NewcomerWinners PROVE m \in Positive
    OBVIOUS
  <1>1. m \in Miners /\ batchScore[m] > NewcomerMinScore
    BY DEF NewcomerWinners
  <1>2. batchScore[m] \in Nat
    BY <1>1 DEF Scores
  <1>3. NewcomerMinScore \in Nat
    BY BatchAssumption
  <1>4. batchScore[m] > 0
    <2> DEFINE score == batchScore[m]
               least == NewcomerMinScore
    <2>1. score \in Nat /\ least \in Nat /\ score > least
      BY <1>1, <1>2, <1>3
    <2> HIDE DEF score, least
    <2>2. score > 0
      BY <2>1
    <2> QED
      BY <2>2 DEF score
  <1> QED
    BY <1>1, <1>4 DEF Positive

\* A newcomer of no lower a score has no smaller a bonus.
LEMMA BonusLess ==
    ASSUME Scores, newcomers \subseteq Miners, NEW m \in Miners, NEW n \in Miners,
           batchScore[n] <= batchScore[m], n \in newcomers => m \in newcomers,
           Submitted(n) => Submitted(m)
    PROVE  Bonus(n) <= Bonus(m)
  <1>1. batchScore[n] \in Nat /\ batchScore[m] \in Nat
    BY DEF Scores
  <1>2. n \in NewcomerWinners => m \in NewcomerWinners
    <2> DEFINE valid == {k \in newcomers : Submitted(k) /\ batchScore[k] > NewcomerMinScore}
    <2> SUFFICES ASSUME n \in NewcomerWinners PROVE m \in NewcomerWinners
      OBVIOUS
    <2>1. n \in valid /\ \A k \in valid : batchScore[k] <= batchScore[n]
      BY DEF NewcomerWinners
    <2>2. m \in valid
      BY <1>1, <2>1, BatchAssumption
    <2>3. \A k \in valid : batchScore[k] <= batchScore[m]
      BY <1>1, <2>1 DEF Scores
    <2> QED
      BY <2>2, <2>3 DEF NewcomerWinners
  <1>3. Bonus(m) \in Nat /\ Bonus(n) \in Nat
    BY NewcomerFacts
  <1> QED
    BY <1>2, <1>3 DEF Bonus

\* Nor do the rest and the bonus together pay less for more.
LEMMA BucketLess ==
    ASSUME Falling, Scores, newcomers \subseteq Miners,
           NEW m \in Miners, NEW n \in Miners,
           batchScore[n] <= batchScore[m], n \in newcomers => m \in newcomers,
           Submitted(n) => Submitted(m)
    PROVE  Bucket(n) <= Bucket(m)
  <1> DEFINE part(k) == WinnerTakesMost(k) \div 100
             left == 100 - NewcomerShare
  <1>1. WinnerTakesMost(m) \in Nat /\ WinnerTakesMost(n) \in Nat
        /\ WinnerTakesMost(n) <= WinnerTakesMost(m)
    BY WinnerTakesMostLess
  <1>2. part(m) \in Nat /\ part(n) \in Nat /\ part(n) <= part(m)
    BY <1>1, DivFacts, DivMonotone
  <1>3. left \in Nat
    BY NewcomerFacts
  <1>4. Bonus(m) \in Nat /\ Bonus(n) \in Nat /\ Bonus(n) <= Bonus(m)
    BY NewcomerFacts, BonusLess
  <1>5. Bucket(m) = part(m) * left + Bonus(m) /\ Bucket(n) = part(n) * left + Bonus(n)
    BY DEF Bucket
  <1> HIDE DEF part, left
  <1>6. part(n) * left <= part(m) * left
    BY <1>2, <1>3, TimesMonotone
  <1>7. part(n) * left \in Nat /\ part(m) * left \in Nat
    BY <1>2, <1>3
  <1> QED
    BY <1>4, <1>5, <1>6, <1>7

\* At any time of a batch, better work is paid no less.
LEMMA PaidNoLess ==
    ASSUME Falling, BatchInv
    PROVE  BetterWorkIsPaidNoLess
  <1> SUFFICES ASSUME batchPhase = "paid", NEW m \in Miners, NEW n \in Miners,
                      \A p \in Papers : NoBetter(work[n][p], work[m][p]),
                      n \in newcomers => m \in newcomers
               PROVE  payout[m] >= payout[n] /\ rank[m] <= rank[n]
    BY DEF BetterWorkIsPaidNoLess
  <1>1. Scores /\ batchScore[n] <= batchScore[m]
    BY MeanLess
  <1>2. Submitted(n) => Submitted(m)
    BY DEF Submitted, NoBetter
  <1>3. newcomers \subseteq Miners
    BY DEF BatchInv
  <1>4. Cardinality(Better(m)) <= Cardinality(Better(n))
        /\ Cardinality(Better(m)) \in Nat /\ Cardinality(Better(n)) \in Nat
    BY <1>1, PlacesOf, PlacesBehind
  <1>5. rank[m] <= rank[n]
    BY <1>4 DEF BatchInv
  <1>6. WinnerTakesMost(n) <= WinnerTakesMost(m)
        /\ WinnerTakesMost(n) \in Nat /\ WinnerTakesMost(m) \in Nat
    BY <1>1, WinnerTakesMostLess
  <1>7. Proportional(n) <= Proportional(m)
        /\ Proportional(n) \in Nat /\ Proportional(m) \in Nat
    BY <1>1, ProportionalLess
  <1>8. Bucket(n) <= Bucket(m)
    BY <1>1, <1>2, <1>3, BucketLess
  <1>9. Bucket(n) \in Nat /\ Bucket(m) \in Nat
    <2>1. \A k \in {m, n} : Bucket(k) = (WinnerTakesMost(k) \div 100) * (100 - NewcomerShare) + Bonus(k)
      BY DEF Bucket
    <2>2. \A k \in {m, n} : WinnerTakesMost(k) \div 100 \in Nat
      BY <1>6, DivFacts
    <2>3. 100 - NewcomerShare \in Nat /\ \A k \in {m, n} : Bonus(k) \in Nat
      BY <1>3, NewcomerFacts
    <2> QED
      BY <2>1, <2>2, <2>3
  <1>10. Payout(n) <= Payout(m) /\ Payout(n) \in Nat /\ Payout(m) \in Nat
    BY <1>6, <1>7, <1>8, <1>9 DEF Payout
  <1>11. payout[m] = Payout(m) /\ payout[n] = Payout(n)
    BY DEF BatchInv
  <1> QED
    BY <1>5, <1>10, <1>11

\* Whoever submits no worse work on any paper is paid no less and ranked no
\* lower, unless it is not a newcomer and the other is: for any records, works
\* and number of miners, in each of the three modes.  The winner's share has to
\* be at least a half and the decay at most 1, as their defaults are: the code
\* takes other values and then pays the second more than the first.
THEOREM PaidNoLessTheorem ==
    ASSUME Falling
    PROVE  BatchSpec => []BetterWorkIsPaidNoLess
  BY PaidNoLess, BatchInvariant, PTL

-----------------------------------------------------------------------------
(* The shares are whole.                                                   *)

\* The whole payout in parts for any number of miners and of runner-ups.
LEMMA WholeFacts ==
    ASSUME NEW k \in Miners
    PROVE  /\ \E z \in Nat : Whole = 10000 * k * z
           /\ \A r \in RunnerCounts : \E z \in Nat : Whole = 10000 * k * FactorTotal(r) * z
  <1>1. k \in Nat \ {0} /\ Whole \in Nat
    BY MinersAre, BatchAssumption DEF IsDivisible
  <1>2. Whole % (10000 * k) = 0
        /\ \A r \in RunnerCounts : Whole % (10000 * k * FactorTotal(r)) = 0
    BY BatchAssumption DEF IsDivisible
  <1>3. 10000 * k \in Nat \ {0}
    BY <1>1
  <1>4. \E z \in Nat : Whole = 10000 * k * z
    BY <1>1, <1>2, <1>3, DivExact
  <1>5. ASSUME NEW r \in RunnerCounts
        PROVE  \E z \in Nat : Whole = 10000 * k * FactorTotal(r) * z
    <2>1. FactorTotal(r) \in Nat \ {0}
      BY FactorFacts
    <2> DEFINE t == FactorTotal(r)
               d == 10000 * k * t
    <2>2. Whole % d = 0
      BY <1>2
    <2>3. d \in Nat \ {0}
      <3>1. \A a, b \in Nat \ {0} : a * b \in Nat \ {0}
        OBVIOUS
      <3> QED
        BY <1>3, <2>1, <3>1
    <2> HIDE DEF d, t
    <2>4. Whole \div d \in Nat /\ Whole = d * (Whole \div d)
      BY <1>1, <2>2, <2>3, DivExact
    <2> QED
      BY <2>4 DEF d, t
  <1> QED
    BY <1>4, <1>5

\* A percent is a hundredth of the whole.
LEMMA PercentIs ==
    \A x \in Nat : Whole = 100 * x => Percent = x
  <1> SUFFICES ASSUME NEW x \in Nat, Whole = 100 * x PROVE Percent = x
    OBVIOUS
  <1>1. (100 * x) \div 100 = x
    BY DivTimes
  <1> QED
    BY <1>1 DEF Percent

\* Of as many level miners as there may be.
LEMMA PercentWhole ==
    ASSUME NEW k \in Miners
    PROVE  /\ Whole = 100 * Percent
           /\ \E z \in Nat : Percent = (100 * k) * z
           /\ \A r \in RunnerCounts : \E z \in Nat : Percent = FactorTotal(r) * ((100 * k) * z)
  <1>1. k \in Nat \ {0}
    BY MinersAre
  <1>2. PICK z \in Nat : Whole = 10000 * k * z
    BY WholeFacts
  <1>3. 10000 * k * z = 100 * ((100 * k) * z) /\ (100 * k) * z \in Nat
    BY <1>1
  <1>4. Percent = (100 * k) * z
    BY <1>2, <1>3, PercentIs
  <1>5. Whole = 100 * Percent
    BY <1>2, <1>3, <1>4
  <1>6. ASSUME NEW r \in RunnerCounts
        PROVE  \E y \in Nat : Percent = FactorTotal(r) * ((100 * k) * y)
    <2> DEFINE t == FactorTotal(r)
    <2>1. t \in Nat
      BY FactorFacts
    <2>2. PICK y \in Nat : Whole = 10000 * k * t * y
      BY WholeFacts
    <2> HIDE DEF t
    <2>3. 10000 * k * t * y = 100 * (t * ((100 * k) * y))
      BY <1>1, <2>1
    <2>4. t * ((100 * k) * y) \in Nat
      BY <1>1, <2>1
    <2>5. Percent = t * ((100 * k) * y)
      BY <2>2, <2>3, <2>4, PercentIs
    <2> QED
      BY <2>5 DEF t
  <1> QED
    BY <1>4, <1>5, <1>6

\* All of what the runner-ups get is divided among them.
LEMMA UnitFacts ==
    ASSUME Runners \in RunnerCounts, NEW k \in Miners
    PROVE  /\ \E z \in Nat : Unit = (100 * k) * z
           /\ Unit * FactorTotal(Runners) = Percent * (100 - WinnerPercent)
  <1> DEFINE t == FactorTotal(Runners)
             c == 100 - WinnerPercent
  <1>1. t \in Nat \ {0} /\ c \in Nat
    BY FactorFacts, PercentNat
  <1>2. k \in Nat \ {0}
    BY MinersAre
  <1>3. PICK z \in Nat : Percent = t * ((100 * k) * z)
    BY PercentWhole
  <1>4. Unit = (Percent * c) \div t
    BY DEF Unit
  <1> HIDE DEF t, c
  <1> DEFINE q == (100 * k) * (z * c)
  <1>5. Percent * c = t * q /\ q \in Nat
    BY <1>1, <1>2, <1>3
  <1>6. z * c \in Nat
    BY <1>1
  <1>7. Unit = q
    <2> HIDE DEF q
    <2> QED
      BY <1>1, <1>4, <1>5, DivTimes
  <1>8. Unit * t = Percent * c
    <2> HIDE DEF q
    <2> QED
      BY <1>1, <1>5, <1>7
  <1> QED
    BY <1>6, <1>7, <1>8 DEF t, c

\* The weight of a rank can be shared by any number of miners, in whole
\* percents.
LEMMA SlotWhole ==
    ASSUME Scores, Positive # {}, NEW k \in Miners, NEW i \in Nat \ {0}
    PROVE  \E z \in Nat : SlotWeight(i) = (100 * k) * z
  <1>1. k \in Nat \ {0}
    BY MinersAre
  <1>2. Runners \in Nat /\ (Runners # 0 => Runners \in RunnerCounts)
    BY RunnersOf
  <1>3. PICK y \in Nat : Percent = (100 * k) * y
    BY PercentWhole
  <1>4. CASE i = 1
    <2>1. SlotWeight(1) = Whole \/ SlotWeight(1) = Percent * WinnerPercent
      BY DEF SlotWeight
    <2>2. Whole = (100 * k) * (100 * y) /\ 100 * y \in Nat
      BY <1>1, <1>3, PercentWhole
    <2>3. Percent * WinnerPercent = (100 * k) * (y * WinnerPercent)
          /\ y * WinnerPercent \in Nat
      BY <1>1, <1>3, PercentNat
    <2> QED
      BY <1>4, <2>1, <2>2, <2>3
  <1>5. CASE i > Runners + 1
    <2>1. SlotWeight(i) = 0 /\ (100 * k) * 0 = 0
      BY <1>1, <1>5, SlotFacts
    <2> QED
      BY <2>1
  <1>6. CASE i \in RunnerUps(Runners)
    <2>1. Runners \in RunnerCounts
      BY <1>2, <1>6 DEF RunnerUps
    <2>2. PICK z \in Nat : Unit = (100 * k) * z
      BY <2>1, UnitFacts
    <2> DEFINE f == Factors[Runners][i]
    <2>3. f \in Nat /\ SlotWeight(i) = Unit * f
      BY <1>6, SlotFacts
    <2> HIDE DEF f
    <2>4. Unit * f = (100 * k) * (z * f) /\ z * f \in Nat
      BY <1>1, <2>2, <2>3
    <2> QED
      BY <2>3, <2>4
  <1> QED
    BY <1>2, <1>4, <1>5, <1>6 DEF RunnerUps

\* The ranks that miners share are worth what they get, which is whole percents.
LEMMA WorthWhole ==
    ASSUME Scores, NEW m \in Positive
    PROVE  /\ Worth(m) = Cardinality(Level(m)) * WinnerTakesMost(m)
           /\ WinnerTakesMost(m) = 100 * (WinnerTakesMost(m) \div 100)
  <1> DEFINE l == Cardinality(Level(m))
             f == [i \in Places(m) |-> SlotWeight(i)]
             g == [i \in Places(m) |-> CHOOSE z \in Nat : SlotWeight(i) = (100 * l) * z]
             y == SumFunctionOnSet(g, Places(m))
  <1>1. m \in Miners /\ Positive # {}
    BY DEF Positive
  <1>2. l \in Miners
    <2>1. l \in Nat \ {0} /\ l <= Cardinality(Miners)
      BY <1>1, PlacesOf, SizesOfBatch
    <2> QED
      BY <2>1, SizesOfBatch, MinersAre
  <1>3. l \in Nat \ {0}
    BY <1>1, PlacesOf
  <1>4. /\ IsFiniteSet(Places(m)) /\ \A i \in Places(m) : i \in Nat \ {0}
        /\ Worth(m) = SumFunctionOnSet(f, Places(m))
        /\ WinnerTakesMost(m) = Worth(m) \div l
    BY PlacesFacts
  <1> HIDE DEF l
  <1>5. \A i \in Places(m) : g[i] \in Nat /\ f[i] = (100 * l) * g[i]
    BY <1>1, <1>2, <1>4, SlotWhole
  <1> HIDE DEF f, g
  <1>6. y \in Nat
    BY <1>4, <1>5, SumNat
  <1>7. 100 * l \in Nat
    BY <1>3
  <1>8. Worth(m) = (100 * l) * y
    BY <1>4, <1>5, <1>7, SumTimes
  <1> HIDE DEF y
  <1>9. Worth(m) = l * (100 * y) /\ 100 * y \in Nat
    BY <1>3, <1>6, <1>8
  <1>10. WinnerTakesMost(m) = 100 * y
    BY <1>3, <1>4, <1>9, DivTimes
  <1>11. (100 * y) \div 100 = y
    BY <1>6, DivTimes
  <1> QED
    BY <1>9, <1>10, <1>11 DEF l

-----------------------------------------------------------------------------
(* The payouts add up.                                                     *)

\* Some rank is paid, whoever has the best score.
SomeonePaid == WinnerPercent > 0 \/ RunnerUpSlots > 0

\* All ranks that are taken are worth the whole.
LEMMA SlotsAddUp ==
    ASSUME SomeonePaid, Scores, Positive # {}
    PROVE  SumFunctionOnSet([i \in 1..Cardinality(Positive) |-> SlotWeight(i)],
                            1..Cardinality(Positive)) = Whole
  <1> DEFINE places == 1..Cardinality(Positive)
             f == [i \in places |-> SlotWeight(i)]
             ups == RunnerUps(Runners)
             rest == (Runners + 2)..Cardinality(Positive)
             sum(S) == SumFunctionOnSet(f, S)
  <1>1. /\ Runners \in Nat /\ Runners + 1 <= Cardinality(Positive)
        /\ Runners # 0 => Runners \in RunnerCounts
        /\ Cardinality(Positive) \in Nat \ {0}
    BY RunnersOf
  <1>2. places = ({1} \union ups) \union rest /\ {1} \intersect ups = {}
        /\ ({1} \union ups) \intersect rest = {}
    BY <1>1 DEF RunnerUps
  <1>3. IsFiniteSet({1}) /\ IsFiniteSet(ups) /\ IsFiniteSet(rest) /\ IsFiniteSet({1} \union ups)
    <2>1. IsFiniteSet({1})
      BY FS_Singleton
    <2>2. IsFiniteSet(ups)
      BY <1>1, FS_Interval DEF RunnerUps
    <2>3. IsFiniteSet(rest)
      BY <1>1, FS_Interval
    <2> HIDE DEF ups, rest
    <2>4. IsFiniteSet({1} \union ups)
      BY <2>1, <2>2, FS_Union
    <2> QED
      BY <2>1, <2>2, <2>3, <2>4
  <1>4. \A i \in places : f[i] = SlotWeight(i) /\ f[i] \in Nat
    BY <1>1, SlotNat
  <1>5. sum(rest) = 0
    <2>1. \A i \in rest : i \in Nat /\ i > Runners + 1 /\ i \in places
      BY <1>1
    <2>2. \A i \in rest : f[i] = 0
      BY <1>4, <2>1, SlotFacts
    <2>3. Cardinality(rest) \in Nat /\ Cardinality(rest) * 0 = 0
      BY <1>3, FS_CardinalityType
    <2> HIDE DEF rest, f
    <2> QED
      BY <1>3, <2>2, <2>3, SumEqual
  <1>6. sum({1}) = SlotWeight(1) /\ SlotWeight(1) \in Nat
    <2>1. 1 \in places
      BY <1>1
    <2>2. f[1] = SlotWeight(1) /\ f[1] \in Nat
      BY <1>4, <2>1
    <2> HIDE DEF f
    <2>3. sum({1}) = Cardinality({1}) * f[1]
      BY <1>3, <2>2, SumEqual
    <2>4. Cardinality({1}) = 1
      BY FS_Singleton
    <2> QED
      BY <2>2, <2>3, <2>4
  <1>7. sum(ups) = IF Runners = 0 THEN 0 ELSE Percent * (100 - WinnerPercent)
    <2>1. CASE Runners = 0
      <3>1. ups = {}
        BY <2>1 DEF RunnerUps
      <3> HIDE DEF ups, f
      <3> QED
        BY <2>1, <3>1, SumEmpty
    <2>2. CASE Runners # 0
      <3>1. Runners \in RunnerCounts
        BY <1>1, <2>2
      <3>2. \A i \in ups : i \in places
        BY <1>2
      <3>3. \A i \in ups : Factors[Runners][i] \in Nat /\ Unit \in Nat
                           /\ f[i] = Unit * Factors[Runners][i]
        BY <1>4, <3>2, SlotFacts
      <3>4. 2 \in ups
        BY <1>1, <2>2 DEF RunnerUps
      <3> DEFINE g == Factors[Runners]
      <3>5. FactorTotal(Runners) = SumFunctionOnSet(g, ups)
        BY DEF FactorTotal
      <3> HIDE DEF f, ups, g
      <3>6. \A i \in ups : g[i] \in Nat /\ f[i] = Unit * g[i]
        BY <3>3 DEF g
      <3>7. Unit \in Nat
        BY <3>3, <3>4
      <3>8. sum(ups) = Unit * FactorTotal(Runners)
        BY <1>3, <3>5, <3>6, <3>7, SumTimes
      <3>9. \E k : k \in Miners
        BY <1>1 DEF Positive, Positive
      <3>10. Unit * FactorTotal(Runners) = Percent * (100 - WinnerPercent)
        BY <3>1, <3>9, UnitFacts
      <3> QED
        BY <2>2, <3>8, <3>10
    <2> QED
      BY <2>1, <2>2
  <1>8. sum(places) = SlotWeight(1) + sum(ups)
    <2> HIDE DEF f, ups, rest, places
    <2>1. sum({1} \union ups) = sum({1}) + sum(ups)
      BY <1>2, <1>3, <1>4, SumUnion
    <2>2. sum(({1} \union ups) \union rest) = sum({1} \union ups) + sum(rest)
      BY <1>2, <1>3, <1>4, SumUnion
    <2>3. sum({1} \union ups) \in Nat
      BY <1>2, <1>3, <1>4, SumNat
    <2> QED
      BY <1>2, <1>5, <1>6, <2>1, <2>2, <2>3
  <1>9. \E k : k \in Miners
    BY DEF Positive
  <1>10. Whole = 100 * Percent /\ Percent \in Nat /\ WinnerPercent \in Nat
         /\ WinnerPercent <= 100
    BY <1>9, PercentWhole, PercentNat, BatchAssumption
  <1> HIDE DEF f, ups, rest, sum
  <1>11. CASE Runners = 0
    <2>1. WinnerPercent > 0 \/ Cardinality(Positive) = 1
      <3>1. Runners = Min({RunnerUpSlots, Cardinality(Positive) - 1})
        BY DEF Runners
      <3> DEFINE k == Cardinality(Positive) - 1
      <3>2. k \in Nat /\ RunnerUpSlots \in Nat
        BY <1>1, BatchAssumption
      <3> HIDE DEF k
      <3>3. Min({RunnerUpSlots, k}) = IF RunnerUpSlots <= k THEN RunnerUpSlots ELSE k
        BY <3>2, MinOfTwo
      <3>4. RunnerUpSlots = 0 \/ k = 0
        BY <1>11, <3>1, <3>3 DEF k
      <3> QED
        BY <1>1, <1>10, <3>2, <3>4 DEF k, SomeonePaid
    <2>2. SlotWeight(1) = Whole
      BY <1>11, <2>1 DEF SlotWeight
    <2> QED
      BY <1>6, <1>7, <1>8, <1>11, <2>2 DEF sum, f
  <1>12. CASE Runners # 0
    <2>1. SlotWeight(1) = Percent * WinnerPercent
      BY <1>12, SlotFacts
    <2>2. Percent * WinnerPercent + Percent * (100 - WinnerPercent) = 100 * Percent
      BY <1>10
    <2> QED
      BY <1>7, <1>8, <1>10, <1>12, <2>1, <2>2 DEF sum, f
  <1> QED
    BY <1>11, <1>12

\* Miners of one score share what their ranks are worth.
LEMMA LevelShares ==
    ASSUME Scores, NEW m \in Positive
    PROVE  SumFunctionOnSet([n \in Positive |-> WinnerTakesMost(n)], Level(m)) = Worth(m)
  <1> DEFINE w == [n \in Positive |-> WinnerTakesMost(n)]
  <1>1. m \in Miners
    BY DEF Positive
  <1>2. \A n \in Level(m) : n \in Positive /\ Better(n) = Better(m) /\ Level(n) = Level(m)
    BY DEF Positive, Level, Better
  <1>3. \A n \in Level(m) : WinnerTakesMost(n) = WinnerTakesMost(m)
    BY <1>2, PlacesFacts DEF Worth, Places
  <1>4. \A n \in Level(m) : w[n] = WinnerTakesMost(m)
    BY <1>2, <1>3
  <1>5. WinnerTakesMost(m) \in Nat /\ IsFiniteSet(Level(m))
    BY <1>1, PlacesFacts, PlacesOf
  <1> HIDE DEF w
  <1>6. SumFunctionOnSet(w, Level(m)) = Cardinality(Level(m)) * WinnerTakesMost(m)
    BY <1>4, <1>5, SumEqual
  <1> QED
    BY <1>6, WorthWhole DEF w

\* When those ahead of m get what their ranks are worth, so do those with m.
LEMMA NextShares ==
    ASSUME Scores, NEW m \in Positive, NEW w, NEW s, NEW M,
           w = [n \in Positive |-> WinnerTakesMost(n)],
           \A i \in 1..Cardinality(Positive) : s[i] = SlotWeight(i),
           M = Better(m) \union Level(m), M \subseteq Positive,
           SumFunctionOnSet(w, Better(m)) = SumFunctionOnSet(s, 1..Cardinality(Better(m)))
    PROVE  SumFunctionOnSet(w, M) = SumFunctionOnSet(s, 1..Cardinality(M))
  <1> DEFINE a == Cardinality(Better(m))
             l == Cardinality(Level(m))
             p == Cardinality(Positive)
             above == 1..a
             f == [i \in Places(m) |-> SlotWeight(i)]
  <1>1. m \in Miners /\ Positive \subseteq Miners /\ IsFiniteSet(Positive)
    <2>1. Positive \subseteq Miners
      BY DEF Positive
    <2> QED
      BY <2>1, SizesOfBatch, FS_Subset
  <1>2. /\ a \in Nat /\ l \in Nat \ {0} /\ p \in Nat
        /\ IsFiniteSet(Better(m)) /\ IsFiniteSet(Level(m))
    BY <1>1, PlacesOf, FS_CardinalityType
  <1>3. Better(m) \intersect Level(m) = {}
    BY <1>1 DEF Scores, Better, Level
  <1>4. Cardinality(M) = a + l /\ a + l <= p
    <2>1. Cardinality(M) = a + l - Cardinality(Better(m) \intersect Level(m))
      BY <1>2, FS_Union
    <2>2. Cardinality(Better(m) \intersect Level(m)) = 0
      BY <1>3, FS_EmptySet
    <2>3. Cardinality(M) <= p
      BY <1>1, FS_Subset
    <2> QED
      BY <1>2, <2>1, <2>2, <2>3
  <1>5. \A i \in 1..p : s[i] = SlotWeight(i) /\ s[i] \in Nat
    BY SlotNat
  <1>6. \A n \in M : w[n] \in Nat
    BY PlacesFacts
  <1>7. SumFunctionOnSet(w, M)
            = SumFunctionOnSet(w, Better(m)) + SumFunctionOnSet(w, Level(m))
    BY <1>2, <1>3, <1>6, SumUnion
  <1>8. SumFunctionOnSet(w, Level(m)) = Worth(m)
    BY LevelShares
  <1>9. /\ Places(m) = (a + 1)..(a + l) /\ IsFiniteSet(Places(m))
        /\ Worth(m) = SumFunctionOnSet(f, Places(m))
        /\ \A i \in Places(m) : f[i] = SlotWeight(i)
    BY PlacesFacts DEF Places
  <1>10. SumFunctionOnSet(w, Better(m)) = SumFunctionOnSet(s, above)
    OBVIOUS
  <1> HIDE DEF a, l, p, f
  <1>11. \A i \in Places(m) : i \in 1..p
    BY <1>2, <1>4, <1>9
  <1>12. SumFunctionOnSet(f, Places(m)) = SumFunctionOnSet(s, Places(m))
    <2>1. \A i \in Places(m) : f[i] \in Nat /\ f[i] = s[i]
      BY <1>5, <1>9, <1>11
    <2>2. IsFiniteSet(Places(m))
      BY <1>9
    <2>3. \A g : (\A i \in Places(m) : f[i] \in Nat /\ f[i] = g[i])
                => SumFunctionOnSet(f, Places(m)) = SumFunctionOnSet(g, Places(m))
      BY <2>2, SumSame
    <2> QED
      BY <2>1, <2>3
  <1>13. /\ 1..(a + l) = above \union Places(m) /\ above \intersect Places(m) = {}
         /\ \A i \in above \union Places(m) : i \in 1..p
    BY <1>2, <1>4, <1>9
  <1>14. IsFiniteSet(above)
    BY <1>2, FS_Interval
  <1> HIDE DEF above
  <1>15. SumFunctionOnSet(s, above \union Places(m))
             = SumFunctionOnSet(s, above) + SumFunctionOnSet(s, Places(m))
    BY <1>5, <1>9, <1>13, <1>14, SumUnion
  <1> QED
    BY <1>4, <1>7, <1>8, <1>9, <1>10, <1>12, <1>13, <1>15

\* The miners of some score and more.
IsTop(D) == \A m \in D : Better(m) \subseteq D /\ Level(m) \subseteq D

\* They get what the ranks they take are worth.
LEMMA TopShares ==
    ASSUME Scores, NEW D, D \subseteq Positive, IsTop(D)
    PROVE  SumFunctionOnSet([n \in Positive |-> WinnerTakesMost(n)], D)
             = SumFunctionOnSet([i \in 1..Cardinality(Positive) |-> SlotWeight(i)],
                                1..Cardinality(D))
  <1> DEFINE w == [n \in Positive |-> WinnerTakesMost(n)]
             s == [i \in 1..Cardinality(Positive) |-> SlotWeight(i)]
             ranks(T) == 1..Cardinality(T)
             B == {T \in SUBSET D : IsTop(T)
                      /\ SumFunctionOnSet(w, T) # SumFunctionOnSet(s, ranks(T))}
  <1>1. Positive \subseteq Miners /\ IsFiniteSet(Positive) /\ IsFiniteSet(D)
    <2>1. Positive \subseteq Miners
      BY DEF Positive
    <2> QED
      BY <2>1, SizesOfBatch, FS_Subset
  <1>2. ASSUME B # {} PROVE FALSE
    <2>1. PICK M \in B : \A T \in B : T \subseteq M => T = M
      <3>1. B \subseteq SUBSET D
        OBVIOUS
      <3> HIDE DEF B
      <3> QED
        BY <1>1, <1>2, <3>1, SmallestPart
    <2>2. M \subseteq Positive /\ IsTop(M)
          /\ SumFunctionOnSet(w, M) # SumFunctionOnSet(s, ranks(M))
      OBVIOUS
    <2>3. M # {}
      <3> SUFFICES ASSUME M = {} PROVE FALSE
        OBVIOUS
      <3>1. Cardinality(M) = 0
        BY FS_EmptySet
      <3>2. ranks(M) = {}
        BY <3>1
      <3> HIDE DEF w, s, ranks
      <3> QED
        BY <2>2, <3>2, SumEmpty
    <2>4. PICK m \in M : \A n \in M : batchScore[m] <= batchScore[n]
      <3> DEFINE all == {batchScore[n] : n \in M}
      <3>1. all \in SUBSET Nat /\ all # {}
        BY <1>1, <2>2, <2>3 DEF Scores
      <3>2. PICK x \in all : \A y \in all : x <= y
        <4> HIDE DEF all
        <4> QED
          BY <3>1, LeastOfSome
      <3> QED
        BY <3>2
    <2>5. m \in Positive /\ m \in Miners
      BY <1>1, <2>2
    <2>6. M = Better(m) \union Level(m) /\ Better(m) \intersect Level(m) = {}
      <3>1. Better(m) \union Level(m) \subseteq M
        BY <2>2 DEF IsTop
      <3>2. \A n \in M : n \in Miners /\ batchScore[n] \in Nat /\ batchScore[m] \in Nat
                         /\ batchScore[m] <= batchScore[n]
        BY <1>1, <2>2, <2>4 DEF Scores
      <3>3. \A n \in M : n \in Better(m) \/ n \in Level(m)
        BY <3>2 DEF Better, Level
      <3>4. Better(m) \intersect Level(m) = {}
        BY <2>5 DEF Scores, Better, Level
      <3> QED
        BY <3>1, <3>3, <3>4
    <2>7. SumFunctionOnSet(w, Better(m)) = SumFunctionOnSet(s, ranks(Better(m)))
      <3>1. IsTop(Better(m))
        BY <1>1, <2>5 DEF Scores, IsTop, Better, Level
      <3>2. m \notin Better(m)
        BY <2>5 DEF Scores, Better
      <3>3. Better(m) \subseteq M /\ Better(m) # M
        BY <2>6, <3>2
      <3>4. Better(m) \in SUBSET D /\ Better(m) \notin B
        BY <2>1, <3>3
      <3> QED
        BY <3>1, <3>4
    <2>8. \A i \in 1..Cardinality(Positive) : s[i] = SlotWeight(i)
      OBVIOUS
    <2>9. w = [n \in Positive |-> WinnerTakesMost(n)]
      OBVIOUS
    <2> HIDE DEF w, s, B
    <2>10. SumFunctionOnSet(w, M) = SumFunctionOnSet(s, 1..Cardinality(M))
      BY <2>2, <2>5, <2>6, <2>7, <2>8, <2>9, NextShares
    <2> QED
      BY <2>2, <2>10
  <1>3. IsTop(D) /\ D \in SUBSET D
    OBVIOUS
  <1> QED
    BY <1>2, <1>3

\* So the payout of the ranks is all handed out.
LEMMA WinnersAddUp ==
    ASSUME SomeonePaid, Scores, Positive # {}
    PROVE  SumFunctionOnSet([n \in Positive |-> WinnerTakesMost(n)], Positive) = Whole
  <1>1. IsTop(Positive)
    <2>1. \A m \in Positive : m \in Miners /\ batchScore[m] > 0
      BY DEF Positive
    <2> QED
      BY <2>1 DEF Scores, IsTop, Positive, Better, Level
  <1> QED
    BY <1>1, TopShares, SlotsAddUp

\* Proportional parts are rounded down, by less than one for each miner.
LEMMA PartsAddUp ==
    ASSUME Scores, Positive # {}
    PROVE  LET sum == SumFunctionOnSet([n \in Positive |-> Proportional(n)], Positive)
           IN  sum \in Nat /\ sum <= Whole /\ Whole <= sum + Cardinality(Positive)
  <1> DEFINE p == [n \in Positive |-> Proportional(n)]
             one == [n \in Positive |-> 1]
             q == [n \in Positive |-> Proportional(n) + 1]
             total == SumFunctionOnSet(batchScore, Positive)
             low == [n \in Positive |-> total * p[n]]
             high == [n \in Positive |-> total * q[n]]
             part == [n \in Positive |-> Whole * batchScore[n]]
             sum(f) == SumFunctionOnSet(f, Positive)
             count == Cardinality(Positive)
  <1>1. IsFiniteSet(Positive) /\ count \in Nat
    BY RunnersOf
  <1>2. Whole \in Nat /\ total \in Nat \ {0}
    BY TotalFacts, BatchAssumption DEF IsDivisible
  <1>3. ASSUME NEW n \in Positive
        PROVE  /\ p[n] \in Nat /\ q[n] = p[n] + one[n] /\ one[n] = 1
               /\ part[n] = Whole * batchScore[n] /\ batchScore[n] \in Nat
               /\ low[n] = total * p[n] /\ high[n] = total * q[n]
               /\ low[n] <= part[n] /\ part[n] <= high[n]
    <2> DEFINE a == Whole * batchScore[n]
               d == a \div total
    <2>1. batchScore[n] \in Nat
      BY TotalFacts
    <2>2. a \in Nat
      BY <1>2, <2>1
    <2>3. p[n] = d
      BY DEF Proportional
    <2> HIDE DEF a, total
    <2>4. d \in Nat /\ a % total \in Nat /\ a % total < total /\ a = total * d + (a % total)
      BY <1>2, <2>2, DivFacts
    <2>5. total * (d + 1) = total * d + total
      BY <1>2, <2>4
    <2>6. total * d <= a /\ a <= total * (d + 1)
      BY <1>2, <2>2, <2>4, <2>5
    <2> HIDE DEF d
    <2>7. low[n] = total * p[n] /\ high[n] = total * q[n] /\ q[n] = p[n] + one[n] /\ one[n] = 1
      OBVIOUS
    <2>8. part[n] = a
      BY DEF a
    <2> QED
      BY <2>1, <2>3, <2>4, <2>6, <2>7, <2>8 DEF a
  <1> HIDE DEF p, one, q, total, low, high, part
  <1>4. sum(part) = Whole * total
    BY <1>1, <1>2, <1>3, SumTimes DEF total
  <1>5. sum(p) \in Nat /\ sum(q) = sum(p) + count
    <2>1. sum(one) = count * 1
      BY <1>1, <1>3, SumEqual
    <2>2. sum(p) \in Nat
      BY <1>1, <1>3, SumNat
    <2>3. sum(q) = sum(p) + sum(one)
      BY <1>1, <1>3, SumPlus
    <2> HIDE DEF sum, count
    <2> QED
      BY <1>1, <2>1, <2>2, <2>3
  <1>6. sum(low) = total * sum(p)
    BY <1>1, <1>2, <1>3, SumTimes
  <1>7. sum(high) = total * sum(q)
    BY <1>1, <1>2, <1>3, SumTimes
  <1>8. \A n \in Positive : low[n] \in Nat /\ high[n] \in Nat /\ part[n] \in Nat
    BY <1>2, <1>3
  <1>9. sum(low) <= sum(part) /\ sum(part) <= sum(high)
    BY <1>1, <1>3, <1>8, SumLess
  <1> HIDE DEF sum, count
  <1>10. total * sum(p) <= total * Whole /\ total * Whole <= total * (sum(p) + count)
    BY <1>2, <1>4, <1>5, <1>6, <1>7, <1>9
  <1>11. \A x, y \in Nat : total * x <= total * y => x <= y
    <2> SUFFICES ASSUME NEW x \in Nat, NEW y \in Nat, y + 1 <= x
                 PROVE  ~(total * x <= total * y)
      OBVIOUS
    <2>1. total * (y + 1) <= total * x
      BY <1>2, TimesMonotone
    <2>2. total * (y + 1) = total * y + total /\ total * y \in Nat /\ total * x \in Nat
      BY <1>2
    <2> QED
      BY <1>2, <2>1, <2>2
  <1>12. sum(p) <= Whole /\ Whole <= sum(p) + count
    BY <1>1, <1>2, <1>5, <1>10, <1>11
  <1> QED
    BY <1>5, <1>12 DEF sum, p, count

\* What the bonus takes off is what it hands out.
LEMMA BucketAddsUp ==
    ASSUME SomeonePaid, Scores, Positive # {}, newcomers \subseteq Miners
    PROVE  SumFunctionOnSet([n \in Positive |-> Bucket(n)], Positive) = Whole
  <1> DEFINE w == [n \in Positive |-> WinnerTakesMost(n)]
             c == [n \in Positive |-> WinnerTakesMost(n) \div 100]
             left == 100 - NewcomerShare
             p == [n \in Positive |-> left * c[n]]
             b == [n \in Positive |-> Bonus(n)]
             u == [n \in Positive |-> Bucket(n)]
             sum(f) == SumFunctionOnSet(f, Positive)
             mass == Percent * NewcomerShare
             count == Cardinality(NewcomerWinners)
  <1>1. IsFiniteSet(Positive) /\ \E k : k \in Miners
    BY RunnersOf DEF Positive
  <1>2. Whole = 100 * Percent /\ Percent \in Nat
    BY <1>1, PercentWhole, PercentNat
  <1>3. NewcomerShare \in Nat /\ left \in Nat /\ NewcomerShare + left = 100
    BY NewcomerFacts
  <1>4. ASSUME NEW n \in Positive
        PROVE  /\ w[n] = 100 * c[n] /\ c[n] \in Nat /\ p[n] = left * c[n] /\ p[n] \in Nat
               /\ b[n] = Bonus(n) /\ b[n] \in Nat /\ u[n] = p[n] + b[n]
    <2> DEFINE v == WinnerTakesMost(n)
    <2>1. v \in Nat /\ v = 100 * (v \div 100)
      BY PlacesFacts, WorthWhole
    <2>2. v \div 100 \in Nat
      BY <2>1, DivFacts
    <2>3. Bonus(n) \in Nat
      BY NewcomerFacts
    <2>4. Bucket(n) = (v \div 100) * left + Bonus(n)
      BY DEF Bucket
    <2> HIDE DEF v, left
    <2>5. (v \div 100) * left = left * (v \div 100) /\ left * (v \div 100) \in Nat
      BY <1>3, <2>2
    <2>6. w[n] = v /\ c[n] = v \div 100 /\ p[n] = left * c[n] /\ b[n] = Bonus(n)
          /\ u[n] = Bucket(n)
      BY DEF v
    <2> QED
      BY <2>1, <2>2, <2>3, <2>4, <2>5, <2>6
  <1> HIDE DEF w, c, left, p, b, u
  <1>5. sum(w) = Whole
    BY WinnersAddUp DEF w
  <1>6. sum(w) = 100 * sum(c) /\ sum(c) \in Nat
    BY <1>1, <1>4, SumTimes, SumNat
  <1>7. sum(p) = left * sum(c)
    BY <1>1, <1>3, <1>4, SumTimes
  <1>8. sum(u) = sum(p) + sum(b)
    BY <1>1, <1>4, SumPlus
  <1>9. sum(b) = mass
    <2>1. NewcomerWinners \subseteq Positive /\ IsFiniteSet(NewcomerWinners)
          /\ (NewcomerWinners # {} => count \in Nat \ {0})
      BY WinnersHaveAScore, NewcomerFacts
    <2>2. mass \in Nat
      BY <1>2, <1>3
    <2> DEFINE rest == Positive \ NewcomerWinners
    <2>3. IsFiniteSet(rest) /\ NewcomerWinners \union rest = Positive
          /\ NewcomerWinners \intersect rest = {}
      BY <1>1, <2>1, FS_Subset
    <2>4. \A n \in rest : b[n] = 0
      BY <1>4 DEF Bonus
    <2>5. \A n \in NewcomerWinners : b[n] = mass \div count
      BY <1>4, <2>1 DEF Bonus
    <2>6. SumFunctionOnSet(b, rest) = 0
      <3>1. Cardinality(rest) \in Nat /\ Cardinality(rest) * 0 = 0
        BY <2>3, FS_CardinalityType
      <3> HIDE DEF rest
      <3> QED
        BY <2>3, <2>4, <3>1, SumEqual
    <2>7. SumFunctionOnSet(b, NewcomerWinners) = mass
      <3>1. CASE NewcomerWinners = {}
        <4>1. NewcomerShare = 0
          BY <3>1 DEF NewcomerShare
        <4>2. mass = 0
          BY <1>2, <4>1
        <4> HIDE DEF mass
        <4> QED
          BY <3>1, <4>2, SumEmpty
      <3>2. CASE NewcomerWinners # {}
        <4>1. count \in Nat \ {0}
          BY <2>1, <3>2
        <4>2. count \in Miners
          <5>1. count <= Cardinality(Miners)
            BY <2>1, SizesOfBatch, NewcomerFacts, FS_Subset
          <5> QED
            BY <4>1, <5>1, SizesOfBatch, MinersAre
        <4>3. PICK z \in Nat : Percent = (100 * count) * z
          BY <4>2, PercentWhole
        <4> DEFINE y == 100 * z * NewcomerShare
        <4> HIDE DEF count
        <4>4. mass = count * y /\ y \in Nat
          BY <1>3, <4>1, <4>3
        <4> HIDE DEF mass, y
        <4>5. mass \div count = y
          BY <4>1, <4>4, DivTimes
        <4>6. \A n \in NewcomerWinners : b[n] = y
          BY <2>5, <4>5
        <4>7. SumFunctionOnSet(b, NewcomerWinners) = count * y
          BY <2>1, <4>4, <4>6, SumEqual DEF count
        <4> QED
          BY <4>4, <4>7
      <3> QED
        BY <3>1, <3>2
    <2>8. SumFunctionOnSet(b, NewcomerWinners \union rest)
              = SumFunctionOnSet(b, NewcomerWinners) + SumFunctionOnSet(b, rest)
      <3>1. \A n \in NewcomerWinners \union rest : b[n] \in Nat
        BY <1>4, <2>3
      <3> HIDE DEF rest
      <3> QED
        BY <2>1, <2>3, <3>1, SumUnion
    <2> HIDE DEF mass, rest
    <2> QED
      BY <2>2, <2>3, <2>6, <2>7, <2>8
  <1> HIDE DEF sum
  <1>10. sum(c) = Percent
    BY <1>2, <1>5, <1>6
  <1>11. left * Percent + Percent * NewcomerShare = (NewcomerShare + left) * Percent
    BY <1>2, <1>3
  <1> QED
    BY <1>2, <1>3, <1>7, <1>8, <1>9, <1>10, <1>11 DEF sum, u

\* Who has no score is paid nothing.
LEMMA NothingForNoScore ==
    ASSUME Scores, newcomers \subseteq Miners, NEW m \in Miners, m \notin Positive
    PROVE  Payout(m) = 0
  <1>1. WinnerTakesMost(m) = 0 /\ Proportional(m) = 0
    BY DEF WinnerTakesMost, Proportional
  <1>2. m \notin NewcomerWinners
    BY WinnersHaveAScore
  <1>3. Bonus(m) = 0
    BY <1>2 DEF Bonus
  <1>4. (0 \div 100) * (100 - NewcomerShare) = 0
    <2>1. 0 \div 100 = 0
      OBVIOUS
    <2>2. 100 - NewcomerShare \in Nat
      BY NewcomerFacts
    <2> QED
      BY <2>1, <2>2
  <1>5. Bucket(m) = 0
    BY <1>1, <1>3, <1>4 DEF Bucket
  <1> QED
    BY <1>1, <1>5 DEF Payout

\* At any time of a batch, the payouts add up.
LEMMA AddsUp ==
    ASSUME SomeonePaid, BatchInv
    PROVE  PayoutAddsUp
  <1> SUFFICES ASSUME batchPhase = "paid" PROVE PayoutAddsUp
    BY DEF PayoutAddsUp
  <1> DEFINE sum(S) == SumFunctionOnSet(payout, S)
             rest == Miners \ Positive
             count == Cardinality(Miners)
  <1>1. Scores /\ newcomers \subseteq Miners /\ payout = [m \in Miners |-> Payout(m)]
    BY MeanLess DEF BatchInv
  <1>2. \A m \in Miners : payout[m] = Payout(m)
    BY <1>1
  <1>3. \A m \in rest : payout[m] = 0
    BY <1>1, <1>2, NothingForNoScore
  <1>4. Positive \subseteq Miners /\ IsFiniteSet(Miners) /\ IsFiniteSet(Positive)
        /\ IsFiniteSet(rest) /\ count \in Nat
    <2>1. Positive \subseteq Miners
      BY DEF Positive
    <2> QED
      BY <2>1, SizesOfBatch, FS_Subset
  <1>5. sum(rest) = 0
    <2>1. Cardinality(rest) \in Nat /\ Cardinality(rest) * 0 = 0
      BY <1>4, FS_CardinalityType
    <2> HIDE DEF rest
    <2> QED
      BY <1>3, <1>4, <2>1, SumEqual
  <1>6. CASE Positive = {}
    <2>1. rest = Miners
      BY <1>6
    <2>2. sum(Miners) = 0
      BY <1>5, <2>1
    <2> QED
      BY <1>6, <2>2 DEF PayoutAddsUp
  <1>7. CASE Positive # {}
    <2> DEFINE r == [n \in Positive |-> Proportional(n)]
               w == [n \in Positive |-> WinnerTakesMost(n)]
               u == [n \in Positive |-> Bucket(n)]
               part(f) == SumFunctionOnSet(f, Positive)
    <2>1. Whole \in Nat /\ Cardinality(Positive) <= count /\ Cardinality(Positive) \in Nat
      BY <1>1, <1>7, RunnersOf, BatchAssumption DEF IsDivisible
    <2>2. part(w) = Whole /\ part(u) = Whole
      BY <1>1, <1>7, WinnersAddUp, BucketAddsUp
    <2>3. part(r) \in Nat /\ part(r) <= Whole /\ Whole <= part(r) + Cardinality(Positive)
      BY <1>1, <1>7, PartsAddUp
    <2>4. \A n \in Positive : /\ r[n] \in Nat /\ w[n] \in Nat /\ u[n] \in Nat
                              /\ payout[n] \in {r[n], w[n], u[n]}
      <3> SUFFICES ASSUME NEW n \in Positive
                   PROVE  /\ r[n] \in Nat /\ w[n] \in Nat /\ u[n] \in Nat
                          /\ payout[n] \in {r[n], w[n], u[n]}
        OBVIOUS
      <3> DEFINE v == WinnerTakesMost(n)
      <3>1. n \in Miners /\ Proportional(n) \in Nat
        BY <1>1, <1>4, ProportionalLess DEF Scores
      <3>2. v \in Nat
        BY <1>1, PlacesFacts
      <3>3. Bucket(n) = (v \div 100) * (100 - NewcomerShare) + Bonus(n)
        BY DEF Bucket
      <3> HIDE DEF v
      <3>4. v \div 100 \in Nat
        BY <3>2, DivFacts
      <3>5. Bucket(n) \in Nat
        BY <1>1, <3>3, <3>4, NewcomerFacts
      <3>6. payout[n] \in {Proportional(n), WinnerTakesMost(n), Bucket(n)}
        BY <1>2, <3>1 DEF Payout
      <3> QED
        BY <3>1, <3>2, <3>5, <3>6 DEF v
    <2>5. \/ \A n \in Positive : payout[n] = r[n]
          \/ \A n \in Positive : payout[n] = w[n]
          \/ \A n \in Positive : payout[n] = u[n]
      BY <1>2, <1>4 DEF Payout
    <2> HIDE DEF r, w, u, part
    <2>6. sum(Positive) \in {part(r), part(w), part(u)}
      <3>1. ASSUME NEW f, \A n \in Positive : f[n] \in Nat /\ payout[n] = f[n]
            PROVE  sum(Positive) = part(f)
        BY <1>4, <3>1, SumSame DEF part
      <3> HIDE DEF sum
      <3> QED
        BY <2>4, <2>5, <3>1
    <2>7. sum(Miners) = sum(Positive) + sum(rest)
      <3>1. Positive \union rest = Miners /\ Positive \intersect rest = {}
        BY <1>4
      <3>2. \A n \in Positive \union rest : payout[n] \in Nat
        BY <1>3, <2>4
      <3> HIDE DEF rest
      <3>3. sum(Positive \union rest) = sum(Positive) + sum(rest)
        BY <1>4, <3>1, <3>2, SumUnion
      <3> QED
        BY <3>1, <3>3
    <2> HIDE DEF count
    <2>8. sum(Miners) \in (Whole - count)..Whole
      <3> HIDE DEF sum
      <3> QED
        BY <1>4, <1>5, <2>1, <2>2, <2>3, <2>6, <2>7
    <2> QED
      BY <1>3, <1>7, <2>8 DEF PayoutAddsUp, count
  <1> QED
    BY <1>6, <1>7

\* The payouts hand out the whole and no more, to miners with a score, for any
\* number of miners in each of the three modes; proportional ones fall short
\* by less than a unit for each miner.  Some rank has to be paid: the code also
\* takes a winner's share of 0 with no runner-ups, which hands out nothing to
\* two miners.
THEOREM PayoutTheorem ==
    ASSUME SomeonePaid
    PROVE  BatchSpec => []PayoutAddsUp
  BY AddsUp, BatchInvariant, PTL

=============================================================================
