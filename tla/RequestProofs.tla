---------------------------- MODULE RequestProofs ----------------------------
(***************************************************************************)
(* Theorems of LoadBalancer, for any requests, rules and weights.          *)
(***************************************************************************)
EXTENDS LoadBalancer, HostLookup, FiniteSetTheorems, SequenceTheorems, WellFoundedInduction, TLAPS

-----------------------------------------------------------------------------
(* Induction over an interval, in the form of sets.                        *)

\* The sets of smaller elements are ordered by inclusion, and one is smallest.
LEMMA LeastExists ==
  ASSUME NEW n \in Nat, NEW S \in SUBSET (0..n), S # {}
  PROVE  Least(S) \in S /\ \A t \in S : Least(S) <= t
<1> DEFINE Below(t) == {u \in S : u < t}
           T == {Below(t) : t \in S}
           R == StrictSubsetOrdering(0..n)
<1>1. \A t \in S : Below(t) \in FiniteSubsetsOf(0..n)
  <2>1. IsFiniteSet(0..n)
    BY FS_Interval
  <2> QED
    BY <2>1, FS_Subset DEF FiniteSubsetsOf
<1>2. T \subseteq FiniteSubsetsOf(0..n) /\ T # {}
  BY <1>1
<1>3. IsWellFoundedOn(R, FiniteSubsetsOf(0..n))
  BY FS_StrictSubsetOrderingWellFounded
<1>4. \E A \in T : \A B \in T : ~(<<B, A>> \in R)
  <2> HIDE DEF T, R
  <2> QED
    BY <1>2, <1>3, WFMin
<1>5. PICK x \in S : \A t \in S : <<Below(t), Below(x)>> \notin R
  BY <1>4
<1>6. ASSUME NEW t \in S PROVE x <= t
  <2> SUFFICES ASSUME t < x PROVE FALSE
    OBVIOUS
  <2>1. t \in Below(x) /\ t \notin Below(t)
    OBVIOUS
  <2>2. \A u \in S : u \in Below(t) => u \in Below(x)
    OBVIOUS
  <2>3. Below(t) \subseteq Below(x) /\ Below(t) # Below(x)
    BY <2>1, <2>2
  <2>4. <<Below(t), Below(x)>> \in R
    BY <2>3 DEF StrictSubsetOrdering
  <2> QED
    BY <1>5, <2>4
<1> QED
  BY <1>6 DEF Least

\* What holds at 0, and at each number after one where it holds, holds up to n.
LEMMA Induction ==
  ASSUME NEW n \in Nat, NEW S,
         0 \in S, \A j \in 1..n : j - 1 \in S => j \in S
  PROVE  0..n \subseteq S
<1> DEFINE Rest == (0..n) \ S
<1> SUFFICES ASSUME Rest # {} PROVE FALSE
  OBVIOUS
<1>1. Least(Rest) \in Rest /\ \A t \in Rest : Least(Rest) <= t
  <2>1. Rest \in SUBSET (0..n)
    OBVIOUS
  <2> HIDE DEF Rest
  <2> QED
    BY <2>1, LeastExists
<1>2. PICK j \in Rest : \A t \in Rest : j <= t
  BY <1>1
<1>3. j \in 1..n /\ j - 1 \in S
  BY <1>2
<1> QED
  BY <1>3

\* A recursion over 0..n defines a function: next[j] is its step to j.
Recurs(f, n, base, next) ==
    f[0] = base /\ \A j \in 1..n : f[j] = next[j][f[j - 1]]

LEMMA Recursion ==
  ASSUME NEW n \in Nat, NEW T, NEW base \in T, NEW next \in [1..n -> [T -> T]]
  PROVE  \E f \in [0..n -> T] : Recurs(f, n, base, next)
<1> DEFINE S == {k \in 0..n : \E f \in [0..k -> T] : Recurs(f, k, base, next)}
<1>1. 0 \in S
  <2> DEFINE f == [j \in 0..0 |-> base]
  <2>1. f \in [0..0 -> T] /\ Recurs(f, 0, base, next)
    BY DEF Recurs
  <2> HIDE DEF f
  <2> QED
    BY <2>1
<1>2. ASSUME NEW k \in 1..n, k - 1 \in S PROVE k \in S
  <2>1. PICK f \in [0..(k - 1) -> T] : Recurs(f, k - 1, base, next)
    BY <1>2
  <2> DEFINE g == [j \in 0..k |-> IF j = k THEN next[k][f[k - 1]] ELSE f[j]]
  <2>2. g \in [0..k -> T]
    OBVIOUS
  <2>3. ASSUME NEW j \in 1..k PROVE g[j] = next[j][g[j - 1]]
    <3>1. j - 1 \in 0..(k - 1) /\ g[j - 1] = f[j - 1]
      OBVIOUS
    <3>2. CASE j = k
      BY <3>1, <3>2
    <3>3. CASE j # k
      BY <2>1, <3>1, <3>3 DEF Recurs
    <3> QED
      BY <3>2, <3>3
  <2>4. Recurs(g, k, base, next)
    BY <2>1, <2>3 DEF Recurs
  <2> HIDE DEF g
  <2> QED
    BY <2>2, <2>4
<1>3. 0..n \subseteq S
  <2> HIDE DEF S
  <2> QED
    BY <1>1, <1>2, Induction
<1> QED
  BY <1>3

-----------------------------------------------------------------------------
(* The weights of a rule and their sums.                                   *)

LEMMA WeightIsPositive ==
  ASSUME NEW rule \in RuleType, NEW i \in 1..Len(rule.weights)
  PROVE  Weight(rule, i) \in Nat \ {0}
<1>1. rule.weights \in Seq(Nat)
  BY DEF RuleType
<1>2. rule.weights[i] \in Nat
  BY <1>1
<1> QED
  BY <1>2 DEF Weight

LEMMA CumulativeSums ==
  ASSUME NEW rule \in RuleType
  PROVE  /\ Len(rule.weights) \in Nat
         /\ Cumulative(rule) \in [0..Len(rule.weights) -> Nat]
         /\ Cumulative(rule)[0] = 0
         /\ \A j \in 1..Len(rule.weights) :
              Cumulative(rule)[j] = Cumulative(rule)[j - 1] + Weight(rule, j)
<1> DEFINE n == Len(rule.weights)
           sum == Cumulative(rule)
           next == [j \in 1..n |-> [s \in Nat |-> s + Weight(rule, j)]]
           IsSum(f) == f = [j \in 0..n |-> IF j = 0 THEN 0
                                           ELSE f[j - 1] + Weight(rule, j)]
<1>1. n \in Nat
  BY DEF RuleType
<1>2. \A j \in 1..n : Weight(rule, j) \in Nat
  BY WeightIsPositive
<1>3. \E f : IsSum(f)
  <2> DEFINE numbers == Nat
             zero == 0
  <2>1. next \in [1..n -> [numbers -> numbers]] /\ zero \in numbers
    BY <1>2
  <2> HIDE DEF n, next, numbers, zero
  <2>2. PICK f \in [0..n -> numbers] : Recurs(f, n, zero, next)
    BY <1>1, <2>1, Recursion
  <2>3. \A j \in 1..n : j - 1 \in 0..n
    BY <1>1
  <2>4. \A j \in 1..n : next[j][f[j - 1]] = f[j - 1] + Weight(rule, j)
    BY <2>2, <2>3 DEF next, numbers
  <2>5. IsSum(f)
    BY <2>2, <2>4, <1>1 DEF numbers, zero, Recurs
  <2> QED
    BY <2>5
<1>4. IsSum(sum)
  <2>1. sum = CHOOSE f : IsSum(f)
    BY DEF Cumulative
  <2> HIDE DEF IsSum, sum
  <2> QED
    BY <1>3, <2>1
<1> HIDE DEF n, sum
<1>5. /\ sum[0] = 0
      /\ \A j \in 1..n : sum[j] = sum[j - 1] + Weight(rule, j)
  BY <1>1, <1>4
<1>6. \A j \in 0..n : sum[j] \in Nat
  <2> DEFINE S == {j \in 0..n : sum[j] \in Nat}
  <2>1. 0 \in S
    BY <1>1, <1>5
  <2>2. \A j \in 1..n : j - 1 \in S => j \in S
    BY <1>1, <1>2, <1>5
  <2>3. 0..n \subseteq S
    <3> HIDE DEF S
    <3> QED
      BY <1>1, <2>1, <2>2, Induction
  <2> QED
    BY <2>3
<1>7. sum \in [0..n -> Nat]
  BY <1>4, <1>6
<1> QED
  BY <1>1, <1>5, <1>7 DEF n, sum

\* The sums are larger and larger: a choice has at most one place among them.
LEMMA SumsGrow ==
  ASSUME NEW rule \in RuleType, NEW n, n = Len(rule.weights),
         NEW i \in 0..n, NEW k \in i..n
  PROVE  Cumulative(rule)[i] <= Cumulative(rule)[k]
<1> DEFINE sum == Cumulative(rule)
           S == {j \in 0..n : j >= i => sum[i] <= sum[j]}
<1>1. /\ n \in Nat
      /\ \A j \in 0..n : sum[j] \in Nat
      /\ \A j \in 1..n : sum[j] = sum[j - 1] + Weight(rule, j)
  BY CumulativeSums
<1>2. \A j \in 1..n : Weight(rule, j) \in Nat
  BY WeightIsPositive
<1> HIDE DEF sum
<1>3. 0 \in S
  BY <1>1
<1>4. ASSUME NEW j \in 1..n, j - 1 \in S PROVE j \in S
  <2>1. CASE j = i
    BY <1>1, <2>1
  <2>2. CASE j # i
    BY <1>1, <1>2, <1>4, <2>2
  <2> QED
    BY <2>1, <2>2
<1>5. 0..n \subseteq S
  <2> HIDE DEF S
  <2> QED
    BY <1>1, <1>3, <1>4, Induction
<1> QED
  BY <1>1, <1>5 DEF sum

\* weighted walks the sums up to the first that is larger than its position:
\* backend i is chosen in as many positions as its weight says, those between
\* the sum before it and its own.
LEMMA TurnIsItsOwn ==
  ASSUME NEW rt, rt.rule \in RuleType, rt.rr \in Nat, Len(rt.rule.weights) > 0
  PROVE  /\ Total(rt.rule) \in Nat \ {0}
         /\ Turn(rt) \in 1..Len(rt.rule.weights)
         /\ \A i \in 1..Len(rt.rule.weights) :
              i = Turn(rt) <=>
                /\ Cumulative(rt.rule)[i - 1] <= rt.rr % Total(rt.rule)
                /\ rt.rr % Total(rt.rule) < Cumulative(rt.rule)[i]
<1> DEFINE n == Len(rt.rule.weights)
           sum == Cumulative(rt.rule)
           pos == rt.rr % Total(rt.rule)
           Larger == {i \in 1..n : pos < sum[i]}
           first == Least(Larger)
<1>1. /\ n \in Nat \ {0}
      /\ sum[0] = 0
      /\ \A j \in 0..n : sum[j] \in Nat
      /\ \A j \in 1..n : sum[j] = sum[j - 1] + Weight(rt.rule, j)
  BY CumulativeSums
<1>2. \A i \in 0..n : \A k \in i..n : sum[i] <= sum[k]
  BY SumsGrow
<1>3. Total(rt.rule) = sum[n] /\ sum[n] \in Nat \ {0}
  <2>1. Total(rt.rule) = sum[n]
    BY DEF Total
  <2>2. sum[n] = sum[n - 1] + Weight(rt.rule, n) /\ sum[n - 1] \in Nat
    BY <1>1
  <2>3. Weight(rt.rule, n) \in Nat \ {0}
    BY <1>1, WeightIsPositive
  <2> QED
    BY <2>1, <2>2, <2>3
<1>4. pos \in Nat /\ pos < sum[n]
  BY <1>3
<1>5. Turn(rt) = first
  BY DEF Turn
<1> HIDE DEF n, sum, pos
<1>6. Larger \in SUBSET (0..n) /\ Larger # {}
  BY <1>1, <1>4
<1>7. first \in Larger /\ \A t \in Larger : first <= t
  <2> HIDE DEF Larger
  <2> QED
    BY <1>1, <1>6, LeastExists
<1>8. first \in 1..n /\ pos < sum[first]
  BY <1>7
<1>9. sum[first - 1] <= pos
  <2>1. CASE first = 1
    BY <1>1, <1>4, <2>1
  <2>2. CASE first # 1
    <3>1. first - 1 \in 1..n /\ first - 1 \notin Larger
      BY <1>1, <1>7, <1>8, <2>2
    <3> QED
      BY <1>1, <1>4, <3>1
  <2> QED
    BY <2>1, <2>2
<1> HIDE DEF first, Larger
<1>10. ASSUME NEW i \in 1..n, sum[i - 1] <= pos, pos < sum[i]
       PROVE  i = first
  <2>1. ~(i < first)
    <3> SUFFICES ASSUME i < first PROVE FALSE
      OBVIOUS
    <3>1. sum[i] <= sum[first - 1]
      BY <1>1, <1>2, <1>8
    <3> QED
      BY <1>1, <1>4, <1>8, <1>9, <1>10, <3>1
  <2>2. ~(first < i)
    <3> SUFFICES ASSUME first < i PROVE FALSE
      OBVIOUS
    <3>1. sum[first] <= sum[i - 1]
      BY <1>1, <1>2, <1>8
    <3> QED
      BY <1>1, <1>4, <1>8, <1>10, <3>1
  <2> QED
    BY <1>1, <1>8, <2>1, <2>2
<1>11. \A i \in 1..n : i = first <=> sum[i - 1] <= pos /\ pos < sum[i]
  BY <1>8, <1>9, <1>10
<1> QED
  BY <1>3, <1>5, <1>8, <1>11 DEF n, sum, pos

-----------------------------------------------------------------------------
(* Division.                                                               *)

LEMMA DivideByPositive ==
  ASSUME NEW n \in Nat, NEW t \in Nat \ {0}
  PROVE  /\ n \div t \in Nat /\ n % t \in 0..(t - 1)
         /\ n = t * (n \div t) + (n % t)
<1>1. n \div t \in Nat
  OBVIOUS
<1>2. n % t \in 0..(t - 1)
  OBVIOUS
<1>3. n = t * (n \div t) + (n % t)
  OBVIOUS
<1> QED
  BY <1>1, <1>2, <1>3

LEMMA FartherQuotient ==
  ASSUME NEW t \in Nat \ {0}, NEW a \in Nat, NEW b \in Nat, a < b
  PROVE  t * a + t <= t * b
<1>1. PICK d \in Nat : b = a + 1 + d
  <2>1. b - a - 1 \in Nat /\ b = a + 1 + (b - a - 1)
    OBVIOUS
  <2> QED
    BY <2>1
<1>2. t * b = t * a + t + t * d
  BY <1>1
<1>3. t * d \in Nat /\ t * a \in Nat
  OBVIOUS
<1> QED
  BY <1>2, <1>3

LEMMA DivideIsUnique ==
  ASSUME NEW n \in Nat, NEW t \in Nat \ {0}, NEW q \in Nat, NEW r \in 0..(t - 1),
         n = t * q + r
  PROVE  n \div t = q /\ n % t = r
<1> DEFINE a == n \div t
           b == n % t
<1>1. a \in Nat /\ b \in 0..(t - 1) /\ n = t * a + b
  BY DivideByPositive
<1> HIDE DEF a, b
<1>2. t * a + b = t * q + r /\ t * a \in Nat /\ t * q \in Nat
  BY <1>1
<1>3. ~(a < q)
  BY <1>1, <1>2, FartherQuotient
<1>4. ~(q < a)
  BY <1>1, <1>2, FartherQuotient
<1>5. a = q
  BY <1>1, <1>3, <1>4
<1>6. b = r
  BY <1>1, <1>2, <1>5
<1> QED
  BY <1>5, <1>6 DEF a, b

-----------------------------------------------------------------------------
(* The share of a backend after n choices, to the request.                 *)

Part(rule, pos, i) ==
    LET before == Cumulative(rule)[i - 1]
        w == Weight(rule, i)
    IN IF pos <= before THEN 0 ELSE IF pos >= before + w THEN w ELSE pos - before

Share(rule, n, i) ==
    (n \div Total(rule)) * Weight(rule, i) + Part(rule, n % Total(rule), i)

\* What the lemmas on shares need to know of a backend.
LEMMA PlaceOfBackend ==
  ASSUME NEW rule \in RuleType, NEW i \in 1..Len(rule.weights)
  PROVE  /\ Total(rule) \in Nat \ {0}
         /\ Weight(rule, i) \in Nat \ {0}
         /\ Cumulative(rule)[i - 1] \in Nat
         /\ Cumulative(rule)[i] = Cumulative(rule)[i - 1] + Weight(rule, i)
         /\ Cumulative(rule)[i] <= Total(rule)
<1>1. /\ Len(rule.weights) \in Nat
      /\ \A j \in 0..Len(rule.weights) : Cumulative(rule)[j] \in Nat
      /\ Cumulative(rule)[i] = Cumulative(rule)[i - 1] + Weight(rule, i)
  BY CumulativeSums
<1>2. Cumulative(rule)[i] <= Total(rule)
  BY <1>1, SumsGrow DEF Total
<1>3. Weight(rule, i) \in Nat \ {0}
  BY WeightIsPositive
<1>4. Cumulative(rule)[i - 1] \in Nat /\ Total(rule) \in Nat
  BY <1>1 DEF Total
<1> QED
  BY <1>1, <1>2, <1>3, <1>4

\* A choice adds one to the share of the backend whose turn it is.
LEMMA ShareGrows ==
  ASSUME NEW rule \in RuleType, NEW i \in 1..Len(rule.weights), NEW n \in Nat
  PROVE  Share(rule, n + 1, i) =
           Share(rule, n, i) +
             (IF /\ Cumulative(rule)[i - 1] <= n % Total(rule)
                 /\ n % Total(rule) < Cumulative(rule)[i]
              THEN 1 ELSE 0)
<1> DEFINE t == Total(rule)
           w == Weight(rule, i)
           before == Cumulative(rule)[i - 1]
           q == n \div t
           r == n % t
           one == IF before <= r /\ r < Cumulative(rule)[i] THEN 1 ELSE 0
<1>1. /\ t \in Nat \ {0} /\ w \in Nat \ {0} /\ before \in Nat
      /\ Cumulative(rule)[i] = before + w
      /\ before + w <= t
  BY PlaceOfBackend
<1>2. q \in Nat /\ r \in 0..(t - 1) /\ n = t * q + r
  <2>1. t \in Nat \ {0}
    BY <1>1
  <2> HIDE DEF t
  <2> QED
    BY <2>1, DivideByPositive
<1>3. /\ Share(rule, n, i) = q * w + Part(rule, r, i)
      /\ Share(rule, n + 1, i) =
           ((n + 1) \div t) * w + Part(rule, (n + 1) % t, i)
  BY DEF Share
<1>4. \A pos : Part(rule, pos, i) =
        IF pos <= before THEN 0 ELSE IF pos >= before + w THEN w ELSE pos - before
  BY DEF Part
<1> HIDE DEF t, w, before, q, r
<1>5. one = IF before <= r /\ r < before + w THEN 1 ELSE 0
  BY <1>1
<1> HIDE DEF one
<1>6. q * w \in Nat /\ Part(rule, r, i) \in Nat /\ one \in Nat /\ n + 1 \in Nat
  BY <1>1, <1>2, <1>4, <1>5
<1>7. CASE r + 1 < t
  <2>1. n + 1 = t * q + (r + 1) /\ r + 1 \in 0..(t - 1)
    BY <1>1, <1>2, <1>7
  <2>2. (n + 1) \div t = q /\ (n + 1) % t = r + 1
    BY <1>1, <1>2, <1>6, <2>1, DivideIsUnique
  <2>3. Part(rule, r + 1, i) = Part(rule, r, i) + one
    BY <1>1, <1>2, <1>4, <1>5
  <2>4. Share(rule, n + 1, i) = Share(rule, n, i) + one
    BY <1>3, <1>6, <2>2, <2>3
  <2> QED
    BY <2>4 DEF one, t, before, r
<1>8. CASE r + 1 = t
  <2>1. n + 1 = t * (q + 1) + 0 /\ q + 1 \in Nat /\ 0 \in 0..(t - 1)
    BY <1>1, <1>2, <1>8
  <2>2. (n + 1) \div t = q + 1 /\ (n + 1) % t = 0
    BY <1>1, <1>6, <2>1, DivideIsUnique
  <2>3. (q + 1) * w = q * w + w
    BY <1>1, <1>2
  <2>4. Part(rule, 0, i) = 0
    BY <1>1, <1>4
  <2>5. Part(rule, r, i) + one = w
    BY <1>1, <1>2, <1>4, <1>5, <1>8
  <2>6. Share(rule, n + 1, i) = q * w + w
    <3>1. Share(rule, n + 1, i) = (q + 1) * w + 0
      BY <1>3, <2>2, <2>4
    <3> QED
      BY <1>1, <1>6, <2>3, <3>1
  <2>7. Share(rule, n + 1, i) = Share(rule, n, i) + one
    BY <1>1, <1>3, <1>6, <2>5, <2>6
  <2> QED
    BY <2>7 DEF one, t, before, r
<1> QED
  BY <1>1, <1>2, <1>7, <1>8

\* A share is that of the whole cycles, and at most one cycle more.
LEMMA ShareIsFair ==
  ASSUME NEW rule \in RuleType, NEW i \in 1..Len(rule.weights), NEW n \in Nat
  PROVE  LET cycles == n \div Total(rule)
             w == Weight(rule, i)
         IN Share(rule, n, i) \in (cycles * w)..((cycles + 1) * w)
<1> DEFINE t == Total(rule)
           w == Weight(rule, i)
           q == n \div t
<1>1. /\ t \in Nat \ {0} /\ w \in Nat \ {0} /\ Cumulative(rule)[i - 1] \in Nat
  BY PlaceOfBackend
<1>2. q \in Nat /\ n % t \in Nat
  <2>1. t \in Nat \ {0}
    BY <1>1
  <2> HIDE DEF t
  <2>2. q \in Nat /\ n % t \in 0..(t - 1)
    BY <2>1, DivideByPositive
  <2> QED
    BY <2>1, <2>2
<1>3. Part(rule, n % t, i) \in 0..w
  BY <1>1, <1>2 DEF Part
<1>4. Share(rule, n, i) = q * w + Part(rule, n % t, i)
  BY DEF Share
<1> HIDE DEF t, w, q
<1>5. q * w \in Nat /\ (q + 1) * w = q * w + w
  BY <1>1, <1>2
<1>6. Share(rule, n, i) \in (q * w)..((q + 1) * w)
  BY <1>1, <1>3, <1>4, <1>5
<1> QED
  BY <1>6 DEF t, w, q

\* No share is due before the first choice.
LEMMA ShareStarts ==
  ASSUME NEW rule \in RuleType, NEW i \in 1..Len(rule.weights)
  PROVE  Share(rule, 0, i) = 0
<1>1. /\ Total(rule) \in Nat \ {0} /\ Weight(rule, i) \in Nat
      /\ Cumulative(rule)[i - 1] \in Nat
  BY PlaceOfBackend
<1>2. 0 \div Total(rule) = 0 /\ 0 % Total(rule) = 0
  BY <1>1
<1> QED
  BY <1>1, <1>2 DEF Share, Part

-----------------------------------------------------------------------------
(* Types.                                                                  *)

\* leastConns finds a backend with the fewest connections, the first of them.
LEMMA IdlestIsThere ==
  ASSUME NEW c \in Seq(Int), Len(c) > 0
  PROVE  /\ Idlest(c) \in DOMAIN c
         /\ \A j \in DOMAIN c : c[Idlest(c)] <= c[j]
<1> DEFINE n == Len(c)
           AtLeast(i, k) == \A j \in 1..k : c[i] <= c[j]
           S == {k \in 0..n : k = 0 \/ \E i \in 1..k : AtLeast(i, k)}
           Fewest == {i \in 1..n : AtLeast(i, n)}
<1>1. n \in Nat \ {0} /\ DOMAIN c = 1..n /\ \A i \in 1..n : c[i] \in Int
  OBVIOUS
<1>2. Idlest(c) = Least(Fewest)
  BY <1>1 DEF Idlest
<1> HIDE DEF n
<1>3. 0 \in S
  BY <1>1
<1>4. ASSUME NEW k \in 1..n, k - 1 \in S PROVE k \in S
  <2>1. CASE k = 1
    BY <1>1, <2>1
  <2>2. CASE k # 1
    <3>1. PICK i \in 1..(k - 1) : AtLeast(i, k - 1)
      BY <1>4, <2>2
    <3>2. CASE c[i] <= c[k]
      <4>1. AtLeast(i, k)
        BY <3>1, <3>2
      <4> QED
        BY <4>1
    <3>3. CASE ~(c[i] <= c[k])
      <4>1. AtLeast(k, k)
        BY <1>1, <3>1, <3>3
      <4> QED
        BY <4>1
    <3> QED
      BY <3>2, <3>3
  <2> QED
    BY <2>1, <2>2
<1>5. 0..n \subseteq S
  <2> HIDE DEF S
  <2> QED
    BY <1>1, <1>3, <1>4, Induction
<1>6. Fewest # {} /\ Fewest \in SUBSET (0..n)
  <2>1. n \in S
    <3> HIDE DEF S
    <3> QED
      BY <1>1, <1>5
  <2>2. PICK i \in 1..n : AtLeast(i, n)
    BY <1>1, <2>1
  <2>3. i \in Fewest /\ 1..n \subseteq 0..n
    BY <1>1, <2>2
  <2> QED
    BY <2>3
<1>7. Least(Fewest) \in Fewest
  <2> HIDE DEF Fewest
  <2> QED
    BY <1>1, <1>6, LeastExists
<1>8. \A i \in Fewest : i \in 1..n /\ \A j \in 1..n : c[i] <= c[j]
  OBVIOUS
<1> HIDE DEF Fewest
<1> QED
  BY <1>1, <1>2, <1>7, <1>8

LEMMA NewRouteType ==
  ASSUME NEW rule \in Rules
  PROVE  LET new == NewRoute(rule)
             n == Len(rule.weights)
         IN /\ new \in Route
            /\ n \in Nat /\ Len(new.conns) = n /\ Len(new.picks) = n
            /\ \A i \in 1..n : new.conns[i] = 0 /\ new.picks[i] = 0
<1> DEFINE n == Len(rule.weights)
           zeros == [i \in 1..n |-> 0]
<1>1. n \in Nat
  BY RulesAssumption DEF RuleType
<1>2. zeros \in Seq(Nat) /\ zeros \in Seq(Int) /\ Len(zeros) = n
  <2> HIDE DEF n
  <2>1. zeros \in [1..n -> Nat] /\ zeros \in [1..n -> Int]
    OBVIOUS
  <2> QED
    BY <1>1, <2>1, SeqDef
<1>3. NewRoute(rule) = [rule |-> rule, rr |-> 0, conns |-> zeros, picks |-> zeros]
  BY DEF NewRoute
<1> QED
  BY <1>1, <1>2, <1>3 DEF Route

\* What an action that counts does to the routes.
LEMMA CountRoute ==
  ASSUME TypeOK, NEW r \in Requests, at[r].backend # 0, NEW d \in Int, Count(r, d)
  PROVE  LET g == at[r].route
             i == at[r].backend
         IN /\ g \in DOMAIN built /\ i \in DOMAIN built[g].conns
            /\ built' \in Seq(Route) /\ Len(built') = Len(built)
            /\ \A h \in DOMAIN built \ {g} : built'[h] = built[h]
            /\ built'[g].rule = built[g].rule /\ built'[g].rr = built[g].rr
            /\ built'[g].picks = built[g].picks
            /\ built'[g].conns = [built[g].conns EXCEPT ![i] = @ + d]
            /\ Len(built'[g].conns) = Len(built[g].conns)
<1> DEFINE g == at[r].route
           i == at[r].backend
<1>1. /\ g \in DOMAIN built /\ i \in DOMAIN built[g].conns
      /\ built \in Seq(Route) /\ built[g] \in Route
  <2>1. /\ g \in DOMAIN built /\ built \in Seq(Route) /\ built[g] \in Route
        /\ i \in 1..Len(built[g].rule.weights)
        /\ Len(built[g].conns) = Len(built[g].rule.weights)
    BY DEF TypeOK
  <2>2. built[g].conns \in Seq(Int)
    BY <2>1 DEF Route
  <2> QED
    BY <2>1, <2>2
<1>2. built' = [built EXCEPT ![g].conns[i] = @ + d]
  BY DEF Count
<1> HIDE DEF g, i
<1>3. built'[g].conns = [built[g].conns EXCEPT ![i] = @ + d]
  BY <1>1, <1>2 DEF Route
<1>4. [built[g].conns EXCEPT ![i] = @ + d] \in Seq(Int)
  BY <1>1 DEF Route
<1>5. built'[g] \in Route
  BY <1>1, <1>2, <1>4 DEF Route
<1>6. built' \in Seq(Route) /\ Len(built') = Len(built)
  BY <1>1, <1>2, <1>5
<1>7. \A h \in DOMAIN built \ {g} : built'[h] = built[h]
  BY <1>1, <1>2
<1>8. /\ built'[g].rule = built[g].rule /\ built'[g].rr = built[g].rr
      /\ built'[g].picks = built[g].picks
  BY <1>1, <1>2 DEF Route
<1>9. Len(built'[g].conns) = Len(built[g].conns)
  <2>1. built[g].conns \in Seq(Int)
    BY <1>1 DEF Route
  <2> QED
    BY <1>3, <2>1
<1> QED
  BY <1>1, <1>3, <1>6, <1>7, <1>8, <1>9 DEF g, i

\* What a turn does to the routes.
LEMMA BalanceRoute ==
  ASSUME TypeOK, NEW r \in Requests, Balance(r)
  PROVE  LET g == Len(built)
             i == Turn(built[g])
         IN /\ g \in DOMAIN built /\ built[g].rule \in RuleType
            /\ i \in 1..Len(built[g].rule.weights)
            /\ at' = [at EXCEPT ![r] = [route |-> g, backend |-> i]]
            /\ built' \in Seq(Route) /\ Len(built') = Len(built)
            /\ \A h \in DOMAIN built \ {g} : built'[h] = built[h]
            /\ built'[g].rule = built[g].rule
            /\ built'[g].conns = built[g].conns
            /\ built'[g].rr = built[g].rr + 1
            /\ built'[g].picks = [built[g].picks EXCEPT ![i] = @ + 1]
            /\ Len(built'[g].picks) = Len(built[g].picks)
<1> DEFINE g == Len(built)
           rt == built[g]
           i == Turn(rt)
           rr == rt.rr + 1
<1>1. /\ g \in DOMAIN built /\ built \in Seq(Route) /\ rt \in Route
      /\ Len(rt.conns) = Len(rt.rule.weights)
      /\ Len(rt.picks) = Len(rt.rule.weights)
  BY DEF TypeOK
<1>2. /\ rt.rule \in RuleType /\ rt.rr \in Nat /\ rt.picks \in Seq(Nat)
      /\ rt.conns \in Seq(Int) /\ Len(rt.rule.weights) \in Nat
  BY <1>1, RulesAssumption DEF Route, RuleType
<1>3. Len(rt.rule.weights) > 1
  BY DEF Balance
<1>4. /\ built' = [built EXCEPT ![g].rr = @ + 1, ![g].picks[i] = @ + 1]
      /\ at' = [at EXCEPT ![r] = [route |-> g, backend |-> i]]
  BY DEF Balance
<1>5. i \in 1..Len(rt.rule.weights)
  BY <1>2, <1>3, TurnIsItsOwn
<1> HIDE DEF g, i
<1>6. /\ DOMAIN built' = DOMAIN built
      /\ \A h \in DOMAIN built \ {g} : built'[h] = built[h]
      /\ built'[g] = [rt EXCEPT !.rr = rr, !.picks[i] = @ + 1]
  BY <1>1, <1>2, <1>4, <1>5
<1>7. /\ built'[g].rule = rt.rule /\ built'[g].conns = rt.conns
      /\ built'[g].rr = rr /\ built'[g].picks = [rt.picks EXCEPT ![i] = @ + 1]
  BY <1>1, <1>6 DEF Route
<1>8. /\ [rt.picks EXCEPT ![i] = @ + 1] \in Seq(Nat)
      /\ Len([rt.picks EXCEPT ![i] = @ + 1]) = Len(rt.picks)
  BY <1>1, <1>2, <1>5
<1>9. built'[g] \in Route
  <2> DEFINE picks == [rt.picks EXCEPT ![i] = @ + 1]
  <2>1. picks \in Seq(Nat) /\ rr \in Nat
    BY <1>2, <1>8
  <2>2. built'[g] = [rule |-> rt.rule, rr |-> rr, conns |-> rt.conns, picks |-> picks]
    BY <1>1, <1>6 DEF Route
  <2> HIDE DEF picks, rr
  <2> QED
    BY <1>1, <1>2, <2>1, <2>2 DEF Route
<1>10. built' \in Seq(Route) /\ Len(built') = Len(built)
  <2>1. built' = [h \in DOMAIN built |-> built'[h]]
    BY <1>4
  <2>2. \A h \in DOMAIN built : built'[h] \in Route
    BY <1>1, <1>6, <1>9
  <2> QED
    BY <1>1, <2>1, <2>2
<1> QED
  BY <1>1, <1>2, <1>4, <1>5, <1>6, <1>7, <1>8, <1>10 DEF g, i

\* TypeOK, in parts.
RoutesOK(routes) ==
    /\ routes \in Seq(Route) \ {<<>>}
    /\ \A g \in DOMAIN routes :
         /\ Len(routes[g].conns) = Len(routes[g].rule.weights)
         /\ Len(routes[g].picks) = Len(routes[g].rule.weights)

PlaceOK(routes, place) ==
    /\ place \in [route : 0..Len(routes), backend : Nat]
    /\ place.backend # 0 =>
         /\ place.route # 0
         /\ place.backend \in 1..Len(routes[place.route].rule.weights)

Typed(routes, points, places, reads) ==
    /\ RoutesOK(routes)
    /\ points \in [Requests -> Waiting \cup Answered]
    /\ places = [r \in Requests |-> places[r]]
    /\ \A r \in Requests : PlaceOK(routes, places[r])
    /\ reads \in [Requests -> Seq(Int)]

LEMMA PlacesOK ==
  ASSUME NEW routes, NEW places
  PROVE  /\ places = [r \in Requests |-> places[r]]
         /\ \A r \in Requests : PlaceOK(routes, places[r])
         <=>
         /\ places \in [Requests -> [route : 0..Len(routes), backend : Nat]]
         /\ \A r \in Requests :
              places[r].backend # 0 =>
                /\ places[r].route # 0
                /\ places[r].backend \in 1..Len(routes[places[r].route].rule.weights)
BY DEF PlaceOK

LEMMA TypeParts ==
  /\ TypeOK <=> Typed(built, pc, at, seen)
  /\ TypeOK' <=> Typed(built', pc', at', seen')
<1>1. TypeOK <=> Typed(built, pc, at, seen)
  BY PlacesOK DEF TypeOK, Typed, RoutesOK
<1>2. TypeOK' <=> Typed(built', pc', at', seen')
  BY PlacesOK DEF TypeOK, Typed, RoutesOK
<1> QED
  BY <1>1, <1>2

\* A place stays one where every route keeps its rule.
LEMMA PlaceStays ==
  ASSUME NEW old, NEW new, RoutesOK(old), RoutesOK(new),
         DOMAIN old \subseteq DOMAIN new,
         \A h \in DOMAIN old : new[h].rule = old[h].rule,
         NEW place, PlaceOK(old, place)
  PROVE  PlaceOK(new, place)
<1>1. Len(old) \in Nat /\ Len(new) \in Nat /\ Len(old) <= Len(new)
  BY DEF RoutesOK
<1>2. place \in [route : 0..Len(new), backend : Nat]
  BY <1>1 DEF PlaceOK
<1>3. ASSUME place.backend # 0
      PROVE  place.route # 0 /\ new[place.route].rule = old[place.route].rule
  BY <1>1, <1>3 DEF PlaceOK, RoutesOK
<1> QED
  BY <1>2, <1>3 DEF PlaceOK

LEMMA RebuildRoute ==
  ASSUME TypeOK, Rebuild
  PROVE  \E rule \in Rules :
           /\ built' = Append(built, NewRoute(rule))
           /\ built' \in Seq(Route) \ {<<>>}
           /\ Len(built') = Len(built) + 1
           /\ \A h \in DOMAIN built : built'[h] = built[h]
           /\ built'[Len(built) + 1] = NewRoute(rule)
<1>1. PICK rule \in Rules : built' = Append(built, NewRoute(rule))
  BY DEF Rebuild
<1>2. NewRoute(rule) \in Route /\ built \in Seq(Route)
  BY NewRouteType DEF TypeOK
<1> HIDE DEF NewRoute
<1> QED
  BY <1>1, <1>2

\* A step that leaves the routes alone and may send a request to a backend.
LEMMA RequestTypes ==
  ASSUME TypeOK, UNCHANGED built, NEW r \in Requests,
         NEW point \in Waiting \cup Answered, Goto(r, point),
         NEW place, PlaceOK(built, place), at' = [at EXCEPT ![r] = place],
         seen' \in [Requests -> Seq(Int)]
  PROVE  TypeOK'
<1>1. Typed(built, pc, at, seen)
  BY TypeParts
<1>3. pc' \in [Requests -> Waiting \cup Answered]
  BY <1>1 DEF Goto, Typed
<1>4. /\ at' = [q \in Requests |-> at'[q]]
      /\ \A q \in Requests : at'[q] = IF q = r THEN place ELSE at[q]
  BY <1>1 DEF Typed
<1>5. \A q \in Requests : PlaceOK(built, at'[q])
  BY <1>1, <1>4 DEF Typed
<1>6. built' = built /\ RoutesOK(built')
  BY <1>1 DEF Typed
<1>7. Typed(built', pc', at', seen')
  BY <1>3, <1>4, <1>5, <1>6 DEF Typed
<1> QED
  BY <1>7, TypeParts

LEMMA CountTypes ==
  ASSUME TypeOK, NEW r \in Requests, at[r].backend # 0, NEW d \in Int, Count(r, d),
         NEW point \in Waiting \cup Answered, Goto(r, point), UNCHANGED <<at, seen>>
  PROVE  TypeOK'
<1> DEFINE g == at[r].route
<1>1. /\ built' \in Seq(Route) /\ Len(built') = Len(built) /\ g \in DOMAIN built
      /\ \A h \in DOMAIN built \ {g} : built'[h] = built[h]
      /\ built'[g].rule = built[g].rule /\ built'[g].picks = built[g].picks
      /\ Len(built'[g].conns) = Len(built[g].conns)
  BY CountRoute
<1> HIDE DEF g
<1>2. Typed(built, pc, at, seen)
  BY TypeParts
<1>3. /\ DOMAIN built' = DOMAIN built
      /\ \A h \in DOMAIN built : built'[h].rule = built[h].rule
      /\ RoutesOK(built')
  <2>1. RoutesOK(built)
    BY <1>2 DEF Typed
  <2>2. DOMAIN built' = DOMAIN built /\ built' # <<>>
    BY <1>1, <2>1 DEF RoutesOK
  <2>3. \A h \in DOMAIN built :
          /\ built'[h].rule = built[h].rule
          /\ Len(built'[h].conns) = Len(built[h].conns)
          /\ Len(built'[h].picks) = Len(built[h].picks)
    BY <1>1
  <2> QED
    BY <1>1, <2>1, <2>2, <2>3 DEF RoutesOK
<1>4. pc' \in [Requests -> Waiting \cup Answered]
  BY <1>2 DEF Goto, Typed
<1>5. \A q \in Requests : PlaceOK(built', at[q])
  BY <1>2, <1>3, PlaceStays DEF Typed
<1>6. Typed(built', pc', at', seen')
  BY <1>2, <1>3, <1>4, <1>5 DEF Typed
<1> QED
  BY <1>6, TypeParts

\* Where a request is says whether it has a backend.
ControlInv ==
    \A r \in Requests :
      /\ pc[r] = "idle" => at[r].backend = 0 /\ seen[r] = <<>>
      /\ pc[r] \in {"sent", "body", "switching"} => at[r].backend # 0
      /\ pc[r] = "switching" => r \in Upgrades

\* What the proofs need to know of a route that was built.
LEMMA BuiltRoute ==
  ASSUME TypeOK, NEW g \in DOMAIN built
  PROVE  /\ built[g] \in Route
         /\ built[g].rule \in RuleType
         /\ built[g].rr \in Nat
         /\ DOMAIN built[g].picks = 1..Len(built[g].rule.weights)
         /\ DOMAIN built[g].conns = 1..Len(built[g].rule.weights)
<1>1. built[g] \in Route
  BY DEF TypeOK
<1>2. /\ Len(built[g].conns) = Len(built[g].rule.weights)
      /\ Len(built[g].picks) = Len(built[g].rule.weights)
  BY DEF TypeOK
<1>3. /\ built[g].rule \in RuleType /\ built[g].rr \in Nat
      /\ built[g].conns \in Seq(Int) /\ built[g].picks \in Seq(Nat)
  BY <1>1, RulesAssumption DEF Route
<1> QED
  BY <1>1, <1>2, <1>3

LEMMA BuiltDomain ==
  ASSUME TypeOK
  PROVE  /\ Len(built) \in Nat \ {0} /\ DOMAIN built = 1..Len(built)
         /\ \A new \in Seq(Route) : Len(new) = Len(built) => DOMAIN new = DOMAIN built
BY DEF TypeOK

\* A request that compares counters has one more to read.
CompareInv ==
    \A r \in Requests :
      pc[r] = "comparing" =>
        at[r].route # 0 /\ Len(seen[r]) < Len(built[at[r].route].conns)

\* The counter to be read next is there, and after the last one of them a backend.
LEMMA CounterIsThere ==
  ASSUME TypeOK, CompareInv, NEW r \in Requests, pc[r] = "comparing"
  PROVE  /\ at[r].route \in DOMAIN built
         /\ NextCounter(r) \in Int
         /\ Append(seen[r], NextCounter(r)) \in Seq(Int)
         /\ Len(Append(seen[r], NextCounter(r))) = Len(seen[r]) + 1
         /\ Idlest(Append(seen[r], NextCounter(r))) \in 1..(Len(seen[r]) + 1)
<1> DEFINE g == at[r].route
           read == Append(seen[r], NextCounter(r))
<1>1. g # 0 /\ Len(seen[r]) < Len(built[g].conns)
  BY DEF CompareInv
<1>2. g \in DOMAIN built
  BY <1>1, BuiltDomain, TypeParts DEF Typed, PlaceOK
<1>3. built[g].conns \in Seq(Int)
  BY <1>2, BuiltRoute DEF Route
<1>4. seen[r] \in Seq(Int)
  BY TypeParts DEF Typed
<1>5. NextCounter(r) \in Int
  BY <1>1, <1>3, <1>4 DEF NextCounter
<1>6. read \in Seq(Int) /\ Len(read) = Len(seen[r]) + 1
  BY <1>4, <1>5
<1>7. Len(read) > 0
  BY <1>4, <1>6
<1> HIDE DEF read
<1>8. Idlest(read) \in DOMAIN read
  BY <1>6, <1>7, IdlestIsThere
<1> QED
  BY <1>2, <1>5, <1>6, <1>8 DEF read

LEMMA TypeStep ==
  ASSUME TypeOK, ControlInv, CompareInv, [Next]_vars
  PROVE  TypeOK'
<1>t. /\ RoutesOK(built) /\ pc \in [Requests -> Waiting \cup Answered]
      /\ at = [r \in Requests |-> at[r]] /\ \A r \in Requests : PlaceOK(built, at[r])
      /\ seen \in [Requests -> Seq(Int)]
  BY TypeParts DEF Typed
<1>1. CASE Rebuild
  <2>1. PICK rule \in Rules :
          /\ built' \in Seq(Route) \ {<<>>} /\ Len(built') = Len(built) + 1
          /\ \A h \in DOMAIN built : built'[h] = built[h]
          /\ built'[Len(built) + 1] = NewRoute(rule)
    BY <1>1, RebuildRoute
  <2>2. LET n == Len(NewRoute(rule).rule.weights)
        IN Len(NewRoute(rule).conns) = n /\ Len(NewRoute(rule).picks) = n
    BY NewRouteType DEF NewRoute
  <2>3. DOMAIN built' = DOMAIN built \cup {Len(built) + 1}
    BY <1>t, <2>1 DEF RoutesOK
  <2> HIDE DEF NewRoute
  <2>4. RoutesOK(built')
    BY <1>t, <2>1, <2>2, <2>3 DEF RoutesOK
  <2>5. \A q \in Requests : PlaceOK(built', at[q])
    BY <1>t, <2>1, <2>3, <2>4, PlaceStays
  <2>6. UNCHANGED <<pc, at, seen>>
    BY <1>1 DEF Rebuild
  <2> QED
    BY <1>t, <2>4, <2>5, <2>6, TypeParts DEF Typed
<1>2. ASSUME NEW r \in Requests, Balance(r)
      PROVE  TypeOK'
  <2> DEFINE g == Len(built)
             i == Turn(built[g])
             place == [route |-> g, backend |-> i]
  <2>1. /\ built' \in Seq(Route) /\ Len(built') = Len(built) /\ g \in DOMAIN built
        /\ \A h \in DOMAIN built \ {g} : built'[h] = built[h]
        /\ built'[g].rule = built[g].rule /\ built'[g].conns = built[g].conns
        /\ Len(built'[g].picks) = Len(built[g].picks)
        /\ i \in 1..Len(built[g].rule.weights)
        /\ at' = [at EXCEPT ![r] = place]
    BY <1>2, BalanceRoute
  <2> HIDE DEF i
  <2>2. PlaceOK(built, place)
    BY <1>t, <2>1 DEF PlaceOK, RoutesOK
  <2>3. /\ DOMAIN built' = DOMAIN built
        /\ \A h \in DOMAIN built : built'[h].rule = built[h].rule
    BY <1>t, <2>1 DEF RoutesOK
  <2>4. RoutesOK(built')
    BY <1>t, <2>1, <2>3 DEF RoutesOK
  <2> HIDE DEF g, place
  <2>5. \A q \in Requests : at'[q] = IF q = r THEN place ELSE at[q]
    BY <1>t, <2>1
  <2>6. \A q \in Requests : PlaceOK(built', at'[q])
    <3> TAKE q \in Requests
    <3>1. PlaceOK(built, at'[q])
      BY <1>t, <2>2, <2>5
    <3> QED
      BY <1>t, <2>3, <2>4, <3>1, PlaceStays
  <2>7. pc' \in [Requests -> Waiting \cup Answered]
    BY <1>2, <1>t DEF Balance, Goto, Waiting
  <2>8. at' = [q \in Requests |-> at'[q]]
    BY <1>t, <2>1
  <2>9. UNCHANGED seen
    BY <1>2 DEF Balance
  <2> QED
    BY <1>t, <2>4, <2>6, <2>7, <2>8, <2>9, TypeParts DEF Typed
<1>3. ASSUME NEW r \in Requests, Only(r)
      PROVE  TypeOK'
  <2> DEFINE g == Len(built)
             i == Len(built[g].rule.weights)
             place == [route |-> g, backend |-> i]
  <2>1. g \in Nat \ {0} /\ i \in Nat
    <3>1. g \in Nat \ {0} /\ built[g] \in Route
      BY <1>t DEF RoutesOK
    <3>2. built[g].rule \in RuleType
      BY <3>1, RulesAssumption DEF Route
    <3>3. built[g].rule.weights \in Seq(Nat)
      BY <3>2 DEF RuleType
    <3> HIDE DEF g
    <3> QED
      BY <3>1, <3>3
  <2>2. /\ Goto(r, "picked") /\ UNCHANGED built
        /\ at' = [at EXCEPT ![r] = place] /\ seen' \in [Requests -> Seq(Int)]
    BY <1>t, <1>3 DEF Only
  <2>3. "picked" \in Waiting \cup Answered
    BY DEF Waiting
  <2>4. PlaceOK(built, place)
    BY <2>1 DEF PlaceOK
  <2> HIDE DEF place
  <2> QED
    BY <2>2, <2>3, <2>4, RequestTypes
<1>4. ASSUME NEW r \in Requests,
             Blocked(r) \/ Rejected(r) \/ EmptyAnswer(r) \/ Finish(r)
      PROVE  TypeOK'
  <2>1. /\ UNCHANGED built /\ seen' \in [Requests -> Seq(Int)]
        /\ at' = [at EXCEPT ![r] = at[r]] /\ PlaceOK(built, at[r])
    BY <1>t, <1>4 DEF Blocked, Rejected, EmptyAnswer, Finish
  <2>2. \E point \in Waiting \cup Answered : Goto(r, point)
    BY <1>4 DEF Blocked, Rejected, EmptyAnswer, Finish, Answered
  <2> QED
    BY <2>1, <2>2, RequestTypes
<1>5. ASSUME NEW r \in Requests, Forward(r)
      PROVE  TypeOK'
  BY <1>5, CountTypes DEF Forward, Waiting
<1>6. ASSUME NEW r \in Requests, Respond(r) \/ SendFails(r) \/ SwitchFails(r)
      PROVE  TypeOK'
  <2>1. at[r].backend # 0 /\ -1 \in Int /\ Count(r, -1) /\ UNCHANGED <<at, seen>>
    BY <1>6 DEF Respond, SendFails, SwitchFails, ControlInv
  <2>2. \E point \in Waiting \cup Answered : Goto(r, point)
    BY <1>6 DEF Respond, SendFails, SwitchFails, Waiting, Answered
  <2> QED
    BY <2>1, <2>2, CountTypes
<1>7. CASE UNCHANGED vars
  BY <1>7 DEF vars, TypeOK
<1>8. ASSUME NEW r \in Requests, Compare(r)
      PROVE  TypeOK'
  <2> DEFINE place == [route |-> Len(built), backend |-> 0]
  <2>1. PlaceOK(built, place)
    BY BuiltDomain DEF PlaceOK
  <2>2. /\ Goto(r, "comparing") /\ UNCHANGED built
        /\ at' = [at EXCEPT ![r] = place] /\ seen' \in [Requests -> Seq(Int)]
    BY <1>t, <1>8 DEF Compare
  <2>3. "comparing" \in Waiting \cup Answered
    BY DEF Waiting
  <2> HIDE DEF place
  <2> QED
    BY <2>1, <2>2, <2>3, RequestTypes
<1>9. ASSUME NEW r \in Requests, ReadCounter(r)
      PROVE  TypeOK'
  <2>1. seen' = [seen EXCEPT ![r] = Append(seen[r], NextCounter(r))] /\ UNCHANGED <<built, pc, at>>
    BY <1>9 DEF ReadCounter
  <2>2. Append(seen[r], NextCounter(r)) \in Seq(Int)
    BY <1>9, CounterIsThere DEF ReadCounter
  <2>3. seen' \in [Requests -> Seq(Int)]
    BY <1>t, <2>1, <2>2
  <2> QED
    BY <1>t, <2>1, <2>3, TypeParts DEF Typed
<1>10. ASSUME NEW r \in Requests, ReadLast(r)
       PROVE  TypeOK'
  <2> DEFINE g == at[r].route
             i == Idlest(Append(seen[r], NextCounter(r)))
             place == [route |-> g, backend |-> i]
  <2>1. /\ pc[r] = "comparing" /\ Len(seen[r]) + 1 = Len(built[g].conns)
        /\ Goto(r, "picked") /\ UNCHANGED built
        /\ at' = [at EXCEPT ![r] = place] /\ seen' = [seen EXCEPT ![r] = <<>>]
    BY <1>10 DEF ReadLast
  <2>2. g \in DOMAIN built /\ i \in 1..Len(built[g].conns)
    BY <2>1, CounterIsThere
  <2> HIDE DEF i
  <2>3. PlaceOK(built, place)
    <3>1. Len(built[g].conns) = Len(built[g].rule.weights) /\ g \in 0..Len(built) /\ g # 0
      BY <1>t, <2>2 DEF RoutesOK
    <3>2. i \in 1..Len(built[g].rule.weights) /\ i \in Nat
      BY <2>2, <3>1
    <3> HIDE DEF g
    <3> QED
      BY <3>1, <3>2 DEF PlaceOK
  <2>4. seen' \in [Requests -> Seq(Int)] /\ "picked" \in Waiting \cup Answered
    BY <1>t, <2>1 DEF Waiting
  <2> HIDE DEF place
  <2> QED
    BY <2>1, <2>3, <2>4, RequestTypes
<1> QED
  BY <1>1, <1>2, <1>3, <1>4, <1>5, <1>6, <1>7, <1>8, <1>9, <1>10 DEF Next, Handle

LEMMA ControlStep ==
  ASSUME TypeOK, ControlInv, [Next]_vars
  PROVE  ControlInv'
<1>1. /\ pc \in [Requests -> Waiting \cup Answered]
      /\ at = [r \in Requests |-> at[r]]
      /\ seen \in [Requests -> Seq(Int)]
  BY TypeParts DEF Typed
\* What the steps of a request leave to be shown: the request itself.
<1>2. ASSUME NEW r \in Requests, NEW point, Goto(r, point), point # "idle",
             \A q \in Requests \ {r} : at'[q] = at[q] /\ seen'[q] = seen[q],
             point \in {"sent", "body", "switching"} => at'[r].backend # 0,
             point = "switching" => r \in Upgrades
      PROVE  ControlInv'
  <2>1. \A q \in Requests : pc'[q] = IF q = r THEN point ELSE pc[q]
    BY <1>1, <1>2 DEF Goto
  <2> QED
    BY <1>2, <2>1 DEF ControlInv
<1>3. ASSUME NEW r \in Requests,
             \/ Balance(r) \/ Only(r) \/ Compare(r) \/ ReadLast(r)
             \/ Blocked(r) \/ Rejected(r) \/ EmptyAnswer(r) \/ Finish(r)
             \/ SendFails(r) \/ SwitchFails(r)
      PROVE  ControlInv'
  <2>1. \A q \in Requests \ {r} : at'[q] = at[q] /\ seen'[q] = seen[q]
    BY <1>1, <1>3 DEF Balance, Only, Compare, ReadLast, Blocked, Rejected, EmptyAnswer,
                      Finish, SendFails, SwitchFails
  <2>2. \E point \in Answered \cup {"comparing", "picked"} : Goto(r, point)
    BY <1>3 DEF Balance, Only, Compare, ReadLast, Blocked, Rejected, EmptyAnswer,
                Finish, SendFails, SwitchFails, Answered
  <2>3. \A point \in Answered \cup {"comparing", "picked"} :
          point \notin {"idle", "sent", "body", "switching"}
    BY DEF Answered
  <2> QED
    BY <1>2, <2>1, <2>2, <2>3
<1>4. ASSUME NEW r \in Requests, Forward(r)
      PROVE  ControlInv'
  BY <1>2, <1>4 DEF Forward
<1>5. ASSUME NEW r \in Requests, Respond(r)
      PROVE  ControlInv'
  BY <1>2, <1>5 DEF Respond, ControlInv
<1>6. ASSUME NEW r \in Requests, ReadCounter(r)
      PROVE  ControlInv'
  <2>1. UNCHANGED <<pc, at>> /\ pc[r] # "idle"
    BY <1>6 DEF ReadCounter
  <2>2. \A q \in Requests \ {r} : seen'[q] = seen[q]
    BY <1>1, <1>6 DEF ReadCounter
  <2> QED
    BY <2>1, <2>2 DEF ControlInv
<1>7. CASE UNCHANGED vars \/ Rebuild
  BY <1>7 DEF vars, Rebuild, ControlInv
<1> QED
  BY <1>3, <1>4, <1>5, <1>6, <1>7 DEF Next, Handle

\* No step takes a route away or gives it other backends.
LEMMA RoutesStay ==
  ASSUME TypeOK, ControlInv, [Next]_vars, NEW h \in DOMAIN built
  PROVE  Len(built'[h].conns) = Len(built[h].conns)
<1>1. CASE Rebuild
  BY <1>1, RebuildRoute
<1>2. ASSUME NEW r \in Requests, Balance(r)
      PROVE  Len(built'[h].conns) = Len(built[h].conns)
  BY <1>2, BalanceRoute
<1>3. ASSUME NEW r \in Requests, NEW d \in Int, Count(r, d), at[r].backend # 0
      PROVE  Len(built'[h].conns) = Len(built[h].conns)
  BY <1>3, CountRoute
<1>4. ASSUME NEW r \in Requests,
             Forward(r) \/ Respond(r) \/ SendFails(r) \/ SwitchFails(r)
      PROVE  \E d \in Int : Count(r, d) /\ at[r].backend # 0
  <2>1. 1 \in Int /\ -1 \in Int
    OBVIOUS
  <2> QED
    BY <1>4, <2>1 DEF Forward, Respond, SendFails, SwitchFails, ControlInv
<1>5. ASSUME NEW r \in Requests,
             \/ Blocked(r) \/ Compare(r) \/ ReadCounter(r) \/ ReadLast(r)
             \/ Only(r) \/ Rejected(r) \/ EmptyAnswer(r) \/ Finish(r)
      PROVE  UNCHANGED built
  BY <1>5 DEF Blocked, Compare, ReadCounter, ReadLast, Only, Rejected, EmptyAnswer, Finish
<1> QED
  BY <1>1, <1>2, <1>3, <1>4, <1>5 DEF Next, Handle, vars

LEMMA CompareStep ==
  ASSUME TypeOK, ControlInv, CompareInv, [Next]_vars
  PROVE  CompareInv'
<1>1. /\ pc \in [Requests -> Waiting \cup Answered]
      /\ at = [r \in Requests |-> at[r]] /\ seen \in [Requests -> Seq(Int)]
  BY TypeParts DEF Typed
<1>2. ASSUME NEW q \in Requests, pc[q] = "comparing"
      PROVE  /\ at[q].route # 0
             /\ Len(seen[q]) < Len(built'[at[q].route].conns)
             /\ Len(built'[at[q].route].conns) = Len(built[at[q].route].conns)
  <2>1. at[q].route \in DOMAIN built
    BY <1>2, CounterIsThere
  <2> QED
    BY <1>2, <2>1, RoutesStay DEF CompareInv
\* A request that is comparing after the step was so before and reads no counter.
<1>3. ASSUME \A q \in Requests :
               pc'[q] = "comparing" =>
                 pc[q] = "comparing" /\ at'[q] = at[q] /\ seen'[q] = seen[q]
      PROVE  CompareInv'
  BY <1>2, <1>3 DEF CompareInv
<1>4. ASSUME NEW r \in Requests, Compare(r)
      PROVE  CompareInv'
  <2> DEFINE g == Len(built)
  <2>1. g # 0 /\ g \in DOMAIN built
    BY BuiltDomain
  <2>2. /\ Goto(r, "comparing") /\ UNCHANGED <<built, seen>>
        /\ Len(built[g].rule.weights) > 1
        /\ at' = [at EXCEPT ![r] = [route |-> g, backend |-> 0]]
    BY <1>4 DEF Compare
  <2>3. Len(built[g].conns) = Len(built[g].rule.weights)
    BY <2>1, TypeParts DEF Typed, RoutesOK
  <2>4. seen[r] = <<>>
    BY <1>4 DEF Compare, ControlInv
  <2> HIDE DEF g
  <2> QED
    BY <1>1, <1>2, <2>1, <2>2, <2>3, <2>4 DEF Goto, CompareInv
<1>5. ASSUME NEW r \in Requests, ReadCounter(r)
      PROVE  CompareInv'
  <2>1. /\ pc[r] = "comparing" /\ UNCHANGED <<built, pc, at>>
        /\ Len(seen[r]) + 1 < Len(built[at[r].route].conns)
        /\ seen' = [seen EXCEPT ![r] = Append(seen[r], NextCounter(r))]
    BY <1>5 DEF ReadCounter
  <2>2. Len(Append(seen[r], NextCounter(r))) = Len(seen[r]) + 1
    BY <2>1, CounterIsThere
  <2> QED
    BY <1>1, <1>2, <2>1, <2>2 DEF CompareInv
<1>6. ASSUME NEW r \in Requests, NEW point \in (Waiting \cup Answered) \ {"comparing"},
             Goto(r, point),
             \A q \in Requests \ {r} : at'[q] = at[q] /\ seen'[q] = seen[q]
      PROVE  CompareInv'
  <2>1. \A q \in Requests : pc'[q] = IF q = r THEN point ELSE pc[q]
    BY <1>1, <1>6 DEF Goto
  <2> QED
    BY <1>3, <1>6, <2>1
<1>7. ASSUME NEW r \in Requests,
             \/ Blocked(r) \/ Balance(r) \/ ReadLast(r) \/ Only(r) \/ Rejected(r)
             \/ EmptyAnswer(r) \/ Forward(r) \/ Respond(r) \/ SendFails(r)
             \/ Finish(r) \/ SwitchFails(r)
      PROVE  CompareInv'
  <2>1. \A q \in Requests \ {r} : at'[q] = at[q] /\ seen'[q] = seen[q]
    BY <1>1, <1>7 DEF Blocked, Balance, ReadLast, Only, Rejected, EmptyAnswer, Forward,
                      Respond, SendFails, Finish, SwitchFails
  <2>2. \E point \in (Waiting \cup Answered) \ {"comparing"} : Goto(r, point)
    BY <1>7 DEF Blocked, Balance, ReadLast, Only, Rejected, EmptyAnswer, Forward,
                Respond, SendFails, Finish, SwitchFails, Waiting, Answered
  <2> QED
    BY <1>6, <2>1, <2>2
<1>8. CASE UNCHANGED vars \/ Rebuild
  BY <1>3, <1>8 DEF vars, Rebuild
<1> QED
  BY <1>4, <1>5, <1>7, <1>8 DEF Next, Handle

\* What every step keeps, of the types and of what the requests are doing.
Base == TypeOK /\ ControlInv /\ CompareInv

LEMMA BaseStep ==
  ASSUME Base, [Next]_vars
  PROVE  Base'
BY TypeStep, ControlStep, CompareStep DEF Base

LEMMA InitBase ==
  ASSUME Init
  PROVE  Base
<1>1. PICK rule \in Rules : built = <<NewRoute(rule)>>
  BY DEF Init
<1>2. RoutesOK(built)
  <2>1. LET n == Len(NewRoute(rule).rule.weights)
        IN Len(NewRoute(rule).conns) = n /\ Len(NewRoute(rule).picks) = n
    BY NewRouteType DEF NewRoute
  <2>2. NewRoute(rule) \in Route
    BY NewRouteType
  <2> HIDE DEF NewRoute
  <2> QED
    BY <1>1, <2>1, <2>2 DEF RoutesOK
<1>3. \A r \in Requests : at[r] = [route |-> 0, backend |-> 0]
  BY DEF Init
<1>4. PlaceOK(built, [route |-> 0, backend |-> 0])
  <2>1. Len(built) \in Nat
    BY <1>2 DEF RoutesOK
  <2> QED
    BY <2>1 DEF PlaceOK
<1>5. pc \in [Requests -> Waiting \cup Answered]
  BY DEF Init, Waiting
<1>6. Typed(built, pc, at, seen)
  BY <1>2, <1>3, <1>4, <1>5 DEF Typed, Init
<1>7. ControlInv /\ CompareInv
  BY <1>3 DEF Init, ControlInv, CompareInv
<1> QED
  BY <1>6, <1>7, TypeParts DEF Base

\* In every state the routes, the points and the places of the requests are of
\* their types: a request that was sent to a backend keeps a route that was
\* built and a backend of that route, whatever Rebuild does meanwhile.
THEOREM TypeCorrect == Spec => []TypeOK
<1>1. Init => Base
  BY InitBase
<1>2. Base /\ [Next]_vars => Base'
  BY BaseStep
<1>3. Base => TypeOK
  BY DEF Base
<1> QED
  BY <1>1, <1>2, <1>3, PTL DEF Spec

-----------------------------------------------------------------------------
(* The shares of the backends.                                             *)

\* SharesKept is not inductive: what it allows a backend depends on the counter
\* and not on the position in the cycle. Each backend has its exact share.
ShareInv ==
    \A g \in DOMAIN built :
      built[g].rule.strategy # "least-connections" =>
        \A i \in DOMAIN built[g].picks :
          built[g].picks[i] = Share(built[g].rule, built[g].rr, i)

LEMMA NewRouteShares ==
  ASSUME NEW rule \in Rules, NEW i \in DOMAIN NewRoute(rule).picks
  PROVE  NewRoute(rule).picks[i] = Share(NewRoute(rule).rule, NewRoute(rule).rr, i)
<1>1. rule \in RuleType /\ i \in 1..Len(rule.weights)
  BY RulesAssumption DEF NewRoute
<1>2. Share(rule, 0, i) = 0
  BY <1>1, ShareStarts
<1> QED
  BY <1>1, <1>2 DEF NewRoute

LEMMA ShareStep ==
  ASSUME TypeOK, ControlInv, ShareInv, [Next]_vars
  PROVE  ShareInv'
<1>1. CASE Rebuild
  <2>1. PICK rule \in Rules :
          /\ built' \in Seq(Route) \ {<<>>} /\ Len(built') = Len(built) + 1
          /\ \A h \in DOMAIN built : built'[h] = built[h]
          /\ built'[Len(built) + 1] = NewRoute(rule)
    BY <1>1, RebuildRoute
  <2>2. \A h \in DOMAIN built' : h \in DOMAIN built \/ h = Len(built) + 1
    BY <2>1 DEF TypeOK
  <2>3. \A i \in DOMAIN NewRoute(rule).picks :
          NewRoute(rule).picks[i] = Share(NewRoute(rule).rule, NewRoute(rule).rr, i)
    BY NewRouteShares
  <2> HIDE DEF NewRoute
  <2> QED
    BY <2>1, <2>2, <2>3 DEF ShareInv
<1>2. ASSUME NEW r \in Requests, Balance(r)
      PROVE  ShareInv'
  <2> DEFINE g == Len(built)
             rt == built[g]
             i == Turn(rt)
             new == built'[g]
  <2>1. /\ g \in DOMAIN built /\ rt.rule \in RuleType
        /\ i \in 1..Len(rt.rule.weights)
        /\ built' \in Seq(Route) /\ Len(built') = Len(built)
        /\ \A h \in DOMAIN built \ {g} : built'[h] = built[h]
        /\ new.rule = rt.rule
        /\ new.rr = rt.rr + 1
        /\ new.picks = [rt.picks EXCEPT ![i] = @ + 1]
    BY <1>2, BalanceRoute
  <2>2. /\ rt.rr \in Nat /\ DOMAIN rt.picks = 1..Len(rt.rule.weights)
        /\ rt.picks \in Seq(Nat)
    <3>1. rt \in Route
      BY <2>1, BuiltRoute
    <3> QED
      BY <2>1, <3>1, BuiltRoute DEF Route
  <2>3. ASSUME rt.rule.strategy # "least-connections",
               NEW k \in DOMAIN new.picks
        PROVE  new.picks[k] = Share(new.rule, new.rr, k)
    <3>1. k \in 1..Len(rt.rule.weights) /\ Len(rt.rule.weights) > 0
      BY <2>1, <2>2
    <3>3. k = i <=> /\ Cumulative(rt.rule)[k - 1] <= rt.rr % Total(rt.rule)
                    /\ rt.rr % Total(rt.rule) < Cumulative(rt.rule)[k]
      BY <2>1, <2>2, <3>1, TurnIsItsOwn
    <3>4. Share(rt.rule, rt.rr + 1, k) =
            Share(rt.rule, rt.rr, k) + (IF k = i THEN 1 ELSE 0)
      BY <2>1, <2>2, <3>1, <3>3, ShareGrows
    <3>5. rt.picks[k] = Share(rt.rule, rt.rr, k) /\ rt.picks[k] \in Nat
      <4>1. k \in DOMAIN rt.picks
        BY <2>2, <3>1
      <4>2. rt.picks[k] \in Nat
        BY <2>2, <4>1
      <4>3. rt.picks[k] = Share(rt.rule, rt.rr, k)
        BY <2>1, <2>3, <4>1 DEF ShareInv
      <4> QED
        BY <4>2, <4>3
    <3>6. new.picks[k] = rt.picks[k] + (IF k = i THEN 1 ELSE 0)
      BY <2>1, <2>2, <3>1, <3>5
    <3> QED
      BY <2>1, <2>3, <3>4, <3>5, <3>6
  <2>4. DOMAIN built' = DOMAIN built
    BY <2>1, BuiltDomain
  <2> HIDE DEF g, rt, new, i
  <2>5. ASSUME NEW h \in DOMAIN built', built'[h].rule.strategy # "least-connections",
               NEW k \in DOMAIN built'[h].picks
        PROVE  built'[h].picks[k] = Share(built'[h].rule, built'[h].rr, k)
    <3>1. CASE h = g
      <4>1. built'[h] = new /\ new.rule = rt.rule
        BY <2>1, <3>1 DEF new
      <4> QED
        BY <2>3, <2>5, <4>1
    <3>2. CASE h # g
      <4>1. h \in DOMAIN built /\ built'[h] = built[h]
        BY <2>1, <2>4, <3>2
      <4> QED
        BY <2>5, <4>1 DEF ShareInv
    <3> QED
      BY <3>1, <3>2
  <2> QED
    BY <2>5 DEF ShareInv
<1>3. ASSUME NEW r \in Requests, NEW d \in Int, Count(r, d), at[r].backend # 0
      PROVE  ShareInv'
  <2> DEFINE g == at[r].route
  <2>1. /\ built' \in Seq(Route) /\ Len(built') = Len(built) /\ g \in DOMAIN built
        /\ \A h \in DOMAIN built \ {g} : built'[h] = built[h]
        /\ built'[g].rule = built[g].rule /\ built'[g].rr = built[g].rr
        /\ built'[g].picks = built[g].picks
    BY <1>3, CountRoute
  <2> HIDE DEF g
  <2>2. /\ DOMAIN built' = DOMAIN built
        /\ \A h \in DOMAIN built : /\ built'[h].rule = built[h].rule
                                   /\ built'[h].rr = built[h].rr
                                   /\ built'[h].picks = built[h].picks
    BY <2>1, BuiltDomain
  <2> QED
    BY <2>2 DEF ShareInv
<1>4. CASE UNCHANGED built
  BY <1>4 DEF ShareInv
<1>5. ASSUME NEW r \in Requests, Forward(r)
      PROVE  ShareInv'
  BY <1>3, <1>5 DEF Forward
<1>6. ASSUME NEW r \in Requests, Respond(r) \/ SendFails(r) \/ SwitchFails(r)
      PROVE  ShareInv'
  <2>1. at[r].backend # 0 /\ -1 \in Int /\ Count(r, -1)
    BY <1>6 DEF Respond, SendFails, SwitchFails, ControlInv
  <2> QED
    BY <1>3, <2>1
<1>7. ASSUME NEW r \in Requests,
             \/ Blocked(r) \/ Compare(r) \/ ReadCounter(r) \/ ReadLast(r)
             \/ Only(r) \/ Rejected(r) \/ EmptyAnswer(r) \/ Finish(r)
      PROVE  ShareInv'
  BY <1>4, <1>7 DEF Blocked, Compare, ReadCounter, ReadLast, Only, Rejected, EmptyAnswer,
                    Finish
<1> QED
  BY <1>1, <1>2, <1>4, <1>5, <1>6, <1>7 DEF Next, Handle, vars

LEMMA InitShares ==
  ASSUME Init
  PROVE  ShareInv
<1>1. PICK rule \in Rules : built = <<NewRoute(rule)>>
  BY DEF Init
<1>2. \A i \in DOMAIN NewRoute(rule).picks :
        NewRoute(rule).picks[i] = Share(NewRoute(rule).rule, NewRoute(rule).rr, i)
  BY NewRouteShares
<1> HIDE DEF NewRoute
<1> QED
  BY <1>1, <1>2 DEF ShareInv

LEMMA SharesSuffice ==
  ASSUME TypeOK, ShareInv
  PROVE  SharesKept
<1> SUFFICES ASSUME NEW g \in 1..Len(built),
                    built[g].rule.strategy # "least-connections",
                    NEW i \in DOMAIN built[g].picks
             PROVE  LET cycles == built[g].rr \div Total(built[g].rule)
                        w == Weight(built[g].rule, i)
                    IN built[g].picks[i] \in (cycles * w)..((cycles + 1) * w)
  BY DEF SharesKept
<1>1. g \in DOMAIN built
  BY DEF TypeOK
<1>2. /\ built[g].rule \in RuleType /\ built[g].rr \in Nat
      /\ i \in 1..Len(built[g].rule.weights)
  BY <1>1, BuiltRoute
<1>3. built[g].picks[i] = Share(built[g].rule, built[g].rr, i)
  BY <1>1 DEF ShareInv
<1> QED
  BY <1>2, <1>3, ShareIsFair

\* However requests and rebuilds interleave, a backend of a route that takes
\* turns was chosen as often as its weight says in each whole cycle of choices,
\* and in the cycle that has begun at most as often (roundRobin, weighted): the
\* counter that next raises atomically is all that a choice depends on.
THEOREM SharesAreKept == Spec => []SharesKept
<1>1. Init => Base /\ ShareInv
  BY InitBase, InitShares
<1>2. Base /\ ShareInv /\ [Next]_vars => Base' /\ ShareInv'
  BY BaseStep, ShareStep DEF Base
<1>3. Base /\ ShareInv => SharesKept
  BY SharesSuffice DEF Base
<1> QED
  BY <1>1, <1>2, <1>3, PTL DEF Spec

-----------------------------------------------------------------------------
(* The counters of connections.                                            *)

Sent(g, i) == Using(g, i, {"sent"})

Twice(g, i) == Using(g, i, {"badGateway"}) \cap Upgrades

\* A counter agrees with the requests that it counts, sent, and with those it
\* may have been lowered for once too often, twice. Both are finite at any time.
Agrees(count, sent, twice) ==
    /\ IsFiniteSet(sent) /\ IsFiniteSet(twice)
    /\ count \in (Cardinality(sent) - Cardinality(twice))..Cardinality(sent)

CountInv ==
    \A g \in DOMAIN built : \A i \in DOMAIN built[g].conns :
      Agrees(built[g].conns[i], Sent(g, i), Twice(g, i))

LEMMA AgreesOneMore ==
  ASSUME NEW count \in Int, NEW sent, NEW twice, Agrees(count, sent, twice),
         NEW r, r \notin sent
  PROVE  Agrees(count + 1, sent \cup {r}, twice)
<1>1. /\ Cardinality(sent) \in Nat /\ Cardinality(twice) \in Nat
      /\ IsFiniteSet(sent \cup {r}) /\ IsFiniteSet(twice)
      /\ Cardinality(sent \cup {r}) = Cardinality(sent) + 1
  BY FS_AddElement, FS_CardinalityType DEF Agrees
<1> QED
  BY <1>1 DEF Agrees

LEMMA AgreesOneLess ==
  ASSUME NEW count \in Int, NEW sent, NEW twice, Agrees(count, sent, twice),
         NEW r \in sent
  PROVE  Agrees(count - 1, sent \ {r}, twice)
<1>1. /\ Cardinality(sent) \in Nat /\ Cardinality(twice) \in Nat
      /\ IsFiniteSet(sent \ {r}) /\ IsFiniteSet(twice)
      /\ Cardinality(sent \ {r}) = Cardinality(sent) - 1
  BY FS_RemoveElement, FS_CardinalityType DEF Agrees
<1> QED
  BY <1>1 DEF Agrees

\* A request for a change of protocol that has failed excuses one count less.
LEMMA AgreesOnceTooOften ==
  ASSUME NEW count \in Int, NEW sent, NEW twice, Agrees(count, sent, twice),
         NEW r, r \notin twice
  PROVE  /\ Agrees(count, sent, twice \cup {r})
         /\ Agrees(count - 1, sent, twice \cup {r})
<1>1. /\ Cardinality(sent) \in Nat /\ Cardinality(twice) \in Nat
      /\ IsFiniteSet(twice \cup {r}) /\ IsFiniteSet(sent)
      /\ Cardinality(twice \cup {r}) = Cardinality(twice) + 1
  BY FS_AddElement, FS_CardinalityType DEF Agrees
<1> QED
  BY <1>1 DEF Agrees

\* A step that no waiting or failed request takes, and that makes none.
Aside(q) ==
    \/ pc'[q] = pc[q] /\ at'[q] = at[q]
    \/ /\ pc[q] \notin {"sent", "badGateway"}
       /\ pc'[q] \notin {"sent", "badGateway"}

LEMMA AsideCounts ==
  ASSUME \A q \in Requests : Aside(q), NEW g, NEW i
  PROVE  Sent(g, i)' = Sent(g, i) /\ Twice(g, i)' = Twice(g, i)
BY DEF Aside, Sent, Twice, Using

LEMMA InitCounts ==
  ASSUME Init
  PROVE  CountInv
<1>1. PICK rule \in Rules : built = <<NewRoute(rule)>>
  BY DEF Init
<1>2. \A i \in DOMAIN NewRoute(rule).conns : NewRoute(rule).conns[i] = 0
  BY DEF NewRoute
<1>3. \A g, i : Sent(g, i) = {} /\ Twice(g, i) = {}
  BY DEF Init, Sent, Twice, Using
<1>4. Agrees(0, {}, {})
  BY FS_EmptySet DEF Agrees
<1> HIDE DEF NewRoute
<1> QED
  BY <1>1, <1>2, <1>3, <1>4 DEF CountInv

\* What a step that counts leaves to be shown: the counter that it changes.
LEMMA CountOne ==
  ASSUME TypeOK, CountInv, NEW r \in Requests, at[r].backend # 0,
         NEW d \in Int, Count(r, d), UNCHANGED at, NEW point, Goto(r, point),
         NEW g, NEW i, at[r] = [route |-> g, backend |-> i],
         built[g].conns[i] \in Int => Agrees(built[g].conns[i] + d, Sent(g, i)', Twice(g, i)')
  PROVE  CountInv'
<1>1. g = at[r].route /\ i = at[r].backend
  OBVIOUS
<1>2. /\ g \in DOMAIN built /\ i \in DOMAIN built[g].conns
      /\ built' \in Seq(Route) /\ Len(built') = Len(built)
      /\ \A h \in DOMAIN built \ {g} : built'[h] = built[h]
      /\ built'[g].conns = [built[g].conns EXCEPT ![i] = @ + d]
  BY <1>1, CountRoute
<1>3. DOMAIN built' = DOMAIN built
  BY <1>2, BuiltDomain
<1>4. built[g].conns \in Seq(Int)
  BY <1>2, BuiltRoute DEF Route
<1>5. /\ built[g].conns[i] \in Int
      /\ DOMAIN built'[g].conns = DOMAIN built[g].conns
      /\ built'[g].conns[i] = built[g].conns[i] + d
      /\ \A k \in DOMAIN built[g].conns \ {i} : built'[g].conns[k] = built[g].conns[k]
  BY <1>2, <1>4
<1>6. pc \in [Requests -> Waiting \cup Answered]
  BY TypeParts DEF Typed
<1>7. ASSUME NEW h, NEW k, h # g \/ k # i
      PROVE  Sent(h, k)' = Sent(h, k) /\ Twice(h, k)' = Twice(h, k)
  BY <1>6, <1>7 DEF Goto, Sent, Twice, Using
<1> SUFFICES ASSUME NEW h \in DOMAIN built', NEW k \in DOMAIN built'[h].conns
             PROVE  Agrees(built'[h].conns[k], Sent(h, k)', Twice(h, k)')
  BY DEF CountInv
<1>8. CASE h = g /\ k = i
  BY <1>5, <1>8
<1>9. CASE h # g \/ k # i
  <2>1. /\ h \in DOMAIN built /\ k \in DOMAIN built[h].conns
        /\ built'[h].conns[k] = built[h].conns[k]
    BY <1>2, <1>3, <1>5, <1>9
  <2>2. Sent(h, k)' = Sent(h, k) /\ Twice(h, k)' = Twice(h, k)
    BY <1>7, <1>9
  <2> QED
    BY <2>1, <2>2 DEF CountInv
<1> QED
  BY <1>8, <1>9

LEMMA CountStep ==
  ASSUME TypeOK, ControlInv, CountInv, [Next]_vars
  PROVE  CountInv'
<1>1. /\ pc \in [Requests -> Waiting \cup Answered]
      /\ at = [r \in Requests |-> at[r]]
      /\ \A r \in Requests : PlaceOK(built, at[r])
  BY TypeParts DEF Typed
<1>2. CASE Rebuild
  <2>1. PICK rule \in Rules :
          /\ built' \in Seq(Route) \ {<<>>} /\ Len(built') = Len(built) + 1
          /\ \A h \in DOMAIN built : built'[h] = built[h]
          /\ built'[Len(built) + 1] = NewRoute(rule)
    BY <1>2, RebuildRoute
  <2>2. \A i \in DOMAIN NewRoute(rule).conns : NewRoute(rule).conns[i] = 0
    BY DEF NewRoute
  <2>3. \A g, i : Sent(g, i)' = Sent(g, i) /\ Twice(g, i)' = Twice(g, i)
    BY <1>2 DEF Rebuild, Sent, Twice, Using
  <2>4. \A i : Sent(Len(built) + 1, i) = {} /\ Twice(Len(built) + 1, i) = {}
    <3>1. Len(built) \in Nat
      BY BuiltDomain
    <3>2. \A r \in Requests : at[r].route # Len(built) + 1
      BY <1>1, <3>1 DEF PlaceOK
    <3> QED
      BY <3>2 DEF Sent, Twice, Using
  <2>5. Agrees(0, {}, {})
    BY FS_EmptySet DEF Agrees
  <2>6. \A h \in DOMAIN built' : h \in DOMAIN built \/ h = Len(built) + 1
    BY <2>1, BuiltDomain
  <2> HIDE DEF NewRoute
  <2> QED
    BY <2>1, <2>2, <2>3, <2>4, <2>5, <2>6 DEF CountInv
<1>3. ASSUME NEW r \in Requests, Balance(r)
      PROVE  CountInv'
  <2>1. \A q \in Requests : Aside(q)
    BY <1>1, <1>3 DEF Balance, Goto, Aside
  <2>2. \A g, i : Sent(g, i)' = Sent(g, i) /\ Twice(g, i)' = Twice(g, i)
    BY <2>1, AsideCounts
  <2>3. DOMAIN built' = DOMAIN built /\ \A h \in DOMAIN built : built'[h].conns = built[h].conns
    BY <1>3, BalanceRoute, BuiltDomain
  <2> QED
    BY <2>2, <2>3 DEF CountInv
<1>4. ASSUME NEW r \in Requests,
             \/ Blocked(r) \/ Compare(r) \/ ReadLast(r) \/ Only(r)
             \/ Rejected(r) \/ EmptyAnswer(r) \/ Finish(r)
      PROVE  CountInv'
  <2>1. /\ pc[r] \in {"idle", "comparing", "picked", "body"}
        /\ \E point \in {"blocked", "comparing", "picked", "unavailable", "unauthorized",
                          "empty", "served"} :
             Goto(r, point)
        /\ \A q \in Requests \ {r} : at'[q] = at[q]
        /\ UNCHANGED built
    BY <1>1, <1>4 DEF Blocked, Compare, ReadLast, Only, Rejected, EmptyAnswer, Finish
  <2>2. \A q \in Requests : Aside(q)
    BY <1>1, <2>1 DEF Goto, Aside
  <2>3. \A g, i : Sent(g, i)' = Sent(g, i) /\ Twice(g, i)' = Twice(g, i)
    BY <2>2, AsideCounts
  <2> QED
    BY <2>1, <2>3 DEF CountInv
<1>5. ASSUME NEW r \in Requests, Forward(r) \/ Respond(r) \/ SendFails(r) \/ SwitchFails(r)
      PROVE  CountInv'
  <2>0. PICK g \in Nat, i \in Nat : at[r] = [route |-> g, backend |-> i]
    <3>1. at[r].route \in Nat /\ at[r].backend \in Nat
          /\ at[r] = [route |-> at[r].route, backend |-> at[r].backend]
      BY <1>1, BuiltDomain DEF PlaceOK
    <3> QED
      BY <3>1
  <2> DEFINE count == built[g].conns[i]
  <2>1. /\ at[r] = [route |-> g, backend |-> i] /\ UNCHANGED at
        /\ at[r].backend # 0
    <3>1. at[r].backend # 0
      BY <1>5 DEF ControlInv, Forward, Respond, SendFails, SwitchFails
    <3>2. UNCHANGED at
      BY <1>5 DEF Forward, Respond, SendFails, SwitchFails
    <3> QED
      BY <2>0, <3>1, <3>2
  <2>2. Agrees(count, Sent(g, i), Twice(g, i)) /\ count \in Int
    <3>1. Count(r, 1) \/ Count(r, -1)
      BY <1>5 DEF Forward, Respond, SendFails, SwitchFails
    <3>2. g \in DOMAIN built /\ i \in DOMAIN built[g].conns
      <4>1. 1 \in Int /\ -1 \in Int
        OBVIOUS
      <4>2. at[r].route \in DOMAIN built /\ at[r].backend \in DOMAIN built[at[r].route].conns
        BY <2>1, <3>1, <4>1, CountRoute
      <4> QED
        BY <2>1, <4>2
    <3>3. built[g].conns \in Seq(Int)
      BY <3>2, BuiltRoute DEF Route
    <3> QED
      BY <3>2, <3>3 DEF CountInv
  <2> HIDE DEF count
  <2>3. CASE Forward(r)
    <3>1. Count(r, 1) /\ Goto(r, "sent") /\ pc[r] = "picked"
      BY <2>3 DEF Forward
    <3>2. /\ r \notin Sent(g, i)
          /\ Sent(g, i)' = Sent(g, i) \cup {r} /\ Twice(g, i)' = Twice(g, i)
      BY <1>1, <2>1, <3>1 DEF Goto, Sent, Twice, Using
    <3>3. Agrees(count + 1, Sent(g, i)', Twice(g, i)')
      BY <2>2, <3>2, AgreesOneMore
    <3> QED
      BY <2>1, <3>1, <3>3, CountOne DEF count
  <2>4. CASE Respond(r)
    <3>1. PICK point \in {"body", "switching"} : Goto(r, point)
      BY <2>4 DEF Respond
    <3>2. Count(r, -1) /\ pc[r] = "sent"
      BY <2>4 DEF Respond
    <3>3. /\ r \in Sent(g, i)
          /\ Sent(g, i)' = Sent(g, i) \ {r} /\ Twice(g, i)' = Twice(g, i)
      BY <1>1, <2>1, <3>1, <3>2 DEF Goto, Sent, Twice, Using
    <3>4. Agrees(count - 1, Sent(g, i)', Twice(g, i)') /\ count - 1 = count + (-1)
      BY <2>2, <3>3, AgreesOneLess
    <3> QED
      BY <2>1, <3>1, <3>2, <3>4, CountOne DEF count
  <2>5. CASE SendFails(r)
    <3>1. Count(r, -1) /\ pc[r] = "sent" /\ Goto(r, "badGateway")
      BY <2>5 DEF SendFails
    <3>2. /\ r \in Sent(g, i) /\ r \notin Twice(g, i)
          /\ Sent(g, i)' = Sent(g, i) \ {r}
          /\ \/ Twice(g, i)' = Twice(g, i)
             \/ Twice(g, i)' = Twice(g, i) \cup {r}
      BY <1>1, <2>1, <3>1 DEF Goto, Sent, Twice, Using
    <3>3. Agrees(count - 1, Sent(g, i)', Twice(g, i)) /\ count - 1 \in Int
      BY <2>2, <3>2, AgreesOneLess
    <3>4. Agrees(count - 1, Sent(g, i)', Twice(g, i)') /\ count - 1 = count + (-1)
      BY <2>2, <3>2, <3>3, AgreesOnceTooOften
    <3> QED
      BY <2>1, <3>1, <3>4, CountOne DEF count
  <2>6. CASE SwitchFails(r)
    <3>1. Count(r, -1) /\ pc[r] = "switching" /\ Goto(r, "badGateway") /\ r \in Upgrades
      BY <2>6 DEF SwitchFails, ControlInv
    <3>2. /\ r \notin Twice(g, i)
          /\ Sent(g, i)' = Sent(g, i) /\ Twice(g, i)' = Twice(g, i) \cup {r}
      BY <1>1, <2>1, <3>1 DEF Goto, Sent, Twice, Using
    <3>3. Agrees(count - 1, Sent(g, i), Twice(g, i) \cup {r})
      BY <2>2, <3>2, AgreesOnceTooOften
    <3>4. Agrees(count - 1, Sent(g, i)', Twice(g, i)')
      BY <3>2, <3>3
    <3>5. count - 1 = count + (-1)
      BY <2>2
    <3> QED
      BY <2>1, <3>1, <3>4, <3>5, CountOne DEF count
  <2> QED
    BY <1>5, <2>3, <2>4, <2>5, <2>6
<1>6. CASE UNCHANGED vars \/ \E r \in Requests : ReadCounter(r)
  <2>1. UNCHANGED <<built, pc, at>>
    BY <1>6 DEF vars, ReadCounter
  <2> QED
    BY <2>1 DEF CountInv, Sent, Twice, Using
<1> QED
  BY <1>2, <1>3, <1>4, <1>5, <1>6 DEF Next, Handle

\* The counter of a backend is the number of the requests that wait for its
\* headers, less at most one for each request for a change of protocol that has
\* failed (incConns, decConns): every way out of newBackend's proxy takes back
\* what Handler has added, in the route that the request has found, whatever
\* was built since.
THEOREM ConnectionsCounted == Spec => []ConnsCounted
<1>1. Init => Base /\ CountInv
  BY InitBase, InitCounts
<1>2. Base /\ CountInv /\ [Next]_vars => Base' /\ CountInv'
  BY BaseStep, CountStep DEF Base
<1>3. CountInv => ConnsCounted
  BY DEF CountInv, ConnsCounted, Agrees, Sent, Twice
<1> QED
  BY <1>1, <1>2, <1>3, PTL DEF Spec

\* Without requests for a change of protocol the counters are exact.
LEMMA CountsExact ==
  ASSUME Upgrades = {}, CountInv, NEW g \in DOMAIN built, NEW i \in DOMAIN built[g].conns
  PROVE  /\ Cardinality(Sent(g, i)) \in Nat
         /\ built[g].conns[i] = Cardinality(Sent(g, i))
<1>1. Agrees(built[g].conns[i], Sent(g, i), Twice(g, i)) /\ Twice(g, i) = {}
  BY DEF CountInv, Twice
<1>2. Cardinality(Twice(g, i)) = 0 /\ Cardinality(Sent(g, i)) \in Nat
  BY <1>1, FS_EmptySet, FS_CardinalityType DEF Agrees
<1> QED
  BY <1>1, <1>2 DEF Agrees

\* The counters that the panel shows are numbers of connections as long as no
\* request asks for a change of protocol: only such a request calls decConns
\* twice (newBackend).
THEOREM NeverNegative == ASSUME Upgrades = {} PROVE Spec => []ConnsNotNegative
<1>1. Init => Base /\ CountInv
  BY InitBase, InitCounts
<1>2. Base /\ CountInv /\ [Next]_vars => Base' /\ CountInv'
  BY BaseStep, CountStep DEF Base
<1>3. Base /\ CountInv => ConnsNotNegative
  <2> SUFFICES ASSUME Base, CountInv, NEW g \in 1..Len(built),
                      NEW i \in DOMAIN built[g].conns
               PROVE  built[g].conns[i] >= 0
    BY DEF ConnsNotNegative
  <2>1. g \in DOMAIN built
    BY BuiltDomain DEF Base
  <2>2. Cardinality(Sent(g, i)) \in Nat /\ built[g].conns[i] = Cardinality(Sent(g, i))
    BY <2>1, CountsExact
  <2> QED
    BY <2>2
<1> QED
  BY <1>1, <1>2, <1>3, PTL DEF Spec

-----------------------------------------------------------------------------
(* The rule of a host.                                                     *)

\* The rules of hosts whose labels are in L.
HostRule(L) == [wild : BOOLEAN, labels : Seq(L)]

\* The last labels of a host, from its end.
LEMMA SuffixFromEnd ==
  ASSUME NEW L, NEW s \in Seq(L), NEW t \in Seq(L)
  PROVE  IsSuffix(s, t) <=>
           /\ Len(s) <= Len(t)
           /\ \A i \in 1..Len(s) : s[Len(s) - i + 1] = t[Len(t) - i + 1]
<1> DEFINE m == Len(s)
           n == Len(t)
           rs == Reverse(s)
           rt == Reverse(t)
<1>1. /\ m \in Nat /\ n \in Nat
      /\ rs \in Seq(L) /\ Len(rs) = m /\ rt \in Seq(L) /\ Len(rt) = n
      /\ \A i \in 1..m : rs[i] = s[m - i + 1]
      /\ \A i \in 1..n : rt[i] = t[n - i + 1]
  <2>1. m \in Nat /\ n \in Nat
    OBVIOUS
  <2>2. rs \in [1..m -> L] /\ rt \in [1..n -> L]
    BY DEF Reverse
  <2>3. rs \in Seq(L) /\ rt \in Seq(L) /\ Len(rs) = m /\ Len(rt) = n
    <3> HIDE DEF m, n, rs, rt
    <3> QED
      BY <2>1, <2>2, SeqDef
  <2> QED
    BY <2>1, <2>3 DEF Reverse
<1>2. IsSuffix(s, t) <=> m <= n /\ SubSeq(rs, 1, m) = SubSeq(rt, 1, m)
  BY <1>1 DEF IsSuffix, IsPrefix
<1> HIDE DEF m, n, rs, rt
<1>3. ASSUME m <= n
      PROVE  SubSeq(rs, 1, m) = SubSeq(rt, 1, m) <=> \A i \in 1..m : rs[i] = rt[i]
  <2>1. /\ SubSeq(rs, 1, m) = [i \in 1..m |-> rs[i]]
        /\ SubSeq(rt, 1, m) = [i \in 1..m |-> rt[i]]
    BY <1>1, <1>3
  <2> QED
    BY <2>1
<1>4. ASSUME m <= n, NEW i \in 1..m
      PROVE  rs[i] = s[m - i + 1] /\ rt[i] = t[n - i + 1]
  BY <1>1, <1>4
<1> QED
  BY <1>2, <1>3, <1>4 DEF m, n

LEMMA SuffixOfItself ==
  ASSUME NEW L, NEW s \in Seq(L)
  PROVE  IsSuffix(s, s)
BY SuffixFromEnd

\* Of two ends of one host the shorter is an end of the longer.
LEMMA SuffixesNest ==
  ASSUME NEW L, NEW s \in Seq(L), NEW t \in Seq(L), NEW h \in Seq(L),
         IsSuffix(s, h), IsSuffix(t, h), Len(s) <= Len(t)
  PROVE  IsSuffix(s, t)
<1>1. /\ Len(s) <= Len(h)
      /\ \A i \in 1..Len(s) : s[Len(s) - i + 1] = h[Len(h) - i + 1]
  BY SuffixFromEnd
<1>2. \A i \in 1..Len(t) : t[Len(t) - i + 1] = h[Len(h) - i + 1]
  BY SuffixFromEnd
<1>3. \A i \in 1..Len(s) : s[Len(s) - i + 1] = t[Len(t) - i + 1]
  BY <1>1, <1>2
<1> QED
  BY <1>3, SuffixFromEnd

LEMMA SuffixOfEachOther ==
  ASSUME NEW L, NEW s \in Seq(L), NEW t \in Seq(L), IsSuffix(s, t), IsSuffix(t, s)
  PROVE  s = t
<1>1. Len(s) = Len(t)
  BY SuffixFromEnd
<1>2. \A i \in 1..Len(s) : s[Len(s) - i + 1] = t[Len(s) - i + 1]
  BY <1>1, SuffixFromEnd
<1>3. ASSUME NEW i \in 1..Len(s) PROVE s[i] = t[i]
  <2>1. Len(s) - i + 1 \in 1..Len(s) /\ Len(s) - (Len(s) - i + 1) + 1 = i
    OBVIOUS
  <2> QED
    BY <1>2, <2>1
<1> QED
  BY <1>1, <1>3

\* What the loop has found when it has met the first n routes.
Found(best, order, host, n) ==
    \/ best = NoRule /\ \A i \in 1..n : ~Matches(order[i], host)
    \/ /\ \E i \in 1..n : best = order[i]
       /\ Matches(best, host)
       /\ \A i \in 1..n : Matches(order[i], host) => Len(order[i].labels) <= Len(best.labels)

LEMMA ScanFinds ==
  ASSUME NEW L, NEW host \in Seq(L), NEW order \in Seq(HostRule(L)),
         NoRule \notin HostRule(L)
  PROVE  Found(Scan(order, host)[Len(order)], order, host, Len(order))
<1> DEFINE N == Len(order)
           T == HostRule(L) \cup {NoRule}
           none == NoRule
           step(n, best) == IF Matches(order[n], host) /\ Longer(order[n], best)
                            THEN order[n] ELSE best
           next == [n \in 1..N |-> [best \in T |-> step(n, best)]]
           IsScan(f) == f = [n \in 0..N |-> IF n = 0 THEN none ELSE step(n, f[n - 1])]
           best == Scan(order, host)
<1>1. N \in Nat /\ \A n \in 1..N : order[n] \in HostRule(L)
  OBVIOUS
<1>2. \E f : IsScan(f)
  <2>1. next \in [1..N -> [T -> T]] /\ none \in T
    BY <1>1
  <2> HIDE DEF N, T, none, step, next
  <2>2. PICK f \in [0..N -> T] : Recurs(f, N, none, next)
    BY <1>1, <2>1, Recursion
  <2>3. \A n \in 1..N : n - 1 \in 0..N
    BY <1>1
  <2>4. \A n \in 1..N : next[n][f[n - 1]] = step(n, f[n - 1])
    BY <2>2, <2>3 DEF next
  <2>5. IsScan(f)
    BY <2>2, <2>4, <1>1 DEF Recurs
  <2> QED
    BY <2>5
<1>3. IsScan(best)
  <2>1. best = CHOOSE f : IsScan(f)
    BY DEF Scan
  <2> HIDE DEF IsScan, best
  <2> QED
    BY <1>2, <2>1
<1> HIDE DEF N, step, best
<1>4. /\ best[0] = NoRule
      /\ \A n \in 1..N : best[n] = step(n, best[n - 1])
  BY <1>1, <1>3
<1> DEFINE S == {n \in 0..N : Found(best[n], order, host, n)}
<1>5. 0 \in S
  BY <1>1, <1>4 DEF Found
<1>6. ASSUME NEW n \in 1..N, n - 1 \in S PROVE n \in S
  <2> DEFINE old == best[n - 1]
             new == best[n]
  <2>1. Found(old, order, host, n - 1) /\ new = step(n, old)
    BY <1>4, <1>6
  <2>2. \A i \in 1..n : i \in 1..(n - 1) \/ i = n
    OBVIOUS
  <2>3. 1..(n - 1) \subseteq 1..n /\ n \in 1..n /\ 1..n \subseteq 1..N
    BY <1>1
  <2>4. \A i \in 1..n : Len(order[i].labels) \in Nat /\ order[i] # NoRule
    BY <1>1, <2>3 DEF HostRule
  <2> HIDE DEF old, new
  <2>5. CASE Matches(order[n], host) /\ Longer(order[n], old)
    <3>1. new = order[n]
      BY <2>1, <2>5 DEF step
    <3>2. ASSUME NEW i \in 1..n, Matches(order[i], host)
          PROVE  Len(order[i].labels) <= Len(new.labels)
      <4>1. CASE i = n
        BY <2>4, <3>1, <4>1
      <4>2. CASE i # n
        <5>1. i \in 1..(n - 1)
          BY <2>2, <4>2
        <5>2. old # NoRule /\ \E k \in 1..(n - 1) : old = order[k]
          BY <2>1, <2>3, <2>4, <3>2, <5>1 DEF Found
        <5>3. Len(order[i].labels) <= Len(old.labels)
          BY <2>1, <3>2, <5>1, <5>2 DEF Found
        <5>4. Len(old.labels) < Len(new.labels) /\ Len(old.labels) \in Nat
          BY <2>3, <2>4, <2>5, <3>1, <5>2 DEF Longer
        <5> QED
          BY <2>3, <2>4, <3>1, <5>3, <5>4
      <4> QED
        BY <4>1, <4>2
    <3>3. Found(new, order, host, n)
      BY <2>3, <2>5, <3>1, <3>2 DEF Found
    <3> QED
      BY <3>3 DEF new
  <2>6. CASE ~(Matches(order[n], host) /\ Longer(order[n], old))
    <3>1. new = old
      BY <2>1, <2>6 DEF step
    <3>2. CASE old = NoRule
      <4>1. ~Matches(order[n], host)
        BY <2>6, <3>2 DEF Longer
      <4>2. \A i \in 1..(n - 1) : ~Matches(order[i], host)
        BY <2>1, <2>3, <2>4, <3>2 DEF Found
      <4>3. Found(new, order, host, n)
        BY <2>2, <3>1, <3>2, <4>1, <4>2 DEF Found
      <4> QED
        BY <4>3 DEF new
    <3>3. CASE old # NoRule
      <4>1. PICK i \in 1..(n - 1) : old = order[i]
        BY <2>1, <3>3 DEF Found
      <4>2. ASSUME NEW k \in 1..n, Matches(order[k], host)
            PROVE  Len(order[k].labels) <= Len(old.labels)
        BY <2>1, <2>2, <2>3, <2>4, <2>6, <3>3, <4>1, <4>2 DEF Found, Longer
      <4>3. Found(new, order, host, n)
        BY <2>1, <2>3, <3>1, <3>3, <4>1, <4>2 DEF Found
      <4> QED
        BY <4>3 DEF new
    <3> QED
      BY <3>2, <3>3
  <2> QED
    BY <2>5, <2>6
<1>7. 0..N \subseteq S
  <2> HIDE DEF S
  <2> QED
    BY <1>1, <1>5, <1>6, Induction
<1> QED
  BY <1>1, <1>7 DEF N, best

\* In whatever order the loop of lookup meets the routes of the map, a host gets
\* its own rule, and otherwise that of the nearest domain above it, which is one
\* rule and no other: the answer depends on the rules alone.
THEOREM LookupIsNearest ==
  ASSUME NEW L, NEW host \in Seq(L), NEW order \in Seq(HostRule(L)),
         NoRule \notin HostRule(L)
  PROVE  Nearest({order[i] : i \in DOMAIN order}, host) = {Lookup(order, host)}
<1> DEFINE rules == {order[i] : i \in DOMAIN order}
           best == Scan(order, host)[Len(order)]
           above == {rule \in rules : Matches(rule, host)}
<1>1. rules \subseteq HostRule(L) /\ \A n \in 1..Len(order) : order[n] \in rules
  OBVIOUS
<1>2. Found(best, order, host, Len(order))
  BY ScanFinds
<1>3. ASSUME NEW rule \in rules PROVE \E i \in 1..Len(order) : rule = order[i]
  OBVIOUS
<1> HIDE DEF best
<1>4. CASE Exact(host) \in rules
  BY <1>4 DEF Nearest, Lookup
<1>5. CASE Exact(host) \notin rules
  <2>1. Lookup(order, host) = best
    BY <1>5 DEF Lookup, best
  <2>2. Nearest(rules, host) =
          IF above = {} THEN {NoRule}
          ELSE {rule \in above : \A other \in above : IsSuffix(other.labels, rule.labels)}
    BY <1>5 DEF Nearest
  <2>3. CASE above = {}
    <3>1. best = NoRule
      BY <1>1, <1>2, <2>3 DEF Found
    <3> QED
      BY <2>1, <2>2, <2>3, <3>1
  <2>4. CASE above # {}
    <3>1. best \in above /\ \A rule \in above : Len(rule.labels) <= Len(best.labels)
      BY <1>1, <1>2, <1>3, <2>4 DEF Found
    <3>2. \A rule \in above : /\ rule.wild /\ rule.labels \in Seq(L)
                              /\ IsSuffix(rule.labels, host)
                              /\ rule = [wild |-> rule.wild, labels |-> rule.labels]
                              /\ rule.wild \in BOOLEAN
      BY <1>1 DEF HostRule, Matches, IsStrictSuffix
    <3> HIDE DEF above
    <3>3. \A rule \in above : IsSuffix(rule.labels, best.labels)
      BY <3>1, <3>2, SuffixesNest
    <3>4. ASSUME NEW rule \in above,
                 \A other \in above : IsSuffix(other.labels, rule.labels)
          PROVE  rule = best
      <4>1. rule.labels = best.labels
        BY <3>1, <3>2, <3>3, <3>4, SuffixOfEachOther
      <4>2. rule.wild = TRUE /\ best.wild = TRUE
        BY <3>1, <3>2
      <4> QED
        BY <3>1, <3>2, <4>1, <4>2
    <3>5. {rule \in above : \A other \in above : IsSuffix(other.labels, rule.labels)}
            = {best}
      BY <3>1, <3>3, <3>4
    <3> QED
      BY <2>1, <2>2, <2>4, <3>5
  <2> HIDE DEF rules, above
  <2> QED
    BY <2>3, <2>4
<1> QED
  BY <1>4, <1>5
=============================================================================
