---------------------------- MODULE OperatorLemmas ----------------------------
(***************************************************************************)
(* What the operators that the models are built from return: the least and  *)
(* the greatest of a set of numbers, a sequence without one of its entries, *)
(* a counter that wraps, a recursion over the positions of a table, the sum *)
(* of a table.                                                              *)
(* No lemma is about a state, and every proof module may cite them.         *)
(***************************************************************************)
EXTENDS TableSums, Integers, SequencesExt, FiniteSetsExt, FiniteSetTheorems,
        WellFoundedInduction, TLAPS

\* Every set of numbers has a least one.  (By well-foundedness, and not by an
\* induction theorem, which would have to be instantiated with an operator.)
LEMMA LeastNatural ==
  ASSUME NEW S, S \subseteq Nat, S # {}
  PROVE  \E n \in S : \A m \in S : n <= m
<1>1. PICK n \in S : \A m \in S : ~(<<m, n>> \in OpToRel(<, Nat))
  BY WFMin, NatLessThanWellFounded
<1>2. ASSUME NEW m \in S PROVE n <= m
  <2>1. <<m, n>> \in Nat \X Nat
    BY <1>1
  <2>2. ~(m < n)
    BY <1>1, <2>1 DEF OpToRel
  <2> QED BY <2>2
<1> QED BY <1>1, <1>2

LEMMA MinOfNaturals ==
  ASSUME NEW S, S \subseteq Nat, S # {}
  PROVE  Min(S) \in S /\ \A m \in S : Min(S) <= m
<1>1. \E n \in S : \A m \in S : n <= m
  BY LeastNatural
<1> QED BY <1>1 DEF Min

\* The smaller of two numbers, which caps a counter or a count of free slots.
LEMMA MinOfTwo ==
  ASSUME NEW a \in Int, NEW b \in Int
  PROVE  Min({a, b}) = IF a <= b THEN a ELSE b
<1>1. \E n \in {a, b} : \A m \in {a, b} : n <= m
  OBVIOUS
<1>2. Min({a, b}) \in {a, b} /\ \A m \in {a, b} : Min({a, b}) <= m
  BY <1>1 DEF Min
<1> QED BY <1>2

\* A set of numbers with a bound has a greatest one.
LEMMA MaxOfNaturals ==
  ASSUME NEW S, NEW bound \in Nat, S \subseteq 0..bound, S # {}
  PROVE  Max(S) \in S /\ \A m \in S : m <= Max(S)
<1> DEFINE gaps == {g \in 0..bound : bound - g \in S}
<1>1. gaps \subseteq Nat /\ gaps # {}
  <2>1. PICK n \in S : n \in 0..bound
    OBVIOUS
  <2>2. bound - n \in 0..bound /\ bound - (bound - n) \in S
    BY <2>1
  <2> QED BY <2>2
<1>2. PICK g \in gaps : \A h \in gaps : g <= h
  BY <1>1, LeastNatural
<1>3. PICK n \in S : g = bound - n
  BY <1>2
<1>4. \A m \in S : m <= n
  BY <1>2, <1>3
<1>5. \E x \in S : \A m \in S : x >= m
  BY <1>4
<1>6. Max(S) \in S /\ \A m \in S : Max(S) >= m
  BY <1>5 DEF Max
<1> QED BY <1>6

\* Removing an entry keeps a sequence a sequence, one shorter; what follows
\* the gap moves down by one.
LEMMA RemoveAtSeq ==
  ASSUME NEW S, NEW s \in Seq(S), NEW i \in 1..Len(s)
  PROVE  /\ RemoveAt(s, i) \in Seq(S)
         /\ Len(RemoveAt(s, i)) = Len(s) - 1
         /\ \A j \in 1..Len(s) - 1 :
              RemoveAt(s, i)[j] = IF j < i THEN s[j] ELSE s[j + 1]
<1> DEFINE front == SubSeq(s, 1, i - 1)
           back == SubSeq(s, i + 1, Len(s))
<1>1. front \in Seq(S) /\ Len(front) = i - 1 /\ \A j \in 1..i - 1 : front[j] = s[j]
  OBVIOUS
<1>2. /\ back \in Seq(S) /\ Len(back) = Len(s) - i
      /\ \A j \in 1..Len(s) - i : back[j] = s[i + j]
  OBVIOUS
<1>3. RemoveAt(s, i) = front \o back
  BY DEF RemoveAt
<1> HIDE DEF front, back
<1>4. front \o back \in Seq(S) /\ Len(front \o back) = Len(s) - 1
  BY <1>1, <1>2
<1>5. ASSUME NEW j \in 1..Len(s) - 1
      PROVE  (front \o back)[j] = IF j < i THEN s[j] ELSE s[j + 1]
  <2>1. CASE j < i
    BY <1>1, <1>2, <2>1
  <2>2. CASE ~(j < i)
    <3>1. (front \o back)[j] = back[j - Len(front)]
      BY <1>1, <1>2, <2>2
    <3>2. back[j - Len(front)] = s[j + 1]
      BY <1>1, <1>2, <2>2
    <3> QED BY <2>2, <3>1, <3>2
  <2> QED BY <2>1, <2>2
<1> QED BY <1>3, <1>4, <1>5

\* What holds of every entry of a table that an entry is appended to.
LEMMA Appended ==
  ASSUME NEW S, NEW table \in Seq(S), NEW entry \in S, NEW capacity \in Nat,
         Len(table) < capacity
  PROVE  /\ Append(table, entry) \in Seq(S) /\ Len(Append(table, entry)) <= capacity
         /\ \A i \in DOMAIN table : /\ i \in DOMAIN Append(table, entry)
                                    /\ Append(table, entry)[i] = table[i]
         /\ \A i \in DOMAIN Append(table, entry) :
              \/ i \in DOMAIN table
              \/ i = Len(table) + 1 /\ Append(table, entry)[i] = entry
OBVIOUS

LEMMA Concatenated ==
  ASSUME NEW S, NEW s \in Seq(S), NEW t \in Seq(S)
  PROVE  /\ s \o t \in Seq(S) /\ Len(s \o t) = Len(s) + Len(t)
         /\ \A i \in 1..Len(s) : (s \o t)[i] = s[i]
         /\ \A i \in 1..Len(t) : (s \o t)[Len(s) + i] = t[i]
OBVIOUS

-----------------------------------------------------------------------------
(* Counters of a fixed width: a number has one quotient and one remainder, so  *)
(* that counting and wrapping at each step is counting and wrapping at the end. *)

LEMMA Division ==
  ASSUME NEW a \in Nat, NEW width \in Nat, width >= 2
  PROVE  /\ a = width * (a \div width) + (a % width)
         /\ a \div width \in Nat /\ a % width \in 0..width - 1
OBVIOUS

LEMMA TimesWidth ==
  ASSUME NEW a \in Nat, NEW width \in Nat, a >= 1
  PROVE  width * a >= width
<1>1. width * (a - 1) >= 0
  <2>1. a - 1 \in Nat
    OBVIOUS
  <2> QED BY <2>1
<1>2. width * a = width * (a - 1) + width
  OBVIOUS
<1>3. width * a \in Int /\ width * (a - 1) \in Int
  OBVIOUS
<1> QED BY <1>1, <1>2, <1>3

LEMMA QuotientNotSmaller ==
  ASSUME NEW p \in Nat, NEW q \in Nat, NEW width \in Nat,
         NEW r \in 0..width - 1, NEW s \in 0..width - 1,
         width * q + r = width * p + s
  PROVE  ~(p < q)
<1> SUFFICES ASSUME p < q PROVE FALSE
  OBVIOUS
<1>1. width * (q - p) >= width
  <2>1. q - p \in Nat /\ q - p >= 1
    OBVIOUS
  <2> QED BY <2>1, TimesWidth
<1>2. width * q = width * p + width * (q - p)
  OBVIOUS
<1>3. width * q \in Int /\ width * p \in Int /\ width * (q - p) \in Int
  OBVIOUS
<1> QED BY <1>1, <1>2, <1>3

LEMMA Remainder ==
  ASSUME NEW q \in Nat, NEW width \in Nat, width >= 2, NEW r \in 0..width - 1
  PROVE  (width * q + r) % width = r
<1> DEFINE x == width * q + r
           p == x \div width
           s == x % width
<1>1. x \in Nat
  <2>1. width * q \in Nat
    OBVIOUS
  <2> QED BY <2>1
<1> HIDE DEF x
<1>2. x = width * p + s /\ p \in Nat /\ s \in 0..width - 1
  BY <1>1, Division
<1> HIDE DEF p, s
<1>3. width * q + r = width * p + s
  BY <1>2 DEF x
<1>4. p = q
  <2>1. ~(p < q) /\ ~(q < p)
    BY <1>2, <1>3, QuotientNotSmaller
  <2> QED BY <1>2, <2>1
<1>5. r = s
  <2>1. width * q \in Int
    OBVIOUS
  <2> QED BY <1>2, <1>3, <1>4, <2>1
<1> QED BY <1>5 DEF x, s

LEMMA SuccessorWraps ==
  ASSUME NEW a \in Nat, NEW width \in Nat, width >= 2
  PROVE  ((a % width) + 1) % width = (a + 1) % width
<1> DEFINE q == a \div width
           r == a % width
<1>1. a = width * q + r /\ q \in Nat /\ r \in 0..width - 1
  BY Division
<1> HIDE DEF q, r
<1>2. CASE r + 1 < width
  <2>1. r + 1 \in 0..width - 1 /\ a + 1 = width * q + (r + 1)
    <3>1. width * q \in Int
      BY <1>1
    <3> QED BY <1>1, <1>2, <3>1
  <2>2. (a + 1) % width = r + 1
    BY <1>1, <2>1, Remainder
  <2>3. (width * 0 + (r + 1)) % width = r + 1
    BY <2>1, Remainder
  <2>4. (r + 1) % width = r + 1
    BY <1>1, <2>3
  <2> QED BY <2>2, <2>4 DEF r
<1>3. CASE r + 1 = width
  <2>1. a + 1 = width * (q + 1) + 0
    BY <1>1, <1>3
  <2>2. (a + 1) % width = 0
    BY <1>1, <2>1, Remainder
  <2>3. (width * 1 + 0) % width = 0
    BY Remainder
  <2>4. width * 1 + 0 = r + 1
    BY <1>3
  <2> QED BY <2>2, <2>3, <2>4 DEF r
<1> QED BY <1>1, <1>2, <1>3

-----------------------------------------------------------------------------
(* Recursion over the positions of a table.  A set stands for the predicate,  *)
(* and a function for the step: no operator has to be instantiated.           *)

LEMMA InductionUpTo ==
  ASSUME NEW N \in Nat, NEW T, 0 \in T, \A i \in 1..N : i - 1 \in T => i \in T
  PROVE  0..N \subseteq T
<1> DEFINE rest == {i \in 0..N : i \notin T}
<1>1. SUFFICES ASSUME rest # {} PROVE FALSE
  OBVIOUS
<1>2. PICK n \in rest : \A m \in rest : n <= m
  <2>1. rest \subseteq Nat
    OBVIOUS
  <2> QED BY <1>1, <2>1, LeastNatural
<1>3. n \in 1..N /\ n \notin T
  BY <1>2
<1>4. n - 1 \in 0..N /\ n - 1 \notin rest
  BY <1>2, <1>3
<1> QED BY <1>3, <1>4

\* f takes base and then each step in turn.
Recursion(f, N, S, base, step) ==
  /\ f \in [0..N -> S]
  /\ f[0] = base
  /\ \A i \in 1..N : f[i] = step[i][f[i - 1]]

LEMMA RecursionUpTo ==
  ASSUME NEW N \in Nat, NEW S, NEW base \in S, NEW step \in [1..N -> [S -> S]]
  PROVE  \E f : Recursion(f, N, S, base, step)
<1> DEFINE Values(n) == {f \in [0..n -> S] :
                           f[0] = base /\ \A i \in 1..n : f[i] = step[i][f[i - 1]]}
           T == {n \in 0..N : Values(n) # {}}
<1>1. 0 \in T
  <2>1. [i \in 0..0 |-> base] \in Values(0)
    OBVIOUS
  <2> QED BY <2>1
<1>2. ASSUME NEW n \in 1..N, n - 1 \in T
      PROVE  n \in T
  <2>1. PICK f : f \in Values(n - 1)
    BY <1>2
  <2> DEFINE g == [i \in 0..n |-> IF i = n THEN step[n][f[n - 1]] ELSE f[i]]
  <2>2. f[n - 1] \in S /\ step[n][f[n - 1]] \in S
    BY <2>1
  <2>3. g \in [0..n -> S]
    BY <2>1, <2>2
  <2>4. g[0] = base
    BY <2>1
  <2>5. ASSUME NEW i \in 1..n PROVE g[i] = step[i][g[i - 1]]
    <3>1. CASE i = n
      BY <2>1, <3>1
    <3>2. CASE i \in 1..n - 1
      BY <2>1, <3>2
    <3> QED BY <3>1, <3>2
  <2>6. g \in Values(n)
    BY <2>3, <2>4, <2>5
  <2> HIDE DEF g, Values
  <2> QED BY <2>6
<1> HIDE DEF Values
<1>3. 0..N \subseteq T
  BY <1>1, <1>2, InductionUpTo
<1>4. PICK f : f \in Values(N)
  BY <1>3
<1>5. Recursion(f, N, S, base, step)
  BY <1>4 DEF Values, Recursion
<1> QED BY <1>5

-----------------------------------------------------------------------------
(* The sum of a table. *)

\* s[i] is the sum of the first i entries.
PartialSums(s, table, n) ==
  /\ s \in [0..n -> Nat]
  /\ s[0] = 0
  /\ \A i \in 1..n : s[i] = s[i - 1] + table[i]

LEMMA SumOfTable ==
  ASSUME NEW n \in Nat, NEW table \in [1..n -> Nat]
  PROVE  \E s : PartialSums(s, table, n) /\ TableSum(table) = s[n]
<1> DEFINE Upto(f, i) == IF i = 0 THEN 0 ELSE f[i - 1] + table[i]
           IsLoop(f) == f = [i \in 0..n |-> Upto(f, i)]
           step == [i \in 1..n |-> [x \in Nat |-> x + table[i]]]
           loop == CHOOSE f : IsLoop(f)
<1>1. Len(table) = n
  OBVIOUS
<1>2. step \in [1..n -> [Nat -> Nat]]
  OBVIOUS
<1>3. PICK f : f \in [0..n -> Nat] /\ f[0] = 0 /\ \A i \in 1..n : f[i] = step[i][f[i - 1]]
  <2> HIDE DEF step
  <2>1. PICK f : Recursion(f, n, Nat, 0, step)
    BY <1>2, RecursionUpTo
  <2> QED BY <2>1 DEF Recursion
<1>4. \A i \in 1..n : f[i] = f[i - 1] + table[i]
  <2> SUFFICES ASSUME NEW i \in 1..n PROVE f[i] = f[i - 1] + table[i]
    OBVIOUS
  <2>1. f[i - 1] \in Nat
    BY <1>3
  <2> QED BY <1>3, <2>1
<1>5. IsLoop(f)
  <2>1. \A i \in 0..n : f[i] = Upto(f, i)
    BY <1>3, <1>4
  <2> HIDE DEF Upto
  <2> QED BY <1>3, <2>1
<1>6. TableSum(table) = loop[n]
  BY <1>1 DEF TableSum
<1>7. IsLoop(loop)
  <2> HIDE DEF IsLoop
  <2> QED BY <1>5
<1> HIDE DEF loop
<1>8. /\ DOMAIN loop = 0..n /\ loop = [i \in 0..n |-> loop[i]] /\ loop[0] = 0
      /\ \A i \in 1..n : loop[i] = loop[i - 1] + table[i]
  <2>1. \A i \in 0..n : loop[i] = Upto(loop, i)
    BY <1>7
  <2> DEFINE values == [i \in 0..n |-> Upto(loop, i)]
  <2>2. loop = values /\ DOMAIN values = 0..n /\ values = [i \in 0..n |-> values[i]]
    BY <1>7
  <2> HIDE DEF values
  <2>3. DOMAIN loop = 0..n /\ loop = [i \in 0..n |-> loop[i]]
    BY <2>2
  <2>4. loop[0] = 0
    BY <2>1
  <2>5. ASSUME NEW i \in 1..n PROVE loop[i] = loop[i - 1] + table[i]
    <3>1. i \in 0..n /\ i # 0
      OBVIOUS
    <3> QED BY <2>1, <3>1
  <2> QED BY <2>3, <2>4, <2>5
<1>9. \A i \in 0..n : loop[i] \in Nat
  <2> DEFINE T == {i \in 0..n : loop[i] \in Nat}
  <2>1. 0 \in T
    BY <1>8
  <2>2. ASSUME NEW i \in 1..n, i - 1 \in T PROVE i \in T
    <3>1. loop[i] = loop[i - 1] + table[i] /\ loop[i - 1] \in Nat /\ table[i] \in Nat
      BY <1>8, <2>2
    <3> QED BY <3>1
  <2> HIDE DEF T
  <2>3. 0..n \subseteq T
    BY <2>1, <2>2, InductionUpTo
  <2> QED BY <2>3 DEF T
<1>10. PartialSums(loop, table, n)
  BY <1>8, <1>9 DEF PartialSums
<1> QED BY <1>6, <1>10

LEMMA SumIsNatural ==
  ASSUME NEW n \in Nat, NEW table \in [1..n -> Nat]
  PROVE  TableSum(table) \in Nat
BY SumOfTable DEF PartialSums

\* Entry by entry no greater, no greater in all.
LEMMA SumsCompared ==
  ASSUME NEW n \in Nat, NEW f \in [1..n -> Nat], NEW g \in [1..n -> Nat],
         \A i \in 1..n : f[i] <= g[i]
  PROVE  TableSum(f) <= TableSum(g)
<1>1. PICK s : PartialSums(s, f, n) /\ TableSum(f) = s[n]
  BY SumOfTable
<1>2. PICK t : PartialSums(t, g, n) /\ TableSum(g) = t[n]
  BY SumOfTable
<1> DEFINE T == {i \in 0..n : s[i] <= t[i]}
<1>3. 0 \in T
  BY <1>1, <1>2 DEF PartialSums
<1>4. ASSUME NEW i \in 1..n, i - 1 \in T PROVE i \in T
  <2>1. /\ s[i] = s[i - 1] + f[i] /\ t[i] = t[i - 1] + g[i]
        /\ s[i - 1] \in Nat /\ t[i - 1] \in Nat /\ s[i - 1] <= t[i - 1]
    BY <1>1, <1>2, <1>4 DEF PartialSums
  <2>2. f[i] \in Nat /\ g[i] \in Nat /\ f[i] <= g[i]
    OBVIOUS
  <2> QED BY <2>1, <2>2
<1> HIDE DEF T
<1>5. 0..n \subseteq T
  BY <1>3, <1>4, InductionUpTo
<1> QED BY <1>1, <1>2, <1>5 DEF T

LEMMA SumOfZeros ==
  ASSUME NEW n \in Nat, NEW table \in [1..n -> Nat], \A i \in 1..n : table[i] = 0
  PROVE  TableSum(table) = 0
<1>1. PICK s : PartialSums(s, table, n) /\ TableSum(table) = s[n]
  BY SumOfTable
<1> DEFINE T == {i \in 0..n : s[i] = 0}
<1>2. 0 \in T
  BY <1>1 DEF PartialSums
<1>3. ASSUME NEW i \in 1..n, i - 1 \in T PROVE i \in T
  BY <1>1, <1>3 DEF PartialSums
<1> HIDE DEF T
<1>4. 0..n \subseteq T
  BY <1>2, <1>3, InductionUpTo
<1> QED BY <1>1, <1>4 DEF T

\* The sum of a table that one entry is appended to.
LEMMA SumOfLonger ==
  ASSUME NEW n \in Nat, NEW f \in [1..n -> Nat], NEW g \in [1..n + 1 -> Nat],
         \A i \in 1..n : g[i] = f[i]
  PROVE  TableSum(g) = TableSum(f) + g[n + 1]
<1>1. PICK s : PartialSums(s, f, n) /\ TableSum(f) = s[n]
  BY SumOfTable
<1>2. PICK t : PartialSums(t, g, n + 1) /\ TableSum(g) = t[n + 1]
  BY SumOfTable
<1> DEFINE T == {i \in 0..n : s[i] = t[i]}
<1>3. 0 \in T
  BY <1>1, <1>2 DEF PartialSums
<1>4. ASSUME NEW i \in 1..n, i - 1 \in T PROVE i \in T
  BY <1>1, <1>2, <1>4 DEF PartialSums
<1> HIDE DEF T
<1>5. 0..n \subseteq T
  BY <1>3, <1>4, InductionUpTo
<1>6. t[n] = s[n]
  BY <1>5 DEF T
<1>7. t[n + 1] = t[n] + g[n + 1]
  <2>1. n + 1 \in 1..n + 1 /\ n + 1 - 1 = n
    OBVIOUS
  <2> QED BY <1>2, <2>1 DEF PartialSums
<1> QED BY <1>1, <1>2, <1>6, <1>7

LEMMA AddToBoth ==
  ASSUME NEW a \in Nat, NEW b \in Nat, NEW c \in Nat, NEW d \in Nat, NEW e \in Nat,
         a + d = b + e
  PROVE  (a + c) + d = (b + c) + e
OBVIOUS

\* The sum of a table one entry of which is changed.
LEMMA SumOfChanged ==
  ASSUME NEW n \in Nat, NEW f \in [1..n -> Nat], NEW g \in [1..n -> Nat], NEW k \in 1..n,
         \A i \in 1..n : i # k => g[i] = f[i]
  PROVE  TableSum(g) + f[k] = TableSum(f) + g[k]
<1>1. PICK s : PartialSums(s, f, n) /\ TableSum(f) = s[n]
  BY SumOfTable
<1>2. PICK t : PartialSums(t, g, n) /\ TableSum(g) = t[n]
  BY SumOfTable
<1> DEFINE T == {i \in 0..n : IF i < k THEN s[i] = t[i] ELSE t[i] + f[k] = s[i] + g[k]}
<1>3. 0 \in T
  BY <1>1, <1>2 DEF PartialSums
<1>4. ASSUME NEW i \in 1..n, i - 1 \in T PROVE i \in T
  <2>1. /\ s[i] = s[i - 1] + f[i] /\ t[i] = t[i - 1] + g[i]
        /\ s[i - 1] \in Nat /\ t[i - 1] \in Nat
    BY <1>1, <1>2 DEF PartialSums
  <2>2. f[i] \in Nat /\ g[i] \in Nat /\ f[k] \in Nat /\ g[k] \in Nat
    OBVIOUS
  <2>3. CASE i < k
    BY <1>4, <2>1, <2>2, <2>3
  <2>4. CASE i = k
    <3>1. s[k - 1] = t[k - 1]
      BY <1>4, <2>4
    <3>2. t[k] + f[k] = s[k] + g[k]
      BY <2>1, <2>2, <2>4, <3>1
    <3> QED BY <2>4, <3>2
  <2>5. CASE i > k
    <3>1. t[i - 1] + f[k] = s[i - 1] + g[k] /\ g[i] = f[i]
      BY <1>4, <2>5
    <3>2. t[i] = t[i - 1] + f[i] /\ s[i] = s[i - 1] + f[i]
      BY <2>1, <3>1
    <3> DEFINE a == t[i - 1]
               b == s[i - 1]
               c == f[i]
               d == f[k]
               e == g[k]
    <3>3. (a + c) + d = (b + c) + e
      <4>1. /\ a \in Nat /\ b \in Nat /\ c \in Nat /\ d \in Nat /\ e \in Nat
            /\ a + d = b + e
        BY <2>1, <2>2, <3>1
      <4> HIDE DEF a, b, c, d, e
      <4> QED BY <4>1, AddToBoth
    <3>4. t[i] + f[k] = s[i] + g[k]
      BY <3>2, <3>3
    <3> QED BY <2>5, <3>4
  <2> QED BY <2>3, <2>4, <2>5
<1> HIDE DEF T
<1>5. 0..n \subseteq T
  BY <1>3, <1>4, InductionUpTo
<1> QED BY <1>1, <1>2, <1>5 DEF T

\* No entry is greater than the sum.
LEMMA EntryInSum ==
  ASSUME NEW n \in Nat, NEW table \in [1..n -> Nat], NEW k \in 1..n
  PROVE  table[k] <= TableSum(table)
<1> DEFINE rest == [i \in 1..n |-> IF i = k THEN 0 ELSE table[i]]
<1>1. rest \in [1..n -> Nat] /\ rest[k] = 0 /\ \A i \in 1..n : i # k => rest[i] = table[i]
  OBVIOUS
<1> HIDE DEF rest
<1>2. TableSum(rest) + table[k] = TableSum(table) + rest[k]
  BY <1>1, SumOfChanged
<1>3. TableSum(rest) \in Nat /\ TableSum(table) \in Nat /\ table[k] \in Nat
  BY <1>1, SumIsNatural
<1> QED BY <1>1, <1>2, <1>3

-----------------------------------------------------------------------------
(* The bytes of the blocks of a table. *)

\* A table of blocks, of n entries.
BlockTable(table, n) ==
  /\ n \in Nat /\ DOMAIN table = 1..n
  /\ \A b \in 1..n : table[b].bytes \in Nat

\* What each block contributes to the bytes of a set of them.
Counted(table, n, blocks) == [b \in 1..n |-> IF b \in blocks THEN table[b].bytes ELSE 0]

LEMMA BytesAreSums ==
  ASSUME NEW n, NEW table, BlockTable(table, n), NEW blocks
  PROVE  /\ Counted(table, n, blocks) \in [1..n -> Nat] /\ n \in Nat
         /\ \A b \in 1..n : Counted(table, n, blocks)[b] =
                              IF b \in blocks THEN table[b].bytes ELSE 0
         /\ BytesIn(table, blocks) = TableSum(Counted(table, n, blocks))
BY DEF BlockTable, Counted, BytesIn

LEMMA BytesAreNatural ==
  ASSUME NEW n, NEW table, BlockTable(table, n), NEW blocks
  PROVE  BytesIn(table, blocks) \in Nat
BY BytesAreSums, SumIsNatural

LEMMA BytesOfFewer ==
  ASSUME NEW n, NEW table, BlockTable(table, n), NEW fewer, NEW blocks, fewer \subseteq blocks
  PROVE  BytesIn(table, fewer) <= BytesIn(table, blocks)
<1> DEFINE f == Counted(table, n, fewer)
           g == Counted(table, n, blocks)
<1>1. /\ n \in Nat /\ f \in [1..n -> Nat] /\ g \in [1..n -> Nat]
      /\ BytesIn(table, fewer) = TableSum(f) /\ BytesIn(table, blocks) = TableSum(g)
  BY BytesAreSums
<1>2. \A b \in 1..n : f[b] <= g[b]
  BY BytesAreSums DEF BlockTable
<1> HIDE DEF f, g
<1> QED BY <1>1, <1>2, SumsCompared

LEMMA NoBytes ==
  ASSUME NEW n, NEW table, BlockTable(table, n)
  PROVE  BytesIn(table, {}) = 0
<1> DEFINE f == Counted(table, n, {})
<1>1. n \in Nat /\ f \in [1..n -> Nat] /\ BytesIn(table, {}) = TableSum(f)
  BY BytesAreSums
<1>2. \A b \in 1..n : f[b] = 0
  BY BytesAreSums
<1> HIDE DEF f
<1> QED BY <1>1, <1>2, SumOfZeros

\* Blocks that keep their sizes.
LEMMA BytesKept ==
  ASSUME NEW n, NEW table, BlockTable(table, n), NEW other, DOMAIN other = 1..n,
         \A b \in 1..n : other[b].bytes = table[b].bytes, NEW blocks
  PROVE  BlockTable(other, n) /\ BytesIn(other, blocks) = BytesIn(table, blocks)
<1>1. BlockTable(other, n)
  BY DEF BlockTable
<1>2. Counted(other, n, blocks) = Counted(table, n, blocks)
  BY DEF Counted
<1> QED BY <1>1, <1>2, BytesAreSums

\* A block that is taken out of the set.
LEMMA BytesWithout ==
  ASSUME NEW n, NEW table, BlockTable(table, n), NEW blocks, NEW b \in blocks, b \in 1..n
  PROVE  BytesIn(table, blocks \ {b}) + table[b].bytes = BytesIn(table, blocks)
<1> DEFINE f == Counted(table, n, blocks)
           g == Counted(table, n, blocks \ {b})
<1>1. /\ n \in Nat /\ f \in [1..n -> Nat] /\ g \in [1..n -> Nat]
      /\ BytesIn(table, blocks) = TableSum(f) /\ BytesIn(table, blocks \ {b}) = TableSum(g)
  BY BytesAreSums
<1>2. f[b] = table[b].bytes /\ g[b] = 0 /\ \A c \in 1..n : c # b => g[c] = f[c]
  BY BytesAreSums
<1> HIDE DEF f, g
<1>3. TableSum(g) + f[b] = TableSum(f) + g[b]
  BY <1>1, <1>2, SumOfChanged
<1>4. TableSum(f) \in Nat
  BY <1>1, SumIsNatural
<1> QED BY <1>1, <1>2, <1>3, <1>4

\* A block that is appended to the table, inside or outside the set.
LEMMA BytesOfLonger ==
  ASSUME NEW n \in Nat, NEW table, BlockTable(table, n), NEW longer, DOMAIN longer = 1..n + 1,
         \A b \in 1..n : longer[b] = table[b], longer[n + 1].bytes \in Nat,
         NEW blocks, NEW more, \A b \in 1..n : b \in more <=> b \in blocks
  PROVE  /\ BlockTable(longer, n + 1)
         /\ BytesIn(longer, more) =
              BytesIn(table, blocks) + (IF n + 1 \in more THEN longer[n + 1].bytes ELSE 0)
<1>1. BlockTable(longer, n + 1)
  BY DEF BlockTable
<1> DEFINE f == Counted(table, n, blocks)
           g == Counted(longer, n + 1, more)
<1>2. /\ n \in Nat /\ f \in [1..n -> Nat] /\ g \in [1..n + 1 -> Nat]
      /\ BytesIn(table, blocks) = TableSum(f) /\ BytesIn(longer, more) = TableSum(g)
  BY <1>1, BytesAreSums
<1>3. /\ \A b \in 1..n : g[b] = f[b]
      /\ g[n + 1] = IF n + 1 \in more THEN longer[n + 1].bytes ELSE 0
  <2>1. n + 1 \in 1..n + 1 /\ \A b \in 1..n : b \in 1..n + 1
    BY <1>2
  <2> QED BY <2>1 DEF Counted
<1> HIDE DEF f, g
<1>4. TableSum(g) = TableSum(f) + g[n + 1]
  BY <1>2, <1>3, SumOfLonger
<1> QED BY <1>1, <1>2, <1>3, <1>4

-----------------------------------------------------------------------------
(* The numbers of the messages that a queue holds for one receiver. *)

NumbersFor(queue, p) == {queue[m].sequence : m \in {n \in DOMAIN queue : queue[n].to_pid = p}}

\* A queue whose messages are numbered upwards, below the counter.
NumberedInOrder(queue, next) ==
  /\ \A m \in DOMAIN queue : queue[m].sequence \in Nat /\ queue[m].sequence < next
  /\ \A m, n \in DOMAIN queue : m < n => queue[m].sequence < queue[n].sequence

LEMMA NumbersTogether ==
  ASSUME NEW S, NEW queue \in Seq(S), NEW batch \in Seq(S), NEW p
  PROVE  NumbersFor(queue \o batch, p) = NumbersFor(queue, p) \cup NumbersFor(batch, p)
<1> DEFINE n == Len(queue)
           both == queue \o batch
<1>1. /\ n \in Nat /\ Len(batch) \in Nat
      /\ DOMAIN queue = 1..n /\ DOMAIN batch = 1..Len(batch)
      /\ DOMAIN both = 1..n + Len(batch)
      /\ \A m \in 1..n : both[m] = queue[m]
      /\ \A m \in 1..Len(batch) : both[n + m] = batch[m]
  BY Concatenated
<1> HIDE DEF n, both
<1>2. \A m \in DOMAIN queue : m \in DOMAIN both /\ both[m] = queue[m]
  BY <1>1
<1>3. \A m \in DOMAIN batch : n + m \in DOMAIN both /\ both[n + m] = batch[m]
  BY <1>1
<1>4. \A m \in DOMAIN both : m \notin DOMAIN queue => m - n \in DOMAIN batch /\ both[m] = batch[m - n]
  <2>1. ASSUME NEW m \in DOMAIN both, m \notin DOMAIN queue
        PROVE  m - n \in DOMAIN batch /\ both[m] = batch[m - n]
    <3>1. m - n \in 1..Len(batch) /\ n + (m - n) = m
      BY <1>1, <2>1
    <3> QED BY <1>1, <3>1
  <2> QED BY <2>1
<1>5. NumbersFor(both, p) = NumbersFor(queue, p) \cup NumbersFor(batch, p)
  BY <1>2, <1>3, <1>4 DEF NumbersFor
<1> QED BY <1>5 DEF both

\* Of the messages for one receiver, the first in the queue has the least number:
\* taking it out takes that number from its receiver and none from the others.
LEMMA NumbersWithoutFirst ==
  ASSUME NEW S, NEW queue \in Seq(S), NEW next, NumberedInOrder(queue, next), NEW m \in DOMAIN queue,
         \A n \in DOMAIN queue : queue[n].to_pid = queue[m].to_pid => m <= n
  PROVE  /\ NumbersFor(queue, queue[m].to_pid) # {}
         /\ NumbersFor(RemoveAt(queue, m), queue[m].to_pid) =
              NumbersFor(queue, queue[m].to_pid) \ {Min(NumbersFor(queue, queue[m].to_pid))}
         /\ \A p : p # queue[m].to_pid =>
                     NumbersFor(RemoveAt(queue, m), p) = NumbersFor(queue, p)
<1> DEFINE less == RemoveAt(queue, m)
           p == queue[m].to_pid
           numbers == NumbersFor(queue, p)
<1>1. /\ Len(queue) \in Nat /\ DOMAIN queue = 1..Len(queue)
      /\ less \in Seq(S) /\ Len(less) = Len(queue) - 1
      /\ \A n \in 1..Len(queue) - 1 : less[n] = IF n < m THEN queue[n] ELSE queue[n + 1]
  <2>1. Len(queue) \in Nat /\ DOMAIN queue = 1..Len(queue) /\ m \in 1..Len(queue)
    OBVIOUS
  <2> QED BY <2>1, RemoveAtSeq
<1>2. DOMAIN less = 1..Len(queue) - 1
  BY <1>1
<1> HIDE DEF less
<1>3. \A n \in DOMAIN less : \E o \in DOMAIN queue : o # m /\ less[n] = queue[o]
  <2> TAKE n \in DOMAIN less
  <2>1. CASE n < m
    BY <1>1, <1>2, <2>1
  <2>2. CASE ~(n < m)
    <3>1. n + 1 \in DOMAIN queue /\ n + 1 # m /\ less[n] = queue[n + 1]
      BY <1>1, <1>2, <2>2
    <3> QED BY <3>1
  <2> QED BY <2>1, <2>2
<1>4. \A o \in DOMAIN queue : o # m => \E n \in DOMAIN less : less[n] = queue[o]
  <2> SUFFICES ASSUME NEW o \in DOMAIN queue, o # m PROVE \E n \in DOMAIN less : less[n] = queue[o]
    OBVIOUS
  <2>1. CASE o < m
    <3>1. o \in DOMAIN less /\ less[o] = queue[o]
      BY <1>1, <1>2, <2>1
    <3> QED BY <3>1
  <2>2. CASE ~(o < m)
    <3>1. o - 1 \in DOMAIN less /\ ~(o - 1 < m) /\ (o - 1) + 1 = o
      BY <1>1, <1>2, <2>2
    <3>2. less[o - 1] = queue[(o - 1) + 1]
      BY <1>1, <1>2, <3>1
    <3> QED BY <3>1, <3>2
  <2> QED BY <2>1, <2>2
<1>5. \A n \in DOMAIN queue : n # m => queue[n].sequence # queue[m].sequence
  <2> SUFFICES ASSUME NEW n \in DOMAIN queue, n # m PROVE queue[n].sequence # queue[m].sequence
    OBVIOUS
  <2>1. n < m \/ m < n
    BY <1>1
  <2> QED BY <2>1 DEF NumberedInOrder
<1>6. queue[m].sequence \in numbers /\ numbers \subseteq Nat
      /\ \A number \in numbers : queue[m].sequence <= number
  <2>1. \A n \in DOMAIN queue : queue[n].to_pid = p => queue[m].sequence <= queue[n].sequence
    <3> SUFFICES ASSUME NEW n \in DOMAIN queue, queue[n].to_pid = p
                 PROVE  queue[m].sequence <= queue[n].sequence
      OBVIOUS
    <3>1. m = n \/ m < n
      BY <1>1
    <3>2. queue[m].sequence \in Nat /\ queue[n].sequence \in Nat
      BY DEF NumberedInOrder
    <3>3. m < n => queue[m].sequence < queue[n].sequence
      BY DEF NumberedInOrder
    <3> QED BY <3>1, <3>2, <3>3
  <2> QED BY <2>1 DEF NumbersFor, NumberedInOrder
<1>7. Min(numbers) = queue[m].sequence
  <2> HIDE DEF numbers
  <2>1. numbers \subseteq Nat /\ numbers # {}
    BY <1>6
  <2>2. Min(numbers) \in numbers /\ \A number \in numbers : Min(numbers) <= number
    BY <2>1, MinOfNaturals
  <2>3. PICK first : first = Min(numbers)
    OBVIOUS
  <2>4. first \in Nat /\ queue[m].sequence \in Nat
    BY <1>6, <2>1, <2>2, <2>3
  <2>5. first <= queue[m].sequence /\ queue[m].sequence <= first
    BY <1>6, <2>2, <2>3
  <2> QED BY <2>3, <2>4, <2>5
<1>8. NumbersFor(less, p) = numbers \ {queue[m].sequence}
  BY <1>3, <1>4, <1>5 DEF NumbersFor
<1>9. \A q : q # p => NumbersFor(less, q) = NumbersFor(queue, q)
  BY <1>3, <1>4 DEF NumbersFor
<1> QED BY <1>6, <1>7, <1>8, <1>9 DEF less

=============================================================================
