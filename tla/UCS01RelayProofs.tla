-------------------------- MODULE UCS01RelayProofs --------------------------
(***************************************************************************)
(* Proofs about UCS01Relay, for any channels, tokens, amounts and fees,    *)
(* any number of tokens in a packet and of packets on a channel.           *)
(***************************************************************************)
EXTENDS UCS01Relay, FiniteSetTheorems, SequenceTheorems, WellFoundedInduction, TLAPS

(* What SumFunctionOnSet computes a sum over S with.                       *)
IsSum(g, f, S) ==
  g = [s \in SUBSET S |-> IF s = {} THEN 0
                          ELSE LET x == CHOOSE x \in s : TRUE IN f[x] + g[s \ {x}]]

(* A sum is the value at S of a function that the folds choose.            *)
LEMMA SumIsChosen ==
  ASSUME NEW f, NEW S
  PROVE  SumFunctionOnSet(f, S) = (CHOOSE g : IsSum(g, f, S))[S]
BY DEF SumFunctionOnSet, FoldFunctionOnSet, MapThenFoldSet, IsSum

(* Some sets of elements of a finite set have a smallest among them.       *)
LEMMA SmallestSubset ==
  ASSUME NEW S, IsFiniteSet(S), NEW Some, Some \subseteq SUBSET S, Some # {}
  PROVE  \E T \in Some : \A U \in SUBSET T : U # T => U \notin Some
<1>1. Some \subseteq FiniteSubsetsOf(S)
  <2>1. \A T \in SUBSET S : IsFiniteSet(T)
    BY FS_Subset
  <2> QED
    BY <2>1 DEF FiniteSubsetsOf
<1>2. PICK T \in Some : \A U \in Some : <<U, T>> \notin StrictSubsetOrdering(S)
  BY <1>1, FS_StrictSubsetOrderingWellFounded, WFMin
<1>3. \A U \in SUBSET T : U # T => U \notin Some
  BY <1>2 DEF StrictSubsetOrdering
<1> QED
  BY <1>3

(* Induction over the subsets of a finite set.                             *)
LEMMA ByInduction ==
  ASSUME NEW S, IsFiniteSet(S), NEW Good,
         \A T \in SUBSET S : (\A U \in SUBSET T : U # T => U \in Good) => T \in Good
  PROVE  \A T \in SUBSET S : T \in Good
<1> DEFINE Some == {T \in SUBSET S : T \notin Good}
<1>1. ASSUME Some # {}
      PROVE  FALSE
  <2>1. \E T \in Some : \A U \in SUBSET T : U # T => U \notin Some
    <3>1. Some \subseteq SUBSET S
      OBVIOUS
    <3> HIDE DEF Some
    <3> QED
      BY <1>1, <3>1, SmallestSubset
  <2> QED
    BY <2>1
<1> QED
  BY <1>1

(* A sum is of any subset, too.                                            *)
LEMMA SumRestricts ==
  ASSUME NEW f, NEW S, NEW T \in SUBSET S, NEW g, IsSum(g, f, S)
  PROVE  IsSum([s \in SUBSET T |-> g[s]], f, T)
<1> DEFINE h == [s \in SUBSET T |-> g[s]]
<1>1. ASSUME NEW s \in SUBSET T, s # {}
      PROVE  h[s] = LET x == CHOOSE x \in s : TRUE IN f[x] + h[s \ {x}]
  BY <1>1 DEF IsSum
<1>2. h[{}] = 0
  BY DEF IsSum
<1> HIDE DEF h
<1>3. h = [s \in SUBSET T |-> h[s]]
  BY DEF h
<1>4. IsSum(h, f, T)
  BY <1>1, <1>2, <1>3 DEF IsSum
<1> QED
  BY <1>4 DEF h

(* There is one sum.                                                       *)
LEMMA SumUnique ==
  ASSUME NEW f, NEW S, IsFiniteSet(S), NEW g, IsSum(g, f, S), NEW h, IsSum(h, f, S)
  PROVE  \A T \in SUBSET S : g[T] = h[T]
<1> DEFINE Good == {T \in SUBSET S : g[T] = h[T]}
<1>1. ASSUME NEW T \in SUBSET S, \A U \in SUBSET T : U # T => U \in Good
      PROVE  T \in Good
  <2>1. CASE T = {}
    BY <2>1 DEF IsSum
  <2>2. CASE T # {}
    <3> DEFINE x == CHOOSE x \in T : TRUE
    <3>1. x \in T
      BY <2>2
    <3>2. g[T \ {x}] = h[T \ {x}]
      BY <1>1, <3>1
    <3>3. g[T] = f[x] + g[T \ {x}] /\ h[T] = f[x] + h[T \ {x}]
      BY <2>2 DEF IsSum
    <3> QED
      BY <3>2, <3>3
  <2> QED
    BY <2>1, <2>2
<1>2. \A T \in SUBSET S : T \in Good
  <2> HIDE DEF Good
  <2> QED
    BY <1>1, ByInduction
<1> QED
  BY <1>2

(* There is a sum over every finite set.                                   *)
LEMMA SumExists ==
  ASSUME NEW f, NEW S, IsFiniteSet(S)
  PROVE  \E g : IsSum(g, f, S)
<1> DEFINE Good == {T \in SUBSET S : \E g : IsSum(g, f, T)}
<1>1. ASSUME NEW T \in SUBSET S, \A U \in SUBSET T : U # T => U \in Good
      PROVE  \E g : IsSum(g, f, T)
  <2> DEFINE sumOf(U) == CHOOSE g : IsSum(g, f, U)
             value(U) == sumOf(U)[U]
             h == [s \in SUBSET T |-> IF s = {} THEN 0
                     ELSE LET x == CHOOSE x \in s : TRUE IN f[x] + value(s \ {x})]
  <2>1. ASSUME NEW U \in SUBSET T, U # T
        PROVE  IsSum(sumOf(U), f, U)
    <3>1. \E g : IsSum(g, f, U)
      BY <1>1, <2>1
    <3> QED
      BY <3>1
  <2>2. ASSUME NEW s \in SUBSET T, s # T
        PROVE  h[s] = value(s)
    <3>1. CASE s = {}
      <4>1. IsSum(sumOf(s), f, s)
        BY <2>1, <2>2
      <4> HIDE DEF sumOf
      <4>2. sumOf(s)[s] = 0
        BY <3>1, <4>1 DEF IsSum
      <4> QED
        BY <3>1, <4>2
    <3>2. CASE s # {}
      <4> DEFINE x == CHOOSE x \in s : TRUE
                 r == s \ {x}
      <4>1. x \in s /\ r \in SUBSET T /\ r \in SUBSET s /\ r # T
        BY <3>2
      <4>2. IsSum(sumOf(s), f, s) /\ IsSum(sumOf(r), f, r) /\ IsFiniteSet(r)
        BY <2>1, <2>2, <4>1, FS_Subset
      <4>3. sumOf(s)[s] = f[x] + sumOf(s)[r]
        <5> HIDE DEF sumOf
        <5> QED
          BY <3>2, <4>2 DEF IsSum
      <4>4. sumOf(s)[r] = sumOf(r)[r]
        <5> HIDE DEF sumOf, r
        <5>1. IsSum([t \in SUBSET r |-> sumOf(s)[t]], f, r)
          BY <4>1, <4>2, SumRestricts
        <5>2. \A t \in SUBSET r : [u \in SUBSET r |-> sumOf(s)[u]][t] = sumOf(r)[t]
          BY <4>2, <5>1, SumUnique
        <5> QED
          BY <5>2
      <4>5. h[s] = f[x] + sumOf(r)[r]
        <5> HIDE DEF sumOf
        <5> QED
          BY <3>2
      <4> QED
        BY <4>3, <4>4, <4>5
    <3> QED
      BY <3>1, <3>2
  <2>3. ASSUME NEW s \in SUBSET T, s # {}
        PROVE  h[s] = LET x == CHOOSE x \in s : TRUE IN f[x] + h[s \ {x}]
    <3> DEFINE x == CHOOSE x \in s : TRUE
    <3>1. x \in s /\ s \ {x} \in SUBSET T /\ s \ {x} # T
      BY <2>3
    <3>2. h[s \ {x}] = value(s \ {x})
      BY <2>2, <3>1
    <3> HIDE DEF value
    <3>3. h[s] = f[x] + value(s \ {x})
      BY <2>3
    <3> QED
      BY <3>2, <3>3
  <2>4. h[{}] = 0
    OBVIOUS
  <2>5. h = [s \in SUBSET T |-> h[s]]
    OBVIOUS
  <2> HIDE DEF h
  <2>6. IsSum(h, f, T)
    BY <2>3, <2>4, <2>5 DEF IsSum
  <2> QED
    BY <2>6
<1>2. \A T \in SUBSET S : T \in Good
  <2>1. \A T \in SUBSET S : (\A U \in SUBSET T : U # T => U \in Good) => T \in Good
    BY <1>1
  <2> HIDE DEF Good
  <2> QED
    BY <2>1, ByInduction
<1> QED
  BY <1>2

(* What a sum over a finite set is.                                        *)
LEMMA SumEquation ==
  ASSUME NEW f, NEW S, IsFiniteSet(S)
  PROVE  /\ S = {} => SumFunctionOnSet(f, S) = 0
         /\ S # {} => \E x \in S : SumFunctionOnSet(f, S) = f[x] + SumFunctionOnSet(f, S \ {x})
<1> DEFINE sumOf(U) == CHOOSE g : IsSum(g, f, U)
<1>1. \A U \in SUBSET S : IsSum(sumOf(U), f, U) /\ IsFiniteSet(U)
  BY SumExists, FS_Subset
<1>2. \A U \in SUBSET S : SumFunctionOnSet(f, U) = sumOf(U)[U]
  BY SumIsChosen
<1> HIDE DEF sumOf
<1>3. CASE S = {}
  <2>1. sumOf(S)[S] = 0
    BY <1>1, <1>3 DEF IsSum
  <2> QED
    BY <1>2, <1>3, <2>1
<1>4. CASE S # {}
  <2> DEFINE x == CHOOSE x \in S : TRUE
             r == S \ {x}
  <2>1. x \in S /\ r \in SUBSET S
    BY <1>4
  <2>2. sumOf(S)[S] = f[x] + sumOf(S)[r]
    BY <1>1, <1>4 DEF IsSum
  <2>3. sumOf(S)[r] = sumOf(r)[r]
    <3> HIDE DEF r
    <3>1. IsSum([t \in SUBSET r |-> sumOf(S)[t]], f, r)
      BY <1>1, <2>1, SumRestricts
    <3>2. \A t \in SUBSET r : [u \in SUBSET r |-> sumOf(S)[u]][t] = sumOf(r)[t]
      BY <1>1, <2>1, <3>1, SumUnique
    <3> QED
      BY <3>2
  <2>4. SumFunctionOnSet(f, S) = f[x] + SumFunctionOnSet(f, r)
    BY <1>2, <2>1, <2>2, <2>3
  <2> QED
    BY <1>4, <2>1, <2>4
<1> QED
  BY <1>3, <1>4

(* f counts something of every element of S.                               *)
Counts(f, S) == IsFiniteSet(S) /\ \A x \in S : f[x] \in Nat

(* The sum of counts over any part of S is a natural number.               *)
LEMMA SumCounts ==
  ASSUME NEW f, NEW S, Counts(f, S)
  PROVE  \A T \in SUBSET S : Counts(f, T) /\ SumFunctionOnSet(f, T) \in Nat
<1> DEFINE Good == {T \in SUBSET S : SumFunctionOnSet(f, T) \in Nat}
<1>1. IsFiniteSet(S) /\ \A T \in SUBSET S : IsFiniteSet(T)
  BY FS_Subset DEF Counts
<1>2. ASSUME NEW T \in SUBSET S, \A U \in SUBSET T : U # T => U \in Good
      PROVE  T \in Good
  <2>1. CASE T = {}
    BY <1>1, <2>1, SumEquation
  <2>2. CASE T # {}
    <3>1. PICK x \in T : SumFunctionOnSet(f, T) = f[x] + SumFunctionOnSet(f, T \ {x})
      BY <1>1, <2>2, SumEquation
    <3>2. SumFunctionOnSet(f, T \ {x}) \in Nat
      BY <1>2, <3>1
    <3>3. f[x] \in Nat
      BY <3>1 DEF Counts
    <3> QED
      BY <3>1, <3>2, <3>3
  <2> QED
    BY <2>1, <2>2
<1> HIDE DEF Good
<1>3. \A T \in SUBSET S : T \in Good
  BY <1>1, <1>2, ByInduction
<1>4. \A T \in SUBSET S : SumFunctionOnSet(f, T) \in Nat
  BY <1>3 DEF Good
<1> QED
  BY <1>1, <1>4 DEF Counts

(* Any element can be taken out of a sum.                                  *)
LEMMA SumWithout ==
  ASSUME NEW f, NEW S, Counts(f, S), NEW y \in S
  PROVE  SumFunctionOnSet(f, S) = f[y] + SumFunctionOnSet(f, S \ {y})
<1> DEFINE sum(T) == SumFunctionOnSet(f, T)
           Good == {T \in SUBSET S : \A z \in T : sum(T) = f[z] + sum(T \ {z})}
<1>1. IsFiniteSet(S) /\ \A T \in SUBSET S : IsFiniteSet(T) /\ sum(T) \in Nat
  BY FS_Subset, SumCounts DEF Counts
<1>2. ASSUME NEW T \in SUBSET S, \A U \in SUBSET T : U # T => U \in Good
      PROVE  T \in Good
  <2>1. ASSUME NEW z \in T
        PROVE  sum(T) = f[z] + sum(T \ {z})
    <3>1. PICK x \in T : sum(T) = f[x] + sum(T \ {x})
      BY <1>1, <2>1, SumEquation
    <3>2. CASE z = x
      BY <3>1, <3>2
    <3>3. CASE z # x
      <4> DEFINE r == T \ {x, z}
      <4>0. T \ {x} \in SUBSET T /\ T \ {x} # T /\ T \ {z} \in SUBSET T /\ T \ {z} # T
        BY <2>1, <3>1
      <4>1. sum(T \ {x}) = f[z] + sum((T \ {x}) \ {z})
        BY <1>2, <2>1, <3>1, <3>3, <4>0
      <4>2. sum(T \ {z}) = f[x] + sum((T \ {z}) \ {x})
        BY <1>2, <2>1, <3>1, <3>3, <4>0
      <4>3. (T \ {x}) \ {z} = r /\ (T \ {z}) \ {x} = r
        OBVIOUS
      <4>4. f[x] \in Nat /\ f[z] \in Nat /\ sum(r) \in Nat
        BY <1>1, <2>1, <3>1 DEF Counts
      <4> HIDE DEF sum, r
      <4> QED
        BY <3>1, <4>1, <4>2, <4>3, <4>4
    <3> QED
      BY <3>2, <3>3
  <2> QED
    BY <2>1
<1> HIDE DEF Good
<1>3. \A T \in SUBSET S : T \in Good
  BY <1>1, <1>2, ByInduction
<1> QED
  BY <1>3 DEF Good

(* A sum depends on what it adds up only.                                  *)
LEMMA SumSame ==
  ASSUME NEW f, NEW g, NEW S, Counts(f, S), \A x \in S : g[x] = f[x]
  PROVE  SumFunctionOnSet(g, S) = SumFunctionOnSet(f, S)
<1> DEFINE Good == {T \in SUBSET S : SumFunctionOnSet(g, T) = SumFunctionOnSet(f, T)}
<1>1. Counts(g, S) /\ IsFiniteSet(S)
  BY DEF Counts
<1>2. ASSUME NEW T \in SUBSET S, \A U \in SUBSET T : U # T => U \in Good
      PROVE  T \in Good
  <2>0. Counts(g, T) /\ Counts(f, T) /\ IsFiniteSet(T)
    BY <1>1, SumCounts DEF Counts
  <2>1. CASE T = {}
    BY <2>0, <2>1, SumEquation
  <2>2. CASE T # {}
    <3>1. PICK x \in T : SumFunctionOnSet(g, T) = g[x] + SumFunctionOnSet(g, T \ {x})
      BY <2>0, <2>2, SumEquation
    <3>2. SumFunctionOnSet(f, T) = f[x] + SumFunctionOnSet(f, T \ {x})
      BY <2>0, <3>1, SumWithout
    <3>3. T \ {x} \in Good
      BY <1>2, <3>1
    <3> QED
      BY <3>1, <3>2, <3>3
  <2> QED
    BY <2>1, <2>2
<1> HIDE DEF Good
<1>3. \A T \in SUBSET S : T \in Good
  BY <1>1, <1>2, ByInduction
<1> QED
  BY <1>3 DEF Good

(* A sum grows by what is added.                                           *)
LEMMA SumWith ==
  ASSUME NEW f, NEW S, NEW y, y \notin S, Counts(f, S \cup {y})
  PROVE  SumFunctionOnSet(f, S \cup {y}) = SumFunctionOnSet(f, S) + f[y]
<1> DEFINE all == S \cup {y}
<1>1. all \ {y} = S /\ y \in all /\ S \in SUBSET all
  OBVIOUS
<1> HIDE DEF all
<1>2. Counts(f, all)
  BY DEF all
<1>3. SumFunctionOnSet(f, all) = f[y] + SumFunctionOnSet(f, all \ {y})
  BY <1>1, <1>2, SumWithout
<1>4. SumFunctionOnSet(f, S) \in Nat /\ f[y] \in Nat
  BY <1>1, <1>2, SumCounts DEF Counts
<1>5. SumFunctionOnSet(f, all) = SumFunctionOnSet(f, S) + f[y]
  BY <1>1, <1>3, <1>4
<1> QED
  BY <1>5 DEF all

(* A sum changes by as much as one of its terms.                           *)
LEMMA SumChanges ==
  ASSUME NEW f, NEW g, NEW S, Counts(f, S), Counts(g, S), NEW y \in S,
         \A x \in S \ {y} : g[x] = f[x]
  PROVE  SumFunctionOnSet(g, S) + f[y] = SumFunctionOnSet(f, S) + g[y]
<1>1. SumFunctionOnSet(f, S) = f[y] + SumFunctionOnSet(f, S \ {y})
  BY SumWithout
<1>2. SumFunctionOnSet(g, S) = g[y] + SumFunctionOnSet(g, S \ {y})
  BY SumWithout
<1>3. SumFunctionOnSet(g, S \ {y}) = SumFunctionOnSet(f, S \ {y})
  <2>1. Counts(f, S \ {y})
    BY SumCounts
  <2> QED
    BY <2>1, SumSame
<1>4. SumFunctionOnSet(f, S \ {y}) \in Nat /\ f[y] \in Nat /\ g[y] \in Nat
  BY SumCounts DEF Counts
<1> QED
  BY <1>1, <1>2, <1>3, <1>4

(* A part of a sum is no more than the sum, and an element no more than    *)
(* what it is part of.                                                     *)
LEMMA SumOfPart ==
  ASSUME NEW f, NEW S, Counts(f, S)
  PROVE  /\ \A T \in SUBSET S : SumFunctionOnSet(f, T) <= SumFunctionOnSet(f, S)
         /\ \A y \in S : f[y] <= SumFunctionOnSet(f, S)
<1> DEFINE sum(T) == SumFunctionOnSet(f, T)
           Good == {T \in SUBSET S : \A U \in SUBSET T : sum(U) <= sum(T)}
<1>1. IsFiniteSet(S) /\ \A T \in SUBSET S : Counts(f, T) /\ sum(T) \in Nat
  BY SumCounts DEF Counts
<1>2. ASSUME NEW T \in SUBSET S, \A U \in SUBSET T : U # T => U \in Good
      PROVE  T \in Good
  <2>1. ASSUME NEW U \in SUBSET T, U # T
        PROVE  sum(U) <= sum(T)
    <3>1. PICK y \in T : y \notin U
      BY <2>1
    <3>2. sum(T) = f[y] + sum(T \ {y})
      BY <1>1, SumWithout
    <3>3. sum(U) <= sum(T \ {y})
      <4>1. T \ {y} \in SUBSET T /\ T \ {y} # T /\ U \in SUBSET (T \ {y})
        BY <3>1
      <4> QED
        BY <1>2, <4>1
    <3>4. sum(U) \in Nat /\ sum(T \ {y}) \in Nat /\ f[y] \in Nat
      BY <1>1 DEF Counts
    <3> HIDE DEF sum
    <3> QED
      BY <3>2, <3>3, <3>4
  <2>2. sum(T) \in Nat
    BY <1>1
  <2> QED
    BY <2>1, <2>2
<1>3. S \in Good
  <2> HIDE DEF Good
  <2> QED
    BY <1>1, <1>2, ByInduction
<1>4. ASSUME NEW y \in S
      PROVE  f[y] <= sum(S)
  <2>1. sum(S) = f[y] + sum(S \ {y}) /\ sum(S \ {y}) \in Nat /\ f[y] \in Nat
    BY <1>1, SumWithout DEF Counts
  <2> HIDE DEF sum
  <2> QED
    BY <2>1
<1> QED
  BY <1>3, <1>4

(* Nothing adds up to nothing.                                             *)
LEMMA SumOfNothing ==
  ASSUME NEW f, NEW S, IsFiniteSet(S), \A x \in S : f[x] = 0
  PROVE  SumFunctionOnSet(f, S) = 0
<1> DEFINE Good == {T \in SUBSET S : SumFunctionOnSet(f, T) = 0}
<1>1. ASSUME NEW T \in SUBSET S, \A U \in SUBSET T : U # T => U \in Good
      PROVE  T \in Good
  <2>1. IsFiniteSet(T)
    BY FS_Subset
  <2>2. CASE T = {}
    BY <2>1, <2>2, SumEquation
  <2>3. CASE T # {}
    <3>1. PICK x \in T : SumFunctionOnSet(f, T) = f[x] + SumFunctionOnSet(f, T \ {x})
      BY <2>1, <2>3, SumEquation
    <3>2. T \ {x} \in Good /\ f[x] = 0
      BY <1>1, <3>1
    <3> QED
      BY <3>1, <3>2
  <2> QED
    BY <2>2, <2>3
<1> HIDE DEF Good
<1>2. S \in Good
  BY <1>1, ByInduction
<1> QED
  BY <1>2 DEF Good

-----------------------------------------------------------------------------
(* Loops over the tokens of a packet *)

(* Induction over the first numbers.                                       *)
LEMMA UpTo ==
  ASSUME NEW n \in Nat, NEW Good, 0 \in Good,
         \A i \in 1..n : i - 1 \in Good => i \in Good
  PROVE  \A i \in 0..n : i \in Good
<1> DEFINE bad == {i \in 0..n : i \notin Good}
           Some == {0..i : i \in bad}
<1>1. ASSUME bad # {}
      PROVE  FALSE
  <2>1. Some \subseteq SUBSET (0..n) /\ Some # {} /\ IsFiniteSet(0..n)
    <3>1. IsFiniteSet(0..n)
      BY FS_Interval
    <3>2. \A i \in bad : 0..i \in SUBSET (0..n)
      OBVIOUS
    <3> QED
      BY <1>1, <3>1, <3>2
  <2>2. \E T \in Some : \A U \in SUBSET T : U # T => U \notin Some
    <3> HIDE DEF Some
    <3> QED
      BY <2>1, SmallestSubset
  <2>3. PICK i \in bad : \A U \in SUBSET (0..i) : U # 0..i => U \notin Some
    BY <2>2
  <2>4. i \in 1..n /\ i - 1 \in 0..n
    <3>1. i # 0 /\ i \in 0..n
      OBVIOUS
    <3> QED
      BY <3>1
  <2>5. 0..(i - 1) \in SUBSET (0..i) /\ 0..(i - 1) # 0..i
    <3>1. i \in 0..i /\ i \notin 0..(i - 1)
      BY <2>4
    <3> QED
      BY <2>4, <3>1
  <2>6. 0..(i - 1) \notin Some
    BY <2>3, <2>5
  <2>7. i - 1 \notin bad
    BY <2>6
  <2> QED
    BY <2>3, <2>4, <2>7
<1> QED
  BY <1>1

(* The ledgers of a chain as it sends tokens one by one.                   *)
Sending(c, ch, account, tokens, after) ==
  after = [i \in 0..Len(tokens) |->
             IF i = 0 THEN relay[c] ELSE sendToken(after[i - 1], ch, account, tokens[i])]

(* The ledger sendTokens leaves is the last of a list of ledgers, one more *)
(* for each token.                                                         *)
LEMMA SendingIs ==
  ASSUME NEW c, NEW ch, NEW account, NEW tokens, Len(tokens) \in Nat
  PROVE  \E after : Sending(c, ch, account, tokens, after) /\ sendTokens(c, ch, account, tokens) = after[Len(tokens)]
<1> DEFINE n == Len(tokens)
           upTo(k, g) == g = [i \in 0..k |-> IF i = 0 THEN relay[c]
                                ELSE sendToken(g[i - 1], ch, account, tokens[i])]
           Good == {k \in 0..n : \E g : upTo(k, g)}
<1>1. 0 \in Good
  <2>1. \E g : upTo(0, g)
    <3>1. upTo(0, [i \in 0..0 |-> relay[c]])
      OBVIOUS
    <3> HIDE DEF upTo
    <3> QED
      BY <3>1
  <2> HIDE DEF upTo
  <2> QED
    BY <2>1
<1>2. ASSUME NEW k \in 1..n, k - 1 \in Good
      PROVE  k \in Good
  <2>1. PICK g : upTo(k - 1, g)
    BY <1>2
  <2> DEFINE h == [i \in 0..k |-> IF i = k THEN sendToken(g[k - 1], ch, account, tokens[k])
                                  ELSE g[i]]
  <2>2. ASSUME NEW i \in 0..k
        PROVE  h[i] = IF i = 0 THEN relay[c] ELSE sendToken(h[i - 1], ch, account, tokens[i])
    <3>1. CASE i = k
      BY <3>1
    <3>2. CASE i # k
      <4>1. i \in 0..(k - 1) /\ (i # 0 => i - 1 \in 0..k /\ i - 1 # k)
        BY <3>2
      <4>2. h[i] = g[i] /\ (i # 0 => h[i - 1] = g[i - 1])
        BY <3>2, <4>1
      <4>3. g[i] = IF i = 0 THEN relay[c] ELSE sendToken(g[i - 1], ch, account, tokens[i])
        BY <2>1, <4>1
      <4> QED
        BY <4>2, <4>3
    <3> QED
      BY <3>1, <3>2
  <2>3. h = [i \in 0..k |-> h[i]]
    OBVIOUS
  <2> HIDE DEF h
  <2>4. upTo(k, h)
    BY <2>2, <2>3
  <2> QED
    BY <2>4
<1>3. n \in Good
  <2> HIDE DEF Good
  <2>1. \A k \in 0..n : k \in Good
    BY <1>1, <1>2, UpTo
  <2> QED
    BY <2>1
<1>4. \E g : Sending(c, ch, account, tokens, g)
  BY <1>3 DEF Sending
<1>5. sendTokens(c, ch, account, tokens) = (CHOOSE g : Sending(c, ch, account, tokens, g))[n]
  BY DEF Sending, sendTokens
<1> QED
  BY <1>4, <1>5

(* As it gives them back.                                                  *)
Refunding(c, p, after) ==
  after = [i \in 0..Len(data[c][p].tokens) |->
             IF i = 0 THEN relay[c] ELSE refundToken(after[i - 1], channelOf(p), data[c][p].sender, data[c][p].tokens[i])]

(* So is the one refundTokens leaves.                                      *)
LEMMA RefundingIs ==
  ASSUME NEW c, NEW p, Len(data[c][p].tokens) \in Nat
  PROVE  \E after : Refunding(c, p, after) /\ refundTokens(c, p) = after[Len(data[c][p].tokens)]
<1> DEFINE n == Len(data[c][p].tokens)
           upTo(k, g) == g = [i \in 0..k |-> IF i = 0 THEN relay[c]
                                ELSE refundToken(g[i - 1], channelOf(p), data[c][p].sender, data[c][p].tokens[i])]
           Good == {k \in 0..n : \E g : upTo(k, g)}
<1>1. 0 \in Good
  <2>1. \E g : upTo(0, g)
    <3>1. upTo(0, [i \in 0..0 |-> relay[c]])
      OBVIOUS
    <3> HIDE DEF upTo
    <3> QED
      BY <3>1
  <2> HIDE DEF upTo
  <2> QED
    BY <2>1
<1>2. ASSUME NEW k \in 1..n, k - 1 \in Good
      PROVE  k \in Good
  <2>1. PICK g : upTo(k - 1, g)
    BY <1>2
  <2> DEFINE h == [i \in 0..k |-> IF i = k THEN refundToken(g[k - 1], channelOf(p), data[c][p].sender, data[c][p].tokens[k])
                                  ELSE g[i]]
  <2>2. ASSUME NEW i \in 0..k
        PROVE  h[i] = IF i = 0 THEN relay[c] ELSE refundToken(h[i - 1], channelOf(p), data[c][p].sender, data[c][p].tokens[i])
    <3>1. CASE i = k
      BY <3>1
    <3>2. CASE i # k
      <4>1. i \in 0..(k - 1) /\ (i # 0 => i - 1 \in 0..k /\ i - 1 # k)
        BY <3>2
      <4>2. h[i] = g[i] /\ (i # 0 => h[i - 1] = g[i - 1])
        BY <3>2, <4>1
      <4>3. g[i] = IF i = 0 THEN relay[c] ELSE refundToken(g[i - 1], channelOf(p), data[c][p].sender, data[c][p].tokens[i])
        BY <2>1, <4>1
      <4> QED
        BY <4>2, <4>3
    <3> QED
      BY <3>1, <3>2
  <2>3. h = [i \in 0..k |-> h[i]]
    OBVIOUS
  <2> HIDE DEF h
  <2>4. upTo(k, h)
    BY <2>2, <2>3
  <2> QED
    BY <2>4
<1>3. n \in Good
  <2> HIDE DEF Good
  <2>1. \A k \in 0..n : k \in Good
    BY <1>1, <1>2, UpTo
  <2> QED
    BY <2>1
<1>4. \E g : Refunding(c, p, g)
  BY <1>3 DEF Refunding
<1>5. refundTokens(c, p) = (CHOOSE g : Refunding(c, p, g))[n]
  BY DEF Refunding, refundTokens
<1> QED
  BY <1>4, <1>5

(* As it receives them.                                                    *)
Receiving(c, p, after) ==
  after = [i \in 0..Len(data[counterparty(c)][p].tokens) |->
             IF i = 0 THEN relay[c] ELSE recvToken(after[i - 1], c, channelOf(p), data[counterparty(c)][p].receiver, data[counterparty(c)][p].tokens[i])]

(* So is the one onRecvPacketProcessing leaves.                            *)
LEMMA ReceivingIs ==
  ASSUME NEW c, NEW p, Len(data[counterparty(c)][p].tokens) \in Nat
  PROVE  \E after : Receiving(c, p, after) /\ onRecvPacketProcessing(c, p) = after[Len(data[counterparty(c)][p].tokens)]
<1> DEFINE n == Len(data[counterparty(c)][p].tokens)
           upTo(k, g) == g = [i \in 0..k |-> IF i = 0 THEN relay[c]
                                ELSE recvToken(g[i - 1], c, channelOf(p), data[counterparty(c)][p].receiver, data[counterparty(c)][p].tokens[i])]
           Good == {k \in 0..n : \E g : upTo(k, g)}
<1>1. 0 \in Good
  <2>1. \E g : upTo(0, g)
    <3>1. upTo(0, [i \in 0..0 |-> relay[c]])
      OBVIOUS
    <3> HIDE DEF upTo
    <3> QED
      BY <3>1
  <2> HIDE DEF upTo
  <2> QED
    BY <2>1
<1>2. ASSUME NEW k \in 1..n, k - 1 \in Good
      PROVE  k \in Good
  <2>1. PICK g : upTo(k - 1, g)
    BY <1>2
  <2> DEFINE h == [i \in 0..k |-> IF i = k THEN recvToken(g[k - 1], c, channelOf(p), data[counterparty(c)][p].receiver, data[counterparty(c)][p].tokens[k])
                                  ELSE g[i]]
  <2>2. ASSUME NEW i \in 0..k
        PROVE  h[i] = IF i = 0 THEN relay[c] ELSE recvToken(h[i - 1], c, channelOf(p), data[counterparty(c)][p].receiver, data[counterparty(c)][p].tokens[i])
    <3>1. CASE i = k
      BY <3>1
    <3>2. CASE i # k
      <4>1. i \in 0..(k - 1) /\ (i # 0 => i - 1 \in 0..k /\ i - 1 # k)
        BY <3>2
      <4>2. h[i] = g[i] /\ (i # 0 => h[i - 1] = g[i - 1])
        BY <3>2, <4>1
      <4>3. g[i] = IF i = 0 THEN relay[c] ELSE recvToken(g[i - 1], c, channelOf(p), data[counterparty(c)][p].receiver, data[counterparty(c)][p].tokens[i])
        BY <2>1, <4>1
      <4> QED
        BY <4>2, <4>3
    <3> QED
      BY <3>1, <3>2
  <2>3. h = [i \in 0..k |-> h[i]]
    OBVIOUS
  <2> HIDE DEF h
  <2>4. upTo(k, h)
    BY <2>2, <2>3
  <2> QED
    BY <2>4
<1>3. n \in Good
  <2> HIDE DEF Good
  <2>1. \A k \in 0..n : k \in Good
    BY <1>1, <1>2, UpTo
  <2> QED
    BY <2>1
<1>4. \E g : Receiving(c, p, g)
  BY <1>3 DEF Receiving
<1>5. onRecvPacketProcessing(c, p) = (CHOOSE g : Receiving(c, p, g))[n]
  BY DEF Receiving, onRecvPacketProcessing
<1> QED
  BY <1>4, <1>5

-----------------------------------------------------------------------------
(* Denominations *)

Symbol == {Hex} \cup End \cup UNION {Native[c] : c \in Chain}

(* Addresses and denominations.                                            *)
Address == Seq(Symbol)

(* There are two chains, each the other's counterparty.                    *)
LEMMA Others ==
  ASSUME NEW c \in Chain
  PROVE  counterparty(c) \in Chain /\ counterparty(c) # c /\ counterparty(counterparty(c)) = c
         /\ Chain = {c, counterparty(c)}
BY ChainsAssumption DEF Chain, counterparty

(* A channel's end on a chain is a symbol that no address in hex starts    *)
(* with.                                                                   *)
LEMMA Ends ==
  ASSUME NEW c \in Chain, NEW ch \in Channel
  PROVE  Endpoint[c][ch] \in End /\ Endpoint[c][ch] \in Symbol /\ Endpoint[c][ch] # Hex
<1>1. Endpoint[c][ch] \in End
  BY DEF End
<1>2. Hex \notin End
  BY RelayAssumption
<1> QED
  BY <1>1, <1>2 DEF Symbol

(* A prefix goes as it came.                                               *)
LEMMA Prefixed ==
  ASSUME NEW s \in Symbol, NEW t \in Address
  PROVE  /\ <<s>> \o t \in Address
         /\ Head(<<s>> \o t) = s /\ Tail(<<s>> \o t) = t
<1>1. <<s>> \in Seq(Symbol) /\ Len(<<s>>) = 1 /\ <<s>>[1] = s
  OBVIOUS
<1>2. <<s>> \o t \in Seq(Symbol)
  BY <1>1, ConcatProperties DEF Address
<1>3. Len(<<s>> \o t) = 1 + Len(t) /\ Len(t) \in Nat
  BY <1>1, ConcatProperties, LenProperties DEF Address
<1>4. (<<s>> \o t)[1] = s /\ \A i \in 1..Len(t) : (<<s>> \o t)[i + 1] = t[i]
  BY <1>1, <1>3, ConcatProperties DEF Address
<1>5. Head(<<s>> \o t) = s
  BY <1>4
<1>6. Tail(<<s>> \o t) = t
  <2> DEFINE u == <<s>> \o t
  <2>1. u # <<>>
    BY <1>3
  <2>2. Tail(u) \in Seq(Symbol) /\ Len(Tail(u)) = Len(u) - 1 /\ \A i \in 1..Len(Tail(u)) : Tail(u)[i] = u[i + 1]
    BY <1>2, <2>1, HeadTailProperties
  <2>3. Len(Tail(u)) = Len(t) /\ \A i \in 1..Len(t) : Tail(u)[i] = t[i]
    BY <1>3, <1>4, <2>2
  <2> HIDE DEF u
  <2>4. Tail(u) = t
    BY <2>2, <2>3, SeqEqual DEF Address
  <2> QED
    BY <2>4 DEF u
<1> QED
  BY <1>2, <1>5, <1>6 DEF Address

(* An address in hex can be read again, and a foreign denomination is the  *)
(* channel's end and the denomination it is of.                            *)
LEMMA Denominations ==
  /\ \A t \in Address : /\ toHexString(t) \in Address
                        /\ hexToAddress(toHexString(t)) = t
                        /\ Head(toHexString(t)) = Hex
  /\ \A c \in Chain, ch \in Channel : \A t \in Address :
       /\ makeForeignDenom(c, ch, t) \in Address
       /\ Head(makeForeignDenom(c, ch, t)) = Endpoint[c][ch]
       /\ Tail(makeForeignDenom(c, ch, t)) = t
<1>1. Hex \in Symbol
  BY DEF Symbol
<1> QED
  BY <1>1, Ends, Prefixed DEF toHexString, hexToAddress, makeForeignDenom

(* Which denominations belong to which channel.                            *)
LEMMA FromChannel ==
  ASSUME NEW c \in Chain, NEW ch \in Channel
  PROVE  /\ \A t \in Address : ~isFromChannel(c, ch, toHexString(t))
         /\ \A other \in Channel, t \in Address :
              isFromChannel(c, ch, makeForeignDenom(c, other, t)) <=> ch = other
         /\ \A n \in Native[c] : ~isFromChannel(c, ch, <<n>>)
<1>1. \A t \in Address : ~isFromChannel(c, ch, toHexString(t))
  BY Denominations, Ends DEF isFromChannel
<1>2. \A other \in Channel, t \in Address :
        isFromChannel(c, ch, makeForeignDenom(c, other, t)) <=> ch = other
  BY Denominations, RelayAssumption DEF isFromChannel
<1>3. \A n \in Native[c] : ~isFromChannel(c, ch, <<n>>)
  BY Ends, RelayAssumption DEF isFromChannel
<1> QED
  BY <1>1, <1>2, <1>3

-----------------------------------------------------------------------------
(* Ledgers *)

Balances == UNION {[tokens -> [Account -> Nat]] : tokens \in SUBSET Address}
Amounts == UNION {[tokens -> Nat] : tokens \in SUBSET Address}

Ledger ==
  [ok : BOOLEAN, balance : Balances, outstanding : [Channel -> Amounts],
   denomToAddress : [Channel -> SUBSET Address]]

(* What the parts of a ledger are.                                         *)
LEMMA LedgerParts ==
  ASSUME NEW L \in Ledger
  PROVE  /\ L.ok \in BOOLEAN
         /\ DOMAIN L.balance \subseteq Address
         /\ \A t \in DOMAIN L.balance : L.balance[t] \in [Account -> Nat]
         /\ \A ch \in Channel, t \in Address : getOutstanding(L, ch, t) \in Nat
         /\ \A ch \in Channel : L.denomToAddress[ch] \subseteq Address
<1>1. L.balance \in Balances /\ \A ch \in Channel : L.outstanding[ch] \in Amounts
  BY DEF Ledger
<1>2. DOMAIN L.balance \subseteq Address /\ \A t \in DOMAIN L.balance : L.balance[t] \in [Account -> Nat]
  BY <1>1 DEF Balances
<1>3. \A ch \in Channel, t \in Address : getOutstanding(L, ch, t) \in Nat
  BY <1>1 DEF Amounts, getOutstanding
<1> QED
  BY <1>2, <1>3 DEF Ledger

(* There are finitely many accounts.                                       *)
LEMMA AccountIsFinite == IsFiniteSet(Account)
<1>1. IsFiniteSet({User}) /\ IsFiniteSet({Relayer}) /\ IsFiniteSet({Escrow})
  BY FS_Singleton
<1>2. IsFiniteSet({User} \cup {Relayer})
  BY <1>1, FS_Union
<1>3. IsFiniteSet(({User} \cup {Relayer}) \cup {Escrow})
  BY <1>1, <1>2, FS_Union
<1>4. ({User} \cup {Relayer}) \cup {Escrow} = Account
  BY DEF Account
<1> QED
  BY <1>3, <1>4

(* What an account of one token gains, the token's supply gains.           *)
LEMMA AccountSum ==
  ASSUME NEW b \in [Account -> Nat], NEW a \in Account, NEW n \in Nat
  PROVE  /\ SumFunction(b) \in Nat /\ b[a] <= SumFunction(b)
         /\ SumFunction([b EXCEPT ![a] = n]) = SumFunction(b) - b[a] + n
<1> DEFINE e == [b EXCEPT ![a] = n]
<1>1. IsFiniteSet(Account)
  BY AccountIsFinite
<1>2. e \in [Account -> Nat] /\ e[a] = n /\ \A x \in Account \ {a} : e[x] = b[x]
  OBVIOUS
<1> HIDE DEF e
<1>3. Counts(b, Account) /\ Counts(e, Account)
  BY <1>1, <1>2 DEF Counts
<1>4. DOMAIN b = Account /\ DOMAIN e = Account
  BY <1>2
<1>5. SumFunctionOnSet(e, Account) + b[a] = SumFunctionOnSet(b, Account) + e[a]
  BY <1>2, <1>3, SumChanges
<1>6. SumFunctionOnSet(e, Account) \in Nat /\ SumFunctionOnSet(b, Account) \in Nat
  BY <1>3, SumCounts
<1>7. b[a] <= SumFunctionOnSet(b, Account)
  BY <1>3, SumOfPart
<1>8. SumFunction(b) = SumFunctionOnSet(b, Account) /\ SumFunction(e) = SumFunctionOnSet(e, Account)
  BY <1>4 DEF SumFunction
<1>9. SumFunction(e) = SumFunction(b) - b[a] + n
  BY <1>2, <1>5, <1>6, <1>8
<1> QED
  BY <1>6, <1>7, <1>8, <1>9 DEF e

(* M is L, but for the accounts of token: if nothing reverted the escrow   *)
(* has gained esc and all of them together sup.                            *)
Booked(L, M, token, esc, sup) ==
  /\ M \in Ledger /\ M.outstanding = L.outstanding /\ M.denomToAddress = L.denomToAddress
  /\ DOMAIN M.balance = DOMAIN L.balance
  /\ \A t \in DOMAIN L.balance \ {token} : M.balance[t] = L.balance[t]
  /\ M.ok => /\ M.balance[token][Escrow] = L.balance[token][Escrow] + esc
             /\ SumFunction(M.balance[token]) = SumFunction(L.balance[token]) + sup

(* require changes nothing but whether the call has reverted.              *)
LEMMA Requires ==
  ASSUME NEW L \in Ledger, NEW condition \in BOOLEAN
  PROVE  /\ require(L, condition) \in Ledger
         /\ require(L, condition).ok = (L.ok /\ condition)
         /\ require(L, condition).balance = L.balance
         /\ require(L, condition).outstanding = L.outstanding
         /\ require(L, condition).denomToAddress = L.denomToAddress
BY DEF Ledger, require

(* One account of one token set to n.                                      *)
LEMMA AccountSet ==
  ASSUME NEW L \in Ledger, NEW token \in DOMAIN L.balance, NEW a \in Account, NEW n \in Nat,
         NEW M, M = [L EXCEPT !.balance[token][a] = n]
  PROVE  /\ Booked(L, M, token, IF a = Escrow THEN n - L.balance[token][a] ELSE 0,
                   n - L.balance[token][a])
         /\ M.ok = L.ok
         /\ \A other \in Account \ {a} : M.balance[token][other] = L.balance[token][other]
<1>1. L.balance \in Balances
  BY DEF Ledger
<1>2. PICK tokens \in SUBSET Address : L.balance \in [tokens -> [Account -> Nat]]
  BY <1>1 DEF Balances
<1> DEFINE b == L.balance[token]
           e == [b EXCEPT ![a] = n]
<1>3. b \in [Account -> Nat] /\ e \in [Account -> Nat] /\ DOMAIN L.balance = tokens
  BY <1>2
<1>4. M.balance = [L.balance EXCEPT ![token] = e] /\ M.ok = L.ok
      /\ M.outstanding = L.outstanding /\ M.denomToAddress = L.denomToAddress
  BY DEF Ledger
<1>5. M.balance \in [tokens -> [Account -> Nat]] /\ M.balance[token] = e
      /\ \A t \in tokens \ {token} : M.balance[t] = L.balance[t]
  BY <1>2, <1>3, <1>4
<1>6. M \in Ledger
  <2>1. M.balance \in Balances
    BY <1>5 DEF Balances
  <2>2. M = [L EXCEPT !.balance = M.balance]
    BY DEF Ledger
  <2> QED
    BY <2>1, <2>2 DEF Ledger
<1>7. SumFunction(e) = SumFunction(b) - b[a] + n /\ SumFunction(b) \in Nat
  BY <1>3, AccountSum
<1>8. b[a] \in Nat /\ b[Escrow] \in Nat /\ e[Escrow] = (IF a = Escrow THEN n ELSE b[Escrow])
      /\ \A other \in Account \ {a} : e[other] = b[other]
  BY <1>3 DEF Account
<1>9. e[Escrow] = b[Escrow] + (IF a = Escrow THEN n - b[a] ELSE 0)
  BY <1>8
<1>10. SumFunction(e) = SumFunction(b) + (n - b[a])
  BY <1>7, <1>8
<1> HIDE DEF e, b
<1>11. /\ M.balance[token][Escrow] = L.balance[token][Escrow] + (IF a = Escrow THEN n - L.balance[token][a] ELSE 0)
       /\ SumFunction(M.balance[token]) = SumFunction(L.balance[token]) + (n - L.balance[token][a])
  BY <1>5, <1>9, <1>10 DEF b
<1> QED
  BY <1>3, <1>4, <1>5, <1>6, <1>8, <1>11 DEF Booked, b

(* Two changes of the accounts of one token add up.                        *)
LEMMA BookedTwice ==
  ASSUME NEW L \in Ledger, NEW M, NEW N, NEW token \in DOMAIN L.balance,
         NEW e \in Int, NEW s \in Int, NEW f \in Int, NEW u \in Int,
         Booked(L, M, token, e, s), Booked(M, N, token, f, u), N.ok => M.ok
  PROVE  Booked(L, N, token, e + f, s + u)
<1>1. /\ N \in Ledger /\ N.outstanding = L.outstanding /\ N.denomToAddress = L.denomToAddress
      /\ DOMAIN N.balance = DOMAIN L.balance
      /\ \A t \in DOMAIN L.balance \ {token} : N.balance[t] = L.balance[t]
  BY DEF Booked
<1>2. ASSUME N.ok
      PROVE  /\ N.balance[token][Escrow] = L.balance[token][Escrow] + (e + f)
             /\ SumFunction(N.balance[token]) = SumFunction(L.balance[token]) + (s + u)
  <2>1. L.balance[token] \in [Account -> Nat] /\ Escrow \in Account
    BY LedgerParts DEF Account
  <2>2. L.balance[token][Escrow] \in Nat /\ SumFunction(L.balance[token]) \in Nat
    BY <2>1, AccountSum
  <2>3. /\ M.balance[token][Escrow] = L.balance[token][Escrow] + e
        /\ SumFunction(M.balance[token]) = SumFunction(L.balance[token]) + s
        /\ N.balance[token][Escrow] = M.balance[token][Escrow] + f
        /\ SumFunction(N.balance[token]) = SumFunction(M.balance[token]) + u
    BY <1>2 DEF Booked
  <2> QED
    BY <2>2, <2>3
<1> QED
  BY <1>1, <1>2 DEF Booked

(* mint adds to one account and to the supply.                             *)
LEMMA Minted ==
  ASSUME NEW L \in Ledger, NEW token \in DOMAIN L.balance, NEW a \in Account, NEW amount \in Nat
  PROVE  /\ Booked(L, mint(L, token, a, amount), token, IF a = Escrow THEN amount ELSE 0, amount)
         /\ mint(L, token, a, amount).ok = L.ok
         /\ \A other \in Account \ {a} :
              mint(L, token, a, amount).balance[token][other] = L.balance[token][other]
<1> DEFINE n == L.balance[token][a] + amount
           M == [L EXCEPT !.balance[token][a] = n]
<1>1. L.balance[token][a] \in Nat /\ n \in Nat
  BY LedgerParts
<1>2. M = mint(L, token, a, amount)
  BY DEF mint
<1>3. n - L.balance[token][a] = amount
  BY <1>1
<1> HIDE DEF n
<1>4. /\ Booked(L, M, token, IF a = Escrow THEN n - L.balance[token][a] ELSE 0, n - L.balance[token][a])
      /\ M.ok = L.ok
      /\ \A other \in Account \ {a} : M.balance[token][other] = L.balance[token][other]
  BY <1>1, AccountSet
<1> HIDE DEF M
<1> QED
  BY <1>2, <1>3, <1>4

(* burn takes from one account and from the supply, and reverts if there   *)
(* is too little.                                                          *)
LEMMA Burnt ==
  ASSUME NEW L \in Ledger, NEW token \in DOMAIN L.balance, NEW a \in Account, NEW amount \in Nat
  PROVE  /\ Booked(L, burn(L, token, a, amount), token, IF a = Escrow THEN 0 - amount ELSE 0, 0 - amount)
         /\ burn(L, token, a, amount).ok = (L.ok /\ L.balance[token][a] >= amount)
<1> DEFINE enough == L.balance[token][a] >= amount
           n == IF enough THEN L.balance[token][a] - amount ELSE L.balance[token][a]
           M == [L EXCEPT !.balance[token][a] = n]
           B == require(M, enough)
<1>1. L.balance[token][a] \in Nat /\ n \in Nat /\ enough \in BOOLEAN
  BY LedgerParts
<1>2. B = burn(L, token, a, amount)
  BY DEF burn
<1>3. enough => n - L.balance[token][a] = 0 - amount
  BY <1>1
<1> HIDE DEF n, enough
<1>4. /\ Booked(L, M, token, IF a = Escrow THEN n - L.balance[token][a] ELSE 0, n - L.balance[token][a])
      /\ M.ok = L.ok
  BY <1>1, AccountSet
<1> HIDE DEF M
<1>5. M \in Ledger
  BY <1>4 DEF Booked
<1>6. /\ B \in Ledger /\ B.ok = (L.ok /\ enough)
      /\ B.balance = M.balance /\ B.outstanding = M.outstanding /\ B.denomToAddress = M.denomToAddress
  BY <1>1, <1>4, <1>5, Requires
<1>7. B.ok => M.ok /\ enough
  BY <1>4, <1>6
<1> HIDE DEF B
<1>8. Booked(L, B, token, IF a = Escrow THEN 0 - amount ELSE 0, 0 - amount)
  BY <1>3, <1>4, <1>6, <1>7 DEF Booked
<1> QED
  BY <1>2, <1>6, <1>8 DEF enough

(* transfer leaves the supply alone, and reverts if there is too little.   *)
LEMMA Transferred ==
  ASSUME NEW L \in Ledger, NEW token \in DOMAIN L.balance, NEW from \in Account, NEW to \in Account,
         from # to, NEW amount \in Nat
  PROVE  /\ Booked(L, transfer(L, token, from, to, amount), token,
                   IF to = Escrow THEN amount ELSE IF from = Escrow THEN 0 - amount ELSE 0, 0)
         /\ transfer(L, token, from, to, amount).ok = (L.ok /\ L.balance[token][from] >= amount)
<1> DEFINE B == burn(L, token, from, amount)
           M == mint(B, token, to, amount)
           e == IF from = Escrow THEN 0 - amount ELSE 0
           f == IF to = Escrow THEN amount ELSE 0
<1>1. M = transfer(L, token, from, to, amount)
  BY DEF transfer
<1>2. Booked(L, B, token, e, 0 - amount) /\ B.ok = (L.ok /\ L.balance[token][from] >= amount)
  BY Burnt
<1> HIDE DEF B
<1>3. B \in Ledger /\ token \in DOMAIN B.balance
  BY <1>2 DEF Booked
<1>4. Booked(B, M, token, f, amount) /\ M.ok = B.ok
  BY <1>3, Minted
<1> HIDE DEF M
<1>5. Booked(L, M, token, e + f, (0 - amount) + amount)
  <2>1. e \in Int /\ f \in Int /\ 0 - amount \in Int /\ amount \in Int
    OBVIOUS
  <2> HIDE DEF e, f
  <2> QED
    BY <1>2, <1>4, <2>1, BookedTwice
<1>6. (0 - amount) + amount = 0
  OBVIOUS
<1>7. e + f = IF to = Escrow THEN amount ELSE IF from = Escrow THEN 0 - amount ELSE 0
  OBVIOUS
<1> HIDE DEF e, f
<1>8. Booked(L, M, token, IF to = Escrow THEN amount ELSE IF from = Escrow THEN 0 - amount ELSE 0, 0)
  BY <1>5, <1>6, <1>7
<1> QED
  BY <1>1, <1>2, <1>4, <1>8

(* The same of outstanding amounts: token's has changed by o on ch.        *)
Noted(L, M, ch, token, o) ==
  /\ M \in Ledger /\ M.balance = L.balance /\ M.denomToAddress = L.denomToAddress
  /\ \A x \in Channel, t \in Address :
       <<x, t>> # <<ch, token>> => getOutstanding(M, x, t) = getOutstanding(L, x, t)
  /\ M.ok => getOutstanding(M, ch, token) = getOutstanding(L, ch, token) + o

(* setOutstanding changes what is outstanding of one token on one channel. *)
LEMMA OutstandingSet ==
  ASSUME NEW L \in Ledger, NEW ch \in Channel, NEW token \in Address, NEW n \in Nat
  PROVE  /\ Noted(L, setOutstanding(L, ch, token, n), ch, token, n - getOutstanding(L, ch, token))
         /\ setOutstanding(L, ch, token, n).ok = L.ok
<1> DEFINE M == setOutstanding(L, ch, token, n)
           old == L.outstanding[ch]
           new == put(old, token, n)
<1>1. old \in Amounts
  BY DEF Ledger
<1>2. PICK tokens \in SUBSET Address : old \in [tokens -> Nat]
  BY <1>1 DEF Amounts
<1>3. /\ DOMAIN new = tokens \cup {token}
      /\ new = [t \in tokens \cup {token} |-> IF t = token THEN n ELSE old[t]]
  BY <1>2 DEF put
<1> HIDE DEF new
<1>4. new \in Amounts
  BY <1>2, <1>3 DEF Amounts
<1>5. M = [L EXCEPT !.outstanding = [@ EXCEPT ![ch] = new]]
  BY DEF setOutstanding, new
<1>6. /\ M.balance = L.balance /\ M.denomToAddress = L.denomToAddress /\ M.ok = L.ok
      /\ M.outstanding = [L.outstanding EXCEPT ![ch] = new]
      /\ M \in Ledger
  BY <1>4, <1>5 DEF Ledger
<1>7. M.outstanding[ch] = new /\ \A x \in Channel \ {ch} : M.outstanding[x] = L.outstanding[x]
  BY <1>6 DEF Ledger
<1> HIDE DEF M
<1>8. getOutstanding(M, ch, token) = n
  BY <1>3, <1>7 DEF getOutstanding
<1>9. ASSUME NEW x \in Channel, NEW t \in Address, <<x, t>> # <<ch, token>>
      PROVE  getOutstanding(M, x, t) = getOutstanding(L, x, t)
  <2>1. CASE x = ch
    <3>1. t # token
      BY <1>9, <2>1
    <3>2. t \in DOMAIN new <=> t \in DOMAIN old
      BY <1>2, <1>3, <3>1
    <3>3. t \in DOMAIN new => new[t] = old[t]
      BY <1>3, <3>1
    <3> QED
      BY <1>7, <2>1, <3>2, <3>3 DEF getOutstanding
  <2>2. CASE x # ch
    BY <1>7, <2>2 DEF getOutstanding
  <2> QED
    BY <2>1, <2>2
<1>10. getOutstanding(L, ch, token) \in Nat
  BY LedgerParts
<1>11. getOutstanding(M, ch, token) = getOutstanding(L, ch, token) + (n - getOutstanding(L, ch, token))
  BY <1>8, <1>10
<1>12. Noted(L, M, ch, token, n - getOutstanding(L, ch, token))
  BY <1>6, <1>9, <1>11 DEF Noted
<1> QED
  BY <1>6, <1>12 DEF M

(* increaseOutstanding adds to it.                                         *)
LEMMA Increased ==
  ASSUME NEW L \in Ledger, NEW ch \in Channel, NEW token \in Address, NEW amount \in Nat
  PROVE  /\ Noted(L, increaseOutstanding(L, ch, token, amount), ch, token, amount)
         /\ increaseOutstanding(L, ch, token, amount).ok = L.ok
<1> DEFINE old == getOutstanding(L, ch, token)
           n == old + amount
<1>1. old \in Nat /\ n \in Nat /\ n - old = amount
  BY LedgerParts
<1>2. increaseOutstanding(L, ch, token, amount) = setOutstanding(L, ch, token, n)
  BY DEF increaseOutstanding
<1> HIDE DEF n
<1>3. /\ Noted(L, setOutstanding(L, ch, token, n), ch, token, n - old)
      /\ setOutstanding(L, ch, token, n).ok = L.ok
  BY <1>1, OutstandingSet
<1> QED
  BY <1>1, <1>2, <1>3

(* decreaseOutstanding takes from it, and reverts if there is too little.  *)
LEMMA Decreased ==
  ASSUME NEW L \in Ledger, NEW ch \in Channel, NEW token \in Address, NEW amount \in Nat
  PROVE  /\ Noted(L, decreaseOutstanding(L, ch, token, amount), ch, token, 0 - amount)
         /\ decreaseOutstanding(L, ch, token, amount).ok
              = (L.ok /\ getOutstanding(L, ch, token) >= amount)
<1> DEFINE old == getOutstanding(L, ch, token)
           left == old - amount
           D == decreaseOutstanding(L, ch, token, amount)
<1>1. old \in Nat /\ left \in Int /\ left - old = 0 - amount /\ (left >= 0 <=> old >= amount)
  BY LedgerParts
<1>2. D = IF left >= 0 THEN setOutstanding(L, ch, token, left) ELSE require(L, FALSE)
  BY DEF decreaseOutstanding
<1> HIDE DEF left, D
<1>3. CASE left >= 0
  <2>1. left \in Nat
    BY <1>1, <1>3
  <2>2. /\ Noted(L, setOutstanding(L, ch, token, left), ch, token, left - old)
        /\ setOutstanding(L, ch, token, left).ok = L.ok
    BY <2>1, OutstandingSet
  <2>3. Noted(L, D, ch, token, 0 - amount) /\ D.ok = L.ok
    BY <1>1, <1>2, <1>3, <2>2
  <2>4. L.ok = (L.ok /\ old >= amount)
    BY <1>1, <1>3, LedgerParts
  <2> QED
    BY <2>3, <2>4 DEF D
<1>4. CASE ~(left >= 0)
  <2>1. D = require(L, FALSE)
    BY <1>2, <1>4
  <2>2. /\ D \in Ledger /\ D.ok = FALSE /\ D.balance = L.balance
        /\ D.outstanding = L.outstanding /\ D.denomToAddress = L.denomToAddress
    BY <2>1, Requires
  <2>3. \A x \in Channel, t \in Address : getOutstanding(D, x, t) = getOutstanding(L, x, t)
    BY <2>2 DEF getOutstanding
  <2>4. (L.ok /\ old >= amount) = FALSE
    BY <1>1, <1>4
  <2>5. Noted(L, D, ch, token, 0 - amount)
    BY <2>2, <2>3 DEF Noted
  <2> QED
    BY <2>2, <2>4, <2>5 DEF D
<1> QED
  BY <1>3, <1>4

(* A fee is a part of its amount.                                          *)
LEMMA FeeSplits ==
  ASSUME NEW amount \in Nat, NEW fee \in 0..FeeMax
  PROVE  /\ calculateFee(amount, fee).actual \in Nat
         /\ calculateFee(amount, fee).fee \in Nat
         /\ calculateFee(amount, fee).actual + calculateFee(amount, fee).fee = amount
<1> DEFINE q == (amount * fee) \div FeeMax
<1>1. FeeMax \in Nat /\ FeeMax > 0 /\ fee \in Nat /\ fee <= FeeMax
  BY RelayAssumption
<1>2. amount * fee \in Nat /\ amount * fee <= amount * FeeMax
  BY <1>1
<1>3. q \in Nat /\ FeeMax * q <= amount * fee
  BY <1>1, <1>2
<1>4. q <= amount
  <2> HIDE DEF q
  <2>1. CASE q >= amount + 1
    <3>1. FeeMax * q >= FeeMax * (amount + 1)
      BY <1>1, <1>3, <2>1
    <3>2. FeeMax * (amount + 1) = amount * FeeMax + FeeMax
      BY <1>1
    <3> QED
      BY <1>1, <1>2, <1>3, <3>1, <3>2
  <2> QED
    BY <1>3, <2>1
<1>5. calculateFee(amount, fee) = [actual |-> amount - q, fee |-> q]
  BY DEF calculateFee
<1> HIDE DEF q
<1> QED
  BY <1>3, <1>4, <1>5

escrowOf(L, token) == IF token \in DOMAIN L.balance THEN L.balance[token][Escrow] ELSE 0

(* Escrow, supply and what is outstanding are natural numbers.             *)
LEMMA LedgerAmounts ==
  ASSUME NEW L \in Ledger, NEW token \in Address
  PROVE  /\ escrowOf(L, token) \in Nat /\ supplyOf(L, token) \in Nat
         /\ \A ch \in Channel : getOutstanding(L, ch, token) \in Nat
<1>1. \A t \in DOMAIN L.balance : L.balance[t] \in [Account -> Nat] /\ Escrow \in Account
  BY LedgerParts DEF Account
<1>2. \A t \in DOMAIN L.balance : SumFunction(L.balance[t]) \in Nat
  BY <1>1, AccountSum
<1> QED
  BY <1>1, <1>2, LedgerParts DEF escrowOf, supplyOf

(* M is L, but for one token on one channel: if nothing reverted the       *)
(* escrow has changed by e, the supply by s, and what is outstanding by o. *)
Transacted(L, M, ch, token, e, s, o) ==
  /\ M \in Ledger /\ (M.ok => L.ok)
  /\ M.denomToAddress = L.denomToAddress /\ DOMAIN M.balance = DOMAIN L.balance
  /\ \A t \in Address \ {token} : /\ escrowOf(M, t) = escrowOf(L, t)
                                  /\ supplyOf(M, t) = supplyOf(L, t)
  /\ \A x \in Channel, t \in Address :
       <<x, t>> # <<ch, token>> => getOutstanding(M, x, t) = getOutstanding(L, x, t)
  /\ M.ok => /\ escrowOf(M, token) = escrowOf(L, token) + e
             /\ supplyOf(M, token) = supplyOf(L, token) + s
             /\ getOutstanding(M, ch, token) = getOutstanding(L, ch, token) + o

(* A change of accounts leaves what is outstanding alone.                  *)
LEMMA BookedIs ==
  ASSUME NEW L \in Ledger, NEW M, NEW token \in DOMAIN L.balance, NEW ch \in Channel,
         NEW e, NEW s, Booked(L, M, token, e, s), M.ok => L.ok
  PROVE  Transacted(L, M, ch, token, e, s, 0)
<1>1. token \in Address
  BY LedgerParts
<1>2. \A x \in Channel, t \in Address : getOutstanding(M, x, t) = getOutstanding(L, x, t)
  BY DEF Booked, getOutstanding
<1>3. getOutstanding(L, ch, token) \in Nat
  BY <1>1, LedgerParts
<1>4. getOutstanding(M, ch, token) = getOutstanding(L, ch, token) + 0
  BY <1>1, <1>2, <1>3
<1> QED
  BY <1>2, <1>4 DEF Booked, Transacted, escrowOf, supplyOf

(* A change of what is outstanding leaves the accounts alone.              *)
LEMMA NotedIs ==
  ASSUME NEW L \in Ledger, NEW M, NEW token \in Address, NEW ch \in Channel,
         NEW o, Noted(L, M, ch, token, o), M.ok => L.ok
  PROVE  Transacted(L, M, ch, token, 0, 0, o)
<1>1. \A t \in Address : escrowOf(M, t) = escrowOf(L, t) /\ supplyOf(M, t) = supplyOf(L, t)
  BY DEF Noted, escrowOf, supplyOf
<1>2. escrowOf(L, token) \in Nat /\ supplyOf(L, token) \in Nat
  BY LedgerAmounts
<1>3. escrowOf(M, token) = escrowOf(L, token) + 0 /\ supplyOf(M, token) = supplyOf(L, token) + 0
  BY <1>1, <1>2
<1> QED
  BY <1>1, <1>3 DEF Noted, Transacted

(* Two changes of both add up.                                             *)
LEMMA TransactedTwice ==
  ASSUME NEW L \in Ledger, NEW M, NEW N, NEW token \in Address, NEW ch \in Channel,
         NEW e \in Int, NEW s \in Int, NEW o \in Int, NEW f \in Int, NEW u \in Int, NEW p \in Int,
         Transacted(L, M, ch, token, e, s, o), Transacted(M, N, ch, token, f, u, p)
  PROVE  Transacted(L, N, ch, token, e + f, s + u, o + p)
<1>1. /\ N \in Ledger /\ (N.ok => L.ok)
      /\ N.denomToAddress = L.denomToAddress /\ DOMAIN N.balance = DOMAIN L.balance
      /\ \A t \in Address \ {token} : /\ escrowOf(N, t) = escrowOf(L, t)
                                      /\ supplyOf(N, t) = supplyOf(L, t)
      /\ \A x \in Channel, t \in Address :
           <<x, t>> # <<ch, token>> => getOutstanding(N, x, t) = getOutstanding(L, x, t)
  BY DEF Transacted
<1>2. ASSUME N.ok
      PROVE  /\ escrowOf(N, token) = escrowOf(L, token) + (e + f)
             /\ supplyOf(N, token) = supplyOf(L, token) + (s + u)
             /\ getOutstanding(N, ch, token) = getOutstanding(L, ch, token) + (o + p)
  <2>1. /\ escrowOf(L, token) \in Nat /\ supplyOf(L, token) \in Nat
        /\ getOutstanding(L, ch, token) \in Nat
    BY LedgerAmounts
  <2>2. /\ escrowOf(M, token) = escrowOf(L, token) + e
        /\ supplyOf(M, token) = supplyOf(L, token) + s
        /\ getOutstanding(M, ch, token) = getOutstanding(L, ch, token) + o
        /\ escrowOf(N, token) = escrowOf(M, token) + f
        /\ supplyOf(N, token) = supplyOf(M, token) + u
        /\ getOutstanding(N, ch, token) = getOutstanding(M, ch, token) + p
    BY <1>2 DEF Transacted
  <2> QED
    BY <2>1, <2>2
<1> QED
  BY <1>1, <1>2 DEF Transacted

-----------------------------------------------------------------------------
(* The operations of the relay on one token *)

Holder == {User, Relayer}

(* Users and relayers hold accounts, which are not the escrow.             *)
LEMMA Holders ==
  /\ Holder \subseteq Account /\ Escrow \in Account /\ Escrow \notin Holder
  /\ User \in Holder /\ Relayer \in Holder
BY RelayAssumption DEF Holder, Account

(* An amount is taken out of the escrow and is outstanding no more.        *)
LEMMA Unescrowed ==
  ASSUME NEW L \in Ledger, NEW token \in DOMAIN L.balance, NEW ch \in Channel,
         NEW a \in Holder, NEW amount \in Nat,
         NEW M, M = transfer(decreaseOutstanding(L, ch, token, amount), token, Escrow, a, amount)
  PROVE  /\ Transacted(L, M, ch, token, 0 - amount, 0, 0 - amount)
         /\ M.ok = (L.ok /\ getOutstanding(L, ch, token) >= amount /\ escrowOf(L, token) >= amount)
<1> DEFINE D == decreaseOutstanding(L, ch, token, amount)
<1>1. token \in Address
  BY LedgerParts
<1>2. Noted(L, D, ch, token, 0 - amount) /\ D.ok = (L.ok /\ getOutstanding(L, ch, token) >= amount)
  BY <1>1, Decreased
<1>3. M = transfer(D, token, Escrow, a, amount)
  OBVIOUS
<1> HIDE DEF D
<1>4. D \in Ledger /\ token \in DOMAIN D.balance /\ D.balance = L.balance
  BY <1>2 DEF Noted
<1>5. /\ Booked(D, M, token, 0 - amount, 0)
      /\ M.ok = (D.ok /\ D.balance[token][Escrow] >= amount)
  <2>1. a \in Account /\ Escrow \in Account /\ a # Escrow
    BY Holders
  <2>2. (IF a = Escrow THEN amount ELSE IF Escrow = Escrow THEN 0 - amount ELSE 0) = 0 - amount
    BY <2>1
  <2> QED
    BY <1>3, <1>4, <2>1, <2>2, Transferred
<1>6. Transacted(L, D, ch, token, 0, 0, 0 - amount)
  <2>1. D.ok => L.ok
    BY <1>2
  <2> QED
    BY <1>1, <1>2, <2>1, NotedIs
<1>7. Transacted(D, M, ch, token, 0 - amount, 0, 0)
  <2>1. M.ok => D.ok
    BY <1>5
  <2> QED
    BY <1>4, <1>5, <2>1, BookedIs
<1>8. Transacted(L, M, ch, token, 0 + (0 - amount), 0 + 0, (0 - amount) + 0)
  <2> DEFINE n == 0 - amount
  <2>1. n \in Int
    OBVIOUS
  <2> HIDE DEF n
  <2>2. Transacted(L, D, ch, token, 0, 0, n) /\ Transacted(D, M, ch, token, n, 0, 0)
    BY <1>6, <1>7 DEF n
  <2>3. Transacted(L, M, ch, token, 0 + n, 0 + 0, n + 0)
    BY <1>1, <2>1, <2>2, TransactedTwice
  <2> QED
    BY <2>3 DEF n
<1>9. 0 + (0 - amount) = 0 - amount /\ 0 + 0 = 0 /\ (0 - amount) + 0 = 0 - amount
  OBVIOUS
<1>10. Transacted(L, M, ch, token, 0 - amount, 0, 0 - amount)
  BY <1>8, <1>9
<1>11. M.ok = (L.ok /\ getOutstanding(L, ch, token) >= amount /\ escrowOf(L, token) >= amount)
  BY <1>2, <1>4, <1>5 DEF escrowOf
<1> QED
  BY <1>10, <1>11

(* sendToken: the wrappers of a channel are burnt, other tokens escrowed.  *)
LEMMA SentToken ==
  ASSUME NEW L \in Ledger, NEW ch \in Channel, NEW a \in Holder,
         NEW local \in [denom : DOMAIN L.balance, amount : Nat, fee : 0..FeeMax],
         NEW M, M = sendToken(L, ch, a, local)
  PROVE  /\ M.ok => local.amount # 0
         /\ isWrapper(L, ch, local.denom) =>
              Transacted(L, M, ch, local.denom, 0, 0 - local.amount, 0)
         /\ ~isWrapper(L, ch, local.denom) =>
              Transacted(L, M, ch, local.denom, local.amount, 0, local.amount)
<1> DEFINE token == local.denom
           amount == local.amount
           F == require(L, amount # 0)
<1>1. token \in DOMAIN L.balance /\ token \in Address /\ amount \in Nat
  BY LedgerParts
<1>2. /\ F \in Ledger /\ F.ok = (L.ok /\ amount # 0) /\ F.balance = L.balance
      /\ F.outstanding = L.outstanding /\ F.denomToAddress = L.denomToAddress
  BY Requires
<1>3. a \in Account /\ Escrow \in Account /\ a # Escrow
  BY Holders
<1>4. M = IF isWrapper(L, ch, token) THEN burn(F, token, a, amount)
          ELSE increaseOutstanding(transfer(F, token, a, Escrow, amount), ch, token, amount)
  BY DEF sendToken
<1> HIDE DEF token, amount, F
<1>5. CASE isWrapper(L, ch, token)
  <2>1. Booked(F, M, token, 0, 0 - amount) /\ M.ok = (F.ok /\ F.balance[token][a] >= amount)
    BY <1>1, <1>2, <1>3, <1>4, <1>5, Burnt
  <2>2. Booked(L, M, token, 0, 0 - amount) /\ (M.ok => L.ok /\ amount # 0)
    BY <1>2, <2>1 DEF Booked
  <2>3. Transacted(L, M, ch, token, 0, 0 - amount, 0)
    BY <1>1, <2>2, BookedIs
  <2> QED
    BY <1>5, <2>2, <2>3 DEF token, amount
<1>6. CASE ~isWrapper(L, ch, token)
  <2> DEFINE T == transfer(F, token, a, Escrow, amount)
  <2>1. M = increaseOutstanding(T, ch, token, amount)
    BY <1>4, <1>6
  <2>2. Booked(F, T, token, amount, 0) /\ T.ok = (F.ok /\ F.balance[token][a] >= amount)
    BY <1>1, <1>2, <1>3, Transferred
  <2> HIDE DEF T
  <2>3. Booked(L, T, token, amount, 0) /\ (T.ok => L.ok /\ amount # 0)
    BY <1>2, <2>2 DEF Booked
  <2>4. Transacted(L, T, ch, token, amount, 0, 0)
    BY <1>1, <2>3, BookedIs
  <2>5. T \in Ledger
    BY <2>4 DEF Transacted
  <2>6. Noted(T, M, ch, token, amount) /\ M.ok = T.ok
    BY <1>1, <2>1, <2>5, Increased
  <2>7. Transacted(T, M, ch, token, 0, 0, amount)
    BY <1>1, <2>5, <2>6, NotedIs
  <2>8. Transacted(L, M, ch, token, amount + 0, 0 + 0, 0 + amount)
    BY <1>1, <2>4, <2>7, TransactedTwice
  <2>9. Transacted(L, M, ch, token, amount, 0, amount)
    BY <1>1, <2>8
  <2> QED
    BY <1>6, <2>3, <2>6, <2>9 DEF token, amount
<1> QED
  BY <1>5, <1>6 DEF token

(* refundToken: a wrapper is made again, another token paid out.           *)
LEMMA RefundedToken ==
  ASSUME NEW L \in Ledger, NEW ch \in Channel, NEW a \in Holder,
         NEW token, token.denom \in Address, token.amount \in Nat,
         NEW M, M = refundToken(L, ch, a, token)
  PROVE  /\ token.denom \in L.denomToAddress[ch] /\ token.denom \in DOMAIN L.balance =>
              /\ Transacted(L, M, ch, token.denom, 0, token.amount, 0)
              /\ M.ok = L.ok
         /\ token.denom \notin L.denomToAddress[ch] /\ hexToAddress(token.denom) \in DOMAIN L.balance =>
              LET address == hexToAddress(token.denom) IN
              /\ Transacted(L, M, ch, address, 0 - token.amount, 0, 0 - token.amount)
              /\ M.ok = (L.ok /\ getOutstanding(L, ch, address) >= token.amount
                              /\ escrowOf(L, address) >= token.amount)
<1>1. ASSUME token.denom \in L.denomToAddress[ch], token.denom \in DOMAIN L.balance
      PROVE  Transacted(L, M, ch, token.denom, 0, token.amount, 0) /\ M.ok = L.ok
  <2>1. M = mint(L, token.denom, a, token.amount)
    BY <1>1 DEF refundToken
  <2>2. a \in Account /\ a # Escrow
    BY Holders
  <2>3. Booked(L, M, token.denom, 0, token.amount) /\ M.ok = L.ok
    BY <1>1, <2>1, <2>2, Minted
  <2> QED
    BY <1>1, <2>3, BookedIs
<1>2. ASSUME token.denom \notin L.denomToAddress[ch], hexToAddress(token.denom) \in DOMAIN L.balance
      PROVE  LET address == hexToAddress(token.denom) IN
             /\ Transacted(L, M, ch, address, 0 - token.amount, 0, 0 - token.amount)
             /\ M.ok = (L.ok /\ getOutstanding(L, ch, address) >= token.amount
                             /\ escrowOf(L, address) >= token.amount)
  <2> DEFINE address == hexToAddress(token.denom)
  <2>1. M = transfer(decreaseOutstanding(L, ch, address, token.amount),
                     address, Escrow, a, token.amount)
    BY <1>2 DEF refundToken
  <2> QED
    BY <1>2, <2>1, Unescrowed
<1> QED
  BY <1>1, <1>2

(* onRecvLocalTransfer: a token comes home, and the relayer is paid.       *)
LEMMA ReceivedLocally ==
  ASSUME NEW L \in Ledger, NEW ch \in Channel, NEW denom, hexToAddress(denom) \in DOMAIN L.balance,
         NEW amounts, amounts.actual \in Nat, amounts.fee \in Nat,
         NEW M, M = onRecvLocalTransfer(L, ch, denom, amounts)
  PROVE  LET address == hexToAddress(denom)
             amount == amounts.actual + amounts.fee
         IN /\ Transacted(L, M, ch, address, 0 - amount, 0, 0 - amounts.actual)
            /\ M.ok = (L.ok /\ getOutstanding(L, ch, address) >= amounts.actual
                            /\ escrowOf(L, address) >= amount)
<1> DEFINE address == hexToAddress(denom)
           actual == amounts.actual
           fee == amounts.fee
           P == transfer(decreaseOutstanding(L, ch, address, actual), address, Escrow, User, actual)
<1>1. M = transfer(P, address, Escrow, Relayer, fee)
  BY DEF onRecvLocalTransfer
<1>2. User \in Holder /\ Relayer \in Account /\ Escrow \in Account /\ Relayer # Escrow
  BY Holders
<1>3. address \in DOMAIN L.balance /\ address \in Address /\ actual \in Nat /\ fee \in Nat
  BY LedgerParts
<1> HIDE DEF address, actual, fee
<1>4. /\ Transacted(L, P, ch, address, 0 - actual, 0, 0 - actual)
      /\ P.ok = (L.ok /\ getOutstanding(L, ch, address) >= actual /\ escrowOf(L, address) >= actual)
  BY <1>2, <1>3, Unescrowed
<1> HIDE DEF P
<1>5. P \in Ledger /\ address \in DOMAIN P.balance
  BY <1>3, <1>4 DEF Transacted
<1>6. Booked(P, M, address, 0 - fee, 0) /\ M.ok = (P.ok /\ P.balance[address][Escrow] >= fee)
  <2>1. (IF Relayer = Escrow THEN fee ELSE IF Escrow = Escrow THEN 0 - fee ELSE 0) = 0 - fee
    BY <1>2
  <2> QED
    BY <1>1, <1>2, <1>3, <1>5, <2>1, Transferred
<1>7. Transacted(P, M, ch, address, 0 - fee, 0, 0)
  BY <1>5, <1>6, BookedIs
<1>8. Transacted(L, M, ch, address, (0 - actual) + (0 - fee), 0 + 0, (0 - actual) + 0)
  <2> DEFINE n == 0 - actual
             m == 0 - fee
  <2>1. n \in Int /\ m \in Int
    BY <1>3
  <2> HIDE DEF n, m
  <2>2. Transacted(L, P, ch, address, n, 0, n) /\ Transacted(P, M, ch, address, m, 0, 0)
    BY <1>4, <1>7 DEF n, m
  <2>3. Transacted(L, M, ch, address, n + m, 0 + 0, n + 0)
    BY <1>3, <2>1, <2>2, TransactedTwice
  <2> QED
    BY <2>3 DEF n, m
<1>9. (0 - actual) + (0 - fee) = 0 - (actual + fee) /\ 0 + 0 = 0 /\ (0 - actual) + 0 = 0 - actual
  BY <1>3
<1>10. Transacted(L, M, ch, address, 0 - (actual + fee), 0, 0 - actual)
  BY <1>8, <1>9
<1>11. escrowOf(L, address) \in Nat
  BY <1>3, LedgerAmounts
<1>12. P.ok => P.balance[address][Escrow] = escrowOf(L, address) - actual
  BY <1>3, <1>4, <1>5, <1>11 DEF Transacted, escrowOf
<1>13. ASSUME P.ok
       PROVE  P.balance[address][Escrow] >= fee <=> escrowOf(L, address) >= actual + fee
  BY <1>3, <1>11, <1>12, <1>13
<1>14. escrowOf(L, address) >= actual + fee => escrowOf(L, address) >= actual
  BY <1>3, <1>11
<1>15. M.ok = (L.ok /\ getOutstanding(L, ch, address) >= actual /\ escrowOf(L, address) >= actual + fee)
  <2> DEFINE covered == getOutstanding(L, ch, address) >= actual
             held == escrowOf(L, address) >= actual
             heldBoth == escrowOf(L, address) >= actual + fee
             left == P.balance[address][Escrow] >= fee
  <2>1. P.ok = (L.ok /\ covered /\ held) /\ M.ok = (P.ok /\ left)
    BY <1>4, <1>6
  <2>2. (P.ok => (left <=> heldBoth)) /\ (heldBoth => held)
    BY <1>13, <1>14
  <2>3. L.ok \in BOOLEAN /\ covered \in BOOLEAN /\ held \in BOOLEAN /\ heldBoth \in BOOLEAN /\ left \in BOOLEAN
    BY LedgerParts
  <2> HIDE DEF covered, held, heldBoth, left
  <2>4. M.ok = (L.ok /\ covered /\ heldBoth)
    BY <2>1, <2>2, <2>3, Zenon
  <2> QED
    BY <2>4 DEF covered, heldBoth
<1> QED
  BY <1>10, <1>15 DEF address, actual, fee

(* A wrapper is made: nothing is of it yet.                                *)
newWrapper(L, ch, denom) ==
  [L EXCEPT !.denomToAddress[ch] = @ \cup {denom}, !.balance = put(@, denom, noBalance)]

(* A new wrapper changes no amount.                                        *)
LEMMA WrapperMade ==
  ASSUME NEW L \in Ledger, NEW ch \in Channel, NEW denom \in Address, denom \notin DOMAIN L.balance,
         NEW M, M = newWrapper(L, ch, denom)
  PROVE  /\ M \in Ledger /\ M.ok = L.ok /\ M.outstanding = L.outstanding
         /\ M.denomToAddress = [L.denomToAddress EXCEPT ![ch] = @ \cup {denom}]
         /\ DOMAIN M.balance = DOMAIN L.balance \cup {denom}
         /\ \A t \in Address : /\ escrowOf(M, t) = escrowOf(L, t)
                               /\ supplyOf(M, t) = supplyOf(L, t)
<1>1. L.balance \in Balances
  BY DEF Ledger
<1>2. PICK tokens \in SUBSET Address : L.balance \in [tokens -> [Account -> Nat]]
  BY <1>1 DEF Balances
<1> DEFINE new == put(L.balance, denom, noBalance)
<1>3. noBalance \in [Account -> Nat] /\ noBalance[Escrow] = 0 /\ Escrow \in Account
  BY DEF noBalance, Account
<1>4. new \in [tokens \cup {denom} -> [Account -> Nat]] /\ new[denom] = noBalance
      /\ \A t \in tokens : new[t] = L.balance[t]
  BY <1>2, <1>3 DEF put
<1> DEFINE wrappers == [L.denomToAddress EXCEPT ![ch] = @ \cup {denom}]
<1>5. M = [L EXCEPT !.denomToAddress = wrappers, !.balance = new]
  BY DEF newWrapper
<1>6. wrappers \in [Channel -> SUBSET Address]
  BY DEF Ledger
<1> HIDE DEF new, wrappers
<1>7. /\ M.balance = new /\ M.ok = L.ok /\ M.outstanding = L.outstanding
      /\ M.denomToAddress = wrappers /\ M \in Ledger
  <2>1. new \in Balances
    BY <1>4 DEF Balances
  <2> QED
    BY <1>5, <1>6, <2>1 DEF Ledger
<1>8. SumFunction(noBalance) = 0
  <2>1. IsFiniteSet(Account)
    BY AccountIsFinite
  <2>2. DOMAIN noBalance = Account /\ \A a \in Account : noBalance[a] = 0
    BY DEF noBalance
  <2> QED
    BY <2>1, <2>2, SumOfNothing DEF SumFunction
<1>9. ASSUME NEW t \in Address
      PROVE  escrowOf(M, t) = escrowOf(L, t) /\ supplyOf(M, t) = supplyOf(L, t)
  <2>1. CASE t = denom
    BY <1>3, <1>4, <1>7, <1>8, <2>1 DEF escrowOf, supplyOf
  <2>2. CASE t # denom
    <3>1. t \in DOMAIN M.balance <=> t \in DOMAIN L.balance
      BY <1>2, <1>4, <1>7, <2>2
    <3>2. t \in DOMAIN L.balance => M.balance[t] = L.balance[t]
      BY <1>2, <1>4, <1>7
    <3> QED
      BY <3>1, <3>2 DEF escrowOf, supplyOf
  <2> QED
    BY <2>1, <2>2
<1>10. DOMAIN M.balance = DOMAIN L.balance \cup {denom}
  BY <1>2, <1>4, <1>7
<1> QED
  BY <1>7, <1>9, <1>10 DEF wrappers

-----------------------------------------------------------------------------
(* What an operation on a chain c and a channel ch does to the books *)

(* The address of the wrapper on c of the other chain's token T.           *)
wrapped(c, ch, T) == makeForeignDenom(c, ch, toHexString(T))

(* The wrapper of a token on a channel is the token's, and of no other     *)
(* channel or token, and is not a token's address in hex.                  *)
LEMMA Wrapped ==
  ASSUME NEW c \in Chain, NEW ch \in Channel, NEW T \in Address
  PROVE  /\ wrapped(c, ch, T) \in Address /\ toHexString(T) \in Address
         /\ Tail(wrapped(c, ch, T)) = toHexString(T) /\ hexToAddress(toHexString(T)) = T
         /\ isFromChannel(c, ch, wrapped(c, ch, T)) /\ ~isFromChannel(c, ch, toHexString(T))
         /\ \A U \in Address : toHexString(U) = toHexString(T) => U = T
         /\ \A U \in Address : toHexString(U) # wrapped(c, ch, T)
         /\ \A o \in Channel, U \in Address : wrapped(c, o, U) = wrapped(c, ch, T) => o = ch /\ U = T
<1>1. toHexString(T) \in Address /\ hexToAddress(toHexString(T)) = T /\ Head(toHexString(T)) = Hex
      /\ \A U \in Address : toHexString(U) \in Address /\ hexToAddress(toHexString(U)) = U
                            /\ Head(toHexString(U)) = Hex
  BY Denominations
<1>2. \A o \in Channel, U \in Address :
        /\ wrapped(c, o, U) \in Address
        /\ Head(wrapped(c, o, U)) = Endpoint[c][o]
        /\ Tail(wrapped(c, o, U)) = toHexString(U)
  BY <1>1, Denominations DEF wrapped
<1>3. isFromChannel(c, ch, wrapped(c, ch, T)) /\ ~isFromChannel(c, ch, toHexString(T))
  BY <1>1, FromChannel DEF wrapped
<1>4. \A U \in Address : toHexString(U) # wrapped(c, ch, T)
  BY <1>1, <1>2, Ends
<1>5. ASSUME NEW o \in Channel, NEW U \in Address, wrapped(c, o, U) = wrapped(c, ch, T)
      PROVE  o = ch /\ U = T
  <2>1. Endpoint[c][o] = Endpoint[c][ch] /\ toHexString(U) = toHexString(T)
    BY <1>2, <1>5
  <2> QED
    BY <1>1, <2>1, RelayAssumption
<1>6. \A U \in Address : toHexString(U) = toHexString(T) => U = T
  BY <1>1
<1> QED
  BY <1>1, <1>2, <1>3, <1>4, <1>5, <1>6

(* The relay of c knows the wrappers it made.                              *)
Known(c, L) ==
  /\ L \in Ledger
  /\ \A ch \in Channel :
       /\ L.denomToAddress[ch] = {t \in DOMAIN L.balance : isFromChannel(c, ch, t)}
       /\ \A t \in L.denomToAddress[ch] : \E T \in Address : t = wrapped(c, ch, T)

(* M is L, but for what x adds to the escrow and, unless fees were paid,   *)
(* to what is outstanding on ch, and y to the supply of wrappers.          *)
Shift(c, ch, L, M, x, y) ==
  /\ Known(c, M)
  /\ \A o \in Channel : L.denomToAddress[o] \subseteq M.denomToAddress[o]
  /\ \A T \in Address :
       /\ escrowOf(M, T) = escrowOf(L, T) + x[T]
       /\ getOutstanding(M, ch, T) >= getOutstanding(L, ch, T) + x[T]
       /\ supplyOf(M, wrapped(c, ch, T)) = supplyOf(L, wrapped(c, ch, T)) + y[T]
       /\ \A o \in Channel \ {ch} :
            /\ getOutstanding(M, o, T) = getOutstanding(L, o, T)
            /\ supplyOf(M, wrapped(c, o, T)) = supplyOf(L, wrapped(c, o, T))

only(T, n) == [U \in Address |-> IF U = T THEN n ELSE 0]
nothing == [U \in Address |-> 0]
both(x, z) == [U \in Address |-> x[U] + z[U]]

(* The relay knows its wrappers as long as it makes none.                  *)
LEMMA KnownKept ==
  ASSUME NEW c, NEW L, NEW M, Known(c, L), M \in Ledger,
         M.denomToAddress = L.denomToAddress, DOMAIN M.balance = DOMAIN L.balance
  PROVE  Known(c, M)
BY DEF Known

(* The escrow of one token changes.                                        *)
LEMMA EscrowShifts ==
  ASSUME NEW c \in Chain, NEW ch \in Channel, NEW L, Known(c, L), NEW M, M.ok,
         NEW token \in Address, token \in DOMAIN L.balance, NEW e \in Int, NEW o \in Int, o >= e,
         Transacted(L, M, ch, token, e, 0, o)
  PROVE  Shift(c, ch, L, M, only(token, e), nothing)
<1>1. L \in Ledger
  BY DEF Known
<1>2. Known(c, M) /\ M.denomToAddress = L.denomToAddress
  BY KnownKept DEF Transacted
<1>3. \A t \in Address : supplyOf(M, t) = supplyOf(L, t) /\ supplyOf(L, t) \in Nat
  <2>1. supplyOf(M, token) = supplyOf(L, token) + 0 /\ supplyOf(L, token) \in Nat
    BY <1>1, LedgerAmounts DEF Transacted
  <2> QED
    BY <1>1, <2>1, LedgerAmounts DEF Transacted
<1>4. ASSUME NEW T \in Address
      PROVE  /\ escrowOf(M, T) = escrowOf(L, T) + only(token, e)[T]
             /\ getOutstanding(M, ch, T) >= getOutstanding(L, ch, T) + only(token, e)[T]
             /\ \A p \in Channel \ {ch} : getOutstanding(M, p, T) = getOutstanding(L, p, T)
  <2>1. escrowOf(L, T) \in Nat /\ getOutstanding(L, ch, T) \in Nat
    BY <1>1, LedgerAmounts
  <2>2. only(token, e)[T] = IF T = token THEN e ELSE 0
    BY DEF only
  <2>3. \A p \in Channel \ {ch} : getOutstanding(M, p, T) = getOutstanding(L, p, T)
    BY DEF Transacted
  <2>4. CASE T = token
    BY <2>1, <2>2, <2>3, <2>4 DEF Transacted
  <2>5. CASE T # token
    <3>1. escrowOf(M, T) = escrowOf(L, T) /\ getOutstanding(M, ch, T) = getOutstanding(L, ch, T)
      BY <2>5 DEF Transacted
    <3> QED
      BY <2>1, <2>2, <2>3, <2>5, <3>1
  <2> QED
    BY <2>4, <2>5
<1>5. ASSUME NEW T \in Address
      PROVE  /\ supplyOf(M, wrapped(c, ch, T)) = supplyOf(L, wrapped(c, ch, T)) + nothing[T]
             /\ \A p \in Channel \ {ch} :
                  supplyOf(M, wrapped(c, p, T)) = supplyOf(L, wrapped(c, p, T))
  BY <1>3, Wrapped DEF nothing
<1> HIDE DEF only, nothing
<1> QED
  BY <1>2, <1>4, <1>5 DEF Shift

(* The supply of one wrapper changes.                                      *)
LEMMA SupplyShifts ==
  ASSUME NEW c \in Chain, NEW ch \in Channel, NEW L, Known(c, L), NEW M, M.ok,
         NEW token \in Address, wrapped(c, ch, token) \in DOMAIN L.balance, NEW s \in Int,
         Transacted(L, M, ch, wrapped(c, ch, token), 0, s, 0)
  PROVE  Shift(c, ch, L, M, nothing, only(token, s))
<1> DEFINE w == wrapped(c, ch, token)
<1>1. L \in Ledger /\ w \in Address
  BY Wrapped DEF Known
<1>2. Known(c, M) /\ M.denomToAddress = L.denomToAddress
  BY KnownKept DEF Transacted
<1>3. ASSUME NEW T \in Address
      PROVE  /\ escrowOf(M, T) = escrowOf(L, T) + nothing[T]
             /\ getOutstanding(M, ch, T) >= getOutstanding(L, ch, T) + nothing[T]
             /\ \A p \in Channel \ {ch} : getOutstanding(M, p, T) = getOutstanding(L, p, T)
  <2>1. escrowOf(L, T) \in Nat /\ getOutstanding(L, ch, T) \in Nat /\ nothing[T] = 0
    BY <1>1, LedgerAmounts DEF nothing
  <2>2. escrowOf(M, T) = escrowOf(L, T) + 0 /\ getOutstanding(M, ch, T) = getOutstanding(L, ch, T) + 0
    <3>1. CASE T = w
      BY <3>1 DEF Transacted
    <3>2. CASE T # w
      BY <2>1, <3>2 DEF Transacted
    <3> QED
      BY <3>1, <3>2
  <2> QED
    BY <2>1, <2>2 DEF Transacted
<1>4. ASSUME NEW T \in Address
      PROVE  /\ supplyOf(M, wrapped(c, ch, T)) = supplyOf(L, wrapped(c, ch, T)) + only(token, s)[T]
             /\ \A p \in Channel \ {ch} :
                  supplyOf(M, wrapped(c, p, T)) = supplyOf(L, wrapped(c, p, T))
  <2>1. only(token, s)[T] = IF T = token THEN s ELSE 0
    BY DEF only
  <2>2. ASSUME NEW p \in Channel, p # ch
        PROVE  supplyOf(M, wrapped(c, p, T)) = supplyOf(L, wrapped(c, p, T))
    <3>1. wrapped(c, p, T) # w /\ wrapped(c, p, T) \in Address
      BY <2>2, Wrapped
    <3> QED
      BY <3>1 DEF Transacted
  <2>3. CASE T = token
    BY <2>1, <2>2, <2>3 DEF Transacted
  <2>4. CASE T # token
    <3>1. wrapped(c, ch, T) # w /\ wrapped(c, ch, T) \in Address
      BY <2>4, Wrapped
    <3>2. supplyOf(L, wrapped(c, ch, T)) \in Nat
      BY <1>1, <3>1, LedgerAmounts
    <3> QED
      BY <2>1, <2>2, <2>4, <3>1, <3>2 DEF Transacted
  <2> QED
    BY <2>3, <2>4
<1> HIDE DEF only, nothing
<1> QED
  BY <1>2, <1>3, <1>4 DEF Shift

(* Two ledgers with the same amounts: what shifts one shifts the other.    *)
SameAmounts(L, M) ==
  /\ \A o \in Channel : L.denomToAddress[o] \subseteq M.denomToAddress[o]
  /\ \A t \in Address : /\ escrowOf(M, t) = escrowOf(L, t) /\ supplyOf(M, t) = supplyOf(L, t)
                        /\ \A o \in Channel : getOutstanding(M, o, t) = getOutstanding(L, o, t)

(* Ledgers with the same amounts are shifted alike.                        *)
LEMMA ShiftFrom ==
  ASSUME NEW c \in Chain, NEW ch \in Channel, NEW L, NEW M, NEW N, NEW x, NEW y,
         SameAmounts(L, M), Shift(c, ch, M, N, x, y)
  PROVE  Shift(c, ch, L, N, x, y)
<1>1. \A T \in Address, o \in Channel : wrapped(c, o, T) \in Address
  BY Wrapped
<1>2. \A o \in Channel : L.denomToAddress[o] \subseteq N.denomToAddress[o]
  BY DEF Shift, SameAmounts
<1>3. \A T \in Address :
       /\ escrowOf(N, T) = escrowOf(L, T) + x[T]
       /\ getOutstanding(N, ch, T) >= getOutstanding(L, ch, T) + x[T]
       /\ supplyOf(N, wrapped(c, ch, T)) = supplyOf(L, wrapped(c, ch, T)) + y[T]
       /\ \A o \in Channel \ {ch} :
            /\ getOutstanding(N, o, T) = getOutstanding(L, o, T)
            /\ supplyOf(N, wrapped(c, o, T)) = supplyOf(L, wrapped(c, o, T))
  BY <1>1 DEF Shift, SameAmounts
<1> QED
  BY <1>2, <1>3 DEF Shift

(* require changes no amount.                                              *)
LEMMA RequireSame ==
  ASSUME NEW c, NEW L, Known(c, L), NEW condition \in BOOLEAN
  PROVE  SameAmounts(L, require(L, condition)) /\ Known(c, require(L, condition))
         /\ require(L, condition).ok = (L.ok /\ condition)
         /\ require(L, condition).balance = L.balance
         /\ require(L, condition).denomToAddress = L.denomToAddress
<1> DEFINE R == require(L, condition)
<1>1. /\ R \in Ledger /\ R.balance = L.balance /\ R.outstanding = L.outstanding
      /\ R.denomToAddress = L.denomToAddress /\ R.ok = (L.ok /\ condition)
  BY Requires DEF Known
<1> HIDE DEF R
<1>2. SameAmounts(L, R)
  BY <1>1 DEF SameAmounts, escrowOf, supplyOf, getOutstanding
<1>3. Known(c, R)
  BY <1>1, KnownKept
<1> QED
  BY <1>1, <1>2, <1>3 DEF R

(* Two shifts add up.                                                      *)
LEMMA ShiftTwice ==
  ASSUME NEW c \in Chain, NEW ch \in Channel, NEW L \in Ledger, NEW M, NEW N,
         NEW x \in [Address -> Int], NEW y \in [Address -> Int],
         NEW z \in [Address -> Int], NEW w \in [Address -> Int],
         Shift(c, ch, L, M, x, y), Shift(c, ch, M, N, z, w)
  PROVE  Shift(c, ch, L, N, both(x, z), both(y, w))
<1>1. \A o \in Channel : L.denomToAddress[o] \subseteq N.denomToAddress[o]
  BY DEF Shift
<1>2. ASSUME NEW T \in Address
      PROVE  /\ escrowOf(N, T) = escrowOf(L, T) + both(x, z)[T]
             /\ getOutstanding(N, ch, T) >= getOutstanding(L, ch, T) + both(x, z)[T]
             /\ supplyOf(N, wrapped(c, ch, T)) = supplyOf(L, wrapped(c, ch, T)) + both(y, w)[T]
             /\ \A o \in Channel \ {ch} :
                  /\ getOutstanding(N, o, T) = getOutstanding(L, o, T)
                  /\ supplyOf(N, wrapped(c, o, T)) = supplyOf(L, wrapped(c, o, T))
  <2>1. both(x, z)[T] = x[T] + z[T] /\ both(y, w)[T] = y[T] + w[T]
    BY DEF both
  <2>2. x[T] \in Int /\ z[T] \in Int /\ y[T] \in Int /\ w[T] \in Int
    OBVIOUS
  <2>3. wrapped(c, ch, T) \in Address /\ M \in Ledger /\ N \in Ledger
    BY Wrapped DEF Shift, Known
  <2>4. /\ escrowOf(L, T) \in Nat /\ supplyOf(L, wrapped(c, ch, T)) \in Nat
        /\ getOutstanding(L, ch, T) \in Nat /\ getOutstanding(M, ch, T) \in Nat
        /\ getOutstanding(N, ch, T) \in Nat
    BY <2>3, LedgerAmounts
  <2>5. /\ escrowOf(M, T) = escrowOf(L, T) + x[T]
        /\ escrowOf(N, T) = escrowOf(M, T) + z[T]
        /\ getOutstanding(M, ch, T) >= getOutstanding(L, ch, T) + x[T]
        /\ getOutstanding(N, ch, T) >= getOutstanding(M, ch, T) + z[T]
        /\ supplyOf(M, wrapped(c, ch, T)) = supplyOf(L, wrapped(c, ch, T)) + y[T]
        /\ supplyOf(N, wrapped(c, ch, T)) = supplyOf(M, wrapped(c, ch, T)) + w[T]
    BY DEF Shift
  <2>6. \A o \in Channel \ {ch} :
          /\ getOutstanding(N, o, T) = getOutstanding(L, o, T)
          /\ supplyOf(N, wrapped(c, o, T)) = supplyOf(L, wrapped(c, o, T))
    BY DEF Shift
  <2> QED
    BY <2>1, <2>2, <2>4, <2>5, <2>6
<1> QED
  BY <1>1, <1>2 DEF Shift

(* recvToken, of a token T of c that comes home.                           *)
ComesHome(c, ch, L, M, receiver, T, amount) ==
  /\ Known(c, M) /\ DOMAIN L.balance \subseteq DOMAIN M.balance
  /\ M.ok => L.ok /\ Shift(c, ch, L, M, only(T, 0 - amount), nothing)
  /\ L.ok /\ amount # 0 /\ receiver # BadReceiver
       /\ getOutstanding(L, ch, T) >= amount /\ escrowOf(L, T) >= amount
     => M.ok

(* A token that comes home leaves the escrow, and is outstanding no more.  *)
LEMMA ReceivedHome ==
  ASSUME NEW c \in Chain, NEW ch \in Channel, NEW L, Known(c, L), NEW receiver,
         NEW T \in Address, T \in DOMAIN L.balance,
         NEW token, token.denom = wrapped(counterparty(c), ch, T),
         token.amount \in Nat, token.fee \in 0..FeeMax,
         NEW M, M = recvToken(L, c, ch, receiver, token)
  PROVE  ComesHome(c, ch, L, M, receiver, T, token.amount)
<1> DEFINE d == counterparty(c)
           amounts == calculateFee(token.amount, token.fee)
           condition == token.amount # 0 /\ receiver # BadReceiver
           R == require(L, condition)
<1>1. d \in Chain /\ isFromChannel(d, ch, token.denom) /\ Tail(token.denom) = toHexString(T)
      /\ hexToAddress(toHexString(T)) = T
  BY Others, Wrapped
<1>2. /\ amounts.actual \in Nat /\ amounts.fee \in Nat
      /\ amounts.actual + amounts.fee = token.amount
  BY FeeSplits
<1>3. M = onRecvLocalTransfer(R, ch, toHexString(T), amounts)
  BY <1>1 DEF recvToken
<1>4. /\ SameAmounts(L, R) /\ Known(c, R) /\ R.ok = (L.ok /\ condition)
      /\ R.balance = L.balance /\ R.denomToAddress = L.denomToAddress
  BY RequireSame
<1> HIDE DEF R, amounts
<1>5. R \in Ledger
  BY <1>4 DEF Known
<1>6. /\ Transacted(R, M, ch, T, 0 - (amounts.actual + amounts.fee), 0, 0 - amounts.actual)
      /\ M.ok = (R.ok /\ getOutstanding(R, ch, T) >= amounts.actual
                      /\ escrowOf(R, T) >= amounts.actual + amounts.fee)
  <2> DEFINE denom == toHexString(T)
  <2>1. hexToAddress(denom) = T /\ hexToAddress(denom) \in DOMAIN R.balance
        /\ M = onRecvLocalTransfer(R, ch, denom, amounts)
    BY <1>1, <1>3, <1>4
  <2> HIDE DEF denom
  <2> QED
    BY <1>2, <1>5, <2>1, ReceivedLocally
<1>7. Transacted(R, M, ch, T, 0 - token.amount, 0, 0 - amounts.actual)
  BY <1>2, <1>6
<1>8. M.denomToAddress = L.denomToAddress /\ DOMAIN M.balance = DOMAIN L.balance /\ M \in Ledger
  BY <1>4, <1>6 DEF Transacted
<1>9. Known(c, M)
  BY <1>8, KnownKept
<1>10. ASSUME M.ok
       PROVE  Shift(c, ch, L, M, only(T, 0 - token.amount), nothing)
  <2>1. 0 - token.amount \in Int /\ 0 - amounts.actual \in Int /\ 0 - amounts.actual >= 0 - token.amount
    BY <1>2
  <2>2. Shift(c, ch, R, M, only(T, 0 - token.amount), nothing)
    BY <1>4, <1>7, <1>10, <2>1, EscrowShifts
  <2> QED
    BY <1>4, <2>2, ShiftFrom
<1>11. getOutstanding(R, ch, T) = getOutstanding(L, ch, T) /\ escrowOf(R, T) = escrowOf(L, T)
  BY <1>4 DEF SameAmounts
<1>12. getOutstanding(L, ch, T) \in Nat
  BY LedgerAmounts DEF Known
<1>13. getOutstanding(L, ch, T) >= token.amount => getOutstanding(L, ch, T) >= amounts.actual
  BY <1>2, <1>12
<1>14. M.ok => L.ok
  BY <1>4, <1>6
<1> QED
  BY <1>2, <1>4, <1>6, <1>8, <1>9, <1>10, <1>11, <1>13, <1>14 DEF ComesHome

(* onRecvRemoteTransfer: the wrapper is there before anything is minted.   *)
withWrapper(L, ch, denom) ==
  IF denom \in L.denomToAddress[ch] THEN L
  ELSE [L EXCEPT !.denomToAddress[ch] = @ \cup {denom}, !.balance = put(@, denom, noBalance)]

(* The relay knows the wrapper once it is there.                           *)
LEMMA WrapperKnown ==
  ASSUME NEW c \in Chain, NEW ch \in Channel, NEW L, Known(c, L), NEW T \in Address,
         NEW M, M = withWrapper(L, ch, wrapped(c, ch, T))
  PROVE  /\ Known(c, M) /\ SameAmounts(L, M) /\ M.ok = L.ok
         /\ wrapped(c, ch, T) \in DOMAIN M.balance
         /\ DOMAIN L.balance \subseteq DOMAIN M.balance
<1> DEFINE w == wrapped(c, ch, T)
<1>1. w \in Address /\ isFromChannel(c, ch, w) /\ L \in Ledger
  BY Wrapped DEF Known
<1>2. CASE w \in L.denomToAddress[ch]
  <2>1. M = L
    BY <1>2 DEF withWrapper
  <2>2. w \in DOMAIN L.balance
    BY <1>2 DEF Known
  <2> QED
    BY <2>1, <2>2 DEF SameAmounts
<1>3. CASE w \notin L.denomToAddress[ch]
  <2>1. w \notin DOMAIN L.balance
    BY <1>1, <1>3 DEF Known
  <2>2. M = newWrapper(L, ch, w)
    BY <1>3 DEF withWrapper, newWrapper
  <2>3. /\ M \in Ledger /\ M.ok = L.ok /\ M.outstanding = L.outstanding
        /\ M.denomToAddress = [L.denomToAddress EXCEPT ![ch] = @ \cup {w}]
        /\ DOMAIN M.balance = DOMAIN L.balance \cup {w}
        /\ \A t \in Address : /\ escrowOf(M, t) = escrowOf(L, t)
                              /\ supplyOf(M, t) = supplyOf(L, t)
    <3> HIDE DEF w
    <3> QED
      BY <1>1, <2>1, <2>2, WrapperMade
  <2>4. L.denomToAddress \in [Channel -> SUBSET Address]
    BY <1>1 DEF Ledger
  <2>5. \A o \in Channel : M.denomToAddress[o] = IF o = ch THEN L.denomToAddress[o] \cup {w} ELSE L.denomToAddress[o]
    BY <2>3, <2>4
  <2>6. \A o \in Channel : isFromChannel(c, o, w) <=> o = ch
    BY <1>1, FromChannel, Wrapped DEF wrapped
  <2>7. ASSUME NEW o \in Channel
        PROVE  /\ M.denomToAddress[o] = {t \in DOMAIN M.balance : isFromChannel(c, o, t)}
               /\ \A t \in M.denomToAddress[o] : \E U \in Address : t = wrapped(c, o, U)
    <3>1. L.denomToAddress[o] = {t \in DOMAIN L.balance : isFromChannel(c, o, t)}
          /\ \A t \in L.denomToAddress[o] : \E U \in Address : t = wrapped(c, o, U)
      BY DEF Known
    <3>2. isFromChannel(c, o, w) <=> o = ch
      BY <2>6
    <3>3. M.denomToAddress[o] = IF o = ch THEN L.denomToAddress[o] \cup {w} ELSE L.denomToAddress[o]
      BY <2>5
    <3> HIDE DEF w
    <3>4. M.denomToAddress[o] = {t \in DOMAIN M.balance : isFromChannel(c, o, t)}
      BY <2>3, <3>1, <3>2, <3>3
    <3>5. \A t \in M.denomToAddress[o] : \E U \in Address : t = wrapped(c, o, U)
      BY <3>1, <3>3 DEF w
    <3> QED
      BY <3>4, <3>5
  <2>8. Known(c, M)
    BY <2>3, <2>7 DEF Known
  <2>9. \A t \in Address, o \in Channel : getOutstanding(M, o, t) = getOutstanding(L, o, t)
    BY <2>3 DEF getOutstanding
  <2> QED
    BY <2>3, <2>5, <2>8, <2>9 DEF SameAmounts
<1> QED
  BY <1>2, <1>3

(* recvToken, of a token T of the other chain.                             *)
ComesAbroad(c, ch, L, M, receiver, T, amount) ==
  /\ Known(c, M) /\ DOMAIN L.balance \subseteq DOMAIN M.balance
  /\ M.ok => L.ok /\ Shift(c, ch, L, M, nothing, only(T, amount))
  /\ L.ok /\ amount # 0 /\ receiver # BadReceiver => M.ok

(* A token of the other chain is minted, its wrapper made if there is      *)
(* none.                                                                   *)
LEMMA ReceivedAbroad ==
  ASSUME NEW c \in Chain, NEW ch \in Channel, NEW L, Known(c, L), NEW receiver,
         NEW T \in Address, NEW token, token.denom = toHexString(T),
         token.amount \in Nat, token.fee \in 0..FeeMax,
         NEW M, M = recvToken(L, c, ch, receiver, token)
  PROVE  ComesAbroad(c, ch, L, M, receiver, T, token.amount)
<1> DEFINE w == wrapped(c, ch, T)
           amounts == calculateFee(token.amount, token.fee)
           condition == token.amount # 0 /\ receiver # BadReceiver
           R == require(L, condition)
           W == withWrapper(R, ch, w)
           P == mint(W, w, User, amounts.actual)
<1>1. counterparty(c) \in Chain /\ ~isFromChannel(counterparty(c), ch, token.denom)
  BY Others, Wrapped
<1>2. /\ amounts.actual \in Nat /\ amounts.fee \in Nat
      /\ amounts.actual + amounts.fee = token.amount
  BY FeeSplits
<1>3. M = mint(P, w, Relayer, amounts.fee)
  BY <1>1 DEF recvToken, onRecvRemoteTransfer, withWrapper, wrapped
<1>4. /\ SameAmounts(L, R) /\ Known(c, R) /\ R.ok = (L.ok /\ condition)
      /\ R.balance = L.balance /\ R.denomToAddress = L.denomToAddress
  BY RequireSame
<1>5. /\ Known(c, W) /\ SameAmounts(R, W) /\ W.ok = R.ok /\ w \in DOMAIN W.balance
      /\ DOMAIN R.balance \subseteq DOMAIN W.balance
  <2> HIDE DEF R
  <2> QED
    BY <1>4, WrapperKnown
<1>6. W \in Ledger /\ w \in Address /\ User \in Account /\ User # Escrow
      /\ Relayer \in Account /\ Relayer # Escrow
  BY <1>5, Wrapped, Holders DEF Known, Holder
<1> HIDE DEF amounts, R, W, w
<1>7. Booked(W, P, w, 0, amounts.actual) /\ P.ok = W.ok
  BY <1>2, <1>5, <1>6, Minted
<1>8. P \in Ledger /\ w \in DOMAIN P.balance
  BY <1>5, <1>7 DEF Booked
<1>9. Booked(P, M, w, 0, amounts.fee) /\ M.ok = P.ok
  BY <1>2, <1>3, <1>6, <1>8, Minted
<1>10. Booked(W, M, w, 0, token.amount)
  <2>1. Booked(W, M, w, 0 + 0, amounts.actual + amounts.fee)
    <3> HIDE DEF P
    <3> QED
      BY <1>2, <1>5, <1>6, <1>7, <1>9, BookedTwice
  <2> QED
    BY <1>2, <2>1
<1>11. M.ok = (L.ok /\ condition)
  BY <1>4, <1>5, <1>7, <1>9
<1>12. Transacted(W, M, ch, w, 0, token.amount, 0)
  BY <1>5, <1>6, <1>7, <1>9, <1>10, BookedIs
<1>13. M \in Ledger /\ M.denomToAddress = W.denomToAddress /\ DOMAIN M.balance = DOMAIN W.balance
  BY <1>12 DEF Transacted
<1>14. Known(c, M)
  BY <1>5, <1>13, KnownKept
<1>15. SameAmounts(L, W)
  BY <1>4, <1>5 DEF SameAmounts
<1>16. ASSUME M.ok
       PROVE  Shift(c, ch, L, M, nothing, only(T, token.amount))
  <2>1. Shift(c, ch, W, M, nothing, only(T, token.amount))
    BY <1>5, <1>12, <1>16, SupplyShifts DEF w
  <2> QED
    BY <1>15, <2>1, ShiftFrom
<1>17. DOMAIN L.balance \subseteq DOMAIN M.balance
  BY <1>4, <1>5, <1>13
<1> QED
  BY <1>11, <1>14, <1>16, <1>17 DEF ComesAbroad

-----------------------------------------------------------------------------
(* What the tokens of a packet move *)

(* The tokens of a packet add up.                                          *)
Additive(tokens) ==
  /\ Len(tokens) \in Nat /\ DOMAIN tokens = 1..Len(tokens)
  /\ \A i \in 1..Len(tokens) : tokens[i].amount \in Nat

(* What its first i tokens have of denom.                                  *)
carriedTo(tokens, i, denom) ==
  SumFunctionOnSet([j \in DOMAIN tokens |-> tokens[j].amount], {j \in 1..i : tokens[j].denom = denom})

(* The amounts of a packet's tokens add up one by one.                     *)
LEMMA CarriedTo ==
  ASSUME NEW tokens, Additive(tokens), NEW denom
  PROVE  /\ carriedTo(tokens, 0, denom) = 0
         /\ carriedTo(tokens, Len(tokens), denom) = carried(tokens, denom)
         /\ \A i \in 0..Len(tokens) : /\ carriedTo(tokens, i, denom) \in Nat
                                      /\ carriedTo(tokens, i, denom) <= carried(tokens, denom)
         /\ \A i \in 1..Len(tokens) :
              carriedTo(tokens, i, denom) =
                carriedTo(tokens, i - 1, denom) + (IF tokens[i].denom = denom THEN tokens[i].amount ELSE 0)
<1> DEFINE n == Len(tokens)
           amounts == [j \in DOMAIN tokens |-> tokens[j].amount]
           first(i) == {j \in 1..i : tokens[j].denom = denom}
<1>1. n \in Nat /\ DOMAIN tokens = 1..n /\ IsFiniteSet(1..n)
  BY FS_Interval DEF Additive
<1>2. \A j \in 1..n : amounts[j] \in Nat
  BY DEF Additive
<1>3. \A i : carriedTo(tokens, i, denom) = SumFunctionOnSet(amounts, first(i))
  BY DEF carriedTo
<1>4. carried(tokens, denom) = SumFunctionOnSet(amounts, first(n))
  BY <1>1 DEF carried
<1>5. \A i \in 0..n : first(i) \in SUBSET first(n) /\ first(i) \in SUBSET (1..n)
  BY <1>1
<1> HIDE DEF amounts, n
<1>6. Counts(amounts, first(n))
  <2>1. IsFiniteSet(first(n))
    BY <1>1, FS_Subset
  <2> QED
    BY <1>2, <2>1 DEF Counts
<1>7. \A i \in 0..n : Counts(amounts, first(i)) /\ SumFunctionOnSet(amounts, first(i)) \in Nat
                      /\ SumFunctionOnSet(amounts, first(i)) <= SumFunctionOnSet(amounts, first(n))
  <2> HIDE DEF first
  <2> QED
    BY <1>5, <1>6, SumCounts, SumOfPart
<1>8. SumFunctionOnSet(amounts, first(0)) = 0
  <2>1. first(0) = {}
    OBVIOUS
  <2> QED
    BY <2>1, FS_EmptySet, SumEquation
<1>9. ASSUME NEW i \in 1..n
      PROVE  SumFunctionOnSet(amounts, first(i)) =
               SumFunctionOnSet(amounts, first(i - 1)) + (IF tokens[i].denom = denom THEN tokens[i].amount ELSE 0)
  <2>1. i \in Nat /\ i - 1 \in Nat /\ i \in 0..n /\ i - 1 \in 0..n /\ amounts[i] = tokens[i].amount
    BY <1>1 DEF amounts
  <2>2. CASE tokens[i].denom = denom
    <3>1. first(i) = first(i - 1) \cup {i} /\ i \notin first(i - 1)
      BY <2>1, <2>2
    <3>2. Counts(amounts, first(i))
      BY <1>7, <2>1
    <3> HIDE DEF first
    <3>3. SumFunctionOnSet(amounts, first(i)) = SumFunctionOnSet(amounts, first(i - 1)) + amounts[i]
      BY <3>1, <3>2, SumWith
    <3> QED
      BY <2>1, <2>2, <3>3
  <2>3. CASE tokens[i].denom # denom
    <3>1. first(i) = first(i - 1)
      BY <2>1, <2>3
    <3>2. SumFunctionOnSet(amounts, first(i - 1)) \in Nat
      BY <1>7, <2>1
    <3> HIDE DEF first
    <3> QED
      BY <2>3, <3>1, <3>2
  <2> QED
    BY <2>2, <2>3
<1> HIDE DEF first
<1>10. /\ carriedTo(tokens, 0, denom) = 0 /\ carriedTo(tokens, n, denom) = carried(tokens, denom)
       /\ \A i \in 0..n : /\ carriedTo(tokens, i, denom) \in Nat
                          /\ carriedTo(tokens, i, denom) <= carried(tokens, denom)
  BY <1>3, <1>4, <1>7, <1>8
<1>11. \A i \in 1..n : carriedTo(tokens, i, denom) =
         carriedTo(tokens, i - 1, denom) + (IF tokens[i].denom = denom THEN tokens[i].amount ELSE 0)
  BY <1>3, <1>9
<1> QED
  BY <1>10, <1>11 DEF n

(* How the packets of s on ch name the token T of c.                       *)
named(s, c, ch, T) == IF s = c THEN toHexString(T) ELSE wrapped(s, ch, T)

(* A packet names each token in its own way, whichever chain sent it.      *)
LEMMA Named ==
  ASSUME NEW s \in Chain, NEW c \in Chain, NEW ch \in Channel, NEW T \in Address
  PROVE  /\ named(s, c, ch, T) \in Address
         /\ \A U \in Address : /\ named(s, c, ch, U) = named(s, c, ch, T) <=> U = T
                               /\ named(s, counterparty(c), ch, U) # named(s, c, ch, T)
<1>1. counterparty(c) # c /\ (s = c \/ s = counterparty(c))
  BY Others
<1>2. CASE s = c
  BY <1>1, <1>2, Wrapped DEF named
<1>3. CASE s # c
  <2>1. s = counterparty(c)
    BY <1>1, <1>3
  <2>2. \A U \in Address : named(s, c, ch, U) = wrapped(s, ch, U)
                           /\ named(s, counterparty(c), ch, U) = toHexString(U)
    BY <1>3, <2>1 DEF named
  <2>3. wrapped(s, ch, T) \in Address
        /\ \A U \in Address : /\ wrapped(s, ch, U) = wrapped(s, ch, T) => U = T
                              /\ toHexString(U) # wrapped(s, ch, T)
    BY Wrapped
  <2> QED
    BY <2>2, <2>3
<1> QED
  BY <1>2, <1>3

(* The amount of the first i tokens is that of the first i - 1 and the     *)
(* next one's.                                                             *)
LEMMA CarriedNext ==
  ASSUME NEW tokens, Additive(tokens), NEW i \in 1..Len(tokens)
  PROVE  \A D : /\ carriedTo(tokens, i - 1, D) \in Nat /\ carriedTo(tokens, i, D) \in Nat
                /\ carriedTo(tokens, i, D) =
                     carriedTo(tokens, i - 1, D) + (IF tokens[i].denom = D THEN tokens[i].amount ELSE 0)
                /\ carriedTo(tokens, i, D) <= carried(tokens, D) /\ carried(tokens, D) \in Nat
<1> SUFFICES ASSUME NEW D
             PROVE  /\ carriedTo(tokens, i - 1, D) \in Nat /\ carriedTo(tokens, i, D) \in Nat
                    /\ carriedTo(tokens, i, D) =
                         carriedTo(tokens, i - 1, D) + (IF tokens[i].denom = D THEN tokens[i].amount ELSE 0)
                    /\ carriedTo(tokens, i, D) <= carried(tokens, D) /\ carried(tokens, D) \in Nat
  OBVIOUS
<1>1. Len(tokens) \in Nat /\ i - 1 \in 0..Len(tokens) /\ i \in 0..Len(tokens) /\ Len(tokens) \in 0..Len(tokens)
  BY DEF Additive
<1>2. /\ \A k \in 0..Len(tokens) : /\ carriedTo(tokens, k, D) \in Nat
                                   /\ carriedTo(tokens, k, D) <= carried(tokens, D)
      /\ carriedTo(tokens, Len(tokens), D) = carried(tokens, D)
      /\ \A k \in 1..Len(tokens) : carriedTo(tokens, k, D) =
           carriedTo(tokens, k - 1, D) + (IF tokens[k].denom = D THEN tokens[k].amount ELSE 0)
  BY CarriedTo, ZenonT(60)
<1> QED
  BY <1>1, <1>2

signed(out, n) == IF out THEN n ELSE 0 - n

(* M is L after the first i tokens of a packet of s on ch went out of c or *)
(* came in: its own tokens are in the escrow, the other chain's burnt; or  *)
(* the other way round.                                                    *)
Moved(s, c, ch, L, M, tokens, i, out) ==
  Shift(c, ch, L, M,
        [T \in Address |-> signed(out, carriedTo(tokens, i, named(s, c, ch, T)))],
        [T \in Address |-> signed(~out, carriedTo(tokens, i, named(s, counterparty(c), ch, T)))])

(* Before the first token nothing has moved.                               *)
LEMMA MovedNothing ==
  ASSUME NEW s \in Chain, NEW c \in Chain, NEW ch \in Channel, NEW L, Known(c, L),
         NEW tokens, Additive(tokens), NEW out \in BOOLEAN
  PROVE  Moved(s, c, ch, L, L, tokens, 0, out)
<1> DEFINE x == [T \in Address |-> signed(out, carriedTo(tokens, 0, named(s, c, ch, T)))]
           y == [T \in Address |-> signed(~out, carriedTo(tokens, 0, named(s, counterparty(c), ch, T)))]
<1>1. \A T \in Address : x[T] = 0 /\ y[T] = 0
  <2>1. \A D : carriedTo(tokens, 0, D) = 0
    BY CarriedTo
  <2> QED
    BY <2>1 DEF signed
<1> HIDE DEF x, y
<1>2. ASSUME NEW T \in Address
      PROVE  /\ escrowOf(L, T) = escrowOf(L, T) + x[T]
             /\ getOutstanding(L, ch, T) >= getOutstanding(L, ch, T) + x[T]
             /\ supplyOf(L, wrapped(c, ch, T)) = supplyOf(L, wrapped(c, ch, T)) + y[T]
  <2>1. wrapped(c, ch, T) \in Address /\ L \in Ledger
    BY Wrapped DEF Known
  <2>2. escrowOf(L, T) \in Nat /\ getOutstanding(L, ch, T) \in Nat /\ supplyOf(L, wrapped(c, ch, T)) \in Nat
    BY <2>1, LedgerAmounts
  <2> QED
    BY <1>1, <2>2
<1>3. Shift(c, ch, L, L, x, y)
  BY <1>2 DEF Shift
<1> QED
  BY <1>3 DEF Moved, x, y

(* One more token is moved: z and w say how.                               *)
LEMMA MovedOn ==
  ASSUME NEW s \in Chain, NEW c \in Chain, NEW ch \in Channel, NEW L \in Ledger, NEW M, NEW N,
         NEW tokens, Additive(tokens), NEW i \in 1..Len(tokens), NEW out \in BOOLEAN,
         Moved(s, c, ch, L, M, tokens, i - 1, out),
         NEW z \in [Address -> Int], NEW w \in [Address -> Int], Shift(c, ch, M, N, z, w),
         \A T \in Address :
           /\ z[T] = IF tokens[i].denom = named(s, c, ch, T) THEN signed(out, tokens[i].amount) ELSE 0
           /\ w[T] = IF tokens[i].denom = named(s, counterparty(c), ch, T)
                     THEN signed(~out, tokens[i].amount) ELSE 0
  PROVE  Moved(s, c, ch, L, N, tokens, i, out)
<1> DEFINE d == counterparty(c)
           at(k, D) == carriedTo(tokens, k, D)
           x == [T \in Address |-> signed(out, at(i - 1, named(s, c, ch, T)))]
           y == [T \in Address |-> signed(~out, at(i - 1, named(s, d, ch, T)))]
           p == [T \in Address |-> signed(out, at(i, named(s, c, ch, T)))]
           q == [T \in Address |-> signed(~out, at(i, named(s, d, ch, T)))]
<1>1. Len(tokens) \in Nat /\ i - 1 \in 0..Len(tokens) /\ i \in 0..Len(tokens) /\ tokens[i].amount \in Nat
  BY DEF Additive
<1>2. \A D : /\ at(i - 1, D) \in Nat /\ at(i, D) \in Nat
             /\ at(i, D) = at(i - 1, D) + (IF tokens[i].denom = D THEN tokens[i].amount ELSE 0)
  BY CarriedNext
<1> HIDE DEF at
<1>3. x \in [Address -> Int] /\ y \in [Address -> Int]
  BY <1>2 DEF signed
<1>4. Shift(c, ch, L, M, x, y)
  BY DEF Moved, at
<1>5. Shift(c, ch, L, N, both(x, z), both(y, w))
  <2> HIDE DEF x, y
  <2> QED
    BY <1>3, <1>4, ShiftTwice
<1>6. ASSUME NEW T \in Address
      PROVE  x[T] + z[T] = p[T] /\ y[T] + w[T] = q[T]
  <2>1. x[T] + z[T] = p[T]
    BY <1>1, <1>2 DEF signed
  <2>2. y[T] + w[T] = q[T]
    <3> DEFINE D == named(s, counterparty(c), ch, T)
    <3>1. /\ y[T] = signed(~out, at(i - 1, D)) /\ q[T] = signed(~out, at(i, D))
          /\ w[T] = IF tokens[i].denom = D THEN signed(~out, tokens[i].amount) ELSE 0
      OBVIOUS
    <3> HIDE DEF D, x, y, p, q
    <3>2. CASE out
      BY <1>1, <1>2, <3>1, <3>2 DEF signed
    <3>3. CASE ~out
      BY <1>1, <1>2, <3>1, <3>3 DEF signed
    <3> QED
      BY <3>2, <3>3
  <2> QED
    BY <2>1, <2>2
<1>7. both(x, z) = p /\ both(y, w) = q
  <2>1. both(x, z) = p
    BY <1>6 DEF both
  <2>2. both(y, w) = q
    BY <1>6 DEF both
  <2> QED
    BY <2>1, <2>2
<1>8. Shift(c, ch, L, N, p, q)
  <2> HIDE DEF p, q, x, y
  <2> QED
    BY <1>5, <1>7
<1> QED
  BY <1>8 DEF Moved, at

(* While tokens come in, what the packet has of a token is still there.    *)
Affords(s, c, ch, L, tokens) ==
  \A T \in Address : /\ escrowOf(L, T) >= carried(tokens, named(s, c, ch, T))
                     /\ getOutstanding(L, ch, T) >= carried(tokens, named(s, c, ch, T))

(* While tokens come in, what the next one takes is in the escrow and      *)
(* outstanding.                                                            *)
LEMMA Enough ==
  ASSUME NEW s \in Chain, NEW c \in Chain, NEW ch \in Channel, NEW L \in Ledger, NEW M,
         NEW tokens, Additive(tokens), NEW i \in 1..Len(tokens),
         Affords(s, c, ch, L, tokens), Moved(s, c, ch, L, M, tokens, i - 1, FALSE),
         NEW T \in Address, tokens[i].denom = named(s, c, ch, T)
  PROVE  escrowOf(M, T) >= tokens[i].amount /\ getOutstanding(M, ch, T) >= tokens[i].amount
<1> DEFINE D == named(s, c, ch, T)
<1>1. Len(tokens) \in Nat /\ i - 1 \in 0..Len(tokens) /\ i \in 0..Len(tokens) /\ tokens[i].amount \in Nat
  BY DEF Additive
<1>2. /\ carriedTo(tokens, i - 1, D) \in Nat /\ carriedTo(tokens, i, D) \in Nat
      /\ carriedTo(tokens, i, D) = carriedTo(tokens, i - 1, D) + tokens[i].amount
      /\ carriedTo(tokens, i, D) <= carried(tokens, D)
      /\ carried(tokens, D) \in Nat
  BY CarriedNext
<1>3. /\ escrowOf(M, T) = escrowOf(L, T) + (0 - carriedTo(tokens, i - 1, D))
      /\ getOutstanding(M, ch, T) >= getOutstanding(L, ch, T) + (0 - carriedTo(tokens, i - 1, D))
      /\ Known(c, M)
  BY DEF Moved, Shift, signed
<1>4. /\ escrowOf(L, T) \in Nat /\ getOutstanding(L, ch, T) \in Nat
      /\ escrowOf(M, T) \in Nat /\ getOutstanding(M, ch, T) \in Nat
  BY <1>3, LedgerAmounts DEF Known
<1>5. escrowOf(L, T) >= carried(tokens, D) /\ getOutstanding(L, ch, T) >= carried(tokens, D)
  BY DEF Affords
<1> HIDE DEF D
<1> QED
  <2>1. \A e, f, a, b, k, m \in Nat : e >= m /\ k + a <= m /\ f >= e + (0 - k) => f >= a
    OBVIOUS
  <2>2. escrowOf(M, T) >= escrowOf(L, T) + (0 - carriedTo(tokens, i - 1, D))
    BY <1>2, <1>3, <1>4
  <2>3. carriedTo(tokens, i - 1, D) + tokens[i].amount <= carried(tokens, D)
    BY <1>2
  <2>4. escrowOf(M, T) >= tokens[i].amount
    BY <1>1, <1>2, <1>4, <1>5, <2>1, <2>2, <2>3
  <2>5. getOutstanding(M, ch, T) >= tokens[i].amount
    BY <1>1, <1>2, <1>3, <1>4, <1>5, <2>1, <2>3
  <2> QED
    BY <2>4, <2>5

-----------------------------------------------------------------------------
(* The loops over the tokens of a packet *)

(* The ledger M of c still has the contracts and the wrappers of L.        *)
SameTokens(L, M) == M.denomToAddress = L.denomToAddress /\ DOMAIN M.balance = DOMAIN L.balance

(* refundToken, of a token of c.                                           *)
LEMMA RefundedHome ==
  ASSUME NEW c \in Chain, NEW ch \in Channel, NEW L, Known(c, L), L.ok, NEW a \in Holder,
         NEW T \in Address, T \in DOMAIN L.balance,
         NEW token, token.denom = toHexString(T), token.amount \in Nat,
         escrowOf(L, T) >= token.amount, getOutstanding(L, ch, T) >= token.amount,
         NEW M, M = refundToken(L, ch, a, token)
  PROVE  M.ok /\ SameTokens(L, M) /\ Shift(c, ch, L, M, only(T, 0 - token.amount), nothing)
<1>1. token.denom \in Address /\ hexToAddress(token.denom) = T /\ ~isFromChannel(c, ch, token.denom)
  BY Wrapped
<1>2. token.denom \notin L.denomToAddress[ch] /\ L \in Ledger
  BY <1>1 DEF Known
<1>3. /\ Transacted(L, M, ch, T, 0 - token.amount, 0, 0 - token.amount)
      /\ M.ok = (L.ok /\ getOutstanding(L, ch, T) >= token.amount /\ escrowOf(L, T) >= token.amount)
  BY <1>1, <1>2, RefundedToken
<1>4. M.ok
  BY <1>3
<1>5. SameTokens(L, M)
  BY <1>3 DEF Transacted, SameTokens
<1>6. Shift(c, ch, L, M, only(T, 0 - token.amount), nothing)
  <2>1. 0 - token.amount \in Int /\ 0 - token.amount >= 0 - token.amount
    OBVIOUS
  <2> QED
    BY <1>3, <1>4, <2>1, EscrowShifts
<1> QED
  BY <1>4, <1>5, <1>6

(* refundToken, of a wrapper.                                              *)
LEMMA RefundedWrapper ==
  ASSUME NEW c \in Chain, NEW ch \in Channel, NEW L, Known(c, L), L.ok, NEW a \in Holder,
         NEW T \in Address, NEW token, token.denom = wrapped(c, ch, T), token.amount \in Nat,
         token.denom \in L.denomToAddress[ch],
         NEW M, M = refundToken(L, ch, a, token)
  PROVE  M.ok /\ SameTokens(L, M) /\ Shift(c, ch, L, M, nothing, only(T, token.amount))
<1>1. token.denom \in Address /\ token.denom \in DOMAIN L.balance /\ L \in Ledger
  BY Wrapped DEF Known
<1>2. Transacted(L, M, ch, token.denom, 0, token.amount, 0) /\ M.ok
  BY <1>1, RefundedToken
<1>3. SameTokens(L, M)
  BY <1>2 DEF Transacted, SameTokens
<1>4. Shift(c, ch, L, M, nothing, only(T, token.amount))
  BY <1>1, <1>2, SupplyShifts
<1> QED
  BY <1>2, <1>3, <1>4

(* sendToken, of a token of c and of a wrapper.                            *)
LEMMA SentShifts ==
  ASSUME NEW c \in Chain, NEW ch \in Channel, NEW L, Known(c, L), NEW a \in Holder,
         NEW local \in [denom : DOMAIN L.balance, amount : Nat, fee : 0..FeeMax],
         NEW M, M = sendToken(L, ch, a, local)
  PROVE  /\ SameTokens(L, M) /\ Known(c, M) /\ (M.ok => L.ok /\ local.amount # 0)
         /\ M.ok /\ ~isWrapper(L, ch, local.denom) =>
              /\ local.denom \in Address /\ denomOf(L, ch, local.denom) = toHexString(local.denom)
              /\ Shift(c, ch, L, M, only(local.denom, local.amount), nothing)
         /\ M.ok /\ isWrapper(L, ch, local.denom) =>
              \E T \in Address :
                /\ local.denom = wrapped(c, ch, T) /\ denomOf(L, ch, local.denom) = wrapped(c, ch, T)
                /\ Shift(c, ch, L, M, nothing, only(T, 0 - local.amount))
<1>1. L \in Ledger /\ local.denom \in DOMAIN L.balance /\ local.denom \in Address
      /\ local.amount \in Nat /\ 0 - local.amount \in Int
  BY LedgerParts DEF Known
<1>2. /\ M.ok => local.amount # 0
      /\ isWrapper(L, ch, local.denom) => Transacted(L, M, ch, local.denom, 0, 0 - local.amount, 0)
      /\ ~isWrapper(L, ch, local.denom) =>
           Transacted(L, M, ch, local.denom, local.amount, 0, local.amount)
  BY <1>1, SentToken
<1>3. SameTokens(L, M) /\ M \in Ledger /\ (M.ok => L.ok)
  BY <1>2 DEF Transacted, SameTokens
<1>4. Known(c, M)
  BY <1>3, KnownKept DEF SameTokens
<1>5. ASSUME M.ok, ~isWrapper(L, ch, local.denom)
      PROVE  Shift(c, ch, L, M, only(local.denom, local.amount), nothing)
  <2>1. local.amount \in Int /\ local.amount >= local.amount
    BY <1>1
  <2> QED
    BY <1>1, <1>2, <1>5, <2>1, EscrowShifts
<1>6. ASSUME M.ok, isWrapper(L, ch, local.denom)
      PROVE  \E T \in Address :
               /\ local.denom = wrapped(c, ch, T) /\ denomOf(L, ch, local.denom) = wrapped(c, ch, T)
               /\ Shift(c, ch, L, M, nothing, only(T, 0 - local.amount))
  <2>1. PICK T \in Address : local.denom = wrapped(c, ch, T)
    BY <1>6 DEF Known, isWrapper
  <2>2. Shift(c, ch, L, M, nothing, only(T, 0 - local.amount))
    BY <1>1, <1>2, <1>6, <2>1, SupplyShifts
  <2> QED
    BY <1>6, <2>1, <2>2 DEF denomOf
<1> QED
  BY <1>1, <1>2, <1>3, <1>4, <1>5, <1>6 DEF denomOf

(* One more token of c, or of the other chain, is moved.                   *)
LEMMA MovedOne ==
  ASSUME NEW s \in Chain, NEW c \in Chain, NEW ch \in Channel, NEW L \in Ledger, NEW M, NEW N,
         NEW tokens, Additive(tokens), NEW i \in 1..Len(tokens), NEW out \in BOOLEAN,
         Moved(s, c, ch, L, M, tokens, i - 1, out), NEW T \in Address,
         \/ /\ tokens[i].denom = named(s, c, ch, T)
            /\ Shift(c, ch, M, N, only(T, signed(out, tokens[i].amount)), nothing)
         \/ /\ tokens[i].denom = named(s, counterparty(c), ch, T)
            /\ Shift(c, ch, M, N, nothing, only(T, signed(~out, tokens[i].amount)))
  PROVE  Moved(s, c, ch, L, N, tokens, i, out)
<1> DEFINE n == signed(out, tokens[i].amount)
           m == signed(~out, tokens[i].amount)
           d == counterparty(c)
<1>1. n \in Int /\ m \in Int
  BY DEF Additive, signed
<1>2. nothing \in [Address -> Int] /\ \A U \in Address : nothing[U] = 0
  BY DEF nothing
<1>3. \A k \in Int : only(T, k) \in [Address -> Int]
                     /\ \A U \in Address : only(T, k)[U] = IF U = T THEN k ELSE 0
  BY DEF only
<1>4. d \in Chain /\ counterparty(d) = c
  BY Others
<1> HIDE DEF n, m
<1>5. CASE tokens[i].denom = named(s, c, ch, T) /\ Shift(c, ch, M, N, only(T, n), nothing)
  <2>1. \A U \in Address : /\ tokens[i].denom = named(s, c, ch, U) <=> U = T
                           /\ tokens[i].denom # named(s, counterparty(c), ch, U)
    BY <1>5, Named
  <2>2. \A U \in Address :
          /\ only(T, n)[U] = IF tokens[i].denom = named(s, c, ch, U) THEN n ELSE 0
          /\ nothing[U] = IF tokens[i].denom = named(s, counterparty(c), ch, U) THEN m ELSE 0
    BY <1>1, <1>2, <1>3, <2>1
  <2>3. only(T, n) \in [Address -> Int]
    BY <1>1, <1>3
  <2> QED
    BY <1>2, <1>5, <2>2, <2>3, MovedOn DEF n, m
<1>6. CASE tokens[i].denom = named(s, d, ch, T) /\ Shift(c, ch, M, N, nothing, only(T, m))
  <2>1. \A U \in Address : /\ tokens[i].denom = named(s, d, ch, U) <=> U = T
                           /\ tokens[i].denom # named(s, c, ch, U)
    BY <1>4, <1>6, Named
  <2>2. \A U \in Address :
          /\ nothing[U] = IF tokens[i].denom = named(s, c, ch, U) THEN n ELSE 0
          /\ only(T, m)[U] = IF tokens[i].denom = named(s, counterparty(c), ch, U) THEN m ELSE 0
    BY <1>1, <1>2, <1>3, <2>1
  <2>3. only(T, m) \in [Address -> Int]
    BY <1>1, <1>3
  <2> QED
    BY <1>2, <1>6, <2>2, <2>3, MovedOn DEF n, m
<1> QED
  BY <1>5, <1>6 DEF n, m

(* The tokens that a packet of s on ch may carry.                          *)
Fit(s, ch, tokens) ==
  /\ Additive(tokens)
  /\ \A i \in 1..Len(tokens) :
       /\ tokens[i].amount # 0 /\ tokens[i].fee \in 0..FeeMax
       /\ \E x \in Chain, T \in Address : tokens[i].denom = named(s, x, ch, T)

(* A token of c that can be afforded is one that c has.                    *)
LEMMA AffordedIsThere ==
  ASSUME NEW s \in Chain, NEW c \in Chain, NEW ch \in Channel, NEW L \in Ledger,
         NEW tokens, Fit(s, ch, tokens), Affords(s, c, ch, L, tokens),
         NEW i \in 1..Len(tokens), NEW T \in Address, tokens[i].denom = named(s, c, ch, T)
  PROVE  T \in DOMAIN L.balance
<1>1. Additive(tokens) /\ tokens[i].amount \in Nat /\ tokens[i].amount # 0
  BY DEF Fit, Additive
<1> DEFINE D == named(s, c, ch, T)
<1>2. /\ carriedTo(tokens, i - 1, D) \in Nat /\ carriedTo(tokens, i, D) \in Nat
      /\ carriedTo(tokens, i, D) = carriedTo(tokens, i - 1, D) + tokens[i].amount
      /\ carriedTo(tokens, i, D) <= carried(tokens, D) /\ carried(tokens, D) \in Nat
  BY <1>1, CarriedNext
<1>3. escrowOf(L, T) >= carried(tokens, D)
  BY DEF Affords
<1> HIDE DEF D
<1>4. escrowOf(L, T) # 0
  BY <1>1, <1>2, <1>3
<1> QED
  BY <1>4 DEF escrowOf

(* A refund of what can be afforded is made, and moves all tokens back.    *)
LEMMA Refunded ==
  ASSUME NEW c \in Chain, NEW p, channelOf(p) \in Channel,
         Known(c, relay[c]), relay[c].ok, data[c][p].sender \in Holder,
         Fit(c, channelOf(p), data[c][p].tokens),
         Affords(c, c, channelOf(p), relay[c], data[c][p].tokens),
         \A i \in 1..Len(data[c][p].tokens) : \A T \in Address :
           data[c][p].tokens[i].denom = wrapped(c, channelOf(p), T)
             => wrapped(c, channelOf(p), T) \in relay[c].denomToAddress[channelOf(p)]
  PROVE  /\ refundTokens(c, p).ok
         /\ Moved(c, c, channelOf(p), relay[c], refundTokens(c, p), data[c][p].tokens,
                  Len(data[c][p].tokens), FALSE)
<1> DEFINE ch == channelOf(p)
           tokens == data[c][p].tokens
           a == data[c][p].sender
           n == Len(tokens)
           L == relay[c]
<1>1. Additive(tokens) /\ n \in Nat /\ L \in Ledger
  BY DEF Fit, Additive, Known
<1>2. PICK after : Refunding(c, p, after) /\ refundTokens(c, p) = after[n]
  BY <1>1, RefundingIs
<1>3. after[0] = L /\ \A i \in 1..n : after[i] = refundToken(after[i - 1], ch, a, tokens[i])
  <2>1. after = [i \in 0..n |-> IF i = 0 THEN L ELSE refundToken(after[i - 1], ch, a, tokens[i])]
    BY <1>2 DEF Refunding
  <2>2. 0 \in 0..n /\ \A i \in 1..n : i \in 0..n /\ i # 0
    BY <1>1
  <2> HIDE DEF L, tokens, n, ch, a
  <2> QED
    BY <2>1, <2>2
<1> DEFINE good(i) == /\ after[i].ok /\ SameTokens(L, after[i]) /\ Known(c, after[i])
                      /\ Moved(c, c, ch, L, after[i], tokens, i, FALSE)
           Good == {i \in 0..n : good(i)}
<1>4. 0 \in Good
  <2>1. Moved(c, c, ch, L, L, tokens, 0, FALSE)
    BY <1>1, MovedNothing
  <2>2. SameTokens(L, L)
    BY DEF SameTokens
  <2>3. 0 \in 0..n
    BY <1>1
  <2>4. good(0)
    <3> HIDE DEF L, tokens, ch
    <3> QED
      BY <1>3, <2>1, <2>2 DEF L
  <2> QED
    BY <2>3, <2>4
<1>5. ASSUME NEW i \in 1..n, i - 1 \in Good
      PROVE  i \in Good
  <2> DEFINE B == after[i - 1]
             M == after[i]
             token == tokens[i]
             d == counterparty(c)
  <2>1. B.ok /\ SameTokens(L, B) /\ Known(c, B) /\ Moved(c, c, ch, L, B, tokens, i - 1, FALSE)
    BY <1>5
  <2>2. M = refundToken(B, ch, a, token)
    BY <1>3
  <2>3. token.amount \in Nat /\ i \in 0..n
    BY <1>1 DEF Additive
  <2>4. PICK x \in Chain, T \in Address : token.denom = named(c, x, ch, T)
    BY DEF Fit
  <2>5. x = c \/ x = d
    BY Others
  <2>6. M.ok /\ SameTokens(B, M) /\ Moved(c, c, ch, L, M, tokens, i, FALSE)
    <3>1. CASE x = c
      <4>1. token.denom = named(c, c, ch, T) /\ token.denom = toHexString(T)
        BY <2>4, <3>1 DEF named
      <4>2. T \in DOMAIN B.balance
        BY <1>1, <2>1, <4>1, AffordedIsThere DEF SameTokens
      <4>3. escrowOf(B, T) >= token.amount /\ getOutstanding(B, ch, T) >= token.amount
        BY <1>1, <2>1, <4>1, Enough
      <4> HIDE DEF B, M, token, ch, a
      <4>4. M.ok /\ SameTokens(B, M) /\ Shift(c, ch, B, M, only(T, 0 - token.amount), nothing)
        BY <2>1, <2>2, <2>3, <4>1, <4>2, <4>3, RefundedHome DEF ch, a
      <4>5. Shift(c, ch, B, M, only(T, signed(FALSE, token.amount)), nothing)
        BY <4>4 DEF signed
      <4> HIDE DEF L, tokens
      <4> QED
        BY <1>1, <2>1, <4>1, <4>4, <4>5, MovedOne DEF token, n, ch
    <3>2. CASE x = d
      <4>1. token.denom = named(c, d, ch, T) /\ token.denom = wrapped(c, ch, T)
        BY <2>4, <3>2, Others DEF named
      <4>2. token.denom \in B.denomToAddress[ch]
        BY <2>1, <4>1 DEF SameTokens
      <4> HIDE DEF B, M, token, ch, a
      <4>3. M.ok /\ SameTokens(B, M) /\ Shift(c, ch, B, M, nothing, only(T, token.amount))
        BY <2>1, <2>2, <2>3, <4>1, <4>2, RefundedWrapper DEF ch, a
      <4>4. Shift(c, ch, B, M, nothing, only(T, signed(~FALSE, token.amount)))
        BY <4>3 DEF signed
      <4> HIDE DEF L, tokens
      <4> QED
        BY <1>1, <2>1, <4>1, <4>3, <4>4, MovedOne DEF token, n, ch
    <3> QED
      BY <2>5, <3>1, <3>2
  <2>7. SameTokens(L, M) /\ Known(c, M)
    BY <2>1, <2>6 DEF SameTokens, Moved, Shift
  <2> QED
    BY <2>3, <2>6, <2>7
<1>6. \A i \in 0..n : i \in Good
  <2> HIDE DEF Good
  <2> QED
    BY <1>1, <1>4, <1>5, UpTo
<1>7. n \in 0..n
  BY <1>1
<1> QED
  BY <1>2, <1>6, <1>7

(* The tokens as the packet of send carries them.                          *)
normalized(c, ch, tokens) ==
  [i \in DOMAIN tokens |-> [tokens[i] EXCEPT !.denom = denomOf(relay[c], ch, @)]]

(* What the user may ask c to send.                                        *)
Sendable(c, tokens) ==
  /\ Len(tokens) \in Nat /\ DOMAIN tokens = 1..Len(tokens)
  /\ \A i \in 1..Len(tokens) :
       tokens[i] \in [denom : DOMAIN relay[c].balance, amount : Nat, fee : 0..FeeMax]

(* What send puts in a packet: each token's own denomination and amount,   *)
(* and only wrappers its relay made.                                       *)
LEMMA Normalized ==
  ASSUME NEW c \in Chain, NEW ch \in Channel, Known(c, relay[c]), NEW tokens, Sendable(c, tokens)
  PROVE  LET N == normalized(c, ch, tokens) IN
         /\ Len(N) = Len(tokens) /\ Additive(N)
         /\ \A i \in 1..Len(tokens) :
              /\ N[i].denom = denomOf(relay[c], ch, tokens[i].denom)
              /\ N[i].amount = tokens[i].amount /\ N[i].fee = tokens[i].fee
              /\ \E x \in Chain, T \in Address : N[i].denom = named(c, x, ch, T)
              /\ \A T \in Address : N[i].denom = wrapped(c, ch, T) =>
                                      wrapped(c, ch, T) \in relay[c].denomToAddress[ch]
<1> DEFINE N == normalized(c, ch, tokens)
           n == Len(tokens)
<1>1. n \in Nat /\ DOMAIN tokens = 1..n
  BY DEF Sendable
<1>2. N = [i \in 1..n |-> [tokens[i] EXCEPT !.denom = denomOf(relay[c], ch, @)]]
  BY <1>1 DEF normalized
<1>3. Len(N) = n /\ DOMAIN N = 1..n
  <2> DEFINE S == {N[i] : i \in 1..n}
  <2> HIDE DEF N
  <2>1. DOMAIN N = 1..n
    BY <1>2
  <2>2. N \in [1..n -> S]
    BY <1>2, <2>1
  <2>3. N \in Seq(S)
    BY <1>1, <2>2
  <2>4. Len(N) \in Nat /\ DOMAIN N = 1..Len(N)
    BY <2>3, LenProperties
  <2>5. Len(N) = n
    <3> HIDE DEF n
    <3>1. 1..Len(N) = 1..n
      BY <2>1, <2>4
    <3>2. \A k, m \in Nat : 1..k = 1..m => k = m
      OBVIOUS
    <3> QED
      BY <1>1, <2>4, <3>1, <3>2, ZenonT(30)
  <2> QED
    BY <2>1, <2>5
<1>4. ASSUME NEW i \in 1..n
      PROVE  /\ N[i].denom = denomOf(relay[c], ch, tokens[i].denom)
             /\ N[i].amount = tokens[i].amount /\ N[i].fee = tokens[i].fee
             /\ tokens[i].denom \in DOMAIN relay[c].balance /\ tokens[i].amount \in Nat
  <2>1. tokens[i] \in [denom : DOMAIN relay[c].balance, amount : Nat, fee : 0..FeeMax]
    BY DEF Sendable
  <2>2. N[i] = [tokens[i] EXCEPT !.denom = denomOf(relay[c], ch, @)]
    BY <1>2
  <2> HIDE DEF N
  <2> QED
    BY <2>1, <2>2
<1>5. ASSUME NEW i \in 1..n
      PROVE  /\ \E x \in Chain, T \in Address : N[i].denom = named(c, x, ch, T)
             /\ \A T \in Address : N[i].denom = wrapped(c, ch, T) =>
                                     wrapped(c, ch, T) \in relay[c].denomToAddress[ch]
  <2> DEFINE D == tokens[i].denom
  <2>1. D \in Address
    BY <1>4, LedgerParts DEF Known
  <2>2. CASE isWrapper(relay[c], ch, D)
    <3>1. N[i].denom = D /\ D \in relay[c].denomToAddress[ch]
      BY <1>4, <2>2 DEF denomOf, isWrapper
    <3>2. PICK T \in Address : D = wrapped(c, ch, T)
      BY <3>1 DEF Known
    <3>3. counterparty(c) \in Chain /\ wrapped(c, ch, T) = named(c, counterparty(c), ch, T)
      BY Others DEF named
    <3> HIDE DEF N, D
    <3> QED
      BY <3>1, <3>2, <3>3
  <2>3. CASE ~isWrapper(relay[c], ch, D)
    <3>1. N[i].denom = toHexString(D)
      BY <1>4, <2>3 DEF denomOf
    <3>2. toHexString(D) = named(c, c, ch, D)
      BY DEF named
    <3>3. \A T \in Address : toHexString(D) # wrapped(c, ch, T)
      BY <2>1, Wrapped
    <3> HIDE DEF N, D
    <3> QED
      BY <2>1, <3>1, <3>2, <3>3
  <2> QED
    BY <2>2, <2>3
<1>6. Additive(N)
  <2> HIDE DEF N
  <2> QED
    BY <1>1, <1>3, <1>4 DEF Additive
<1> HIDE DEF N
<1> QED
  BY <1>3, <1>4, <1>5, <1>6 DEF N

(* A send moves what its packet carries out of c.                          *)
LEMMA Sent ==
  ASSUME NEW c \in Chain, NEW ch \in Channel, NEW account \in Holder, Known(c, relay[c]),
         NEW tokens, Sendable(c, tokens), sendTokens(c, ch, account, tokens).ok
  PROVE  /\ Moved(c, c, ch, relay[c], sendTokens(c, ch, account, tokens),
                  normalized(c, ch, tokens), Len(tokens), TRUE)
         /\ Fit(c, ch, normalized(c, ch, tokens))
<1> DEFINE n == Len(tokens)
           L == relay[c]
           N == normalized(c, ch, tokens)
<1>1. n \in Nat /\ L \in Ledger
  BY DEF Sendable, Known
<1>2. PICK after : Sending(c, ch, account, tokens, after) /\ sendTokens(c, ch, account, tokens) = after[n]
  BY <1>1, SendingIs
<1>3. after[0] = L /\ \A i \in 1..n : after[i] = sendToken(after[i - 1], ch, account, tokens[i])
  <2>1. after = [i \in 0..n |-> IF i = 0 THEN L ELSE sendToken(after[i - 1], ch, account, tokens[i])]
    BY <1>2 DEF Sending
  <2>2. 0 \in 0..n /\ \A i \in 1..n : i \in 0..n /\ i # 0
    BY <1>1
  <2> HIDE DEF L, n
  <2> QED
    BY <2>1, <2>2
<1>4. /\ Len(N) = n /\ Additive(N)
      /\ \A i \in 1..n :
           /\ N[i].denom = denomOf(relay[c], ch, tokens[i].denom)
           /\ N[i].amount = tokens[i].amount /\ N[i].fee = tokens[i].fee
           /\ \E x \in Chain, T \in Address : N[i].denom = named(c, x, ch, T)
  BY Normalized
<1> HIDE DEF N
<1> DEFINE good(i) == /\ SameTokens(L, after[i]) /\ Known(c, after[i])
                      /\ after[i].ok => /\ Moved(c, c, ch, L, after[i], N, i, TRUE)
                                        /\ \A j \in 1..i : tokens[j].amount # 0
           Good == {i \in 0..n : good(i)}
<1>5. 0 \in Good
  <2>1. Moved(c, c, ch, L, L, N, 0, TRUE)
    BY <1>1, <1>4, MovedNothing
  <2>2. SameTokens(L, L) /\ Known(c, L)
    BY DEF SameTokens
  <2>3. 0 \in 0..n /\ \A j \in 1..0 : tokens[j].amount # 0
    BY <1>1
  <2>4. good(0)
    <3> HIDE DEF L
    <3> QED
      BY <1>3, <2>1, <2>2, <2>3
  <2> QED
    BY <2>3, <2>4
<1>6. ASSUME NEW i \in 1..n, i - 1 \in Good
      PROVE  i \in Good
  <2> DEFINE B == after[i - 1]
             M == after[i]
             local == tokens[i]
  <2>1. /\ SameTokens(L, B) /\ Known(c, B)
        /\ B.ok => /\ Moved(c, c, ch, L, B, N, i - 1, TRUE)
                   /\ \A j \in 1..(i - 1) : tokens[j].amount # 0
    BY <1>6
  <2>2. M = sendToken(B, ch, account, local)
    BY <1>3
  <2>3. i \in 0..n /\ i \in 1..Len(N) /\ local \in [denom : DOMAIN B.balance, amount : Nat, fee : 0..FeeMax]
    BY <1>1, <1>4, <2>1 DEF Sendable, SameTokens
  <2> HIDE DEF B, M, local
  <2>4. /\ SameTokens(B, M) /\ Known(c, M) /\ (M.ok => B.ok /\ local.amount # 0)
        /\ M.ok /\ ~isWrapper(B, ch, local.denom) =>
             /\ local.denom \in Address /\ denomOf(B, ch, local.denom) = toHexString(local.denom)
             /\ Shift(c, ch, B, M, only(local.denom, local.amount), nothing)
        /\ M.ok /\ isWrapper(B, ch, local.denom) =>
             \E T \in Address :
               /\ local.denom = wrapped(c, ch, T) /\ denomOf(B, ch, local.denom) = wrapped(c, ch, T)
               /\ Shift(c, ch, B, M, nothing, only(T, 0 - local.amount))
    BY <2>1, <2>2, <2>3, SentShifts
  <2>5. SameTokens(L, M)
    BY <2>1, <2>4 DEF SameTokens
  <2>6. N[i].denom = denomOf(B, ch, local.denom) /\ N[i].amount = local.amount
    BY <1>4, <2>1 DEF SameTokens, denomOf, isWrapper, local
  <2>7. ASSUME M.ok
        PROVE  Moved(c, c, ch, L, M, N, i, TRUE)
    <3>1. CASE ~isWrapper(B, ch, local.denom)
      <4> DEFINE T == local.denom
      <4>1. T \in Address /\ N[i].denom = named(c, c, ch, T)
        BY <2>4, <2>6, <2>7, <3>1 DEF named
      <4>2. Shift(c, ch, B, M, only(T, signed(TRUE, N[i].amount)), nothing)
        BY <2>4, <2>6, <2>7, <3>1 DEF signed
      <4> HIDE DEF T, L
      <4> QED
        BY <1>1, <1>4, <2>1, <2>3, <2>4, <2>7, <4>1, <4>2, MovedOne
    <3>2. CASE isWrapper(B, ch, local.denom)
      <4>1. PICK T \in Address :
              /\ local.denom = wrapped(c, ch, T) /\ denomOf(B, ch, local.denom) = wrapped(c, ch, T)
              /\ Shift(c, ch, B, M, nothing, only(T, 0 - local.amount))
        BY <2>4, <2>7, <3>2
      <4>2. N[i].denom = named(c, counterparty(c), ch, T)
        BY <2>6, <4>1, Others DEF named
      <4>3. Shift(c, ch, B, M, nothing, only(T, signed(~TRUE, N[i].amount)))
        BY <2>6, <4>1 DEF signed
      <4> HIDE DEF L
      <4> QED
        BY <1>1, <1>4, <2>1, <2>3, <2>4, <2>7, <4>2, <4>3, MovedOne
    <3> QED
      BY <3>1, <3>2
  <2>8. ASSUME M.ok, NEW j \in 1..i
        PROVE  tokens[j].amount # 0
    <3>1. CASE j = i
      BY <2>4, <2>8, <3>1 DEF local
    <3>2. CASE j # i
      <4>1. j \in 1..(i - 1)
        BY <1>1, <3>2
      <4> QED
        BY <2>1, <2>4, <2>8, <4>1
    <3> QED
      BY <3>1, <3>2
  <2> QED
    BY <2>3, <2>4, <2>5, <2>7, <2>8 DEF M
<1>7. \A i \in 0..n : i \in Good
  <2> HIDE DEF Good
  <2> QED
    BY <1>1, <1>5, <1>6, UpTo
<1>8. n \in 0..n
  BY <1>1
<1>9. Moved(c, c, ch, L, after[n], N, n, TRUE) /\ \A j \in 1..n : tokens[j].amount # 0
  BY <1>2, <1>7, <1>8
<1>10. Fit(c, ch, N)
  <2>1. \A i \in 1..n : N[i].amount # 0 /\ N[i].fee \in 0..FeeMax
    BY <1>4, <1>9 DEF Sendable
  <2> QED
    BY <1>4, <2>1 DEF Fit
<1> QED
  BY <1>2, <1>9, <1>10 DEF N

(* A packet whose tokens the ledger can afford is received, unless its     *)
(* receiver is none, and moves them all.                                   *)
LEMMA Received ==
  ASSUME NEW c \in Chain, NEW p, channelOf(p) \in Channel, Known(c, relay[c]), relay[c].ok,
         Fit(counterparty(c), channelOf(p), data[counterparty(c)][p].tokens),
         Affords(counterparty(c), c, channelOf(p), relay[c], data[counterparty(c)][p].tokens)
  PROVE  /\ data[counterparty(c)][p].receiver # BadReceiver => onRecvPacketProcessing(c, p).ok
         /\ onRecvPacketProcessing(c, p).ok =>
              Moved(counterparty(c), c, channelOf(p), relay[c], onRecvPacketProcessing(c, p),
                    data[counterparty(c)][p].tokens, Len(data[counterparty(c)][p].tokens), FALSE)
<1> DEFINE ch == channelOf(p)
           d == counterparty(c)
           tokens == data[d][p].tokens
           to == data[d][p].receiver
           n == Len(tokens)
           L == relay[c]
<1>1. Additive(tokens) /\ n \in Nat /\ L \in Ledger /\ d \in Chain /\ d # c /\ ch \in Channel
  BY Others DEF Fit, Additive, Known
<1>2. PICK after : Receiving(c, p, after) /\ onRecvPacketProcessing(c, p) = after[n]
  BY <1>1, ReceivingIs
<1>3. after[0] = L /\ \A i \in 1..n : after[i] = recvToken(after[i - 1], c, ch, to, tokens[i])
  <2>1. after = [i \in 0..n |-> IF i = 0 THEN L ELSE recvToken(after[i - 1], c, ch, to, tokens[i])]
    BY <1>2 DEF Receiving
  <2>2. 0 \in 0..n /\ \A i \in 1..n : i \in 0..n /\ i # 0
    BY <1>1
  <2> HIDE DEF L, tokens, n, ch, to
  <2> QED
    BY <2>1, <2>2
<1> DEFINE good(i) == /\ DOMAIN L.balance \subseteq DOMAIN after[i].balance /\ Known(c, after[i])
                      /\ after[i].ok => Moved(d, c, ch, L, after[i], tokens, i, FALSE)
                      /\ to # BadReceiver => after[i].ok
           Good == {i \in 0..n : good(i)}
<1>4. 0 \in Good
  <2>1. Moved(d, c, ch, L, L, tokens, 0, FALSE)
    BY <1>1, MovedNothing
  <2>2. 0 \in 0..n
    BY <1>1
  <2>3. good(0)
    <3> HIDE DEF L, tokens, ch, d, to
    <3> QED
      BY <1>3, <2>1 DEF L
  <2> QED
    BY <2>2, <2>3
<1>5. ASSUME NEW i \in 1..n, i - 1 \in Good
      PROVE  i \in Good
  <2> DEFINE B == after[i - 1]
             M == after[i]
             token == tokens[i]
  <2>1. /\ DOMAIN L.balance \subseteq DOMAIN B.balance /\ Known(c, B)
        /\ B.ok => Moved(d, c, ch, L, B, tokens, i - 1, FALSE)
        /\ to # BadReceiver => B.ok
    BY <1>5
  <2>2. M = recvToken(B, c, ch, to, token)
    BY <1>3
  <2>3. token.amount \in Nat /\ token.amount # 0 /\ token.fee \in 0..FeeMax /\ i \in 0..n
    BY <1>1 DEF Additive, Fit
  <2>4. PICK x \in Chain, T \in Address : token.denom = named(d, x, ch, T)
    BY DEF Fit
  <2>5. x = c \/ x = d
    BY Others
  <2>6. /\ DOMAIN B.balance \subseteq DOMAIN M.balance /\ Known(c, M)
        /\ M.ok => Moved(d, c, ch, L, M, tokens, i, FALSE)
        /\ B.ok /\ to # BadReceiver => M.ok
    <3>1. CASE x = c
      <4>1. token.denom = named(d, c, ch, T) /\ token.denom = wrapped(d, ch, T)
        BY <1>1, <2>4, <3>1 DEF named
      <4>2. T \in DOMAIN B.balance
        BY <1>1, <2>1, <4>1, AffordedIsThere
      <4>3. B.ok => escrowOf(B, T) >= token.amount /\ getOutstanding(B, ch, T) >= token.amount
        BY <1>1, <2>1, <4>1, Enough
      <4> HIDE DEF B, M, token, ch, to
      <4>4. ComesHome(c, ch, B, M, to, T, token.amount)
        BY <1>1, <2>1, <2>2, <2>3, <4>1, <4>2, ReceivedHome
      <4>5. M.ok => Shift(c, ch, B, M, only(T, signed(FALSE, token.amount)), nothing)
        BY <4>4 DEF ComesHome, signed
      <4> HIDE DEF L, tokens, d
      <4>6. M.ok => Moved(d, c, ch, L, M, tokens, i, FALSE)
        BY <1>1, <2>1, <4>1, <4>4, <4>5, MovedOne DEF token, n, ch, ComesHome
      <4> QED
        BY <2>3, <4>3, <4>4, <4>6 DEF ComesHome
    <3>2. CASE x = d
      <4>1. token.denom = named(d, d, ch, T) /\ token.denom = toHexString(T)
        BY <2>4, <3>2 DEF named
      <4> HIDE DEF B, M, token, ch, to
      <4>2. ComesAbroad(c, ch, B, M, to, T, token.amount)
        BY <1>1, <2>1, <2>2, <2>3, <4>1, ReceivedAbroad
      <4>3. M.ok => Shift(c, ch, B, M, nothing, only(T, signed(~FALSE, token.amount)))
        BY <4>2 DEF ComesAbroad, signed
      <4>4. token.denom = named(d, counterparty(c), ch, T)
        BY <4>1
      <4> HIDE DEF L, tokens, d
      <4>5. M.ok => Moved(d, c, ch, L, M, tokens, i, FALSE)
        BY <1>1, <2>1, <4>2, <4>3, <4>4, MovedOne DEF token, n, ch, ComesAbroad
      <4> QED
        BY <2>3, <4>2, <4>5 DEF ComesAbroad
    <3> QED
      BY <2>5, <3>1, <3>2
  <2>7. DOMAIN L.balance \subseteq DOMAIN M.balance
    BY <2>1, <2>6
  <2> QED
    BY <2>1, <2>3, <2>6, <2>7
<1>6. \A i \in 0..n : i \in Good
  <2> HIDE DEF Good
  <2> QED
    BY <1>1, <1>4, <1>5, UpTo
<1>7. n \in 0..n
  BY <1>1
<1> QED
  BY <1>2, <1>6, <1>7

-----------------------------------------------------------------------------
(* The packets in transit, and what can be claimed *)

(* There are finitely many packets.                                        *)
LEMMA PacketsAreFinite == IsFiniteSet(Packet)
<1> DEFINE S == Channel \X (1..MaxSequence)
           f == [p \in Packet |-> p.sequence]
<1>1. IsFiniteSet(S)
  <2>1. IsFiniteSet(Channel) /\ MaxSequence \in Nat
    BY RelayAssumption
  <2>2. IsFiniteSet(1..MaxSequence)
    BY <2>1, FS_Interval
  <2> QED
    BY <2>1, <2>2, FS_Product
<1>2. f \in Injection(Packet, S)
  <2>1. f \in [Packet -> S]
    BY DEF Packet
  <2>2. \A p, q \in Packet : f[p] = f[q] => p = q
    BY DEF Packet
  <2> QED
    BY <2>1, <2>2 DEF Injection, IsInjective
<1> HIDE DEF S, f
<1> QED
  BY <1>1, <1>2, FS_Injection

(* One more term.                                                          *)
LEMMA SumOfOneMore ==
  ASSUME NEW U, NEW p, p \notin U, NEW f, NEW g, DOMAIN f = U, DOMAIN g = U \cup {p},
         Counts(g, U \cup {p}), \A q \in U : g[q] = f[q]
  PROVE  SumFunction(g) = SumFunction(f) + g[p]
<1>1. SumFunctionOnSet(g, U \cup {p}) = SumFunctionOnSet(g, U) + g[p]
  BY SumWith
<1>2. Counts(g, U) /\ SumFunctionOnSet(g, U) \in Nat
  <2>1. U \in SUBSET (U \cup {p})
    OBVIOUS
  <2> QED
    BY <2>1, SumCounts
<1>3. SumFunctionOnSet(f, U) = SumFunctionOnSet(g, U)
  <2>1. \A q \in U : f[q] = g[q]
    OBVIOUS
  <2> QED
    BY <1>2, <2>1, SumSame
<1> QED
  BY <1>1, <1>3 DEF SumFunction

(* What the packets P have of a denomination, by their tokens.             *)
transit(P, tokens, D) == SumFunction([p \in P |-> carried(tokens[p], D)])

(* The sum over a set of packets is a natural number, and no packet has    *)
(* more.                                                                   *)
LEMMA TransitIs ==
  ASSUME NEW P, P \subseteq Packet, NEW tokens, \A p \in P : Additive(tokens[p]), NEW D
  PROVE  /\ transit(P, tokens, D) \in Nat
         /\ \A p \in P : /\ carried(tokens[p], D) \in Nat
                         /\ carried(tokens[p], D) <= transit(P, tokens, D)
<1> DEFINE f == [p \in P |-> carried(tokens[p], D)]
<1>1. ASSUME NEW p \in P
      PROVE  carried(tokens[p], D) \in Nat
  <2>1. Len(tokens[p]) \in Nat /\ Additive(tokens[p])
    BY DEF Additive
  <2>2. Len(tokens[p]) \in 0..Len(tokens[p])
    BY <2>1
  <2>3. carriedTo(tokens[p], Len(tokens[p]), D) = carried(tokens[p], D)
        /\ \A i \in 0..Len(tokens[p]) : carriedTo(tokens[p], i, D) \in Nat
    BY <2>1, CarriedTo
  <2> QED
    BY <2>2, <2>3
<1>2. DOMAIN f = P /\ \A p \in P : f[p] = carried(tokens[p], D)
  OBVIOUS
<1>3. transit(P, tokens, D) = SumFunctionOnSet(f, P)
  BY <1>2 DEF transit, SumFunction
<1> HIDE DEF f
<1>4. Counts(f, P)
  <2>1. IsFiniteSet(P)
    BY PacketsAreFinite, FS_Subset
  <2> QED
    BY <1>1, <1>2, <2>1 DEF Counts
<1>5. SumFunctionOnSet(f, P) \in Nat
  BY <1>4, SumCounts
<1>6. \A p \in P : f[p] <= SumFunctionOnSet(f, P)
  BY <1>4, SumOfPart
<1> QED
  BY <1>1, <1>2, <1>3, <1>5, <1>6

(* A packet comes on its way.                                              *)
LEMMA TransitGrows ==
  ASSUME NEW P, P \subseteq Packet, NEW p \in Packet, p \notin P, NEW tokens, NEW others,
         \A q \in P \cup {p} : Additive(tokens[q]), \A q \in P : others[q] = tokens[q], NEW D
  PROVE  transit(P \cup {p}, tokens, D) = transit(P, others, D) + carried(tokens[p], D)
<1> DEFINE f == [q \in P |-> carried(others[q], D)]
           g == [q \in P \cup {p} |-> carried(tokens[q], D)]
<1>1. /\ DOMAIN f = P /\ DOMAIN g = P \cup {p}
      /\ \A q \in P : g[q] = f[q]
      /\ g[p] = carried(tokens[p], D)
  OBVIOUS
<1>2. Counts(g, P \cup {p})
  <2>1. P \cup {p} \subseteq Packet
    OBVIOUS
  <2>2. IsFiniteSet(P \cup {p})
    BY <2>1, PacketsAreFinite, FS_Subset
  <2>3. \A q \in P \cup {p} : carried(tokens[q], D) \in Nat
    BY <2>1, TransitIs
  <2> QED
    BY <2>2, <2>3 DEF Counts
<1>3. transit(P, others, D) = SumFunction(f) /\ transit(P \cup {p}, tokens, D) = SumFunction(g)
  BY DEF transit
<1> HIDE DEF f, g
<1>4. SumFunction(g) = SumFunction(f) + g[p]
  BY <1>1, <1>2, SumOfOneMore
<1> QED
  BY <1>1, <1>3, <1>4

(* The packet p of s joins those U in transit on ch, or leaves them: then  *)
(* V are in transit.  K and J are the tokens of the packets of each chain. *)
Passes(s, ch, p, out, U, K, V, J) ==
  /\ \A x \in Chain, o \in Channel :
       /\ U[x][o] \subseteq Packet /\ V[x][o] \subseteq Packet
       /\ x # s \/ o # ch => V[x][o] = U[x][o]
       /\ \A q \in U[x][o] : J[x][q] = K[x][q]
       /\ \A q \in U[x][o] \cup V[x][o] : Additive(J[x][q])
  /\ out => p \notin U[s][ch] /\ V[s][ch] = U[s][ch] \cup {p}
  /\ ~out => p \notin V[s][ch] /\ U[s][ch] = V[s][ch] \cup {p}

(* When a packet becomes unsettled or is settled, the sum changes by what  *)
(* it has.                                                                 *)
LEMMA TransitChanges ==
  ASSUME NEW s \in Chain, NEW ch \in Channel, NEW p \in Packet, NEW out \in BOOLEAN,
         NEW U, NEW K, NEW V, NEW J, Passes(s, ch, p, out, U, K, V, J),
         NEW x \in Chain, NEW o \in Channel, NEW D
  PROVE  /\ transit(U[x][o], K[x], D) \in Nat /\ transit(V[x][o], J[x], D) \in Nat
         /\ carried(J[s][p], D) \in Nat
         /\ transit(V[x][o], J[x], D) = transit(U[x][o], K[x], D)
              + (IF x = s /\ o = ch THEN signed(out, carried(J[s][p], D)) ELSE 0)
<1>1. /\ U[x][o] \subseteq Packet /\ V[x][o] \subseteq Packet
      /\ x # s \/ o # ch => V[x][o] = U[x][o]
      /\ \A q \in U[x][o] : J[x][q] = K[x][q]
      /\ \A q \in U[x][o] \cup V[x][o] : Additive(J[x][q])
  BY DEF Passes
<1>2. transit(V[x][o], J[x], D) \in Nat
  <2>1. \A q \in V[x][o] : Additive(J[x][q])
    BY <1>1
  <2> QED
    BY <1>1, <2>1, TransitIs
<1>3. transit(U[x][o], K[x], D) = transit(U[x][o], J[x], D)
  <2>1. [q \in U[x][o] |-> carried(K[x][q], D)] = [q \in U[x][o] |-> carried(J[x][q], D)]
    BY <1>1
  <2> QED
    BY <2>1 DEF transit
<1>4. transit(U[x][o], J[x], D) \in Nat
  <2>1. \A q \in U[x][o] : Additive(J[x][q])
    BY <1>1
  <2> QED
    BY <1>1, <2>1, TransitIs
<1>5. carried(J[s][p], D) \in Nat
  <2> DEFINE W == U[s][ch] \cup V[s][ch]
  <2>1. p \in W
    BY DEF Passes
  <2>2. W \subseteq Packet /\ \A q \in W : Additive(J[s][q])
    BY DEF Passes
  <2> HIDE DEF W
  <2> QED
    BY <2>1, <2>2, TransitIs
<1>6. CASE x = s /\ o = ch
  <2>1. CASE out
    <3>1. p \notin U[x][o] /\ V[x][o] = U[x][o] \cup {p}
      BY <1>6, <2>1 DEF Passes
    <3>2. \A q \in U[x][o] \cup {p} : Additive(J[x][q])
      BY <1>1, <3>1
    <3>3. transit(U[x][o] \cup {p}, J[x], D) = transit(U[x][o], J[x], D) + carried(J[x][p], D)
      BY <1>1, <3>1, <3>2, TransitGrows
    <3> QED
      BY <1>2, <1>3, <1>4, <1>5, <1>6, <2>1, <3>1, <3>3 DEF signed
  <2>2. CASE ~out
    <3>1. p \notin V[x][o] /\ U[x][o] = V[x][o] \cup {p}
      BY <1>6, <2>2 DEF Passes
    <3>2. \A q \in V[x][o] \cup {p} : Additive(J[x][q])
      BY <1>1, <3>1
    <3>3. transit(V[x][o] \cup {p}, J[x], D) = transit(V[x][o], J[x], D) + carried(J[x][p], D)
      BY <1>1, <3>1, <3>2, TransitGrows
    <3>4. transit(U[x][o], K[x], D) = transit(V[x][o], J[x], D) + carried(J[s][p], D)
      BY <1>3, <1>6, <3>1, <3>3
    <3> QED
      BY <1>2, <1>3, <1>4, <1>5, <1>6, <2>2, <3>4 DEF signed
  <2> QED
    BY <2>1, <2>2
<1>7. CASE x # s \/ o # ch
  <2>1. V[x][o] = U[x][o]
    BY <1>1, <1>7
  <2> QED
    BY <1>2, <1>3, <1>4, <1>5, <1>7, <2>1
<1> QED
  BY <1>6, <1>7

(* What can be claimed of the token T of c over ch, with the ledgers R and *)
(* the packets U in transit.                                               *)
owed(R, U, K, c, ch, T) ==
  supplyOf(R[counterparty(c)], wrapped(counterparty(c), ch, T))
    + transit(U[c][ch], K[c], named(c, c, ch, T))
    + transit(U[counterparty(c)][ch], K[counterparty(c)], named(counterparty(c), c, ch, T))

(* A packet goes out of c, or comes in, with what the ledger M of c shows: *)
(* as much more, or less, can be claimed of what is in escrow.             *)
LEMMA OwedMoves ==
  ASSUME NEW s \in Chain, NEW c \in Chain, NEW ch \in Channel, NEW p \in Packet, NEW out \in BOOLEAN,
         NEW U, NEW K, NEW V, NEW J, Passes(s, ch, p, out, U, K, V, J),
         NEW R, \A x \in Chain : Known(x, R[x]),
         NEW S, \A x \in Chain \ {c} : S[x] = R[x],
         Moved(s, c, ch, R[c], S[c], J[s][p], Len(J[s][p]), out),
         NEW x \in Chain, NEW o \in Channel, NEW T \in Address
  PROVE  /\ owed(R, U, K, x, o, T) \in Nat /\ owed(S, V, J, x, o, T) \in Nat
         /\ carried(J[s][p], named(s, c, ch, T)) \in Nat
         /\ owed(S, V, J, x, o, T) = owed(R, U, K, x, o, T)
              + (IF x = c /\ o = ch THEN signed(out, carried(J[s][p], named(s, c, ch, T))) ELSE 0)
<1> DEFINE d == counterparty(c)
           y == counterparty(x)
           k == J[s][p]
           w == wrapped(y, o, T)
<1>1. d \in Chain /\ d # c /\ counterparty(d) = c /\ y \in Chain /\ (s = c \/ s = d)
      /\ (x = c => y = d) /\ (x = d => y = c) /\ (x = c \/ x = d) /\ (y = c => x = d)
  BY Others
<1>2. Additive(k)
  BY <1>1 DEF Passes
<1>3. \A D : carriedTo(k, Len(k), D) = carried(k, D)
  BY <1>2, CarriedTo
<1>4. \A z \in Chain : \A D : /\ transit(U[z][o], K[z], D) \in Nat /\ transit(V[z][o], J[z], D) \in Nat
                               /\ carried(k, D) \in Nat
                               /\ transit(V[z][o], J[z], D) = transit(U[z][o], K[z], D)
                                    + (IF z = s /\ o = ch THEN signed(out, carried(k, D)) ELSE 0)
  BY TransitChanges
<1>5. Known(c, S[c]) /\ \A z \in Chain : Known(z, S[z])
  BY DEF Moved, Shift
<1>6. w \in Address /\ supplyOf(R[y], w) \in Nat /\ supplyOf(S[y], w) \in Nat
  <2>1. w \in Address
    BY <1>1, Wrapped
  <2>2. R[y] \in Ledger /\ S[y] \in Ledger
    BY <1>1, <1>5 DEF Known
  <2> QED
    BY <2>1, <2>2, LedgerAmounts
<1>7. supplyOf(S[y], w) = supplyOf(R[y], w)
        + (IF y = c /\ o = ch THEN signed(~out, carried(k, named(s, d, ch, T))) ELSE 0)
  <2>1. CASE y = c /\ o = ch
    <3>1. supplyOf(S[c], wrapped(c, ch, T)) = supplyOf(R[c], wrapped(c, ch, T))
            + signed(~out, carriedTo(k, Len(k), named(s, d, ch, T)))
      BY DEF Moved, Shift
    <3> QED
      BY <1>3, <2>1, <3>1
  <2>2. CASE y = c /\ o # ch
    <3>1. supplyOf(S[c], wrapped(c, o, T)) = supplyOf(R[c], wrapped(c, o, T))
      BY <2>2 DEF Moved, Shift
    <3> QED
      BY <1>6, <2>2, <3>1
  <2>3. CASE y # c
    BY <1>1, <1>6, <2>3
  <2> QED
    BY <2>1, <2>2, <2>3
<1> DEFINE a == transit(U[x][o], K[x], named(x, x, o, T))
           b == transit(U[y][o], K[y], named(y, x, o, T))
           e == transit(V[x][o], J[x], named(x, x, o, T))
           f == transit(V[y][o], J[y], named(y, x, o, T))
<1>8. /\ a \in Nat /\ b \in Nat /\ e \in Nat /\ f \in Nat
      /\ e = a + (IF x = s /\ o = ch THEN signed(out, carried(k, named(x, x, o, T))) ELSE 0)
      /\ f = b + (IF y = s /\ o = ch THEN signed(out, carried(k, named(y, x, o, T))) ELSE 0)
  BY <1>1, <1>4
<1> DEFINE u == supplyOf(R[y], w)
           v == supplyOf(S[y], w)
<1>9. owed(R, U, K, x, o, T) = u + a + b /\ owed(S, V, J, x, o, T) = v + e + f
      /\ u \in Nat /\ v \in Nat
  BY <1>6 DEF owed
<1>10. \A D : carried(k, D) \in Nat
  BY <1>1, <1>4
<1>11. /\ a \in Nat /\ b \in Nat /\ e \in Nat /\ f \in Nat /\ u \in Nat /\ v \in Nat
  BY <1>8, <1>9
<1> HIDE DEF a, b, e, f, u, v, w, k
<1>12. owed(S, V, J, x, o, T) = owed(R, U, K, x, o, T)
         + (IF x = c /\ o = ch THEN signed(out, carried(k, named(s, c, ch, T))) ELSE 0)
  <2>1. CASE o # ch
    <3>1. v = u
      BY <1>6, <1>7, <2>1 DEF u, v
    <3> QED
      BY <1>8, <1>9, <2>1, <3>1
  <2>2. CASE o = ch /\ x = c
    <3>1. y = d /\ y # c
      BY <1>1, <2>2
    <3>2. v = u
      BY <1>6, <1>7, <3>1 DEF u, v
    <3>3. e + f = a + b + signed(out, carried(k, named(s, c, ch, T)))
      <4> HIDE DEF y, d
      <4>1. CASE s = c
        BY <1>1, <1>8, <1>10, <2>2, <3>1, <4>1 DEF signed
      <4>2. CASE s = d
        BY <1>1, <1>8, <1>10, <2>2, <3>1, <4>2 DEF signed
      <4> QED
        BY <1>1, <4>1, <4>2
    <3> DEFINE m == signed(out, carried(k, named(s, c, ch, T)))
    <3>4. m \in Int /\ e + f = a + b + m
      BY <1>10, <3>3 DEF signed
    <3> HIDE DEF m
    <3>5. v + e + f = u + a + b + m
      BY <1>11, <3>2, <3>4
    <3> QED
      BY <1>9, <2>2, <3>5 DEF m
  <2>3. CASE o = ch /\ x = d
    <3>1. y = c
      BY <1>1, <2>3
    <3>2. v = u + signed(~out, carried(k, named(s, d, ch, T)))
      BY <1>7, <2>3, <3>1 DEF u, v
    <3>3. e + f = a + b + signed(out, carried(k, named(s, d, ch, T)))
      <4> HIDE DEF y, d
      <4>1. CASE s = c
        BY <1>1, <1>8, <1>10, <2>3, <3>1, <4>1 DEF signed
      <4>2. CASE s = d
        BY <1>1, <1>8, <1>10, <2>3, <3>1, <4>2 DEF signed
      <4> QED
        BY <1>1, <4>1, <4>2
    <3>4. x # c
      BY <1>1, <2>3
    <3> DEFINE m == signed(out, carried(k, named(s, d, ch, T)))
               l == signed(~out, carried(k, named(s, d, ch, T)))
    <3>5. m \in Int /\ l = 0 - m
      <4>1. carried(k, named(s, d, ch, T)) \in Nat
        BY <1>10
      <4>2. CASE out
        BY <4>1, <4>2 DEF signed
      <4>3. CASE ~out
        BY <4>1, <4>3 DEF signed
      <4> QED
        BY <4>2, <4>3
    <3>6. v = u + l /\ e + f = a + b + m
      BY <3>2, <3>3
    <3> HIDE DEF m, l
    <3>7. v + e + f = u + a + b
      BY <1>11, <3>5, <3>6
    <3>8. u + a + b \in Nat
      BY <1>8, <1>9
    <3> QED
      BY <1>9, <3>4, <3>7, <3>8
  <2> QED
    BY <1>1, <2>1, <2>2, <2>3
<1>13. owed(R, U, K, x, o, T) \in Nat /\ owed(S, V, J, x, o, T) \in Nat
  BY <1>9, <1>11
<1>14. carried(k, named(s, c, ch, T)) \in Nat
  BY <1>10
<1> QED
  BY <1>12, <1>13, <1>14 DEF k

(* The books of the ledgers R, with the packets U in transit.              *)
Backed(R, U, K) ==
  \A c \in Chain, T \in Address :
    escrowOf(R[c], T) = SumFunction([ch \in Channel |-> owed(R, U, K, c, ch, T)])

Covered(R, U, K) ==
  \A c \in Chain, ch \in Channel, T \in Address :
    getOutstanding(R[c], ch, T) >= owed(R, U, K, c, ch, T)

(* A packet that goes out or comes in with all its tokens keeps the books. *)
LEMMA Conserved ==
  ASSUME NEW s \in Chain, NEW c \in Chain, NEW ch \in Channel, NEW p \in Packet, NEW out \in BOOLEAN,
         NEW U, NEW K, NEW V, NEW J, Passes(s, ch, p, out, U, K, V, J),
         NEW R, \A x \in Chain : Known(x, R[x]),
         NEW S, \A x \in Chain \ {c} : S[x] = R[x],
         Moved(s, c, ch, R[c], S[c], J[s][p], Len(J[s][p]), out),
         Backed(R, U, K), Covered(R, U, K)
  PROVE  Backed(S, V, J) /\ Covered(S, V, J)
<1> DEFINE k == J[s][p]
           move(T) == signed(out, carried(k, named(s, c, ch, T)))
<1>1. \A x \in Chain, o \in Channel, T \in Address :
        /\ owed(R, U, K, x, o, T) \in Nat /\ owed(S, V, J, x, o, T) \in Nat
        /\ carried(k, named(s, c, ch, T)) \in Nat
        /\ owed(S, V, J, x, o, T) = owed(R, U, K, x, o, T) + (IF x = c /\ o = ch THEN move(T) ELSE 0)
  BY OwedMoves
<1>2. Additive(k)
  BY DEF Passes
<1>3. \A D : carriedTo(k, Len(k), D) = carried(k, D)
  BY <1>2, CarriedTo
<1>4. \A T \in Address :
        /\ move(T) \in Int
        /\ escrowOf(S[c], T) = escrowOf(R[c], T) + move(T)
        /\ getOutstanding(S[c], ch, T) >= getOutstanding(R[c], ch, T) + move(T)
        /\ \A o \in Channel \ {ch} : getOutstanding(S[c], o, T) = getOutstanding(R[c], o, T)
  <2>1. \A T \in Address : move(T) \in Int
    BY <1>1 DEF signed
  <2>2. \A T \in Address :
          /\ escrowOf(S[c], T) = escrowOf(R[c], T) + signed(out, carriedTo(k, Len(k), named(s, c, ch, T)))
          /\ getOutstanding(S[c], ch, T) >=
               getOutstanding(R[c], ch, T) + signed(out, carriedTo(k, Len(k), named(s, c, ch, T)))
          /\ \A o \in Channel \ {ch} : getOutstanding(S[c], o, T) = getOutstanding(R[c], o, T)
    BY DEF Moved, Shift
  <2> QED
    BY <1>3, <2>1, <2>2
<1> HIDE DEF move, k
<1>5. \A x \in Chain, o \in Channel, T \in Address : x # c \/ o # ch =>
        owed(S, V, J, x, o, T) = owed(R, U, K, x, o, T)
  BY <1>1
<1>6. \A T \in Address : owed(S, V, J, c, ch, T) = owed(R, U, K, c, ch, T) + move(T)
  BY <1>1
<1>7. ASSUME NEW x \in Chain, NEW T \in Address
      PROVE  escrowOf(S[x], T) = SumFunction([o \in Channel |-> owed(S, V, J, x, o, T)])
  <2> DEFINE f == [o \in Channel |-> owed(R, U, K, x, o, T)]
             g == [o \in Channel |-> owed(S, V, J, x, o, T)]
  <2>1. escrowOf(R[x], T) = SumFunction(f)
    BY DEF Backed
  <2>2. CASE x # c
    <3>1. f = g /\ S[x] = R[x]
      BY <1>5, <2>2
    <3> QED
      BY <2>1, <3>1
  <2>3. CASE x = c
    <3>1. /\ SumFunction(f) = SumFunctionOnSet(f, Channel) /\ SumFunction(g) = SumFunctionOnSet(g, Channel)
          /\ \A o \in Channel \ {ch} : g[o] = f[o]
          /\ f[ch] \in Nat /\ g[ch] = f[ch] + move(T)
          /\ \A o \in Channel : f[o] \in Nat /\ g[o] \in Nat
      BY <1>1, <1>5, <1>6, <2>3 DEF SumFunction
    <3>2. IsFiniteSet(Channel)
      BY RelayAssumption
    <3> HIDE DEF f, g
    <3>3. Counts(f, Channel) /\ Counts(g, Channel)
      BY <3>1, <3>2 DEF Counts
    <3>4. SumFunctionOnSet(g, Channel) + f[ch] = SumFunctionOnSet(f, Channel) + g[ch]
      BY <3>1, <3>3, SumChanges
    <3>5. SumFunctionOnSet(f, Channel) \in Nat /\ SumFunctionOnSet(g, Channel) \in Nat
      BY <3>3, SumCounts
    <3>6. move(T) \in Int /\ escrowOf(S[c], T) = escrowOf(R[c], T) + move(T)
      BY <1>4
    <3>7. f[ch] \in Nat /\ g[ch] = f[ch] + move(T)
      BY <3>1
    <3>8. SumFunctionOnSet(g, Channel) = SumFunctionOnSet(f, Channel) + move(T)
      <4>1. \A m, n, a, b \in Int : \A i \in Int : m + a = n + b /\ b = a + i => m = n + i
        OBVIOUS
      <4>2. move(T) \in Int
        BY <3>6
      <4> QED
        BY <3>4, <3>5, <3>7, <4>1, <4>2
    <3> QED
      BY <2>1, <2>3, <3>1, <3>6, <3>8 DEF g
  <2> QED
    BY <2>2, <2>3
<1>8. ASSUME NEW x \in Chain, NEW o \in Channel, NEW T \in Address
      PROVE  getOutstanding(S[x], o, T) >= owed(S, V, J, x, o, T)
  <2>1. getOutstanding(R[x], o, T) >= owed(R, U, K, x, o, T)
    BY DEF Covered
  <2>2. CASE x # c
    <3>1. owed(S, V, J, x, o, T) = owed(R, U, K, x, o, T) /\ S[x] = R[x]
      BY <1>5, <2>2
    <3> QED
      BY <2>1, <3>1
  <2>3. CASE x = c /\ o # ch
    <3>1. owed(S, V, J, x, o, T) = owed(R, U, K, x, o, T)
          /\ getOutstanding(S[x], o, T) = getOutstanding(R[x], o, T)
      BY <1>4, <1>5, <2>3
    <3> QED
      BY <2>1, <3>1
  <2>4. CASE x = c /\ o = ch
    <3>1. /\ move(T) \in Int /\ getOutstanding(S[c], ch, T) >= getOutstanding(R[c], ch, T) + move(T)
          /\ owed(S, V, J, c, ch, T) = owed(R, U, K, c, ch, T) + move(T)
          /\ getOutstanding(R[c], ch, T) >= owed(R, U, K, c, ch, T)
      BY <1>4, <1>6, <2>1, <2>4
    <3>2. /\ owed(R, U, K, c, ch, T) \in Nat /\ getOutstanding(R[c], ch, T) \in Nat
          /\ getOutstanding(S[c], ch, T) \in Nat
      <4>1. R[c] \in Ledger /\ S[c] \in Ledger
        BY DEF Moved, Shift, Known
      <4> QED
        BY <1>1, <4>1, LedgerAmounts
    <3>3. getOutstanding(S[c], ch, T) >= owed(S, V, J, c, ch, T)
      BY <3>1, <3>2
    <3> QED
      BY <2>4, <3>3
  <2> QED
    BY <2>2, <2>3, <2>4
<1> QED
  BY <1>7, <1>8 DEF Backed, Covered

(* What can be claimed contains every packet in transit, and is there.     *)
LEMMA OwedIsThere ==
  ASSUME NEW s \in Chain, NEW c \in Chain, NEW ch \in Channel, NEW U, NEW K, NEW R,
         \A x \in Chain : Known(x, R[x]),
         \A x \in Chain, o \in Channel : U[x][o] \subseteq Packet /\ \A q \in U[x][o] : Additive(K[x][q]),
         Backed(R, U, K), Covered(R, U, K), NEW p \in U[s][ch]
  PROVE  Affords(s, c, ch, R[c], K[s][p])
<1> DEFINE d == counterparty(c)
<1>1. d \in Chain /\ counterparty(d) = c /\ d # c /\ (s = c \/ s = d)
  BY Others
<1>2. \A x \in Chain, o \in Channel, T \in Address :
        /\ supplyOf(R[counterparty(x)], wrapped(counterparty(x), o, T)) \in Nat
        /\ \A z \in Chain : \A D : transit(U[z][o], K[z], D) \in Nat
  <2> SUFFICES ASSUME NEW x \in Chain, NEW o \in Channel, NEW T \in Address
               PROVE  /\ supplyOf(R[counterparty(x)], wrapped(counterparty(x), o, T)) \in Nat
                      /\ \A z \in Chain : \A D : transit(U[z][o], K[z], D) \in Nat
    OBVIOUS
  <2>1. counterparty(x) \in Chain
    BY Others
  <2>2. wrapped(counterparty(x), o, T) \in Address /\ R[counterparty(x)] \in Ledger
    BY <2>1, Wrapped DEF Known
  <2>3. supplyOf(R[counterparty(x)], wrapped(counterparty(x), o, T)) \in Nat
    BY <2>2, LedgerAmounts
  <2>4. \A z \in Chain : \A D : transit(U[z][o], K[z], D) \in Nat
    BY TransitIs
  <2> QED
    BY <2>3, <2>4
<1>3. \A x \in Chain, o \in Channel, T \in Address : owed(R, U, K, x, o, T) \in Nat
  <2> SUFFICES ASSUME NEW x \in Chain, NEW o \in Channel, NEW T \in Address
               PROVE  owed(R, U, K, x, o, T) \in Nat
    OBVIOUS
  <2> DEFINE u == supplyOf(R[counterparty(x)], wrapped(counterparty(x), o, T))
             a == transit(U[x][o], K[x], named(x, x, o, T))
             b == transit(U[counterparty(x)][o], K[counterparty(x)], named(counterparty(x), x, o, T))
  <2>1. owed(R, U, K, x, o, T) = u + a + b
    BY DEF owed
  <2>2. u \in Nat /\ a \in Nat /\ b \in Nat
    BY <1>2, Others
  <2> HIDE DEF u, a, b
  <2> QED
    BY <2>1, <2>2
<1>4. ASSUME NEW T \in Address
      PROVE  carried(K[s][p], named(s, c, ch, T)) \in Nat
             /\ carried(K[s][p], named(s, c, ch, T)) <= owed(R, U, K, c, ch, T)
  <2> DEFINE u == supplyOf(R[d], wrapped(d, ch, T))
             a == transit(U[c][ch], K[c], named(c, c, ch, T))
             b == transit(U[d][ch], K[d], named(d, c, ch, T))
             n == carried(K[s][p], named(s, c, ch, T))
  <2>1. owed(R, U, K, c, ch, T) = u + a + b
    BY DEF owed
  <2>2. u \in Nat /\ a \in Nat /\ b \in Nat
    BY <1>1, <1>2
  <2>3. n \in Nat /\ n <= transit(U[s][ch], K[s], named(s, c, ch, T))
    BY TransitIs
  <2>4. n <= a \/ n <= b
    BY <1>1, <2>3
  <2> HIDE DEF u, a, b, n
  <2>5. n \in Nat /\ n <= u + a + b
    BY <2>2, <2>3, <2>4
  <2> QED
    BY <2>1, <2>5 DEF n
<1>5. ASSUME NEW T \in Address
      PROVE  escrowOf(R[c], T) \in Nat /\ owed(R, U, K, c, ch, T) <= escrowOf(R[c], T)
  <2> DEFINE f == [o \in Channel |-> owed(R, U, K, c, o, T)]
  <2>1. escrowOf(R[c], T) = SumFunctionOnSet(f, Channel)
    BY DEF Backed, SumFunction
  <2>2. Counts(f, Channel) /\ f[ch] = owed(R, U, K, c, ch, T)
    BY <1>3, RelayAssumption DEF Counts
  <2> HIDE DEF f
  <2>3. f[ch] <= SumFunctionOnSet(f, Channel)
    BY <2>2, SumOfPart
  <2>4. SumFunctionOnSet(f, Channel) \in Nat
    BY <2>2, SumCounts
  <2> QED
    BY <2>1, <2>2, <2>3, <2>4
<1>6. ASSUME NEW T \in Address
      PROVE  getOutstanding(R[c], ch, T) \in Nat /\ owed(R, U, K, c, ch, T) <= getOutstanding(R[c], ch, T)
  BY LedgerAmounts DEF Covered, Known
<1>7. ASSUME NEW T \in Address
      PROVE  /\ escrowOf(R[c], T) >= carried(K[s][p], named(s, c, ch, T))
             /\ getOutstanding(R[c], ch, T) >= carried(K[s][p], named(s, c, ch, T))
  <2>1. owed(R, U, K, c, ch, T) \in Nat
    BY <1>3
  <2> QED
    BY <1>4, <1>5, <1>6, <2>1
<1> QED
  BY <1>7 DEF Affords

-----------------------------------------------------------------------------
(* The inductive invariant *)

openPackets == [c \in Chain |-> [ch \in Channel |-> unsettled(c, ch)]]
tokensOf == [c \in Chain |-> [p \in Packet |-> data[c][p].tokens]]

(* What TLC checks of the state is what is owed by the ledgers and the     *)
(* unsettled packets.                                                      *)
LEMMA ClaimsAre ==
  ASSUME NEW c \in Chain, NEW ch \in Channel, NEW T \in Address
  PROVE  claims(c, ch, T) = owed(relay, openPackets, tokensOf, c, ch, T)
<1> DEFINE d == counterparty(c)
<1>1. d \in Chain /\ d # c /\ counterparty(d) = c
  BY Others
<1>2. \A x \in Chain : \A D : inTransit(x, ch, D) = transit(openPackets[x][ch], tokensOf[x], D)
  <2> SUFFICES ASSUME NEW x \in Chain, NEW D
               PROVE  inTransit(x, ch, D) = transit(openPackets[x][ch], tokensOf[x], D)
    OBVIOUS
  <2>1. openPackets[x][ch] = unsettled(x, ch)
    BY DEF openPackets
  <2>2. \A p \in unsettled(x, ch) : tokensOf[x][p] = data[x][p].tokens
    BY DEF tokensOf, unsettled
  <2>3. [p \in unsettled(x, ch) |-> carried(tokensOf[x][p], D)]
          = [p \in unsettled(x, ch) |-> carried(data[x][p].tokens, D)]
    BY <2>2
  <2> QED
    BY <2>1, <2>3 DEF inTransit, transit
<1>3. /\ wrapper(c, ch, T) = wrapped(d, ch, T)
      /\ named(c, c, ch, T) = toHexString(T) /\ named(d, c, ch, T) = wrapped(d, ch, T)
  BY <1>1 DEF wrapper, wrapped, named
<1> QED
  BY <1>1, <1>2, <1>3 DEF claims, owed

Funds == /\ DOMAIN relay = Chain /\ relay = [c \in DOMAIN relay |-> relay[c]]
         /\ \A c \in Chain : Known(c, relay[c]) /\ relay[c].ok

(* A packet has been sent with tokens that it may carry.                   *)
Packed(c, p) ==
  /\ data[c][p].sender \in Holder /\ data[c][p].receiver \in {User, BadReceiver}
  /\ Fit(c, channelOf(p), data[c][p].tokens)
  /\ \A i \in 1..Len(data[c][p].tokens) : \A T \in Address :
       data[c][p].tokens[i].denom = wrapped(c, channelOf(p), T)
         => wrapped(c, channelOf(p), T) \in relay[c].denomToAddress[channelOf(p)]

Stages ==
  /\ stage \in [Chain -> [Packet -> Packets!Stage]]
  /\ answer \in [Chain -> [Packet -> {NoAck} \cup Acknowledgement]]
  /\ DOMAIN data = Chain /\ data = [c \in DOMAIN data |-> data[c]]
  /\ \A c \in Chain : DOMAIN data[c] = Packet /\ data[c] = [p \in DOMAIN data[c] |-> data[c][p]]
  /\ \A c \in Chain, p \in Packet :
       /\ stage[c][p] = "unsent" => answer[c][p] = NoAck
       /\ stage[c][p] # "unsent" =>
            /\ Packed(c, p)
            /\ data[c][p].receiver = User => answer[c][p] # ACK_FAILURE

Books == /\ Backed(relay, openPackets, tokensOf)
         /\ Covered(relay, openPackets, tokensOf)

IInv == Funds /\ Stages /\ Books

(* The first ledgers have no escrow, nothing outstanding and no wrappers.  *)
LEMMA InitFunds ==
  ASSUME NEW c \in Chain
  PROVE  /\ Known(c, InitLedger(c)) /\ InitLedger(c).ok
         /\ \A T \in Address : /\ escrowOf(InitLedger(c), T) = 0
                               /\ \A ch \in Channel : /\ getOutstanding(InitLedger(c), ch, T) = 0
                                                      /\ supplyOf(InitLedger(c), wrapped(c, ch, T)) = 0
<1> DEFINE L == InitLedger(c)
           contracts == {<<n>> : n \in Native[c]}
           own == [noBalance EXCEPT ![User] = Supply]
<1>1. /\ L.ok = TRUE /\ L.balance = [t \in contracts |-> own]
      /\ L.outstanding = [ch \in Channel |-> [t \in {} |-> 0]]
      /\ L.denomToAddress = [ch \in Channel |-> {}]
      /\ L = [ok |-> L.ok, balance |-> L.balance, outstanding |-> L.outstanding, denomToAddress |-> L.denomToAddress]
  BY DEF InitLedger
<1>2. contracts \subseteq Address
  <2>1. \A n \in Native[c] : n \in Symbol
    BY DEF Symbol
  <2>2. \A n \in Native[c] : <<n>> \in Seq(Symbol)
    BY <2>1
  <2> QED
    BY <2>2 DEF Address
<1>3. own \in [Account -> Nat] /\ own[Escrow] = 0
  <2>1. Escrow # User /\ Supply \in Nat /\ Escrow \in Account /\ User \in Account
    BY RelayAssumption DEF Account
  <2>2. noBalance \in [Account -> Nat] /\ noBalance[Escrow] = 0
    BY <2>1 DEF noBalance
  <2> QED
    BY <2>1, <2>2
<1>4. \A ch \in Channel, t \in contracts : ~isFromChannel(c, ch, t)
  BY FromChannel
<1> HIDE DEF L, contracts, own
<1>5. L \in Ledger
  <2>1. L.balance \in Balances
    BY <1>1, <1>2, <1>3 DEF Balances
  <2>2. [t \in {} |-> 0] \in Amounts
    <3>1. [t \in {} |-> 0] \in [{} -> Nat] /\ {} \in SUBSET Address
      OBVIOUS
    <3> QED
      BY <3>1 DEF Amounts
  <2>3. L.outstanding \in [Channel -> Amounts] /\ L.denomToAddress \in [Channel -> SUBSET Address]
    BY <1>1, <2>2
  <2> QED
    BY <1>1, <2>1, <2>3 DEF Ledger
<1>6. DOMAIN L.balance = contracts
  BY <1>1
<1>7. Known(c, L)
  <2> SUFFICES ASSUME NEW ch \in Channel
               PROVE  /\ L.denomToAddress[ch] = {t \in DOMAIN L.balance : isFromChannel(c, ch, t)}
                      /\ \A t \in L.denomToAddress[ch] : \E T \in Address : t = wrapped(c, ch, T)
    BY <1>5 DEF Known
  <2>1. L.denomToAddress[ch] = {}
    BY <1>1
  <2> QED
    BY <1>4, <1>6, <2>1
<1>8. ASSUME NEW T \in Address
      PROVE  /\ escrowOf(L, T) = 0
             /\ \A ch \in Channel : getOutstanding(L, ch, T) = 0 /\ supplyOf(L, wrapped(c, ch, T)) = 0
  <2>1. escrowOf(L, T) = 0
    BY <1>1, <1>3 DEF escrowOf
  <2>2. \A ch \in Channel : getOutstanding(L, ch, T) = 0
    BY <1>1 DEF getOutstanding
  <2>3. \A ch \in Channel : wrapped(c, ch, T) \notin contracts
    BY <1>4, Wrapped
  <2>4. \A ch \in Channel : supplyOf(L, wrapped(c, ch, T)) = 0
    BY <1>6, <2>3 DEF supplyOf
  <2> QED
    BY <2>1, <2>2, <2>4
<1> QED
  BY <1>1, <1>7, <1>8 DEF L

(* The relays start in the invariant.                                      *)
LEMMA InitInv == Init => IInv
<1> SUFFICES ASSUME Init PROVE IInv
  OBVIOUS
<1>1. /\ relay = [c \in Chain |-> InitLedger(c)] /\ data = [c \in Chain |-> [p \in Packet |-> NoData]]
      /\ stage = [c \in Chain |-> [p \in Packet |-> "unsent"]]
      /\ answer = [c \in Chain |-> [p \in Packet |-> NoAck]]
  BY DEF Init, Packets!Init
<1>2. Funds
  BY <1>1, InitFunds DEF Funds
<1>3. Stages
  BY <1>1 DEF Stages, Packets!Stage
<1>4. \A c \in Chain, ch \in Channel : openPackets[c][ch] = {}
  BY <1>1 DEF openPackets, unsettled
<1>5. \A c \in Chain, ch \in Channel, T \in Address : owed(relay, openPackets, tokensOf, c, ch, T) = 0
  <2> SUFFICES ASSUME NEW c \in Chain, NEW ch \in Channel, NEW T \in Address
               PROVE  owed(relay, openPackets, tokensOf, c, ch, T) = 0
    OBVIOUS
  <2>1. counterparty(c) \in Chain
    BY Others
  <2>2. \A x \in Chain : \A D : transit(openPackets[x][ch], tokensOf[x], D) = 0
    <3> SUFFICES ASSUME NEW x \in Chain, NEW D
                 PROVE  transit(openPackets[x][ch], tokensOf[x], D) = 0
      OBVIOUS
    <3> DEFINE f == [p \in {} |-> carried(tokensOf[x][p], D)]
    <3>1. transit(openPackets[x][ch], tokensOf[x], D) = SumFunctionOnSet(f, {})
      BY <1>4 DEF transit, SumFunction
    <3> HIDE DEF f
    <3> QED
      BY <3>1, FS_EmptySet, SumEquation
  <2>3. supplyOf(relay[counterparty(c)], wrapped(counterparty(c), ch, T)) = 0
    BY <1>1, <2>1, InitFunds
  <2> QED
    BY <2>1, <2>2, <2>3 DEF owed
<1>6. Backed(relay, openPackets, tokensOf)
  <2> SUFFICES ASSUME NEW c \in Chain, NEW T \in Address
               PROVE  escrowOf(relay[c], T) = SumFunction([ch \in Channel |-> owed(relay, openPackets, tokensOf, c, ch, T)])
    BY DEF Backed
  <2> DEFINE f == [ch \in Channel |-> owed(relay, openPackets, tokensOf, c, ch, T)]
  <2>1. SumFunction(f) = SumFunctionOnSet(f, Channel) /\ \A ch \in Channel : f[ch] = 0
    BY <1>5 DEF SumFunction
  <2>2. IsFiniteSet(Channel)
    BY RelayAssumption
  <2> HIDE DEF f
  <2>3. SumFunctionOnSet(f, Channel) = 0
    BY <2>1, <2>2, SumOfNothing
  <2>4. escrowOf(relay[c], T) = 0
    BY <1>1, InitFunds
  <2> QED
    BY <2>1, <2>3, <2>4 DEF f
<1>7. Covered(relay, openPackets, tokensOf)
  <2> SUFFICES ASSUME NEW c \in Chain, NEW ch \in Channel, NEW T \in Address
               PROVE  getOutstanding(relay[c], ch, T) >= owed(relay, openPackets, tokensOf, c, ch, T)
    BY DEF Covered
  <2>1. getOutstanding(relay[c], ch, T) = 0
    BY <1>1, InitFunds
  <2> QED
    BY <1>5, <2>1
<1> QED
  BY <1>2, <1>3, <1>6, <1>7 DEF IInv, Books

(* The packet q of x is neither paid out nor given back yet.               *)
isOpen(x, q) == \/ stage[x][q] = "inFlight"
                \/ stage[x][q] = "delivered" /\ answer[x][q] = ACK_FAILURE

(* A packet is of a channel.                                               *)
LEMMA Channels == \A p \in Packet : channelOf(p) \in Channel
  BY DEF Packet, channelOf

(* The tokens of an unsettled packet are fit to be refunded.               *)
LEMMA SentFit ==
  ASSUME Stages, NEW x \in Chain, NEW q \in Packet, isOpen(x, q)
  PROVE  Packed(x, q) /\ Additive(tokensOf[x][q])
<1>1. stage[x][q] # "unsent"
  BY DEF isOpen
<1>2. Packed(x, q)
  BY <1>1 DEF Stages
<1>3. tokensOf[x][q] = data[x][q].tokens
  BY DEF tokensOf
<1> QED
  BY <1>2, <1>3 DEF Packed, Fit

(* If one packet becomes unsettled, or is settled, the unsettled packets   *)
(* change by it.                                                           *)
LEMMA PassesWhen ==
  ASSUME NEW s \in Chain, NEW p \in Packet, NEW out \in BOOLEAN, Stages, Stages',
         \A x \in Chain, q \in Packet : x # s \/ q # p => (isOpen(x, q)' <=> isOpen(x, q)),
         isOpen(s, p)' <=> out, isOpen(s, p) <=> ~out,
         \A x \in Chain, q \in Packet : isOpen(x, q) => data'[x][q] = data[x][q]
  PROVE  Passes(s, channelOf(p), p, out, openPackets, tokensOf, openPackets', tokensOf')
<1> DEFINE ch == channelOf(p)
           U == openPackets
           V == openPackets'
           K == tokensOf
           J == tokensOf'
<1>1. \A x \in Chain, o \in Channel :
        /\ U[x][o] = {q \in Packet : channelOf(q) = o /\ isOpen(x, q)}
        /\ V[x][o] = {q \in Packet : channelOf(q) = o /\ isOpen(x, q)'}
  BY DEF openPackets, unsettled, isOpen
<1>2. \A x \in Chain, q \in Packet : isOpen(x, q) => J[x][q] = K[x][q]
  BY DEF tokensOf
<1>3. \A x \in Chain, q \in Packet : isOpen(x, q) => Additive(K[x][q])
  BY SentFit
<1>4. ASSUME NEW x \in Chain, NEW q \in Packet, isOpen(x, q)'
      PROVE  Additive(J[x][q])
  <2>1. Packed(x, q)'
    BY <1>4 DEF Stages, isOpen
  <2>2. J[x][q] = data'[x][q].tokens
    BY DEF tokensOf
  <2> QED
    BY <2>1, <2>2 DEF Packed, Fit
<1>5. ch \in Channel
  BY Channels
<1> HIDE DEF U, V, K, J
<1>6. ASSUME NEW x \in Chain, NEW o \in Channel
      PROVE  /\ U[x][o] \subseteq Packet /\ V[x][o] \subseteq Packet
             /\ x # s \/ o # ch => V[x][o] = U[x][o]
             /\ \A q \in U[x][o] : J[x][q] = K[x][q]
             /\ \A q \in U[x][o] \cup V[x][o] : Additive(J[x][q])
  <2>1. ASSUME x # s \/ o # ch
        PROVE  V[x][o] = U[x][o]
    <3>1. \A q \in Packet : channelOf(q) = o => (isOpen(x, q)' <=> isOpen(x, q))
      BY <2>1
    <3>2. {q \in Packet : channelOf(q) = o /\ isOpen(x, q)'} = {q \in Packet : channelOf(q) = o /\ isOpen(x, q)}
      BY <3>1
    <3>3. /\ U[x][o] = {q \in Packet : channelOf(q) = o /\ isOpen(x, q)}
          /\ V[x][o] = {q \in Packet : channelOf(q) = o /\ isOpen(x, q)'}
      BY <1>1
    <3> QED
      BY <3>2, <3>3, Zenon
  <2>2. \A q \in U[x][o] : J[x][q] = K[x][q] /\ Additive(J[x][q])
    BY <1>1, <1>2, <1>3
  <2>3. \A q \in V[x][o] : Additive(J[x][q])
    BY <1>1, <1>4
  <2> QED
    BY <1>1, <2>1, <2>2, <2>3
<1>7. out => p \notin U[s][ch] /\ V[s][ch] = U[s][ch] \cup {p}
  BY <1>1, <1>5
<1>8. ~out => p \notin V[s][ch] /\ U[s][ch] = V[s][ch] \cup {p}
  BY <1>1, <1>5
<1> QED
  BY <1>6, <1>7, <1>8 DEF Passes, U, V, K, J

(* A packet goes out of c or comes in: the funds and the books are kept.   *)
LEMMA BooksKept ==
  ASSUME IInv, Stages', NEW s \in Chain, NEW c \in Chain, NEW p \in Packet, NEW out \in BOOLEAN,
         \A x \in Chain, q \in Packet : x # s \/ q # p => (isOpen(x, q)' <=> isOpen(x, q)),
         isOpen(s, p)' <=> out, isOpen(s, p) <=> ~out,
         \A x \in Chain, q \in Packet : isOpen(x, q) => data'[x][q] = data[x][q],
         NEW M, M.ok, relay' = [relay EXCEPT ![c] = M],
         Moved(s, c, channelOf(p), relay[c], M, data'[s][p].tokens, Len(data'[s][p].tokens), out)
  PROVE  Funds' /\ Books'
<1>1. Passes(s, channelOf(p), p, out, openPackets, tokensOf, openPackets', tokensOf')
  BY PassesWhen DEF IInv
<1>2. /\ DOMAIN relay' = Chain /\ relay'[c] = M /\ \A x \in Chain \ {c} : relay'[x] = relay[x]
      /\ relay' = [x \in DOMAIN relay' |-> relay'[x]]
  BY DEF IInv, Funds
<1>3. \A x \in Chain : Known(x, relay[x]) /\ relay[x].ok
  BY DEF IInv, Funds
<1>4. tokensOf'[s][p] = data'[s][p].tokens
  BY DEF tokensOf
<1>5. Moved(s, c, channelOf(p), relay[c], relay'[c], tokensOf'[s][p], Len(tokensOf'[s][p]), out)
  BY <1>2, <1>4
<1>6. Backed(relay', openPackets', tokensOf') /\ Covered(relay', openPackets', tokensOf')
  <2> DEFINE U == openPackets
             V == openPackets'
             K == tokensOf
             J == tokensOf'
             S == relay'
  <2>1. Backed(relay, U, K) /\ Covered(relay, U, K) /\ channelOf(p) \in Channel
    BY Channels DEF IInv, Books
  <2> HIDE DEF U, V, K, J, S
  <2> QED
    BY <1>1, <1>2, <1>3, <1>5, <2>1, Conserved DEF U, V, K, J, S
<1>7. Known(c, M)
  BY DEF Moved, Shift
<1>8. Funds'
  BY <1>2, <1>3, <1>7 DEF Funds
<1> QED
  BY <1>6, <1>8 DEF Books

(* A packet is fit as long as its data stays and the relay forgets no      *)
(* wrapper.                                                                *)
LEMMA PackedKept ==
  ASSUME NEW c \in Chain, NEW p \in Packet, Packed(c, p), data'[c][p] = data[c][p],
         relay[c].denomToAddress[channelOf(p)] \subseteq relay'[c].denomToAddress[channelOf(p)]
  PROVE  Packed(c, p)'
<1> DEFINE k == data[c][p].tokens
<1>1. /\ data'[c][p].sender \in Holder /\ data'[c][p].receiver \in {User, BadReceiver}
      /\ Fit(c, channelOf(p), data'[c][p].tokens)
      /\ \A i \in 1..Len(data'[c][p].tokens) : \A T \in Address :
           data'[c][p].tokens[i].denom = wrapped(c, channelOf(p), T)
             => wrapped(c, channelOf(p), T) \in relay'[c].denomToAddress[channelOf(p)]
  BY DEF Packed
<1> QED
  BY <1>1 DEF Packed

(* A packet that was sent goes on to another stage.                        *)
LEMMA StagesKept ==
  ASSUME Stages, UNCHANGED data, NEW s \in Chain, NEW p \in Packet, stage[s][p] # "unsent",
         NEW to \in Packets!Stage, to # "unsent", stage' = [stage EXCEPT ![s][p] = to],
         NEW a \in {NoAck} \cup Acknowledgement, answer' = [answer EXCEPT ![s][p] = a],
         data[s][p].receiver = User => a # ACK_FAILURE,
         \A x \in Chain, o \in Channel : relay[x].denomToAddress[o] \subseteq relay'[x].denomToAddress[o]
  PROVE  /\ Stages'
         /\ stage'[s][p] = to /\ answer'[s][p] = a
         /\ \A x \in Chain, q \in Packet : x # s \/ q # p => (isOpen(x, q)' <=> isOpen(x, q))
<1>1. /\ stage \in [Chain -> [Packet -> Packets!Stage]]
      /\ answer \in [Chain -> [Packet -> {NoAck} \cup Acknowledgement]]
  BY DEF Stages
<1>2. /\ stage' \in [Chain -> [Packet -> Packets!Stage]]
      /\ answer' \in [Chain -> [Packet -> {NoAck} \cup Acknowledgement]]
      /\ stage'[s][p] = to /\ answer'[s][p] = a
      /\ \A x \in Chain, q \in Packet : x # s \/ q # p =>
           stage'[x][q] = stage[x][q] /\ answer'[x][q] = answer[x][q]
  BY <1>1
<1>3. ASSUME NEW x \in Chain, NEW q \in Packet
      PROVE  /\ stage'[x][q] = "unsent" => answer'[x][q] = NoAck
             /\ stage'[x][q] # "unsent" =>
                  /\ Packed(x, q)'
                  /\ data'[x][q].receiver = User => answer'[x][q] # ACK_FAILURE
  <2>1. data'[x][q] = data[x][q] /\ channelOf(q) \in Channel
    BY Channels
  <2>2. /\ stage[x][q] = "unsent" => answer[x][q] = NoAck
        /\ stage[x][q] # "unsent" =>
             /\ Packed(x, q)
             /\ data[x][q].receiver = User => answer[x][q] # ACK_FAILURE
    BY DEF Stages
  <2>3. Packed(x, q) => Packed(x, q)'
    BY <2>1, PackedKept
  <2>4. CASE x = s /\ q = p
    BY <1>2, <2>1, <2>2, <2>3, <2>4
  <2>5. CASE x # s \/ q # p
    BY <1>2, <2>1, <2>2, <2>3, <2>5
  <2> QED
    BY <2>4, <2>5
<1>4. Stages'
  BY <1>2, <1>3 DEF Stages
<1> QED
  BY <1>2, <1>4 DEF isOpen

(* A packet in transit can be afforded by either chain.                    *)
LEMMA OpenIsAfforded ==
  ASSUME IInv, NEW s \in Chain, NEW c \in Chain, NEW p \in Packet, isOpen(s, p)
  PROVE  /\ channelOf(p) \in Channel /\ Packed(s, p)
         /\ Affords(s, c, channelOf(p), relay[c], data[s][p].tokens)
<1>1. channelOf(p) \in Channel /\ Packed(s, p)
  BY Channels, SentFit DEF IInv
<1>2. \A x \in Chain, o \in Channel :
        openPackets[x][o] \subseteq Packet /\ \A q \in openPackets[x][o] : Additive(tokensOf[x][q])
  <2>1. \A x \in Chain, o \in Channel : \A q \in openPackets[x][o] : q \in Packet /\ isOpen(x, q)
    BY DEF openPackets, unsettled, isOpen
  <2> QED
    BY <2>1, SentFit DEF IInv
<1>3. p \in openPackets[s][channelOf(p)]
  BY <1>1 DEF openPackets, unsettled, isOpen
<1>4. tokensOf[s][p] = data[s][p].tokens
  BY DEF tokensOf
<1>5. Backed(relay, openPackets, tokensOf) /\ Covered(relay, openPackets, tokensOf)
      /\ \A x \in Chain : Known(x, relay[x])
  BY DEF IInv, Books, Funds
<1> QED
  BY <1>1, <1>2, <1>3, <1>4, <1>5, OwedIsThere

(* Refunding a packet in transit works.                                    *)
LEMMA OpenIsRefunded ==
  ASSUME IInv, NEW c \in Chain, NEW p \in Packet, isOpen(c, p)
  PROVE  /\ refundTokens(c, p).ok
         /\ Moved(c, c, channelOf(p), relay[c], refundTokens(c, p), data[c][p].tokens,
                  Len(data[c][p].tokens), FALSE)
<1>1. /\ channelOf(p) \in Channel /\ Packed(c, p)
      /\ Affords(c, c, channelOf(p), relay[c], data[c][p].tokens)
  BY OpenIsAfforded
<1>2. Known(c, relay[c]) /\ relay[c].ok
  BY DEF IInv, Funds
<1> QED
  BY <1>1, <1>2, Refunded DEF Packed

(* No step makes a relay forget a wrapper.                                 *)
LEMMA Grows ==
  ASSUME Funds, NEW s, NEW c \in Chain, NEW ch \in Channel, NEW M, NEW k, NEW i, NEW out,
         relay' = [relay EXCEPT ![c] = M], Moved(s, c, ch, relay[c], M, k, i, out)
  PROVE  \A x \in Chain, o \in Channel : relay[x].denomToAddress[o] \subseteq relay'[x].denomToAddress[o]
<1>1. \A o \in Channel : relay[c].denomToAddress[o] \subseteq M.denomToAddress[o]
  BY DEF Moved, Shift
<1>2. relay'[c] = M /\ \A x \in Chain \ {c} : relay'[x] = relay[x]
  BY DEF Funds
<1> QED
  BY <1>1, <1>2

(* A packet of c that is in transit is given back.                         *)
LEMMA RefundKeepsInv ==
  ASSUME IInv, NEW c \in Chain, NEW p \in Packet, isOpen(c, p), refund(c, p), UNCHANGED data,
         NEW to \in {"acknowledged", "timedOut"}, stage' = [stage EXCEPT ![c][p] = to], UNCHANGED answer
  PROVE  IInv'
<1> DEFINE M == refundTokens(c, p)
           k == data[c][p].tokens
<1>1. M.ok /\ Moved(c, c, channelOf(p), relay[c], M, k, Len(k), FALSE)
  BY OpenIsRefunded
<1>2. relay' = [relay EXCEPT ![c] = M]
  BY DEF refund
<1> HIDE DEF M
<1>3. \A x \in Chain, o \in Channel : relay[x].denomToAddress[o] \subseteq relay'[x].denomToAddress[o]
  BY <1>1, <1>2, Channels, Grows DEF IInv
<1> DEFINE a == answer[c][p]
<1>4. /\ stage[c][p] # "unsent" /\ to \in Packets!Stage /\ to # "unsent"
      /\ a \in {NoAck} \cup Acknowledgement /\ answer' = [answer EXCEPT ![c][p] = a]
      /\ data[c][p].receiver = User => a # ACK_FAILURE
  <2>1. stage[c][p] # "unsent"
    BY DEF isOpen
  <2>2. answer \in [Chain -> [Packet -> {NoAck} \cup Acknowledgement]]
        /\ (data[c][p].receiver = User => a # ACK_FAILURE)
    BY <2>1 DEF IInv, Stages
  <2> QED
    BY <2>1, <2>2 DEF Packets!Stage
<1> HIDE DEF a
<1>5. /\ Stages' /\ stage'[c][p] = to
      /\ \A x \in Chain, q \in Packet : x # c \/ q # p => (isOpen(x, q)' <=> isOpen(x, q))
  <2>1. Stages /\ UNCHANGED data
    BY DEF IInv
  <2> QED
    BY <1>3, <1>4, <2>1, StagesKept, ZenonT(60)
<1>6. ~isOpen(c, p)'
  BY <1>5 DEF isOpen
<1>7. Funds' /\ Books'
  <2>1. \A x \in Chain, q \in Packet : isOpen(x, q) => data'[x][q] = data[x][q]
    OBVIOUS
  <2>2. Moved(c, c, channelOf(p), relay[c], M, data'[c][p].tokens, Len(data'[c][p].tokens), FALSE)
    BY <1>1
  <2> QED
    BY <1>1, <1>2, <1>5, <1>6, <2>1, <2>2, BooksKept
<1> QED
  BY <1>5, <1>7 DEF IInv

(* A timeout gives the tokens back, and keeps the invariant.               *)
LEMMA TimeoutInv ==
  ASSUME IInv, NEW c \in Chain, NEW p \in Packet, onTimeoutPacket(c, p)
  PROVE  IInv'
<1>1. /\ stage[c][p] = "inFlight" /\ stage' = [stage EXCEPT ![c][p] = "timedOut"]
      /\ UNCHANGED answer /\ refund(c, p) /\ UNCHANGED data
  BY DEF onTimeoutPacket, Packets!Expire, Packets!move
<1>2. isOpen(c, p)
  BY <1>1 DEF isOpen
<1> QED
  BY <1>1, <1>2, RefundKeepsInv

(* Nothing is paid out, nor given back, and no packet goes out.            *)
LEMMA BooksSame ==
  ASSUME IInv, Stages', UNCHANGED <<relay, data>>,
         \A x \in Chain, q \in Packet : isOpen(x, q)' <=> isOpen(x, q)
  PROVE  IInv'
<1>1. openPackets' = openPackets
  <2>1. \A x \in Chain, o \in Channel : unsettled(x, o)' = unsettled(x, o)
    BY DEF unsettled, isOpen
  <2> QED
    BY <2>1 DEF openPackets
<1>2. tokensOf' = tokensOf
  BY DEF tokensOf
<1>3. Funds' /\ Books'
  BY <1>1, <1>2 DEF IInv, Funds, Books
<1> QED
  BY <1>3 DEF IInv

(* A packet that is received pays out or mints all of its tokens, or none. *)
LEMMA ReceiveInv ==
  ASSUME IInv, NEW c \in Chain, NEW p \in Packet, onRecvPacket(c, p)
  PROVE  IInv'
<1> DEFINE d == counterparty(c)
           M == onRecvPacketProcessing(c, p)
           k == data[d][p].tokens
<1>1. d \in Chain /\ stage[d][p] = "inFlight" /\ stage' = [stage EXCEPT ![d][p] = "delivered"]
      /\ UNCHANGED data
  BY Others DEF onRecvPacket, Packets!Deliver, Packets!move
<1>2. isOpen(d, p) /\ Stages
  BY <1>1 DEF isOpen, IInv
<1>3. /\ channelOf(p) \in Channel /\ Packed(d, p)
      /\ Affords(d, c, channelOf(p), relay[c], k)
  BY <1>1, <1>2, OpenIsAfforded
<1>4. Known(c, relay[c]) /\ relay[c].ok /\ Fit(d, channelOf(p), k)
  BY <1>3 DEF IInv, Funds, Packed
<1>5. /\ data[d][p].receiver # BadReceiver => M.ok
      /\ M.ok => Moved(d, c, channelOf(p), relay[c], M, k, Len(k), FALSE)
  BY <1>3, <1>4, Received
<1>6. "delivered" \in Packets!Stage /\ "delivered" # "unsent" /\ stage[d][p] # "unsent"
      /\ ACK_SUCCESS \in {NoAck} \cup Acknowledgement /\ ACK_FAILURE \in {NoAck} \cup Acknowledgement
      /\ ACK_SUCCESS # ACK_FAILURE /\ BadReceiver # User
  BY <1>1, RelayAssumption DEF Packets!Stage, Acknowledgement
<1> HIDE DEF M, d
<1>7. CASE M.ok /\ relay' = [relay EXCEPT ![c] = M] /\ answer' = [answer EXCEPT ![d][p] = ACK_SUCCESS]
  <2>1. \A x \in Chain, o \in Channel : relay[x].denomToAddress[o] \subseteq relay'[x].denomToAddress[o]
    BY <1>3, <1>5, <1>7, Grows DEF IInv
  <2>2. data[d][p].receiver = User => ACK_SUCCESS # ACK_FAILURE
    BY <1>6
  <2>3. /\ Stages' /\ stage'[d][p] = "delivered" /\ answer'[d][p] = ACK_SUCCESS
        /\ \A x \in Chain, q \in Packet : x # d \/ q # p => (isOpen(x, q)' <=> isOpen(x, q))
    BY <1>1, <1>2, <1>6, <1>7, <2>1, <2>2, StagesKept, ZenonT(60)
  <2>4. ~isOpen(d, p)'
    BY <1>6, <2>3 DEF isOpen
  <2>5. \A x \in Chain, q \in Packet : isOpen(x, q) => data'[x][q] = data[x][q]
    BY <1>1
  <2>6. Moved(d, c, channelOf(p), relay[c], M, data'[d][p].tokens, Len(data'[d][p].tokens), FALSE)
    BY <1>1, <1>5, <1>7
  <2>7. Funds' /\ Books'
    BY <1>1, <1>2, <1>7, <2>3, <2>4, <2>5, <2>6, BooksKept
  <2> QED
    BY <2>3, <2>7 DEF IInv
<1>8. CASE ~M.ok /\ UNCHANGED relay /\ answer' = [answer EXCEPT ![d][p] = ACK_FAILURE]
  <2>1. \A x \in Chain, o \in Channel : relay[x].denomToAddress[o] \subseteq relay'[x].denomToAddress[o]
    BY <1>8
  <2>2. data[d][p].receiver = User => ACK_FAILURE # ACK_FAILURE
    BY <1>5, <1>6, <1>8
  <2>3. /\ Stages' /\ stage'[d][p] = "delivered" /\ answer'[d][p] = ACK_FAILURE
        /\ \A x \in Chain, q \in Packet : x # d \/ q # p => (isOpen(x, q)' <=> isOpen(x, q))
    BY <1>1, <1>2, <1>6, <1>8, <2>1, <2>2, StagesKept, ZenonT(60)
  <2>4. isOpen(d, p)'
    BY <2>3 DEF isOpen
  <2>5. \A x \in Chain, q \in Packet : isOpen(x, q)' <=> isOpen(x, q)
    BY <1>2, <2>3, <2>4
  <2> QED
    BY <1>1, <1>8, <2>3, <2>5, BooksSame
<1> QED
  BY <1>7, <1>8 DEF onRecvPacket, Packets!Deliver, M, d

(* An acknowledgement settles the packet, or refunds it.                   *)
LEMMA AcknowledgeInv ==
  ASSUME IInv, NEW c \in Chain, NEW p \in Packet, onAcknowledgementPacket(c, p)
  PROVE  IInv'
<1>1. /\ stage[c][p] = "delivered" /\ stage' = [stage EXCEPT ![c][p] = "acknowledged"]
      /\ UNCHANGED answer /\ UNCHANGED data
      /\ \/ answer[c][p] = ACK_FAILURE /\ refund(c, p)
         \/ answer[c][p] = ACK_SUCCESS /\ UNCHANGED relay
  BY DEF onAcknowledgementPacket, Packets!Acknowledge, Packets!move
<1>2. CASE answer[c][p] = ACK_FAILURE /\ refund(c, p)
  <2>1. isOpen(c, p)
    BY <1>1, <1>2 DEF isOpen
  <2> QED
    BY <1>1, <1>2, <2>1, RefundKeepsInv
<1>3. CASE answer[c][p] = ACK_SUCCESS /\ UNCHANGED relay
  <2>1. /\ Stages /\ ACK_SUCCESS # ACK_FAILURE /\ ACK_SUCCESS \in {NoAck} \cup Acknowledgement
        /\ "acknowledged" \in Packets!Stage /\ "acknowledged" # "unsent" /\ stage[c][p] # "unsent"
        /\ (data[c][p].receiver = User => ACK_SUCCESS # ACK_FAILURE)
    BY <1>1, RelayAssumption DEF IInv, Acknowledgement, Packets!Stage
  <2>2. answer' = [answer EXCEPT ![c][p] = ACK_SUCCESS]
    BY <1>1, <1>3, <2>1 DEF Stages
  <2>3. \A x \in Chain, o \in Channel : relay[x].denomToAddress[o] \subseteq relay'[x].denomToAddress[o]
    BY <1>3
  <2>4. /\ Stages' /\ stage'[c][p] = "acknowledged"
        /\ \A x \in Chain, q \in Packet : x # c \/ q # p => (isOpen(x, q)' <=> isOpen(x, q))
    <3>1. UNCHANGED data /\ stage' = [stage EXCEPT ![c][p] = "acknowledged"]
      BY <1>1
    <3> QED
      BY <2>1, <2>2, <2>3, <3>1, StagesKept, ZenonT(60)
  <2>5. ~isOpen(c, p) /\ ~isOpen(c, p)'
    BY <1>1, <1>3, <2>1, <2>4 DEF isOpen
  <2>6. \A x \in Chain, q \in Packet : isOpen(x, q)' <=> isOpen(x, q)
    BY <2>4, <2>5
  <2> QED
    BY <1>1, <1>3, <2>4, <2>6, BooksSame
<1> QED
  BY <1>1, <1>2, <1>3

(* What send is called with in the model is what the loops are about.      *)
LEMMA SendableIs ==
  ASSUME NEW c \in Chain, NEW tokens \in SeqOf(LocalToken(c), MaxTokens)
  PROVE  Sendable(c, tokens)
<1>1. PICK m \in 0..MaxTokens : tokens \in [1..m -> LocalToken(c)]
  BY DEF SeqOf
<1>2. m \in Nat /\ Amount \subseteq Nat /\ Fee \subseteq 0..FeeMax
  BY RelayAssumption
<1>3. tokens \in Seq(LocalToken(c))
  BY <1>1, <1>2
<1>4. Len(tokens) \in Nat /\ DOMAIN tokens = 1..Len(tokens) /\ \A i \in 1..Len(tokens) : tokens[i] \in LocalToken(c)
  BY <1>3, LenProperties, ElementOfSeq
<1>5. LocalToken(c) \subseteq [denom : DOMAIN relay[c].balance, amount : Nat, fee : 0..FeeMax]
  BY <1>2 DEF LocalToken
<1> QED
  BY <1>4, <1>5 DEF Sendable

(* A send escrows or burns what the packet carries.                        *)
LEMMA SendInv ==
  ASSUME IInv, NEW c \in Chain, NEW ch \in Channel, NEW account \in {User, Relayer},
         NEW receiver \in {User, BadReceiver}, NEW tokens \in SeqOf(LocalToken(c), MaxTokens),
         send(c, ch, account, receiver, tokens)
  PROVE  IInv'
<1> DEFINE M == sendTokens(c, ch, account, tokens)
           N == normalized(c, ch, tokens)
           packet == [sender |-> account, receiver |-> receiver, tokens |-> N]
<1>1. PICK p \in nextPacket(c, ch) :
        Packets!Send(c, p) /\ data' = [data EXCEPT ![c][p] = packet]
  BY DEF send, normalized
<1>2. M.ok /\ relay' = [relay EXCEPT ![c] = M]
  BY DEF send
<1>3. /\ p \in Packet /\ channelOf(p) = ch /\ stage[c][p] = "unsent"
      /\ stage' = [stage EXCEPT ![c][p] = "inFlight"] /\ UNCHANGED answer
  BY <1>1 DEF nextPacket, Packets!Send, Packets!move
<1>4. Known(c, relay[c]) /\ account \in Holder /\ Sendable(c, tokens) /\ Stages
  BY SendableIs DEF IInv, Funds, Holder
<1>5. Moved(c, c, ch, relay[c], M, N, Len(tokens), TRUE) /\ Fit(c, ch, N)
  BY <1>2, <1>4, Sent
<1>6. /\ Len(N) = Len(tokens)
      /\ \A i \in 1..Len(tokens) : \A T \in Address :
           N[i].denom = wrapped(c, ch, T) => wrapped(c, ch, T) \in relay[c].denomToAddress[ch]
  BY <1>4, Normalized
<1> HIDE DEF M, N
<1>7. \A x \in Chain, o \in Channel : relay[x].denomToAddress[o] \subseteq relay'[x].denomToAddress[o]
  BY <1>2, <1>5, Grows DEF IInv
<1>8. /\ stage \in [Chain -> [Packet -> Packets!Stage]]
      /\ answer \in [Chain -> [Packet -> {NoAck} \cup Acknowledgement]]
      /\ DOMAIN data = Chain /\ data = [x \in DOMAIN data |-> data[x]]
      /\ \A x \in Chain : DOMAIN data[x] = Packet /\ data[x] = [q \in DOMAIN data[x] |-> data[x][q]]
  BY <1>4 DEF Stages
<1>9. /\ stage' \in [Chain -> [Packet -> Packets!Stage]]
      /\ stage'[c][p] = "inFlight"
      /\ \A x \in Chain, q \in Packet : x # c \/ q # p => stage'[x][q] = stage[x][q]
  BY <1>3, <1>8 DEF Packets!Stage
<1>10. /\ DOMAIN data' = Chain /\ data' = [x \in DOMAIN data' |-> data'[x]]
       /\ \A x \in Chain : DOMAIN data'[x] = Packet /\ data'[x] = [q \in DOMAIN data'[x] |-> data'[x][q]]
       /\ data'[c][p] = packet
       /\ \A x \in Chain, q \in Packet : x # c \/ q # p => data'[x][q] = data[x][q]
  <2> HIDE DEF packet
  <2> QED
    BY <1>1, <1>3, <1>8
<1>11. Packed(c, p)'
  <2>1. /\ data'[c][p].sender \in Holder /\ data'[c][p].receiver \in {User, BadReceiver}
        /\ data'[c][p].tokens = N
    BY <1>4, <1>10
  <2>2. \A i \in 1..Len(N) : \A T \in Address :
          N[i].denom = wrapped(c, ch, T) => wrapped(c, ch, T) \in relay'[c].denomToAddress[ch]
    BY <1>6, <1>7
  <2> QED
    BY <1>3, <1>5, <2>1, <2>2 DEF Packed
<1>12. ASSUME NEW x \in Chain, NEW q \in Packet
       PROVE  /\ stage'[x][q] = "unsent" => answer'[x][q] = NoAck
              /\ stage'[x][q] # "unsent" =>
                   /\ Packed(x, q)'
                   /\ data'[x][q].receiver = User => answer'[x][q] # ACK_FAILURE
  <2>1. CASE x = c /\ q = p
    <3>1. answer'[x][q] = NoAck
      BY <1>3, <1>4, <2>1 DEF Stages
    <3> QED
      BY <1>9, <1>11, <2>1, <3>1, RelayAssumption
  <2>2. CASE x # c \/ q # p
    <3>1. /\ stage'[x][q] = stage[x][q] /\ answer'[x][q] = answer[x][q] /\ data'[x][q] = data[x][q]
          /\ channelOf(q) \in Channel
      BY <1>3, <1>9, <1>10, <2>2, Channels
    <3>2. /\ stage[x][q] = "unsent" => answer[x][q] = NoAck
          /\ stage[x][q] # "unsent" =>
               /\ Packed(x, q)
               /\ data[x][q].receiver = User => answer[x][q] # ACK_FAILURE
      BY <1>4 DEF Stages
    <3>3. Packed(x, q) => Packed(x, q)'
      BY <1>7, <3>1, PackedKept
    <3> QED
      BY <3>1, <3>2, <3>3
  <2> QED
    BY <2>1, <2>2
<1>13. Stages'
  BY <1>3, <1>8, <1>9, <1>10, <1>12 DEF Stages
<1>14. \A x \in Chain, q \in Packet : x # c \/ q # p => (isOpen(x, q)' <=> isOpen(x, q))
  BY <1>3, <1>9 DEF isOpen
<1>15. isOpen(c, p)' /\ ~isOpen(c, p)
  BY <1>3, <1>9 DEF isOpen
<1>16. \A x \in Chain, q \in Packet : isOpen(x, q) => data'[x][q] = data[x][q]
  BY <1>10, <1>15
<1>17. Moved(c, c, channelOf(p), relay[c], M, data'[c][p].tokens, Len(data'[c][p].tokens), TRUE)
  <2>1. data'[c][p].tokens = N
    BY <1>10
  <2> QED
    BY <1>3, <1>5, <1>6, <2>1
<1>18. Funds' /\ Books'
  BY <1>2, <1>3, <1>13, <1>14, <1>15, <1>16, <1>17, BooksKept
<1> QED
  BY <1>13, <1>18 DEF IInv

(* Every step keeps the invariant.                                         *)
LEMMA NextInv == IInv /\ [Next]_vars => IInv'
<1> SUFFICES ASSUME IInv, [Next]_vars PROVE IInv'
  OBVIOUS
<1>1. CASE UNCHANGED vars
  <2>1. UNCHANGED <<relay, data, stage, answer>>
    BY <1>1 DEF vars
  <2>2. Stages'
    BY <2>1 DEF IInv, Stages, Packed
  <2>3. \A x \in Chain, q \in Packet : isOpen(x, q)' <=> isOpen(x, q)
    BY <2>1 DEF isOpen
  <2> QED
    BY <2>1, <2>2, <2>3, BooksSame
<1>2. CASE Next
  BY <1>2, SendInv, ReceiveInv, AcknowledgeInv, TimeoutInv DEF Next
<1> QED
  BY <1>1, <1>2

(* The inductive invariant holds in every state of the two relays: the     *)
(* ledgers are sound, unsettled packets are fit, and what is owed is       *)
(* escrowed and outstanding.                                               *)
THEOREM InvariantHolds == Spec => []IInv
  BY InitInv, NextInv, PTL DEF Spec

(* Every reachable state has what EscrowIsBacked, OutstandingCoversClaims  *)
(* and TransfersSettle say.                                                *)
LEMMA InvImplies == IInv => EscrowIsBacked /\ OutstandingCoversClaims /\ TransfersSettle
<1> SUFFICES ASSUME IInv PROVE EscrowIsBacked /\ OutstandingCoversClaims /\ TransfersSettle
  OBVIOUS
<1>1. /\ \A c \in Chain : relay[c] \in Ledger
      /\ \A c \in Chain : DOMAIN relay[c].balance \subseteq Address
  BY LedgerParts DEF IInv, Funds, Known
<1>2. EscrowIsBacked
  <2> SUFFICES ASSUME NEW c \in Chain, NEW token \in DOMAIN relay[c].balance
               PROVE  relay[c].balance[token][Escrow] = SumFunction([ch \in Channel |-> claims(c, ch, token)])
    BY DEF EscrowIsBacked
  <2>1. token \in Address
    BY <1>1
  <2>2. [ch \in Channel |-> claims(c, ch, token)]
          = [ch \in Channel |-> owed(relay, openPackets, tokensOf, c, ch, token)]
    BY <2>1, ClaimsAre
  <2>3. escrowOf(relay[c], token) =
          SumFunction([ch \in Channel |-> owed(relay, openPackets, tokensOf, c, ch, token)])
    BY <2>1 DEF IInv, Books, Backed
  <2> QED
    BY <2>2, <2>3 DEF escrowOf
<1>3. OutstandingCoversClaims
  <2> SUFFICES ASSUME NEW c \in Chain, NEW ch \in Channel, NEW token \in DOMAIN relay[c].balance
               PROVE  getOutstanding(relay[c], ch, token) >= claims(c, ch, token)
    BY DEF OutstandingCoversClaims
  <2>1. token \in Address
    BY <1>1
  <2>2. getOutstanding(relay[c], ch, token) >= owed(relay, openPackets, tokensOf, c, ch, token)
    BY <2>1 DEF IInv, Books, Covered
  <2> QED
    BY <2>1, <2>2, ClaimsAre
<1>4. TransfersSettle
  <2> SUFFICES ASSUME NEW c \in Chain, NEW p \in Packet
               PROVE  /\ stage[c][p] # "unsent" /\ data[c][p].receiver = User => answer[c][p] # ACK_FAILURE
                      /\ isOpen(c, p) => refundTokens(c, p).ok
    BY DEF TransfersSettle, isOpen
  <2>1. stage[c][p] # "unsent" /\ data[c][p].receiver = User => answer[c][p] # ACK_FAILURE
    BY DEF IInv, Stages
  <2>2. isOpen(c, p) => refundTokens(c, p).ok
    BY OpenIsRefunded
  <2> QED
    BY <2>1, <2>2
<1> QED
  BY <1>2, <1>3, <1>4

(* What a relay holds of a token in escrow is exactly what the other       *)
(* chain's wrappers, and the packets that are not settled, claim: no       *)
(* transfer, refund or return of a token, in any order of packets and      *)
(* with fees paid or not, leaves a wrapper without the token it stands     *)
(* for, or a token that nobody can claim.                                  *)
THEOREM EscrowBacked == Spec => []EscrowIsBacked
<1>1. IInv => EscrowIsBacked
  BY InvImplies
<1> QED
  BY <1>1, InvariantHolds, PTL

(* What a relay notes as outstanding on a channel covers what can be       *)
(* claimed over that channel, so that decreaseOutstanding never reverts    *)
(* for a token that comes home.                                            *)
THEOREM ClaimsCovered == Spec => []OutstandingCoversClaims
<1>1. IInv => OutstandingCoversClaims
  BY InvImplies
<1> QED
  BY <1>1, InvariantHolds, PTL

(* A transfer to an account that can receive is never answered with a      *)
(* failure, and the refund of a packet that is not settled never reverts.  *)
THEOREM TransfersSettled == Spec => []TransfersSettle
<1>1. IInv => TransfersSettle
  BY InvImplies
<1> QED
  BY <1>1, InvariantHolds, PTL

=============================================================================
