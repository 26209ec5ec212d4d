----------------------- MODULE TeacherGenerationProofs -----------------------
(* What teacher generation guarantees for every number of complaints, batch
   size, price and number of kills, by induction over the steps of Spec.     *)
EXTENDS TeacherGeneration, FiniteSetTheorems, FunctionTheorems, SequenceTheorems, TLAPS

(* Induction over the naturals, with the predicate given as a set.         *)
LEMMA NatSetInduction ==
  ASSUME NEW S, 0 \in S, \A n \in Nat : n \in S => n + 1 \in S
  PROVE  Nat \subseteq S
<1> DEFINE T == Nat \ S
<1>1. SUFFICES ASSUME T # {} PROVE FALSE
  OBVIOUS
<1>2. PICK x \in T : \A y \in T : ~(<<y, x>> \in OpToRel(<, Nat))
  <2>1. T \subseteq Nat
    OBVIOUS
  <2> HIDE DEF T
  <2>. QED BY <1>1, <2>1, NatLessThanWellFounded, WFMin, Zenon
<1>3. x \in Nat /\ x # 0 /\ x - 1 \in Nat /\ x - 1 < x
  OBVIOUS
<1>4. <<x - 1, x>> \in OpToRel(<, Nat)
  BY <1>3 DEF OpToRel
<1>5. x - 1 \in S
  BY <1>2, <1>3, <1>4
<1>. QED BY <1>3, <1>5

-----------------------------------------------------------------------------
(* Sums over sets.  Total(f, S) adds f up by taking one member after the   *)
(* other; IsSum(g, f, S) says that g holds the partial sums.               *)

AnyOf(s) == CHOOSE x \in s : TRUE
SumStep(g, f, s) == IF s = {} THEN 0 ELSE g[s \ {AnyOf(s)}] + f[AnyOf(s)]
IsSum(g, f, S) == g = [s \in SUBSET S |-> SumStep(g, f, s)]

(* Partial sums exist: they are built up by the size of the sets.          *)
LEMMA SumExists ==
  ASSUME NEW f, NEW S, IsFiniteSet(S)
  PROVE  \E g : IsSum(g, f, S)
<1> DEFINE Upto(g, n) == \A s \in SUBSET S : Cardinality(s) <= n => g[s] = SumStep(g, f, s)
           I == {n \in Nat : \E g : g = [s \in SUBSET S |-> g[s]] /\ Upto(g, n)}
<1>1. \A s \in SUBSET S : IsFiniteSet(s) /\ Cardinality(s) \in Nat /\ Cardinality(s) <= Cardinality(S)
  BY FS_Subset, FS_CardinalityType
<1>2. \A s \in SUBSET S : s # {} =>
        /\ AnyOf(s) \in s /\ s \ {AnyOf(s)} \in SUBSET S
        /\ Cardinality(s \ {AnyOf(s)}) = Cardinality(s) - 1
  BY <1>1, FS_RemoveElement DEF AnyOf
<1>3. 0 \in I
  <2> DEFINE g == [s \in SUBSET S |-> 0]
  <2>1. \A s \in SUBSET S : Cardinality(s) <= 0 => s = {}
    BY <1>1, FS_EmptySet
  <2>2. Upto(g, 0)
    BY <2>1 DEF SumStep
  <2>. QED BY <2>2
<1>4. ASSUME NEW n \in Nat, n \in I
      PROVE  n + 1 \in I
  <2>1. PICK g : g = [s \in SUBSET S |-> g[s]] /\ Upto(g, n)
    BY <1>4
  <2> DEFINE h == [s \in SUBSET S |-> IF Cardinality(s) <= n THEN g[s] ELSE SumStep(g, f, s)]
  <2>2. ASSUME NEW s \in SUBSET S, Cardinality(s) <= n + 1
        PROVE  h[s] = SumStep(h, f, s)
    <3>1. h[s] = SumStep(g, f, s)
      BY <2>1
    <3>2. CASE s = {}
      BY <3>1, <3>2 DEF SumStep
    <3>3. CASE s # {}
      <4>1. h[s \ {AnyOf(s)}] = g[s \ {AnyOf(s)}]
        BY <1>1, <1>2, <2>2, <3>3
      <4>. QED BY <3>1, <3>3, <4>1 DEF SumStep
    <3>. QED BY <3>2, <3>3
  <2>3. h = [s \in SUBSET S |-> h[s]] /\ Upto(h, n + 1)
    BY <2>2
  <2> HIDE DEF h, Upto
  <2>4. n + 1 \in Nat /\ \E e : e = [s \in SUBSET S |-> e[s]] /\ Upto(e, n + 1)
    BY <2>3
  <2>. QED BY <2>4
<1>5. Cardinality(S) \in I
  <2> HIDE DEF I
  <2>. QED BY <1>3, <1>4, NatSetInduction, FS_CardinalityType
<1>6. PICK g : g = [s \in SUBSET S |-> g[s]] /\ Upto(g, Cardinality(S))
  BY <1>5
<1>. QED BY <1>1, <1>6 DEF IsSum

(* Partial sums depend only on what is added up.                           *)
LEMMA SumsAgree ==
  ASSUME NEW f, NEW e, NEW S, NEW T, NEW g, NEW h,
         IsSum(g, f, S), IsSum(h, e, T), IsFiniteSet(S),
         S \subseteq T, \A x \in S : f[x] = e[x]
  PROVE  g[S] = h[S]
<1> DEFINE I == {n \in Nat : \A s \in SUBSET S : Cardinality(s) = n => g[s] = h[s]}
<1>1. \A s \in SUBSET S : IsFiniteSet(s) /\ Cardinality(s) \in Nat
  BY FS_Subset, FS_CardinalityType
<1>2. \A s \in SUBSET S : g[s] = SumStep(g, f, s) /\ h[s] = SumStep(h, e, s)
  BY DEF IsSum
<1>3. 0 \in I
  BY <1>1, <1>2, FS_EmptySet DEF SumStep
<1>4. ASSUME NEW n \in Nat, n \in I
      PROVE  n + 1 \in I
  <2> SUFFICES ASSUME NEW s \in SUBSET S, Cardinality(s) = n + 1
               PROVE  g[s] = h[s]
    OBVIOUS
  <2>1. s # {}
    BY FS_EmptySet
  <2>2. AnyOf(s) \in s /\ Cardinality(s \ {AnyOf(s)}) = n
    <3>1. AnyOf(s) \in s
      BY <2>1 DEF AnyOf
    <3>2. Cardinality(s \ {AnyOf(s)}) = Cardinality(s) - 1
      BY <1>1, <3>1, FS_RemoveElement
    <3>. QED BY <3>1, <3>2
  <2>3. g[s \ {AnyOf(s)}] = h[s \ {AnyOf(s)}]
    BY <1>4, <2>2
  <2>. QED BY <1>2, <2>1, <2>2, <2>3 DEF SumStep
<1>5. Cardinality(S) \in I
  <2> HIDE DEF I
  <2>. QED BY <1>3, <1>4, NatSetInduction, FS_CardinalityType
<1>. QED BY <1>5

LEMMA TotalIsSum ==
  ASSUME NEW f, NEW S, IsFiniteSet(S)
  PROVE  \E g : IsSum(g, f, S) /\ Total(f, S) = g[S]
<1> DEFINE g == CHOOSE h : IsSum(h, f, S)
<1>1. IsSum(g, f, S)
  BY SumExists
<1>2. Total(f, S) = g[S]
  BY DEF Total, FoldSet, MapThenFoldSet, IsSum, SumStep, AnyOf
<1>. QED BY <1>1, <1>2

LEMMA TotalAgrees ==
  ASSUME NEW f, NEW e, NEW S, IsFiniteSet(S), \A x \in S : f[x] = e[x]
  PROVE  Total(f, S) = Total(e, S)
<1>1. PICK g : IsSum(g, f, S) /\ Total(f, S) = g[S]
  BY TotalIsSum
<1>2. PICK h : IsSum(h, e, S) /\ Total(e, S) = h[S]
  BY TotalIsSum
<1>. QED BY <1>1, <1>2, SumsAgree

LEMMA TotalOfNone == \A f : Total(f, {}) = 0
<1> SUFFICES ASSUME NEW f PROVE Total(f, {}) = 0
  OBVIOUS
<1>1. PICK g : IsSum(g, f, {}) /\ Total(f, {}) = g[{}]
  BY TotalIsSum, FS_EmptySet
<1>. QED BY <1>1 DEF IsSum, SumStep

LEMMA TotalUnfolds ==
  ASSUME NEW f, NEW S, IsFiniteSet(S), S # {}
  PROVE  /\ AnyOf(S) \in S
         /\ Total(f, S) = Total(f, S \ {AnyOf(S)}) + f[AnyOf(S)]
<1> DEFINE R == S \ {AnyOf(S)}
<1>1. AnyOf(S) \in S
  BY DEF AnyOf
<1>2. IsFiniteSet(R)
  BY FS_RemoveElement
<1>3. PICK g : IsSum(g, f, S) /\ Total(f, S) = g[S]
  BY TotalIsSum
<1>4. PICK h : IsSum(h, f, R) /\ Total(f, R) = h[R]
  BY <1>2, TotalIsSum
<1>5. h[R] = g[R]
  BY <1>2, <1>3, <1>4, SumsAgree
<1>6. g[S] = g[R] + f[AnyOf(S)]
  BY <1>3 DEF IsSum, SumStep
<1>. QED BY <1>1, <1>3, <1>4, <1>5, <1>6

(* A sum of naturals is a natural, and any term may be taken out.          *)
SumFacts(f, S) ==
  /\ Total(f, S) \in Nat
  /\ \A a \in S : Total(f, S) = Total(f, S \ {a}) + f[a]

LEMMA TotalFacts ==
  ASSUME NEW f, NEW S, IsFiniteSet(S),
         \A x \in S : f[x] \in Nat
  PROVE  SumFacts(f, S)
<1> DEFINE I == {n \in Nat : \A s \in SUBSET S : Cardinality(s) <= n => SumFacts(f, s)}
<1>1. \A s \in SUBSET S : IsFiniteSet(s) /\ Cardinality(s) \in Nat
  BY FS_Subset, FS_CardinalityType
<1>2. \A s \in SUBSET S : \A a \in s : Cardinality(s \ {a}) = Cardinality(s) - 1
  BY <1>1, FS_RemoveElement
<1>3. 0 \in I
  <2>1. \A s \in SUBSET S : Cardinality(s) <= 0 => s = {}
    BY <1>1, FS_EmptySet
  <2>2. SumFacts(f, {})
    BY TotalOfNone DEF SumFacts
  <2>. QED BY <2>1, <2>2
<1>4. ASSUME NEW n \in Nat, n \in I
      PROVE  n + 1 \in I
  <2> SUFFICES ASSUME NEW s \in SUBSET S, Cardinality(s) = n + 1
               PROVE  SumFacts(f, s)
    BY <1>1, <1>4
  <2> DEFINE c == AnyOf(s)
  <2>1. s # {} /\ IsFiniteSet(s)
    BY <1>1, FS_EmptySet
  <2>2. c \in s /\ Total(f, s) = Total(f, s \ {c}) + f[c]
    BY <2>1, TotalUnfolds
  <2>3. \A a \in s : Cardinality(s \ {a}) = n /\ s \ {a} \in SUBSET S
    BY <1>2
  <2>4. \A a \in s : SumFacts(f, s \ {a})
    BY <1>4, <2>3
  <2> HIDE DEF c
  <2>5. Total(f, s) \in Nat
    BY <2>2, <2>4 DEF SumFacts
  <2>6. ASSUME NEW a \in s
        PROVE  Total(f, s) = Total(f, s \ {a}) + f[a]
    <3>1. CASE a = c
      BY <2>2, <3>1
    <3>2. CASE a # c
      <4> DEFINE r == (s \ {a}) \ {c}
      <4>1. Total(f, s \ {c}) = Total(f, r) + f[a]
        <5>1. r = (s \ {c}) \ {a}
          OBVIOUS
        <5>. QED BY <2>2, <2>4, <3>2, <5>1 DEF SumFacts
      <4>2. Total(f, s \ {a}) = Total(f, r) + f[c]
        BY <2>2, <2>4, <3>2 DEF SumFacts
      <4>3. Total(f, r) \in Nat
        <5>1. r \in SUBSET S /\ Cardinality(r) <= n
          <6>1. r \in SUBSET S /\ c \in s \ {a}
            BY <2>2, <3>2
          <6>2. Cardinality(r) = Cardinality(s \ {a}) - 1
            BY <1>2, <2>3, <6>1
          <6>3. Cardinality(s \ {a}) = n
            BY <2>3
          <6>. QED BY <6>1, <6>2, <6>3
        <5>. QED BY <1>4, <5>1 DEF SumFacts
      <4>4. f[a] \in Nat /\ f[c] \in Nat
        BY <2>2
      <4> HIDE DEF r
      <4>. QED BY <2>2, <4>1, <4>2, <4>3, <4>4
    <3>. QED BY <3>1, <3>2
  <2>. QED BY <2>5, <2>6 DEF SumFacts
<1>5. Cardinality(S) \in I
  <2> HIDE DEF I
  <2>. QED BY <1>3, <1>4, NatSetInduction, FS_CardinalityType
<1>. QED BY <1>5

(* A sum is bounded by the number of its terms times a bound of each.      *)
LEMMA TotalBound ==
  ASSUME NEW f, NEW S, NEW M \in Nat, IsFiniteSet(S),
         \A x \in S : f[x] \in Nat /\ f[x] <= M
  PROVE  Total(f, S) <= M * Cardinality(S)
<1> DEFINE I == {n \in Nat : \A U \in SUBSET S : Cardinality(U) = n => Total(f, U) <= M * n}
<1>1. \A U \in SUBSET S : IsFiniteSet(U) /\ Cardinality(U) \in Nat
  BY FS_Subset, FS_CardinalityType
<1>2. 0 \in I
  <2>1. \A U \in SUBSET S : Cardinality(U) = 0 => U = {}
    BY <1>1, FS_EmptySet
  <2>2. Total(f, {}) <= M * 0
    BY TotalOfNone
  <2>. QED BY <2>1, <2>2
<1>3. ASSUME NEW n \in Nat, n \in I
      PROVE  n + 1 \in I
  <2> SUFFICES ASSUME NEW U \in SUBSET S, Cardinality(U) = n + 1
               PROVE  Total(f, U) <= M * (n + 1)
    OBVIOUS
  <2>1. PICK a : a \in U
    <3>1. Cardinality({}) = 0
      BY FS_EmptySet
    <3>2. U # {}
      BY <3>1
    <3>. QED BY <3>2
  <2>2. Total(f, U) = Total(f, U \ {a}) + f[a] /\ Total(f, U \ {a}) \in Nat
    <3>1. SumFacts(f, U) /\ SumFacts(f, U \ {a})
      BY <1>1, TotalFacts
    <3>. QED BY <2>1, <3>1 DEF SumFacts
  <2>3. Cardinality(U \ {a}) = Cardinality(U) - 1
    BY <1>1, <2>1, FS_RemoveElement
  <2>4. Total(f, U \ {a}) <= M * n
    BY <1>3, <2>3
  <2>5. M * (n + 1) = M * n + M /\ M * n \in Nat
    OBVIOUS
  <2>6. f[a] \in Nat /\ f[a] <= M
    BY <2>1
  <2>. QED BY <2>2, <2>4, <2>5, <2>6
<1>4. Cardinality(S) \in I
  <2> HIDE DEF I
  <2>. QED BY <1>2, <1>3, NatSetInduction, FS_CardinalityType
<1>. QED BY <1>4

(* Sums over two sets that share no member.                                *)
LEMMA TotalOfUnion ==
  ASSUME NEW f, NEW S, NEW T, IsFiniteSet(S), IsFiniteSet(T), S \cap T = {},
         \A x \in S \cup T : f[x] \in Nat
  PROVE  Total(f, S \cup T) = Total(f, S) + Total(f, T)
<1> DEFINE I == {n \in Nat : \A U \in SUBSET T : Cardinality(U) = n =>
                    Total(f, S \cup U) = Total(f, S) + Total(f, U)}
<1>1. \A U \in SUBSET T : IsFiniteSet(U) /\ Cardinality(U) \in Nat /\ IsFiniteSet(S \cup U)
  BY FS_Subset, FS_CardinalityType, FS_Union
<1>2. Total(f, S) \in Nat
  BY TotalFacts DEF SumFacts
<1>3. 0 \in I
  <2>1. \A U \in SUBSET T : Cardinality(U) = 0 => U = {}
    BY <1>1, FS_EmptySet
  <2>. QED BY <1>2, <2>1, TotalOfNone
<1>4. ASSUME NEW n \in Nat, n \in I
      PROVE  n + 1 \in I
  <2> SUFFICES ASSUME NEW U \in SUBSET T, Cardinality(U) = n + 1
               PROVE  Total(f, S \cup U) = Total(f, S) + Total(f, U)
    OBVIOUS
  <2>1. PICK a : a \in U
    <3>1. Cardinality({}) = 0
      BY FS_EmptySet
    <3>2. U # {}
      BY <3>1
    <3>. QED BY <3>2
  <2> DEFINE V == U \ {a}
  <2>2. V \in SUBSET T /\ Cardinality(V) = n
    <3>1. IsFiniteSet(U) /\ Cardinality(U) \in Nat
      BY <1>1
    <3>2. Cardinality(V) = Cardinality(U) - 1
      BY <2>1, <3>1, FS_RemoveElement
    <3>. QED BY <3>2
  <2>3. Total(f, S \cup V) = Total(f, S) + Total(f, V)
    BY <1>4, <2>2
  <2>4. SumFacts(f, U) /\ SumFacts(f, S \cup U)
    BY <1>1, TotalFacts
  <2>5. (S \cup U) \ {a} = S \cup V
    BY <2>1
  <2>6. Total(f, U) = Total(f, V) + f[a] /\ Total(f, S \cup U) = Total(f, S \cup V) + f[a]
    BY <2>1, <2>4, <2>5 DEF SumFacts
  <2>7. Total(f, V) \in Nat /\ f[a] \in Nat
    BY <1>1, <2>1, <2>2, TotalFacts DEF SumFacts
  <2> HIDE DEF V
  <2>. QED BY <1>2, <2>3, <2>6, <2>7
<1>5. Cardinality(T) \in I
  <2> HIDE DEF I
  <2>. QED BY <1>3, <1>4, NatSetInduction, FS_CardinalityType
<1>. QED BY <1>5

-----------------------------------------------------------------------------
(* The members of a set of complaints can be put in order.                 *)

IdsInOrder(q, S) ==
  /\ q \in SetToSeqs(S)
  /\ \A i, j \in DOMAIN q : i < j => q[i] < q[j]

LEMMA OrderExists == \A n \in Nat : \A S \in SUBSET (1..n) : \E q : IdsInOrder(q, S)
<1> DEFINE I == {n \in Nat : \A S \in SUBSET (1..n) : \E q : IdsInOrder(q, S)}
<1>1. 0 \in I
  <2>1. \A S \in SUBSET (1..0) : S = {}
    OBVIOUS
  <2>2. IdsInOrder(<<>>, {})
    BY FS_EmptySet DEF IdsInOrder, SetToSeqs
  <2>. QED BY <2>1, <2>2
<1>2. ASSUME NEW n \in Nat, n \in I
      PROVE  n + 1 \in I
  <2> SUFFICES ASSUME NEW S \in SUBSET (1..(n + 1))
               PROVE  \E q : IdsInOrder(q, S)
    OBVIOUS
  <2> DEFINE R == S \ {n + 1}
  <2>1. R \in SUBSET (1..n)
    OBVIOUS
  <2>2. PICK p : IdsInOrder(p, R)
    BY <1>2, <2>1
  <2>3. CASE n + 1 \notin S
    BY <2>2, <2>3
  <2>4. CASE n + 1 \in S
    <3> DEFINE c == Cardinality(R)
               q == [i \in 1..(c + 1) |-> IF i <= c THEN p[i] ELSE n + 1]
    <3>1. IsFiniteSet(S) /\ IsFiniteSet(R)
      <4>1. IsFiniteSet(1..(n + 1))
        BY FS_Interval
      <4>. QED BY <4>1, FS_Subset
    <3>2. c \in Nat /\ Cardinality(S) = c + 1
      BY <2>4, <3>1, FS_RemoveElement, FS_CardinalityType
    <3> HIDE DEF c
    <3>3. p \in [1..c -> R] /\ \A i, j \in 1..c : i # j => p[i] # p[j]
      BY <2>2 DEF IdsInOrder, SetToSeqs, c
    <3>4. \A i, j \in 1..c : i < j => p[i] < p[j]
      BY <2>2, <3>3 DEF IdsInOrder
    <3>5. \A i \in 1..c : p[i] \in 1..n /\ p[i] \in S
      BY <2>1, <3>3
    <3>6. q \in [1..(c + 1) -> S]
      BY <2>4, <3>2, <3>5
    <3>7. \A i, j \in 1..(c + 1) : i < j => q[i] < q[j]
      BY <3>2, <3>4, <3>5
    <3>8. \A i, j \in 1..(c + 1) : i # j => q[i] # q[j]
      BY <3>2, <3>3, <3>5
    <3> HIDE DEF q
    <3>. QED BY <3>2, <3>6, <3>7, <3>8 DEF IdsInOrder, SetToSeqs
  <2>. QED BY <2>3, <2>4
<1> HIDE DEF I
<1>3. Nat \subseteq I
  BY <1>1, <1>2, NatSetInduction
<1>. QED BY <1>3 DEF I

LEMMA IdsFinite == NumIds \in Nat /\ IsFiniteSet(Ids) /\ Cardinality(Ids) = NumIds
<1>1. NumIds \in Nat
  BY TeacherAssumption
<1>2. IsFiniteSet(1..NumIds) /\ Cardinality(1..NumIds) = NumIds
  BY <1>1, FS_Interval
<1>. QED BY <1>1, <1>2 DEF Ids

LEMMA InOrderSound ==
  ASSUME NEW S \in SUBSET Ids
  PROVE  /\ InOrder(S) \in Seq(S) /\ IsFiniteSet(S)
         /\ Len(InOrder(S)) = Cardinality(S) /\ Cardinality(S) \in Nat
         /\ \A i, j \in DOMAIN InOrder(S) : InOrder(S)[i] = InOrder(S)[j] => i = j
<1>1. NumIds \in Nat /\ IsFiniteSet(S) /\ Cardinality(S) \in Nat
  BY IdsFinite, FS_Subset, FS_CardinalityType
<1>2. \E q : IdsInOrder(q, S)
  BY <1>1, OrderExists DEF Ids
<1>3. IdsInOrder(InOrder(S), S)
  BY <1>2 DEF InOrder, IdsInOrder
<1>4. /\ InOrder(S) \in [1..Cardinality(S) -> S]
      /\ \A i, j \in 1..Cardinality(S) : i # j => InOrder(S)[i] # InOrder(S)[j]
  BY <1>3 DEF IdsInOrder, SetToSeqs
<1>. QED BY <1>1, <1>4

-----------------------------------------------------------------------------
(* The inductive invariant.                                                *)

Billed(r) == IF r.cost = NoCost THEN 0 ELSE r.cost

(* The log numbers the attempts of a complaint 1, 2, ... and answers it at *)
(* most once; a smoke log holds one free answer per complaint.             *)
LogSound ==
  /\ log \in Seq(LogRecord)
  /\ \A j, k \in DOMAIN log :
        log[j].id = log[k].id /\ log[j].attempt = log[k].attempt => j = k
  /\ \A k \in DOMAIN log : log[k].attempt <= Attempts(log[k].id)
  /\ \A j, k \in DOMAIN log :
        Ok(log[j]) /\ Ok(log[k]) /\ log[j].id = log[k].id => j = k
  /\ mode = "smoke" => \A k \in DOMAIN log : Ok(log[k]) /\ log[k].cost = 0

Calls == [tries : Nat, result : {"pending", "ok", "request_failed", "raised"},
          answer : Answers \cup {Absent}]

Steps == {"idle", "mock", "next", "calling", "appended", "write"}

(* A complaint that is still to be called is neither answered nor in       *)
(* flight, and it is to be called once.                                    *)
TodoSound ==
  pc \in {"mock", "next", "calling", "appended"} =>
    /\ todo \in Seq(Ids)
    /\ \A j, k \in DOMAIN todo : todo[j] = todo[k] => j = k
    /\ \A k \in DOMAIN todo : todo[k] \notin Successful \cup DOMAIN batch

(* The calls in flight are within the plan that let them go.               *)
CallSound(c) ==
  /\ c \in Calls
  /\ c.tries <= MaxRetries
  /\ c.result = "pending" => c.tries < MaxRetries
  /\ c.result = "ok" => c.answer \in Answers

BatchSound ==
  IF pc = "calling"
  THEN /\ DOMAIN batch \subseteq Ids \ Successful
       /\ batch = [id \in DOMAIN batch |-> batch[id]]
       /\ \A id \in DOMAIN batch : CallSound(batch[id])
       /\ Cardinality(DOMAIN batch) <= Concurrency
       /\ RecordedCost + Cardinality(DOMAIN batch) * PlanningCost <= Budget
  ELSE batch = <<>>

ProcessSound ==
  /\ mode \in {"smoke", "live"} /\ torn \in BOOLEAN /\ pc \in Steps
  /\ calls \in Nat /\ stops \in Nat
  /\ torn => pc = "idle"
  /\ pc = "mock" => mode = "smoke"
  /\ pc \in {"calling", "appended"} => mode = "live"
  /\ mode = "smoke" /\ pc = "next" => todo = <<>>
  /\ TodoSound
  /\ BatchSound

(* Everything the artifacts are made from.                                 *)
Complete == Missing = {} /\ ledger = Ledger("complete") /\ ledger.within_budget

(* The writer has written everything before the file it is at.             *)
WriterSound ==
  pc = "write" =>
    /\ Complete
    /\ \E n \in DOMAIN WriteOrder :
          /\ todo = SubSeq(WriteOrder, n, Len(WriteOrder))
          /\ \A k \in 1..(n - 1) : files[WriteOrder[k]] = Content(WriteOrder[k])
          /\ n < Len(WriteOrder) => files["manifest"] = Absent

Bundle ==
  /\ Complete /\ ~torn
  /\ \A f \in Sealed : files[f] = Content(f)
  /\ files["manifest"] = Manifest

FilesSound ==
  /\ files = [f \in Files |-> files[f]]
  /\ WriterSound
  /\ files["manifest"] # Absent =>
        Bundle /\ (pc = "idle" \/ (pc = "write" /\ Len(todo) = 1))
  /\ files["tracked_manifest"] \in {Absent, files["manifest"]}

TeacherInv ==
  LogSound /\ ProcessSound /\ CostCapped /\ CallsBounded /\ FilesSound

-----------------------------------------------------------------------------
(* What a sound log says.                                                  *)

LogMeaning ==
  /\ log \in Seq(LogRecord)
  /\ Successful \subseteq Ids /\ IsFiniteSet(Successful)
  /\ \A k \in DOMAIN log : Ok(log[k]) =>
        log[k].id \in Successful /\ SuccessOf(log[k].id) = log[k]
  /\ \A id \in Successful :
        /\ SuccessOf(id) \in LogRecord /\ Ok(SuccessOf(id)) /\ SuccessOf(id).id = id
        /\ Reported(id) = Billed(SuccessOf(id)) /\ Reported(id) \in Nat
  /\ \A id : Attempts(id) \in Nat /\ IsFiniteSet({k \in DOMAIN log : log[k].id = id})
  /\ RecordedCost \in Nat

LEMMA LogFacts == LogSound => LogMeaning
<1> SUFFICES ASSUME LogSound PROVE LogMeaning
  OBVIOUS
<1>1. log \in Seq(LogRecord) /\ \A k \in DOMAIN log : log[k] \in LogRecord
  BY DEF LogSound
<1>2. Successful \subseteq Ids
  BY <1>1 DEF Successful, LogRecord
<1>3. IsFiniteSet(Successful)
  BY <1>2, IdsFinite, FS_Subset
<1>4. ASSUME NEW k \in DOMAIN log, Ok(log[k])
      PROVE  log[k].id \in Successful /\ SuccessOf(log[k].id) = log[k]
  <2>1. log[k].id \in Successful
    BY <1>4 DEF Successful
  <2>2. {j \in DOMAIN log : Ok(log[j]) /\ log[j].id = log[k].id} = {k}
    BY <1>4 DEF LogSound
  <2>3. log[k].attempt <= log[k].attempt
    BY <1>1 DEF LogRecord
  <2>. QED BY <2>1, <2>2, <2>3 DEF SuccessOf
<1>5. ASSUME NEW id \in Successful
      PROVE  /\ SuccessOf(id) \in LogRecord /\ Ok(SuccessOf(id)) /\ SuccessOf(id).id = id
             /\ Reported(id) = Billed(SuccessOf(id)) /\ Reported(id) \in Nat
  <2>1. PICK k \in DOMAIN log : Ok(log[k]) /\ log[k].id = id
    BY DEF Successful
  <2>2. SuccessOf(id) = log[k]
    BY <1>4, <2>1
  <2>. QED BY <1>1, <2>1, <2>2 DEF Reported, Billed, LogRecord, NoCost
<1>6. ASSUME NEW id
      PROVE  Attempts(id) \in Nat /\ IsFiniteSet({k \in DOMAIN log : log[k].id = id})
  <2>1. IsFiniteSet(1..Len(log))
    BY <1>1, FS_Interval
  <2>2. IsFiniteSet({k \in DOMAIN log : log[k].id = id})
    BY <1>1, <2>1, FS_Subset
  <2>. QED BY <2>2, FS_CardinalityType DEF Attempts
<1>7. RecordedCost \in Nat
  BY <1>3, <1>5, TotalFacts DEF RecordedCost, SumFacts
<1>. QED BY <1>1, <1>2, <1>3, <1>4, <1>5, <1>6, <1>7 DEF LogMeaning

LEMMA LogFactsNext == LogSound' => LogMeaning'
BY LogFacts, PTL

-----------------------------------------------------------------------------
(* Appending records: of complaints not answered yet, each with the next   *)
(* number.                                                                 *)

Fresh(q) ==
  /\ q \in Seq(LogRecord)
  /\ \A j, k \in DOMAIN q : q[j].id = q[k].id => j = k
  /\ \A k \in DOMAIN q : q[k].id \notin Successful /\ q[k].attempt = Attempts(q[k].id) + 1
  /\ mode = "smoke" => \A k \in DOMAIN q : Ok(q[k]) /\ q[k].cost = 0

OkIds(q) == {q[k].id : k \in {j \in DOMAIN q : Ok(q[j])}}

Appends(q) == log' = log \o q /\ mode' = mode

LEMMA LogGrows ==
  ASSUME LogSound, NEW q, Fresh(q), Appends(q)
  PROVE  LogSound' /\ Successful' = Successful \cup OkIds(q)
<1> DEFINE n == Len(log)
<1>1. /\ log \in Seq(LogRecord) /\ n \in Nat /\ DOMAIN log = 1..n
      /\ q \in Seq(LogRecord) /\ Len(q) \in Nat /\ DOMAIN q = 1..Len(q)
      /\ \A k \in 1..n : log[k] \in LogRecord
      /\ mode' = mode
  BY DEF LogSound, Fresh, Appends
<1>2. /\ log' \in Seq(LogRecord) /\ DOMAIN log' = 1..(n + Len(q))
      /\ \A k \in 1..n : log'[k] = log[k]
      /\ \A k \in 1..Len(q) : log'[n + k] = q[k]
  BY <1>1 DEF Appends
<1>3. \A k \in DOMAIN log' : k \in 1..n \/ \E j \in 1..Len(q) : k = n + j
  <2> SUFFICES ASSUME NEW k \in 1..(n + Len(q)), k \notin 1..n
               PROVE  \E j \in 1..Len(q) : k = n + j
    BY <1>2
  <2>1. k - n \in 1..Len(q) /\ k = n + (k - n)
    BY <1>1
  <2>. QED BY <2>1
<1> HIDE DEF n
<1>4. LogMeaning
  BY LogFacts
<1>5. Successful' = Successful \cup OkIds(q)
  <2>1. \A id \in Successful' : id \in Successful \cup OkIds(q)
    BY <1>1, <1>2, <1>3 DEF Successful, OkIds, Ok
  <2>2. \A id \in Successful : id \in Successful'
    BY <1>1, <1>2 DEF Successful, Ok
  <2>3. \A id \in OkIds(q) : id \in Successful'
    <3> SUFFICES ASSUME NEW k \in 1..Len(q), Ok(q[k])
                 PROVE  q[k].id \in Successful'
      BY <1>1 DEF OkIds
    <3>1. n + k \in DOMAIN log' /\ log'[n + k] = q[k]
      BY <1>1, <1>2
    <3>. QED BY <3>1 DEF Successful, Ok
  <2>. QED BY <2>1, <2>2, <2>3
<1>6. ASSUME NEW id
      PROVE  /\ Attempts(id)' \in Nat /\ Attempts(id) <= Attempts(id)'
             /\ \A j \in 1..Len(q) : q[j].id = id => Attempts(id)' = Attempts(id) + 1
  <2> DEFINE A == {k \in DOMAIN log : log[k].id = id}
             B == {k \in DOMAIN log' : log'[k].id = id}
  <2>1. IsFiniteSet(A) /\ A \subseteq B /\ Cardinality(A) = Attempts(id) /\ Cardinality(B) = Attempts(id)'
    <3>1. IsFiniteSet(A)
      BY <1>4 DEF LogMeaning
    <3>2. A \subseteq B
      BY <1>1, <1>2
    <3>3. Cardinality(A) = Attempts(id) /\ Cardinality(B) = Attempts(id)'
      BY DEF Attempts
    <3>. QED BY <3>1, <3>2, <3>3
  <2>2. IsFiniteSet(B)
    <3>1. IsFiniteSet(1..(n + Len(q)))
      BY <1>1, FS_Interval
    <3>. QED BY <1>2, <3>1, FS_Subset
  <2>3. Cardinality(B) \in Nat /\ Cardinality(A) <= Cardinality(B)
    BY <2>1, <2>2, FS_CardinalityType, FS_Subset
  <2>4. ASSUME NEW j \in 1..Len(q), q[j].id = id
        PROVE  Cardinality(B) = Cardinality(A) + 1
    <3>1. B = A \cup {n + j}
      <4>1. n + j \in B
        BY <1>1, <1>2, <2>4
      <4>2. \A k \in B : k \in A \/ k = n + j
        <5> SUFFICES ASSUME NEW k \in DOMAIN log', log'[k].id = id, k \notin 1..n
                     PROVE  k = n + j
          BY <1>1, <1>2
        <5>1. PICK i \in 1..Len(q) : k = n + i
          BY <1>3
        <5>2. q[i].id = q[j].id
          BY <1>2, <2>4, <5>1
        <5>3. i = j
          BY <1>1, <5>2 DEF Fresh
        <5>. QED BY <5>1, <5>3
      <4> HIDE DEF A, B
      <4>. QED BY <2>1, <4>1, <4>2
    <3>2. n + j \notin A
      BY <1>1
    <3> HIDE DEF A, B
    <3>. QED BY <2>1, <3>1, <3>2, FS_AddElement
  <2>. QED BY <2>1, <2>3, <2>4
<1>7. ASSUME NEW j \in DOMAIN log', NEW k \in DOMAIN log',
             log'[j].id = log'[k].id, log'[j].attempt = log'[k].attempt
      PROVE  j = k
  <2>1. \A i \in 1..n, m \in 1..Len(q) : log[i].id = q[m].id => log[i].attempt < q[m].attempt
    <3> SUFFICES ASSUME NEW i \in 1..n, NEW m \in 1..Len(q), log[i].id = q[m].id
                 PROVE  log[i].attempt < q[m].attempt
      OBVIOUS
    <3>1. log[i].attempt \in Nat /\ log[i].attempt <= Attempts(log[i].id)
      BY <1>1 DEF LogSound, LogRecord
    <3>2. q[m].attempt = Attempts(log[i].id) + 1 /\ Attempts(log[i].id) \in Nat
      BY <1>1, <1>4 DEF Fresh, LogMeaning
    <3>. QED BY <3>1, <3>2
  <2>2. \A i \in 1..n : log[i].attempt \in Nat
    BY <1>1 DEF LogRecord
  <2>3. CASE j \in 1..n /\ k \in 1..n
    BY <1>1, <1>2, <1>7, <2>3 DEF LogSound
  <2>4. CASE j \in 1..n /\ k \notin 1..n
    BY <1>1, <1>2, <1>3, <1>7, <2>1, <2>2, <2>4
  <2>5. CASE j \notin 1..n /\ k \in 1..n
    BY <1>1, <1>2, <1>3, <1>7, <2>1, <2>2, <2>5
  <2>6. CASE j \notin 1..n /\ k \notin 1..n
    <3>1. PICK i \in 1..Len(q), m \in 1..Len(q) : j = n + i /\ k = n + m
      BY <1>3, <2>6
    <3>2. q[i].id = q[m].id
      BY <1>2, <1>7, <3>1
    <3>3. i = m
      BY <1>1, <3>2 DEF Fresh
    <3>. QED BY <3>1, <3>3
  <2>. QED BY <2>3, <2>4, <2>5, <2>6
<1>8. ASSUME NEW k \in DOMAIN log'
      PROVE  (log[k].attempt <= Attempts(log[k].id))'
  <2>1. PICK id : id = log'[k].id
    OBVIOUS
  <2>2. CASE k \in 1..n
    <3>1. log[k].attempt \in Nat /\ log[k].attempt <= Attempts(id) /\ Attempts(id) \in Nat
      BY <1>1, <1>2, <1>4, <2>1, <2>2 DEF LogSound, LogRecord, LogMeaning
    <3>2. Attempts(id)' \in Nat /\ Attempts(id) <= Attempts(id)'
      BY <1>6
    <3>3. log'[k] = log[k]
      BY <1>2, <2>2
    <3>4. log[k].attempt <= Attempts(id)'
      BY <3>1, <3>2
    <3>. QED BY <2>1, <3>3, <3>4
  <2>3. CASE k \notin 1..n
    <3>1. PICK j \in 1..Len(q) : log'[k] = q[j]
      BY <1>2, <1>3, <2>3
    <3>2. q[j].attempt = Attempts(id) + 1 /\ Attempts(id) \in Nat
      BY <1>1, <1>4, <2>1, <3>1 DEF Fresh, LogMeaning
    <3>3. Attempts(id)' = Attempts(id) + 1
      BY <1>6, <2>1, <3>1
    <3>4. q[j].attempt <= Attempts(id)'
      BY <3>2, <3>3
    <3>. QED BY <2>1, <3>1, <3>4
  <2>. QED BY <2>2, <2>3
<1>9. ASSUME NEW j \in DOMAIN log', NEW k \in DOMAIN log',
             Ok(log'[j]), Ok(log'[k]), log'[j].id = log'[k].id
      PROVE  j = k
  <2>1. \A i \in 1..n, m \in 1..Len(q) : Ok(log[i]) => log[i].id # q[m].id
    BY <1>1, <1>4 DEF Fresh, LogMeaning
  <2>2. CASE j \in 1..n /\ k \in 1..n
    BY <1>1, <1>2, <1>9, <2>2 DEF LogSound
  <2>3. CASE j \in 1..n /\ k \notin 1..n
    BY <1>1, <1>2, <1>3, <1>9, <2>1, <2>3
  <2>4. CASE j \notin 1..n /\ k \in 1..n
    BY <1>1, <1>2, <1>3, <1>9, <2>1, <2>4
  <2>5. CASE j \notin 1..n /\ k \notin 1..n
    <3>1. PICK i \in 1..Len(q), m \in 1..Len(q) : j = n + i /\ k = n + m
      BY <1>3, <2>5
    <3>2. q[i].id = q[m].id
      BY <1>2, <1>9, <3>1
    <3>3. i = m
      BY <1>1, <3>2 DEF Fresh
    <3>. QED BY <3>1, <3>3
  <2>. QED BY <2>2, <2>3, <2>4, <2>5
<1>10. ASSUME mode' = "smoke", NEW k \in DOMAIN log'
       PROVE  Ok(log'[k]) /\ log'[k].cost = 0
  <2>1. mode = "smoke"
    BY <1>1, <1>10
  <2>2. CASE k \in 1..n
    BY <1>1, <1>2, <2>1, <2>2 DEF LogSound
  <2>3. CASE k \notin 1..n
    BY <1>1, <1>2, <1>3, <2>1, <2>3 DEF Fresh
  <2>. QED BY <2>2, <2>3
<1>11. LogSound'
  BY <1>2, <1>7, <1>8, <1>9, <1>10 DEF LogSound, Ok
<1>. QED BY <1>5, <1>11

(* The members of a sequence are at most as many as its length.            *)
LEMMA ImageBound ==
  ASSUME NEW n \in Nat, NEW f
  PROVE  LET P == {f[k] : k \in 1..n}
         IN  IsFiniteSet(P) /\ Cardinality(P) <= n /\ Cardinality(P) \in Nat
<1> DEFINE P == {f[k] : k \in 1..n}
           g == [k \in 1..n |-> f[k]]
<1>1. IsFiniteSet(1..n) /\ Cardinality(1..n) = n
  BY FS_Interval
<1>2. g \in Surjection(1..n, P)
  BY DEF Surjection
<1> HIDE DEF g, P
<1>3. IsFiniteSet(P) /\ Cardinality(P) <= Cardinality(1..n)
  BY <1>1, <1>2, FS_Surjection
<1>. QED BY <1>1, <1>3, FS_CardinalityType DEF P

LEMMA ProductGrows ==
  ASSUME NEW a \in Nat, NEW b \in Nat, NEW c \in Nat, b <= c
  PROVE  a * b \in Nat /\ a * c \in Nat /\ a * b <= a * c
<1>1. PICK d \in Nat : c = b + d
  <2>1. c - b \in Nat /\ c = b + (c - b)
    OBVIOUS
  <2>. QED BY <2>1
<1>2. a * c = a * b + a * d /\ a * b \in Nat /\ a * d \in Nat
  BY <1>1
<1>. QED BY <1>2

(* What the appended answers add to the recorded cost.                     *)
LEMMA CostGrows ==
  ASSUME LogSound, NEW q, Fresh(q), Appends(q), NEW M \in Nat,
         \A k \in DOMAIN q : Ok(q[k]) => Billed(q[k]) <= M
  PROVE  RecordedCost' \in Nat /\ RecordedCost' <= RecordedCost + M * Len(q)
<1> DEFINE S == Successful
           N == OkIds(q)
           e == [id \in Successful |-> Reported(id)]
           f == e'
<1>1. LogMeaning /\ LogMeaning' /\ Successful' = S \cup N
  BY LogFacts, LogFactsNext, LogGrows
<1>2. /\ log \in Seq(LogRecord) /\ Len(log) \in Nat /\ DOMAIN log = 1..Len(log)
      /\ q \in Seq(LogRecord) /\ Len(q) \in Nat /\ DOMAIN q = 1..Len(q)
  BY DEF LogSound, Fresh
<1>3. /\ DOMAIN log' = 1..(Len(log) + Len(q))
      /\ \A k \in 1..Len(log) : log'[k] = log[k]
      /\ \A k \in 1..Len(q) : log'[Len(log) + k] = q[k]
  BY <1>2 DEF Appends
<1>4. \A id \in S : SuccessOf(id)' = SuccessOf(id)
  <2> SUFFICES ASSUME NEW id \in S PROVE SuccessOf(id)' = SuccessOf(id)
    OBVIOUS
  <2>1. PICK k \in DOMAIN log : Ok(log[k]) /\ log[k].id = id
    BY DEF Successful
  <2>2. SuccessOf(id) = log[k]
    BY <1>1, <2>1 DEF LogMeaning
  <2>3. k \in DOMAIN log' /\ log'[k] = log[k]
    BY <1>2, <1>3
  <2>4. SuccessOf(id)' = log'[k]
    BY <1>1, <2>1, <2>3 DEF LogMeaning
  <2>. QED BY <2>2, <2>3, <2>4
<1>5. \A k \in DOMAIN q : Ok(q[k]) => q[k].id \in N /\ SuccessOf(q[k].id)' = q[k]
  <2> SUFFICES ASSUME NEW k \in DOMAIN q, Ok(q[k])
               PROVE  q[k].id \in N /\ SuccessOf(q[k].id)' = q[k]
    OBVIOUS
  <2>1. PICK j : j = Len(log) + k
    OBVIOUS
  <2>2. j \in DOMAIN log' /\ log'[j] = q[k]
    BY <1>2, <1>3, <2>1
  <2>3. (SuccessOf(log[j].id) = log[j])'
    BY <1>1, <2>2 DEF LogMeaning
  <2>. QED BY <2>2, <2>3 DEF OkIds
<1>6. \A id \in N : \E k \in DOMAIN q : Ok(q[k]) /\ id = q[k].id
  BY DEF OkIds
<1>7. IsFiniteSet(S) /\ IsFiniteSet(N) /\ Cardinality(N) <= Len(q) /\ Cardinality(N) \in Nat
  <2> DEFINE g == [k \in 1..Len(q) |-> q[k].id]
             P == {g[k] : k \in 1..Len(q)}
  <2>1. IsFiniteSet(P) /\ Cardinality(P) <= Len(q) /\ Cardinality(P) \in Nat
    <3> HIDE DEF g
    <3>. QED BY <1>2, ImageBound
  <2>2. N \subseteq P
    BY <1>2, <1>6
  <2> HIDE DEF N, P
  <2>3. IsFiniteSet(N) /\ Cardinality(N) <= Cardinality(P)
    BY <2>1, <2>2, FS_Subset
  <2>4. Cardinality(N) \in Nat
    BY <2>3, FS_CardinalityType
  <2>. QED BY <1>1, <2>1, <2>3, <2>4 DEF LogMeaning
<1>8. S \cap N = {}
  BY <1>6 DEF Fresh
<1>9. f = [id \in S \cup N |-> Reported(id)'] /\ RecordedCost = Total(e, S) /\ RecordedCost' = Total(f, S \cup N)
  BY <1>1 DEF RecordedCost
<1>10. \A id \in S : f[id] = e[id] /\ f[id] \in Nat
  <2> SUFFICES ASSUME NEW id \in S PROVE f[id] = e[id] /\ f[id] \in Nat
    OBVIOUS
  <2>1. Reported(id)' = Reported(id)
    BY <1>4 DEF Reported
  <2>2. Reported(id) \in Nat
    BY <1>1 DEF LogMeaning
  <2>3. f[id] = Reported(id)' /\ e[id] = Reported(id)
    BY <1>9
  <2>. QED BY <2>1, <2>2, <2>3
<1>11. \A id \in N : f[id] \in Nat /\ f[id] <= M
  <2> SUFFICES ASSUME NEW id \in N PROVE f[id] \in Nat /\ f[id] <= M
    OBVIOUS
  <2>1. PICK k \in DOMAIN q : Ok(q[k]) /\ id = q[k].id
    BY <1>6
  <2>2. Reported(id)' = Billed(SuccessOf(id)') /\ Reported(id)' \in Nat
    <3>1. id \in Successful'
      BY <1>1
    <3>. QED BY <1>1, <3>1 DEF LogMeaning, Billed, NoCost
  <2>3. SuccessOf(id)' = q[k]
    BY <1>5, <2>1
  <2>4. f[id] = Reported(id)'
    BY <1>9
  <2>. QED BY <2>1, <2>2, <2>3, <2>4
<1> HIDE DEF S, N, e, f
<1>12. Total(f, S \cup N) = Total(f, S) + Total(f, N)
  BY <1>7, <1>8, <1>10, <1>11, TotalOfUnion
<1>13. Total(f, S) = Total(e, S)
  BY <1>7, <1>10, TotalAgrees
<1>14. Total(f, N) \in Nat /\ Total(f, N) <= M * Cardinality(N)
  BY <1>7, <1>11, TotalFacts, TotalBound DEF SumFacts
<1>15. M * Cardinality(N) <= M * Len(q) /\ M * Cardinality(N) \in Nat /\ M * Len(q) \in Nat
  BY <1>2, <1>7, ProductGrows
<1>16. RecordedCost \in Nat
  BY <1>1 DEF LogMeaning
<1>. QED BY <1>9, <1>12, <1>13, <1>14, <1>15, <1>16

-----------------------------------------------------------------------------
(* What depends on the log alone does not change with anything else.       *)

LEMMA LogKept ==
  ASSUME UNCHANGED <<mode, log>>
  PROVE  /\ LogSound' = LogSound /\ Successful' = Successful /\ Missing' = Missing
         /\ RecordedCost' = RecordedCost /\ CostCapped' = CostCapped
<1>1. mode' = mode /\ log' = log
  OBVIOUS
<1>2. LogSound' = LogSound
  BY <1>1 DEF LogSound, Attempts, Ok
<1>3. Successful' = Successful
  BY <1>1 DEF Successful, Ok
<1>4. Missing' = Missing
  BY <1>3 DEF Missing
<1>5. \A id : Reported(id)' = Reported(id)
  BY <1>1 DEF Reported, SuccessOf, Ok
<1>6. RecordedCost' = RecordedCost
  BY <1>3, <1>5 DEF RecordedCost
<1>7. CostCapped' = CostCapped
  BY <1>6 DEF CostCapped
<1>. QED BY <1>2, <1>3, <1>4, <1>6, <1>7

LEMMA LedgerKept ==
  ASSUME UNCHANGED <<mode, log>>
  PROVE  \A status : Ledger(status)' = Ledger(status)
<1>1. mode' = mode /\ log' = log /\ Successful' = Successful /\ RecordedCost' = RecordedCost
  BY LogKept
<1>2. FailedLatest' = FailedLatest /\ MissingCost' = MissingCost
  BY <1>1 DEF FailedLatest, MissingCost, SuccessOf, Ok
<1>. QED BY <1>1, <1>2 DEF Ledger

(* So does what the artifacts are made from, with the ledger.              *)
LEMMA ContentKept ==
  ASSUME UNCHANGED <<mode, log, ledger>>
  PROVE  /\ Complete' = Complete
         /\ \A f \in Sealed : Content(f)' = Content(f)
         /\ (\A f \in Sealed : files'[f] = files[f]) => Manifest' = Manifest
<1>1. mode' = mode /\ log' = log /\ ledger' = ledger
  OBVIOUS
<1>2. Successful' = Successful /\ RecordedCost' = RecordedCost /\ Missing' = Missing
  BY LogKept
<1>3. \A id : SuccessOf(id)' = SuccessOf(id)
  BY <1>1 DEF SuccessOf, Ok
<1>4. VerifierValid' = VerifierValid /\ SchemaValid' = SchemaValid
  BY <1>2, <1>3 DEF VerifierValid, SchemaValid, OfGrade
<1>5. Deduplicated(VerifierValid)' = Deduplicated(VerifierValid)
  BY <1>4
<1>6. Clean' = Clean /\ Quarantined(Deduplicated(VerifierValid))' = Quarantined(Deduplicated(VerifierValid))
  BY <1>5 DEF Clean, Quarantined
<1>7. Funnel' = Funnel
  BY <1>4, <1>5, <1>6 DEF Funnel
<1>8. \A id : Outcome(id)' = Outcome(id)
  BY <1>4, <1>5, <1>6 DEF Outcome
<1>9. DataCard' = DataCard
  BY <1>1, <1>4, <1>5, <1>6, <1>7 DEF DataCard
<1>10. Ledger("complete")' = Ledger("complete")
  BY LedgerKept
<1>11. Complete' = Complete
  BY <1>1, <1>2, <1>10 DEF Complete
<1>12. \A f \in Sealed : Content(f)' = Content(f)
  BY <1>1, <1>6, <1>8, <1>9 DEF Content, Sealed, Files, WriteOrder, Corpora
<1>13. (\A f \in Sealed : files'[f] = files[f]) => Manifest' = Manifest
  BY <1>1, <1>6, <1>7 DEF Manifest
<1>. QED BY <1>11, <1>12, <1>13

(* The files of a process that has not begun to write.                     *)
LEMMA NoBundle ==
  ASSUME FilesSound, pc \notin {"idle", "write"}
  PROVE  files["manifest"] = Absent
BY DEF FilesSound

LEMMA FilesUntouched ==
  ASSUME FilesSound, files["manifest"] = Absent, files' = files, pc' # "write"
  PROVE  FilesSound'
BY DEF FilesSound, WriterSound

(* A process that stops leaves what it has written.                        *)
LEMMA FilesLeft ==
  ASSUME FilesSound, UNCHANGED <<mode, disk>>, pc' = "idle"
  PROVE  FilesSound'
<1>1. UNCHANGED <<mode, log, ledger>> /\ torn' = torn /\ files' = files
  BY DEF disk
<1>2. CASE files["manifest"] = Absent
  BY <1>1, <1>2, FilesUntouched
<1>3. CASE files["manifest"] # Absent
  <2>1. Bundle'
    <3>1. Bundle
      BY <1>3 DEF FilesSound
    <3>2. Complete' = Complete /\ (\A f \in Sealed : Content(f)' = Content(f)) /\ Manifest' = Manifest
      BY <1>1, ContentKept
    <3>. QED BY <1>1, <3>1, <3>2 DEF Bundle
  <2>. QED BY <1>1, <1>3, <2>1 DEF FilesSound, WriterSound
<1>. QED BY <1>2, <1>3

(* The calls in flight, and what they may have been billed.                *)
LEMMA BatchFacts ==
  ASSUME BatchSound
  PROVE  /\ IsFiniteSet(DOMAIN batch) /\ Cardinality(DOMAIN batch) \in Nat
         /\ Cardinality(DOMAIN batch) <= Concurrency
         /\ InFlight \in Nat /\ InFlight <= MaxRetries * Cardinality(DOMAIN batch)
<1>0. Concurrency \in Nat /\ MaxRetries \in Nat
  BY TeacherAssumption
<1>1. CASE pc = "calling"
  <2> DEFINE f == [id \in DOMAIN batch |-> batch[id].tries]
  <2>1. IsFiniteSet(DOMAIN batch)
    <3>1. DOMAIN batch \subseteq Ids
      BY <1>1 DEF BatchSound
    <3>. QED BY <3>1, IdsFinite, FS_Subset
  <2>2. \A id \in DOMAIN batch : f[id] \in Nat /\ f[id] <= MaxRetries
    BY <1>1 DEF BatchSound, CallSound, Calls
  <2>3. Cardinality(DOMAIN batch) <= Concurrency
    BY <1>1 DEF BatchSound
  <2>4. InFlight = Total(f, DOMAIN batch)
    BY DEF InFlight
  <2> HIDE DEF f
  <2>5. Total(f, DOMAIN batch) \in Nat
    BY <2>1, <2>2, TotalFacts DEF SumFacts
  <2>6. Total(f, DOMAIN batch) <= MaxRetries * Cardinality(DOMAIN batch)
    BY <1>0, <2>1, <2>2, TotalBound
  <2>. QED BY <2>1, <2>3, <2>4, <2>5, <2>6, FS_CardinalityType
<1>2. CASE pc # "calling"
  <2>1. DOMAIN batch = {}
    BY <1>2 DEF BatchSound
  <2>2. InFlight = 0
    BY <2>1, TotalOfNone DEF InFlight
  <2>3. MaxRetries * 0 = 0
    BY <1>0
  <2>. QED BY <1>0, <2>1, <2>2, <2>3, FS_EmptySet
<1>. QED BY <1>1, <1>2

LEMMA InFlightIsNat == BatchSound => InFlight \in Nat
BY BatchFacts

LEMMA InFlightIsNatNext == BatchSound' => (InFlight \in Nat)'
BY InFlightIsNat, PTL

LEMMA NoneInFlight ==
  ASSUME batch = <<>>
  PROVE  InFlight = 0
<1>1. DOMAIN batch = {}
  OBVIOUS
<1>. QED BY <1>1, TotalOfNone DEF InFlight

(* The prices of the answers.                                              *)
LEMMA CostliestFacts ==
  /\ CostliestCall \in Nat \cup {-1}
  /\ \A a \in Answers : a.cost \in Nat \cup {NoCost} /\ a.cost <= CostliestCall
<1>1. \A a \in Answers : a.cost \in Nat \cup {NoCost}
  BY TeacherAssumption
<1>2. PICK a \in Answers : \A b \in Answers : b.cost <= a.cost
  BY AnswersAssumption
<1>3. \E c \in {b.cost : b \in Answers} : \A b \in Answers : b.cost <= c
  BY <1>2
<1>4. CostliestCall \in {b.cost : b \in Answers} /\ \A b \in Answers : b.cost <= CostliestCall
  BY <1>3 DEF CostliestCall
<1>. QED BY <1>1, <1>4 DEF NoCost

LEMMA InvFacts ==
  ASSUME TeacherInv
  PROVE  /\ LogSound /\ ProcessSound /\ TodoSound /\ BatchSound
         /\ CostCapped /\ CallsBounded /\ FilesSound
         /\ log \in Seq(LogRecord) /\ Len(log) \in Nat /\ calls \in Nat /\ stops \in Nat
BY DEF TeacherInv, ProcessSound, LogSound

(* A step that calls nobody and leaves nothing in flight.                  *)
LEMMA CallsSettled ==
  ASSUME TeacherInv, calls' = calls, batch' = <<>>,
         NEW n \in Nat, Len(log') = Len(log) + n, stops' \in Nat,
         stops' >= stops,
         Cardinality(DOMAIN batch) <= n \/ stops' = stops + 1
  PROVE  CallsBounded'
<1> DEFINE B == Cardinality(DOMAIN batch)
           L == Len(log)
           R == MaxRetries
           C == Concurrency
<1>1. /\ L \in Nat /\ calls \in Nat /\ stops \in Nat /\ BatchSound
      /\ calls <= R * (L + C * stops) + InFlight
  BY InvFacts DEF CallsBounded
<1>2. R \in Nat /\ C \in Nat
  BY TeacherAssumption
<1>3. B \in Nat /\ B <= C /\ InFlight \in Nat /\ InFlight <= R * B
  BY <1>1, BatchFacts
<1>4. InFlight' = 0
  <2>1. DOMAIN batch' = {}
    OBVIOUS
  <2>. QED BY <2>1, TotalOfNone DEF InFlight
<1> DEFINE X == C * stops
           Y == C * stops'
<1>5. X \in Nat /\ Y \in Nat /\ X <= Y /\ (stops' = stops + 1 => Y = X + C)
  <2>1. C * stops \in Nat /\ C * stops' \in Nat /\ C * stops <= C * stops'
    BY <1>1, <1>2, ProductGrows
  <2>2. C * (stops + 1) = C * stops + C
    BY <1>1, <1>2
  <2>. QED BY <2>1, <2>2
<1>6. calls <= R * (L + X) + InFlight
  BY <1>1
<1>7. B <= n \/ stops' = stops + 1
  OBVIOUS
<1>8. Len(log') = L + n /\ L \in Nat
  BY <1>1
<1> HIDE DEF B, L, R, C, X, Y
<1>9. L + X \in Nat /\ L + n + Y \in Nat /\ L + X + B \in Nat /\ L + X + B <= L + n + Y
  BY <1>3, <1>2, <1>5, <1>7, <1>8
<1>10. R * (L + X + B) <= R * (L + n + Y) /\ R * (L + n + Y) \in Nat
  BY <1>2, <1>9, ProductGrows
<1>11. R * (L + X + B) = R * (L + X) + R * B /\ R * (L + X) \in Nat /\ R * B \in Nat
  BY <1>2, <1>3, <1>9
<1>12. calls <= R * (L + n + Y)
  BY <1>1, <1>3, <1>6, <1>10, <1>11
<1>13. calls' <= R * (Len(log') + Y) + 0
  BY <1>8, <1>10, <1>12
<1>. QED BY <1>4, <1>13 DEF CallsBounded, R, C, Y

(* A process that stops: it forgets its calls and leaves what it wrote.    *)
LEMMA StoppedIsSound ==
  ASSUME TeacherInv, Raise, UNCHANGED <<mode, log, torn, files, calls>>,
         pc # "idle", pc = "write" => ledger' = ledger
  PROVE  TeacherInv'
<1>1. pc' = "idle" /\ batch' = <<>> /\ stops' = stops + 1 /\ stops' \in Nat
  BY InvFacts DEF Raise, Exit
<1>2. LogSound' /\ CostCapped'
  BY InvFacts, LogKept
<1>3. ProcessSound'
  BY <1>1, InvFacts DEF ProcessSound, TodoSound, BatchSound, Steps
<1>4. CallsBounded'
  BY <1>1, InvFacts, CallsSettled
<1>5. FilesSound'
  <2>1. CASE pc = "write"
    BY <1>1, <2>1, InvFacts, FilesLeft DEF disk
  <2>2. CASE pc # "write"
    BY <1>1, <2>2, InvFacts, NoBundle, FilesUntouched
  <2>. QED BY <2>1, <2>2
<1>. QED BY <1>2, <1>3, <1>4, <1>5 DEF TeacherInv

(* A step of a process that is neither idle nor writing and leaves log and *)
(* counters alone.                                                         *)
LEMMA WorkingIsSound ==
  ASSUME TeacherInv, UNCHANGED <<mode, log, files, stops>>,
         files["manifest"] = Absent, pc' # "write",
         ProcessSound', CallsBounded'
  PROVE  TeacherInv'
<1>1. LogSound' /\ CostCapped'
  BY InvFacts, LogKept
<1>2. FilesSound'
  BY InvFacts, FilesUntouched
<1>. QED BY <1>1, <1>2 DEF TeacherInv

LEMMA InitIsSound == Init => TeacherInv
<1> SUFFICES ASSUME Init PROVE TeacherInv
  OBVIOUS
<1>0. /\ mode \in {"smoke", "live"} /\ log = <<>> /\ torn = FALSE
      /\ files = [f \in Files |-> Absent] /\ pc = "idle" /\ batch = <<>>
      /\ calls = 0 /\ stops = 0
  BY DEF Init
<1>1. LogSound
  BY <1>0 DEF LogSound
<1>2. ProcessSound
  BY <1>0 DEF ProcessSound, TodoSound, BatchSound, Steps
<1>3. CostCapped
  <2>1. Successful = {}
    BY <1>0 DEF Successful
  <2>2. RecordedCost = 0
    BY <2>1, TotalOfNone DEF RecordedCost
  <2>3. Budget \in Nat /\ Concurrency \in Nat /\ PlanningCost \in Nat
    BY TeacherAssumption
  <2>4. CostliestCall \in Nat \cup {-1}
    BY CostliestFacts
  <2>5. CostliestCall > PlanningCost => Concurrency * (CostliestCall - PlanningCost) \in Nat
    <3> SUFFICES ASSUME CostliestCall > PlanningCost
                 PROVE  Concurrency * (CostliestCall - PlanningCost) \in Nat
      OBVIOUS
    <3>1. CostliestCall - PlanningCost \in Nat
      BY <2>3, <2>4
    <3>. QED BY <2>3, <3>1
  <2>. QED BY <2>2, <2>3, <2>4, <2>5 DEF CostCapped
<1>4. CallsBounded
  <2>1. InFlight = 0
    BY <1>0, NoneInFlight
  <2>2. MaxRetries \in Nat /\ Concurrency \in Nat
    BY TeacherAssumption
  <2>3. Len(log) = 0 /\ Concurrency * 0 = 0 /\ MaxRetries * 0 = 0
    BY <1>0, <2>2
  <2>. QED BY <1>0, <2>1, <2>2, <2>3 DEF CallsBounded
<1>5. FilesSound
  BY <1>0 DEF FilesSound, WriterSound, Files, WriteOrder
<1>. QED BY <1>1, <1>2, <1>3, <1>4, <1>5 DEF TeacherInv

-----------------------------------------------------------------------------
(* The records a process appends.                                          *)

LEMMA FreshPrefix ==
  ASSUME NEW q, Fresh(q), NEW n \in 0..Len(q)
  PROVE  /\ Fresh(SubSeq(q, 1, n)) /\ Len(SubSeq(q, 1, n)) = n
         /\ \A k \in DOMAIN SubSeq(q, 1, n) : k \in DOMAIN q /\ SubSeq(q, 1, n)[k] = q[k]
<1> DEFINE p == SubSeq(q, 1, n)
<1>1. q \in Seq(LogRecord) /\ Len(q) \in Nat /\ DOMAIN q = 1..Len(q) /\ n \in Nat
  BY DEF Fresh
<1>2. p \in Seq(LogRecord) /\ Len(p) = n /\ DOMAIN p = 1..n /\ \A k \in 1..n : p[k] = q[k]
  BY <1>1
<1> HIDE DEF p
<1>3. \A k \in DOMAIN p : k \in DOMAIN q /\ p[k] = q[k]
  BY <1>1, <1>2
<1>4. Fresh(p)
  BY <1>2, <1>3 DEF Fresh
<1>. QED BY <1>2, <1>3, <1>4 DEF p

LEMMA MockFresh ==
  ASSUME TeacherInv, pc = "mock"
  PROVE  Fresh(MockRecords)
<1> DEFINE q == MockRecords
<1>1. /\ todo \in Seq(Ids) /\ DOMAIN todo = 1..Len(todo) /\ Len(todo) \in Nat
      /\ \A j, k \in DOMAIN todo : todo[j] = todo[k] => j = k
      /\ \A k \in DOMAIN todo : todo[k] \in Ids /\ todo[k] \notin Successful
  BY InvFacts DEF TodoSound
<1>2. mode = "smoke" /\ LogSound
  BY InvFacts DEF ProcessSound
<1>3. \A k \in DOMAIN todo : Attempts(todo[k]) = 0
  <2> SUFFICES ASSUME NEW k \in DOMAIN todo PROVE Attempts(todo[k]) = 0
    OBVIOUS
  <2>1. {j \in DOMAIN log : log[j].id = todo[k]} = {}
    <3> SUFFICES ASSUME NEW j \in DOMAIN log, log[j].id = todo[k] PROVE FALSE
      OBVIOUS
    <3>1. Ok(log[j])
      BY <1>2 DEF LogSound
    <3>2. log[j].id \in Successful
      BY <3>1 DEF Successful
    <3>. QED BY <1>1, <3>2
  <2>. QED BY <2>1, FS_EmptySet DEF Attempts
<1>4. DOMAIN q = DOMAIN todo /\ \A k \in DOMAIN todo : q[k] = MockRecord(todo[k])
  BY DEF MockRecords
<1>5. \A id : MockGrade(id) \in Grades
  BY DEF MockGrade, Grades
<1>6. \A k \in DOMAIN todo : MockRecord(todo[k]) =
         [id |-> todo[k], attempt |-> 1, status |-> "ok", cost |-> 0, grade |-> MockGrade(todo[k])]
  BY DEF MockRecord, Record
<1>7. \A k \in DOMAIN todo : q[k] \in LogRecord /\ Ok(q[k]) /\ q[k].id = todo[k] /\ q[k].cost = 0 /\ q[k].attempt = 1
  BY <1>1, <1>4, <1>5, <1>6 DEF LogRecord, Ok
<1>8. q \in Seq(LogRecord)
  BY <1>1, <1>4, <1>7 DEF MockRecords
<1> HIDE DEF q
<1>9. Fresh(q)
  BY <1>1, <1>3, <1>4, <1>7, <1>8 DEF Fresh
<1>. QED BY <1>9 DEF q

LEMMA BatchFresh ==
  ASSUME TeacherInv, Resolved, ~SomeRaised
  PROVE  /\ Fresh(BatchRecords) /\ Len(BatchRecords) = Cardinality(DOMAIN batch)
         /\ \A k \in DOMAIN BatchRecords :
               /\ BatchRecords[k].id \in DOMAIN batch
               /\ BatchRecords[k].cost <= CostliestCall \/ BatchRecords[k].cost = 0
<1> DEFINE q == BatchRecords
           order == InOrder(DOMAIN batch)
<1>1. /\ pc = "calling" /\ mode = "live" /\ BatchSound
      /\ \A id \in DOMAIN batch : batch[id].result \notin {"pending", "raised"}
  BY InvFacts DEF Resolved, SomeRaised, ProcessSound
<1>2. DOMAIN batch \subseteq Ids /\ \A id \in DOMAIN batch : id \notin Successful /\ CallSound(batch[id])
  BY <1>1 DEF BatchSound
<1>3. /\ order \in Seq(DOMAIN batch) /\ Len(order) = Cardinality(DOMAIN batch) /\ Len(order) \in Nat
      /\ DOMAIN order = 1..Len(order)
      /\ \A i, j \in DOMAIN order : order[i] = order[j] => i = j
      /\ \A k \in DOMAIN order : order[k] \in DOMAIN batch
  BY <1>2, InOrderSound
<1>4. q = [k \in DOMAIN order |-> RecordOf(order[k])]
  BY DEF BatchRecords
<1> HIDE DEF order
<1>5. \A id \in DOMAIN batch :
        /\ RecordOf(id) \in LogRecord /\ RecordOf(id).id = id
        /\ RecordOf(id).attempt = Attempts(id) + 1
        /\ RecordOf(id).cost <= CostliestCall \/ RecordOf(id).cost = 0
  <2> SUFFICES ASSUME NEW id \in DOMAIN batch
               PROVE  /\ RecordOf(id) \in LogRecord /\ RecordOf(id).id = id
                      /\ RecordOf(id).attempt = Attempts(id) + 1
                      /\ RecordOf(id).cost <= CostliestCall \/ RecordOf(id).cost = 0
    OBVIOUS
  <2>1. Attempts(id) + 1 \in Nat
    <3>1. Attempts(id) \in Nat
      BY LogFacts, InvFacts DEF LogMeaning
    <3>. QED BY <3>1
  <2>2. CASE batch[id].result = "request_failed"
    BY <1>2, <2>1, <2>2 DEF RecordOf, Record, LogRecord, Grades
  <2>3. CASE batch[id].result # "request_failed"
    <3> DEFINE a == batch[id].answer
    <3>1. a \in Answers
      BY <1>1, <1>2, <2>3 DEF CallSound, Calls
    <3>2. a.cost \in Nat \cup {NoCost} /\ a.cost <= CostliestCall /\ a.grade \in Grades
      BY <3>1, CostliestFacts DEF Grades
    <3>3. RecordOf(id) = [id |-> id, attempt |-> Attempts(id) + 1, status |-> "ok",
                          cost |-> a.cost, grade |-> a.grade]
      BY <2>3 DEF RecordOf, Record
    <3>. QED BY <1>2, <2>1, <3>2, <3>3 DEF LogRecord
  <2>. QED BY <2>2, <2>3
<1>6. q \in Seq(LogRecord) /\ Len(q) = Len(order) /\ DOMAIN q = DOMAIN order
  BY <1>3, <1>4, <1>5
<1>7. \A k \in DOMAIN q : q[k] = RecordOf(order[k]) /\ q[k].id = order[k] /\ order[k] \in DOMAIN batch
  BY <1>3, <1>4, <1>5
<1> HIDE DEF q
<1>8. \A k \in DOMAIN q : q[k].id \notin Successful /\ q[k].attempt = Attempts(q[k].id) + 1
  <2> SUFFICES ASSUME NEW k \in DOMAIN q
               PROVE  q[k].id \notin Successful /\ q[k].attempt = Attempts(q[k].id) + 1
    OBVIOUS
  <2>1. q[k] = RecordOf(order[k]) /\ q[k].id = order[k] /\ order[k] \in DOMAIN batch
    BY <1>7
  <2>2. RecordOf(order[k]).attempt = Attempts(order[k]) + 1
    BY <1>5, <2>1
  <2>. QED BY <1>2, <2>1, <2>2
<1>9. \A j, k \in DOMAIN q : q[j].id = q[k].id => j = k
  BY <1>3, <1>6, <1>7
<1>10. Fresh(q)
  BY <1>1, <1>6, <1>8, <1>9 DEF Fresh
<1>11. \A k \in DOMAIN q : q[k].id \in DOMAIN batch /\ (q[k].cost <= CostliestCall \/ q[k].cost = 0)
  BY <1>5, <1>7
<1>. QED BY <1>3, <1>6, <1>10, <1>11 DEF q

(* The cap holds after an append: the answers of a batch cost no more than *)
(* the costliest answer each, and the batch was within its plan.           *)
LEMMA AppendKeepsCap ==
  ASSUME TeacherInv, NEW q, Fresh(q), Appends(q),
         \/ mode = "smoke"
         \/ /\ pc = "calling" /\ Len(q) <= Cardinality(DOMAIN batch)
            /\ \A k \in DOMAIN q : q[k].cost <= CostliestCall \/ q[k].cost = 0
  PROVE  CostCapped'
<1>1. /\ LogSound /\ BatchSound /\ CostCapped /\ RecordedCost \in Nat
      /\ q \in Seq(LogRecord) /\ Len(q) \in Nat
      /\ \A k \in DOMAIN q : q[k] \in LogRecord
  BY InvFacts, LogFacts DEF LogMeaning, Fresh
<1>2. /\ Budget \in Nat /\ PlanningCost \in Nat /\ Concurrency \in Nat
      /\ CostliestCall \in Nat \cup {-1}
  BY TeacherAssumption, CostliestFacts
<1>3. CASE mode = "smoke"
  <2>1. \A k \in DOMAIN q : Ok(q[k]) => Billed(q[k]) <= 0
    BY <1>3 DEF Fresh, Billed, NoCost
  <2>2. RecordedCost' \in Nat /\ RecordedCost' <= RecordedCost + 0 * Len(q)
    BY <1>1, <2>1, CostGrows
  <2>3. RecordedCost' \in Nat /\ RecordedCost' <= RecordedCost
    BY <1>1, <2>2
  <2>4. CostliestCall > PlanningCost => Concurrency * (CostliestCall - PlanningCost) \in Int
    BY <1>2
  <2>. QED BY <1>1, <1>2, <2>3, <2>4 DEF CostCapped
<1>4. CASE mode # "smoke"
  <2> DEFINE n == Cardinality(DOMAIN batch)
             M == IF CostliestCall > PlanningCost THEN CostliestCall ELSE PlanningCost
             d == M - PlanningCost
  <2>1. n \in Nat /\ n <= Concurrency /\ RecordedCost + n * PlanningCost <= Budget /\ Len(q) <= n
    BY <1>1, <1>4, BatchFacts DEF BatchSound
  <2>2. M \in Nat /\ d \in Nat /\ M = PlanningCost + d /\ CostliestCall <= M
    BY <1>2
  <2>3. \A k \in DOMAIN q : Ok(q[k]) => Billed(q[k]) <= M
    <3> SUFFICES ASSUME NEW k \in DOMAIN q PROVE Billed(q[k]) <= M
      OBVIOUS
    <3>1. q[k].cost \in Nat \cup {-1} /\ (q[k].cost <= CostliestCall \/ q[k].cost = 0)
      BY <1>1, <1>4 DEF LogRecord, NoCost
    <3> HIDE DEF M
    <3>. QED BY <1>2, <2>2, <3>1 DEF Billed, NoCost
  <2> HIDE DEF n, M, d
  <2>4. RecordedCost' \in Nat /\ RecordedCost' <= RecordedCost + M * Len(q)
    BY <1>1, <2>2, <2>3, CostGrows
  <2>5. M * Len(q) <= M * n /\ M * Len(q) \in Nat /\ M * n \in Nat
    BY <1>1, <2>1, <2>2, ProductGrows
  <2>6. M * n = n * PlanningCost + d * n /\ n * PlanningCost \in Nat
    BY <1>2, <2>1, <2>2
  <2>7. d * n <= d * Concurrency /\ d * n \in Nat /\ d * Concurrency \in Nat
    BY <1>2, <2>1, <2>2, ProductGrows
  <2>8. RecordedCost' <= Budget + d * Concurrency
    BY <1>1, <1>2, <2>1, <2>4, <2>5, <2>6, <2>7
  <2>9. d * Concurrency = IF CostliestCall > PlanningCost
                          THEN Concurrency * (CostliestCall - PlanningCost) ELSE 0
    <3>1. CASE CostliestCall > PlanningCost
      <4>1. d = CostliestCall - PlanningCost
        BY <3>1 DEF d, M
      <4>2. d * Concurrency = Concurrency * d
        BY <1>2, <2>2
      <4>. QED BY <3>1, <4>1, <4>2
    <3>2. CASE ~(CostliestCall > PlanningCost)
      <4>1. d = 0
        BY <1>2, <3>2 DEF d, M
      <4>2. 0 * Concurrency = 0
        BY <1>2
      <4>. QED BY <3>2, <4>1, <4>2
    <3>. QED BY <3>1, <3>2
  <2>. QED BY <2>8, <2>9 DEF CostCapped
<1>. QED BY <1>3, <1>4

LEMMA ContentAll ==
  ASSUME UNCHANGED <<mode, log, ledger, files>>
  PROVE  \A f : Content(f)' = Content(f)
<1>1. mode' = mode /\ log' = log /\ ledger' = ledger /\ files' = files
  OBVIOUS
<1>2. Successful' = Successful /\ \A id : SuccessOf(id)' = SuccessOf(id)
  BY <1>1, LogKept DEF SuccessOf, Ok
<1>3. VerifierValid' = VerifierValid /\ SchemaValid' = SchemaValid
  BY <1>2 DEF VerifierValid, SchemaValid, OfGrade
<1>4. Deduplicated(VerifierValid)' = Deduplicated(VerifierValid)
  BY <1>3
<1>5. Clean' = Clean /\ Quarantined(Deduplicated(VerifierValid))' = Quarantined(Deduplicated(VerifierValid))
  BY <1>4 DEF Clean, Quarantined
<1>6. Funnel' = Funnel /\ \A id : Outcome(id)' = Outcome(id)
  BY <1>3, <1>4, <1>5 DEF Funnel, Outcome
<1>7. DataCard' = DataCard /\ Manifest' = Manifest
  BY <1>1, <1>3, <1>4, <1>5, <1>6 DEF DataCard, Manifest
<1>. QED BY <1>1, <1>5, <1>6, <1>7 DEF Content

-----------------------------------------------------------------------------
(* The steps.                                                              *)

(* A step that changes nothing.                                            *)
LEMMA StutterIsSound ==
  ASSUME TeacherInv, UNCHANGED vars
  PROVE  TeacherInv'
<1>1. UNCHANGED <<mode, log, ledger, torn, files, pc, todo, batch, calls, stops>>
  BY DEF vars
<1>2. /\ LogSound' = LogSound /\ Successful' = Successful /\ RecordedCost' = RecordedCost
      /\ CostCapped' = CostCapped
  BY <1>1, LogKept
<1>3. ProcessSound'
  BY <1>1, <1>2, InvFacts DEF ProcessSound, TodoSound, BatchSound, CallSound, Calls
<1>4. CallsBounded'
  <2>1. InFlight' = InFlight
    BY <1>1 DEF InFlight
  <2>. QED BY <1>1, <2>1, InvFacts DEF CallsBounded
<1>5. FilesSound'
  <2>1. /\ Complete' = Complete /\ Manifest' = Manifest
        /\ \A f \in Sealed : Content(f)' = Content(f)
    BY <1>1, ContentKept
  <2>2. \A f : Content(f)' = Content(f)
    BY <1>1, <2>1, ContentAll
  <2>3. WriterSound' = WriterSound
    BY <1>1, <2>1, <2>2 DEF WriterSound
  <2>4. Bundle' = Bundle
    BY <1>1, <2>1, <2>2 DEF Bundle
  <2>. QED BY <1>1, <2>3, <2>4, InvFacts DEF FilesSound
<1>. QED BY <1>2, <1>3, <1>4, <1>5, InvFacts DEF TeacherInv

LEMMA StartIsSound ==
  ASSUME TeacherInv, Start
  PROVE  TeacherInv'
<1>1. /\ UNCHANGED <<mode, log, files, stops>> /\ torn' = torn /\ calls' = calls
      /\ files["manifest"] = Absent /\ ~torn /\ pc = "idle" /\ batch' = batch
      /\ pc' = IF mode = "smoke" THEN "mock" ELSE "next"
      /\ todo' = InOrder(Missing)
  BY DEF Start, disk, Loadable
<1>2. batch = <<>>
  BY <1>1, InvFacts DEF BatchSound
<1>3. Successful' = Successful
  BY <1>1, LogKept
<1>4. TodoSound'
  <2>1. Missing \in SUBSET Ids /\ \A id \in Missing : id \notin Successful
    BY DEF Missing
  <2>2. /\ InOrder(Missing) \in Seq(Missing)
        /\ \A i, j \in DOMAIN InOrder(Missing) : InOrder(Missing)[i] = InOrder(Missing)[j] => i = j
    BY <2>1, InOrderSound
  <2>3. InOrder(Missing) \in Seq(Ids) /\ \A k \in DOMAIN InOrder(Missing) : InOrder(Missing)[k] \in Missing
    BY <2>1, <2>2
  <2>4. DOMAIN batch' = {}
    BY <1>1, <1>2
  <2>. QED BY <1>1, <1>3, <2>1, <2>2, <2>3, <2>4 DEF TodoSound
<1>5. ProcessSound'
  BY <1>1, <1>2, <1>4, InvFacts DEF ProcessSound, BatchSound, Steps
<1>6. CallsBounded'
  <2>1. InFlight' = InFlight
    BY <1>1 DEF InFlight
  <2>. QED BY <1>1, <2>1, InvFacts DEF CallsBounded
<1>. QED BY <1>1, <1>5, <1>6, WorkingIsSound

LEMMA MockGenerateIsSound ==
  ASSUME TeacherInv, MockGenerate
  PROVE  TeacherInv'
<1> DEFINE q == MockRecords
<1>1. /\ pc = "mock" /\ log' = log \o q /\ pc' = "next" /\ todo' = <<>> /\ batch' = batch
      /\ mode' = mode /\ torn' = torn /\ ledger' = ledger /\ files' = files
      /\ calls' = calls /\ stops' = stops
  BY DEF MockGenerate
<1>2. mode = "smoke" /\ batch = <<>> /\ ~torn
  BY <1>1, InvFacts DEF ProcessSound, BatchSound
<1>3. Fresh(q) /\ Appends(q)
  BY <1>1, MockFresh DEF Appends
<1> HIDE DEF q
<1>4. LogSound' /\ CostCapped'
  BY <1>2, <1>3, InvFacts, LogGrows, AppendKeepsCap
<1>5. ProcessSound'
  <2>1. TodoSound'
    BY <1>1 DEF TodoSound
  <2>2. BatchSound'
    BY <1>1, <1>2 DEF BatchSound
  <2>. QED BY <1>1, <1>2, <2>1, <2>2, InvFacts DEF ProcessSound, Steps
<1>6. CallsBounded'
  <2>1. Len(log') = Len(log) + Len(q) /\ Len(q) \in Nat
    BY <1>1, <1>3, InvFacts DEF Fresh
  <2>2. Cardinality(DOMAIN batch) <= Len(q)
    <3>1. DOMAIN batch = {}
      BY <1>2
    <3>. QED BY <2>1, <3>1, FS_EmptySet
  <2>. QED BY <1>1, <1>2, <2>1, <2>2, InvFacts, CallsSettled
<1>7. FilesSound'
  BY <1>1, InvFacts, NoBundle, FilesUntouched
<1>. QED BY <1>4, <1>5, <1>6, <1>7 DEF TeacherInv

LEMMA RestOfSeq ==
  ASSUME NEW S, NEW q \in Seq(S), NEW m \in 0..Len(q)
  PROVE  LET r == SubSeq(q, m + 1, Len(q))
         IN  /\ r \in Seq(S) /\ Len(r) = Len(q) - m /\ DOMAIN r = 1..(Len(q) - m)
             /\ \A k \in 1..(Len(q) - m) : m + k \in DOMAIN q /\ r[k] = q[m + k]
<1> DEFINE r == SubSeq(q, m + 1, Len(q))
<1>1. Len(q) \in Nat /\ DOMAIN q = 1..Len(q) /\ m \in Nat /\ m <= Len(q)
  OBVIOUS
<1>2. r \in Seq(S) /\ Len(r) = Len(q) - m /\ \A k \in 1..(Len(q) - m) : r[k] = q[m + k]
  <2>1. m + 1 \in Int /\ Len(q) \in Int /\ \A i \in (m + 1)..Len(q) : q[i] \in S
    BY <1>1
  <2>2. /\ r \in Seq(S)
        /\ Len(r) = IF m + 1 <= Len(q) THEN Len(q) - (m + 1) + 1 ELSE 0
        /\ \A i \in 1..(Len(q) - (m + 1) + 1) : r[i] = q[m + 1 + i - 1]
    BY <2>1, SubSeqProperties
  <2> HIDE DEF r
  <2>3. Len(q) - (m + 1) + 1 = Len(q) - m /\ \A i \in Nat : m + 1 + i - 1 = m + i
    BY <1>1
  <2>4. Len(r) = Len(q) - m
    <3>1. Len(r) = IF m + 1 <= Len(q) THEN Len(q) - (m + 1) + 1 ELSE 0
      BY <2>2
    <3>2. ASSUME NEW l \in Nat, m <= l
          PROVE  (IF m + 1 <= l THEN l - (m + 1) + 1 ELSE 0) = l - m
      <4>1. m \in Nat
        BY <1>1
      <4>2. CASE m + 1 <= l
        BY <4>1, <4>2
      <4>3. CASE m = l
        BY <4>1, <4>3
      <4>. QED BY <3>2, <4>1, <4>2, <4>3
    <3>. QED BY <1>1, <3>1, <3>2
  <2>5. \A i \in 1..(Len(q) - m) : r[i] = q[m + i]
    <3> SUFFICES ASSUME NEW i \in 1..(Len(q) - m) PROVE r[i] = q[m + i]
      OBVIOUS
    <3>1. i \in Nat
      BY <1>1
    <3>. QED BY <2>2, <2>3, <3>1
  <2>. QED BY <2>2, <2>4, <2>5
<1>3. DOMAIN r = 1..(Len(q) - m)
  BY <1>2
<1> HIDE DEF r
<1>4. \A k \in 1..(Len(q) - m) : m + k \in DOMAIN q
  BY <1>1
<1>5. \A k \in 1..(Len(q) - m) : m + k \in DOMAIN q /\ r[k] = q[m + k]
  BY <1>2, <1>4
<1>. QED BY <1>2, <1>3, <1>5 DEF r

LEMMA SubmitBatchIsSound ==
  ASSUME TeacherInv, SubmitBatch
  PROVE  TeacherInv'
<1> DEFINE m == IF Len(todo) < Concurrency THEN Len(todo) ELSE Concurrency
<1>1. /\ pc = "next" /\ todo # <<>> /\ WithinPlan /\ pc' = "calling"
      /\ batch' = [id \in BatchIds |-> [tries |-> 0, result |-> "pending", answer |-> Absent]]
      /\ todo' = SubSeq(todo, Cardinality(BatchIds) + 1, Len(todo))
      /\ UNCHANGED <<mode, log, files, stops>> /\ torn' = torn /\ calls' = calls
  BY DEF SubmitBatch, disk
<1>2. /\ Concurrency \in Nat \ {0} /\ MaxRetries \in Nat \ {0}
  BY TeacherAssumption
<1>3. /\ todo \in Seq(Ids) /\ Len(todo) \in Nat /\ DOMAIN todo = 1..Len(todo)
      /\ \A j, k \in DOMAIN todo : todo[j] = todo[k] => j = k
      /\ \A k \in DOMAIN todo : todo[k] \notin Successful
  BY <1>1, InvFacts DEF TodoSound
<1>4. m \in Nat /\ m <= Concurrency /\ m <= Len(todo) /\ BatchIds = {todo[k] : k \in 1..m}
  BY <1>2, <1>3 DEF BatchIds
<1> HIDE DEF m
<1>5. IsFiniteSet(BatchIds) /\ Cardinality(BatchIds) = m
  <2> DEFINE g == [k \in 1..m |-> todo[k]]
  <2>1. IsFiniteSet(1..m) /\ Cardinality(1..m) = m
    BY <1>4, FS_Interval
  <2>2. \A k \in 1..m : k \in DOMAIN todo
    BY <1>3, <1>4
  <2>3. g \in [1..m -> BatchIds] /\ \A t \in BatchIds : \E k \in 1..m : g[k] = t
    BY <1>4
  <2>4. \A j, k \in 1..m : g[j] = g[k] => j = k
    BY <1>3, <2>2
  <2> HIDE DEF g
  <2>5. g \in Bijection(1..m, BatchIds)
    BY <2>3, <2>4 DEF Bijection, Injection, Surjection, IsInjective
  <2>6. ExistsBijection(1..m, BatchIds)
    BY <2>5 DEF ExistsBijection
  <2>7. IsFiniteSet(BatchIds) /\ Cardinality(BatchIds) = Cardinality(1..m)
    BY <2>1, <2>5, <2>6, FS_Bijection
  <2>. QED BY <2>1, <2>7
<1>6. DOMAIN batch' = BatchIds
  BY <1>1
<1>7. Successful' = Successful /\ RecordedCost' = RecordedCost
  BY <1>1, LogKept
<1>8. mode = "live"
  BY <1>1, InvFacts DEF ProcessSound
<1>9. BatchSound'
  <2>1. BatchIds \subseteq Ids \ Successful
    BY <1>3, <1>4
  <2>2. \A id \in BatchIds : batch'[id] = [tries |-> 0, result |-> "pending", answer |-> Absent]
    BY <1>1
  <2>3. \A id \in BatchIds : CallSound(batch'[id])
    BY <1>2, <2>2 DEF CallSound, Calls
  <2>4. RecordedCost' + Cardinality(BatchIds) * PlanningCost <= Budget
    BY <1>1, <1>7 DEF WithinPlan
  <2>5. batch' = [id \in BatchIds |-> batch'[id]]
    BY <1>1
  <2>6. DOMAIN batch' \subseteq Ids \ Successful' /\ Cardinality(DOMAIN batch') <= Concurrency
    BY <1>4, <1>5, <1>6, <1>7, <2>1
  <2>. QED BY <1>1, <1>6, <2>3, <2>4, <2>5, <2>6 DEF BatchSound
<1>10. TodoSound'
  <2>1. /\ todo' \in Seq(Ids) /\ DOMAIN todo' = 1..(Len(todo) - m)
        /\ \A k \in 1..(Len(todo) - m) : m + k \in DOMAIN todo /\ todo'[k] = todo[m + k]
    <3>1. m \in 0..Len(todo) /\ todo' = SubSeq(todo, m + 1, Len(todo))
      <4>1. todo' = SubSeq(todo, Cardinality(BatchIds) + 1, Len(todo))
        BY <1>1
      <4>2. m \in 0..Len(todo)
        BY <1>3, <1>4
      <4>. QED BY <1>5, <4>1, <4>2
    <3>. QED BY <1>3, <3>1, RestOfSeq
  <2>2. \A j, k \in DOMAIN todo' : todo'[j] = todo'[k] => j = k
    <3> SUFFICES ASSUME NEW j \in DOMAIN todo', NEW k \in DOMAIN todo', todo'[j] = todo'[k]
                 PROVE  j = k
      OBVIOUS
    <3>1. m + j \in DOMAIN todo /\ m + k \in DOMAIN todo /\ todo[m + j] = todo[m + k]
      BY <2>1
    <3>2. m + j = m + k
      BY <1>3, <3>1
    <3>. QED BY <1>3, <1>4, <2>1, <3>2
  <2>3. \A k \in DOMAIN todo' : todo'[k] \notin Successful
    BY <1>3, <2>1
  <2>4. \A k \in DOMAIN todo' : todo'[k] \notin BatchIds
    <3> SUFFICES ASSUME NEW k \in DOMAIN todo', NEW j \in 1..m, todo'[k] = todo[j]
                 PROVE  FALSE
      BY <1>4
    <3>1. j \in DOMAIN todo /\ m + k \in DOMAIN todo /\ todo[m + k] = todo[j]
      BY <1>3, <1>4, <2>1
    <3>2. m + k = j
      BY <1>3, <3>1
    <3>. QED BY <1>4, <2>1, <3>2
  <2>. QED BY <1>6, <1>7, <2>1, <2>2, <2>3, <2>4 DEF TodoSound
<1>11. ProcessSound'
  BY <1>1, <1>8, <1>9, <1>10, InvFacts DEF ProcessSound, Steps
<1>12. CallsBounded'
  <2>1. InFlight = 0 /\ calls <= MaxRetries * (Len(log) + Concurrency * stops) + InFlight
    BY <1>1, InvFacts, NoneInFlight DEF BatchSound, CallsBounded
  <2>2. InFlight' \in Nat
    BY <1>9, InFlightIsNatNext
  <2>3. calls \in Nat /\ MaxRetries * (Len(log) + Concurrency * stops) \in Nat
    BY <1>2, InvFacts
  <2>4. MaxRetries * (Len(log') + Concurrency * stops') = MaxRetries * (Len(log) + Concurrency * stops)
    BY <1>1
  <2>. QED BY <1>1, <2>1, <2>2, <2>3, <2>4 DEF CallsBounded
<1>13. files["manifest"] = Absent
  BY <1>1, InvFacts, NoBundle
<1>. QED BY <1>1, <1>11, <1>12, <1>13, WorkingIsSound

(* One request more of one call.                                           *)
LEMMA OneMoreTry ==
  ASSUME BatchSound, pc = "calling", NEW id \in DOMAIN batch, NEW c,
         c.tries = batch[id].tries + 1,
         batch' = [batch EXCEPT ![id] = c]
  PROVE  InFlight' = InFlight + 1 /\ InFlight \in Nat
<1> DEFINE D == DOMAIN batch
           e == [k \in D |-> batch[k].tries]
           f == [k \in D |-> batch'[k].tries]
<1>1. IsFiniteSet(D) /\ InFlight \in Nat
  BY BatchFacts
<1>2. DOMAIN batch' = D
  OBVIOUS
<1>3. InFlight = Total(e, D) /\ InFlight' = Total(f, D)
  BY <1>2 DEF InFlight
<1>4. \A k \in D : batch[k].tries \in Nat
  BY DEF BatchSound, CallSound, Calls
<1>5. e[id] \in Nat /\ f[id] = e[id] + 1 /\ \A k \in D \ {id} : f[k] = e[k]
  BY <1>4
<1>6. \A k \in D : e[k] \in Nat
  BY <1>4
<1>7. \A k \in D : f[k] \in Nat
  BY <1>4, <1>5, <1>6
<1> HIDE DEF D, e, f
<1>8. IsFiniteSet(D \ {id}) /\ id \in D
  BY <1>1, FS_RemoveElement DEF D
<1>9. Total(e, D) = Total(e, D \ {id}) + e[id] /\ Total(e, D \ {id}) \in Nat
  <2>1. SumFacts(e, D) /\ SumFacts(e, D \ {id})
    BY <1>1, <1>6, <1>8, TotalFacts
  <2>. QED BY <1>8, <2>1 DEF SumFacts
<1>10. Total(f, D) = Total(f, D \ {id}) + f[id]
  <2>1. SumFacts(f, D)
    BY <1>1, <1>7, TotalFacts
  <2>. QED BY <1>8, <2>1 DEF SumFacts
<1>11. Total(f, D \ {id}) = Total(e, D \ {id})
  BY <1>5, <1>8, TotalAgrees
<1>. QED BY <1>1, <1>3, <1>5, <1>9, <1>10, <1>11

(* A request raises the count of calls by at most the try it uses up.      *)
LEMMA RequestIsSound ==
  ASSUME TeacherInv, NEW id \in DOMAIN batch, Request(id)
  PROVE  TeacherInv'
<1>1. /\ pc = "calling" /\ batch[id].result = "pending"
      /\ UNCHANGED <<mode, log, files, stops>> /\ torn' = torn
      /\ pc' = pc /\ todo' = todo
  BY DEF Request, Pending, disk
<1>2. /\ BatchSound /\ \A k \in DOMAIN batch : CallSound(batch[k])
      /\ MaxRetries \in Nat
  BY <1>1, InvFacts, TeacherAssumption DEF BatchSound
<1>3. /\ batch[id] \in Calls /\ batch[id].tries \in Nat /\ batch[id].tries < MaxRetries
  BY <1>1, <1>2 DEF CallSound, Calls
<1>4. calls' \in {calls, calls + 1}
  BY DEF Request, Served
<1>5. PICK c : batch' = [batch EXCEPT ![id] = c] /\ CallSound(c) /\ c.tries = batch[id].tries + 1
  <2>1. \A r \in {"pending", "ok", "request_failed", "raised"} :
          /\ Ended(batch[id], r) \in Calls /\ Ended(batch[id], r).tries = batch[id].tries + 1
          /\ Ended(batch[id], r).result = r
    <3> SUFFICES ASSUME NEW r \in {"pending", "ok", "request_failed", "raised"}
                 PROVE  /\ Ended(batch[id], r) \in Calls
                        /\ Ended(batch[id], r).tries = batch[id].tries + 1
                        /\ Ended(batch[id], r).result = r
      OBVIOUS
    <3>1. Ended(batch[id], r) = [tries |-> batch[id].tries + 1, result |-> r,
                                 answer |-> batch[id].answer]
      <4>1. PICK t, u, v : t \in Nat /\ batch[id] = [tries |-> t, result |-> u, answer |-> v]
        BY <1>3 DEF Calls
      <4>2. batch[id].tries = t /\ batch[id].answer = v
        BY <4>1
      <4>3. Ended(batch[id], r) = [tries |-> t + 1, result |-> r, answer |-> v]
        <5> DEFINE d == [batch[id] EXCEPT !.tries = @ + 1]
        <5>1. d = [tries |-> t + 1, result |-> u, answer |-> v]
          BY <4>1
        <5>2. Ended(batch[id], r) = [d EXCEPT !.result = r]
          BY DEF Ended
        <5> HIDE DEF d
        <5>3. [d EXCEPT !.result = r] = [tries |-> t + 1, result |-> r, answer |-> v]
          BY <5>1
        <5>. QED BY <5>2, <5>3
      <4>. QED BY <4>2, <4>3
    <3>2. batch[id].answer \in Answers \cup {Absent} /\ batch[id].tries + 1 \in Nat
      BY <1>3 DEF Calls
    <3>. QED BY <3>1, <3>2 DEF Calls
  <2>2. CASE \E a \in Answers : batch' = [batch EXCEPT ![id] = Answered(@, a)]
    <3>1. PICK a \in Answers : batch' = [batch EXCEPT ![id] = Answered(batch[id], a)]
      BY <2>2
    <3>2. /\ Answered(batch[id], a) \in Calls /\ Answered(batch[id], a).tries = batch[id].tries + 1
          /\ Answered(batch[id], a).result = "ok" /\ Answered(batch[id], a).answer = a
      BY <2>1 DEF Answered, Calls
    <3>3. CallSound(Answered(batch[id], a))
      BY <1>2, <1>3, <3>2 DEF CallSound
    <3>. QED BY <3>1, <3>2, <3>3
  <2>3. CASE batch' = [batch EXCEPT ![id] = Retried(@)]
    <3>1. CallSound(Retried(batch[id])) /\ Retried(batch[id]).tries = batch[id].tries + 1
      BY <1>2, <1>3, <2>1 DEF Retried, CallSound
    <3>2. batch' = [batch EXCEPT ![id] = Retried(batch[id])]
      BY <2>3
    <3>. QED BY <3>1, <3>2
  <2>4. CASE batch' = [batch EXCEPT ![id] = Ended(@, "raised")]
    <3>1. CallSound(Ended(batch[id], "raised"))
      BY <1>2, <1>3, <2>1 DEF CallSound
    <3>2. batch' = [batch EXCEPT ![id] = Ended(batch[id], "raised")]
      BY <2>4
    <3>. QED BY <2>1, <3>1, <3>2
  <2>5. CASE batch' = [batch EXCEPT ![id] = Ended(@, "request_failed")]
    <3>1. CallSound(Ended(batch[id], "request_failed"))
      BY <1>2, <1>3, <2>1 DEF CallSound
    <3>2. batch' = [batch EXCEPT ![id] = Ended(batch[id], "request_failed")]
      BY <2>5
    <3>. QED BY <2>1, <3>1, <3>2
  <2>. QED BY <2>2, <2>3, <2>4, <2>5 DEF Request
<1>6. Successful' = Successful /\ RecordedCost' = RecordedCost
  BY <1>1, LogKept
<1>7. DOMAIN batch' = DOMAIN batch
  BY <1>5
<1>8. BatchSound'
  <2>1. \A k \in DOMAIN batch : CallSound(batch'[k])
    BY <1>2, <1>5
  <2>2. batch' = [k \in DOMAIN batch |-> batch'[k]]
    BY <1>5
  <2>. QED BY <1>1, <1>2, <1>6, <1>7, <2>1, <2>2 DEF BatchSound
<1>9. ProcessSound'
  BY <1>1, <1>4, <1>6, <1>7, <1>8, InvFacts DEF ProcessSound, TodoSound
<1>10. CallsBounded'
  <2>1. InFlight' = InFlight + 1 /\ InFlight \in Nat
    BY <1>1, <1>2, <1>5, OneMoreTry
  <2>2. calls <= MaxRetries * (Len(log) + Concurrency * stops) + InFlight /\ calls \in Nat
    BY InvFacts DEF CallsBounded
  <2>3. MaxRetries * (Len(log) + Concurrency * stops) \in Nat
    BY InvFacts, TeacherAssumption
  <2>4. MaxRetries * (Len(log') + Concurrency * stops') = MaxRetries * (Len(log) + Concurrency * stops)
    BY <1>1
  <2>. QED BY <1>4, <2>1, <2>2, <2>3, <2>4 DEF CallsBounded
<1>11. files["manifest"] = Absent
  BY <1>1, InvFacts, NoBundle
<1>. QED BY <1>1, <1>9, <1>10, <1>11, WorkingIsSound

LEMMA AppendLength ==
  ASSUME NEW q, log \in Seq(LogRecord), Fresh(q), Appends(q)
  PROVE  Len(log') = Len(log) + Len(q) /\ Len(q) \in Nat
<1>1. q \in Seq(LogRecord)
  BY DEF Fresh
<1>2. log' = log \o q
  BY DEF Appends
<1>. QED BY <1>1, <1>2

LEMMA AppendBatchIsSound ==
  ASSUME TeacherInv, AppendBatch
  PROVE  TeacherInv'
<1> DEFINE q == BatchRecords
<1>1. /\ Resolved /\ ~SomeRaised /\ pc = "calling" /\ log' = log \o q
      /\ pc' = "appended" /\ batch' = <<>> /\ todo' = todo
      /\ mode' = mode /\ torn' = torn /\ ledger' = ledger /\ files' = files
      /\ calls' = calls /\ stops' = stops
  BY DEF AppendBatch, Resolved
<1>2. mode = "live" /\ ~torn
  BY <1>1, InvFacts DEF ProcessSound
<1>3. /\ Fresh(q) /\ Appends(q) /\ Len(q) = Cardinality(DOMAIN batch)
      /\ \A k \in DOMAIN q : q[k].id \in DOMAIN batch /\ (q[k].cost <= CostliestCall \/ q[k].cost = 0)
  BY <1>1, BatchFresh DEF Appends
<1>4. Cardinality(DOMAIN batch) \in Nat
  BY InvFacts, BatchFacts
<1> HIDE DEF q
<1>5. LogSound' /\ Successful' = Successful \cup OkIds(q)
  BY <1>3, InvFacts, LogGrows
<1>6. CostCapped'
  <2>1. Len(q) <= Cardinality(DOMAIN batch)
    BY <1>3, <1>4
  <2>. QED BY <1>1, <1>3, <2>1, AppendKeepsCap
<1>7. TodoSound'
  <2>1. /\ todo \in Seq(Ids)
        /\ \A j, k \in DOMAIN todo : todo[j] = todo[k] => j = k
        /\ \A k \in DOMAIN todo : todo[k] \notin Successful \cup DOMAIN batch
    BY <1>1, InvFacts DEF TodoSound
  <2>2. OkIds(q) \subseteq DOMAIN batch
    BY <1>3 DEF OkIds
  <2>3. DOMAIN batch' = {}
    BY <1>1
  <2>. QED BY <1>1, <1>5, <2>1, <2>2, <2>3 DEF TodoSound
<1>8. ProcessSound'
  <2>1. BatchSound'
    BY <1>1 DEF BatchSound
  <2>. QED BY <1>1, <1>2, <1>7, <2>1, InvFacts DEF ProcessSound, Steps
<1>9. CallsBounded'
  <2>1. Len(log') = Len(log) + Len(q) /\ Len(q) \in Nat
    BY <1>3, InvFacts, AppendLength
  <2>2. Cardinality(DOMAIN batch) <= Len(q)
    BY <1>3, <2>1
  <2>. QED BY <1>1, <2>1, <2>2, InvFacts, CallsSettled
<1>10. FilesSound'
  BY <1>1, InvFacts, NoBundle, FilesUntouched
<1>. QED BY <1>5, <1>6, <1>8, <1>9, <1>10 DEF TeacherInv

LEMMA CheckpointIsSound ==
  ASSUME TeacherInv, Checkpoint
  PROVE  TeacherInv'
<1>1. /\ pc = "appended" /\ UNCHANGED <<mode, log, torn, files, calls>>
  BY DEF Checkpoint
<1>2. CASE RecordedCost > Budget
  BY <1>1, <1>2, StoppedIsSound DEF Checkpoint
<1>3. CASE ~(RecordedCost > Budget)
  <2>1. pc' = "next" /\ todo' = todo /\ batch' = batch /\ stops' = stops
    BY <1>3 DEF Checkpoint
  <2>2. mode = "live" /\ batch = <<>>
    BY <1>1, InvFacts DEF ProcessSound, BatchSound
  <2>3. Successful' = Successful
    BY <1>1, LogKept
  <2>4. TodoSound' /\ BatchSound'
    BY <1>1, <2>1, <2>2, <2>3, InvFacts DEF TodoSound, BatchSound
  <2>5. ProcessSound'
    BY <1>1, <2>1, <2>2, <2>4, InvFacts DEF ProcessSound, Steps
  <2>6. CallsBounded'
    <3>1. InFlight' = InFlight
      BY <2>1 DEF InFlight
    <3>. QED BY <1>1, <2>1, <3>1, InvFacts DEF CallsBounded
  <2>7. files["manifest"] = Absent
    BY <1>1, InvFacts, NoBundle
  <2>. QED BY <1>1, <2>1, <2>5, <2>6, <2>7, WorkingIsSound
<1>. QED BY <1>2, <1>3

(* The order of the writes.                                                *)
LEMMA WriteOrderFacts ==
  /\ WriteOrder \in Seq(Files) /\ Len(WriteOrder) = 9 /\ DOMAIN WriteOrder = 1..9
  /\ \A k \in 1..9 : WriteOrder[k] \in Files
  /\ WriteOrder[8] = "manifest" /\ WriteOrder[9] = "tracked_manifest"
  /\ \A k \in 1..7 : WriteOrder[k] \in Sealed
  /\ \A f \in Sealed : \E k \in 1..7 : f = WriteOrder[k]
  /\ \A j, k \in 1..9 : WriteOrder[j] = WriteOrder[k] => j = k
  /\ "manifest" \in Files /\ "tracked_manifest" \in Files
  /\ Sealed \subseteq Files \ {"manifest", "tracked_manifest"}
<1>1. WriteOrder = <<"filter_funnel_log", "sft_rule", "sft_distilled", "dpo_pairs", "quarantine",
                     "cost_ledger", "data_card", "manifest", "tracked_manifest">>
  BY DEF WriteOrder
<1>2. Len(WriteOrder) = 9 /\ DOMAIN WriteOrder = 1..9
  BY <1>1
<1>3. /\ WriteOrder[1] = "filter_funnel_log" /\ WriteOrder[2] = "sft_rule"
      /\ WriteOrder[3] = "sft_distilled" /\ WriteOrder[4] = "dpo_pairs"
      /\ WriteOrder[5] = "quarantine" /\ WriteOrder[6] = "cost_ledger"
      /\ WriteOrder[7] = "data_card" /\ WriteOrder[8] = "manifest"
      /\ WriteOrder[9] = "tracked_manifest"
  BY <1>1
<1>4. \A k \in 1..9 : k \in {1, 2, 3, 4, 5, 6, 7, 8, 9}
  OBVIOUS
<1>5. Files = {"filter_funnel_log", "sft_rule", "sft_distilled", "dpo_pairs", "quarantine",
               "cost_ledger", "data_card", "manifest", "tracked_manifest"}
  BY <1>2, <1>3, <1>4 DEF Files
<1>6. \A j, k \in 1..9 : WriteOrder[j] = WriteOrder[k] => j = k
  BY <1>3, <1>4
<1>7. \A k \in 1..9 : WriteOrder[k] \in Files
  BY <1>3, <1>4, <1>5
<1>8. WriteOrder \in Seq(Files)
  BY <1>1, <1>5
<1>9. /\ \A k \in 1..7 : WriteOrder[k] \in Sealed
      /\ \A f \in Sealed : \E k \in 1..7 : f = WriteOrder[k]
  <2>1. Sealed = {"filter_funnel_log", "sft_rule", "sft_distilled", "dpo_pairs", "quarantine",
                  "cost_ledger", "data_card"}
    BY <1>5 DEF Sealed
  <2>2. \A k \in 1..7 : k \in {1, 2, 3, 4, 5, 6, 7}
    OBVIOUS
  <2>. QED BY <1>3, <2>1, <2>2
<1>. QED BY <1>2, <1>3, <1>5, <1>6, <1>7, <1>8, <1>9 DEF Sealed

LEMMA FinishIsSound ==
  ASSUME TeacherInv, Finish
  PROVE  TeacherInv'
<1>1. /\ pc = "next" /\ ledger' = Ledger(FinalStatus)
      /\ UNCHANGED <<mode, log, torn, files, calls>>
  BY DEF Finish
<1>2. CASE ~(ledger'.status = "complete" /\ ledger'.within_budget)
  BY <1>1, <1>2, StoppedIsSound DEF Finish
<1>3. CASE ledger'.status = "complete" /\ ledger'.within_budget
  <2>1. pc' = "write" /\ todo' = WriteOrder /\ batch' = batch /\ stops' = stops
    BY <1>3 DEF Finish
  <2>2. batch = <<>> /\ files["manifest"] = Absent
    BY <1>1, InvFacts, NoBundle DEF BatchSound
  <2>3. LogSound' /\ CostCapped' /\ Missing' = Missing
    BY <1>1, InvFacts, LogKept
  <2>4. ProcessSound'
    BY <1>1, <2>1, <2>2, InvFacts DEF ProcessSound, TodoSound, BatchSound, Steps
  <2>5. CallsBounded'
    <3>1. InFlight' = InFlight
      BY <2>1 DEF InFlight
    <3>. QED BY <1>1, <2>1, <3>1, InvFacts DEF CallsBounded
  <2>6. Complete'
    <3>1. FinalStatus = "complete" /\ Missing = {}
      <4>1. ledger'.status = FinalStatus
        BY <1>1 DEF Ledger
      <4>. QED BY <1>3, <4>1 DEF FinalStatus
    <3>2. Ledger("complete")' = Ledger("complete")
      BY <1>1, LogKept, LedgerKept
    <3>. QED BY <1>1, <1>3, <2>3, <3>1, <3>2 DEF Complete
  <2>7. WriterSound'
    <3>1. todo' = SubSeq(WriteOrder, 1, Len(WriteOrder)) /\ 1 \in DOMAIN WriteOrder
      BY <2>1, WriteOrderFacts
    <3>2. \A k \in 1..(1 - 1) : files'[WriteOrder[k]] = Content(WriteOrder[k])'
      OBVIOUS
    <3>. QED BY <1>1, <2>2, <2>6, <3>1, <3>2 DEF WriterSound
  <2>8. FilesSound'
    BY <1>1, <2>2, <2>7, InvFacts DEF FilesSound
  <2>. QED BY <2>3, <2>4, <2>5, <2>8 DEF TeacherInv
<1>. QED BY <1>2, <1>3

(* One file of the bundle: what is written before it stays what it was.    *)
LEMMA TodoOfWriter ==
  ASSUME NEW n \in DOMAIN WriteOrder, todo = SubSeq(WriteOrder, n, Len(WriteOrder))
  PROVE  /\ n \in 1..9 /\ Len(todo) = 10 - n /\ todo # <<>> /\ Head(todo) = WriteOrder[n]
         /\ n < 9 => Tail(todo) = SubSeq(WriteOrder, n + 1, Len(WriteOrder))
<1>1. n \in 1..9 /\ Len(WriteOrder) = 9 /\ WriteOrder \in Seq(Files) /\ n - 1 \in 0..9
  BY WriteOrderFacts
<1>2. /\ todo \in Seq(Files) /\ Len(todo) = 10 - n /\ DOMAIN todo = 1..(10 - n)
      /\ \A k \in 1..(10 - n) : todo[k] = WriteOrder[n - 1 + k]
  <2> DEFINE m == n - 1
             r == SubSeq(WriteOrder, m + 1, Len(WriteOrder))
  <2>1. m \in 0..Len(WriteOrder)
    BY <1>1
  <2>2. /\ r \in Seq(Files) /\ Len(r) = Len(WriteOrder) - m /\ DOMAIN r = 1..(Len(WriteOrder) - m)
        /\ \A k \in 1..(Len(WriteOrder) - m) : r[k] = WriteOrder[m + k]
    BY <1>1, <2>1, RestOfSeq
  <2>3. m + 1 = n /\ Len(WriteOrder) - m = 10 - n
    BY <1>1
  <2>4. r = todo
    BY <2>3
  <2> HIDE DEF r
  <2>. QED BY <2>2, <2>3, <2>4
<1>3. todo # <<>> /\ Head(todo) = WriteOrder[n]
  <2>1. Len(todo) > 0 /\ 1 \in 1..(10 - n) /\ n - 1 + 1 = n
    BY <1>1, <1>2
  <2>2. todo # <<>> /\ Head(todo) = todo[1]
    BY <1>2, <2>1
  <2>. QED BY <1>2, <2>1, <2>2
<1>4. ASSUME n < 9
      PROVE  Tail(todo) = SubSeq(WriteOrder, n + 1, Len(WriteOrder))
  <2> DEFINE t == Tail(todo)
             r == SubSeq(WriteOrder, n + 1, Len(WriteOrder))
  <2>1. /\ t \in Seq(Files) /\ Len(t) = 9 - n
        /\ \A k \in 1..(9 - n) : t[k] = todo[k + 1]
    <3>1. t \in Seq(Files) /\ Len(t) = Len(todo) - 1 /\ \A k \in 1..Len(t) : t[k] = todo[k + 1]
      BY <1>2, <1>3, HeadTailProperties
    <3>2. Len(todo) - 1 = 9 - n
      BY <1>1, <1>2
    <3>. QED BY <3>1, <3>2
  <2>2. /\ r \in Seq(Files) /\ Len(r) = 9 - n
        /\ \A k \in 1..(9 - n) : r[k] = WriteOrder[n + k]
    <3>1. n \in 0..Len(WriteOrder)
      BY <1>1
    <3>. QED BY <1>1, <3>1, RestOfSeq
  <2>3. \A k \in 1..(9 - n) : t[k] = r[k]
    <3> SUFFICES ASSUME NEW k \in 1..(9 - n) PROVE t[k] = r[k]
      OBVIOUS
    <3>1. k + 1 \in 1..(10 - n) /\ n - 1 + (k + 1) = n + k
      BY <1>1
    <3>2. todo[k + 1] = WriteOrder[n + k]
      BY <1>2, <3>1
    <3>. QED BY <2>1, <2>2, <3>2
  <2>4. Len(t) = Len(r) /\ DOMAIN t = 1..Len(t) /\ DOMAIN r = 1..Len(r)
    BY <2>1, <2>2
  <2> HIDE DEF t, r
  <2>5. t = r
    BY <2>1, <2>2, <2>3, <2>4, SeqEqual
  <2>. QED BY <2>5 DEF t, r
<1>. QED BY <1>1, <1>2, <1>3, <1>4

LEMMA ManifestContent ==
  Content("manifest") = Manifest /\ Content("tracked_manifest") = Manifest
  /\ "manifest" \notin Corpora
BY DEF Content, Corpora

LEMMA ManifestContentNext == Content("manifest")' = Manifest'
BY DEF Content, Corpora

LEMMA WriteFileIsSound ==
  ASSUME TeacherInv, WriteFile
  PROVE  TeacherInv'
<1>1. /\ pc = "write" /\ todo # <<>>
      /\ files' = [files EXCEPT ![Head(todo)] = Content(Head(todo))]
      /\ mode' = mode /\ log' = log /\ torn' = torn /\ ledger' = ledger
      /\ calls' = calls /\ stops' = stops
  BY DEF WriteFile
<1>2. Complete /\ torn = FALSE /\ batch = <<>>
  BY <1>1, InvFacts DEF FilesSound, WriterSound, ProcessSound, BatchSound
<1>3. PICK n \in DOMAIN WriteOrder :
        /\ todo = SubSeq(WriteOrder, n, Len(WriteOrder))
        /\ \A k \in 1..(n - 1) : files[WriteOrder[k]] = Content(WriteOrder[k])
        /\ n < Len(WriteOrder) => files["manifest"] = Absent
  BY <1>1, InvFacts DEF FilesSound, WriterSound
<1>4. /\ n \in 1..9 /\ Len(todo) = 10 - n /\ Head(todo) = WriteOrder[n]
      /\ n < 9 => Tail(todo) = SubSeq(WriteOrder, n + 1, Len(WriteOrder))
  BY <1>3, TodoOfWriter
<1> DEFINE f == WriteOrder[n]
<1>5. files' = [files EXCEPT ![f] = Content(f)] /\ f \in Files
  BY <1>1, <1>4, WriteOrderFacts
<1> HIDE DEF f
<1>6. /\ files' = [g \in Files |-> files'[g]]
      /\ files'[f] = Content(f)
      /\ \A g \in Files : g # f => files'[g] = files[g]
  <2>1. files = [g \in Files |-> files[g]]
    BY InvFacts DEF FilesSound
  <2>. QED BY <1>5, <2>1
<1>7. /\ Complete' /\ \A g \in Sealed : Content(g)' = Content(g)
      /\ LogSound' /\ CostCapped'
  BY <1>1, <1>2, InvFacts, ContentKept, LogKept
<1>8. CASE n < 9
  <2>1. pc' = "write" /\ todo' = SubSeq(WriteOrder, n + 1, Len(WriteOrder)) /\ batch' = batch
    <3>1. Len(todo) # 1
      BY <1>4, <1>8
    <3>. QED BY <1>4, <1>8, <3>1, <1>1 DEF WriteFile
  <2>2. ProcessSound'
    BY <1>1, <1>2, <2>1, InvFacts DEF ProcessSound, TodoSound, BatchSound, Steps
  <2>3. CallsBounded'
    <3>1. InFlight' = InFlight
      BY <2>1 DEF InFlight
    <3>. QED BY <1>1, <3>1, InvFacts DEF CallsBounded
  <2>4. /\ files["manifest"] = Absent /\ files["tracked_manifest"] = Absent
    BY <1>3, <1>8, WriteOrderFacts, InvFacts DEF FilesSound
  <2>5. files'["tracked_manifest"] = Absent
    <3>1. f # "tracked_manifest"
      BY <1>4, <1>8, WriteOrderFacts DEF f
    <3>. QED BY <1>6, <2>4, <3>1, WriteOrderFacts
  <2>6. \A k \in 1..n : k < 8 => files'[WriteOrder[k]] = Content(WriteOrder[k])'
    <3> SUFFICES ASSUME NEW k \in 1..n, k < 8
                 PROVE  files'[WriteOrder[k]] = Content(WriteOrder[k])'
      OBVIOUS
    <3>1. k \in 1..7 /\ WriteOrder[k] \in Sealed /\ WriteOrder[k] \in Files
      BY <1>4, WriteOrderFacts
    <3>2. Content(WriteOrder[k])' = Content(WriteOrder[k])
      BY <1>7, <3>1
    <3>3. files'[WriteOrder[k]] = Content(WriteOrder[k])
      <4>1. CASE k = n
        BY <1>6, <4>1 DEF f
      <4>2. CASE k # n
        <5>1. k \in 1..(n - 1) /\ WriteOrder[k] # f
          BY <1>4, <3>1, <4>2, WriteOrderFacts DEF f
        <5>. QED BY <1>3, <1>6, <3>1, <5>1
      <4>. QED BY <4>1, <4>2
    <3>. QED BY <3>2, <3>3
  <2>7. CASE n < 8
    <3>1. f # "manifest"
      BY <1>4, <2>7, WriteOrderFacts DEF f
    <3>2. files'["manifest"] = Absent
      BY <1>6, <2>4, <3>1, WriteOrderFacts
    <3>3. WriterSound'
      <4> DEFINE m == n + 1
      <4>1. m \in DOMAIN WriteOrder /\ todo' = SubSeq(WriteOrder, m, Len(WriteOrder))
        BY <2>1, <2>7, <1>4, WriteOrderFacts
      <4>2. \A k \in 1..(m - 1) : files'[WriteOrder[k]] = Content(WriteOrder[k])'
        BY <1>4, <2>6, <2>7
      <4> HIDE DEF m
      <4>. QED BY <1>7, <3>2, <4>1, <4>2 DEF WriterSound
    <3>4. FilesSound'
      BY <1>6, <2>5, <3>2, <3>3 DEF FilesSound
    <3>. QED BY <1>7, <2>2, <2>3, <3>4 DEF TeacherInv
  <2>8. CASE n = 8
    <3>1. f = "manifest"
      BY <2>8, WriteOrderFacts DEF f
    <3>2. Content("manifest") = Manifest /\ "manifest" \notin Corpora
      BY ManifestContent
    <3>3. \A g \in Sealed : files'[g] = files[g]
      BY <1>6, <3>1, WriteOrderFacts
    <3>4. Manifest' = Manifest /\ files'["manifest"] = Manifest
      BY <1>1, <1>6, <3>1, <3>2, <3>3, ContentKept
    <3>5. \A g \in Sealed : files'[g] = Content(g)'
      <4> SUFFICES ASSUME NEW g \in Sealed PROVE files'[g] = Content(g)'
        OBVIOUS
      <4>1. PICK k \in 1..7 : g = WriteOrder[k]
        BY WriteOrderFacts
      <4>2. k \in 1..n /\ k < 8
        BY <2>8
      <4>. QED BY <2>6, <4>1, <4>2
    <3>6. Bundle'
      BY <1>1, <1>2, <1>7, <3>4, <3>5 DEF Bundle
    <3>7. Len(todo') = 1
      <4>1. 9 \in DOMAIN WriteOrder /\ n + 1 = 9
        BY <2>8, WriteOrderFacts
      <4>2. 8 \in 0..Len(WriteOrder) /\ WriteOrder \in Seq(Files) /\ Len(WriteOrder) = 9
        BY WriteOrderFacts
      <4>3. Len(SubSeq(WriteOrder, 8 + 1, Len(WriteOrder))) = Len(WriteOrder) - 8
        BY <4>2, RestOfSeq
      <4>. QED BY <2>1, <4>1, <4>2, <4>3
    <3>8. WriterSound'
      <4> DEFINE m == n + 1
      <4>1. /\ m \in DOMAIN WriteOrder /\ ~(m < Len(WriteOrder))
            /\ todo' = SubSeq(WriteOrder, m, Len(WriteOrder))
        BY <2>1, <2>8, WriteOrderFacts
      <4>2. \A k \in 1..(m - 1) : files'[WriteOrder[k]] = Content(WriteOrder[k])'
        <5> SUFFICES ASSUME NEW k \in 1..8 PROVE files'[WriteOrder[k]] = Content(WriteOrder[k])'
          BY <2>8
        <5>1. CASE k < 8
          BY <2>6, <2>8, <5>1
        <5>2. CASE k = 8
          <6>1. WriteOrder[k] = "manifest"
            BY <5>2, WriteOrderFacts
          <6>2. Content("manifest")' = Manifest'
            BY ManifestContentNext
          <6>. QED BY <3>4, <6>1, <6>2
        <5>. QED BY <5>1, <5>2
      <4> HIDE DEF m
      <4>. QED BY <1>7, <4>1, <4>2 DEF WriterSound
    <3>9. FilesSound'
      BY <1>6, <2>1, <2>5, <3>6, <3>7, <3>8 DEF FilesSound
    <3>. QED BY <1>7, <2>2, <2>3, <3>9 DEF TeacherInv
  <2>. QED BY <1>4, <1>8, <2>7, <2>8
<1>9. CASE n = 9
  <2>1. pc' = "idle" /\ todo' = <<>> /\ batch' = <<>>
    <3>1. Len(todo) = 1
      BY <1>4, <1>9
    <3>. QED BY <3>1 DEF WriteFile, Exit
  <2>2. f = "tracked_manifest"
    BY <1>9, WriteOrderFacts DEF f
  <2>3. ProcessSound'
    BY <1>1, <1>2, <2>1, InvFacts DEF ProcessSound, TodoSound, BatchSound, Steps
  <2>4. CallsBounded'
    <3>1. InFlight' = InFlight
      BY <1>2, <2>1 DEF InFlight
    <3>. QED BY <1>1, <3>1, InvFacts DEF CallsBounded
  <2>5. \A g \in Sealed : files'[g] = files[g]
    BY <1>6, <2>2, WriteOrderFacts
  <2>6. \A k \in 1..8 : files[WriteOrder[k]] = Content(WriteOrder[k])
    BY <1>3, <1>9
  <2>7. files["manifest"] = Manifest /\ files'["manifest"] = Manifest /\ Manifest' = Manifest
    <3>1. files["manifest"] = Manifest
      BY <2>6, WriteOrderFacts, ManifestContent
    <3>2. files'["manifest"] = files["manifest"]
      BY <1>6, <2>2, WriteOrderFacts
    <3>. QED BY <1>1, <2>5, <3>1, <3>2, ContentKept
  <2>8. files'["tracked_manifest"] = Manifest
    BY <1>6, <2>2, ManifestContent
  <2>9. Bundle'
    <3>1. \A g \in Sealed : files'[g] = Content(g)'
      <4> SUFFICES ASSUME NEW g \in Sealed PROVE files'[g] = Content(g)'
        OBVIOUS
      <4>1. PICK k \in 1..7 : g = WriteOrder[k]
        BY WriteOrderFacts
      <4>2. files[g] = Content(g)
        BY <2>6, <4>1
      <4>. QED BY <1>7, <2>5, <4>2
    <3>. QED BY <1>1, <1>2, <1>7, <2>7, <3>1 DEF Bundle
  <2>10. FilesSound'
    BY <1>6, <2>1, <2>7, <2>8, <2>9 DEF FilesSound, WriterSound
  <2>. QED BY <1>7, <2>3, <2>4, <2>10 DEF TeacherInv
<1>. QED BY <1>4, <1>8, <1>9

(* An append that is cut short leaves a part of its records.               *)
LEMMA KillAppendingIsSound ==
  ASSUME TeacherInv, KillAppending
  PROVE  TeacherInv'
<1>1. /\ mode' = mode /\ ledger' = ledger /\ files' = files /\ calls' = calls
      /\ pc' = "idle" /\ todo' = <<>> /\ batch' = <<>> /\ stops' = stops + 1 /\ torn' \in BOOLEAN
  BY DEF KillAppending, Raise, Exit, Appending
<1>2. PICK q : /\ Fresh(q)
               /\ \E n \in 0..(Len(q) - 1) : log' = log \o SubSeq(q, 1, n)
               /\ \/ mode = "smoke"
                  \/ /\ pc = "calling" /\ Len(q) = Cardinality(DOMAIN batch)
                     /\ \A k \in DOMAIN q : q[k].cost <= CostliestCall \/ q[k].cost = 0
               /\ pc \notin {"idle", "write"}
  <2>1. CASE pc = "mock" /\ Appending(MockRecords)
    <3>1. mode = "smoke"
      BY <2>1, InvFacts DEF ProcessSound
    <3>. QED BY <2>1, <3>1, MockFresh DEF Appending
  <2>2. CASE Resolved /\ ~SomeRaised /\ Appending(BatchRecords)
    <3>1. pc = "calling"
      BY <2>2 DEF Resolved
    <3>. QED BY <2>2, <3>1, BatchFresh DEF Appending
  <2>. QED BY <2>1, <2>2 DEF KillAppending
<1>3. PICK n \in 0..(Len(q) - 1) : log' = log \o SubSeq(q, 1, n)
  BY <1>2
<1>4. n \in 0..Len(q) /\ n <= Len(q)
  <2>1. Len(q) \in Nat
    BY <1>2 DEF Fresh
  <2>. QED BY <2>1
<1> DEFINE p == SubSeq(q, 1, n)
<1>5. /\ Fresh(p) /\ Len(p) = n
      /\ \A k \in DOMAIN p : k \in DOMAIN q /\ p[k] = q[k]
  BY <1>2, <1>4, FreshPrefix
<1>6. Appends(p)
  BY <1>1, <1>3 DEF Appends
<1> HIDE DEF p
<1>7. LogSound'
  BY <1>5, <1>6, InvFacts, LogGrows
<1>8. CostCapped'
  <2>1. CASE mode = "smoke"
    BY <2>1, <1>5, <1>6, AppendKeepsCap
  <2>2. CASE mode # "smoke"
    <3>1. /\ pc = "calling" /\ Len(p) <= Cardinality(DOMAIN batch)
          /\ \A k \in DOMAIN p : p[k].cost <= CostliestCall \/ p[k].cost = 0
      BY <1>2, <1>4, <1>5, <2>2
    <3>. QED BY <3>1, <1>5, <1>6, AppendKeepsCap
  <2>. QED BY <2>1, <2>2
<1>9. stops' \in Nat /\ stops' >= stops
  BY <1>1, InvFacts
<1>10. ProcessSound'
  BY <1>1, <1>9, InvFacts DEF ProcessSound, TodoSound, BatchSound, Steps
<1>11. CallsBounded'
  <2>1. Len(log') = Len(log) + Len(p) /\ Len(p) \in Nat
    BY <1>5, <1>6, InvFacts, AppendLength
  <2>. QED BY <1>1, <1>9, <2>1, CallsSettled
<1>12. FilesSound'
  BY <1>1, <1>2, InvFacts, NoBundle, FilesUntouched
<1>. QED BY <1>7, <1>8, <1>10, <1>11, <1>12 DEF TeacherInv

(* Every step keeps the invariant.                                         *)
LEMMA NextPreserves == TeacherInv /\ [Next]_vars => TeacherInv'
<1> SUFFICES ASSUME TeacherInv, [Next]_vars PROVE TeacherInv'
  OBVIOUS
<1>1. CASE Start
  BY <1>1, StartIsSound
<1>2. CASE MockGenerate
  BY <1>2, MockGenerateIsSound
<1>3. CASE SubmitBatch
  BY <1>3, SubmitBatchIsSound
<1>4. CASE BudgetGuard
  BY <1>4, StoppedIsSound DEF BudgetGuard, disk
<1>5. CASE \E id \in DOMAIN batch : Request(id)
  BY <1>5, RequestIsSound
<1>6. CASE LoseBatch
  BY <1>6, StoppedIsSound DEF LoseBatch, Resolved, disk
<1>7. CASE AppendBatch
  BY <1>7, AppendBatchIsSound
<1>8. CASE Checkpoint
  BY <1>8, CheckpointIsSound
<1>9. CASE Finish
  BY <1>9, FinishIsSound
<1>10. CASE WriteFile
  BY <1>10, WriteFileIsSound
<1>11. CASE Kill
  BY <1>11, StoppedIsSound DEF Kill, disk
<1>12. CASE KillAppending
  BY <1>12, KillAppendingIsSound
<1>13. CASE UNCHANGED vars
  BY <1>13, StutterIsSound
<1>. QED BY <1>1, <1>2, <1>3, <1>4, <1>5, <1>6, <1>7, <1>8, <1>9, <1>10, <1>11, <1>12, <1>13
         DEF Next, Refuse, Spent

-----------------------------------------------------------------------------
(* The log, the process, the cost, the calls and the files fit together in     *)
(* every state of every run of kills and resumes.                              *)
THEOREM TeacherInvariant == Spec => []TeacherInv
<1>. QED BY InitIsSound, NextPreserves, PTL DEF Spec

(* AnsweredOnce: a complaint has at most one answer in the raw log, and a log  *)
(* that is not torn always loads, whatever was killed and resumed.             *)
THEOREM AlwaysAnsweredOnce == Spec => []AnsweredOnce
<1>1. TeacherInv => AnsweredOnce
  BY DEF TeacherInv, LogSound, ProcessSound, AnsweredOnce, Loadable
<1>. QED BY <1>1, TeacherInvariant, PTL

(* CallsBounded: what the provider bills and the log does not show is bounded  *)
(* by the retries of each record and one batch per process that died.          *)
THEOREM CallsAlwaysBounded == Spec => []CallsBounded
<1>1. TeacherInv => CallsBounded
  BY DEF TeacherInv
<1>. QED BY <1>1, TeacherInvariant, PTL

(* CostCapped: the reported cost passes the cap by at most what one batch may  *)
(* cost over plan, over all the processes that worked on the log.              *)
THEOREM CostAlwaysCapped == Spec => []CostCapped
<1>1. TeacherInv => CostCapped
  BY DEF TeacherInv
<1>. QED BY <1>1, TeacherInvariant, PTL

-----------------------------------------------------------------------------
(* The job of the log: what is answered stays answered, and a manifest says    *)
(* that everything is.                                                         *)
LEMMA PrefixOf ==
  ASSUME NEW q, Fresh(q), NEW n \in 0..(Len(q) - 1)
  PROVE  SubSeq(q, 1, n) \in Seq(LogRecord)
<1>1. Len(q) \in Nat
  BY DEF Fresh
<1>2. n \in 0..Len(q)
  BY <1>1
<1>. QED BY <1>2, FreshPrefix DEF Fresh

LEMMA StepGrows ==
  ASSUME TeacherInv, Next
  PROVE  Successful \subseteq Successful'
<1>1. CASE log' = log
  BY <1>1 DEF Successful, Ok
<1>2. CASE log' # log
  <2>1. PICK q : log' = log \o q /\ q \in Seq(LogRecord)
    <3>1. CASE MockGenerate
      BY <3>1, MockFresh DEF MockGenerate, Fresh
    <3>2. CASE AppendBatch
      BY <3>2, BatchFresh DEF AppendBatch, Fresh
    <3>3. CASE KillAppending
      <4>1. CASE pc = "mock" /\ Appending(MockRecords)
        <5>1. PICK n \in 0..(Len(MockRecords) - 1) : log' = log \o SubSeq(MockRecords, 1, n)
          BY <4>1 DEF Appending
        <5>2. Fresh(MockRecords)
          BY <4>1, MockFresh
        <5>. QED BY <5>1, <5>2, PrefixOf
      <4>2. CASE Resolved /\ ~SomeRaised /\ Appending(BatchRecords)
        <5>1. PICK n \in 0..(Len(BatchRecords) - 1) : log' = log \o SubSeq(BatchRecords, 1, n)
          BY <4>2 DEF Appending
        <5>2. Fresh(BatchRecords)
          BY <4>2, BatchFresh
        <5>. QED BY <5>1, <5>2, PrefixOf
      <4>. QED BY <3>3, <4>1, <4>2 DEF KillAppending
    <3>. QED BY <1>2, <3>1, <3>2, <3>3
             DEF Next, Start, SubmitBatch, BudgetGuard, Request, LoseBatch, Checkpoint, Finish,
                 WriteFile, Kill, Refuse, Spent, disk, vars
  <2>2. /\ log \in Seq(LogRecord) /\ \A k \in DOMAIN log : k \in DOMAIN log' /\ log'[k] = log[k]
    <3>1. log \in Seq(LogRecord)
      BY InvFacts
    <3>. QED BY <2>1, <3>1
  <2> SUFFICES ASSUME NEW id \in Successful PROVE id \in Successful'
    OBVIOUS
  <2>3. PICK k \in DOMAIN log : Ok(log[k]) /\ log[k].id = id
    BY DEF Successful
  <2>. QED BY <2>2, <2>3 DEF Successful, Ok
<1>. QED BY <1>1, <1>2

LEMMA SealsOnce ==
  ASSUME TeacherInv, WriteFile
  PROVE  [AsJob!Seal]_<<Successful, files["manifest"] # Absent>>
<1> DEFINE sealed == files["manifest"] # Absent
<1>1. /\ pc = "write" /\ todo # <<>>
      /\ files' = [files EXCEPT ![Head(todo)] = Content(Head(todo))]
      /\ UNCHANGED <<mode, log>>
  BY DEF WriteFile
<1>2. Successful' = Successful
  BY <1>1, LogKept
<1>3. Successful = Ids
  <2>1. Missing = {}
    BY <1>1, InvFacts DEF FilesSound, WriterSound, Complete
  <2>2. Successful \subseteq Ids
    BY InvFacts, LogFacts DEF LogMeaning
  <2>. QED BY <2>1, <2>2 DEF Missing
<1>4. CASE files["manifest"] = Absent
  <2>1. CASE files'["manifest"] = Absent
    BY <1>2, <1>4, <2>1
  <2>2. CASE files'["manifest"] # Absent
    BY <1>2, <1>3, <1>4, <2>2 DEF AsJob!Seal
  <2>. QED BY <2>1, <2>2
<1>5. CASE files["manifest"] # Absent
  <2>1. PICK n \in DOMAIN WriteOrder :
          /\ todo = SubSeq(WriteOrder, n, Len(WriteOrder))
          /\ n < Len(WriteOrder) => files["manifest"] = Absent
    BY <1>1, InvFacts DEF FilesSound, WriterSound
  <2>2. n = 9
    BY <1>5, <2>1, WriteOrderFacts
  <2>3. Head(todo) = WriteOrder[n]
    BY <2>1, TodoOfWriter
  <2>4. Head(todo) # "manifest"
    BY <2>2, <2>3, WriteOrderFacts
  <2>5. files = [g \in Files |-> files[g]]
    BY InvFacts DEF FilesSound
  <2>6. files'["manifest"] = files["manifest"]
    BY <1>1, <2>4, <2>5, WriteOrderFacts
  <2>. QED BY <1>2, <2>6
<1>. QED BY <1>4, <1>5

LEMMA StepOfTheJob == TeacherInv /\ [Next]_vars => [AsJob!Next]_<<Successful, files["manifest"] # Absent>>
<1> SUFFICES ASSUME TeacherInv, [Next]_vars
             PROVE  [AsJob!Next]_<<Successful, files["manifest"] # Absent>>
  OBVIOUS
<1>1. CASE WriteFile
  BY <1>1, SealsOnce DEF AsJob!Next
<1>2. CASE UNCHANGED vars
  BY <1>2, LogKept DEF vars
<1>3. CASE Next /\ ~WriteFile
  <2>1. files' = files
    BY <1>3 DEF Next, Start, MockGenerate, SubmitBatch, BudgetGuard, Request, LoseBatch, AppendBatch,
                Checkpoint, Finish, Kill, KillAppending, Refuse, Spent, disk, vars
  <2>2. CASE UNCHANGED <<mode, log>>
    BY <2>1, <2>2, LogKept
  <2>3. CASE ~UNCHANGED <<mode, log>>
    <3>1. pc \notin {"idle", "write"}
      BY <1>3, <2>3 DEF Next, Start, MockGenerate, SubmitBatch, BudgetGuard, Request, LoseBatch,
                AppendBatch, Checkpoint, Finish, Kill, KillAppending, Refuse, Spent, disk, vars, Resolved
    <3>2. files["manifest"] = Absent
      BY <3>1, InvFacts, NoBundle
    <3>3. Successful \subseteq Successful' /\ Successful' \subseteq Ids
      <4>1. LogSound'
        BY <1>3, NextPreserves DEF TeacherInv
      <4>2. Successful' \subseteq Ids
        BY <4>1, LogFactsNext DEF LogMeaning
      <4>. QED BY <1>3, <4>2, StepGrows
    <3>4. AsJob!Record
      <4>1. Successful' \in SUBSET Ids /\ Successful' = Successful \cup Successful'
        BY <3>3
      <4>. QED BY <2>1, <3>2, <4>1 DEF AsJob!Record
    <3>. QED BY <3>4 DEF AsJob!Next
  <2>. QED BY <2>2, <2>3
<1>. QED BY <1>1, <1>2, <1>3

(* ImplementsJob: the process that is killed and resumed is the job of         *)
(* Job.tla: answers accumulate, and one manifest seals them when none is       *)
(* missing.                                                                    *)
THEOREM ImplementsTheJob == Spec => ImplementsJob
<1>1. Init => AsJob!Init
  <2> SUFFICES ASSUME Init PROVE AsJob!Init
    OBVIOUS
  <2>1. Successful = {}
    BY DEF Init, Successful
  <2>2. files["manifest"] = Absent
    BY WriteOrderFacts DEF Init
  <2>. QED BY <2>1, <2>2 DEF AsJob!Init
<1>. QED BY <1>1, StepOfTheJob, TeacherInvariant, PTL DEF Spec, ImplementsJob, AsJob!Spec

-----------------------------------------------------------------------------
(* Deduplication: kept[n] holds what is kept of the first n complaints.    *)

KeepStep(g, ids, n) ==
  IF n = 0 THEN {}
  ELSE IF n \in ids /\ ~\E k \in g[n - 1] : <<k, n>> \in Similar THEN g[n - 1] \cup {n} ELSE g[n - 1]
IsKept(g, ids, N) == g = [n \in 0..N |-> KeepStep(g, ids, n)]

LEMMA KeptExists == ASSUME NEW ids PROVE \A N \in Nat : \E g : IsKept(g, ids, N)
<1> DEFINE I == {N \in Nat : \E g : IsKept(g, ids, N)}
<1>1. 0 \in I
  <2> DEFINE g == [n \in 0..0 |-> {}]
  <2>1. \A n \in 0..0 : n = 0
    OBVIOUS
  <2>2. IsKept(g, ids, 0)
    BY <2>1 DEF IsKept, KeepStep
  <2> HIDE DEF g
  <2>. QED BY <2>2
<1>2. ASSUME NEW N \in Nat, N \in I
      PROVE  N + 1 \in I
  <2>1. PICK g : IsKept(g, ids, N)
    BY <1>2
  <2> DEFINE h == [n \in 0..(N + 1) |-> IF n = N + 1 THEN KeepStep(g, ids, n) ELSE g[n]]
  <2>2. ASSUME NEW n \in 0..(N + 1)
        PROVE  h[n] = KeepStep(h, ids, n)
    <3>1. h[n] = KeepStep(g, ids, n)
      <4>1. CASE n = N + 1
        BY <4>1
      <4>2. CASE n # N + 1
        <5>1. n \in 0..N /\ h[n] = g[n]
          BY <4>2
        <5>2. g[n] = KeepStep(g, ids, n)
          BY <2>1, <5>1 DEF IsKept
        <5>. QED BY <5>1, <5>2
      <4>. QED BY <4>1, <4>2
    <3>2. CASE n = 0
      BY <3>1, <3>2 DEF KeepStep
    <3>3. CASE n # 0
      <4>1. n - 1 \in 0..(N + 1) /\ n - 1 # N + 1
        BY <3>3
      <4>2. h[n - 1] = g[n - 1]
        BY <4>1
      <4> HIDE DEF h
      <4>. QED BY <3>1, <4>2 DEF KeepStep
    <3>. QED BY <3>2, <3>3
  <2>3. h = [n \in 0..(N + 1) |-> h[n]]
    OBVIOUS
  <2> HIDE DEF h
  <2>4. IsKept(h, ids, N + 1)
    BY <2>2, <2>3 DEF IsKept
  <2>5. N + 1 \in Nat /\ \E e : IsKept(e, ids, N + 1)
    BY <2>4
  <2>. QED BY <2>5
<1>3. Nat \subseteq I
  <2> HIDE DEF I
  <2>. QED BY <1>1, <1>2, NatSetInduction
<1>. QED BY <1>3

(* D keeps of ids no two similar ones, and leaves one out only for an      *)
(* earlier one that it keeps.                                              *)
FirstOfEach(D, ids) ==
  /\ D \subseteq ids
  /\ \A i, j \in D : <<i, j>> \notin Similar
  /\ \A j \in ids \ D : \E i \in D : i < j /\ <<i, j>> \in Similar

LEMMA DeduplicatedSound ==
  ASSUME NEW ids, ids \subseteq Ids
  PROVE  FirstOfEach(Deduplicated(ids), ids)
<1>0. NumIds \in Nat /\ \A n \in ids : n \in Nat /\ 1 <= n /\ n <= NumIds
  BY TeacherAssumption DEF Ids
<1> DEFINE g == CHOOSE e : IsKept(e, ids, NumIds)
<1>1. IsKept(g, ids, NumIds)
  BY <1>0, KeptExists
<1>2. Deduplicated(ids) = g[NumIds]
  BY DEF Deduplicated, IsKept, KeepStep
<1> HIDE DEF g
<1>3. \A n \in 0..NumIds : g[n] = KeepStep(g, ids, n)
  BY <1>1 DEF IsKept
<1> DEFINE I == {n \in Nat : n <= NumIds => FirstOfEach(g[n], {m \in ids : m <= n})}
<1>4. 0 \in I
  <2>1. g[0] = {}
    <3>1. 0 \in 0..NumIds
      BY <1>0
    <3>2. g[0] = KeepStep(g, ids, 0)
      BY <1>3, <3>1
    <3>. QED BY <3>2 DEF KeepStep
  <2>2. {m \in ids : m <= 0} = {}
    BY <1>0
  <2>. QED BY <2>1, <2>2 DEF FirstOfEach
<1>5. ASSUME NEW n \in Nat, n \in I
      PROVE  n + 1 \in I
  <2> SUFFICES ASSUME n + 1 <= NumIds
               PROVE  FirstOfEach(g[n + 1], {m \in ids : m <= n + 1})
    OBVIOUS
  <2> DEFINE D == g[n]
             old == {m \in ids : m <= n}
             new == {m \in ids : m <= n + 1}
  <2>1. D \subseteq old /\ (\A i, j \in D : <<i, j>> \notin Similar)
        /\ \A j \in old \ D : \E i \in D : i < j /\ <<i, j>> \in Similar
    <3>1. n <= NumIds
      BY <1>0
    <3>2. FirstOfEach(g[n], {m \in ids : m <= n})
      BY <1>5, <3>1
    <3>. QED BY <3>2 DEF FirstOfEach
  <2>2. g[n + 1] = IF n + 1 \in ids /\ ~\E k \in D : <<k, n + 1>> \in Similar THEN D \cup {n + 1} ELSE D
    <3>1. n + 1 \in 0..NumIds /\ n + 1 # 0 /\ (n + 1) - 1 = n
      BY <1>0
    <3>. QED BY <1>3, <3>1 DEF KeepStep
  <2>3. /\ old \subseteq new
        /\ \A m \in new : m \in old \/ m = n + 1
        /\ \A m \in D : m \in Nat /\ m < n + 1
    BY <1>0, <2>1
  <2>4. n + 1 \in ids => n + 1 \in new
    OBVIOUS
  <2> HIDE DEF D, old, new
  <2>5. CASE n + 1 \in ids /\ ~\E k \in D : <<k, n + 1>> \in Similar
    <3>1. g[n + 1] = D \cup {n + 1}
      BY <2>2, <2>5
    <3>2. \A k \in D : <<k, n + 1>> \notin Similar /\ <<n + 1, k>> \notin Similar
      <4> SUFFICES ASSUME NEW k \in D PROVE <<k, n + 1>> \notin Similar /\ <<n + 1, k>> \notin Similar
        OBVIOUS
      <4>1. <<k, n + 1>> \notin Similar
        BY <2>5
      <4>2. <<n + 1, k>> \in Similar => <<k, n + 1>> \in Similar
        BY SimilarAssumption
      <4>. QED BY <4>1, <4>2
    <3>3. <<n + 1, n + 1>> \notin Similar
      BY SimilarAssumption
    <3>4. \A i, j \in D \cup {n + 1} : <<i, j>> \notin Similar
      BY <2>1, <3>2, <3>3
    <3>5. \A j \in new \ (D \cup {n + 1}) : \E i \in D \cup {n + 1} : i < j /\ <<i, j>> \in Similar
      BY <2>1, <2>3
    <3>6. D \cup {n + 1} \subseteq new
      BY <2>1, <2>3, <2>4, <2>5
    <3>. QED BY <3>1, <3>4, <3>5, <3>6 DEF FirstOfEach, new
  <2>6. CASE ~(n + 1 \in ids /\ ~\E k \in D : <<k, n + 1>> \in Similar)
    <3>1. g[n + 1] = D
      BY <2>2, <2>6
    <3>2. \A j \in new \ D : \E i \in D : i < j /\ <<i, j>> \in Similar
      <4> SUFFICES ASSUME NEW j \in new \ D PROVE \E i \in D : i < j /\ <<i, j>> \in Similar
        OBVIOUS
      <4>1. CASE j \in old
        BY <2>1, <4>1
      <4>2. CASE j = n + 1
        <5>1. j \in ids
          BY DEF new
        <5>. QED BY <2>3, <2>6, <4>2, <5>1
      <4>. QED BY <2>3, <4>1, <4>2
    <3>. QED BY <2>1, <2>3, <3>1, <3>2 DEF FirstOfEach, new
  <2>. QED BY <2>5, <2>6
<1>6. NumIds \in I
  <2> HIDE DEF I
  <2>. QED BY <1>0, <1>4, <1>5, NatSetInduction
<1>7. {m \in ids : m <= NumIds} = ids
  BY <1>0
<1>8. FirstOfEach(g[NumIds], {m \in ids : m <= NumIds})
  <2>1. NumIds <= NumIds
    BY <1>0
  <2>. QED BY <1>6, <2>1
<1> HIDE DEF I
<1>. QED BY <1>2, <1>7, <1>8

(* What the artifacts hold.                                                *)
LEMMA CleanSound ==
  LET D == Deduplicated(VerifierValid)
  IN  /\ VerifierValid \subseteq Ids /\ FirstOfEach(D, VerifierValid)
      /\ Quarantined(D) = D \cap Contaminated /\ Clean = D \ Contaminated
      /\ Clean \subseteq Ids /\ Quarantined(D) \subseteq Ids
<1>1. VerifierValid \subseteq Ids
  BY DEF VerifierValid, OfGrade
<1>2. FirstOfEach(Deduplicated(VerifierValid), VerifierValid)
  BY <1>1, DeduplicatedSound
<1>. QED BY <1>1, <1>2 DEF Clean, Quarantined, FirstOfEach

LEMMA SealedFiles ==
  Sealed = {"filter_funnel_log", "sft_rule", "sft_distilled", "dpo_pairs", "quarantine",
            "cost_ledger", "data_card"}
<1>1. \A k \in 1..7 : k \in {1, 2, 3, 4, 5, 6, 7}
  OBVIOUS
<1>2. \A f \in Sealed : \E k \in {1, 2, 3, 4, 5, 6, 7} : f = WriteOrder[k]
  BY <1>1, WriteOrderFacts
<1>3. \A k \in {1, 2, 3, 4, 5, 6, 7} : WriteOrder[k] \in Sealed
  BY WriteOrderFacts
<1>4. /\ WriteOrder[1] = "filter_funnel_log" /\ WriteOrder[2] = "sft_rule"
      /\ WriteOrder[3] = "sft_distilled" /\ WriteOrder[4] = "dpo_pairs"
      /\ WriteOrder[5] = "quarantine" /\ WriteOrder[6] = "cost_ledger"
      /\ WriteOrder[7] = "data_card"
  BY DEF WriteOrder
<1>. QED BY <1>2, <1>3, <1>4

LEMMA BundleOf ==
  ASSUME TeacherInv, files["manifest"] # Absent
  PROVE  /\ Complete /\ ~torn /\ files["manifest"] = Manifest
         /\ files["filter_funnel_log"] = [id \in Ids |-> Outcome(id)]
         /\ files["quarantine"] = Quarantined(Deduplicated(VerifierValid))
         /\ \A c \in Corpora : files[c] = Clean
         /\ files["cost_ledger"] = [cost |-> ledger.cost, within |-> ledger.within_budget,
                                    log |-> ledger.log]
         /\ files["data_card"] = DataCard
         /\ \A f \in Sealed : files[f] = Content(f)
<1>1. Bundle
  BY InvFacts DEF FilesSound
<1>2. /\ Corpora \subseteq Sealed
      /\ {"filter_funnel_log", "quarantine", "cost_ledger", "data_card"} \subseteq Sealed
  <2>1. Sealed = {"filter_funnel_log", "sft_rule", "sft_distilled", "dpo_pairs", "quarantine",
                  "cost_ledger", "data_card"}
    BY SealedFiles
  <2>. QED BY <2>1 DEF Corpora
<1>3. /\ Content("filter_funnel_log") = [id \in Ids |-> Outcome(id)]
      /\ \A c \in Corpora : Content(c) = Clean
      /\ Content("quarantine") = Quarantined(Deduplicated(VerifierValid))
      /\ Content("cost_ledger") = [cost |-> ledger.cost, within |-> ledger.within_budget,
                                   log |-> ledger.log]
      /\ Content("data_card") = DataCard
  <2>1. Corpora = {"sft_rule", "sft_distilled", "dpo_pairs"}
    BY DEF Corpora
  <2>2. \A c \in Corpora : Content(c) = Clean
    BY <2>1 DEF Content
  <2>. QED BY <2>1, <2>2 DEF Content
<1>. QED BY <1>1, <1>2, <1>3 DEF Bundle

(* CorporaSound: a corpus that a manifest seals has no TEST overlap and no two *)
(* near-duplicates, and leaves out a verified answer only for a TEST overlap   *)
(* or for an earlier kept near-duplicate.                                      *)
THEOREM CorporaAlwaysSound == Spec => []CorporaSound
<1>1. ASSUME TeacherInv PROVE CorporaSound
  <2> SUFFICES ASSUME files["manifest"] # Absent
               PROVE  LET corpus == files["sft_rule"]
                      IN  /\ corpus \cap Contaminated = {}
                          /\ \A i, j \in corpus : <<i, j>> \notin Similar
                          /\ \A j \in VerifierValid \ (corpus \cup Contaminated) :
                               \E i \in corpus \cup files["quarantine"] : i < j /\ <<i, j>> \in Similar
    BY DEF CorporaSound
  <2>1. files["sft_rule"] = Clean /\ files["quarantine"] = Quarantined(Deduplicated(VerifierValid))
    BY <1>1, BundleOf DEF Corpora
  <2>. QED BY <2>1, CleanSound DEF FirstOfEach
<1>. QED BY <1>1, TeacherInvariant, PTL

-----------------------------------------------------------------------------
(* The audit of a sealed job.                                              *)

LEMMA OutcomeType == \A id \in Ids : Outcome(id) \in Outcomes
<1> SUFFICES ASSUME NEW id \in Ids PROVE Outcome(id) \in Outcomes
  OBVIOUS
<1> DEFINE D == Deduplicated(VerifierValid)
           A == id \notin SchemaValid
           B == id \in SchemaValid \ VerifierValid
           C == id \in VerifierValid \ D
           Q == id \in Quarantined(D)
           K == id \in Clean
<1>1. A \/ B \/ C \/ Q \/ K
  BY DEF Clean
<1>2. Outcome(id) = CASE A -> "schema_invalid" [] B -> "verifier_score" [] C -> "minhash_duplicate"
                      [] Q -> "test_ngram_overlap" [] K -> "accepted"
  BY DEF Outcome
<1> HIDE DEF A, B, C, Q, K
<1>. QED BY <1>1, <1>2 DEF Outcomes

LEMMA FunnelType ==
  /\ Funnel \in Seq(Nat) /\ Funnel[1] = NumIds
  /\ Cardinality(VerifierValid \ Deduplicated(VerifierValid)) \in Nat
<1>1. \A S : S \subseteq Ids => Cardinality(S) \in Nat
  BY IdsFinite, FS_Subset, FS_CardinalityType
<1>2. /\ SchemaValid \subseteq Ids /\ VerifierValid \subseteq Ids /\ Clean \subseteq Ids
      /\ Deduplicated(VerifierValid) \subseteq Ids
      /\ VerifierValid \ Deduplicated(VerifierValid) \subseteq Ids
  BY CleanSound DEF SchemaValid, OfGrade, FirstOfEach
<1>3. /\ Cardinality(SchemaValid) \in Nat /\ Cardinality(VerifierValid) \in Nat
      /\ Cardinality(Clean) \in Nat /\ Cardinality(Deduplicated(VerifierValid)) \in Nat
      /\ Cardinality(VerifierValid \ Deduplicated(VerifierValid)) \in Nat
  BY <1>1, <1>2
<1> DEFINE a == Cardinality(SchemaValid)
           b == Cardinality(VerifierValid)
           c == Cardinality(Deduplicated(VerifierValid))
           d == Cardinality(Clean)
<1>4. Funnel = <<NumIds, NumIds, a, b, c, d>>
  BY IdsFinite DEF Funnel
<1>5. NumIds \in Nat /\ a \in Nat /\ b \in Nat /\ c \in Nat /\ d \in Nat
  BY <1>3, IdsFinite
<1> HIDE DEF a, b, c, d
<1>6. Funnel \in Seq(Nat) /\ Funnel[1] = NumIds
  BY <1>4, <1>5
<1>. QED BY <1>3, <1>6

(* Every file of the bundle is there.                                      *)
LEMMA BundleThere ==
  ASSUME TeacherInv, files["manifest"] # Absent
  PROVE  \A f \in Sealed : files[f] # Absent
<1>0. LogMeaning /\ mode \in {"smoke", "live"}
  BY InvFacts, LogFacts DEF ProcessSound
<1>1. /\ ledger = Ledger("complete")
      /\ files["filter_funnel_log"] = [id \in Ids |-> Outcome(id)]
      /\ files["quarantine"] = Quarantined(Deduplicated(VerifierValid))
      /\ \A c \in Corpora : files[c] = Clean
      /\ files["cost_ledger"] = [cost |-> ledger.cost, within |-> ledger.within_budget,
                                 log |-> ledger.log]
      /\ files["data_card"] = DataCard
  BY BundleOf DEF Complete
<1>2. /\ ledger.cost = RecordedCost /\ ledger.log = log
      /\ ledger.within_budget = (MissingCost = {} /\ RecordedCost <= Budget)
  BY <1>1 DEF Ledger
<1>3. files["filter_funnel_log"] # Absent
  <2>1. \A id \in Ids : Outcome(id) \in Outcomes
    BY OutcomeType
  <2>2. [id \in Ids |-> Outcome(id)] \in [Ids -> Outcomes]
    BY <2>1
  <2>. QED BY <1>1, <2>2, AbsentAssumption
<1>4. files["quarantine"] # Absent /\ \A c \in Corpora : files[c] # Absent
  BY <1>1, CleanSound, AbsentAssumption
<1>5. files["cost_ledger"] # Absent
  <2>1. RecordedCost \in Nat /\ log \in Seq(LogRecord) /\ ledger.within_budget \in BOOLEAN
    BY <1>0, <1>2 DEF LogMeaning
  <2>2. files["cost_ledger"] \in CostLedgers
    BY <1>1, <1>2, <2>1 DEF CostLedgers
  <2>. QED BY <2>2, AbsentAssumption
<1>6. files["data_card"] # Absent
  <2>1. RecordedCost \in Nat
    BY <1>0 DEF LogMeaning
  <2>2. Quarantined(Deduplicated(VerifierValid)) \in SUBSET Ids
    BY CleanSound
  <2>3. Funnel \in Seq(Nat) /\ Cardinality(VerifierValid \ Deduplicated(VerifierValid)) \in Nat
    BY FunnelType
  <2>4. DataCard \in DataCards
    BY <1>0, <1>2, <2>1, <2>2, <2>3 DEF DataCard, DataCards
  <2>. QED BY <1>1, <2>4, AbsentAssumption
<1>. QED BY <1>3, <1>4, <1>5, <1>6, SealedFiles DEF Corpora

(* In smoke mode every answer is free and every record answers.            *)
LEMMA SmokeIsFree ==
  ASSUME LogSound, mode = "smoke"
  PROVE  RecordedCost = 0
<1>1. \A k \in DOMAIN log : log[k].cost = 0
  BY DEF LogSound
<1>2. LogMeaning
  BY LogFacts
<1>3. \A id \in Successful : Reported(id) = 0
  <2> SUFFICES ASSUME NEW id \in Successful PROVE Reported(id) = 0
    OBVIOUS
  <2>1. PICK k \in DOMAIN log : Ok(log[k]) /\ log[k].id = id
    BY DEF Successful
  <2>2. SuccessOf(id) = log[k]
    BY <1>2, <2>1 DEF LogMeaning
  <2>. QED BY <1>1, <1>2, <2>2 DEF LogMeaning, Billed
<1> DEFINE f == [id \in Successful |-> Reported(id)]
<1>4. Total(f, Successful) \in Nat /\ Total(f, Successful) <= 0 * Cardinality(Successful)
  <2>1. IsFiniteSet(Successful)
    BY <1>2 DEF LogMeaning
  <2>2. \A id \in Successful : f[id] \in Nat /\ f[id] <= 0
    BY <1>3
  <2> HIDE DEF f
  <2>3. SumFacts(f, Successful)
    BY <2>1, <2>2, TotalFacts
  <2>. QED BY <2>1, <2>2, <2>3, TotalBound DEF SumFacts
<1>5. Cardinality(Successful) \in Nat
  BY <1>2, FS_CardinalityType DEF LogMeaning
<1> HIDE DEF f
<1>6. Total(f, Successful) = 0
  BY <1>4, <1>5
<1>. QED BY <1>6 DEF RecordedCost, f

LEMMA SmokeIsWhole ==
  ASSUME LogSound, mode = "smoke", Missing = {}
  PROVE  Len(log) = NumIds
<1>1. /\ log \in Seq(LogRecord) /\ Len(log) \in Nat /\ DOMAIN log = 1..Len(log)
      /\ \A k \in DOMAIN log : Ok(log[k]) /\ log[k].id \in Ids
  <2>1. log \in Seq(LogRecord) /\ \A k \in DOMAIN log : Ok(log[k])
    BY DEF LogSound
  <2>2. Len(log) \in Nat /\ DOMAIN log = 1..Len(log) /\ \A k \in 1..Len(log) : log[k] \in LogRecord
    BY <2>1
  <2>3. \A r \in LogRecord : r.id \in Ids
    BY DEF LogRecord
  <2>. QED BY <2>1, <2>2, <2>3
<1>2. \A j, k \in DOMAIN log : log[j].id = log[k].id => j = k
  BY <1>1 DEF LogSound
<1> DEFINE f == [k \in DOMAIN log |-> log[k].id]
<1>3. f \in Bijection(DOMAIN log, Ids)
  <2>1. Ids \subseteq Successful
    BY DEF Missing
  <2>2. \A id \in Ids : \E k \in DOMAIN log : f[k] = id
    BY <2>1 DEF Successful
  <2>3. f \in [DOMAIN log -> Ids]
    BY <1>1
  <2>4. f \in Injection(DOMAIN log, Ids)
    BY <1>2, <2>3, Fun_IsInj
  <2>5. f \in Surjection(DOMAIN log, Ids)
    BY <2>2, <2>3, Fun_IsSurj
  <2>. QED BY <2>4, <2>5 DEF Bijection
<1>4. IsFiniteSet(1..Len(log)) /\ Cardinality(1..Len(log)) = Len(log)
  <2>1. 1 \in Int /\ Len(log) \in Int
    BY <1>1
  <2>2. Cardinality(1..Len(log)) = IF 1 > Len(log) THEN 0 ELSE Len(log) - 1 + 1
    BY <2>1, FS_Interval
  <2>. QED BY <1>1, <2>1, <2>2, FS_Interval
<1>5. Cardinality(DOMAIN log) = Cardinality(Ids)
  <2>1. ExistsBijection(DOMAIN log, Ids)
    BY <1>3 DEF ExistsBijection
  <2>. QED BY <1>1, <1>4, <2>1, FS_Bijection
<1>. QED BY <1>1, <1>4, <1>5, IdsFinite

(* ManifestReplays: once a manifest is there, the offline audit of the ledger, *)
(* the funnel, the corpora and the cost passes, and the replay of a smoke      *)
(* bundle passes once its tracked copy is there too.                           *)
THEOREM ManifestAlwaysReplays == Spec => []ManifestReplays
<1>1. ASSUME TeacherInv, files["manifest"] # Absent
      PROVE  AuditPasses
  <2>1. /\ Complete /\ files["manifest"] = Manifest
        /\ files["filter_funnel_log"] = [id \in Ids |-> Outcome(id)]
        /\ files["quarantine"] = Quarantined(Deduplicated(VerifierValid))
        /\ \A c \in Corpora : files[c] = Clean
        /\ files["cost_ledger"] = [cost |-> ledger.cost, within |-> ledger.within_budget,
                                   log |-> ledger.log]
    BY <1>1, BundleOf
  <2>2. /\ ledger.cost = RecordedCost /\ ledger.log = log /\ ledger.within_budget
        /\ ledger.attempts = Len(log) /\ ledger.status = "complete" /\ ledger.mode = mode
        /\ RecordedCost <= Budget
    BY <2>1 DEF Complete, Ledger
  <2>3. Successful = Ids
    <3>1. Successful \subseteq Ids
      BY <1>1, InvFacts, LogFacts DEF LogMeaning
    <3>. QED BY <2>1, <3>1 DEF Complete, Missing
  <2> DEFINE m == files["manifest"]
  <2>4. /\ m.status = "complete" /\ m.mode = mode /\ m.log = log /\ m.attempts = ledger.attempts
        /\ m.funnel = Funnel /\ m.quarantined = Quarantined(Deduplicated(VerifierValid))
        /\ m.cost = ledger.cost /\ m.within = ledger.within_budget
        /\ m.hashes = [f \in Sealed |-> files[f]]
    BY <2>1 DEF Manifest
  <2> HIDE DEF m
  <2>5. AuditFunnel(m)
    <3>1. Cardinality(Successful) = Funnel[1]
      BY <2>3, IdsFinite, FunnelType
    <3>. QED BY <2>1, <2>4, <3>1 DEF AuditFunnel
  <2>6. ArtifactsMatch(m)
    BY <1>1, <2>4, BundleThere DEF ArtifactsMatch
  <2>7. AuditCorpora
    BY <2>1, <2>3 DEF AuditCorpora
  <2>8. AuditCost(m)
    <3>1. m.cost <= (IF mode = "smoke" THEN 0 ELSE Budget)
      <4>1. CASE mode = "smoke"
        BY <1>1, <2>2, <2>4, <4>1, InvFacts, SmokeIsFree
      <4>2. CASE mode # "smoke"
        BY <2>2, <2>4, <4>2
      <4>. QED BY <4>1, <4>2
    <3>2. files["cost_ledger"].cost = ledger.cost /\ files["cost_ledger"].within = ledger.within_budget
      BY <2>1
    <3>. QED BY <2>2, <2>4, <3>1, <3>2 DEF AuditCost
  <2>. QED BY <1>1, <2>2, <2>4, <2>5, <2>6, <2>7, <2>8 DEF AuditPasses, m
<1>2. ASSUME TeacherInv, files["tracked_manifest"] # Absent, mode = "smoke"
      PROVE  SmokeBundleVerified
  <2>1. files["tracked_manifest"] = files["manifest"] /\ files["manifest"] # Absent
    BY <1>2, InvFacts DEF FilesSound
  <2>2. /\ Complete /\ ~torn /\ files["manifest"] = Manifest
        /\ files["quarantine"] = Quarantined(Deduplicated(VerifierValid))
        /\ files["cost_ledger"] = [cost |-> ledger.cost, within |-> ledger.within_budget,
                                   log |-> ledger.log]
    BY <1>2, <2>1, BundleOf
  <2>3. /\ ledger.log = log /\ ledger.within_budget
        /\ ledger.attempts = Len(log) /\ ledger.status = "complete" /\ ledger.mode = mode
    BY <2>2 DEF Complete, Ledger
  <2> DEFINE m == files["manifest"]
  <2>4. /\ m.status = "complete" /\ m.mode = mode /\ m.log = log /\ m.attempts = ledger.attempts
        /\ m.quarantined = Quarantined(Deduplicated(VerifierValid))
        /\ m.hashes = [f \in Sealed |-> files[f]]
    BY <2>2 DEF Manifest
  <2> HIDE DEF m
  <2>5. ArtifactsMatch(m)
    BY <1>2, <2>1, <2>4, BundleThere DEF ArtifactsMatch
  <2>6. Loadable /\ Len(log) = NumIds
    BY <1>2, <2>2, InvFacts, SmokeIsWhole DEF Loadable, LogSound, Complete
  <2>7. files["cost_ledger"].log = ledger.log /\ files["cost_ledger"].within = ledger.within_budget
    BY <2>2
  <2>. QED BY <1>2, <2>1, <2>2, <2>3, <2>4, <2>5, <2>6, <2>7 DEF SmokeBundleVerified, m
<1>3. TeacherInv => ManifestReplays
  BY <1>1, <1>2 DEF ManifestReplays
<1>. QED BY <1>3, TeacherInvariant, PTL
=============================================================================
