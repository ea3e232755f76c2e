--------------------------- MODULE AIBudgetProofs ---------------------------
(***************************************************************************)
(* What holds of the AI budget for any number of callers, any limits and   *)
(* any prices up to MaxCost.                                               *)
(***************************************************************************)
EXTENDS AIBudget, FiniteSetTheorems, WellFoundedInduction, TLAPS

(***************************************************************************)
(* The inductive invariant.  The type of unrecorded is left out: it comes  *)
(* from the sum of BilledIsAccounted.                                      *)
(***************************************************************************)
Types ==
  /\ pc \in [Calls -> Places]
  /\ prompt \in [Calls -> Prompts]
  /\ cost \in [Calls -> Costs \union {0}]
  /\ gone \in [Calls -> BOOLEAN]
  /\ cached \subseteq Prompts
  /\ today \in Nat /\ thisMonth \in Nat /\ days \in Nat
  /\ budget \in [at : {"idle", "second", "reply"}, daily : Nat, monthly : Nat, void : BOOLEAN]

\* A limit is passed by less than one answer for each call outside S.
Within(used, limit, S) ==
  used + Cardinality(S) * MaxCost < limit + Cardinality(Calls) * MaxCost

\* The day is part of the month, and what the endpoint has read stays true until
\* it has read again.
DayInMonth ==
  /\ today <= thisMonth
  /\ budget.at = "second" /\ ~budget.void => budget.daily <= thisMonth
  /\ BudgetConsistent

\* Calls with an answer that nobody has tried to record.
Owing == {c \in Calls : pc[c] \in {"store", "record"}}

IInv == Types /\ SpendBounded /\ DayInMonth /\ BilledIsAccounted


(***************************************************************************)
(* Sets of calls, and what they may still spend.                           *)
(***************************************************************************)

\* Prices are numbers up to MaxCost.
LEMMA Prices ==
  ASSUME Types
  PROVE  \A c \in Calls : cost[c] \in 0 .. MaxCost /\ cost[c] \in Nat
<1>1. Costs \union {0} \subseteq 0 .. MaxCost /\ 0 .. MaxCost \subseteq Nat
  BY BudgetAssumption
<1>2. \A c \in Calls : cost[c] \in Costs \union {0}
  BY DEF Types
<1>3. QED
  BY <1>1, <1>2

\* A set of calls is finite and no larger than Calls.
LEMMA CallSets ==
  ASSUME NEW S \in SUBSET Calls
  PROVE  /\ IsFiniteSet(S)
         /\ Cardinality(S) \in Nat
         /\ Cardinality(Calls) \in Nat
         /\ Cardinality(S) <= Cardinality(Calls)
BY BudgetAssumption, FS_Subset, FS_CardinalityType

\* Products with MaxCost keep the order of the factors.
LEMMA Monotone ==
  ASSUME NEW i \in Nat, NEW j \in Nat, i <= j
  PROVE  /\ i * MaxCost \in Nat
         /\ j * MaxCost \in Nat
         /\ i * MaxCost <= j * MaxCost
         /\ i + 1 <= j => i * MaxCost + MaxCost <= j * MaxCost
<1>1. MaxCost \in Nat
  BY BudgetAssumption
<1>2. PICK d \in Nat : j = i + d
  <2>1. j - i \in Nat /\ j = i + (j - i)
    OBVIOUS
  <2>2. QED
    BY <2>1
<1>3. i * MaxCost \in Nat /\ d * MaxCost \in Nat
  BY <1>1, <1>2
<1>4. j * MaxCost = i * MaxCost + d * MaxCost
  BY <1>1, <1>2
<1>5. ASSUME i + 1 <= j PROVE d * MaxCost >= MaxCost
  <2>1. PICK e \in Nat : d = e + 1
    <3>1. d - 1 \in Nat /\ d = (d - 1) + 1
      BY <1>2, <1>5
    <3>2. QED
      BY <3>1
  <2>2. d * MaxCost = e * MaxCost + MaxCost /\ e * MaxCost \in Nat
    BY <1>1, <2>1
  <2>3. QED
    BY <1>1, <2>2
<1>6. QED
  BY <1>1, <1>3, <1>4, <1>5

\* A call that drops out leaves the bound as it is.
LEMMA FewerCalls ==
  ASSUME NEW used \in Nat, NEW limit \in Nat,
         NEW S \in SUBSET Calls, NEW T \in SUBSET S,
         Within(used, limit, S)
  PROVE  Within(used, limit, T)
<1>1. T \in SUBSET Calls
  OBVIOUS
<1>2. Cardinality(T) <= Cardinality(S)
  BY CallSets, FS_Subset
<1>3. Cardinality(T) * MaxCost \in Nat /\ Cardinality(S) * MaxCost \in Nat
      /\ Cardinality(T) * MaxCost <= Cardinality(S) * MaxCost
  BY <1>1, <1>2, CallSets, Monotone
<1>4. Cardinality(Calls) * MaxCost \in Nat
  BY CallSets, Monotone
<1>5. QED
  BY <1>3, <1>4 DEF Within

\* A call that records its answer takes its allowance with it.
LEMMA CallRecords ==
  ASSUME NEW used \in Nat, NEW limit \in Nat,
         NEW S \in SUBSET Calls, NEW c \in S, NEW price \in 0 .. MaxCost,
         Within(used, limit, S)
  PROVE  Within(used + price, limit, S \ {c})
<1>1. S \ {c} \in SUBSET Calls
  OBVIOUS
<1>2. Cardinality(S \ {c}) + 1 = Cardinality(S)
  BY CallSets, FS_RemoveElement
<1>3. Cardinality(S \ {c}) \in Nat /\ Cardinality(S) \in Nat
  BY <1>1, CallSets
<1>4. Cardinality(S \ {c}) * MaxCost \in Nat /\ Cardinality(S) * MaxCost \in Nat
      /\ Cardinality(S \ {c}) * MaxCost + MaxCost <= Cardinality(S) * MaxCost
  BY <1>2, <1>3, Monotone
<1>5. Cardinality(Calls) * MaxCost \in Nat
  BY CallSets, Monotone
<1>6. MaxCost \in Nat
  BY BudgetAssumption
<1>7. QED
  BY <1>4, <1>5, <1>6 DEF Within

\* Below the limit any set of calls may still answer.
LEMMA BelowLimit ==
  ASSUME NEW used \in Nat, NEW limit \in Nat, used < limit, NEW S \in SUBSET Calls
  PROVE  Within(used, limit, S)
<1>1. Cardinality(S) * MaxCost \in Nat /\ Cardinality(Calls) * MaxCost \in Nat
      /\ Cardinality(S) * MaxCost <= Cardinality(Calls) * MaxCost
  BY CallSets, Monotone
<1>2. QED
  BY <1>1 DEF Within

\* SpendBounded in terms of Within.
LEMMA SpendIsWithin ==
  SpendBounded <=> /\ Within(today, DailyLimit, PastDaily)
                   /\ Within(thisMonth, MonthlyLimit, PastMonthly)
BY DEF SpendBounded, Within

(***************************************************************************)
(* Sums of costs: what SumFunctionOnSet returns, by induction on the size  *)
(* of the set.                                                             *)
(***************************************************************************)

\* Induction over the numbers, for a set of them.
LEMMA Induction ==
  ASSUME NEW S, 0 \in S, \A n \in Nat : n \in S => n + 1 \in S
  PROVE  Nat \subseteq S
<1> SUFFICES ASSUME Nat \ S # {} PROVE FALSE
  OBVIOUS
<1> DEFINE R == OpToRel(<, Nat)
<1>1. \A x, y \in Nat : x < y => <<x, y>> \in R
  BY DEF OpToRel
<1>2. IsWellFoundedOn(R, Nat)
  BY NatLessThanWellFounded
<1> HIDE DEF R
<1>3. PICK x \in Nat \ S : \A y \in Nat \ S : ~(<<y, x>> \in R)
  BY <1>2, WFMin, Zenon
<1>4. x # 0 /\ x - 1 \in Nat /\ x - 1 < x /\ x = (x - 1) + 1
  BY <1>3
<1>5. x - 1 \in S
  BY <1>1, <1>3, <1>4
<1>6. QED
  BY <1>3, <1>4, <1>5

\* g gives the sum of w over each subset of U.
AddsUp(g, w, U) ==
  /\ g \in [SUBSET U -> Nat] /\ g[{}] = 0
  /\ \A S \in SUBSET U : \A x \in S : g[S] = w[x] + g[S \ {x}]

\* One element more.
LEMMA OneMore ==
  ASSUME NEW U, NEW w, NEW x, x \notin U,
         \A y \in U \union {x} : w[y] \in Nat, NEW g, AddsUp(g, w, U)
  PROVE  \E h : AddsUp(h, w, U \union {x})
<1> DEFINE V == U \union {x}
           h == [S \in SUBSET V |-> IF x \in S THEN w[x] + g[S \ {x}] ELSE g[S]]
<1>1. g \in [SUBSET U -> Nat] /\ g[{}] = 0
  BY DEF AddsUp
<1>2. \A S \in SUBSET U : \A y \in S : g[S] = w[y] + g[S \ {y}]
  BY DEF AddsUp
<1>3. \A S \in SUBSET V : S \ {x} \in SUBSET U /\ (x \notin S => S \in SUBSET U)
  OBVIOUS
<1>4. \A S \in SUBSET V : /\ x \in S => h[S] = w[x] + g[S \ {x}] /\ g[S \ {x}] \in Nat
                          /\ x \notin S => h[S] = g[S] /\ g[S] \in Nat
  BY <1>1, <1>3
<1>5. h \in [SUBSET V -> Nat]
  <2>1. h = [S \in SUBSET V |-> h[S]]
    OBVIOUS
  <2> HIDE DEF h
  <2>2. PICK weight \in Nat : weight = w[x]
    OBVIOUS
  <2>3. ASSUME NEW S \in SUBSET V PROVE h[S] \in Nat
    <3>1. CASE x \in S
      <4>1. h[S] = weight + g[S \ {x}] /\ g[S \ {x}] \in Nat
        BY <1>4, <2>2, <3>1
      <4>2. QED
        BY <4>1
    <3>2. CASE x \notin S
      BY <1>4, <3>2
    <3>3. QED
      BY <3>1, <3>2
  <2>4. QED
    BY <2>1, <2>3
<1>6. h[{}] = 0
  BY <1>1, <1>4
<1> HIDE DEF h
<1>7. ASSUME NEW S \in SUBSET V, NEW y \in S PROVE h[S] = w[y] + h[S \ {y}]
  <2>1. CASE x \notin S
    <3>1. S \ {y} \in SUBSET V /\ x \notin S \ {y} /\ S \in SUBSET U
      BY <1>3, <2>1
    <3>2. h[S \ {y}] = g[S \ {y}] /\ h[S] = g[S]
      BY <1>4, <2>1, <3>1
    <3>3. QED
      BY <1>2, <3>1, <3>2
  <2>2. CASE x = y
    <3>1. S \ {x} \in SUBSET V /\ x \notin S \ {x}
      OBVIOUS
    <3>2. h[S \ {x}] = g[S \ {x}] /\ h[S] = w[x] + g[S \ {x}]
      BY <1>4, <2>2, <3>1
    <3>3. QED
      BY <2>2, <3>2
  <2>3. CASE x \in S /\ x # y
    <3>1. S \ {y} \in SUBSET V /\ x \in S \ {y} /\ S \ {x} \in SUBSET U /\ y \in S \ {x}
      BY <1>3, <2>3
    <3>2. h[S] = w[x] + g[S \ {x}] /\ h[S \ {y}] = w[x] + g[(S \ {y}) \ {x}]
      BY <1>4, <2>3, <3>1
    <3>3. g[S \ {x}] = w[y] + g[(S \ {x}) \ {y}]
      BY <1>2, <3>1
    <3>4. (S \ {x}) \ {y} = (S \ {y}) \ {x}
      OBVIOUS
    <3>5. PICK n : n = g[(S \ {y}) \ {x}]
      OBVIOUS
    <3>6. PICK a \in Nat, b \in Nat : a = w[x] /\ b = w[y]
      OBVIOUS
    <3>7. n \in Nat
      BY <1>1, <3>1, <3>5
    <3>8. h[S] = a + (b + n) /\ h[S \ {y}] = a + n
      BY <3>2, <3>3, <3>4, <3>5, <3>6
    <3>9. h[S] = b + h[S \ {y}]
      BY <3>6, <3>7, <3>8
    <3>10. QED
      BY <3>6, <3>9
  <2>4. QED
    BY <2>1, <2>2, <2>3
<1>8. AddsUp(h, w, V)
  BY <1>5, <1>6, <1>7 DEF AddsUp
<1>9. QED
  BY <1>8

\* A finite set has such a g.
LEMMA Addition ==
  ASSUME NEW U, IsFiniteSet(U), NEW w, \A x \in U : w[x] \in Nat
  PROVE  \E g : AddsUp(g, w, U)
<1> DEFINE Sized == {n \in Nat : \A T \in SUBSET U : Cardinality(T) = n => \E g : AddsUp(g, w, T)}
<1>1. \A T \in SUBSET U : IsFiniteSet(T) /\ Cardinality(T) \in Nat
  BY FS_Subset, FS_CardinalityType
<1>2. 0 \in Sized
  <2>1. ASSUME NEW T \in SUBSET U, Cardinality(T) = 0 PROVE \E g : AddsUp(g, w, T)
    <3>1. T = {}
      BY <1>1, <2>1, FS_EmptySet
    <3>2. PICK g : g = [S \in SUBSET {} |-> 0]
      OBVIOUS
    <3>3. AddsUp(g, w, {})
      BY <3>2 DEF AddsUp
    <3>4. QED
      BY <3>1, <3>3
  <2>2. QED
    BY <2>1
<1>3. ASSUME NEW n \in Nat, n \in Sized PROVE n + 1 \in Sized
  <2>1. ASSUME NEW T \in SUBSET U, Cardinality(T) = n + 1 PROVE \E g : AddsUp(g, w, T)
    <3>1. T # {}
      BY <2>1, FS_EmptySet
    <3>2. PICK x : x \in T
      BY <3>1
    <3>3. T \ {x} \in SUBSET U /\ T = (T \ {x}) \union {x} /\ x \notin T \ {x}
      BY <3>2
    <3>4. Cardinality(T \ {x}) = n
      <4>1. Cardinality(T \ {x}) = Cardinality(T) - 1
        BY <1>1, <3>2, FS_RemoveElement
      <4>2. QED
        BY <2>1, <4>1
    <3>5. PICK g : AddsUp(g, w, T \ {x})
      BY <1>3, <3>3, <3>4
    <3>6. PICK V : V = T \ {x}
      OBVIOUS
    <3>7. \E h : AddsUp(h, w, V \union {x})
      BY <3>3, <3>5, <3>6, OneMore
    <3>8. QED
      BY <3>3, <3>6, <3>7
  <2>2. QED
    BY <2>1
<1>4. Nat \subseteq Sized
  <2> HIDE DEF Sized
  <2>1. QED
    BY <1>2, <1>3, Induction
<1>5. Cardinality(U) \in Sized /\ U \in SUBSET U
  BY <1>1, <1>4
<1>6. QED
  BY <1>5

\* and SumFunctionOnSet is what it gives.
LEMMA SumIs ==
  ASSUME NEW U, IsFiniteSet(U), NEW w, NEW g, AddsUp(g, w, U)
  PROVE  SumFunctionOnSet(w, U) = g[U]
<1> DEFINE pick(s) == CHOOSE x \in s : TRUE
           f(it) == [s \in SUBSET U |-> IF s = {} THEN 0 ELSE w[pick(s)] + it[s \ {pick(s)}]]
           iter == CHOOSE it : it = f(it)
<1>1. SumFunctionOnSet(w, U) = iter[U]
  BY Zenon DEF SumFunctionOnSet, FoldFunctionOnSet, MapThenFoldSet
<1>2. g \in [SUBSET U -> Nat] /\ g[{}] = 0
  BY DEF AddsUp
<1>3. \A s \in SUBSET U : s # {} => pick(s) \in s
  OBVIOUS
<1>4. \A s \in SUBSET U : \A x \in s : g[s] = w[x] + g[s \ {x}]
  BY DEF AddsUp
<1> HIDE DEF pick
<1>5. g = f(g)
  BY <1>2, <1>3, <1>4
<1>6. iter = f(iter)
  <2> HIDE DEF f
  <2>1. QED
    BY <1>5
<1> HIDE DEF iter
<1>7. \A s \in SUBSET U : iter[s] = IF s = {} THEN 0 ELSE w[pick(s)] + iter[s \ {pick(s)}]
  BY <1>6
<1> DEFINE Agreed == {n \in Nat : \A s \in SUBSET U : Cardinality(s) = n => iter[s] = g[s]}
<1>8. \A s \in SUBSET U : IsFiniteSet(s) /\ Cardinality(s) \in Nat
  BY FS_Subset, FS_CardinalityType
<1>9. 0 \in Agreed
  <2>1. \A s \in SUBSET U : Cardinality(s) = 0 => s = {}
    BY <1>8, FS_EmptySet
  <2>2. QED
    BY <1>2, <1>7, <2>1
<1>10. ASSUME NEW n \in Nat, n \in Agreed PROVE n + 1 \in Agreed
  <2>1. ASSUME NEW s \in SUBSET U, Cardinality(s) = n + 1 PROVE iter[s] = g[s]
    <3>1. s # {}
      BY <2>1, FS_EmptySet
    <3>2. PICK x : x = pick(s)
      OBVIOUS
    <3>3. x \in s /\ s \ {x} \in SUBSET U
      BY <1>3, <3>1, <3>2
    <3>4. Cardinality(s \ {x}) = n
      <4>1. Cardinality(s \ {x}) = Cardinality(s) - 1
        BY <1>8, <3>3, FS_RemoveElement
      <4>2. QED
        BY <2>1, <4>1
    <3>5. iter[s \ {x}] = g[s \ {x}]
      BY <1>10, <3>3, <3>4
    <3>6. iter[s] = w[x] + iter[s \ {x}]
      BY <1>7, <3>1, <3>2
    <3>7. QED
      BY <1>4, <3>3, <3>5, <3>6
  <2>2. QED
    BY <2>1
<1>11. Nat \subseteq Agreed
  <2> HIDE DEF Agreed
  <2>1. QED
    BY <1>9, <1>10, Induction
<1>12. Cardinality(U) \in Agreed /\ U \in SUBSET U
  BY <1>8, <1>11
<1>13. QED
  BY <1>1, <1>12

\* The sum over a set with one element less, over nothing, and of functions that agree.
LEMMA SumOf ==
  ASSUME NEW U, IsFiniteSet(U), NEW w, \A x \in U : w[x] \in Nat
  PROVE  /\ SumFunctionOnSet(w, U) \in Nat
         /\ U = {} => SumFunctionOnSet(w, U) = 0
         /\ \A x \in U : SumFunctionOnSet(w, U) = w[x] + SumFunctionOnSet(w, U \ {x})
         /\ \A v : (\A x \in U : v[x] = w[x]) => SumFunctionOnSet(v, U) = SumFunctionOnSet(w, U)
<1>1. PICK g : AddsUp(g, w, U)
  BY Addition
<1>2. SumFunctionOnSet(w, U) = g[U]
  BY <1>1, SumIs
<1>3. /\ g \in [SUBSET U -> Nat] /\ g[{}] = 0
      /\ \A S \in SUBSET U : \A x \in S : g[S] = w[x] + g[S \ {x}]
  BY <1>1 DEF AddsUp
<1>4. ASSUME NEW x \in U PROVE SumFunctionOnSet(w, U) = w[x] + SumFunctionOnSet(w, U \ {x})
  <2>1. PICK V : V = U \ {x}
    OBVIOUS
  <2>2. V \in SUBSET U /\ SUBSET V \subseteq SUBSET U /\ IsFiniteSet(V)
    BY <2>1, FS_Subset
  <2>3. PICK h : h = [S \in SUBSET V |-> g[S]]
    OBVIOUS
  <2>4. h \in [SUBSET V -> Nat] /\ \A S \in SUBSET V : h[S] = g[S]
    BY <1>3, <2>2, <2>3
  <2>5. AddsUp(h, w, V)
    <3>1. h[{}] = 0
      BY <1>3, <2>4
    <3>2. ASSUME NEW S \in SUBSET V, NEW y \in S PROVE h[S] = w[y] + h[S \ {y}]
      <4>1. S \in SUBSET U /\ S \ {y} \in SUBSET V
        BY <2>2
      <4>2. QED
        BY <1>3, <2>4, <4>1
    <3>3. QED
      BY <2>4, <3>1, <3>2 DEF AddsUp
  <2>6. SumFunctionOnSet(w, V) = h[V]
    BY <2>2, <2>5, SumIs
  <2>7. h[V] = g[V]
    BY <2>4
  <2>8. g[U] = w[x] + g[U \ {x}]
    BY <1>3
  <2>9. QED
    BY <1>2, <2>1, <2>6, <2>7, <2>8
<1>5. ASSUME NEW v, \A x \in U : v[x] = w[x]
      PROVE  SumFunctionOnSet(v, U) = SumFunctionOnSet(w, U)
  <2>1. AddsUp(g, v, U)
    <3>1. ASSUME NEW S \in SUBSET U, NEW x \in S PROVE g[S] = v[x] + g[S \ {x}]
      BY <1>3, <1>5
    <3>2. QED
      BY <1>3, <3>1 DEF AddsUp
  <2>2. QED
    BY <1>2, <2>1, SumIs
<1>6. QED
  BY <1>2, <1>3, <1>4, <1>5

(***************************************************************************)
(* The invariant is inductive.                                             *)
(***************************************************************************)

\* It holds at first.
LEMMA InitInv == Init => IInv
<1> SUFFICES ASSUME Init PROVE IInv
  OBVIOUS
<1>1. Types
  BY BudgetAssumption DEF Init, Types, Places
<1>2. PastDaily \in SUBSET Calls /\ PastMonthly \in SUBSET Calls
  BY DEF PastDaily, PastMonthly
<1>3. SpendBounded
  <2>1. Within(0, DailyLimit, PastDaily) /\ Within(0, MonthlyLimit, PastMonthly)
    BY <1>2, BelowLimit, BudgetAssumption
  <2>2. QED
    BY <2>1, SpendIsWithin DEF Init
<1>4. DayInMonth
  BY DEF Init, DayInMonth, BudgetConsistent
<1>5. BilledIsAccounted
  <2>1. PICK w : w = cost
    OBVIOUS
  <2>2. Owing = {} /\ unrecorded = 0
    BY DEF Init, Owing
  <2>3. SumFunctionOnSet(w, {}) = 0
    BY SumOf, FS_EmptySet
  <2>4. SumFunctionOnSet(cost, Owing) = 0
    BY <2>1, <2>2, <2>3
  <2>5. QED
    BY <2>2, <2>4 DEF BilledIsAccounted, Owing
<1>6. QED
  BY <1>1, <1>3, <1>4, <1>5 DEF IInv

\* Where the ledger stays as it is, a call that only falls out of the sets keeps
\* the bound.
LEMMA SpendKept ==
  ASSUME IInv, UNCHANGED <<today, thisMonth>>,
         PastDaily' \subseteq PastDaily, PastMonthly' \subseteq PastMonthly
  PROVE  SpendBounded'
<1>1. PastDaily \in SUBSET Calls /\ PastMonthly \in SUBSET Calls
  BY DEF PastDaily, PastMonthly
<1>2. today \in Nat /\ thisMonth \in Nat /\ DailyLimit \in Nat /\ MonthlyLimit \in Nat
  BY BudgetAssumption DEF IInv, Types
<1>3. Within(today, DailyLimit, PastDaily) /\ Within(thisMonth, MonthlyLimit, PastMonthly)
  BY SpendIsWithin DEF IInv
<1>4. Within(today, DailyLimit, PastDaily') /\ Within(thisMonth, MonthlyLimit, PastMonthly')
  BY <1>1, <1>2, <1>3, FewerCalls
<1>5. QED
  BY <1>4 DEF SpendBounded, Within

\* With its month, the day voids what the endpoint is about to show.
LEMMA MonthVoids ==
  ASSUME budget' = [budget EXCEPT !.void = (budget.at # "idle")]
  PROVE  \/ budget' = [budget EXCEPT !.void = TRUE]
         \/ budget.at = "idle" /\ budget' = [budget EXCEPT !.void = FALSE]
<1>1. CASE budget.at # "idle"
  <2>1. (budget.at # "idle") = TRUE
    BY <1>1, Zenon
  <2>2. QED
    BY <2>1, Zenon
<1>2. CASE budget.at = "idle"
  <2>1. (budget.at # "idle") = FALSE
    BY <1>2, Zenon
  <2>2. QED
    BY <1>2, <2>1, Zenon
<1>3. QED
  BY <1>1, <1>2

\* Every step keeps the types.
LEMMA TypesKept == Types /\ [Next]_vars => Types'
<1> SUFFICES ASSUME Types, [Next]_vars PROVE Types'
  OBVIOUS
<1> USE BudgetAssumption
<1>1. CASE UNCHANGED vars
  BY <1>1 DEF Types, vars
<1>2. ASSUME NEW c \in Calls, Ask(c) PROVE Types'
  BY <1>2 DEF Types, Ask, GoTo, Places, ledger
<1>3. ASSUME NEW c \in Calls, Disconnect(c) PROVE Types'
  BY <1>3 DEF Types, Disconnect, ledger
<1>4. ASSUME NEW c \in Calls, Lookup(c) PROVE Types'
  BY <1>4 DEF Types, Lookup, GoTo, Places, ledger
<1>5. ASSUME NEW c \in Calls, CheckDaily(c) PROVE Types'
  BY <1>5 DEF Types, CheckDaily, GoTo, Places, ledger
<1>6. ASSUME NEW c \in Calls, CheckMonthly(c) PROVE Types'
  BY <1>6 DEF Types, CheckMonthly, GoTo, Places, ledger
<1>7. ASSUME NEW c \in Calls, Complete(c) PROVE Types'
  <2>1. PICK ok \in BOOLEAN, price \in Costs :
          /\ GoTo(c, IF ok THEN "store" ELSE "idle")
          /\ cost' = IF ok THEN [cost EXCEPT ![c] = price] ELSE cost
    BY <1>7 DEF Complete, Outcomes
  <2>2. UNCHANGED <<prompt, cached, gone, ledger, budget>>
    BY <1>7 DEF Complete
  <2>3. QED
    BY <2>1, <2>2 DEF Types, GoTo, Places, ledger
<1>8. ASSUME NEW c \in Calls, Store(c) PROVE Types'
  BY <1>8 DEF Types, Store, AfterStore, GoTo, Places, ledger
<1>9. ASSUME NEW c \in Calls, Record(c) PROVE Types'
  <2>1. PICK ok \in BOOLEAN :
          /\ today' = IF ok THEN today + cost[c] ELSE today
          /\ thisMonth' = IF ok THEN thisMonth + cost[c] ELSE thisMonth
          /\ GoTo(c, "idle")
    BY <1>9 DEF Record, Outcomes, AfterRecord
  <2>2. /\ cost' = [cost EXCEPT ![c] = IF pc'[c] = "idle" THEN 0 ELSE @]
        /\ UNCHANGED <<prompt, cached, gone, days, budget>>
    BY <1>9 DEF Record
  <2>3. cost[c] \in Nat
    BY Prices
  <2>4. today' \in Nat /\ thisMonth' \in Nat
    BY <2>1, <2>3 DEF Types
  <2>5. QED
    BY <2>1, <2>2, <2>4 DEF Types, GoTo, Places
<1>10. ASSUME NEW step \in 1..2, BudgetRead(step) PROVE Types'
  <2>1. ReadInTurn(step) = IF step = 1 THEN "daily" ELSE "monthly"
    BY DEF ReadInTurn
  <2>2. PICK ok \in BOOLEAN :
          budget' = [budget EXCEPT
                       !.at = IF step = 1 THEN "second" ELSE "reply",
                       !.void = budget.void \/ ~ok,
                       ![ReadInTurn(step)] =
                          CASE ~ok -> 0
                            [] ReadInTurn(step) = "daily" -> today
                            [] OTHER -> thisMonth]
    BY <1>10 DEF BudgetRead
  <2>3. UNCHANGED <<pc, prompt, cost, gone, cached, ledger>>
    BY <1>10 DEF BudgetRead
  <2>4. budget' \in [at : {"idle", "second", "reply"}, daily : Nat, monthly : Nat, void : BOOLEAN]
    <3>1. CASE step = 1
      BY <2>1, <2>2, <3>1 DEF Types
    <3>2. CASE step = 2
      BY <2>1, <2>2, <3>2 DEF Types
    <3>3. QED
      BY <3>1, <3>2
  <2>5. QED
    BY <2>3, <2>4 DEF Types, ledger
<1>11. CASE BudgetReply
  BY <1>11 DEF Types, BudgetReply, ledger
<1>12. ASSUME NEW p \in Prompts, Expire(p) PROVE Types'
  BY <1>12 DEF Types, Expire, ledger
<1>13. CASE Midnight
  <2>1. \/ UNCHANGED budget
        \/ budget' = [budget EXCEPT !.void = TRUE]
        \/ budget' = [budget EXCEPT !.void = FALSE]
    BY <1>13, MonthVoids, Zenon DEF Midnight
  <2>2. (UNCHANGED thisMonth \/ thisMonth' = 0) /\ today' = 0 /\ days' = days + 1
        /\ UNCHANGED <<pc, prompt, cost, gone, cached>>
    BY <1>13, Zenon DEF Midnight
  <2>3. budget' \in [at : {"idle", "second", "reply"}, daily : Nat, monthly : Nat, void : BOOLEAN]
    <3>1. budget \in [at : {"idle", "second", "reply"}, daily : Nat, monthly : Nat, void : BOOLEAN]
      BY DEF Types
    <3>2. CASE UNCHANGED budget
      BY <3>1, <3>2
    <3>3. CASE budget' = [budget EXCEPT !.void = TRUE]
      BY <3>1, <3>3
    <3>4. CASE budget' = [budget EXCEPT !.void = FALSE]
      BY <3>1, <3>4
    <3>5. QED
      BY <2>1, <3>2, <3>3, <3>4
  <2>4. QED
    BY <2>2, <2>3 DEF Types
<1>14. QED
  BY <1>1, <1>2, <1>3, <1>4, <1>5, <1>6, <1>7, <1>8, <1>9, <1>10, <1>11, <1>12, <1>13
     DEF Next, CallStep

\* Every step keeps the bound on what is spent.
LEMMA SpendBoundedKept == IInv /\ [Next]_vars => SpendBounded'
<1> SUFFICES ASSUME IInv, [Next]_vars PROVE SpendBounded'
  OBVIOUS
<1> USE DEF PastDaily, PastMonthly
<1>1. Types /\ Types'
  BY TypesKept DEF IInv
<1>2. CASE UNCHANGED vars
  BY <1>2, SpendKept DEF vars
<1>3. ASSUME NEW c \in Calls, Ask(c) PROVE SpendBounded'
  BY <1>1, <1>3, SpendKept DEF Types, Ask, GoTo, ledger
<1>4. ASSUME NEW c \in Calls, Disconnect(c) PROVE SpendBounded'
  BY <1>1, <1>4, SpendKept DEF Types, Disconnect, ledger
<1>5. ASSUME NEW c \in Calls, Lookup(c) PROVE SpendBounded'
  BY <1>1, <1>5, SpendKept DEF Types, Lookup, GoTo, ledger
<1>6. ASSUME NEW c \in Calls, CheckDaily(c) PROVE SpendBounded'
  <2>1. CASE pc'[c] = "idle"
    BY <1>1, <1>6, <2>1, SpendKept DEF Types, CheckDaily, GoTo, ledger
  <2>2. CASE pc'[c] # "idle"
    <3>1. today < DailyLimit /\ UNCHANGED <<today, thisMonth>> /\ PastMonthly' = PastMonthly
      BY <1>1, <1>6, <2>2 DEF Types, CheckDaily, GoTo, ledger, HasRoom
    <3>2. PastDaily' \in SUBSET Calls
      OBVIOUS
    <3>3. Within(today, DailyLimit, PastDaily')
      BY <1>1, <3>1, <3>2, BelowLimit, BudgetAssumption DEF Types
    <3>4. Within(thisMonth, MonthlyLimit, PastMonthly)
      BY SpendIsWithin DEF IInv
    <3>5. QED
      BY <3>1, <3>3, <3>4 DEF SpendBounded, Within
  <2>3. QED
    BY <2>1, <2>2
<1>7. ASSUME NEW c \in Calls, CheckMonthly(c) PROVE SpendBounded'
  <2>1. CASE pc'[c] = "idle"
    BY <1>1, <1>7, <2>1, SpendKept DEF Types, CheckMonthly, GoTo, ledger
  <2>2. CASE pc'[c] # "idle"
    <3>1. thisMonth < MonthlyLimit /\ UNCHANGED <<today, thisMonth>> /\ PastDaily' = PastDaily
      BY <1>1, <1>7, <2>2 DEF Types, CheckMonthly, GoTo, ledger, HasRoom
    <3>2. PastMonthly' \in SUBSET Calls
      OBVIOUS
    <3>3. Within(thisMonth, MonthlyLimit, PastMonthly')
      BY <1>1, <3>1, <3>2, BelowLimit, BudgetAssumption DEF Types
    <3>4. Within(today, DailyLimit, PastDaily)
      BY SpendIsWithin DEF IInv
    <3>5. QED
      BY <3>1, <3>3, <3>4 DEF SpendBounded, Within
  <2>3. QED
    BY <2>1, <2>2
<1>8. ASSUME NEW c \in Calls, Complete(c) PROVE SpendBounded'
  <2>1. UNCHANGED <<today, thisMonth>> /\ pc[c] = "complete"
        /\ (GoTo(c, "store") \/ GoTo(c, "idle"))
    BY <1>8 DEF Complete, ledger
  <2>2. QED
    BY <1>1, <2>1, SpendKept DEF Types, GoTo
<1>9. ASSUME NEW c \in Calls, Store(c) PROVE SpendBounded'
  BY <1>1, <1>9, SpendKept DEF Types, Store, AfterStore, GoTo, ledger
<1>10. ASSUME NEW c \in Calls, Record(c) PROVE SpendBounded'
  <2>1. PICK ok \in BOOLEAN :
          /\ today' = IF ok THEN today + cost[c] ELSE today
          /\ thisMonth' = IF ok THEN thisMonth + cost[c] ELSE thisMonth
          /\ pc' = [pc EXCEPT ![c] = "idle"]
    BY <1>10 DEF Record, Outcomes, AfterRecord, GoTo
  <2>2. pc[c] = "record"
    BY <1>10 DEF Record
  <2>3. /\ PastDaily \in SUBSET Calls /\ c \in PastDaily /\ PastDaily' = PastDaily \ {c}
        /\ PastMonthly \in SUBSET Calls /\ c \in PastMonthly /\ PastMonthly' = PastMonthly \ {c}
    BY <1>1, <2>1, <2>2 DEF Types
  <2>4. Within(today, DailyLimit, PastDaily) /\ Within(thisMonth, MonthlyLimit, PastMonthly)
    BY SpendIsWithin DEF IInv
  <2>5. CASE ~ok
    BY <2>1, <2>3, <2>5, SpendKept
  <2>6. CASE ok
    <3>1. /\ cost[c] \in 0 .. MaxCost /\ today \in Nat /\ thisMonth \in Nat
          /\ DailyLimit \in Nat /\ MonthlyLimit \in Nat
      BY <1>1, Prices, BudgetAssumption DEF Types
    <3>2. Within(today + cost[c], DailyLimit, PastDaily \ {c})
      BY <2>3, <2>4, <3>1, CallRecords
    <3>3. Within(thisMonth + cost[c], MonthlyLimit, PastMonthly \ {c})
      BY <2>3, <2>4, <3>1, CallRecords
    <3>4. today' = today + cost[c] /\ thisMonth' = thisMonth + cost[c]
      BY <2>1, <2>6
    <3>5. QED
      BY <2>3, <3>2, <3>3, <3>4 DEF SpendBounded, Within
  <2>7. QED
    BY <2>5, <2>6
<1>11. ASSUME NEW step \in 1..2, BudgetRead(step) PROVE SpendBounded'
  BY <1>11, SpendKept DEF BudgetRead, ledger
<1>12. CASE BudgetReply
  BY <1>12, SpendKept DEF BudgetReply, ledger
<1>13. ASSUME NEW p \in Prompts, Expire(p) PROVE SpendBounded'
  BY <1>13, SpendKept DEF Expire, ledger
<1>14. CASE Midnight
  <2>1. today' = 0 /\ (thisMonth' = thisMonth \/ thisMonth' = 0) /\ UNCHANGED pc
    BY <1>14 DEF Midnight
  <2>2. PastDaily \in SUBSET Calls /\ PastMonthly \in SUBSET Calls
        /\ PastDaily' = PastDaily /\ PastMonthly' = PastMonthly
    BY <2>1
  <2>3. Within(0, DailyLimit, PastDaily) /\ Within(0, MonthlyLimit, PastMonthly)
    BY <2>2, BelowLimit, BudgetAssumption
  <2>4. Within(thisMonth, MonthlyLimit, PastMonthly)
    BY SpendIsWithin DEF IInv
  <2>5. QED
    BY <2>1, <2>2, <2>3, <2>4 DEF SpendBounded, Within
<1>15. QED
  BY <1>2, <1>3, <1>4, <1>5, <1>6, <1>7, <1>8, <1>9, <1>10, <1>11, <1>12, <1>13, <1>14
     DEF Next, CallStep

\* Every step keeps the day within its month, and what has been read of it.
LEMMA DayInMonthKept == IInv /\ [Next]_vars => DayInMonth'
<1> SUFFICES ASSUME IInv, [Next]_vars PROVE DayInMonth'
  OBVIOUS
<1>1. /\ today \in Nat /\ thisMonth \in Nat /\ today <= thisMonth
      /\ budget \in [at : {"idle", "second", "reply"}, daily : Nat, monthly : Nat, void : BOOLEAN]
      /\ budget.at = "second" /\ ~budget.void => budget.daily <= thisMonth
      /\ budget.at = "reply" /\ ~budget.void => budget.daily <= budget.monthly
  BY DEF IInv, Types, DayInMonth, BudgetConsistent
<1>2. CASE UNCHANGED <<today, thisMonth, budget>>
  BY <1>1, <1>2 DEF DayInMonth, BudgetConsistent
<1>3. ASSUME NEW c \in Calls, Record(c) PROVE DayInMonth'
  <2>1. \E ok \in BOOLEAN :
          /\ today' = IF ok THEN today + cost[c] ELSE today
          /\ thisMonth' = IF ok THEN thisMonth + cost[c] ELSE thisMonth
    BY <1>3 DEF Record, Outcomes
  <2>2. cost[c] \in Nat /\ UNCHANGED budget
    BY <1>3, Prices DEF Record, IInv
  <2>3. QED
    BY <1>1, <2>1, <2>2 DEF DayInMonth, BudgetConsistent
<1>4. ASSUME NEW step \in 1..2, BudgetRead(step) PROVE DayInMonth'
  <2>1. ReadInTurn(step) = IF step = 1 THEN "daily" ELSE "monthly"
    BY DEF ReadInTurn
  <2>2. PICK ok \in BOOLEAN :
          budget' = [budget EXCEPT
                       !.at = IF step = 1 THEN "second" ELSE "reply",
                       !.void = budget.void \/ ~ok,
                       ![ReadInTurn(step)] =
                          CASE ~ok -> 0
                            [] ReadInTurn(step) = "daily" -> today
                            [] OTHER -> thisMonth]
    BY <1>4 DEF BudgetRead
  <2>3. UNCHANGED <<today, thisMonth>> /\ budget.at = IF step = 1 THEN "idle" ELSE "second"
    BY <1>4 DEF BudgetRead, ledger
  <2>4. CASE step = 1
    BY <1>1, <2>1, <2>2, <2>3, <2>4 DEF DayInMonth, BudgetConsistent
  <2>5. CASE step = 2
    BY <1>1, <2>1, <2>2, <2>3, <2>5 DEF DayInMonth, BudgetConsistent
  <2>6. QED
    BY <2>4, <2>5
<1>5. CASE BudgetReply
  BY <1>1, <1>5 DEF BudgetReply, ledger, DayInMonth, BudgetConsistent
<1>6. CASE Midnight
  <2>1. today' = 0
    BY <1>6, Zenon DEF Midnight
  <2>2. CASE UNCHANGED <<thisMonth, budget>>
    BY <1>1, <2>1, <2>2 DEF DayInMonth, BudgetConsistent
  <2>3. CASE thisMonth' = 0 /\ budget' = [budget EXCEPT !.void = (budget.at # "idle")]
    <3>1. thisMonth' = 0
      BY <2>3, Zenon
    <3>2. CASE budget' = [budget EXCEPT !.void = TRUE]
      BY <1>1, <2>1, <3>1, <3>2 DEF DayInMonth, BudgetConsistent
    <3>3. CASE budget.at = "idle" /\ budget' = [budget EXCEPT !.void = FALSE]
      BY <1>1, <2>1, <3>1, <3>3 DEF DayInMonth, BudgetConsistent
    <3>4. QED
      BY <2>3, <3>2, <3>3, MonthVoids, Zenon
  <2>4. QED
    BY <1>6, <2>2, <2>3, Zenon DEF Midnight
<1>7. ASSUME NEW c \in Calls,
             \/ Ask(c) \/ Disconnect(c) \/ Lookup(c) \/ CheckDaily(c) \/ CheckMonthly(c)
             \/ Complete(c) \/ Store(c)
      PROVE  UNCHANGED <<today, thisMonth, budget>>
  BY <1>7 DEF Ask, Disconnect, Lookup, CheckDaily, CheckMonthly, Complete, Store, ledger
<1>8. ASSUME NEW p \in Prompts, Expire(p) PROVE UNCHANGED <<today, thisMonth, budget>>
  BY <1>8 DEF Expire, ledger
<1>9. UNCHANGED vars => UNCHANGED <<today, thisMonth, budget>>
  BY DEF vars
<1>10. QED
  BY <1>2, <1>3, <1>4, <1>5, <1>6, <1>7, <1>8, <1>9 DEF Next, CallStep

\* What is unrecorded is the sum over the calls that owe it: an answer adds its price
\* together with its call, and Record takes away both.
LEMMA BilledKept == IInv /\ [Next]_vars => BilledIsAccounted'
<1> SUFFICES ASSUME IInv, [Next]_vars PROVE BilledIsAccounted'
  OBVIOUS
<1>1. Types /\ Types'
  BY TypesKept DEF IInv
<1>2. PICK w, S : w = cost /\ S = Owing
  OBVIOUS
<1>3. unrecorded = SumFunctionOnSet(w, S)
  BY <1>2, Zenon DEF IInv, BilledIsAccounted, Owing
<1>4. PICK v, T : v = cost' /\ T = Owing'
  OBVIOUS
<1>5. S \in SUBSET Calls /\ T \in SUBSET Calls /\ IsFiniteSet(S) /\ IsFiniteSet(T)
  BY <1>2, <1>4, CallSets DEF Owing
<1>6. (\A c \in Calls : w[c] \in Nat) /\ (\A c \in Calls : v[c] \in Nat)
  <2>1. \A c \in Calls : cost[c] \in Nat
    BY <1>1, Prices
  <2>2. \A c \in Calls : cost'[c] \in Nat
    <3>1. \A c \in Calls : cost'[c] \in Costs \union {0}
      BY <1>1 DEF Types
    <3>2. Costs \union {0} \subseteq Nat
      BY BudgetAssumption
    <3>3. QED
      BY <3>1, <3>2
  <2>3. QED
    BY <1>2, <1>4, <2>1, <2>2
<1> SUFFICES unrecorded' = SumFunctionOnSet(v, T)
  BY <1>4, Zenon DEF BilledIsAccounted, Owing
<1>7. CASE UNCHANGED <<cost, unrecorded>> /\ Owing' = Owing
  BY <1>2, <1>3, <1>4, <1>7
<1>8. ASSUME NEW c \in Calls, Complete(c) PROVE unrecorded' = SumFunctionOnSet(v, T)
  <2>1. pc[c] = "complete"
    BY <1>8 DEF Complete
  <2>2. PICK ok \in BOOLEAN, price \in Costs :
          IF ok
          THEN /\ GoTo(c, "store")
               /\ cost' = [cost EXCEPT ![c] = price]
               /\ unrecorded' = unrecorded + price
          ELSE GoTo(c, "idle") /\ UNCHANGED <<cost, unrecorded>>
    BY <1>8 DEF Complete, Outcomes
  <2>3. CASE ok
    <3>1. T = S \union {c} /\ c \notin S /\ T \ {c} = S /\ c \in T
      BY <1>1, <1>2, <1>4, <2>1, <2>2, <2>3 DEF GoTo, Types, Owing
    <3>2. v[c] = price /\ \A x \in S : v[x] = w[x]
      BY <1>1, <1>2, <1>4, <2>2, <2>3, <3>1 DEF Types, Owing
    <3>3. SumFunctionOnSet(v, T) = v[c] + SumFunctionOnSet(v, T \ {c})
      BY <1>5, <1>6, <3>1, SumOf
    <3>4. SumFunctionOnSet(v, S) = SumFunctionOnSet(w, S) /\ SumFunctionOnSet(w, S) \in Nat
      BY <1>5, <1>6, <3>2, SumOf
    <3>5. unrecorded' = unrecorded + price /\ price \in Nat
      BY <2>2, <2>3, BudgetAssumption
    <3>6. SumFunctionOnSet(v, T) = price + SumFunctionOnSet(w, S)
      BY <3>1, <3>2, <3>3, <3>4
    <3>7. QED
      BY <1>3, <3>4, <3>5, <3>6
  <2>4. CASE ~ok
    <3>1. Owing' = Owing
      BY <1>1, <2>1, <2>2, <2>4 DEF GoTo, Types, Owing
    <3>2. QED
      BY <1>7, <2>2, <2>4, <3>1
  <2>5. QED
    BY <2>3, <2>4
<1>9. ASSUME NEW c \in Calls, Record(c) PROVE unrecorded' = SumFunctionOnSet(v, T)
  <2>1. /\ pc[c] = "record" /\ GoTo(c, "idle") /\ unrecorded' = unrecorded - cost[c]
        /\ cost' = [cost EXCEPT ![c] = IF pc'[c] = "idle" THEN 0 ELSE @]
    BY <1>9 DEF Record, AfterRecord
  <2>2. T = S \ {c} /\ c \in S
    BY <1>1, <1>2, <1>4, <2>1 DEF GoTo, Types, Owing
  <2>3. \A x \in T : v[x] = w[x]
    BY <1>1, <1>2, <1>4, <2>1, <2>2 DEF Types, Owing
  <2>4. SumFunctionOnSet(w, S) = w[c] + SumFunctionOnSet(w, S \ {c})
    BY <1>5, <1>6, <2>2, SumOf
  <2>5. SumFunctionOnSet(v, T) = SumFunctionOnSet(w, T) /\ SumFunctionOnSet(w, T) \in Nat
    BY <1>5, <1>6, <2>3, SumOf
  <2>6. w[c] \in Nat /\ w[c] = cost[c]
    BY <1>2, <1>6
  <2>7. QED
    BY <1>3, <2>1, <2>2, <2>4, <2>5, <2>6
<1>10. ASSUME NEW c \in Calls,
              Ask(c) \/ Disconnect(c) \/ Lookup(c) \/ CheckDaily(c) \/ CheckMonthly(c) \/ Store(c)
       PROVE  UNCHANGED <<cost, unrecorded>> /\ Owing' = Owing
  <2>1. UNCHANGED <<cost, unrecorded>>
    BY <1>10 DEF Ask, Disconnect, Lookup, CheckDaily, CheckMonthly, Store
  <2>2. CASE UNCHANGED pc
    BY <2>1, <2>2 DEF Owing
  <2>3. CASE \E place \in Places :
               GoTo(c, place) /\ (place \in {"store", "record"} <=> pc[c] \in {"store", "record"})
    BY <1>1, <2>1, <2>3 DEF GoTo, Types, Owing
  <2>4. UNCHANGED pc \/ \E place \in Places :
          GoTo(c, place) /\ (place \in {"store", "record"} <=> pc[c] \in {"store", "record"})
    <3>1. CASE Ask(c)
      BY <3>1 DEF Ask, Places
    <3>2. CASE Disconnect(c)
      BY <3>2 DEF Disconnect
    <3>3. CASE Lookup(c)
      BY <3>3 DEF Lookup, Places
    <3>4. CASE CheckDaily(c)
      BY <3>4 DEF CheckDaily, Places
    <3>5. CASE CheckMonthly(c)
      BY <3>5 DEF CheckMonthly, Places
    <3>6. CASE Store(c)
      BY <3>6 DEF Store, AfterStore, Places
    <3>7. QED
      BY <1>10, <3>1, <3>2, <3>3, <3>4, <3>5, <3>6
  <2>5. QED
    BY <2>1, <2>2, <2>3, <2>4
<1>11. ASSUME UNCHANGED <<pc, cost, unrecorded>>
       PROVE  UNCHANGED <<cost, unrecorded>> /\ Owing' = Owing
  BY <1>11 DEF Owing
<1>12. ASSUME NEW step \in 1..2, BudgetRead(step) PROVE UNCHANGED <<pc, cost, unrecorded>>
  BY <1>12 DEF BudgetRead
<1>13. BudgetReply => UNCHANGED <<pc, cost, unrecorded>>
  BY DEF BudgetReply
<1>14. ASSUME NEW p \in Prompts, Expire(p) PROVE UNCHANGED <<pc, cost, unrecorded>>
  BY <1>14 DEF Expire
<1>15. Midnight => UNCHANGED <<pc, cost, unrecorded>>
  BY Zenon DEF Midnight
<1>16. UNCHANGED vars => UNCHANGED <<pc, cost, unrecorded>>
  BY DEF vars
<1>17. QED
  BY <1>7, <1>8, <1>9, <1>10, <1>11, <1>12, <1>13, <1>14, <1>15, <1>16 DEF Next, CallStep

\* The invariant holds of every behaviour.
LEMMA Invariant == Spec => []IInv
<1>1. IInv /\ [Next]_vars => IInv'
  BY TypesKept, SpendBoundedKept, DayInMonthKept, BilledKept DEF IInv
<1>2. QED
  BY <1>1, InitInv, PTL DEF Spec

(***************************************************************************)
(* The theorems.                                                           *)
(***************************************************************************)

\* Guard.Allow and Record are not atomic, but however many callers there are, what
\* is spent and may still be spent stays below the limit and one answer for each.
THEOREM SpendIsBounded == Spec => []SpendBounded
<1>1. IInv => SpendBounded
  BY DEF IInv
<1>2. QED
  BY <1>1, Invariant, PTL

\* The budget endpoint, with its two reads in this order, never shows a day that
\* costs more than its month, whatever is recorded between them.
THEOREM BudgetIsConsistent == Spec => []BudgetConsistent
<1>1. IInv => BudgetConsistent
  BY DEF IInv, DayInMonth
<1>2. QED
  BY <1>1, Invariant, PTL

\* No answer that was paid for goes back to its caller without an attempt to record it,
\* and none is recorded twice, whatever fails on the way and whoever has left.
THEOREM PaidIsAccounted == Spec => []BilledIsAccounted
<1>1. IInv => BilledIsAccounted
  BY DEF IInv
<1>2. QED
  BY <1>1, Invariant, PTL

\* Every variable keeps its type; what is unrecorded never becomes negative, since it is
\* a sum of prices.
THEOREM TypeCorrect == Spec => []TypeOK
<1>1. IInv => TypeOK
  <2> SUFFICES ASSUME IInv PROVE TypeOK
    OBVIOUS
  <2>1. Types
    BY DEF IInv
  <2>2. PICK w, S : w = cost /\ S = Owing
    OBVIOUS
  <2>3. S \in SUBSET Calls /\ \A c \in S : w[c] \in Nat
    BY <2>1, <2>2, Prices DEF Owing
  <2>4. SumFunctionOnSet(w, S) \in Nat
    BY <2>3, CallSets, SumOf
  <2>5. unrecorded = SumFunctionOnSet(w, S)
    BY <2>2, Zenon DEF IInv, BilledIsAccounted, Owing
  <2>6. QED
    BY <2>1, <2>4, <2>5 DEF TypeOK, Types
<1>2. QED
  BY <1>1, Invariant, PTL
=============================================================================
