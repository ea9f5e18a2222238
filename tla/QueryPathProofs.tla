--------------------------- MODULE QueryPathProofs ---------------------------
(***************************************************************************)
(* Theorems about the way of a query: whatever fields, columns, limits and *)
(* requests there are, the compiler refuses what the rules accept for a    *)
(* column outside the adapter's list only, and the statement reads granted *)
(* columns only.                                                           *)
(***************************************************************************)
EXTENDS QueryPath, WellFoundedInduction, TLAPS

(***************************************************************************)
(* Every non-empty set of naturals has a least element.                    *)
(***************************************************************************)
LEMMA LeastNatural ==
  ASSUME NEW S \in SUBSET Nat, S # {}
  PROVE  \E m \in S : \A k \in S : m <= k
<1> DEFINE R == OpToRel(<, Nat)
<1>1. \E m \in S : \A k \in S : ~(<<k, m>> \in R)
  <2>1. IsWellFoundedOn(R, Nat)
    BY NatLessThanWellFounded
  <2> HIDE DEF R
  <2> QED BY <2>1, WFMin
<1>2. \A k, m \in Nat : k < m => <<k, m>> \in R
  BY DEF OpToRel
<1> HIDE DEF R
<1>3. PICK m \in S : \A k \in S : ~(<<k, m>> \in R)
  BY <1>1
<1>4. \A k \in S : m <= k
  <2> TAKE k \in S
  <2>1. ~(k < m)
    BY <1>2, <1>3
  <2> QED BY <2>1
<1> QED BY <1>4

(***************************************************************************)
(* Induction from b to n, over the set of the numbers that have been shown *)
(* to be good.                                                             *)
(***************************************************************************)
LEMMA CountUp ==
  ASSUME NEW b \in Nat, NEW n \in Nat, NEW Good,
         b \in Good,
         \A i \in b + 1 .. n : i - 1 \in Good => i \in Good
  PROVE  b .. n \subseteq Good
<1> DEFINE Bad == {i \in b .. n : i \notin Good}
<1>1. SUFFICES ASSUME Bad # {} PROVE FALSE
  OBVIOUS
<1>2. Bad \in SUBSET Nat
  OBVIOUS
<1>3. PICK m \in Bad : \A k \in Bad : m <= k
  BY <1>1, <1>2, LeastNatural
<1>4. m \in b + 1 .. n /\ m - 1 \in b .. n /\ ~(m <= m - 1)
  BY <1>3
<1>5. m - 1 \in Good
  BY <1>3, <1>4
<1>6. QED
  BY <1>3, <1>4, <1>5

------------------------------------------------------------------------------
(***************************************************************************)
(* The recursion of FlattenSeq: f[i] is what the first i sequences of s    *)
(* make.  There is such a function, built one sequence at a time.          *)
(***************************************************************************)
Flattens(s, f, n) == \A i \in 1 .. n : f[i] = IF i = 1 THEN s[i] ELSE f[i - 1] \o s[i]

LEMMA FlattenExists ==
  ASSUME NEW X, NEW s \in Seq(Seq(X)), s # <<>>
  PROVE  \E f \in [1 .. Len(s) -> Seq(X)] : Flattens(s, f, Len(s))
<1>1. Len(s) \in Nat \ {0} /\ \A i \in 1 .. Len(s) : s[i] \in Seq(X)
  OBVIOUS
<1> DEFINE Good == {m \in 1 .. Len(s) : \E f \in [1 .. m -> Seq(X)] : Flattens(s, f, m)}
<1>2. 1 \in Good
  <2>1. /\ [i \in 1 .. 1 |-> s[i]] \in [1 .. 1 -> Seq(X)]
        /\ Flattens(s, [i \in 1 .. 1 |-> s[i]], 1)
    BY <1>1 DEF Flattens
  <2>2. QED
    BY <1>1, <2>1
<1>3. ASSUME NEW m \in 1 + 1 .. Len(s), m - 1 \in Good PROVE m \in Good
  <2>1. PICK f \in [1 .. m - 1 -> Seq(X)] : Flattens(s, f, m - 1)
    BY <1>3
  <2>2. m \in 1 .. Len(s) /\ m # 1 /\ m - 1 \in 1 .. m - 1 /\ m - 1 # m /\ m - 1 \in 1 .. m
    BY <1>1, <1>3
  <2>3. \A i \in 1 .. m : i = m \/ (i \in 1 .. m - 1 /\ i # m /\ (i # 1 => i - 1 \in 1 .. m - 1))
    BY <2>2
  <2>4. \A i \in 1 .. m : i # 1 => i - 1 \in 1 .. m /\ i - 1 # m
    BY <2>2
  <2> DEFINE last == f[m - 1] \o s[m]
             g == [i \in 1 .. m |-> IF i = m THEN last ELSE f[i]]
  <2>5. last \in Seq(X)
    <3>1. f[m - 1] \in Seq(X) /\ s[m] \in Seq(X)
      BY <1>1, <2>1, <2>2
    <3>2. QED
      BY <3>1
  <2>6. g \in [1 .. m -> Seq(X)]
    <3> HIDE DEF last
    <3>1. QED
      BY <2>1, <2>3, <2>5
  <2>7. ASSUME NEW i \in 1 .. m PROVE g[i] = IF i = 1 THEN s[i] ELSE g[i - 1] \o s[i]
    <3>1. i # 1 => g[i - 1] = f[i - 1]
      BY <2>4
    <3>2. CASE i = m
      BY <2>2, <3>1, <3>2
    <3>3. CASE i # m
      <4>1. g[i] = f[i] /\ i \in 1 .. m - 1
        BY <2>3, <3>3
      <4> HIDE DEF g
      <4>2. QED
        BY <2>1, <3>1, <4>1 DEF Flattens
    <3>4. QED
      BY <3>2, <3>3
  <2> HIDE DEF g
  <2>8. Flattens(s, g, m)
    BY <2>7 DEF Flattens
  <2>9. QED
    BY <2>2, <2>6, <2>8
<1>4. 1 .. Len(s) \subseteq Good
  <2> HIDE DEF Good
  <2>1. QED
    BY <1>1, <1>2, <1>3, CountUp
<1>5. QED
  BY <1>1, <1>4

(***************************************************************************)
(* The function that FlattenSeq chooses is one of these, on sequences.     *)
(***************************************************************************)
LEMMA FlattenSteps ==
  ASSUME NEW X, NEW s \in Seq(Seq(X)), s # <<>>
  PROVE  \E f \in [1 .. Len(s) -> Seq(X)] :
           Flattens(s, f, Len(s)) /\ FlattenSeq(s) = f[Len(s)]
<1>1. Len(s) \in Nat \ {0} /\ \A i \in 1 .. Len(s) : s[i] \in Seq(X)
  OBVIOUS
<1>2. PICK h \in [1 .. Len(s) -> Seq(X)] : Flattens(s, h, Len(s))
  BY FlattenExists
<1> DEFINE fl == CHOOSE f : f = [i \in 1 .. Len(s) |-> IF i = 1 THEN s[i] ELSE f[i - 1] \o s[i]]
<1>3. h = [i \in 1 .. Len(s) |-> IF i = 1 THEN s[i] ELSE h[i - 1] \o s[i]]
  BY <1>2 DEF Flattens
<1>4. fl = [i \in 1 .. Len(s) |-> IF i = 1 THEN s[i] ELSE fl[i - 1] \o s[i]]
  BY <1>3, Zenon
<1>5. FlattenSeq(s) = fl[Len(s)]
  BY <1>1, Zenon DEF FlattenSeq
<1> HIDE DEF fl
<1>6. Flattens(s, fl, Len(s))
  BY <1>4 DEF Flattens
<1> DEFINE Good == {i \in 1 .. Len(s) : fl[i] \in Seq(X)}
<1>7. 1 \in Good
  <2>1. fl[1] = s[1]
    BY <1>1, <1>6 DEF Flattens
  <2>2. QED
    BY <1>1, <2>1
<1>8. ASSUME NEW i \in 1 + 1 .. Len(s), i - 1 \in Good PROVE i \in Good
  <2>1. i \in 1 .. Len(s) /\ i # 1
    BY <1>1
  <2>2. fl[i] = fl[i - 1] \o s[i]
    BY <1>6, <2>1 DEF Flattens
  <2>3. fl[i - 1] \in Seq(X) /\ s[i] \in Seq(X)
    BY <1>1, <1>8, <2>1
  <2>4. fl[i - 1] \o s[i] \in Seq(X)
    BY <2>3
  <2>5. QED
    BY <2>1, <2>2, <2>4
<1>9. \A i \in 1 .. Len(s) : fl[i] \in Seq(X)
  <2>1. 1 .. Len(s) \subseteq Good
    <3> HIDE DEF Good
    <3>1. QED
      BY <1>1, <1>7, <1>8, CountUp
  <2>2. QED
    BY <2>1
<1>10. fl \in [1 .. Len(s) -> Seq(X)]
  BY <1>4, <1>9
<1>11. QED
  BY <1>5, <1>6, <1>10

(***************************************************************************)
(* A statement with as many placeholders in each filter as the filter has  *)
(* parameters has as many as the driver gets.                              *)
(***************************************************************************)
LEMMA PlaceholdersAddUp ==
  ASSUME NEW plan, NEW F, plan.filters \in Seq(F), NEW X,
         \A i \in 1 .. Len(plan.filters) :
           /\ Params(plan.filters[i]) \in Seq(X)
           /\ Placeholders(plan.filters[i]) = Len(Params(plan.filters[i]))
  PROVE  PlaceholdersOf(plan) = Len(ParamsOf(plan))
<1> DEFINE N == Len(plan.filters)
           t == [i \in DOMAIN plan.filters |-> Params(plan.filters[i])]
           Sums(u) == u = [n \in 0 .. N |-> IF n = 0 THEN 0
                                            ELSE u[n - 1] + Placeholders(plan.filters[n])]
           sum == CHOOSE u : u = [n \in 0 .. N |-> IF n = 0 THEN 0
                                            ELSE u[n - 1] + Placeholders(plan.filters[n])]
<1>1. N \in Nat /\ DOMAIN plan.filters = 1 .. N
  OBVIOUS
<1>2. /\ t \in Seq(Seq(X)) /\ Len(t) = N
      /\ \A i \in 1 .. N : t[i] \in Seq(X) /\ Placeholders(plan.filters[i]) = Len(t[i])
  BY <1>1
<1>3. PlaceholdersOf(plan) = sum[N]
  BY Zenon DEF PlaceholdersOf
<1>4. ParamsOf(plan) = FlattenSeq(t)
  BY DEF ParamsOf
<1> HIDE DEF N, t
<1>5. ASSUME NEW g, Sums(g) PROVE Sums(sum)
  BY <1>5, Zenon
<1>6. CASE t = <<>>
  <2>1. N = 0
    BY <1>2, <1>6
  <2>2. Sums([n \in 0 .. N |-> 0])
    BY <2>1
  <2>3. Sums(sum)
    <3> HIDE DEF Sums, sum
    <3>1. QED
      BY <1>5, <2>2
  <2>4. sum[0] = 0
    <3> HIDE DEF sum
    <3>1. QED
      BY <2>1, <2>3
  <2>5. FlattenSeq(t) = <<>>
    BY <1>6 DEF FlattenSeq
  <2>6. QED
    BY <1>3, <1>4, <2>1, <2>4, <2>5
<1>7. CASE t # <<>>
  <2>1. PICK f \in [1 .. N -> Seq(X)] : Flattens(t, f, N) /\ FlattenSeq(t) = f[N]
    BY <1>2, <1>7, FlattenSteps
  <2>2. N \in Nat \ {0}
    BY <1>2, <1>7
  <2> DEFINE g == [n \in 0 .. N |-> IF n = 0 THEN 0 ELSE Len(f[n])]
  <2>3. ASSUME NEW n \in 1 .. N
        PROVE  g[n] = g[n - 1] + Placeholders(plan.filters[n]) /\ g[n] \in Nat
    <3>1. n \in 0 .. N /\ n - 1 \in 0 .. N /\ n # 0 /\ (n # 1 => n - 1 \in 1 .. N)
      BY <1>1
    <3>2. f[n] = IF n = 1 THEN t[n] ELSE f[n - 1] \o t[n]
      BY <2>1 DEF Flattens
    <3>3. f[n] \in Seq(X) /\ t[n] \in Seq(X) /\ Placeholders(plan.filters[n]) = Len(t[n])
      BY <1>2, <2>1
    <3>4. g[n] = Len(f[n]) /\ g[n] \in Nat
      BY <3>1, <3>3
    <3>5. CASE n = 1
      <4>1. g[n - 1] = 0
        BY <3>1, <3>5
      <4>2. QED
        BY <3>2, <3>3, <3>4, <3>5, <4>1
    <3>6. CASE n # 1
      <4>1. g[n - 1] = Len(f[n - 1]) /\ f[n - 1] \in Seq(X)
        BY <2>1, <3>1, <3>6
      <4>2. Len(f[n - 1] \o t[n]) = Len(f[n - 1]) + Len(t[n])
        BY <3>3, <4>1
      <4>3. QED
        BY <3>2, <3>3, <3>4, <3>6, <4>1, <4>2
    <3>7. QED
      BY <3>5, <3>6
  <2>4. g[0] = 0 /\ g[N] = Len(f[N])
    BY <2>2
  <2>5. \A n \in 0 .. N : n = 0 \/ n \in 1 .. N
    BY <1>1
  <2>6. Sums(g)
    <3>1. g = [n \in 0 .. N |-> g[n]]
      OBVIOUS
    <3> HIDE DEF g
    <3>2. QED
      BY <2>3, <2>4, <2>5, <3>1
  <2>7. Sums(sum)
    <3> HIDE DEF Sums, sum, g
    <3>1. QED
      BY <1>5, <2>6
  <2> HIDE DEF sum, g
  <2> DEFINE Good == {n \in 0 .. N : sum[n] = g[n]}
  <2>8. 0 \in Good
    BY <1>1, <2>4, <2>7
  <2>9. ASSUME NEW n \in 0 + 1 .. N, n - 1 \in Good PROVE n \in Good
    <3>1. n \in 1 .. N /\ n \in 0 .. N /\ n # 0
      BY <1>1
    <3>2. sum[n] = sum[n - 1] + Placeholders(plan.filters[n])
      BY <2>7, <3>1
    <3>3. sum[n - 1] = g[n - 1]
      BY <2>9
    <3>4. QED
      BY <2>3, <3>1, <3>2, <3>3
  <2>10. 0 .. N \subseteq Good
    <3> HIDE DEF Good
    <3>1. QED
      BY <1>1, <2>8, <2>9, CountUp
  <2>11. sum[N] = g[N]
    <3>1. N \in 0 .. N
      BY <1>1
    <3>2. QED
      BY <2>10, <3>1
  <2>12. QED
    BY <1>3, <1>4, <2>1, <2>4, <2>11
<1>8. QED
  BY <1>6, <1>7

(***************************************************************************)
(* A filter the rules accept compiles to a placeholder for each of the     *)
(* values that the plan binds for it.                                      *)
(***************************************************************************)
LEMMA AcceptedFilter ==
  ASSUME NEW f \in FilterItem, f.op \in Operators, ValueOk(f)
  PROVE  /\ Params(f) = BoundValues(f) /\ BoundValues(f) \in Seq(Literal)
         /\ Placeholders(f) = Len(Params(f))
<1>1. f.items \in Seq(Literal) /\ (f.shape = "scalar" => Len(f.items) = 1)
  BY DEF FilterItem
<1>2. CASE f.op \in NullOps
  <2>1. f.op \notin Comparisons /\ f.op \notin {"IN", "BETWEEN"}
    BY <1>2 DEF Comparisons, NullOps
  <2>2. Params(f) = <<>> /\ BoundValues(f) = <<>> /\ Placeholders(f) = 0
    BY <1>2, <2>1 DEF Params, BoundValues, Placeholders
  <2>3. QED
    BY <2>2
<1>3. CASE f.op \in Comparisons
  <2>1. f.op \notin NullOps /\ f.op \notin {"IN", "BETWEEN"}
    BY <1>3 DEF Comparisons, NullOps
  <2>2. Len(f.items) = 1
    BY <1>1, <2>1 DEF ValueOk
  <2>3. f.items = <<f.items[1]>>
    BY <1>1, <2>2
  <2>4. Params(f) = <<f.items[1]>> /\ Placeholders(f) = 1 /\ BoundValues(f) = f.items
    BY <1>3, <2>1 DEF Params, BoundValues, Placeholders
  <2>5. QED
    BY <1>1, <2>2, <2>3, <2>4
<1>4. CASE f.op \in {"IN", "BETWEEN"}
  <2>1. f.op \notin NullOps /\ f.op \notin Comparisons
    BY <1>4 DEF Comparisons, NullOps
  <2>2. Params(f) = f.items /\ BoundValues(f) = f.items
    BY <1>4, <2>1 DEF Params, BoundValues
  <2>3. Placeholders(f) = IF f.op = "IN" THEN Len(f.items) ELSE 2
    BY <1>4, <2>1 DEF Placeholders
  <2>4. f.op = "BETWEEN" => Len(f.items) = 2
    BY <2>1 DEF ValueOk
  <2>5. QED
    BY <1>1, <1>4, <2>2, <2>3, <2>4
<1>5. QED
  BY <1>2, <1>3, <1>4 DEF Operators

------------------------------------------------------------------------------
(***************************************************************************)
(* SelectInSeq over the filters finds one that is refused, if there is one.*)
(***************************************************************************)
LEMMA FirstRefusedIsRefused ==
  ASSUME NEW p, p.filters \in Seq(FilterItem \cup {Scalar}),
         \E f \in ToSet(p.filters) : Refused(f)
  PROVE  Refused(FirstRefused(p))
<1> DEFINE I == {i \in 1 .. Len(p.filters) : Refused(p.filters[i])}
<1>1. I # {} /\ I \subseteq Nat
  BY DEF ToSet
<1>2. \E m \in I : \A k \in I : m <= k
  BY <1>1, LeastNatural
<1>3. Min(I) \in I
  BY <1>2 DEF Min
<1>4. SelectInSeq(p.filters, Refused) = Min(I)
  BY <1>1 DEF SelectInSeq
<1> QED BY <1>3, <1>4 DEF FirstRefused

(***************************************************************************)
(* What the verdict "accepted" stands for.                                 *)
(***************************************************************************)
LEMMA AcceptedParts ==
  ASSUME NEW p \in Payload, Verdict(p) = "accepted"
  PROVE  /\ ~WriteIntent(p)
         /\ Shaped(p)
         /\ OneMode(p)
         /\ ProjectionOk(p)
         /\ \A f \in ToSet(p.filters) : FilterVerdict(f) = "accepted"
         /\ AggregationsOk(p)
         /\ GroupByOk(p)
         /\ OrderByOk(p)
<1>1. ~WriteIntent(p) /\ Shaped(p) /\ OneMode(p) /\ ProjectionOk(p)
  BY DEF Verdict
<1>2. p.filters \in Seq(FilterItem \cup {Scalar})
  BY <1>1 DEF Shaped, IsList, Payload, ListOf
<1>3. ~ \E f \in ToSet(p.filters) : Refused(f)
  <2> SUFFICES ASSUME \E f \in ToSet(p.filters) : Refused(f) PROVE FALSE
    OBVIOUS
  <2>1. FilterVerdict(FirstRefused(p)) # "accepted"
    BY <1>2, FirstRefusedIsRefused DEF Refused
  <2>2. Verdict(p) \in {"VALIDATION_ERROR", FilterVerdict(FirstRefused(p))}
    BY <1>1 DEF Verdict
  <2> QED BY <2>1, <2>2
<1>4. AggregationsOk(p) /\ GroupByOk(p) /\ OrderByOk(p)
  BY <1>1, <1>3 DEF Verdict
<1> QED BY <1>1, <1>3, <1>4 DEF Refused

(***************************************************************************)
(* The parts of an accepted request that are sequences, and what they name.*)
(***************************************************************************)
LEMMA AcceptedNames ==
  ASSUME NEW p \in Payload, Verdict(p) = "accepted"
  PROVE  /\ p.aggregations \in Seq(AggregationItem \cup {Scalar})
         /\ OrEmpty(p.groupBy) \in Seq(Names \cup {Scalar})
         /\ IsDetail(p) => ToSet(p.projection) \subseteq Fields
         /\ IsDetail(p) <=> p.aggregations = <<>>
         /\ ToSet(OrEmpty(p.groupBy)) \subseteq Fields
         /\ \A f \in ToSet(p.filters) : f.field \in Fields /\ f.op \in Operators /\ ValueOk(f)
         /\ \A a \in ToSet(p.aggregations) : a.field \in Fields /\ a.alias \in SafeNames
         /\ \A o \in ToSet(p.orderBy) : o.field \in Sortable(p)
<1>1. /\ Shaped(p) /\ OneMode(p) /\ ProjectionOk(p)
      /\ \A f \in ToSet(p.filters) : FilterVerdict(f) = "accepted"
      /\ AggregationsOk(p) /\ GroupByOk(p) /\ OrderByOk(p)
  BY AcceptedParts
<1>2. p.aggregations \in Seq(AggregationItem \cup {Scalar})
  BY <1>1 DEF Shaped, IsList, Payload, ListOf
<1>3. OrEmpty(p.groupBy) \in Seq(Names \cup {Scalar})
  BY <1>1 DEF Shaped, IsList, Payload, ListOf, OrEmpty
<1>4. IsDetail(p) => ToSet(p.projection) \subseteq Fields
  BY <1>1 DEF ProjectionOk, IsDetail, OrEmpty
<1>5. IsDetail(p) <=> p.aggregations = <<>>
  BY <1>1 DEF OneMode, IsDetail
<1>6. ToSet(OrEmpty(p.groupBy)) \subseteq Fields
  BY <1>1, FieldsAssumption DEF GroupByOk
<1>7. \A f \in ToSet(p.filters) : f.field \in Fields /\ f.op \in Operators /\ ValueOk(f)
  <2> SUFFICES ASSUME NEW f \in ToSet(p.filters)
               PROVE  f.field \in Fields /\ f.op \in Operators /\ ValueOk(f)
    OBVIOUS
  <2>1. FilterVerdict(f) = "accepted"
    BY <1>1
  <2> QED BY <2>1, FieldsAssumption DEF FilterVerdict
<1>8. \A a \in ToSet(p.aggregations) : a.field \in Fields /\ a.alias \in SafeNames
  BY <1>1, FieldsAssumption DEF AggregationsOk, AggregationOk
<1>9. \A o \in ToSet(p.orderBy) : o.field \in Sortable(p)
  BY <1>1 DEF OrderByOk
<1> QED BY <1>2, <1>3, <1>4, <1>5, <1>6, <1>7, <1>8, <1>9

(***************************************************************************)
(* The plan of an aggregate query selects group_by fields and aliases.     *)
(***************************************************************************)
LEMMA AggregateProjection ==
  ASSUME NEW X, NEW s \in Seq(X), NEW Y, NEW t \in Seq(Y)
  PROVE  ToSet(s \o AliasesOf(t)) \subseteq ToSet(s) \cup {a.alias : a \in ToSet(t)}
<1> DEFINE u == AliasesOf(t)
<1>1. DOMAIN u = 1 .. Len(t) /\ \A i \in 1 .. Len(t) : u[i] = t[i].alias
  BY DEF AliasesOf
<1>2. u \in Seq({a.alias : a \in ToSet(t)})
  BY <1>1 DEF AliasesOf, ToSet
<1>3. \A i \in DOMAIN (s \o u) : (s \o u)[i] \in ToSet(s) \cup {a.alias : a \in ToSet(t)}
  <2> HIDE DEF u
  <2> TAKE i \in DOMAIN (s \o u)
  <2>1. i \in 1 .. Len(s) + Len(u)
    BY <1>2
  <2>2. CASE i \in 1 .. Len(s)
    BY <1>2, <2>2 DEF ToSet
  <2>3. CASE i \in Len(s) + 1 .. Len(s) + Len(u)
    <3>1. (s \o u)[i] = u[i - Len(s)] /\ i - Len(s) \in 1 .. Len(u)
      BY <1>2, <2>3
    <3> QED BY <3>1, <1>2
  <2> QED BY <2>1, <2>2, <2>3
<1> QED BY <1>3 DEF ToSet

(***************************************************************************)
(* What the rules accept, the compiler compiles, if the columns are on its *)
(* list.                                                                   *)
(***************************************************************************)
LEMMA AcceptedPlanCompiles ==
  ASSUME NEW p \in Payload, Verdict(p) = "accepted", ColumnsRead(PlanOf(p)) \subseteq Columns
  PROVE  Compiles(PlanOf(p))
<1> DEFINE plan == PlanOf(p)
<1>1. /\ plan.filters = p.filters
      /\ plan.aggregations = p.aggregations
      /\ plan.groupBy = OrEmpty(p.groupBy)
      /\ plan.orderBy = p.orderBy
      /\ plan.projection = IF IsDetail(p) THEN p.projection
                           ELSE OrEmpty(p.groupBy) \o AliasesOf(p.aggregations)
  BY DEF PlanOf
<1>2. PlanAliases(plan) = Aliases(p) /\ Aliases(p) \subseteq SafeNames
  BY <1>1, AcceptedNames DEF PlanAliases, Aliases
<1> HIDE DEF plan
<1>3. \A S : S \subseteq Columns \cup Aliases(p) => Known(plan, S)
  BY <1>2 DEF Known
<1>4. /\ plan.aggregations = <<>> => ToSet(plan.projection) \subseteq Columns
      /\ {f.field : f \in ToSet(plan.filters)} \subseteq Columns
      /\ {a.field : a \in ToSet(plan.aggregations)} \subseteq Columns
      /\ ToSet(plan.groupBy) \subseteq Columns
      /\ {o.field : o \in ToSet(plan.orderBy)} \ Aliases(p) \subseteq Columns
  <2>1. ColumnsRead(plan) \subseteq Columns
    BY DEF plan
  <2> QED BY <1>2, <2>1 DEF ColumnsRead
<1>5. ToSet(plan.projection) \subseteq Columns \cup Aliases(p)
  <2>1. CASE IsDetail(p)
    BY <1>1, <1>4, <2>1, AcceptedNames
  <2>2. CASE ~IsDetail(p)
    <3>1. ToSet(plan.projection) \subseteq ToSet(OrEmpty(p.groupBy)) \cup Aliases(p)
      BY <1>1, <2>2, AcceptedNames, AggregateProjection DEF Aliases
    <3> QED BY <1>1, <1>4, <3>1
  <2> QED BY <2>1, <2>2
<1>6. \A f \in ToSet(plan.filters) : f.op \in Operators /\ (f.op = "BETWEEN" => Len(f.items) = 2)
  BY <1>1, AcceptedNames DEF ValueOk, NullOps, Comparisons
<1>7. \A a \in ToSet(plan.aggregations) : a.alias \in SafeNames
  BY <1>1, AcceptedNames
<1>8. /\ \A f \in ToSet(plan.filters) : f.field \in Columns
      /\ \A a \in ToSet(plan.aggregations) : a.field \in Columns
  BY <1>4
<1>9. Known(plan, ToSet(plan.projection)) /\ Known(plan, {o.field : o \in ToSet(plan.orderBy)})
  BY <1>3, <1>4, <1>5
<1> QED BY <1>4, <1>6, <1>7, <1>8, <1>9 DEF Compiles, plan

(***************************************************************************)
(* What the compiler lets through reads columns of its list only.          *)
(***************************************************************************)
LEMMA CompiledReadsColumns ==
  ASSUME NEW plan, Compiles(plan)
  PROVE  ColumnsRead(plan) \subseteq Columns
<1>1. /\ {f.field : f \in ToSet(plan.filters)} \subseteq Columns
      /\ {a.field : a \in ToSet(plan.aggregations)} \subseteq Columns
      /\ ToSet(plan.groupBy) \subseteq Columns
  BY DEF Compiles
<1>2. {o.field : o \in ToSet(plan.orderBy)} \ PlanAliases(plan) \subseteq Columns
  BY DEF Compiles, Known
<1>3. ASSUME plan.aggregations = <<>> PROVE ToSet(plan.projection) \subseteq Columns
  <2>1. PlanAliases(plan) = {}
    BY <1>3 DEF PlanAliases, ToSet
  <2> QED BY <2>1 DEF Compiles, Known
<1> QED BY <1>1, <1>2, <1>3 DEF ColumnsRead

(***************************************************************************)
(* The statement of an accepted request reads fields of field_meta only.   *)
(***************************************************************************)
LEMMA AcceptedReadsFields ==
  ASSUME NEW p \in Payload, Verdict(p) = "accepted"
  PROVE  ColumnsRead(PlanOf(p)) \subseteq Fields
<1> DEFINE plan == PlanOf(p)
<1>1. /\ plan.filters = p.filters
      /\ plan.aggregations = p.aggregations
      /\ plan.groupBy = OrEmpty(p.groupBy)
      /\ plan.orderBy = p.orderBy
      /\ IsDetail(p) => plan.projection = p.projection
  BY DEF PlanOf
<1> HIDE DEF plan
<1>2. PlanAliases(plan) = Aliases(p)
  BY <1>1 DEF PlanAliases, Aliases
<1>3. plan.aggregations = <<>> => ToSet(plan.projection) \subseteq Fields
  BY <1>1, AcceptedNames
<1>4. {f.field : f \in ToSet(plan.filters)} \subseteq Fields
  BY <1>1, AcceptedNames
<1>5. {a.field : a \in ToSet(plan.aggregations)} \subseteq Fields
  BY <1>1, AcceptedNames
<1>6. ToSet(plan.groupBy) \subseteq Fields
  BY <1>1, AcceptedNames
<1>7. {o.field : o \in ToSet(plan.orderBy)} \ PlanAliases(plan) \subseteq Fields
  <2>1. Sortable(p) \ Aliases(p) \subseteq Fields
    BY AcceptedNames DEF Sortable
  <2> QED BY <1>1, <1>2, <2>1, AcceptedNames
<1> QED BY <1>3, <1>4, <1>5, <1>6, <1>7 DEF ColumnsRead, plan

(***************************************************************************)
(* The statement of an accepted request has a placeholder for each         *)
(* parameter, and the parameters are the values its plan announced.        *)
(***************************************************************************)
LEMMA AcceptedBinds ==
  ASSUME NEW p \in Payload, Verdict(p) = "accepted"
  PROVE  /\ PlaceholdersOf(PlanOf(p)) = Len(ParamsOf(PlanOf(p)))
         /\ ParamsOf(PlanOf(p)) = PlanOf(p).binds
<1>1. p.filters \in Seq(FilterItem \cup {Scalar})
  BY AcceptedParts DEF Shaped, IsList, Payload, ListOf
<1>2. ASSUME NEW i \in DOMAIN p.filters
      PROVE  /\ Params(p.filters[i]) = BoundValues(p.filters[i])
             /\ BoundValues(p.filters[i]) \in Seq(Literal)
             /\ Placeholders(p.filters[i]) = Len(Params(p.filters[i]))
  <2>1. FilterVerdict(p.filters[i]) = "accepted"
    BY <1>1, AcceptedParts DEF ToSet
  <2>2. p.filters[i] \in FilterItem \cup {Scalar} /\ p.filters[i] # Scalar
    BY <1>1, <2>1 DEF FilterVerdict
  <2>3. p.filters[i].op \in Operators /\ ValueOk(p.filters[i])
    BY <2>1 DEF FilterVerdict
  <2>4. QED
    BY <2>2, <2>3, AcceptedFilter
<1>3. PlanOf(p).filters = p.filters
      /\ PlanOf(p).binds = FlattenSeq([i \in DOMAIN p.filters |-> BoundValues(p.filters[i])])
  BY DEF PlanOf
<1>4. ParamsOf(PlanOf(p)) = PlanOf(p).binds
  <2>1. [i \in DOMAIN p.filters |-> Params(p.filters[i])]
          = [i \in DOMAIN p.filters |-> BoundValues(p.filters[i])]
    BY <1>2
  <2>2. QED
    BY <1>3, <2>1 DEF ParamsOf
<1>5. PlaceholdersOf(PlanOf(p)) = Len(ParamsOf(PlanOf(p)))
  <2>1. \A i \in 1 .. Len(p.filters) :
          /\ Params(p.filters[i]) \in Seq(Literal)
          /\ Placeholders(p.filters[i]) = Len(Params(p.filters[i]))
    BY <1>1, <1>2
  <2>2. QED
    BY <1>1, <1>3, <2>1, PlaceholdersAddUp
<1>6. QED
  BY <1>4, <1>5

(***************************************************************************)
(* The limit of an accepted request, and what is left of a request when    *)
(* only its limit is too large.                                            *)
(***************************************************************************)
LEMMA FilterVerdicts ==
  ASSUME NEW f
  PROVE  FilterVerdict(f) \in {"VALIDATION_ERROR", "UNSUPPORTED_OPERATOR", "accepted", "raised"}
BY DEF FilterVerdict

(***************************************************************************)
(* The plan of an accepted request has a limit the rules allow.            *)
(***************************************************************************)
LEMMA AcceptedLimit ==
  ASSUME NEW p \in Payload, Verdict(p) = "accepted"
  PROVE  PlanOf(p).limit \in 1 .. MaxLimit
<1>1. LimitVerdict(p) = "accepted"
  <2>1. p.filters \in Seq(FilterItem \cup {Scalar})
    BY AcceptedParts DEF Shaped, IsList, Payload, ListOf
  <2>2. ~ \E f \in ToSet(p.filters) : Refused(f)
    BY AcceptedParts DEF Refused
  <2> QED BY <2>2, AcceptedParts DEF Verdict
<1>2. p.limit \in Int \cup {Absent, Scalar}
  BY DEF Payload
<1>3. PlanOf(p).limit = IF p.limit = Absent THEN DefaultLimit ELSE p.limit
  BY DEF PlanOf
<1> QED BY <1>1, <1>2, <1>3, LimitsAssumption DEF LimitVerdict

(***************************************************************************)
(* A request refused for its limit is accepted with another limit.         *)
(***************************************************************************)
LEMMA LimitAlone ==
  ASSUME NEW p \in Payload, Verdict(p) = "RESULT_LIMIT_EXCEEDED"
  PROVE  Verdict([p EXCEPT !.limit = MaxLimit]) = "accepted"
<1> DEFINE q == [p EXCEPT !.limit = MaxLimit]
<1>1. /\ q.writeKey = p.writeKey /\ q.operation = p.operation /\ q.strayKey = p.strayKey
      /\ q.projection = p.projection /\ q.groupBy = p.groupBy /\ q.filters = p.filters
      /\ q.aggregations = p.aggregations /\ q.orderBy = p.orderBy /\ q.limit = MaxLimit
  BY DEF Payload
<1> HIDE DEF q
<1>2. ~WriteIntent(p) /\ Shaped(p) /\ OneMode(p) /\ ProjectionOk(p) /\ ~(Len(p.filters) > MaxFilters)
  BY DEF Verdict
<1>3. ~ \E f \in ToSet(p.filters) : Refused(f)
  <2> SUFFICES ASSUME \E f \in ToSet(p.filters) : Refused(f) PROVE FALSE
    OBVIOUS
  <2>1. Verdict(p) = FilterVerdict(FirstRefused(p))
    BY <1>2 DEF Verdict
  <2> QED BY <2>1, FilterVerdicts
<1>4. AggregationsOk(p) /\ GroupByOk(p) /\ OrderByOk(p)
  BY <1>2, <1>3 DEF Verdict
<1>5. ~WriteIntent(q) /\ Shaped(q) /\ OneMode(q) /\ ProjectionOk(q) /\ ~(Len(q.filters) > MaxFilters)
  BY <1>1, <1>2 DEF WriteIntent, Shaped, OneMode, IsDetail, ProjectionOk
<1>6. AggregationsOk(q) /\ GroupByOk(q)
  BY <1>1, <1>4 DEF AggregationsOk, GroupByOk
<1>7. Sortable(q) = Sortable(p)
  BY <1>1 DEF Sortable, IsDetail, Aliases
<1>8. OrderByOk(q)
  BY <1>1, <1>4, <1>7 DEF OrderByOk
<1>9. LimitVerdict(q) = "accepted"
  BY <1>1, LimitsAssumption, ShapesAssumption DEF LimitVerdict
<1>10. Verdict(q) = "accepted"
  BY <1>1, <1>3, <1>5, <1>6, <1>8, <1>9 DEF Verdict
<1> QED BY <1>10 DEF q

(***************************************************************************)
(* The agent's normalised arguments are a request again, without write     *)
(* intent and with a limit in range.                                       *)
(***************************************************************************)
LEMMA AgentArgs ==
  ASSUME NEW p \in Payload, DemoVerdict(p) = "accepted"
  PROVE  /\ DemoArgs(p) \in Payload
         /\ ~WriteIntent(DemoArgs(p))
         /\ DemoArgs(p).limit \in 1 .. MaxLimit
<1> DEFINE q == DemoArgs(p)
<1>1. /\ ~p.writeKey /\ p.operation = "absent"
      /\ DemoListOk(p.projection) /\ DemoListOk(p.aggregations) /\ DemoLimitOk(p)
      /\ Scalar \notin {p.filters, p.groupBy, p.orderBy}
  BY DEF DemoVerdict
<1>2. \A S : Seq(S \cup {Scalar}) \subseteq ListOf(S)
  BY DEF ListOf
<1>3. /\ OrEmpty(p.projection) \in Seq(Names \cup {Scalar})
      /\ OrEmpty(p.aggregations) \in Seq(AggregationItem \cup {Scalar})
  BY <1>1 DEF Payload, ListOf, DemoListOk, OrEmpty
<1>4. /\ ListedItems(p.filters) \in Seq(FilterItem \cup {Scalar})
      /\ ListedNames(p.groupBy) \in Seq(Names \cup {Scalar})
      /\ ListedItems(p.orderBy) \in Seq(OrderItem \cup {Scalar})
  <2>1. \A S, x : x \in ListOf(S) /\ x # Scalar => ListedItems(x) \in Seq(S \cup {Scalar})
    <3> SUFFICES ASSUME NEW S, NEW x, x \in ListOf(S), x # Scalar
                 PROVE  ListedItems(x) \in Seq(S \cup {Scalar})
      OBVIOUS
    <3>1. [i \in DOMAIN Letters |-> Scalar] \in Seq(S \cup {Scalar})
      BY FieldsAssumption
    <3>2. <<>> \in Seq(S \cup {Scalar})
      OBVIOUS
    <3> QED BY <3>1, <3>2 DEF ListOf, ListedItems, OrEmpty
  <2>2. \A x : x \in ListOf(Names) /\ x # Scalar => ListedNames(x) \in Seq(Names \cup {Scalar})
    <3> SUFFICES ASSUME NEW x, x \in ListOf(Names), x # Scalar
                 PROVE  ListedNames(x) \in Seq(Names \cup {Scalar})
      OBVIOUS
    <3>1. Letters \in Seq(Names \cup {Scalar})
      BY FieldsAssumption
    <3>2. <<>> \in Seq(Names \cup {Scalar})
      OBVIOUS
    <3> QED BY <3>1, <3>2 DEF ListOf, ListedNames, OrEmpty
  <2>3. p.filters \in ListOf(FilterItem) /\ p.groupBy \in ListOf(Names) /\ p.orderBy \in ListOf(OrderItem)
    BY DEF Payload
  <2> QED BY <1>1, <2>1, <2>2, <2>3
<1>5. (IF p.limit = Absent THEN DefaultLimit ELSE p.limit) \in 1 .. MaxLimit
  BY <1>1, LimitsAssumption DEF DemoLimitOk
<1>6. q = [p EXCEPT !.projection = OrEmpty(p.projection), !.aggregations = OrEmpty(p.aggregations),
                    !.filters = ListedItems(p.filters), !.groupBy = ListedNames(p.groupBy),
                    !.orderBy = ListedItems(p.orderBy),
                    !.limit = IF p.limit = Absent THEN DefaultLimit ELSE p.limit]
  BY DEF DemoArgs, Payload
<1> HIDE DEF q
<1>7. q \in Payload
  <2>1. /\ OrEmpty(p.projection) \in ListOf(Names)
        /\ OrEmpty(p.aggregations) \in ListOf(AggregationItem)
        /\ ListedItems(p.filters) \in ListOf(FilterItem)
        /\ ListedNames(p.groupBy) \in ListOf(Names)
        /\ ListedItems(p.orderBy) \in ListOf(OrderItem)
    BY <1>2, <1>3, <1>4
  <2>2. (IF p.limit = Absent THEN DefaultLimit ELSE p.limit) \in Int \cup {Absent, Scalar}
    BY <1>5, LimitsAssumption
  <2> QED BY <1>6, <2>1, <2>2 DEF Payload
<1>8. q.writeKey = p.writeKey /\ q.operation = p.operation
      /\ q.limit = IF p.limit = Absent THEN DefaultLimit ELSE p.limit
  BY <1>6 DEF Payload
<1> QED BY <1>1, <1>5, <1>7, <1>8 DEF WriteIntent, q

------------------------------------------------------------------------------
(* The invariant: what is known about the request at each place.            *)

OnTheWay == {"checking", "sent", "matched", "validated", "compiled", "returned"}
AtServer == {"sent", "matched"}

RequestInv ==
  /\ place \in OnTheWay => request \in Payload
  /\ place \in {"matched", "validated", "compiled"} => request.dataset = "granted"
  /\ place \in {"validated", "compiled"} => Verdict(request) = "accepted"
  /\ place = "idle" => ~viaAgent
  /\ (viaAgent /\ place \in AtServer)
       => ~WriteIntent(request) /\ request.limit \in 1 .. MaxLimit

ResultInv ==
  /\ place \in {"idle"} \cup (OnTheWay \ {"returned"}) => code = "none"
  /\ (place = "returned" /\ code = "none")
       => /\ request \in Payload
          /\ Verdict(request) = "accepted"
          /\ result = ToResult(Plan, Least(matches, FetchLimit(Plan)))

AnswerInv ==
  /\ place # "done" => answer = NoAnswer
  /\ AnswersQuoteTheServer

CodeInv ==
  /\ LimitIsTheOnlyFault
  /\ AgentStaysInLimits

PathInv ==
  /\ TypeOK
  /\ RequestInv
  /\ ResultInv
  /\ AnswerInv
  /\ CodeInv
  /\ AcceptedCompiles

Result == [rowCount : 0 .. MaxLimit, truncated : BOOLEAN,
           status : {"none", "EMPTY", "NON_EMPTY"}]

(***************************************************************************)
(* A result is clipped to the limit of its plan.                           *)
(***************************************************************************)
LEMMA ClippedResult ==
  ASSUME NEW plan, plan.limit \in 1 .. MaxLimit, NEW n \in Nat, NEW r,
         r = ToResult(plan, Least(n, FetchLimit(plan)))
  PROVE  /\ r \in Result
         /\ r.rowCount = Least(n, plan.limit)
         /\ r.truncated <=> n > plan.limit
         /\ r.status = "EMPTY" <=> n = 0
         /\ r.status # "none"
<1>1. MaxLimit \in Nat /\ plan.limit \in Nat /\ plan.limit >= 1 /\ plan.limit <= MaxLimit
  BY LimitsAssumption
<1> DEFINE m == Least(n, FetchLimit(plan))
<1>2. /\ m \in Nat
      /\ m > plan.limit <=> n > plan.limit
      /\ Least(m, plan.limit) = Least(n, plan.limit)
      /\ Least(m, plan.limit) = 0 <=> n = 0
      /\ Least(m, plan.limit) \in 0 .. MaxLimit
  BY <1>1 DEF Least, FetchLimit
<1>3. r = [rowCount |-> Least(m, plan.limit), truncated |-> m > plan.limit,
           status |-> IF Least(m, plan.limit) = 0 THEN "EMPTY" ELSE "NON_EMPTY"]
  BY DEF ToResult
<1> HIDE DEF m
<1>4. (m > plan.limit) \in BOOLEAN
  BY <1>1, <1>2
<1>5. r.status = "EMPTY" <=> n = 0
  BY <1>2, <1>3
<1>6. r.truncated <=> n > plan.limit
  <2>1. r.truncated = (m > plan.limit)
    BY <1>3, <1>4
  <2> QED BY <2>1, <1>2
<1>7. r \in Result
  BY <1>2, <1>3, <1>4 DEF Result
<1> QED BY <1>2, <1>3, <1>5, <1>6, <1>7

(***************************************************************************)
(* The initial state satisfies the invariant.                              *)
(***************************************************************************)
LEMMA PathInit == Init => PathInv
<1> SUFFICES ASSUME Init PROVE PathInv
  OBVIOUS
<1>1. MaxLimit \in Nat
  BY LimitsAssumption
<1>2. TypeOK
  <2>1. result \in Result
    <3>1. 0 \in 0 .. MaxLimit
      BY <1>1
    <3> QED BY <3>1 DEF Init, NoResult, Result
  <2>2. answer \in [called : BOOLEAN, succeeded : BOOLEAN,
                    rowCount : {Absent} \cup (0 .. MaxLimit)]
    BY DEF Init, NoAnswer
  <2>3. /\ place \in Places /\ viaAgent \in BOOLEAN /\ matches \in Nat
        /\ code \in Refusals \cup {"none", "DATASET_NOT_ALLOWED"}
    BY DEF Init, Places
  <2> QED BY <2>1, <2>2, <2>3 DEF TypeOK, Result
<1>3. RequestInv /\ ResultInv /\ AcceptedCompiles
  BY DEF Init, RequestInv, ResultInv, AcceptedCompiles, OnTheWay, AtServer
<1>4. AnswerInv /\ CodeInv
  BY DEF Init, AnswerInv, CodeInv, AnswersQuoteTheServer, LimitIsTheOnlyFault,
         AgentStaysInLimits, NoAnswer
<1> QED BY <1>2, <1>3, <1>4 DEF PathInv

(***************************************************************************)
(* Every step of the path preserves the invariant.                         *)
(***************************************************************************)
LEMMA PathStep == PathInv /\ [Next]_vars => PathInv'
<1> SUFFICES ASSUME PathInv, [Next]_vars PROVE PathInv'
  OBVIOUS
<1>0. /\ MaxLimit \in Nat \ {0}
      /\ TypeOK /\ RequestInv /\ ResultInv /\ AnswerInv /\ CodeInv /\ AcceptedCompiles
  BY LimitsAssumption DEF PathInv
<1>1. CASE \E p \in Requests : ClientCalls(p)
  <2>0. PICK p \in Requests : ClientCalls(p)
    BY <1>1
  <2>1. TypeOK'
    BY <1>0, <2>0, RequestsAssumption DEF ClientCalls, GoTo, Return, TypeOK, Places, Refusals, NoAnswer, NoResult
  <2>2. RequestInv' /\ ResultInv'
    BY <1>0, <2>0, RequestsAssumption DEF ClientCalls, GoTo, Return, RequestInv, ResultInv, OnTheWay, AtServer, Plan, Refusals
  <2>3. AnswerInv'
    BY <1>0, <2>0, RequestsAssumption DEF ClientCalls, GoTo, Return, AnswerInv, AnswersQuoteTheServer, NoAnswer
  <2>4. CodeInv' /\ AcceptedCompiles'
    BY <1>0, <2>0, RequestsAssumption DEF ClientCalls, GoTo, Return, CodeInv, LimitIsTheOnlyFault, AgentStaysInLimits,
         AcceptedCompiles, RequestInv, ResultInv, OnTheWay, AtServer
  <2> QED BY <2>1, <2>2, <2>3, <2>4 DEF PathInv
<1>2. CASE \E p \in Requests : ModelCallsTool(p)
  <2>0. PICK p \in Requests : ModelCallsTool(p)
    BY <1>2
  <2>1. TypeOK'
    BY <1>0, <2>0, RequestsAssumption DEF ModelCallsTool, GoTo, Return, TypeOK, Places, Refusals, NoAnswer, NoResult
  <2>2. RequestInv' /\ ResultInv'
    BY <1>0, <2>0, RequestsAssumption DEF ModelCallsTool, GoTo, Return, RequestInv, ResultInv, OnTheWay, AtServer, Plan, Refusals
  <2>3. AnswerInv'
    BY <1>0, <2>0, RequestsAssumption DEF ModelCallsTool, GoTo, Return, AnswerInv, AnswersQuoteTheServer, NoAnswer
  <2>4. CodeInv' /\ AcceptedCompiles'
    BY <1>0, <2>0, RequestsAssumption DEF ModelCallsTool, GoTo, Return, CodeInv, LimitIsTheOnlyFault, AgentStaysInLimits,
         AcceptedCompiles, RequestInv, ResultInv, OnTheWay, AtServer
  <2> QED BY <2>1, <2>2, <2>3, <2>4 DEF PathInv
<1>3. CASE \E reply \in BadReplies : ModelRefuses(reply)
  <2>0. PICK reply \in BadReplies : ModelRefuses(reply)
    BY <1>3
  <2>1. TypeOK'
    BY <1>0, <2>0 DEF ModelRefuses, GoTo, Return, TypeOK, Places, Refusals, NoAnswer, NoResult
  <2>2. RequestInv' /\ ResultInv'
    BY <1>0, <2>0 DEF ModelRefuses, GoTo, Return, RequestInv, ResultInv, OnTheWay, AtServer, Plan, Refusals
  <2>3. AnswerInv'
    BY <1>0, <2>0 DEF ModelRefuses, GoTo, Return, AnswerInv, AnswersQuoteTheServer, NoAnswer
  <2>4. CodeInv' /\ AcceptedCompiles'
    BY <1>0, <2>0 DEF ModelRefuses, GoTo, Return, CodeInv, LimitIsTheOnlyFault, AgentStaysInLimits,
         AcceptedCompiles, RequestInv, ResultInv, OnTheWay, AtServer
  <2> QED BY <2>1, <2>2, <2>3, <2>4 DEF PathInv
<1>4. CASE AgentChecks
  <2>a. DemoVerdict(request) = "accepted"
          => /\ DemoArgs(request) \in Payload
             /\ ~WriteIntent(DemoArgs(request))
             /\ DemoArgs(request).limit \in 1 .. MaxLimit
    BY <1>0, <1>4, AgentArgs DEF AgentChecks, RequestInv, OnTheWay
  <2>1. TypeOK'
    BY <1>0, <1>4, <2>a DEF AgentChecks, GoTo, Return, TypeOK, Places, Refusals, NoAnswer, NoResult
  <2>2. RequestInv' /\ ResultInv'
    BY <1>0, <1>4, <2>a DEF AgentChecks, GoTo, Return, RequestInv, ResultInv, OnTheWay, AtServer, Plan, Refusals
  <2>3. AnswerInv'
    BY <1>0, <1>4, <2>a DEF AgentChecks, GoTo, Return, AnswerInv, AnswersQuoteTheServer, NoAnswer
  <2>4. CodeInv' /\ AcceptedCompiles'
    BY <1>0, <1>4, <2>a DEF AgentChecks, GoTo, Return, CodeInv, LimitIsTheOnlyFault, AgentStaysInLimits,
         AcceptedCompiles, RequestInv, ResultInv, OnTheWay, AtServer
  <2> QED BY <2>1, <2>2, <2>3, <2>4 DEF PathInv
<1>5. CASE MatchPolicy
  <2>1. TypeOK'
    BY <1>0, <1>5 DEF MatchPolicy, GoTo, Return, TypeOK, Places, Refusals, NoAnswer, NoResult
  <2>2. RequestInv' /\ ResultInv'
    BY <1>0, <1>5 DEF MatchPolicy, GoTo, Return, RequestInv, ResultInv, OnTheWay, AtServer, Plan, Refusals
  <2>3. AnswerInv'
    BY <1>0, <1>5 DEF MatchPolicy, GoTo, Return, AnswerInv, AnswersQuoteTheServer, NoAnswer
  <2>4. CodeInv' /\ AcceptedCompiles'
    BY <1>0, <1>5 DEF MatchPolicy, GoTo, Return, CodeInv, LimitIsTheOnlyFault, AgentStaysInLimits,
         AcceptedCompiles, RequestInv, ResultInv, OnTheWay, AtServer
  <2> QED BY <2>1, <2>2, <2>3, <2>4 DEF PathInv
<1>6. CASE CatalogFails
  <2>1. TypeOK'
    BY <1>0, <1>6 DEF CatalogFails, GoTo, Return, TypeOK, Places, Refusals, NoAnswer, NoResult
  <2>2. RequestInv' /\ ResultInv'
    BY <1>0, <1>6 DEF CatalogFails, GoTo, Return, RequestInv, ResultInv, OnTheWay, AtServer, Plan, Refusals
  <2>3. AnswerInv'
    BY <1>0, <1>6 DEF CatalogFails, GoTo, Return, AnswerInv, AnswersQuoteTheServer, NoAnswer
  <2>4. CodeInv' /\ AcceptedCompiles'
    BY <1>0, <1>6 DEF CatalogFails, GoTo, Return, CodeInv, LimitIsTheOnlyFault, AgentStaysInLimits,
         AcceptedCompiles, RequestInv, ResultInv, OnTheWay, AtServer
  <2> QED BY <2>1, <2>2, <2>3, <2>4 DEF PathInv
<1>7. CASE Validate
  <2>a. Verdict(request) = "RESULT_LIMIT_EXCEEDED"
          => Verdict([request EXCEPT !.limit = MaxLimit]) = "accepted"
    BY <1>0, <1>7, LimitAlone DEF Validate, RequestInv, OnTheWay
  <2>b. viaAgent => Verdict(request) \notin {"RESULT_LIMIT_EXCEEDED", "WRITE_OPERATION_FORBIDDEN"}
    <3> SUFFICES ASSUME viaAgent
                 PROVE  Verdict(request) \notin {"RESULT_LIMIT_EXCEEDED", "WRITE_OPERATION_FORBIDDEN"}
      OBVIOUS
    <3>1. ~WriteIntent(request) /\ request.limit \in 1 .. MaxLimit
      BY <1>0, <1>7 DEF Validate, RequestInv, AtServer
    <3>2. LimitVerdict(request) = "accepted"
      BY <1>0, <3>1, ShapesAssumption DEF LimitVerdict
    <3> QED BY <3>1, <3>2, FilterVerdicts DEF Verdict
  <2>1. TypeOK'
    BY <1>0, <1>7, <2>a, <2>b DEF Validate, GoTo, Return, TypeOK, Places, Refusals, NoAnswer, NoResult
  <2>2. RequestInv' /\ ResultInv'
    BY <1>0, <1>7, <2>a, <2>b DEF Validate, GoTo, Return, RequestInv, ResultInv, OnTheWay, AtServer, Plan, Refusals
  <2>3. AnswerInv'
    BY <1>0, <1>7, <2>a, <2>b DEF Validate, GoTo, Return, AnswerInv, AnswersQuoteTheServer, NoAnswer
  <2>4. CodeInv' /\ AcceptedCompiles'
    BY <1>0, <1>7, <2>a, <2>b DEF Validate, GoTo, Return, CodeInv, LimitIsTheOnlyFault, AgentStaysInLimits,
         AcceptedCompiles, RequestInv, ResultInv, OnTheWay, AtServer
  <2> QED BY <2>1, <2>2, <2>3, <2>4 DEF PathInv
<1>8. CASE CompilePlan
  <2>a. ~Compiles(Plan) => ~(ColumnsRead(Plan) \subseteq Columns)
    BY <1>0, <1>8, AcceptedPlanCompiles DEF CompilePlan, RequestInv, OnTheWay, Plan
  <2>b. Compiles(Plan) => ColumnsRead(Plan) \subseteq Columns
    BY CompiledReadsColumns
  <2>1. TypeOK'
    BY <1>0, <1>8, <2>a DEF CompilePlan, GoTo, Return, TypeOK, Places, Refusals, NoAnswer, NoResult
  <2>2. RequestInv' /\ ResultInv'
    BY <1>0, <1>8, <2>a DEF CompilePlan, GoTo, Return, RequestInv, ResultInv, OnTheWay, AtServer, Plan, Refusals
  <2>3. AnswerInv'
    BY <1>0, <1>8, <2>a DEF CompilePlan, GoTo, Return, AnswerInv, AnswersQuoteTheServer, NoAnswer
  <2>4. CodeInv'
    BY <1>0, <1>8 DEF CompilePlan, GoTo, CodeInv, LimitIsTheOnlyFault, AgentStaysInLimits
  <2>5. AcceptedCompiles'
    <3>1. Plan' = Plan
      BY <1>8 DEF CompilePlan, Plan
    <3>2. /\ place' = "compiled" => Compiles(Plan)
          /\ place' = "compileError" => ~Compiles(Plan)
      BY <1>8 DEF CompilePlan, GoTo
    <3> QED BY <2>a, <2>b, <3>1, <3>2 DEF AcceptedCompiles
  <2> QED BY <2>1, <2>2, <2>3, <2>4, <2>5 DEF PathInv
<1>9. CASE \E n \in 0 .. MaxMatches : MySqlAnswers(n)
  <2>0. PICK n \in 0 .. MaxMatches : MySqlAnswers(n)
    BY <1>9
  <2>a. n \in Nat
    BY RequestsAssumption
  <2>b. result' \in Result
    <3>1. Plan.limit \in 1 .. MaxLimit
      BY <1>0, <2>0, AcceptedLimit DEF MySqlAnswers, RequestInv, OnTheWay, Plan
    <3>2. result' = ToResult(Plan, Least(n, FetchLimit(Plan)))
      BY <2>0 DEF MySqlAnswers
    <3> QED BY <2>a, <3>1, <3>2, ClippedResult
  <2>1. TypeOK'
    <3>1. matches' \in Nat /\ place' = "returned" /\ UNCHANGED <<viaAgent, code, answer>>
      BY <2>0, <2>a DEF MySqlAnswers, GoTo
    <3> QED BY <1>0, <2>b, <3>1 DEF TypeOK, Result, Places
  <2>2. RequestInv' /\ ResultInv'
    BY <1>0, <2>0, <2>a, <2>b DEF MySqlAnswers, GoTo, Return, RequestInv, ResultInv, OnTheWay, AtServer, Plan, Refusals
  <2>3. AnswerInv'
    BY <1>0, <2>0, <2>a, <2>b DEF MySqlAnswers, GoTo, Return, AnswerInv, AnswersQuoteTheServer, NoAnswer
  <2>4. CodeInv' /\ AcceptedCompiles'
    BY <1>0, <2>0, <2>a, <2>b DEF MySqlAnswers, GoTo, Return, CodeInv, LimitIsTheOnlyFault, AgentStaysInLimits,
         AcceptedCompiles, RequestInv, ResultInv, OnTheWay, AtServer
  <2> QED BY <2>1, <2>2, <2>3, <2>4 DEF PathInv
<1>10. CASE MySqlFails
  <2>1. TypeOK'
    BY <1>0, <1>10 DEF MySqlFails, GoTo, Return, TypeOK, Places, Refusals, NoAnswer, NoResult
  <2>2. RequestInv' /\ ResultInv'
    BY <1>0, <1>10 DEF MySqlFails, GoTo, Return, RequestInv, ResultInv, OnTheWay, AtServer, Plan, Refusals
  <2>3. AnswerInv'
    BY <1>0, <1>10 DEF MySqlFails, GoTo, Return, AnswerInv, AnswersQuoteTheServer, NoAnswer
  <2>4. CodeInv' /\ AcceptedCompiles'
    BY <1>0, <1>10 DEF MySqlFails, GoTo, Return, CodeInv, LimitIsTheOnlyFault, AgentStaysInLimits,
         AcceptedCompiles, RequestInv, ResultInv, OnTheWay, AtServer
  <2> QED BY <2>1, <2>2, <2>3, <2>4 DEF PathInv
<1>11. CASE Answer
  <2>a. code = "none" => result.status # "none" /\ result.rowCount \in 0 .. MaxLimit
    <3> SUFFICES ASSUME code = "none" PROVE result.status # "none" /\ result.rowCount \in 0 .. MaxLimit
      OBVIOUS
    <3>1. Plan.limit \in 1 .. MaxLimit /\ matches \in Nat
      BY <1>0, <1>11, AcceptedLimit DEF Answer, ResultInv, Plan, TypeOK
    <3>2. result = ToResult(Plan, Least(matches, FetchLimit(Plan)))
      BY <1>0, <1>11 DEF Answer, ResultInv
    <3> QED BY <3>1, <3>2, ClippedResult DEF Result
  <2>1. TypeOK'
    <3>1. place' = "done" /\ UNCHANGED <<viaAgent, code, matches, result>>
      BY <1>11 DEF Answer, GoTo
    <3>2. answer' \in [called : BOOLEAN, succeeded : BOOLEAN,
                       rowCount : {Absent} \cup (0 .. MaxLimit)]
      <4>1. CASE ~viaAgent
        BY <1>0, <1>11, <4>1 DEF Answer, TypeOK
      <4>2. CASE viaAgent
        <5>1. (code = "none") \in BOOLEAN
          OBVIOUS
        <5> QED BY <1>11, <2>a, <4>2, <5>1 DEF Answer
      <4> QED BY <4>1, <4>2
    <3> QED BY <1>0, <3>1, <3>2 DEF TypeOK, Places
  <2>2. RequestInv' /\ ResultInv'
    BY <1>0, <1>11, <2>a DEF Answer, GoTo, Return, RequestInv, ResultInv, OnTheWay, AtServer, Plan, Refusals
  <2>3. AnswerInv'
    BY <1>0, <1>11, <2>a DEF Answer, GoTo, Return, AnswerInv, AnswersQuoteTheServer, NoAnswer
  <2>4. CodeInv' /\ AcceptedCompiles'
    BY <1>0, <1>11, <2>a DEF Answer, GoTo, Return, CodeInv, LimitIsTheOnlyFault, AgentStaysInLimits,
         AcceptedCompiles, RequestInv, ResultInv, OnTheWay, AtServer
  <2> QED BY <2>1, <2>2, <2>3, <2>4 DEF PathInv
<1>12. CASE NextRequest
  <2>1. TypeOK'
    <3>1. NoResult \in Result
      <4>1. 0 \in 0 .. MaxLimit
        BY <1>0
      <4> QED BY <4>1 DEF NoResult, Result
    <3>2. result' \in Result
      BY <1>12, <3>1 DEF NextRequest
    <3> QED BY <1>12, <3>2 DEF NextRequest, TypeOK, Result, Places, NoAnswer
  <2>2. RequestInv' /\ ResultInv'
    BY <1>0, <1>12 DEF NextRequest, GoTo, Return, RequestInv, ResultInv, OnTheWay, AtServer, Plan, Refusals
  <2>3. AnswerInv'
    BY <1>0, <1>12 DEF NextRequest, GoTo, Return, AnswerInv, AnswersQuoteTheServer, NoAnswer
  <2>4. CodeInv' /\ AcceptedCompiles'
    BY <1>0, <1>12 DEF NextRequest, GoTo, Return, CodeInv, LimitIsTheOnlyFault, AgentStaysInLimits,
         AcceptedCompiles, RequestInv, ResultInv, OnTheWay, AtServer
  <2> QED BY <2>1, <2>2, <2>3, <2>4 DEF PathInv
<1>13. CASE AgentRaises
  <2>1. TypeOK'
    BY <1>0, <1>13 DEF AgentRaises, GoTo, Return, TypeOK, Places, Refusals, NoAnswer, NoResult
  <2>2. RequestInv' /\ ResultInv'
    BY <1>0, <1>13 DEF AgentRaises, GoTo, Return, RequestInv, ResultInv, OnTheWay, AtServer, Plan, Refusals
  <2>3. AnswerInv'
    BY <1>0, <1>13 DEF AgentRaises, GoTo, Return, AnswerInv, AnswersQuoteTheServer, NoAnswer
  <2>4. CodeInv' /\ AcceptedCompiles'
    BY <1>0, <1>13 DEF AgentRaises, GoTo, Return, CodeInv, LimitIsTheOnlyFault, AgentStaysInLimits,
         AcceptedCompiles, RequestInv, ResultInv, OnTheWay, AtServer
  <2> QED BY <2>1, <2>2, <2>3, <2>4 DEF PathInv
<1>14. CASE UNCHANGED vars
  <2>1. TypeOK'
    BY <1>0, <1>14 DEF vars, GoTo, Return, TypeOK, Places, Refusals, NoAnswer, NoResult
  <2>2. RequestInv' /\ ResultInv'
    BY <1>0, <1>14 DEF vars, GoTo, Return, RequestInv, ResultInv, OnTheWay, AtServer, Plan, Refusals
  <2>3. AnswerInv'
    BY <1>0, <1>14 DEF vars, GoTo, Return, AnswerInv, AnswersQuoteTheServer, NoAnswer
  <2>4. CodeInv' /\ AcceptedCompiles'
    BY <1>0, <1>14 DEF vars, GoTo, Return, CodeInv, LimitIsTheOnlyFault, AgentStaysInLimits,
         AcceptedCompiles, Plan, RequestInv, ResultInv, OnTheWay, AtServer
  <2> QED BY <2>1, <2>2, <2>3, <2>4 DEF PathInv
<1> QED
  BY <1>1, <1>2, <1>3, <1>4, <1>5, <1>6, <1>7, <1>8, <1>9, <1>10, <1>11, <1>12, <1>13, <1>14 DEF Next

(***************************************************************************)
(* What is known of the path holds on the whole of it, whatever the fields,*)
(* the columns, the limits and the requests are.                           *)
(***************************************************************************)
THEOREM QueryInvariant == Spec => []PathInv
<1> QED BY PathInit, PathStep, PTL DEF Spec

(***************************************************************************)
(* Type correctness: in particular a result never carries more rows than   *)
(* the largest limit, though one more than the limit is fetched.           *)
(***************************************************************************)
THEOREM QueryTypeCorrect == Spec => []TypeOK
<1>1. PathInv => TypeOK
  BY DEF PathInv
<1> QED BY <1>1, QueryInvariant, PTL

(***************************************************************************)
(* compile_query_plan raises on a request that validate_query_request has  *)
(* accepted only for a field outside the adapter's column list, and what   *)
(* it compiles is within it: whatever the policy grants.                   *)
(***************************************************************************)
THEOREM AcceptedRequestsCompile == Spec => []AcceptedCompiles
<1>1. PathInv => AcceptedCompiles
  BY DEF PathInv
<1> QED BY <1>1, QueryInvariant, PTL

(***************************************************************************)
(* The statement of a request reads no column outside the fields that the  *)
(* policy grants and the view has, in any of its clauses.                  *)
(***************************************************************************)
THEOREM StatementsReadGrantedColumns == Spec => []OnlyGrantedColumns
<1>1. PathInv => OnlyGrantedColumns
  <2> SUFFICES ASSUME PathInv, place = "compiled"
               PROVE  ColumnsRead(Plan) \subseteq Fields
    BY DEF OnlyGrantedColumns
  <2>1. request \in Payload /\ Verdict(request) = "accepted"
    BY DEF PathInv, RequestInv, OnTheWay
  <2> QED BY <2>1, AcceptedReadsFields DEF Plan
<1> QED BY <1>1, QueryInvariant, PTL

(***************************************************************************)
(* A request with write intent, or on a dataset that is not the caller's,  *)
(* never becomes a statement.                                              *)
(***************************************************************************)
THEOREM WritesNeverReachMySql == Spec => []NoWriteReachesMySql
<1>1. PathInv => NoWriteReachesMySql
  <2> SUFFICES ASSUME PathInv, place = "compiled"
               PROVE  /\ ~request.writeKey
                      /\ request.operation # "write"
                      /\ request.dataset = "granted"
    BY DEF NoWriteReachesMySql
  <2>1. /\ request \in Payload /\ Verdict(request) = "accepted"
        /\ request.dataset = "granted"
    BY DEF PathInv, RequestInv, OnTheWay
  <2> QED BY <2>1, AcceptedParts DEF WriteIntent
<1> QED BY <1>1, QueryInvariant, PTL

(***************************************************************************)
(* An envelope of a successful query is a window of the matching rows, and *)
(* says so: for every limit and every number of matching rows.             *)
(***************************************************************************)
THEOREM ResultsAreWindows == Spec => []ResultIsWindow
<1>1. PathInv => ResultIsWindow
  <2> SUFFICES ASSUME PathInv, place = "returned", code = "none"
               PROVE  /\ result.rowCount = Least(matches, Plan.limit)
                      /\ result.truncated <=> matches > Plan.limit
                      /\ result.status = "EMPTY" <=> matches = 0
    BY DEF ResultIsWindow
  <2>1. /\ request \in Payload /\ Verdict(request) = "accepted"
        /\ result = ToResult(Plan, Least(matches, FetchLimit(Plan)))
        /\ matches \in Nat
    BY DEF PathInv, ResultInv, TypeOK
  <2>2. Plan.limit \in 1 .. MaxLimit
    BY <2>1, AcceptedLimit DEF Plan
  <2> QED BY <2>1, <2>2, ClippedResult
<1> QED BY <1>1, QueryInvariant, PTL

(***************************************************************************)
(* RESULT_LIMIT_EXCEEDED is the last complaint of the rules: with a legal  *)
(* limit the same request is accepted.                                     *)
(***************************************************************************)
THEOREM LimitFaultIsAlone == Spec => []LimitIsTheOnlyFault
<1>1. PathInv => LimitIsTheOnlyFault
  BY DEF PathInv, CodeInv
<1> QED BY <1>1, QueryInvariant, PTL

(***************************************************************************)
(* The row count an answer of the agent quotes is that of the envelope of  *)
(* a query that succeeded.                                                 *)
(***************************************************************************)
THEOREM AnswersAreQuotes == Spec => []AnswersQuoteTheServer
<1>1. PathInv => AnswersQuoteTheServer
  BY DEF PathInv, AnswerInv
<1> QED BY <1>1, QueryInvariant, PTL

(***************************************************************************)
(* What the agent's own check lets through, the server never refuses for   *)
(* its limit or for write intent.                                          *)
(***************************************************************************)
THEOREM AgentRequestsAreInLimits == Spec => []AgentStaysInLimits
<1>1. PathInv => AgentStaysInLimits
  BY DEF PathInv, CodeInv
<1> QED BY <1>1, QueryInvariant, PTL

(***************************************************************************)
(* Every statement that is compiled has one placeholder for each parameter *)
(* the driver gets, and the parameters are the plan's bind_values, for any *)
(* number of filters and of values in them.                                *)
(***************************************************************************)
THEOREM ParametersFitTheStatement == Spec => []BindsMatchStatement
<1>1. PathInv => BindsMatchStatement
  BY AcceptedBinds DEF PathInv, RequestInv, OnTheWay, BindsMatchStatement, Plan
<1>2. QED
  BY <1>1, QueryInvariant, PTL
=============================================================================
