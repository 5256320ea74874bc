----------------------- MODULE ContributionRatesProofs -----------------------
(***************************************************************************)
(* Facts about contribution rates for any set of rate rows: sums over the  *)
(* rows of a report, the rate that both readers find, and the deficiency.  *)
(*                                                                         *)
(* A fact about all finite sets is proved by its smallest counterexample.  *)
(***************************************************************************)
EXTENDS ContributionRates, FiniteSetTheorems, WellFoundedInduction, TLAPS

-----------------------------------------------------------------------------
(* Sums over finite sets *)

\* Among finite sets there is one of which no proper subset is among them.
LEMMA SmallestSet ==
    ASSUME NEW S, IsFiniteSet(S), NEW Bad \in SUBSET SUBSET S, Bad # {}
    PROVE  \E m \in Bad : \A u \in Bad : u \subseteq m => u = m
<1>1. FiniteSubsetsOf(S) = SUBSET S
  BY FS_FiniteSubsetsOfFinite
<1>2. PICK m \in Bad : \A u \in Bad : <<u, m>> \notin StrictSubsetOrdering(S)
  BY <1>1, FS_StrictSubsetOrderingWellFounded, WFMin
<1> QED  BY <1>2 DEF StrictSubsetOrdering

\* The element a sum over s takes first, and the rest.
Pick(s) == CHOOSE x \in s : TRUE
Rest(s) == s \ {Pick(s)}

\* f is the recursion of a sum: f[s] adds up the weights of s.
Adds(f, w, S) ==
    f = [s \in SUBSET S |-> IF s = {} THEN 0 ELSE w[Pick(s)] + f[Rest(s)]]

\* SumFunctionOnSet is that recursion.
LEMMA SumIsChosen ==
    ASSUME NEW w, NEW S
    PROVE  SumFunctionOnSet(w, S) = (CHOOSE f : Adds(f, w, S))[S]
BY DEF SumFunctionOnSet, FoldFunctionOnSet, MapThenFoldSet, Pick, Rest, Adds

\* What is left is a smaller set.
LEMMA RestIsSmaller ==
    ASSUME NEW s, s # {}
    PROVE  Pick(s) \in s /\ Rest(s) \subseteq s /\ Rest(s) # s
BY DEF Pick, Rest

\* The recursion leaves no choice.
LEMMA AddsUnique ==
    ASSUME NEW w, NEW A, IsFiniteSet(A), NEW B, A \subseteq B,
           NEW f, NEW g, Adds(f, w, A), Adds(g, w, B)
    PROVE  f[A] = g[A]
<1> DEFINE Bad == {s \in SUBSET A : f[s] # g[s]}
<1>1. CASE Bad = {}
  BY <1>1
<1>2. CASE Bad # {}
  <2>0. Bad \in SUBSET SUBSET A
    OBVIOUS
  <2> HIDE DEF Bad
  <2>1. PICK m \in Bad : \A u \in Bad : u \subseteq m => u = m
    BY <1>2, <2>0, SmallestSet
  <2> USE DEF Bad
  <2>2. m \in SUBSET A /\ m \in SUBSET B
    OBVIOUS
  <2>3. m # {}
    BY <2>1, <2>2 DEF Adds
  <2>4. Rest(m) \in SUBSET A /\ Rest(m) \notin Bad /\ f[Rest(m)] = g[Rest(m)]
    BY <2>1, <2>2, <2>3, RestIsSmaller
  <2>5. f[m] = g[m]
    BY <2>2, <2>3, <2>4 DEF Adds
  <2> QED  BY <2>1, <2>5
<1> QED  BY <1>1, <1>2

\* The recursion as an equation of sums, on sets that have one.
LEMMA SumUnfolds ==
    ASSUME NEW w, NEW S, IsFiniteSet(S), \E f : Adds(f, w, S),
           S # {}, \E f : Adds(f, w, Rest(S))
    PROVE  SumFunctionOnSet(w, S) = w[Pick(S)] + SumFunctionOnSet(w, Rest(S))
<1> DEFINE f == CHOOSE f : Adds(f, w, S)
           g == CHOOSE g : Adds(g, w, Rest(S))
<1>1. Adds(f, w, S) /\ Adds(g, w, Rest(S))
  OBVIOUS
<1>2. SumFunctionOnSet(w, S) = f[S] /\ SumFunctionOnSet(w, Rest(S)) = g[Rest(S)]
  BY SumIsChosen
<1> HIDE DEF f, g
<1>3. Rest(S) \subseteq S /\ IsFiniteSet(Rest(S))
  BY RestIsSmaller, FS_Subset
<1>4. g[Rest(S)] = f[Rest(S)]
  BY <1>1, <1>3, AddsUnique
<1>5. f[S] = w[Pick(S)] + f[Rest(S)]
  BY <1>1 DEF Adds
<1> QED  BY <1>2, <1>4, <1>5

\* The recursion on nothing.
LEMMA EmptyAdds == ASSUME NEW w PROVE Adds([s \in SUBSET {} |-> 0], w, {})
BY DEF Adds

\* Nothing adds up to 0.
LEMMA EmptySum == ASSUME NEW w PROVE SumFunctionOnSet(w, {}) = 0
<1>1. Adds(CHOOSE f : Adds(f, w, {}), w, {})
  BY EmptyAdds
<1> QED  BY <1>1, SumIsChosen DEF Adds

\* Every finite set has a sum.
LEMMA AddsExists ==
    ASSUME NEW w, NEW S, IsFiniteSet(S)
    PROVE  \E f : Adds(f, w, S)
<1> DEFINE Bad == {s \in SUBSET S : ~\E f : Adds(f, w, s)}
<1>1. CASE Bad = {}
  BY <1>1
<1>2. CASE Bad # {}
  <2>0. Bad \in SUBSET SUBSET S
    OBVIOUS
  <2> HIDE DEF Bad
  <2>1. PICK m \in Bad : \A u \in Bad : u \subseteq m => u = m
    BY <1>2, <2>0, SmallestSet
  <2> USE DEF Bad
  <2>2. \A u \in SUBSET m : u # m => \E f : Adds(f, w, u)
    BY <2>1
  <2>3. ~\E f : Adds(f, w, m)
    BY <2>1
  <2>4. IsFiniteSet(m) /\ \A u \in SUBSET m : IsFiniteSet(u)
    BY FS_Subset
  <2> HIDE DEF Bad
  <2> DEFINE g == [s \in SUBSET m |-> IF s = {} THEN 0 ELSE w[Pick(s)] + SumFunctionOnSet(w, Rest(s))]
  <2>5. m # {}
    BY <2>3, EmptyAdds
  <2>6. ASSUME NEW s \in SUBSET m, s # m
        PROVE  g[s] = SumFunctionOnSet(w, s)
    <3>1. CASE s = {}
      BY <3>1, EmptySum
    <3>2. CASE s # {}
      <4>1. Rest(s) \in SUBSET m /\ Rest(s) # m
        BY <2>6, <3>2, RestIsSmaller
      <4>2. SumFunctionOnSet(w, s) = w[Pick(s)] + SumFunctionOnSet(w, Rest(s))
        BY <2>2, <2>4, <2>6, <3>2, <4>1, SumUnfolds
      <4> QED  BY <3>2, <4>2
    <3> QED  BY <3>1, <3>2
  <2>7. ASSUME NEW s \in SUBSET m, s # {}
        PROVE  g[s] = w[Pick(s)] + g[Rest(s)]
    <3>1. Rest(s) \in SUBSET m /\ Rest(s) # m
      BY <2>7, RestIsSmaller
    <3>2. g[Rest(s)] = SumFunctionOnSet(w, Rest(s))
      BY <2>6, <3>1
    <3>3. g[s] = w[Pick(s)] + SumFunctionOnSet(w, Rest(s))
      BY <2>7
    <3> QED  BY <3>2, <3>3
  <2>8. g[{}] = 0 /\ g = [s \in SUBSET m |-> g[s]]
    OBVIOUS
  <2> HIDE DEF g
  <2>9. Adds(g, w, m)
    BY <2>7, <2>8 DEF Adds
  <2> QED  BY <2>3, <2>9
<1> QED  BY <1>1, <1>2

\* A sum is the weight of the first element and the sum of the rest.
LEMMA FirstAndRest ==
    ASSUME NEW w, NEW S, IsFiniteSet(S), S # {}
    PROVE  SumFunctionOnSet(w, S) = w[Pick(S)] + SumFunctionOnSet(w, Rest(S))
BY AddsExists, SumUnfolds, RestIsSmaller, FS_Subset

\* Sums of natural weights are natural; they are 0 when all weights are.
LEMMA SumOfNaturals ==
    ASSUME NEW w, NEW S, IsFiniteSet(S), \A x \in S : w[x] \in Nat
    PROVE  /\ SumFunctionOnSet(w, S) \in Nat
           /\ SumFunctionOnSet(w, S) > 0 <=> \E x \in S : w[x] > 0
<1> DEFINE Good(s) == /\ SumFunctionOnSet(w, s) \in Nat
                      /\ SumFunctionOnSet(w, s) > 0 <=> \E x \in s : w[x] > 0
           Bad == {s \in SUBSET S : ~Good(s)}
<1>1. CASE Bad = {}
  BY <1>1
<1>2. CASE Bad # {}
  <2>0. Bad \in SUBSET SUBSET S
    OBVIOUS
  <2> HIDE DEF Bad
  <2>1. PICK m \in Bad : \A u \in Bad : u \subseteq m => u = m
    BY <1>2, <2>0, SmallestSet
  <2> USE DEF Bad
  <2>2. m \in SUBSET S /\ ~Good(m)
    OBVIOUS
  <2>3. m # {}
    BY <2>2, EmptySum
  <2>4. Pick(m) \in m /\ Rest(m) \in SUBSET m /\ Rest(m) # m /\ m = Rest(m) \cup {Pick(m)}
    BY <2>3, RestIsSmaller DEF Rest
  <2>5. Good(Rest(m))
    BY <2>1, <2>2, <2>4
  <2>6. SumFunctionOnSet(w, m) = w[Pick(m)] + SumFunctionOnSet(w, Rest(m)) /\ w[Pick(m)] \in Nat
    BY <2>2, <2>3, <2>4, FirstAndRest, FS_Subset
  <2>7. (\E x \in m : w[x] > 0) <=> (w[Pick(m)] > 0 \/ \E x \in Rest(m) : w[x] > 0)
    BY <2>4
  <2> QED  BY <2>2, <2>5, <2>6, <2>7
<1> QED  BY <1>1, <1>2

\* Sums of integers are integers.
LEMMA SumOfIntegers ==
    ASSUME NEW w, NEW S, IsFiniteSet(S), \A x \in S : w[x] \in Int
    PROVE  SumFunctionOnSet(w, S) \in Int
<1> DEFINE Bad == {s \in SUBSET S : SumFunctionOnSet(w, s) \notin Int}
<1>1. CASE Bad = {}
  BY <1>1
<1>2. CASE Bad # {}
  <2>0. Bad \in SUBSET SUBSET S
    OBVIOUS
  <2> HIDE DEF Bad
  <2>1. PICK m \in Bad : \A u \in Bad : u \subseteq m => u = m
    BY <1>2, <2>0, SmallestSet
  <2> USE DEF Bad
  <2>2. m \in SUBSET S /\ SumFunctionOnSet(w, m) \notin Int
    OBVIOUS
  <2>3. m # {}
    BY <2>2, EmptySum
  <2>4. Pick(m) \in m /\ SumFunctionOnSet(w, Rest(m)) \in Int
    BY <2>1, <2>2, <2>3, RestIsSmaller
  <2>5. SumFunctionOnSet(w, m) = w[Pick(m)] + SumFunctionOnSet(w, Rest(m))
    BY <2>2, <2>3, FirstAndRest, FS_Subset
  <2> QED  BY <2>2, <2>4, <2>5
<1> QED  BY <1>1, <1>2

\* Any element may be taken out first.
LEMMA TakeOut ==
    ASSUME NEW w, NEW S, IsFiniteSet(S), \A x \in S : w[x] \in Int, NEW x \in S
    PROVE  SumFunctionOnSet(w, S) = w[x] + SumFunctionOnSet(w, S \ {x})
<1> DEFINE Bad == {s \in SUBSET S : \E y \in s : SumFunctionOnSet(w, s) # w[y] + SumFunctionOnSet(w, s \ {y})}
<1>1. CASE Bad = {}
  <2>1. ~(SumFunctionOnSet(w, S) # w[x] + SumFunctionOnSet(w, S \ {x}))
    BY <1>1
  <2> QED  BY <2>1
<1>2. CASE Bad # {}
  <2>0. Bad \in SUBSET SUBSET S
    OBVIOUS
  <2> HIDE DEF Bad
  <2>1. PICK m \in Bad : \A u \in Bad : u \subseteq m => u = m
    BY <1>2, <2>0, SmallestSet
  <2> USE DEF Bad
  <2>2. PICK y \in m : SumFunctionOnSet(w, m) # w[y] + SumFunctionOnSet(w, m \ {y})
    BY <2>1
  <2> DEFINE p == Pick(m)
  <2>3. p \in m /\ m \in SUBSET S /\ m # {}
    BY RestIsSmaller
  <2>4. SumFunctionOnSet(w, m) = w[p] + SumFunctionOnSet(w, m \ {p})
    BY <2>3, FirstAndRest, FS_Subset DEF Rest
  <2> HIDE DEF p
  <2>5. y # p
    BY <2>2, <2>4
  <2>6. m \ {p} \notin Bad /\ m \ {y} \notin Bad
    BY <2>1, <2>2, <2>3
  <2>7. /\ SumFunctionOnSet(w, m \ {p}) = w[y] + SumFunctionOnSet(w, (m \ {p}) \ {y})
        /\ SumFunctionOnSet(w, m \ {y}) = w[p] + SumFunctionOnSet(w, (m \ {y}) \ {p})
    BY <2>2, <2>3, <2>5, <2>6
  <2>8. (m \ {p}) \ {y} = (m \ {y}) \ {p}
    OBVIOUS
  <2>9. SumFunctionOnSet(w, (m \ {p}) \ {y}) \in Int /\ w[p] \in Int /\ w[y] \in Int
    <3>1. IsFiniteSet((m \ {p}) \ {y}) /\ \A z \in (m \ {p}) \ {y} : w[z] \in Int
      BY <2>3, FS_Subset
    <3> QED  BY <2>3, <3>1, SumOfIntegers
  <2> DEFINE r == SumFunctionOnSet(w, (m \ {p}) \ {y})
             a == SumFunctionOnSet(w, m \ {y})
  <2>10. SumFunctionOnSet(w, m) = w[p] + (w[y] + r) /\ a = w[p] + r
    BY <2>4, <2>7, <2>8
  <2>11. r \in Int /\ SumFunctionOnSet(w, m) # w[y] + a
    BY <2>2, <2>9
  <2> HIDE DEF r, a
  <2> QED  BY <2>9, <2>10, <2>11
<1> QED  BY <1>1, <1>2

\* One element more.
LEMMA AddOne ==
    ASSUME NEW w, NEW S, IsFiniteSet(S), NEW x, x \notin S, \A y \in S \cup {x} : w[y] \in Int
    PROVE  SumFunctionOnSet(w, S \cup {x}) = SumFunctionOnSet(w, S) + w[x] /\ SumFunctionOnSet(w, S) \in Int
<1>1. IsFiniteSet(S \cup {x})
  BY FS_AddElement
<1>2. (S \cup {x}) \ {x} = S
  OBVIOUS
<1>3. SumFunctionOnSet(w, S) \in Int
  BY SumOfIntegers
<1> QED  BY <1>1, <1>2, <1>3, TakeOut

\* A weight outside the set does not count.
LEMMA SumIsLocal ==
    ASSUME NEW S, IsFiniteSet(S), NEW v, NEW w, \A x \in S : v[x] = w[x]
    PROVE  SumFunctionOnSet(v, S) = SumFunctionOnSet(w, S)
<1> DEFINE f == CHOOSE f : Adds(f, v, S)
           g == CHOOSE g : Adds(g, w, S)
<1>1. Adds(f, v, S) /\ Adds(g, w, S)
  BY AddsExists
<1>2. SumFunctionOnSet(v, S) = f[S] /\ SumFunctionOnSet(w, S) = g[S]
  BY SumIsChosen
<1> HIDE DEF f, g
<1>3. \A s \in SUBSET S : s # {} => v[Pick(s)] = w[Pick(s)]
  BY RestIsSmaller
<1>4. Adds(f, w, S)
  BY <1>1, <1>3 DEF Adds
<1> QED  BY <1>1, <1>2, <1>4, AddsUnique

-----------------------------------------------------------------------------
(* Deficiencies *)

\* The columns of a report row that a deficiency is calculated from.
BillableRow(row) == row.gross \in Nat /\ row.employee \in Nat /\ row.employers \in Nat

\* A contribution falls short by a whole number of cents.
LEMMA ShortfallIsNatural ==
    ASSUME NEW gross \in Nat, NEW rate \in Nat, NEW submitted \in Nat
    PROVE  Shortfall(gross, rate, submitted) \in Nat
<1>1. gross * rate \in Int
  OBVIOUS
<1>2. RoundHalfUp(gross * rate, 100) \in Int
  BY <1>1 DEF RoundHalfUp
<1> QED  BY <1>2 DEF Shortfall, AtLeast

\* The rate that is found is one of the rows.
LEMMA FoundRate ==
    ASSUME NEW rates \in SUBSET RateRow, NEW employer, NEW type, NEW day,
           CachedRate(rates, employer, type, day) # {}
    PROVE  (CHOOSE r \in CachedRate(rates, employer, type, day) : TRUE) \in RateRow
BY DEF CachedRate, CacheEntry, First

\* So does a row.
LEMMA RowDeficiencyIsNatural ==
    ASSUME NEW rates \in SUBSET RateRow, NEW employer, NEW day, NEW row, BillableRow(row)
    PROVE  RowDeficiency(row, rates, employer, day) \in Nat
<1> DEFINE found == CachedRate(rates, employer, row.type, day)
           rate == CHOOSE r \in found : TRUE
<1>1. CASE found = {}
  BY <1>1 DEF RowDeficiency
<1>2. CASE found # {}
  <2>1. rate.employee \in Nat /\ rate.employers \in Nat
    BY <1>2, FoundRate DEF RateRow
  <2>2. /\ Shortfall(row.gross, rate.employee, row.employee) \in Nat
        /\ Shortfall(row.gross, rate.employers, row.employers) \in Nat
    BY <2>1, ShortfallIsNatural DEF BillableRow
  <2>3. RowDeficiency(row, rates, employer, day) \in
            {0, Shortfall(row.gross, rate.employee, row.employee)
                + Shortfall(row.gross, rate.employers, row.employers)}
    BY DEF RowDeficiency
  <2> HIDE DEF rate, found
  <2> QED  BY <2>2, <2>3
<1> QED  BY <1>1, <1>2

\* The deficiency of a report is a whole number of cents, and there is one
\* exactly when one of its rows has one.
LEMMA ReportDeficiencyFacts ==
    ASSUME NEW rates \in SUBSET RateRow, NEW employer, NEW day, NEW rows,
           IsFiniteSet(DOMAIN rows), \A i \in DOMAIN rows : BillableRow(rows[i])
    PROVE  /\ ReportDeficiency(rows, rates, employer, day) \in Nat
           /\ ReportDeficiency(rows, rates, employer, day) > 0
                 <=> \E i \in DOMAIN rows : RowDeficiency(rows[i], rates, employer, day) > 0
<1> DEFINE w == [i \in DOMAIN rows |-> RowDeficiency(rows[i], rates, employer, day)]
<1>1. \A i \in DOMAIN rows : w[i] \in Nat
  BY RowDeficiencyIsNatural
<1>2. \A i \in DOMAIN rows : w[i] = RowDeficiency(rows[i], rates, employer, day)
  OBVIOUS
<1>3. ReportDeficiency(rows, rates, employer, day) = SumFunctionOnSet(w, DOMAIN rows)
  BY DEF ReportDeficiency, SumFunction
<1> HIDE DEF w
<1> QED  BY <1>1, <1>2, <1>3, SumOfNaturals
-----------------------------------------------------------------------------
(* The two readers of the rates *)

\* The order of both queries is strict.
LEMMA BeforeIsStrict ==
    /\ \A r \in RateRow : ~Before(r, r)
    /\ \A r, s, t \in RateRow : Before(r, s) /\ Before(s, t) => Before(r, t)
<1>1. \A r \in RateRow : r.from \in Int
  BY DatesAssumption DEF RateRow
<1>2. \A r \in RateRow : ~Before(r, r)
  BY <1>1 DEF Before
<1>3. ASSUME NEW r \in RateRow, NEW s \in RateRow, NEW t \in RateRow, Before(r, s), Before(s, t)
      PROVE  Before(r, t)
  <2>1. r.from \in Int /\ s.from \in Int /\ t.from \in Int
    BY <1>1
  <2>2. /\ r.employer = Every => s.employer = Every
        /\ s.employer = Every => t.employer = Every
    BY <1>3 DEF Before
  <2>3. CASE (r.employer = Every) # (t.employer = Every)
    BY <2>2, <2>3 DEF Before
  <2>4. CASE (r.employer = Every) = (t.employer = Every)
    <3>1. (r.employer = Every) = (s.employer = Every) /\ (s.employer = Every) = (t.employer = Every)
      BY <2>2, <2>4
    <3>2. /\ \/ r.type # Every /\ s.type = Every
             \/ (r.type = Every) = (s.type = Every) /\ r.from > s.from
          /\ \/ s.type # Every /\ t.type = Every
             \/ (s.type = Every) = (t.type = Every) /\ s.from > t.from
      BY <1>3, <3>1 DEF Before
    <3>3. \/ r.type # Every /\ t.type = Every
          \/ (r.type = Every) = (t.type = Every) /\ r.from > t.from
      BY <2>1, <3>2
    <3> QED  BY <2>4, <3>3 DEF Before
  <2> QED  BY <2>3, <2>4
<1> QED  BY <1>2, <1>3

\* A finite table of rates has a first row.
LEMMA FirstExists ==
    ASSUME NEW S \in SUBSET RateRow, IsFiniteSet(S), S # {}
    PROVE  First(S) # {}
<1> DEFINE Earlier(r) == {s \in S : Before(s, r)}
           All == {Earlier(r) : r \in S}
<1>1. All \in SUBSET SUBSET S /\ All # {}
  OBVIOUS
<1> HIDE DEF All
<1>2. PICK m \in All : \A u \in All : u \subseteq m => u = m
  BY <1>1, SmallestSet
<1>3. PICK r \in S : m = Earlier(r)
  BY DEF All
<1>4. ASSUME NEW s \in S, Before(s, r) PROVE FALSE
  <2>1. Earlier(s) \in All /\ Earlier(s) \subseteq m
    BY <1>3, <1>4, BeforeIsStrict DEF All
  <2>2. s \in m /\ s \notin Earlier(s)
    BY <1>3, <1>4, BeforeIsStrict
  <2> QED  BY <1>2, <2>1, <2>2
<1> QED  BY <1>4 DEF First

\* The rows for a key or for every key of an employer, and of the fund.
RowsFor(rates, employer, key, day) ==
    {r \in rates : r.employer \in {employer, Every} /\ r.type = key /\ InForce(r, day)}

\* Where the rows of a type begin with one of the employer, or those of all types
\* begin with one of the fund, cache and query agree.
LEMMA CacheAgrees ==
    ASSUME NEW rates \in SUBSET RateRow, IsFiniteSet(rates),
           NEW employer \in Employers, NEW type \in EmploymentTypes, NEW day,
           \/ \A r \in CacheEntry(rates, employer, Every, day) : r.employer # employer
           \/ \A r \in CacheEntry(rates, employer, type, day) : r.employer # Every
    PROVE  CachedRate(rates, employer, type, day) = EffectiveRate(rates, employer, type, day)
<1> DEFINE A == RowsFor(rates, employer, type, day)
           B == RowsFor(rates, employer, Every, day)
<1>1. /\ CacheEntry(rates, employer, type, day) = First(A)
      /\ CacheEntry(rates, employer, Every, day) = First(B)
  BY DEF CacheEntry, RowsFor
<1>2. EffectiveRate(rates, employer, type, day) = First(A \cup B)
  <2>1. A \cup B = {r \in rates : /\ r.employer \in {employer, Every}
                                 /\ r.type \in {type, Every} /\ InForce(r, day)}
    BY DEF RowsFor
  <2> QED  BY <2>1 DEF EffectiveRate
<1>3. /\ A \in SUBSET RateRow /\ B \in SUBSET RateRow /\ IsFiniteSet(A) /\ IsFiniteSet(B)
      /\ \A r \in A : r.type = type /\ r.employer \in {employer, Every}
      /\ \A r \in B : r.type = Every /\ r.employer \in {employer, Every}
  BY FS_Subset DEF RowsFor
<1>4. type # Every /\ employer # Every
  BY KeysAssumption
<1>5. CachedRate(rates, employer, type, day) = IF First(A) # {} THEN First(A) ELSE First(B)
  BY <1>1, <1>4 DEF CachedRate
<1>6. \/ \A r \in First(B) : r.employer # employer
      \/ \A r \in First(A) : r.employer # Every
  BY <1>1
<1> HIDE DEF A, B
<1>7. CASE A = {}
  BY <1>2, <1>5, <1>7 DEF First
<1>8. CASE A # {}
  <2>1. First(A) # {}
    BY <1>3, <1>8, FirstExists
  <2>2. \/ \E a \in A : a.employer = employer
        \/ \A b \in B : b.employer = Every
    <3>1. CASE \A r \in First(A) : r.employer # Every
      BY <1>3, <2>1, <3>1 DEF First
    <3>2. CASE \A r \in First(B) : r.employer # employer
      <4>1. B = {} \/ \E r \in First(B) : r.employer = Every
        BY <1>3, <3>2, FirstExists DEF First
      <4> QED  BY <1>3, <1>4, <4>1 DEF First, Before
    <3> QED  BY <1>6, <3>1, <3>2
  <2>3. \A b \in B : \A a \in First(A) : Before(a, b)
    BY <1>3, <1>4, <2>2 DEF First, Before
  <2>4. First(A \cup B) = First(A)
    <3>1. \A b \in B : b \notin First(A \cup B)
      BY <2>1, <2>3 DEF First
    <3>2. \A b \in B : \A a \in First(A) : ~Before(b, a)
      BY <1>3, <2>3, BeforeIsStrict DEF First
    <3> QED  BY <3>1, <3>2 DEF First
  <2> QED  BY <1>2, <1>5, <2>1, <2>4
<1> QED  BY <1>7, <1>8
=============================================================================
