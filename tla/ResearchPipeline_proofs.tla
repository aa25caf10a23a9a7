----------------------- MODULE ResearchPipeline_proofs -----------------------
(***************************************************************************)
(* Safety of the downloads, of the replay and of the trading, for every    *)
(* catalogue of the server, every number of runs, faults, attempts and     *)
(* pages, every sound dataset and every setting of the strategy, the risk  *)
(* engine and the backtester.                                              *)
(***************************************************************************)
EXTENDS ResearchPipeline, SumTheorems, FiniteSetTheorems, TLAPS

(* A finite set of integers has a smallest and a largest member.           *)
LEMMA Extremes ==
  ASSUME NEW S, IsFiniteSet(S), S \subseteq Int, S # {}
  PROVE  /\ Min(S) \in S /\ \A x \in S : Min(S) <= x
         /\ Max(S) \in S /\ \A x \in S : x <= Max(S)
<1> DEFINE Low(T)  == \E x \in T : \A y \in T : x =< y
           High(T) == \E x \in T : \A y \in T : x >= y
           Done == {n \in Nat : \A T \in SUBSET S : T # {} /\ Cardinality(T) <= n => Low(T) /\ High(T)}
<1>0. \A T \in SUBSET S :
        /\ Cardinality(T) \in Nat /\ (T = {} <=> Cardinality(T) = 0)
        /\ \A x \in T : /\ T \ {x} \in SUBSET S
                        /\ Cardinality(T \ {x}) = Cardinality(T) - 1
        /\ T # {} => Pick(T) \in T
  <2> HIDE DEF Done
  <2>1. QED
    BY Smaller
<1>1. 0 \in Done
  <2>1. ASSUME NEW T \in SUBSET S, T # {} PROVE ~(Cardinality(T) <= 0)
    <3>1. Cardinality(T) \in Nat /\ Cardinality(T) # 0
      BY <1>0, <2>1
    <3>2. QED
      BY <3>1
  <2>2. QED
    BY <2>1
<1>2. ASSUME NEW n \in Nat, n \in Done PROVE n + 1 \in Done
  <2> SUFFICES ASSUME NEW T \in SUBSET S, T # {}, Cardinality(T) <= n + 1 PROVE Low(T) /\ High(T)
    OBVIOUS
  <2> DEFINE x == Pick(T)
             U == T \ {x}
  <2>1. x \in T /\ U \in SUBSET S /\ Cardinality(U) = Cardinality(T) - 1 /\ Cardinality(T) \in Nat
    BY <1>0
  <2>2. U # {} => Low(U) /\ High(U)
    <3> HIDE DEF U
    <3>1. QED
      BY <1>2, <2>1
  <2>3. CASE U = {}
    <3>1. T = {x}
      BY <2>1, <2>3
    <3> HIDE DEF x
    <3>2. QED
      BY <2>1, <3>1
  <2>4. CASE U # {}
    <3> HIDE DEF x
    <3>1. QED
      BY <2>1, <2>2, <2>4
  <2>5. QED
    BY <2>3, <2>4
<1> HIDE DEF Done
<1>3. Cardinality(S) \in Done
  BY <1>1, <1>2, SetInduction, FS_CardinalityType
<1>4. Low(S) /\ High(S)
  BY <1>3, FS_CardinalityType DEF Done
<1>5. PICK x \in S : \A y \in S : x =< y
  BY <1>4
<1>6. PICK z \in S : \A y \in S : z >= y
  BY <1>4
<1>7. Min(S) \in S /\ \A y \in S : Min(S) =< y
  BY <1>5 DEF Min
<1>8. Max(S) \in S /\ \A y \in S : Max(S) >= y
  BY <1>6 DEF Max
<1>9. QED
  BY <1>7, <1>8
-----------------------------------------------------------------------------
(* The bisection.                                                          *)

(* The equation of the function that Search defines.                       *)
Middle(low, high) == (low + high + 1) \div 2
Half(h, low, high, r, p) ==
  IF low >= high THEN low
  ELSE IF Feasible(Middle(low, high), r, p) THEN h[Middle(low, high)][high]
       ELSE h[low][Middle(low, high) - 1]
Bisects(h, top, r, p) ==
  h = [low \in 0..top |-> [high \in 0..top |-> Half(h, low, high, r, p)]]

(* Search takes a solution of the bisection's equation.                    *)
LEMMA SearchIsChosen ==
  ASSUME NEW r, NEW p
  PROVE  Search(r, p) = (CHOOSE h : Bisects(h, Ceiling(r, p), r, p))[0][Ceiling(r, p)]
  BY DEF Search, Bisects, Half, Middle

(* The middle lies above the lower end and not above the upper one.        *)
LEMMA MiddleBetween ==
  ASSUME NEW low \in Nat, NEW high \in Nat, low < high
  PROVE  Middle(low, high) \in Nat /\ low < Middle(low, high) /\ Middle(low, high) <= high
  BY DEF Middle

(* The largest number of units that fits, of low and those above it.       *)
Fitting(low, high, r, p) == {low} \cup {u \in (low + 1)..high : Feasible(u, r, p)}

(* Fewer units fit whenever more do.                                       *)
Downward(top, r, p) ==
  \A u, v \in 0..top : v <= u /\ Feasible(u, r, p) => Feasible(v, r, p)

(* The equation determines its solution: the largest fitting one.          *)
LEMMA FittingMax ==
  ASSUME NEW low \in Nat, NEW high \in Nat, NEW r, NEW p
  PROVE  /\ Max(Fitting(low, high, r, p)) \in Fitting(low, high, r, p)
         /\ \A u \in Fitting(low, high, r, p) : u <= Max(Fitting(low, high, r, p))
<1> DEFINE F == Fitting(low, high, r, p)
<1>1. F \subseteq 0..(low + high) /\ F \subseteq Int /\ F # {}
  BY DEF Fitting
<1>2. IsFiniteSet(F)
  <2>1. IsFiniteSet(0..(low + high))
    BY FS_Interval
  <2>2. QED
    BY <1>1, <2>1, FS_Subset
<1>3. QED
  BY <1>1, <1>2, Extremes

(* Two numbers bound a set and belong to it only when they are equal.      *)
LEMMA MaxIs ==
  ASSUME NEW low \in Nat, NEW high \in Nat, NEW r, NEW p,
         NEW m \in Fitting(low, high, r, p), \A u \in Fitting(low, high, r, p) : u <= m
  PROVE  Max(Fitting(low, high, r, p)) = m
<1>1. Fitting(low, high, r, p) \subseteq Int
  BY DEF Fitting
<1>2. QED
  BY <1>1, FittingMax

(* One halving keeps the largest fitting one.                              *)
LEMMA HalvingKeeps ==
  ASSUME NEW top \in Nat, NEW r, NEW p, Downward(top, r, p),
         NEW low \in 0..top, NEW high \in 0..top, low < high
  PROVE  Max(Fitting(low, high, r, p)) =
           IF Feasible(Middle(low, high), r, p)
           THEN Max(Fitting(Middle(low, high), high, r, p))
           ELSE Max(Fitting(low, Middle(low, high) - 1, r, p))
<1> DEFINE m == Middle(low, high)
           above == Max(Fitting(m, high, r, p))
           below == Max(Fitting(low, m - 1, r, p))
<1>1. m \in Nat /\ low < m /\ m <= high /\ m - 1 \in Nat
  BY MiddleBetween
<1> HIDE DEF m
<1>2. CASE Feasible(m, r, p)
  <2>1. above \in Fitting(m, high, r, p) /\ \A u \in Fitting(m, high, r, p) : u <= above
    BY <1>1, FittingMax
  <2> HIDE DEF above
  <2>2. above \in Fitting(low, high, r, p) /\ above \in Nat /\ m <= above
    BY <1>1, <1>2, <2>1 DEF Fitting
  <2>3. ASSUME NEW u \in Fitting(low, high, r, p) PROVE u <= above
    BY <1>1, <2>1, <2>2 DEF Fitting
  <2>4. Max(Fitting(low, high, r, p)) = above
    BY <2>2, <2>3, MaxIs
  <2>5. QED
    BY <1>2, <2>4 DEF m, above
<1>3. CASE ~Feasible(m, r, p)
  <2>1. below \in Fitting(low, m - 1, r, p) /\ \A u \in Fitting(low, m - 1, r, p) : u <= below
    BY <1>1, FittingMax
  <2> HIDE DEF below
  <2>2. below \in Fitting(low, high, r, p) /\ below \in Nat
    BY <1>1, <2>1 DEF Fitting
  <2>3. ASSUME NEW u \in Fitting(low, high, r, p) PROVE u <= below
    <3>1. u = low \/ (u \in (low + 1)..high /\ Feasible(u, r, p))
      BY DEF Fitting
    <3>2. u \in (low + 1)..high /\ Feasible(u, r, p) => u < m
      BY <1>1, <1>3 DEF Downward
    <3>3. u \in Fitting(low, m - 1, r, p)
      BY <1>1, <3>1, <3>2 DEF Fitting
    <3>4. QED
      BY <2>1, <3>3
  <2>4. Max(Fitting(low, high, r, p)) = below
    BY <2>2, <2>3, MaxIs
  <2>5. QED
    BY <1>3, <2>4 DEF m, below
<1>4. QED
  BY <1>2, <1>3 DEF m, above, below

(* Nothing is above an interval of one number.                             *)
LEMMA FittingEnds ==
  ASSUME NEW low \in Nat, NEW high \in Nat, low >= high, NEW r, NEW p
  PROVE  Max(Fitting(low, high, r, p)) = low
<1>1. Fitting(low, high, r, p) = {low}
  BY DEF Fitting
<1>2. QED
  BY <1>1, MaxIs

(* The equation has a solution ...                                         *)
LEMMA SearchExists ==
  ASSUME NEW top \in Nat, NEW r, NEW p, Downward(top, r, p)
  PROVE  \E h : Bisects(h, top, r, p)
<1> DEFINE best == [low \in 0..top |-> [high \in 0..top |-> Max(Fitting(low, high, r, p))]]
<1>1. ASSUME NEW low \in 0..top, NEW high \in 0..top
      PROVE  Max(Fitting(low, high, r, p)) = Half(best, low, high, r, p)
  <2>1. CASE low >= high
    BY <2>1, FittingEnds DEF Half
  <2>2. CASE low < high
    <3>1. Middle(low, high) \in 0..top /\ Middle(low, high) - 1 \in 0..top
      BY <2>2, MiddleBetween
    <3>2. /\ best[Middle(low, high)][high] = Max(Fitting(Middle(low, high), high, r, p))
          /\ best[low][Middle(low, high) - 1] = Max(Fitting(low, Middle(low, high) - 1, r, p))
      BY <3>1
    <3> HIDE DEF best
    <3>3. QED
      BY <2>2, <3>2, HalvingKeeps DEF Half
  <2>3. QED
    BY <2>1, <2>2
<1>2. Bisects(best, top, r, p)
  <2> DEFINE other == [low \in 0..top |-> [high \in 0..top |-> Half(best, low, high, r, p)]]
  <2>1. ASSUME NEW low \in 0..top PROVE best[low] = [high \in 0..top |-> Half(best, low, high, r, p)]
    <3>1. best[low] = [high \in 0..top |-> Max(Fitting(low, high, r, p))]
      OBVIOUS
    <3> HIDE DEF best
    <3>2. QED
      BY <1>1, <3>1
  <2>2. best = [low \in 0..top |-> best[low]]
    OBVIOUS
  <2> HIDE DEF best
  <2>3. QED
    BY <2>1, <2>2 DEF Bisects
<1>3. QED
  BY <1>2

(* ... and each solution finds the largest fitting one.                    *)
LEMMA SearchUnique ==
  ASSUME NEW top \in Nat, NEW r, NEW p, Downward(top, r, p), NEW h, Bisects(h, top, r, p)
  PROVE  h[0][top] = Max(Fitting(0, top, r, p))
<1> DEFINE Right(low, high) == h[low][high] = Max(Fitting(low, high, r, p))
           Sizes == {n \in Nat : \A low, high \in 0..top : high - low <= n => Right(low, high)}
<1>1. ASSUME NEW low \in 0..top, NEW high \in 0..top
      PROVE  h[low][high] = Half(h, low, high, r, p)
  <2>1. h[low] = [i \in 0..top |-> Half(h, low, i, r, p)]
    BY DEF Bisects
  <2>2. QED
    BY <2>1
<1>2. 0 \in Sizes
  BY <1>1, FittingEnds DEF Half
<1>3. ASSUME NEW n \in Nat, n \in Sizes PROVE n + 1 \in Sizes
  <2> SUFFICES ASSUME NEW low \in 0..top, NEW high \in 0..top, high - low <= n + 1
               PROVE  Right(low, high)
    OBVIOUS
  <2>1. CASE low >= high
    BY <1>1, <2>1, FittingEnds DEF Half
  <2>2. CASE low < high
    <3> DEFINE m == Middle(low, high)
    <3>1. m \in 0..top /\ m - 1 \in 0..top /\ high - m <= n /\ m - 1 - low <= n
      BY <2>2, MiddleBetween
    <3>2. Right(m, high) /\ Right(low, m - 1)
      BY <1>3, <3>1
    <3>3. h[low][high] = IF Feasible(m, r, p) THEN h[m][high] ELSE h[low][m - 1]
      BY <1>1, <2>2 DEF Half
    <3>4. QED
      BY <2>2, <3>2, <3>3, HalvingKeeps
  <2>3. QED
    BY <2>1, <2>2
<1> HIDE DEF Sizes
<1>4. top \in Sizes
  BY <1>2, <1>3, SetInduction
<1>5. QED
  BY <1>4 DEF Sizes

(* What the bisection of assess returns.                                   *)
LEMMA SearchFindsLargest ==
  ASSUME NEW r, NEW p, Ceiling(r, p) \in Nat, Downward(Ceiling(r, p), r, p), Feasible(0, r, p)
  PROVE  /\ Search(r, p) \in 0..Ceiling(r, p) /\ Feasible(Search(r, p), r, p)
         /\ \A u \in 0..Ceiling(r, p) : Feasible(u, r, p) => u <= Search(r, p)
<1> DEFINE top == Ceiling(r, p)
           h == CHOOSE h : Bisects(h, top, r, p)
<1>1. Bisects(h, top, r, p)
  BY SearchExists
<1>2. Search(r, p) = Max(Fitting(0, top, r, p))
  BY <1>1, SearchIsChosen, SearchUnique
<1>3. /\ Search(r, p) \in Fitting(0, top, r, p)
      /\ \A u \in Fitting(0, top, r, p) : u <= Search(r, p)
  BY <1>2, FittingMax
<1> HIDE DEF top, h
<1>4. Search(r, p) \in 0..top /\ Feasible(Search(r, p), r, p)
  BY <1>3 DEF Fitting, top
<1>5. ASSUME NEW u \in 0..top, Feasible(u, r, p) PROVE u <= Search(r, p)
  <2>1. u \in Fitting(0, top, r, p)
    BY <1>5 DEF Fitting, top
  <2>2. QED
    BY <1>3, <2>1
<1>6. QED
  BY <1>4, <1>5 DEF top

(* Costs and products of units grow with the units.                        *)
LEMMA ProductGrows ==
  ASSUME NEW a \in Nat, NEW b \in Nat, a <= b, NEW c \in Nat
  PROVE  a * c \in Nat /\ b * c \in Nat /\ a * c <= b * c
<1> DEFINE k == b - a
<1>1. k \in Nat /\ b = a + k
  OBVIOUS
<1> HIDE DEF k
<1>2. a * c \in Nat /\ k * c \in Nat /\ (a + k) * c = a * c + k * c
  BY <1>1
<1>3. QED
  BY <1>1, <1>2

(* The estimated cost is whole and grows with the units.                   *)
LEMMA EstimateGrows ==
  ASSUME NEW v \in Nat, NEW u \in Nat, v <= u
  PROVE  Estimate(v) \in Nat /\ Estimate(u) \in Nat /\ Estimate(v) <= Estimate(u)
<1> DEFINE impact == 2 * HalfImpact
           Cost(x) == 2 * (FixedPerSide + Commission(x)) + x * SlippagePerUnit + impact * x * x
<1> USE RiskAssumption
<1>1. impact \in Nat
  OBVIOUS
<1> HIDE DEF impact
<1>2. /\ v * PerUnitPerSide \in Nat /\ u * PerUnitPerSide \in Nat
      /\ v * PerUnitPerSide <= u * PerUnitPerSide
  BY ProductGrows
<1>3. v * SlippagePerUnit \in Nat /\ u * SlippagePerUnit \in Nat /\ v * SlippagePerUnit <= u * SlippagePerUnit
  BY ProductGrows
<1>4. v * impact \in Nat /\ u * impact \in Nat /\ v * impact <= u * impact
  BY <1>1, ProductGrows
<1>5. impact * v * v \in Nat /\ impact * u * u \in Nat /\ impact * v * v <= impact * u * u
  <2>1. impact * v = v * impact /\ impact * u = u * impact
    BY <1>1
  <2>2. (impact * v) * v <= (impact * u) * v /\ (impact * v) * v \in Nat
    BY <1>4, <2>1, ProductGrows
  <2>3. v * (impact * u) <= u * (impact * u) /\ u * (impact * u) \in Nat
    BY <1>4, <2>1, ProductGrows
  <2>4. v * (impact * u) = (impact * u) * v /\ u * (impact * u) = (impact * u) * u
    BY <1>4, <2>1
  <2> DEFINE a == (impact * v) * v
             b == (impact * u) * v
             c == (impact * u) * u
  <2>5. a \in Nat /\ c \in Nat /\ a <= b /\ b <= c /\ b \in Nat
    BY <1>4, <2>1, <2>2, <2>3, <2>4
  <2> HIDE DEF a, b, c
  <2>6. a <= c
    BY <2>5
  <2>7. QED
    BY <2>5, <2>6 DEF a, c
<1>6. Commission(v) \in Nat /\ Commission(u) \in Nat /\ Commission(v) <= Commission(u)
  BY <1>2 DEF Commission, Larger
<1>7. Cost(v) \in Nat /\ Cost(u) \in Nat /\ Cost(v) <= Cost(u)
  <2> HIDE DEF impact
  <2>1. FixedPerSide \in Nat
    OBVIOUS
  <2>2. QED
    BY <1>3, <1>5, <1>6, <2>1
<1>8. Estimate(v) = IF v = 0 THEN 0 ELSE Cost(v)
  BY DEF Estimate, impact
<1>9. Estimate(u) = IF u = 0 THEN 0 ELSE Cost(u)
  BY DEF Estimate, impact
<1> HIDE DEF Cost
<1>10. QED
  BY <1>7, <1>8, <1>9

(* Fewer units fit when more do, and none fits budgets that are left.      *)
Priced(r) == r.ask \in Int /\ r.stop \in Int /\ r.stop > 0 /\ r.ask > r.stop
Budgeted(p) == RiskBudget(p) \in Nat \ {0} /\ CashBudget(p) \in Nat \ {0}

(* What fits the budgets still fits with fewer units.                      *)
LEMMA FewerFit ==
  ASSUME NEW r, NEW p, Priced(r), Budgeted(p), NEW u \in Nat, NEW v \in Nat, v <= u, Feasible(u, r, p)
  PROVE  Feasible(v, r, p)
<1> DEFINE ask == r.ask
           gap == r.ask - r.stop
<1>1. ask \in Nat /\ gap \in Nat
  BY DEF Priced
<1> HIDE DEF ask, gap
<1>2. /\ v * gap \in Nat /\ u * gap \in Nat /\ v * gap <= u * gap
      /\ v * ask \in Nat /\ u * ask \in Nat /\ v * ask <= u * ask
  BY <1>1, ProductGrows
<1>3. Estimate(v) \in Nat /\ Estimate(u) \in Nat /\ Estimate(v) <= Estimate(u)
  BY EstimateGrows
<1>4. u * gap + Estimate(u) <= RiskBudget(p) /\ u * ask + Estimate(u) <= CashBudget(p)
  BY DEF Feasible, ask, gap
<1>5. v * gap + Estimate(v) <= RiskBudget(p) /\ v * ask + Estimate(v) <= CashBudget(p)
  <2>1. RiskBudget(p) \in Int /\ CashBudget(p) \in Int
    BY DEF Budgeted
  <2>2. QED
    BY <1>2, <1>3, <1>4, <2>1
<1>6. QED
  BY <1>5 DEF Feasible, ask, gap

(* No units always fit.                                                    *)
LEMMA NoneFits ==
  ASSUME NEW r, NEW p, Priced(r), Budgeted(p)
  PROVE  Feasible(0, r, p)
  BY DEF Priced, Budgeted, Feasible, Estimate

(* What divides a budget bounds the units that fit it.                     *)
LEMMA Divides ==
  ASSUME NEW u \in Nat, NEW price \in Nat \ {0}, NEW amount \in Nat
  PROVE  amount \div price \in Nat /\ (u * price <= amount <=> u <= amount \div price)
<1> DEFINE q == amount \div price
           rest == amount % price
<1>1. q \in Nat /\ rest \in Nat /\ rest < price /\ amount = q * price + rest
  OBVIOUS
<1> HIDE DEF q, rest
<1>2. CASE u <= q
  <2>1. u * price <= q * price /\ u * price \in Nat /\ q * price \in Nat
    BY <1>1, <1>2, ProductGrows
  <2>2. QED
    BY <1>1, <1>2, <2>1 DEF q
<1>3. CASE q + 1 <= u
  <2>1. (q + 1) * price <= u * price /\ u * price \in Nat /\ q * price \in Nat
    BY <1>1, <1>3, ProductGrows
  <2>2. (q + 1) * price = q * price + price
    BY <1>1
  <2>3. QED
    BY <1>1, <1>3, <2>1, <2>2 DEF q
<1>4. QED
  BY <1>1, <1>2, <1>3

(* The ceiling loses no number of units that fits.                         *)
LEMMA CeilingBounds ==
  ASSUME NEW r, NEW p, Priced(r), Budgeted(p)
  PROVE  /\ Ceiling(r, p) \in Nat /\ Ceiling(r, p) <= MaximumUnits
         /\ Ceiling(r, p) * r.ask <= MaximumNotional
         /\ \A u \in 0..MaximumUnits :
              Feasible(u, r, p) /\ u * r.ask <= MaximumNotional => u <= Ceiling(r, p)
<1> USE RiskAssumption
<1> DEFINE ask == r.ask
           gap == r.ask - r.stop
           byNotional == MaximumNotional \div ask
           byRisk == RiskBudget(p) \div gap
           byCash == CashBudget(p) \div ask
           bounds == {MaximumUnits, byNotional, byRisk, byCash}
<1>1. ask \in Nat \ {0} /\ gap \in Nat \ {0} /\ RiskBudget(p) \in Nat /\ CashBudget(p) \in Nat
  BY DEF Priced, Budgeted
<1> HIDE DEF ask, gap
<1>2. \A u \in Nat : /\ byNotional \in Nat /\ (u * ask <= MaximumNotional <=> u <= byNotional)
                     /\ byRisk \in Nat /\ (u * gap <= RiskBudget(p) <=> u <= byRisk)
                     /\ byCash \in Nat /\ (u * ask <= CashBudget(p) <=> u <= byCash)
  BY <1>1, Divides
<1> HIDE DEF byNotional, byRisk, byCash
<1>3. byNotional \in Nat /\ byRisk \in Nat /\ byCash \in Nat /\ MaximumUnits \in Nat
  BY <1>2
<1>4. bounds \subseteq Int /\ bounds # {} /\ IsFiniteSet(bounds)
  <2>1. bounds = ((({} \cup {MaximumUnits}) \cup {byNotional}) \cup {byRisk}) \cup {byCash}
    OBVIOUS
  <2>2. IsFiniteSet(((({} \cup {MaximumUnits}) \cup {byNotional}) \cup {byRisk}) \cup {byCash})
    BY FS_EmptySet, FS_AddElement
  <2>3. QED
    BY <1>3, <2>1, <2>2
<1>5. Min(bounds) \in bounds /\ \A x \in bounds : Min(bounds) <= x
  <2> HIDE DEF bounds
  <2>1. QED
    BY <1>4, Extremes
<1>6. Ceiling(r, p) = Min(bounds)
  BY DEF Ceiling, bounds, byNotional, byRisk, byCash, ask, gap
<1>7. /\ Ceiling(r, p) \in Nat /\ Ceiling(r, p) <= MaximumUnits /\ Ceiling(r, p) <= byNotional
      /\ \A u \in Nat : u <= MaximumUnits /\ u <= byNotional /\ u <= byRisk /\ u <= byCash => u <= Ceiling(r, p)
  BY <1>3, <1>5, <1>6
<1>8. Ceiling(r, p) * ask <= MaximumNotional
  BY <1>2, <1>7
<1>9. ASSUME NEW u \in 0..MaximumUnits, Feasible(u, r, p), u * ask <= MaximumNotional
      PROVE  u <= Ceiling(r, p)
  <2>1. u * gap + Estimate(u) <= RiskBudget(p) /\ u * ask + Estimate(u) <= CashBudget(p)
    BY <1>9 DEF Feasible, ask, gap
  <2>2. Estimate(u) \in Nat /\ u * gap \in Nat /\ u * ask \in Nat /\ u \in Nat
    BY <1>1, EstimateGrows
  <2>3. u * gap <= RiskBudget(p) /\ u * ask <= CashBudget(p)
    BY <1>1, <2>1, <2>2
  <2>4. QED
    BY <1>2, <1>7, <1>9, <2>2, <2>3
<1>10. QED
  BY <1>7, <1>8, <1>9 DEF ask

-----------------------------------------------------------------------------
(* What passes the checks is priced.                                       *)
LEMMA NotRejected ==
  ASSUME NEW r, NEW p, r.ask \in Int, r.stop \in Int
  PROVE  /\ RejectReason(r, p) = "none" => Priced(r)
         /\ RejectReason(r, p) # "MINIMUM_INCOMPATIBLE"
<1> DEFINE checks == RejectChecks(r, p)
           failed == {i \in DOMAIN checks : checks[i][1]}
<1>1. DOMAIN checks = 1..12
  BY DEF RejectChecks
<1>2. ASSUME NEW i \in 1..12 PROVE checks[i][2] \notin {"none", "MINIMUM_INCOMPATIBLE"}
  <2>1. \/ i = 1 \/ i = 2 \/ i = 3 \/ i = 4 \/ i = 5 \/ i = 6
        \/ i = 7 \/ i = 8 \/ i = 9 \/ i = 10 \/ i = 11 \/ i = 12
    OBVIOUS
  <2>2. QED
    BY <2>1 DEF RejectChecks
<1>3. checks[5][1] <=> (r.stop <= 0 \/ r.ask <= r.stop)
  <2>1. checks[5] = <<r.stop <= 0 \/ r.ask <= r.stop, "INVALID_STOP_DISTANCE">>
    BY DEF RejectChecks
  <2>2. \A x, y : <<x, y>>[1] = x
    OBVIOUS
  <2> HIDE DEF checks
  <2>3. QED
    BY <2>1, <2>2
<1>4. RejectReason(r, p) = IF failed = {} THEN "none" ELSE checks[Min(failed)][2]
  BY DEF RejectReason
<1> HIDE DEF checks
<1>5. failed # {} => Min(failed) \in 1..12
  <2>1. IsFiniteSet(failed)
    <3>1. \A n \in Nat : IsFiniteSet(1..n)
      BY FS_Interval
    <3>2. failed \subseteq 1..12 /\ 12 \in Nat
      BY <1>1
    <3> HIDE DEF failed
    <3>3. QED
      BY <3>1, <3>2, FS_Subset
  <2>2. failed \subseteq Int /\ failed \subseteq 1..12
    BY <1>1
  <2> HIDE DEF failed
  <2>3. QED
    BY <2>1, <2>2, Extremes
<1>6. failed # {} => RejectReason(r, p) \notin {"none", "MINIMUM_INCOMPATIBLE"}
  BY <1>2, <1>4, <1>5
<1>7. failed = {} => RejectReason(r, p) = "none" /\ Priced(r)
  BY <1>1, <1>3, <1>4 DEF Priced
<1>8. QED
  BY <1>6, <1>7

(* An approved order has the most units that fit, and an order is refused  *)
(* as too small only when no number of units fits.                         *)
Fits(r, p) ==
  {u \in 1..MaximumUnits : Feasible(u, r, p) /\ u * r.ask \in MinimumNotional..MaximumNotional}

(* What assess approves is the largest number of units that fits, and it   *)
(* says that the minimum is incompatible only when none does.              *)
LEMMA AssessIsLargest ==
  ASSUME NEW r, NEW p, r.ask \in Int, r.stop \in Int, RiskBudget(p) \in Int, CashBudget(p) \in Int
  PROVE  /\ Assess(r, p).approved => Assess(r, p).units = Max(Fits(r, p))
         /\ Assess(r, p).reason = "MINIMUM_INCOMPATIBLE" => Fits(r, p) = {}
<1> USE RiskAssumption
<1> DEFINE d == Assess(r, p)
           u == Search(r, p)
<1>1. CASE RejectReason(r, p) # "none"
  <2>1. d = Refusal(RejectReason(r, p))
    BY <1>1 DEF Assess
  <2>2. QED
    BY <2>1, NotRejected DEF Refusal
<1>2. CASE RejectReason(r, p) = "none" /\ (RiskBudget(p) <= 0 \/ CashBudget(p) <= 0)
  <2>1. d = Refusal("BUDGET_EXHAUSTED")
    BY <1>2 DEF Assess
  <2>2. QED
    BY <2>1 DEF Refusal
<1>3. CASE RejectReason(r, p) = "none" /\ ~(RiskBudget(p) <= 0 \/ CashBudget(p) <= 0)
  <2>1. d = Sized(u, r)
    BY <1>3 DEF Assess
  <2>2. Priced(r) /\ Budgeted(p)
    BY <1>3, NotRejected DEF Budgeted
  <2>3. /\ Ceiling(r, p) \in Nat /\ Ceiling(r, p) <= MaximumUnits
        /\ Ceiling(r, p) * r.ask <= MaximumNotional
        /\ \A v \in 0..MaximumUnits :
             Feasible(v, r, p) /\ v * r.ask <= MaximumNotional => v <= Ceiling(r, p)
    BY <2>2, CeilingBounds
  <2>4. Downward(Ceiling(r, p), r, p) /\ Feasible(0, r, p)
    BY <2>2, <2>3, FewerFit, NoneFits DEF Downward
  <2>5. /\ u \in 0..Ceiling(r, p) /\ Feasible(u, r, p)
        /\ \A v \in 0..Ceiling(r, p) : Feasible(v, r, p) => v <= u
    BY <2>3, <2>4, SearchFindsLargest
  <2> HIDE DEF u
  <2>6. r.ask \in Nat
    BY <2>2 DEF Priced
  <2>7. ASSUME NEW v \in Fits(r, p) PROVE v \in Nat /\ v <= u /\ v # 0 /\ v * r.ask >= MinimumNotional
    <3>1. v \in 0..MaximumUnits /\ v # 0 /\ Feasible(v, r, p) /\ v * r.ask <= MaximumNotional
          /\ v * r.ask >= MinimumNotional
      BY <2>6 DEF Fits
    <3>2. v \in 0..Ceiling(r, p)
      BY <2>3, <3>1
    <3>3. QED
      BY <2>5, <3>1, <3>2
  <2>8. CASE u = 0 \/ u * r.ask < MinimumNotional
    <3>1. Fits(r, p) = {}
      <4>1. SUFFICES ASSUME NEW v \in Fits(r, p) PROVE FALSE
        OBVIOUS
      <4>2. v * r.ask <= u * r.ask /\ v * r.ask \in Nat /\ u * r.ask \in Nat
        BY <2>5, <2>6, <2>7, <2>3, ProductGrows
      <4>3. QED
        BY <2>5, <2>7, <2>8, <4>2
    <3>2. d = Refusal("MINIMUM_INCOMPATIBLE")
      BY <2>1, <2>8 DEF Sized
    <3>3. QED
      BY <3>1, <3>2 DEF Refusal
  <2>9. CASE ~(u = 0 \/ u * r.ask < MinimumNotional)
    <3>1. d.units = u /\ d.reason = "APPROVED"
      BY <2>1, <2>9 DEF Sized
    <3>2. u * r.ask <= Ceiling(r, p) * r.ask /\ u * r.ask \in Nat /\ Ceiling(r, p) * r.ask \in Nat
      BY <2>3, <2>5, <2>6, ProductGrows
    <3>3. u \in Fits(r, p)
      BY <2>3, <2>5, <2>9, <3>2 DEF Fits
    <3>4. Max(Fits(r, p)) = u
      <4>1. Fits(r, p) \subseteq Int
        BY DEF Fits
      <4>2. \A x \in Fits(r, p) : (\A y \in Fits(r, p) : x >= y) => x = u
        BY <2>7, <3>3, <4>1
      <4>3. \A y \in Fits(r, p) : u >= y
        BY <2>7, <2>5, <2>3
      <4>4. QED
        BY <3>3, <4>2, <4>3 DEF Max
    <3>5. QED
      BY <3>1, <3>4
  <2>10. QED
    BY <2>8, <2>9
<1>4. QED
  BY <1>1, <1>2, <1>3

(* An approval of the risk engine.                                         *)
Approval == [approved : {TRUE}, reason : {"APPROVED"}, units : Int, risk : Int, notional : Int,
             cost : Int]

(* What passes the checks is not paused, and in the entry window.          *)
LEMMA NotPaused ==
  ASSUME NEW r, NEW p
  PROVE  RejectReason(r, p) = "none" => ~p.paused /\ r.window_open
<1> DEFINE checks == RejectChecks(r, p)
           failed == {i \in DOMAIN checks : checks[i][1]}
<1>1. DOMAIN checks = 1..12
  BY DEF RejectChecks
<1>2. ASSUME NEW i \in 1..12 PROVE checks[i][2] # "none"
  <2>1. \/ i = 1 \/ i = 2 \/ i = 3 \/ i = 4 \/ i = 5 \/ i = 6
        \/ i = 7 \/ i = 8 \/ i = 9 \/ i = 10 \/ i = 11 \/ i = 12
    OBVIOUS
  <2>2. QED
    BY <2>1 DEF RejectChecks
<1>3. (checks[2][1] <=> p.paused) /\ (checks[8][1] <=> ~r.window_open)
  <2>1. checks[2] = <<p.paused, "ENTRIES_PAUSED">>
    BY DEF RejectChecks
  <2>2. checks[8] = <<~r.window_open, "ENTRY_WINDOW_CLOSED">>
    BY DEF RejectChecks
  <2>3. \A x, y : <<x, y>>[1] = x
    OBVIOUS
  <2> HIDE DEF checks
  <2>4. QED
    BY <2>1, <2>2, <2>3
<1>4. RejectReason(r, p) = IF failed = {} THEN "none" ELSE checks[Min(failed)][2]
  BY DEF RejectReason
<1> HIDE DEF checks
<1>5. failed # {} => Min(failed) \in 1..12
  <2>1. IsFiniteSet(failed)
    <3>1. \A n \in Nat : IsFiniteSet(1..n)
      BY FS_Interval
    <3>2. failed \subseteq 1..12 /\ 12 \in Nat
      BY <1>1
    <3> HIDE DEF failed
    <3>3. QED
      BY <3>1, <3>2, FS_Subset
  <2>2. failed \subseteq Int /\ failed \subseteq 1..12
    BY <1>1
  <2> HIDE DEF failed
  <2>3. QED
    BY <2>1, <2>2, Extremes
<1>6. failed # {} => RejectReason(r, p) # "none"
  BY <1>2, <1>4, <1>5
<1>7. failed = {} => RejectReason(r, p) = "none" /\ ~p.paused /\ r.window_open
  <2>1. failed = {} => ~checks[2][1] /\ ~checks[8][1]
    BY <1>1
  <2>2. failed = {} => ~p.paused /\ r.window_open
    BY <1>3, <2>1
  <2>3. QED
    BY <1>4, <2>2
<1>8. QED
  BY <1>6, <1>7

(* An approval is typed, and there is none while entries are paused or the  *)
(* entry window is closed.                                                 *)
LEMMA AssessIsTyped ==
  ASSUME NEW r, NEW p, r.ask \in Int, r.stop \in Int, RiskBudget(p) \in Int, CashBudget(p) \in Int
  PROVE  Assess(r, p).approved => Assess(r, p) \in Approval /\ ~p.paused /\ r.window_open
<1> DEFINE d == Assess(r, p)
           u == Search(r, p)
<1>1. ASSUME NEW reason PROVE ~Refusal(reason).approved
  BY DEF Refusal
<1>2. CASE RejectReason(r, p) # "none"
  <2>1. d = Refusal(RejectReason(r, p))
    BY <1>2 DEF Assess
  <2>2. QED
    BY <1>1, <2>1, NotPaused
<1>3. CASE RejectReason(r, p) = "none" /\ (RiskBudget(p) <= 0 \/ CashBudget(p) <= 0)
  <2>1. d = Refusal("BUDGET_EXHAUSTED")
    BY <1>3 DEF Assess
  <2>2. QED
    BY <1>1, <2>1
<1>4. CASE RejectReason(r, p) = "none" /\ ~(RiskBudget(p) <= 0 \/ CashBudget(p) <= 0)
  <2>1. d = Sized(u, r)
    BY <1>4 DEF Assess
  <2>2. Priced(r) /\ Budgeted(p)
    BY <1>4, NotRejected DEF Budgeted
  <2>3. Ceiling(r, p) \in Nat /\ Ceiling(r, p) <= MaximumUnits
    BY <2>2, CeilingBounds
  <2>4. Downward(Ceiling(r, p), r, p) /\ Feasible(0, r, p)
    BY <2>2, <2>3, FewerFit, NoneFits DEF Downward
  <2>5. u \in Nat
    BY <2>3, <2>4, SearchFindsLargest
  <2> HIDE DEF u
  <2>6. Estimate(u) \in Int
    BY <2>5, EstimateGrows
  <2>7. ~p.paused /\ r.window_open
    BY <1>4, NotPaused
  <2>8. Sized(u, r).approved => Sized(u, r) \in Approval
    <3>1. CASE u = 0 \/ u * r.ask < MinimumNotional
      BY <1>1, <3>1 DEF Sized
    <3>2. CASE ~(u = 0 \/ u * r.ask < MinimumNotional)
      BY <2>5, <2>6, <3>2 DEF Sized, Approval
    <3>3. QED
      BY <3>1, <3>2
  <2>9. QED
    BY <2>1, <2>7, <2>8
<1>5. QED
  BY <1>2, <1>3, <1>4

(* The smallest member of a set is the one that bounds it.                 *)
LEMMA MinIs ==
  ASSUME NEW S, S \subseteq Int, NEW m \in S, \A x \in S : m <= x
  PROVE  Min(S) = m
<1>1. \A x \in S : (\A y \in S : x <= y) => x = m
  OBVIOUS
<1>2. QED
  BY <1>1 DEF Min

(* The values of a function on a finite set are finitely many.             *)
LEMMA ImageIsFinite ==
  ASSUME NEW S, IsFiniteSet(S), NEW f
  PROVE  IsFiniteSet({f[x] : x \in S})
<1> DEFINE g == [x \in S |-> f[x]]
           T == {f[x] : x \in S}
<1>1. g \in Surjection(S, T)
  BY DEF Surjection
<1>2. QED
  <2> HIDE DEF g, T
  <2>1. IsFiniteSet(T)
    BY <1>1, FS_Surjection DEF ExistsSurjection
  <2>2. QED
    BY <2>1 DEF T

(* A finite set has a member whose value is the smallest.                  *)
LEMMA LeastOf ==
  ASSUME NEW S, IsFiniteSet(S), S # {}, NEW f, \A x \in S : f[x] \in Int
  PROVE  \E m \in S : \A x \in S : f[m] <= f[x]
<1> DEFINE T == {f[x] : x \in S}
<1>1. IsFiniteSet(T) /\ T \subseteq Int /\ T # {}
  BY ImageIsFinite
<1>2. Min(T) \in T /\ \A x \in T : Min(T) <= x
  <2> HIDE DEF T
  <2>1. QED
    BY <1>1, Extremes
<1>3. PICK m \in S : f[m] = Min(T)
  BY <1>2
<1>4. QED
  BY <1>2, <1>3

-----------------------------------------------------------------------------
(* The calendar.                                                           *)

(* A day opens, waits for its opening bars, takes entries, flattens and     *)
(* closes before the next one opens.                                       *)
LEMMA DayInOrder ==
  ASSUME NEW d \in Int
  PROVE  /\ MarketOpen(d) \in Int /\ MarketOpen(d + 1) \in Int /\ Cutoff(d) \in Int
         /\ EntriesEnd(d) \in Int /\ FlattenAt(d) \in Int /\ MarketClose(d) \in Int
         /\ MarketOpen(d) <= Cutoff(d) /\ Cutoff(d) < EntriesEnd(d) /\ EntriesEnd(d) <= FlattenAt(d)
         /\ FlattenAt(d) <= MarketClose(d) /\ MarketClose(d) <= MarketOpen(d + 1)
         /\ \A i \in Int : Minute(d, i) \in Int
<1> DEFINE opening == OpeningBars * BarTicks
           whole == SessionBars * BarTicks
           flatten == (SessionBars - FlattenBars) * BarTicks
<1>1. BarTicks \in Nat \ {0} /\ FlattenBars \in Nat /\ SessionBars \in Nat /\ DayTicks \in Nat
      /\ OpeningBars \in Nat /\ SelectionWait \in Nat /\ EntryWindow \in Nat
  BY ORBAssumption
<1>2. opening \in Nat /\ whole \in Int /\ flatten \in Int /\ flatten <= whole
  <2>1. whole = flatten + FlattenBars * BarTicks
    BY <1>1
  <2>2. FlattenBars * BarTicks \in Nat /\ opening \in Nat
    BY <1>1
  <2> HIDE DEF opening
  <2>3. QED
    BY <1>1, <2>1, <2>2
<1>3. MarketOpen(d) \in Int /\ MarketOpen(d + 1) = MarketOpen(d) + DayTicks
  BY <1>1 DEF MarketOpen
<1>4. MarketClose(d) = MarketOpen(d) + whole /\ FlattenAt(d) = MarketOpen(d) + flatten
      /\ Cutoff(d) = MarketOpen(d) + opening + SelectionWait
      /\ EntriesEnd(d) = MarketOpen(d) + EntryWindow
  BY DEF MarketClose, FlattenAt, Cutoff, EntriesEnd, Minute
<1>5. opening + SelectionWait < EntryWindow /\ EntryWindow <= flatten /\ whole <= DayTicks
  BY ORBAssumption
<1>6. SelectionWait \in Nat /\ EntryWindow \in Nat
  BY <1>1
<1>7. \A i \in Int : Minute(d, i) \in Int
  BY <1>1, <1>3 DEF Minute
<1>8. DayTicks \in Nat
  BY <1>1
<1> HIDE DEF opening, whole, flatten
<1>9. /\ MarketOpen(d) \in Int /\ MarketOpen(d + 1) \in Int /\ Cutoff(d) \in Int
      /\ EntriesEnd(d) \in Int /\ FlattenAt(d) \in Int /\ MarketClose(d) \in Int
  BY <1>2, <1>3, <1>4, <1>6, <1>8
<1>10. /\ MarketOpen(d) <= Cutoff(d) /\ Cutoff(d) < EntriesEnd(d) /\ EntriesEnd(d) <= FlattenAt(d)
       /\ FlattenAt(d) <= MarketClose(d) /\ MarketClose(d) <= MarketOpen(d + 1)
  BY <1>2, <1>3, <1>4, <1>5, <1>6, <1>8
<1>11. QED
  BY <1>7, <1>9, <1>10

(* Days follow each other.                                                 *)
LEMMA DaysInOrder ==
  ASSUME NEW d \in Int, NEW e \in Int, d < e
  PROVE  MarketOpen(d + 1) <= MarketOpen(e) /\ MarketClose(d) <= MarketOpen(e)
<1> DEFINE k == e - (d + 1)
<1>1. k \in Nat /\ DayTicks \in Nat
  BY ORBAssumption
<1>2. MarketOpen(e) = MarketOpen(d + 1) + k * DayTicks
  BY <1>1 DEF MarketOpen
<1> DEFINE more == k * DayTicks
<1>3. more \in Nat
  BY <1>1
<1>4. d + 1 \in Int /\ MarketOpen(d + 1) \in Int /\ MarketClose(d) \in Int /\ MarketClose(d) <= MarketOpen(d + 1)
  BY DayInOrder
<1>5. MarketOpen(e) = MarketOpen(d + 1) + more
  BY <1>2
<1> HIDE DEF more
<1>6. QED
  BY <1>3, <1>4, <1>5

(* The minutes of a day follow each other.                                 *)
LEMMA MinutesInOrder ==
  ASSUME NEW d \in Int, NEW i \in Int, NEW j \in Int, i < j
  PROVE  Minute(d, i) + BarTicks <= Minute(d, j)
<1> DEFINE k == j - (i + 1)
<1>1. k \in Nat /\ BarTicks \in Nat /\ DayTicks \in Nat
  BY ORBAssumption
<1>2. Minute(d, j) = Minute(d, i) + BarTicks + k * BarTicks
  BY <1>1 DEF Minute, MarketOpen
<1> DEFINE more == k * BarTicks
<1>3. more \in Nat
  BY <1>1
<1>4. Minute(d, i) \in Int
  BY DayInOrder
<1>5. Minute(d, j) = Minute(d, i) + BarTicks + more
  BY <1>2
<1> HIDE DEF more
<1>6. QED
  BY <1>1, <1>3, <1>4, <1>5

(* A bar of a sound dataset lies inside its session.                       *)
LEMMA BarInSession ==
  ASSUME NEW V, SoundDataset(V), NEW b \in V
  PROVE  /\ b \in Bar /\ b.symbol \in Listed /\ b.day \in Int /\ b.at \in Int /\ b.available \in Int
         /\ b.volume \in Int /\ b.open \in Int /\ b.high \in Int /\ b.low \in Int /\ b.close \in Int
         /\ EndTime(b) \in Int /\ b.at < EndTime(b) /\ EndTime(b) <= b.available
         /\ MarketOpen(b.day) <= b.at /\ EndTime(b) <= MarketClose(b.day) /\ b.at < MarketClose(b.day)
         /\ b.available \in Int
<1>1. b \in Bar
  BY DEF SoundDataset
<1>2. PICK i \in 0..(SessionBars - 1) : b.at = Minute(b.day, i)
  BY DEF SoundDataset
<1>3. b.day \in Int /\ b.at \in Int /\ b.symbol \in Listed /\ b.volume \in Int /\ b.available \in Int
      /\ b.open \in Int /\ b.high \in Int /\ b.low \in Int /\ b.close \in Int
  BY <1>1 DEF Bar
<1>4. SessionBars \in Nat \ {0} /\ BarTicks \in Nat \ {0} /\ DayTicks \in Nat
  BY ORBAssumption
<1>5. Minute(b.day, i) + BarTicks <= Minute(b.day, SessionBars)
  BY <1>3, <1>4, MinutesInOrder
<1>6. MarketOpen(b.day) <= Minute(b.day, i)
  <2>1. i * BarTicks \in Nat
    BY <1>4
  <2>2. MarketOpen(b.day) \in Int
    BY <1>3, <1>4 DEF MarketOpen
  <2>3. QED
    BY <2>1, <2>2 DEF Minute
<1>7. EndTime(b) = b.at + BarTicks /\ EndTime(b) <= b.available
  BY DEF EndTime, SoundDataset
<1>8. MarketClose(b.day) = Minute(b.day, SessionBars) /\ MarketClose(b.day) \in Int
  BY <1>3, DayInOrder DEF MarketClose
<1>9. QED
  BY <1>1, <1>2, <1>3, <1>4, <1>5, <1>6, <1>7, <1>8

-----------------------------------------------------------------------------
(* The checks of a symbol.                                                 *)

(* Sums over bars are numbers.                                             *)
LEMMA SumsAreNumbers ==
  ASSUME NEW S, IsFiniteSet(S), S \subseteq Bar
  PROVE  VolumeOf(S) \in Int /\ Sum(LAMBDA b : b.close * b.volume, S) \in Int
<1> DEFINE v == [b \in S |-> b.volume]
           w == [b \in S |-> b.close * b.volume]
<1>1. \A b \in S : b.volume \in Int /\ b.close \in Int
  BY DEF Bar
<1>2. \A b \in S : v[b] \in Int /\ w[b] \in Int
  BY <1>1
<1>3. VolumeOf(S) = SumFunctionOnSet(v, S) /\ Sum(LAMBDA b : b.close * b.volume, S) = SumFunctionOnSet(w, S)
  BY DEF VolumeOf, Sum, SumFunction
<1> HIDE DEF v, w
<1>4. QED
  BY <1>2, <1>3, SumType

(* A check fails.                                                          *)
Fails(V, s, d, i) == Checks(V, s, d)[i][1]

(* The least check that fails gives the reason.                            *)
LEMMA ReasonOfFirst ==
  ASSUME NEW V, NEW s, NEW d, NEW i \in 1..7, Fails(V, s, d, i),
         \A j \in 1..7 : j < i => ~Fails(V, s, d, j)
  PROVE  Reason(V, s, d) = Checks(V, s, d)[i][2]
<1> DEFINE checks == Checks(V, s, d)
           failed == {j \in DOMAIN checks : checks[j][1]}
<1>1. DOMAIN checks = 1..7
  BY DEF Checks
<1>2. Reason(V, s, d) = IF failed = {} THEN NoReason ELSE checks[Min(failed)][2]
  BY DEF Reason
<1>3. failed = {j \in 1..7 : Fails(V, s, d, j)}
  BY <1>1 DEF Fails
<1> HIDE DEF checks, failed
<1>4. failed \subseteq Int /\ i \in failed /\ \A j \in failed : i <= j
  BY <1>3
<1>5. Min(failed) = i
  BY <1>4, MinIs
<1>6. QED
  BY <1>2, <1>4, <1>5 DEF checks

(* Nothing fails, or one check fails first.                                *)
LEMMA FailsFirst ==
  ASSUME NEW V, NEW s, NEW d
  PROVE  \/ \A j \in 1..7 : ~Fails(V, s, d, j)
         \/ \E i \in 1..7 : Fails(V, s, d, i) /\ \A j \in 1..7 : j < i => ~Fails(V, s, d, j)
<1> DEFINE failed == {j \in 1..7 : Fails(V, s, d, j)}
<1>1. IsFiniteSet(failed)
  <2>1. \A n \in Nat : IsFiniteSet(1..n)
    BY FS_Interval
  <2>2. IsFiniteSet(1..7) /\ failed \subseteq 1..7
    BY <2>1
  <2> HIDE DEF failed
  <2>3. QED
    BY <2>2, FS_Subset
<1>2. failed \subseteq Int
  OBVIOUS
<1>3. CASE failed # {}
  <2>1. Min(failed) \in failed /\ \A j \in failed : Min(failed) <= j
    <3> HIDE DEF failed
    <3>1. QED
      BY <1>1, <1>2, <1>3, Extremes
  <2>2. QED
    BY <2>1
<1>4. QED
  BY <1>3

(* No reason is given when nothing fails, and one of the known otherwise.  *)
LEMMA ReasonIs ==
  ASSUME NEW V, NEW s, NEW d
  PROVE  /\ Reason(V, s, d) \in Reasons \cup {NoReason}
         /\ Reason(V, s, d) = NoReason <=> \A j \in 1..7 : ~Fails(V, s, d, j)
<1>1. ASSUME NEW i \in 1..7 PROVE Checks(V, s, d)[i][2] \in Reasons /\ Checks(V, s, d)[i][2] # NoReason
  <2>1. i = 1 \/ i = 2 \/ i = 3 \/ i = 4 \/ i = 5 \/ i = 6 \/ i = 7
    OBVIOUS
  <2>2. QED
    BY <2>1 DEF Checks, Reasons, NoReason
<1>2. ASSUME \A j \in 1..7 : ~Fails(V, s, d, j) PROVE Reason(V, s, d) = NoReason
  <2> DEFINE checks == Checks(V, s, d)
             failed == {j \in DOMAIN checks : checks[j][1]}
  <2>1. DOMAIN checks = 1..7
    BY DEF Checks
  <2>2. Reason(V, s, d) = IF failed = {} THEN NoReason ELSE checks[Min(failed)][2]
    BY DEF Reason
  <2>3. failed = {}
    BY <1>2, <2>1 DEF Fails
  <2>4. QED
    BY <2>2, <2>3
<1>3. ASSUME NEW i \in 1..7, Fails(V, s, d, i), \A j \in 1..7 : j < i => ~Fails(V, s, d, j)
      PROVE  Reason(V, s, d) \in Reasons /\ Reason(V, s, d) # NoReason
  BY <1>1, <1>3, ReasonOfFirst
<1>4. QED
  BY <1>2, <1>3, FailsFirst

(* Two views give the same reason when each check that is reached agrees.  *)
LEMMA ReasonAgrees ==
  ASSUME NEW V, NEW W, NEW s, NEW d,
         \A i \in 1..7 :
           (\A j \in 1..7 : j < i => ~Fails(V, s, d, j) /\ ~Fails(W, s, d, j))
             => (Fails(V, s, d, i) <=> Fails(W, s, d, i))
  PROVE  Reason(V, s, d) = Reason(W, s, d)
<1> DEFINE A(i) == Fails(V, s, d, i)
           B(i) == Fails(W, s, d, i)
<1>1. \A i \in 1..7 : (\A j \in 1..7 : j < i => ~A(j) /\ ~B(j)) => (A(i) <=> B(i))
  OBVIOUS
<1>2. \A i \in 1..7 : Checks(V, s, d)[i][2] = Checks(W, s, d)[i][2]
  <2> SUFFICES ASSUME NEW i \in 1..7 PROVE Checks(V, s, d)[i][2] = Checks(W, s, d)[i][2]
    OBVIOUS
  <2>1. i = 1 \/ i = 2 \/ i = 3 \/ i = 4 \/ i = 5 \/ i = 6 \/ i = 7
    OBVIOUS
  <2>2. QED
    BY <2>1 DEF Checks
<1>3. /\ (\A j \in 1..7 : ~A(j)) \/ \E i \in 1..7 : A(i) /\ \A j \in 1..7 : j < i => ~A(j)
      /\ (\A j \in 1..7 : ~B(j)) \/ \E i \in 1..7 : B(i) /\ \A j \in 1..7 : j < i => ~B(j)
  BY FailsFirst
<1>4. /\ \A i \in 1..7 : A(i) /\ (\A j \in 1..7 : j < i => ~A(j)) => Reason(V, s, d) = Checks(V, s, d)[i][2]
      /\ \A i \in 1..7 : B(i) /\ (\A j \in 1..7 : j < i => ~B(j)) => Reason(W, s, d) = Checks(W, s, d)[i][2]
      /\ (\A j \in 1..7 : ~A(j)) => Reason(V, s, d) = NoReason
      /\ (\A j \in 1..7 : ~B(j)) => Reason(W, s, d) = NoReason
  BY ReasonOfFirst, ReasonIs
<1> HIDE DEF A, B
<1>5. CASE \A j \in 1..7 : ~A(j)
  <2>1. ASSUME NEW i \in 1..7, B(i), \A j \in 1..7 : j < i => ~B(j) PROVE FALSE
    BY <1>1, <1>5, <2>1
  <2>2. QED
    BY <1>3, <1>4, <1>5, <2>1
<1>6. ASSUME NEW i \in 1..7, A(i), \A j \in 1..7 : j < i => ~A(j) PROVE Reason(V, s, d) = Reason(W, s, d)
  <2>1. ASSUME NEW k \in 1..7, B(k), \A j \in 1..7 : j < k => ~B(j) PROVE i = k
    <3>1. CASE i < k
      BY <1>1, <1>6, <2>1, <3>1
    <3>2. CASE k < i
      BY <1>1, <1>6, <2>1, <3>2
    <3>3. QED
      BY <3>1, <3>2
  <2>2. ASSUME \A j \in 1..7 : ~B(j) PROVE FALSE
    BY <1>1, <1>6, <2>2
  <2>3. QED
    BY <1>2, <1>3, <1>4, <1>6, <2>1, <2>2
<1>7. QED
  BY <1>3, <1>5, <1>6

-----------------------------------------------------------------------------
(* What a view decides.                                                    *)

(* A part of a sound dataset is sound.                                     *)
LEMMA PartIsSound ==
  ASSUME NEW B, SoundDataset(B), NEW V \in SUBSET B
  PROVE  SoundDataset(V)
<1>1. IsFiniteSet(V)
  BY FS_Subset DEF SoundDataset
<1>2. QED
  BY <1>1 DEF SoundDataset

(* A view misses nothing that was published by the cutoff.                 *)
Sees(V, B, d) == /\ SoundDataset(B) /\ d \in Int /\ V \in SUBSET B
                 /\ \A b \in B : b.available <= Cutoff(d) => b \in V

(* A view from the cutoff on covers what the dataset covered by then.      *)
LEMMA CoveredAgrees ==
  ASSUME NEW V, NEW B, NEW d, Sees(V, B, d), NEW s, NEW k, NEW n
  PROVE  Covered(V, s, k, n, Cutoff(d)) <=> Covered(B, s, k, n, Cutoff(d))
  BY DEF Sees, Covered, BarsOf

(* Where the minutes are covered, every bar of them was published in time. *)
LEMMA CoveredInTime ==
  ASSUME NEW B, SoundDataset(B), NEW s, NEW k \in Int, NEW n \in Int, NEW by,
         Covered(B, s, k, n, by), NEW b \in BarsOf(B, s, k), b.at < Minute(k, n)
  PROVE  b.available <= by
<1>1. b \in B /\ b.symbol = s /\ b.day = k
  BY DEF BarsOf
<1>2. PICK i \in 0..(SessionBars - 1) : b.at = Minute(k, i)
  BY <1>1 DEF SoundDataset
<1>3. i \in Int /\ i < n
  <2>0. SessionBars \in Nat /\ BarTicks \in Nat
    BY ORBAssumption
  <2>1. i \in Int
    BY <1>2, <2>0
  <2>2. ASSUME n <= i PROVE FALSE
    <3>1. CASE n = i
      BY <1>2, <2>0, <3>1, <2>1, DayInOrder
    <3>2. CASE n < i
      <4>1. Minute(k, n) + BarTicks <= Minute(k, i)
        BY <2>1, <3>2, MinutesInOrder
      <4>2. Minute(k, n) \in Int /\ Minute(k, i) \in Int
        BY <2>1, DayInOrder
      <4>3. QED
        BY <1>2, <2>0, <4>1, <4>2
    <3>3. QED
      BY <2>1, <2>2, <3>1, <3>2
  <2>3. QED
    BY <2>1, <2>2
<1>4. i \in 0..(n - 1)
  BY <1>2, <1>3
<1>5. PICK c \in BarsOf(B, s, k) : c.at = Minute(k, i) /\ c.available <= by
  BY <1>4 DEF Covered
<1>6. c \in B /\ c.symbol = s
  BY DEF BarsOf
<1>7. b = c
  BY <1>1, <1>2, <1>5, <1>6 DEF SoundDataset
<1>8. QED
  BY <1>5, <1>7

(* The view has the covered minutes in full.                               *)
LEMMA CoveredIsSeen ==
  ASSUME NEW V, NEW B, NEW d, Sees(V, B, d), NEW s, NEW k \in Int
  PROVE  /\ Covered(B, s, k, SessionBars, Cutoff(d)) => BarsOf(V, s, k) = BarsOf(B, s, k)
                                                       /\ OpeningOf(V, s, k) = OpeningOf(B, s, k)
         /\ Covered(B, s, k, OpeningBars, Cutoff(d)) => OpeningOf(V, s, k) = OpeningOf(B, s, k)
<1>1. SessionBars \in Int /\ OpeningBars \in Int
  BY ORBAssumption
<1>2. SoundDataset(B) /\ V \subseteq B
  BY DEF Sees
<1>3. ASSUME Covered(B, s, k, SessionBars, Cutoff(d)), NEW b \in BarsOf(B, s, k) PROVE b \in V
  <2>1. b \in B /\ b.day = k
    BY DEF BarsOf
  <2>2. b.at < Minute(k, SessionBars)
    BY <1>2, <2>1, BarInSession DEF MarketClose
  <2>3. b.available <= Cutoff(d)
    BY <1>1, <1>2, <1>3, <2>2, CoveredInTime
  <2>4. QED
    BY <2>1, <2>3 DEF Sees
<1>4. ASSUME Covered(B, s, k, OpeningBars, Cutoff(d)), NEW b \in OpeningOf(B, s, k) PROVE b \in V
  <2>1. b \in BarsOf(B, s, k) /\ b.at < Minute(k, OpeningBars) /\ b \in B
    BY DEF OpeningOf, BarsOf
  <2>2. b.available <= Cutoff(d)
    BY <1>1, <1>2, <1>4, <2>1, CoveredInTime
  <2>3. QED
    BY <2>1, <2>2 DEF Sees
<1>5. QED
  BY <1>2, <1>3, <1>4 DEF OpeningOf, BarsOf

(* The checks, spelled out.                                                *)
LEMMA FailsAre ==
  ASSUME NEW V, NEW s, NEW d
  PROVE  /\ Fails(V, s, d, 1) <=> s \notin Stocks
         /\ Fails(V, s, d, 2) <=> \E k \in WarmupDays(d) : ~Covered(V, s, k, SessionBars, Cutoff(d))
         /\ Fails(V, s, d, 3) <=> \E b \in BarsOf(V, s, d - 1) : EndTime(b) = MarketClose(d - 1)
                                                                   /\ b.close <= MinClose
         /\ Fails(V, s, d, 4) <=> Liquidity(V, s, d) <= MinLiquidity
         /\ Fails(V, s, d, 5) <=> \E k \in WarmupDays(d) : VolumeOf(OpeningOf(V, s, k)) = 0
         /\ Fails(V, s, d, 6) <=> ~Covered(V, s, d, OpeningBars, Cutoff(d))
         /\ Fails(V, s, d, 7) <=> VolumeOf(OpeningOf(V, s, d)) = 0
  BY DEF Fails, Checks

(* Warm-up days are days, and the day before is one of them.               *)
LEMMA WarmupIsDays ==
  ASSUME NEW d \in Int
  PROVE  WarmupDays(d) \subseteq Int /\ d - 1 \in WarmupDays(d)
<1>1. WarmupSessions \in Nat \ {0}
  BY ORBAssumption
<1>2. QED
  BY <1>1 DEF WarmupDays

(* With the warm-up complete, the view's warm-up is the dataset's.         *)
LEMMA WarmupIsSeen ==
  ASSUME NEW V, NEW B, NEW d, Sees(V, B, d), NEW s,
         \A k \in WarmupDays(d) : Covered(B, s, k, SessionBars, Cutoff(d))
  PROVE  /\ \A k \in WarmupDays(d) : BarsOf(V, s, k) = BarsOf(B, s, k)
                                     /\ OpeningOf(V, s, k) = OpeningOf(B, s, k)
         /\ Liquidity(V, s, d) = Liquidity(B, s, d)
         /\ WarmupOpening(V, s, d) = WarmupOpening(B, s, d)
<1>1. d \in Int /\ WarmupDays(d) \subseteq Int
  BY WarmupIsDays DEF Sees
<1>2. ASSUME NEW k \in WarmupDays(d)
      PROVE  BarsOf(V, s, k) = BarsOf(B, s, k) /\ OpeningOf(V, s, k) = OpeningOf(B, s, k)
  BY <1>1, <1>2, CoveredIsSeen
<1>3. WarmupBars(V, s, d) = WarmupBars(B, s, d) /\ WarmupOpening(V, s, d) = WarmupOpening(B, s, d)
  BY <1>2 DEF WarmupBars, WarmupOpening
<1>4. QED
  BY <1>2, <1>3 DEF Liquidity

(* The reason does not depend on what is published after the cutoff.       *)
LEMMA ReasonIsFinal ==
  ASSUME NEW V, NEW B, NEW d, Sees(V, B, d), NEW s
  PROVE  Reason(V, s, d) = Reason(B, s, d)
<1>1. d \in Int /\ WarmupDays(d) \subseteq Int /\ d - 1 \in WarmupDays(d)
  BY WarmupIsDays DEF Sees
<1>2. ASSUME NEW i \in 1..7, \A j \in 1..7 : j < i => ~Fails(V, s, d, j) /\ ~Fails(B, s, d, j)
      PROVE  Fails(V, s, d, i) <=> Fails(B, s, d, i)
  <2>1. CASE i = 1
    BY <2>1, FailsAre
  <2>2. CASE i = 2
    <3>1. \A k \in WarmupDays(d) : Covered(V, s, k, SessionBars, Cutoff(d))
                                     <=> Covered(B, s, k, SessionBars, Cutoff(d))
      BY CoveredAgrees
    <3>2. QED
      BY <2>2, <3>1, FailsAre
  <2>3. ASSUME 2 < i
        PROVE  /\ \A k \in WarmupDays(d) : BarsOf(V, s, k) = BarsOf(B, s, k)
                                           /\ OpeningOf(V, s, k) = OpeningOf(B, s, k)
               /\ Liquidity(V, s, d) = Liquidity(B, s, d)
    <3>1. ~Fails(B, s, d, 2)
      BY <1>2, <2>3
    <3>2. \A k \in WarmupDays(d) : Covered(B, s, k, SessionBars, Cutoff(d))
      BY <3>1, FailsAre
    <3>3. QED
      BY <3>2, WarmupIsSeen
  <2>4. CASE i = 3
    <3>1. BarsOf(V, s, d - 1) = BarsOf(B, s, d - 1)
      BY <1>1, <2>3, <2>4
    <3>2. QED
      BY <2>4, <3>1, FailsAre
  <2>5. CASE i = 4
    BY <2>3, <2>5, FailsAre
  <2>6. CASE i = 5
    <3>1. \A k \in WarmupDays(d) : OpeningOf(V, s, k) = OpeningOf(B, s, k)
      BY <2>3, <2>6
    <3>2. QED
      BY <2>6, <3>1, FailsAre
  <2>7. CASE i = 6
    <3>1. Covered(V, s, d, OpeningBars, Cutoff(d)) <=> Covered(B, s, d, OpeningBars, Cutoff(d))
      BY CoveredAgrees
    <3>2. QED
      BY <2>7, <3>1, FailsAre
  <2>8. CASE i = 7
    <3>1. ~Fails(B, s, d, 6)
      BY <1>2, <2>8
    <3>2. OpeningOf(V, s, d) = OpeningOf(B, s, d)
      BY <1>1, <3>1, FailsAre, CoveredIsSeen
    <3>3. QED
      BY <2>8, <3>2, FailsAre
  <2>9. QED
    BY <2>1, <2>2, <2>4, <2>5, <2>6, <2>7, <2>8
<1>3. QED
  BY <1>2, ReasonAgrees

(* A symbol without a reason has its warm-up and its opening in time.      *)
LEMMA Evaluable ==
  ASSUME NEW B, NEW s, NEW d, Reason(B, s, d) = NoReason
  PROVE  /\ \A k \in WarmupDays(d) : Covered(B, s, k, SessionBars, Cutoff(d))
         /\ Covered(B, s, d, OpeningBars, Cutoff(d))
<1>1. ~Fails(B, s, d, 2) /\ ~Fails(B, s, d, 6)
  BY ReasonIs
<1>2. QED
  BY <1>1, FailsAre

(* Neither does the candidate.                                             *)
LEMMA CandidateIsFinal ==
  ASSUME NEW V, NEW B, NEW d, Sees(V, B, d), NEW s, Reason(B, s, d) = NoReason
  PROVE  Candidate(V, s, d) = Candidate(B, s, d)
<1>1. d \in Int
  BY DEF Sees
<1>2. OpeningOf(V, s, d) = OpeningOf(B, s, d)
  BY <1>1, Evaluable, CoveredIsSeen
<1>3. WarmupOpening(V, s, d) = WarmupOpening(B, s, d) /\ Liquidity(V, s, d) = Liquidity(B, s, d)
  BY Evaluable, WarmupIsSeen
<1>4. QED
  BY <1>2, <1>3 DEF Candidate

(* A candidate is made of numbers.                                         *)
LEMMA CandidateIsTyped ==
  ASSUME NEW B, SoundDataset(B), NEW d \in Int, NEW s \in Listed, Reason(B, s, d) = NoReason
  PROVE  /\ Candidate(B, s, d) \in Selected /\ Candidate(B, s, d).symbol = s
         /\ Candidate(B, s, d).rank = 1
<1> DEFINE opening == OpeningOf(B, s, d)
<1>1. /\ opening \subseteq B /\ IsFiniteSet(opening) /\ opening \subseteq Bar
      /\ WarmupOpening(B, s, d) \subseteq B /\ IsFiniteSet(WarmupOpening(B, s, d))
      /\ WarmupOpening(B, s, d) \subseteq Bar
      /\ WarmupBars(B, s, d) \subseteq B /\ IsFiniteSet(WarmupBars(B, s, d))
      /\ WarmupBars(B, s, d) \subseteq Bar
  <2>1. opening \subseteq B /\ WarmupOpening(B, s, d) \subseteq B /\ WarmupBars(B, s, d) \subseteq B
    BY DEF OpeningOf, BarsOf, WarmupOpening, WarmupBars
  <2>2. \A W \in SUBSET B : IsFiniteSet(W) /\ W \subseteq Bar
    BY FS_Subset DEF SoundDataset
  <2> HIDE DEF opening
  <2>3. QED
    BY <2>1, <2>2
<1>2. /\ VolumeOf(opening) \in Int /\ VolumeOf(WarmupOpening(B, s, d)) \in Int
      /\ Liquidity(B, s, d) \in Int
  <2> HIDE DEF opening
  <2>1. QED
    BY <1>1, SumsAreNumbers DEF Liquidity
<1>3. Covered(B, s, d, OpeningBars, Cutoff(d))
  BY Evaluable
<1>4. OpeningBars \in Nat \ {0} /\ WarmupSessions \in Nat
  BY ORBAssumption
<1>5. PICK first \in opening : first.at = MarketOpen(d)
  <2>1. PICK b \in BarsOf(B, s, d) : b.at = Minute(d, 0)
    BY <1>3, <1>4 DEF Covered
  <2>2. BarTicks \in Nat \ {0} /\ MarketOpen(d) \in Int
    BY ORBAssumption, DayInOrder
  <2>3. Minute(d, 0) = MarketOpen(d)
    BY <2>2 DEF Minute
  <2>4. Minute(d, 0) + BarTicks <= Minute(d, OpeningBars) /\ Minute(d, OpeningBars) \in Int
    <3>1. OpeningBars \in Int /\ 0 \in Int /\ 0 < OpeningBars
      BY <1>4
    <3>2. QED
      BY <3>1, MinutesInOrder, DayInOrder
  <2>5. b.at < Minute(d, OpeningBars)
    BY <2>1, <2>2, <2>3, <2>4
  <2>6. QED
    BY <2>1, <2>3, <2>5 DEF OpeningOf
<1>6. PICK last \in opening : EndTime(last) = Minute(d, OpeningBars)
  <2>1. PICK b \in BarsOf(B, s, d) : b.at = Minute(d, OpeningBars - 1)
    BY <1>3, <1>4 DEF Covered
  <2>2. BarTicks \in Nat \ {0} /\ MarketOpen(d) \in Int /\ Minute(d, OpeningBars - 1) \in Int
    <3>1. BarTicks \in Nat \ {0}
      BY ORBAssumption
    <3>2. OpeningBars - 1 \in Int
      BY <1>4
    <3>3. MarketOpen(d) \in Int /\ Minute(d, OpeningBars - 1) \in Int
      BY <1>4, <3>2, DayInOrder
    <3>4. QED
      BY <3>1, <3>3
  <2>3. Minute(d, OpeningBars) = Minute(d, OpeningBars - 1) + BarTicks
    <3>1. OpeningBars * BarTicks = (OpeningBars - 1) * BarTicks + BarTicks
      BY <1>4, <2>2
    <3>2. (OpeningBars - 1) * BarTicks \in Int
      BY <1>4, <2>2
    <3>3. QED
      BY <2>2, <3>1, <3>2 DEF Minute
  <2>4. QED
    BY <2>1, <2>2, <2>3 DEF OpeningOf, EndTime
<1> DEFINE open == CHOOSE b \in opening : b.at = MarketOpen(d)
           close == CHOOSE b \in opening : EndTime(b) = Minute(d, OpeningBars)
           highs == {b.high : b \in opening}
           lows == {b.low : b \in opening}
<1>7. open \in opening /\ close \in opening
  <2>1. open \in opening
    BY <1>5
  <2>2. close \in opening
    BY <1>6
  <2>3. QED
    BY <2>1, <2>2
<1>8. Max(highs) \in Int /\ Min(lows) \in Int
  <2>1. \A b \in opening : b.high \in Int /\ b.low \in Int
    BY <1>1 DEF Bar
  <2>2. highs \subseteq Int /\ lows \subseteq Int /\ highs # {} /\ lows # {}
    BY <1>5, <2>1
  <2> DEFINE hs == [b \in opening |-> b.high]
             ls == [b \in opening |-> b.low]
  <2>3. IsFiniteSet({hs[b] : b \in opening}) /\ IsFiniteSet({ls[b] : b \in opening})
    <3> HIDE DEF hs, ls, opening
    <3>1. QED
      BY <1>1, ImageIsFinite
  <2>4. {hs[b] : b \in opening} = highs /\ {ls[b] : b \in opening} = lows
    OBVIOUS
  <2> HIDE DEF highs, lows, hs, ls
  <2>5. QED
    BY <2>2, <2>3, <2>4, Extremes
<1>9. open.open \in Int /\ close.close \in Int
  <2> HIDE DEF open, close
  <2>1. QED
    BY <1>1, <1>7 DEF Bar
<1>10. Candidate(B, s, d) = [symbol |-> s, rank |-> 1, volume |-> VolumeOf(opening) * WarmupSessions,
          usual |-> VolumeOf(WarmupOpening(B, s, d)), liquidity |-> Liquidity(B, s, d),
          or_high |-> Max(highs), or_low |-> Min(lows), or_open |-> open.open, or_close |-> close.close]
  BY DEF Candidate
<1> HIDE DEF open, close, highs, lows, opening
<1>11. VolumeOf(opening) * WarmupSessions \in Int
  BY <1>2, <1>4
<1>12. QED
  BY <1>2, <1>8, <1>9, <1>10, <1>11 DEF Selected

-----------------------------------------------------------------------------
(* The selection.                                                          *)
EvaluableOf(V, d)  == Listed \ SymbolsOf(Refused(V, d))
CandidatesOf(V, d) == Candidates(V, EvaluableOf(V, d), d)
SelectionOf(V, d)  == Selection(CandidatesOf(V, d))

(* The instruments are finitely many.                                      *)
LEMMA ListedIsFinite == IsFiniteSet(Listed)
<1>1. Symbols \in Seq(Listed)
  BY ORBAssumption
<1>2. DOMAIN Symbols = 1..Len(Symbols) /\ Len(Symbols) \in Nat
  BY <1>1
<1>3. IsFiniteSet(DOMAIN Symbols)
  BY <1>2, FS_Interval
<1>4. IsFiniteSet({Symbols[i] : i \in DOMAIN Symbols})
  BY <1>3, ImageIsFinite
<1>5. QED
  BY <1>4 DEF Listed

(* A symbol is refused, or it has no reason to be.                         *)
LEMMA RefusedIs ==
  ASSUME NEW V, NEW d
  PROVE  /\ EvaluableOf(V, d) = {s \in Listed : Reason(V, s, d) = NoReason}
         /\ \A r \in Refused(V, d) : r \in Refusals /\ Reason(V, r.symbol, d) # NoReason
                                      /\ r = Rejection(r.symbol, Reason(V, r.symbol, d))
<1>1. ASSUME NEW r \in Refused(V, d)
      PROVE  r \in Refusals /\ Reason(V, r.symbol, d) # NoReason
             /\ r = Rejection(r.symbol, Reason(V, r.symbol, d))
  <2>1. PICK s \in Listed : r = Rejection(s, Reason(V, s, d)) /\ r.reason # NoReason
    BY DEF Refused
  <2>2. r.symbol = s /\ r.reason = Reason(V, s, d)
    BY <2>1 DEF Rejection
  <2>3. Reason(V, s, d) \in Reasons
    BY <2>1, <2>2, ReasonIs
  <2>4. QED
    BY <2>1, <2>2, <2>3 DEF Rejection, Refusals
<1>2. ASSUME NEW s \in Listed, Reason(V, s, d) # NoReason PROVE s \in SymbolsOf(Refused(V, d))
  <2> DEFINE r == Rejection(s, Reason(V, s, d))
  <2>1. r.symbol = s /\ r.reason = Reason(V, s, d)
    BY DEF Rejection
  <2>2. r \in Refused(V, d)
    BY <1>2, <2>1 DEF Refused
  <2>3. QED
    BY <2>1, <2>2 DEF SymbolsOf
<1>3. ASSUME NEW s \in SymbolsOf(Refused(V, d)) PROVE Reason(V, s, d) # NoReason
  BY <1>1 DEF SymbolsOf
<1>4. QED
  BY <1>1, <1>2, <1>3 DEF EvaluableOf

(* The candidates have one entry for each of their symbols.                *)
LEMMA CandidatesAre ==
  ASSUME NEW B, SoundDataset(B), NEW d \in Int
  PROVE  /\ IsFiniteSet(CandidatesOf(B, d))
         /\ \A c \in CandidatesOf(B, d) :
              /\ c \in Selected /\ c.symbol \in EvaluableOf(B, d) /\ c = Candidate(B, c.symbol, d)
<1> DEFINE E == EvaluableOf(B, d)
           f == [s \in E |-> Candidate(B, s, d)]
<1>1. E \subseteq Listed /\ \A s \in E : Reason(B, s, d) = NoReason
  BY RefusedIs
<1>2. IsFiniteSet(E)
  <2> HIDE DEF E
  <2>1. QED
    BY <1>1, ListedIsFinite, FS_Subset
<1>3. IsFiniteSet({f[s] : s \in E})
  <2> HIDE DEF E, f
  <2>1. QED
    BY <1>2, ImageIsFinite
<1>4. CandidatesOf(B, d) \subseteq {f[s] : s \in E}
  BY DEF CandidatesOf, Candidates
<1>5. IsFiniteSet(CandidatesOf(B, d))
  BY <1>3, <1>4, FS_Subset
<1>6. ASSUME NEW c \in CandidatesOf(B, d)
      PROVE  c \in Selected /\ c.symbol \in E /\ c = Candidate(B, c.symbol, d)
  <2>1. PICK s \in E : c = Candidate(B, s, d)
    BY <1>4
  <2>2. Candidate(B, s, d) \in Selected /\ Candidate(B, s, d).symbol = s
    BY <1>1, CandidateIsTyped
  <2>3. QED
    BY <2>1, <2>2
<1>7. QED
  BY <1>5, <1>6

(* So has the selection.                                                   *)
LEMMA SelectionIs ==
  ASSUME NEW B, SoundDataset(B), NEW d \in Int
  PROVE  /\ SelectionOf(B, d) \subseteq Selected
         /\ \A c \in SelectionOf(B, d) : c.symbol \in SymbolsOf(CandidatesOf(B, d))
         /\ \A c, e \in SelectionOf(B, d) : c.symbol = e.symbol => c = e
<1> DEFINE C == CandidatesOf(B, d)
           ranked(c) == [c EXCEPT !.rank = RankIn(c, C)]
<1>1. IsFiniteSet(C) /\ \A c \in C : c \in Selected /\ c = Candidate(B, c.symbol, d)
  BY CandidatesAre
<1> HIDE DEF C
<1>2. ASSUME NEW c \in C PROVE ranked(c) \in Selected /\ ranked(c).symbol = c.symbol
  <2>1. IsFiniteSet({o \in C : Outranks(o, c)})
    BY <1>1, FS_Subset
  <2>2. RankIn(c, C) \in Int
    BY <2>1, FS_CardinalityType DEF RankIn
  <2>3. c \in Selected
    BY <1>1
  <2>4. QED
    BY <2>2, <2>3 DEF Selected
<1>3. ASSUME NEW c \in SelectionOf(B, d) PROVE \E o \in C : c = ranked(o)
  BY DEF SelectionOf, Selection, Ranked, C
<1> HIDE DEF ranked
<1>4. ASSUME NEW c \in SelectionOf(B, d) PROVE c \in Selected /\ c.symbol \in SymbolsOf(C)
  BY <1>2, <1>3 DEF SymbolsOf
<1>5. ASSUME NEW c \in SelectionOf(B, d), NEW e \in SelectionOf(B, d), c.symbol = e.symbol
      PROVE  c = e
  <2>1. PICK o \in C : c = ranked(o)
    BY <1>3
  <2>2. PICK u \in C : e = ranked(u)
    BY <1>3
  <2>3. o.symbol = u.symbol
    BY <1>2, <1>5, <2>1, <2>2
  <2>4. o = u
    BY <1>1, <2>3
  <2>5. QED
    BY <2>1, <2>2, <2>4
<1>6. QED
  BY <1>4, <1>5 DEF C

(* Nothing of the selection changes after the cutoff.                      *)
LEMMA SelectionIsFinal ==
  ASSUME NEW V, NEW B, NEW d, Sees(V, B, d)
  PROVE  /\ Refused(V, d) = Refused(B, d) /\ EvaluableOf(V, d) = EvaluableOf(B, d)
         /\ CandidatesOf(V, d) = CandidatesOf(B, d) /\ SelectionOf(V, d) = SelectionOf(B, d)
<1>1. \A s : Reason(V, s, d) = Reason(B, s, d)
  BY ReasonIsFinal
<1>2. Refused(V, d) = Refused(B, d)
  BY <1>1 DEF Refused
<1>3. EvaluableOf(V, d) = EvaluableOf(B, d)
  BY <1>2 DEF EvaluableOf
<1>4. \A s \in EvaluableOf(B, d) : Candidate(V, s, d) = Candidate(B, s, d)
  BY RefusedIs, CandidateIsFinal
<1>5. CandidatesOf(V, d) = CandidatesOf(B, d)
  BY <1>3, <1>4 DEF CandidatesOf, Candidates
<1>6. QED
  BY <1>2, <1>3, <1>5 DEF SelectionOf

-----------------------------------------------------------------------------
(* The entries.                                                            *)

(* b does not come after o.                                                *)
Leads(b, o) == \/ b.available < o.available
               \/ b.available = o.available /\ b.at <= o.at

(* Bars of one symbol have one first among them.                           *)
LEMMA FirstIs ==
  ASSUME NEW B, SoundDataset(B), NEW s, NEW S \in SUBSET B, \A b \in S : b.symbol = s, S # {}
  PROVE  /\ FirstOf(S) \in S /\ \A o \in S : Leads(FirstOf(S), o)
         /\ \A b \in S : (\A o \in S : Leads(b, o)) => b = FirstOf(S)
<1>1. IsFiniteSet(S) /\ \A b \in S : b.available \in Int /\ b.at \in Int
  BY FS_Subset, BarInSession DEF SoundDataset
<1> DEFINE early == [b \in S |-> b.available]
           start == [b \in S |-> b.at]
<1>2. PICK a \in S : \A x \in S : a.available <= x.available
  <2>1. \A b \in S : early[b] \in Int
    BY <1>1
  <2> HIDE DEF early
  <2>2. \E m \in S : \A x \in S : early[m] <= early[x]
    BY <1>1, <2>1, LeastOf
  <2>3. QED
    BY <2>2 DEF early
<1> DEFINE T == {b \in S : b.available = a.available}
<1>3. IsFiniteSet(T) /\ T # {} /\ T \subseteq S
  <2>1. T \subseteq S /\ a \in T
    OBVIOUS
  <2> HIDE DEF T
  <2>2. QED
    BY <1>1, <2>1, FS_Subset
<1>4. PICK m \in T : \A x \in T : m.at <= x.at
  <2>1. \A b \in T : start[b] \in Int
    BY <1>1, <1>3
  <2> HIDE DEF start, T
  <2>2. \E m \in T : \A x \in T : start[m] <= start[x]
    BY <1>3, <2>1, LeastOf
  <2>3. QED
    BY <1>3, <2>2 DEF start
<1>5. m \in S /\ \A o \in S : Leads(m, o)
  <2>1. m \in S /\ m.available = a.available
    OBVIOUS
  <2>2. ASSUME NEW o \in S PROVE Leads(m, o)
    <3>1. m.available <= o.available /\ m.available \in Int /\ o.available \in Int
      BY <1>1, <1>2, <2>1
    <3>2. m.available = o.available => o \in T
      BY <2>1
    <3>3. QED
      BY <1>4, <3>1, <3>2 DEF Leads
  <2>3. QED
    BY <2>1, <2>2
<1>6. FirstOf(S) \in S /\ \A o \in S : Leads(FirstOf(S), o)
  <2>1. FirstOf(S) = CHOOSE b \in S : \A o \in S : Leads(b, o)
    BY DEF FirstOf, Leads
  <2>2. QED
    BY <1>5, <2>1
<1>7. ASSUME NEW b \in S, \A o \in S : Leads(b, o) PROVE b = FirstOf(S)
  <2>1. Leads(b, FirstOf(S)) /\ Leads(FirstOf(S), b) /\ FirstOf(S) \in S
    BY <1>6, <1>7
  <2>2. b.at = FirstOf(S).at
    BY <1>1, <2>1 DEF Leads
  <2>3. b.symbol = FirstOf(S).symbol /\ b \in B /\ FirstOf(S) \in B
    BY <2>1
  <2>4. QED
    BY <2>2, <2>3 DEF SoundDataset
<1>8. QED
  BY <1>6, <1>7

(* The breakout that decides a candidate, and whether it was published.    *)
Decisive(B, c, d) == FirstOf(Breakouts(B, c, d))
Broke(B, c, d, t) == Breakouts(B, c, d) # {} /\ Decisive(B, c, d).available <= t

(* A dataset as it was at an instant.                                      *)
AsOf(B, t) == {b \in B : b.available <= t}

(* The decisive breakout comes inside the entry window.                    *)
LEMMA DecisiveIs ==
  ASSUME NEW B, SoundDataset(B), NEW c, NEW d, Breakouts(B, c, d) # {}
  PROVE  /\ Decisive(B, c, d) \in Breakouts(B, c, d) /\ Decisive(B, c, d) \in B
         /\ Decisive(B, c, d).symbol = c.symbol /\ Decisive(B, c, d).day = d
         /\ Cutoff(d) <= Decisive(B, c, d).available /\ Decisive(B, c, d).available < EntriesEnd(d)
         /\ \A o \in Breakouts(B, c, d) : Leads(Decisive(B, c, d), o)
<1>1. Breakouts(B, c, d) \in SUBSET B /\ \A b \in Breakouts(B, c, d) : b.symbol = c.symbol /\ b.day = d
  BY DEF Breakouts, BarsOf
<1>2. Decisive(B, c, d) \in Breakouts(B, c, d) /\ \A o \in Breakouts(B, c, d) : Leads(Decisive(B, c, d), o)
  BY <1>1, FirstIs DEF Decisive
<1>3. QED
  BY <1>1, <1>2 DEF Breakouts

(* A view has the decisive breakout once it is published, and none before. *)
LEMMA DecisiveIsFinal ==
  ASSUME NEW B, SoundDataset(B), NEW c, NEW d, NEW t \in Int
  PROVE  /\ Broke(B, c, d, t) => /\ Breakouts(AsOf(B, t), c, d) # {}
                                 /\ Decisive(AsOf(B, t), c, d) = Decisive(B, c, d)
         /\ ~Broke(B, c, d, t) => Breakouts(AsOf(B, t), c, d) = {}
<1> DEFINE V == AsOf(B, t)
           all == Breakouts(B, c, d)
           some == Breakouts(V, c, d)
<1>1. some = {b \in all : b.available <= t}
  BY DEF Breakouts, BarsOf, AsOf
<1>2. all \in SUBSET B /\ some \in SUBSET B /\ \A b \in all : b.symbol = c.symbol
  BY <1>1 DEF Breakouts, BarsOf
<1>3. \A b \in all : b.available \in Int
  BY <1>2, BarInSession
<1>4. CASE Broke(B, c, d, t)
  <2>1. Decisive(B, c, d) \in all /\ Decisive(B, c, d).available <= t
        /\ \A o \in all : Leads(Decisive(B, c, d), o)
    BY <1>4, DecisiveIs DEF Broke
  <2>2. Decisive(B, c, d) \in some /\ \A o \in some : Leads(Decisive(B, c, d), o)
    BY <1>1, <2>1
  <2>3. Decisive(B, c, d) = FirstOf(some)
    <3> HIDE DEF some, all
    <3>1. \A b \in some : b.symbol = c.symbol
      BY <1>1, <1>2
    <3>2. QED
      BY <1>2, <2>2, <3>1, FirstIs
  <2>4. QED
    BY <1>4, <2>2, <2>3 DEF Decisive
<1>5. CASE ~Broke(B, c, d, t)
  <2>1. ASSUME NEW b \in some PROVE FALSE
    <3>1. b \in all /\ b.available <= t /\ all # {}
      BY <1>1
    <3>2. Decisive(B, c, d) \in all /\ Leads(Decisive(B, c, d), b)
      BY <3>1, DecisiveIs
    <3>3. Decisive(B, c, d).available <= b.available
      BY <1>3, <3>1, <3>2 DEF Leads
    <3>4. Decisive(B, c, d).available <= t
      BY <1>3, <3>1, <3>2, <3>3
    <3>5. QED
      BY <1>5, <3>1, <3>4 DEF Broke
  <2>2. QED
    BY <1>5, <2>1
<1>6. QED
  BY <1>4, <1>5

(* How a reason reads in a view: what comes too late is missing.           *)
Reading(reason) ==
  IF reason = "RS_BENCHMARK_INVALID_OR_UNAVAILABLE" THEN "RS_SYNCHRONIZED_DATA_MISSING" ELSE reason

(* Reading a reason alike hides neither a pass nor a wait.                 *)
LEMMA ReadingKeeps ==
  ASSUME NEW reason
  PROVE  /\ Reading(reason) = NoReason <=> reason = NoReason
         /\ Reading(reason) = Waiting <=> reason = Waiting
  BY DEF Reading, NoReason, Waiting

(* A benchmark compares the same once the decisive bar is published.       *)
LEMMA BenchmarkIsFinal ==
  ASSUME NEW B, SoundDataset(B), NEW s, NEW c, NEW d, NEW t \in Int, NEW bar \in B, bar.available <= t
  PROVE  /\ Reading(BenchmarkReason(AsOf(B, t), s, c, bar, d)) = Reading(BenchmarkReason(B, s, c, bar, d))
         /\ BenchmarkReason(B, s, c, bar, d) \in Reasons \cup {NoReason}
<1> DEFINE opening(V) == {b \in BarsOf(V, s, d) : b.at = MarketOpen(d)}
           now(V)     == {b \in BarsOf(V, s, d) : b.at = bar.at}
           late(V)    == {b \in opening(V) \cup now(V) : b.available > bar.available \/ b.volume = 0}
           weak(V)    == \E o \in opening(V), n \in now(V) : bar.close * o.open <= n.close * c.or_open
           V == AsOf(B, t)
<1>1. \A W : BenchmarkReason(W, s, c, bar, d) =
               IF opening(W) = {} \/ now(W) = {} THEN "RS_SYNCHRONIZED_DATA_MISSING"
               ELSE IF late(W) # {} THEN "RS_BENCHMARK_INVALID_OR_UNAVAILABLE"
               ELSE IF weak(W) THEN "RS_NOT_STRONGER_THAN_BOTH" ELSE NoReason
  BY DEF BenchmarkReason
<1>2. opening(V) = {b \in opening(B) : b.available <= t} /\ now(V) = {b \in now(B) : b.available <= t}
  BY DEF AsOf, BarsOf
<1>3. /\ \A b, e \in opening(B) : b = e
      /\ \A b, e \in now(B) : b = e
      /\ \A b \in opening(B) \cup now(B) : b.available \in Int
      /\ bar.available \in Int
  <2>1. \A b \in opening(B) \cup now(B) : b \in B /\ b.symbol = s
    BY DEF BarsOf
  <2>2. QED
    BY <2>1, BarInSession DEF SoundDataset
<1>4. CASE opening(V) = opening(B) /\ now(V) = now(B)
  <2>1. late(V) = late(B) /\ weak(V) = weak(B)
    BY <1>4
  <2>2. QED
    BY <1>1, <1>4, <2>1 DEF Reasons
<1>5. CASE ~(opening(V) = opening(B) /\ now(V) = now(B))
  <2>1. opening(V) = {} \/ now(V) = {}
    BY <1>2, <1>3, <1>5
  <2>2. PICK b \in opening(B) \cup now(B) : b.available > t
    BY <1>2, <1>3, <1>5
  <2>3. b \in late(B)
    BY <1>3, <2>2
  <2>4. Reading(BenchmarkReason(V, s, c, bar, d)) = "RS_SYNCHRONIZED_DATA_MISSING"
    BY <1>1, <2>1 DEF Reading
  <2>5. BenchmarkReason(B, s, c, bar, d) \in {"RS_SYNCHRONIZED_DATA_MISSING",
                                               "RS_BENCHMARK_INVALID_OR_UNAVAILABLE"}
    BY <1>1, <2>3
  <2>6. QED
    BY <2>4, <2>5 DEF Reading, Reasons
<1>6. QED
  BY <1>4, <1>5

(* So does the whole filter.                                               *)
LEMMA RsIsFinal ==
  ASSUME NEW B, SoundDataset(B), NEW c, NEW d, NEW t \in Int, NEW bar \in B, bar.available <= t
  PROVE  /\ Reading(RsReason(AsOf(B, t), c, bar, d)) = Reading(RsReason(B, c, bar, d))
         /\ RsReason(B, c, bar, d) \in Reasons \cup {NoReason}
<1> DEFINE reasons(V) == [i \in DOMAIN Benchmarks |-> BenchmarkReason(V, Benchmarks[i], c, bar, d)]
           failed(V) == {i \in DOMAIN reasons(V) : reasons(V)[i] # NoReason}
           V == AsOf(B, t)
<1>1. \A W : RsReason(W, c, bar, d) = IF ~RelativeStrength \/ failed(W) = {} THEN NoReason
                                      ELSE reasons(W)[Min(failed(W))]
  BY DEF RsReason
<1>2. ASSUME NEW i \in DOMAIN Benchmarks
      PROVE  /\ Reading(reasons(V)[i]) = Reading(reasons(B)[i])
             /\ reasons(B)[i] \in Reasons \cup {NoReason}
  BY BenchmarkIsFinal
<1>3. DOMAIN reasons(V) = DOMAIN Benchmarks /\ DOMAIN reasons(B) = DOMAIN Benchmarks
  OBVIOUS
<1> HIDE DEF reasons
<1>4. failed(V) = failed(B)
  BY <1>2, <1>3, ReadingKeeps
<1>5. failed(B) # {} => Min(failed(B)) \in failed(B)
  <2>1. Benchmarks \in Seq(Listed)
    BY ORBAssumption
  <2>2. DOMAIN Benchmarks = 1..Len(Benchmarks) /\ Len(Benchmarks) \in Nat
    BY <2>1
  <2>3. IsFiniteSet(DOMAIN Benchmarks) /\ DOMAIN Benchmarks \subseteq Int
    BY <2>2, FS_Interval
  <2>4. failed(B) \subseteq DOMAIN Benchmarks
    BY <1>3
  <2> HIDE DEF failed
  <2>5. IsFiniteSet(failed(B)) /\ failed(B) \subseteq Int
    BY <2>3, <2>4, FS_Subset
  <2>6. QED
    BY <2>5, Extremes
<1>6. CASE ~RelativeStrength \/ failed(B) = {}
  BY <1>1, <1>4, <1>6
<1>7. CASE ~(~RelativeStrength \/ failed(B) = {})
  <2>1. Min(failed(B)) \in DOMAIN Benchmarks
    BY <1>3, <1>5, <1>7
  <2> HIDE DEF failed
  <2>2. QED
    BY <1>1, <1>2, <1>4, <1>7, <2>1
<1>8. QED
  BY <1>6, <1>7

(* What becomes of a candidate: bullish or not, broken out or waiting.     *)
LEMMA OutcomeIsFinal ==
  ASSUME NEW B, SoundDataset(B), NEW c, NEW d, NEW t \in Int
  PROVE  /\ Outcome(B, c, d) \in Reasons \cup {NoReason, Waiting}
         /\ c.or_close <= c.or_open => Outcome(AsOf(B, t), c, d) = "OPENING_RANGE_NOT_BULLISH"
                                       /\ Outcome(B, c, d) = "OPENING_RANGE_NOT_BULLISH"
         /\ ~(c.or_close <= c.or_open) =>
              /\ Breakouts(B, c, d) = {} <=> Outcome(B, c, d) = Waiting
              /\ Broke(B, c, d, t) => Reading(Outcome(AsOf(B, t), c, d)) = Reading(Outcome(B, c, d))
              /\ ~Broke(B, c, d, t) => Outcome(AsOf(B, t), c, d) = Waiting
<1>1. \A V : Outcome(V, c, d) = IF c.or_close <= c.or_open THEN "OPENING_RANGE_NOT_BULLISH"
                                ELSE IF Breakouts(V, c, d) = {} THEN Waiting
                                ELSE RsReason(V, c, Decisive(V, c, d), d)
  BY DEF Outcome, Decisive
<1>2. CASE c.or_close <= c.or_open
  BY <1>1, <1>2 DEF Reasons
<1>3. CASE ~(c.or_close <= c.or_open) /\ Breakouts(B, c, d) = {}
  <2>1. ~Broke(B, c, d, t)
    BY <1>3 DEF Broke
  <2>2. QED
    BY <1>1, <1>3, <2>1, DecisiveIsFinal
<1>4. CASE ~(c.or_close <= c.or_open) /\ Breakouts(B, c, d) # {}
  <2>1. Decisive(B, c, d) \in B /\ Decisive(B, c, d).available \in Int
    BY <1>4, DecisiveIs, BarInSession
  <2>2. Outcome(B, c, d) = RsReason(B, c, Decisive(B, c, d), d)
    BY <1>1, <1>4
  <2>3. Outcome(B, c, d) \in Reasons \cup {NoReason}
    BY <2>1, <2>2, RsIsFinal
  <2>4. Outcome(B, c, d) # Waiting
    BY <2>3 DEF Reasons, NoReason, Waiting
  <2>5. CASE Broke(B, c, d, t)
    <3>1. Outcome(AsOf(B, t), c, d) = RsReason(AsOf(B, t), c, Decisive(B, c, d), d)
      BY <1>1, <1>4, <2>5, DecisiveIsFinal
    <3>2. QED
      BY <1>4, <2>1, <2>2, <2>3, <2>4, <2>5, <3>1, RsIsFinal DEF Broke
  <2>6. CASE ~Broke(B, c, d, t)
    <3>1. Outcome(AsOf(B, t), c, d) = Waiting
      BY <1>1, <1>4, <2>6, DecisiveIsFinal
    <3>2. QED
      BY <1>4, <2>3, <2>4, <2>6, <3>1
  <2>7. QED
    BY <2>5, <2>6
<1>5. QED
  BY <1>2, <1>3, <1>4

-----------------------------------------------------------------------------
(* The decision.                                                           *)

(* process_session, in terms of the selection and its outcomes.            *)
LEMMA DecisionIs ==
  ASSUME NEW V, NEW d
  PROVE  LET p == ProcessSession(V, d)
             C == SelectionOf(V, d)
         IN  /\ p = [evaluable |-> EvaluableOf(V, d), selection |-> C,
                     signals |-> p.signals, rejections |-> p.rejections]
             /\ p.signals = {SignalOf(V, c, d) : c \in {c \in C : Outcome(V, c, d) = NoReason}}
             /\ p.rejections =
                  Refused(V, d)
                    \cup {Rejection(s, "RVOL_BELOW_THRESHOLD") :
                            s \in EvaluableOf(V, d) \ SymbolsOf(CandidatesOf(V, d))}
                    \cup {Rejection(c.symbol, Outcome(V, c, d)) :
                            c \in {c \in C : Outcome(V, c, d) \notin {NoReason, Waiting}}}
<1> DEFINE C == SelectionOf(V, d)
           outcomes == {[of |-> c, outcome |-> Outcome(V, c, d)] : c \in C}
           signals == {SignalOf(V, o.of, d) : o \in {o \in outcomes : o.outcome = NoReason}}
           rejected == {Rejection(o.of.symbol, o.outcome) :
                          o \in {o \in outcomes : o.outcome \notin {NoReason, Waiting}}}
           below == {Rejection(s, "RVOL_BELOW_THRESHOLD") :
                       s \in EvaluableOf(V, d) \ SymbolsOf(CandidatesOf(V, d))}
<1>1. ProcessSession(V, d) =
        [evaluable |-> EvaluableOf(V, d), selection |-> C, signals |-> signals,
         rejections |-> Refused(V, d) \cup below \cup rejected]
  BY DEF ProcessSession, EvaluableOf, CandidatesOf, SelectionOf
<1>2. signals = {SignalOf(V, c, d) : c \in {c \in C : Outcome(V, c, d) = NoReason}}
  <2>1. ASSUME NEW x \in signals
        PROVE  x \in {SignalOf(V, c, d) : c \in {c \in C : Outcome(V, c, d) = NoReason}}
    OBVIOUS
  <2>2. ASSUME NEW c \in C, Outcome(V, c, d) = NoReason PROVE SignalOf(V, c, d) \in signals
    <3> DEFINE o == [of |-> c, outcome |-> Outcome(V, c, d)]
    <3>1. o \in outcomes /\ o.outcome = NoReason /\ o.of = c
      BY <2>2
    <3>2. QED
      BY <3>1
  <2>3. QED
    BY <2>1, <2>2
<1>3. rejected = {Rejection(c.symbol, Outcome(V, c, d)) :
                    c \in {c \in C : Outcome(V, c, d) \notin {NoReason, Waiting}}}
  <2>1. ASSUME NEW x \in rejected
        PROVE  x \in {Rejection(c.symbol, Outcome(V, c, d)) :
                        c \in {c \in C : Outcome(V, c, d) \notin {NoReason, Waiting}}}
    OBVIOUS
  <2>2. ASSUME NEW c \in C, Outcome(V, c, d) \notin {NoReason, Waiting}
        PROVE  Rejection(c.symbol, Outcome(V, c, d)) \in rejected
    <3> DEFINE o == [of |-> c, outcome |-> Outcome(V, c, d)]
    <3>1. o \in outcomes /\ o.outcome = Outcome(V, c, d) /\ o.of = c
      BY <2>2
    <3>2. QED
      BY <2>2, <3>1
  <2>3. QED
    BY <2>1, <2>2
<1> HIDE DEF signals, rejected, below, C
<1>4. QED
  BY <1>1, <1>2, <1>3 DEF C, below

(* A signal is the decisive breakout of a bullish candidate.               *)
LEMMA SignalIs ==
  ASSUME NEW B, SoundDataset(B), NEW d \in Int, NEW c \in SelectionOf(B, d), Outcome(B, c, d) = NoReason
  PROVE  /\ ~(c.or_close <= c.or_open) /\ Breakouts(B, c, d) # {}
         /\ SignalOf(B, c, d) \in Signal /\ SignalOf(B, c, d).symbol = c.symbol
         /\ SignalOf(B, c, d).day = d
         /\ SignalOf(B, c, d).available = Decisive(B, c, d).available
         /\ Cutoff(d) <= SignalOf(B, c, d).available /\ SignalOf(B, c, d).available < EntriesEnd(d)
<1>1. ~(c.or_close <= c.or_open) /\ Breakouts(B, c, d) # {}
  <2>1. 0 \in Int /\ NoReason # "OPENING_RANGE_NOT_BULLISH" /\ NoReason # Waiting
    BY DEF NoReason, Waiting
  <2>2. QED
    BY <2>1, OutcomeIsFinal
<1>2. c \in Selected
  BY SelectionIs
<1>3. Decisive(B, c, d) \in B /\ Decisive(B, c, d).available \in Int /\ Decisive(B, c, d).close \in Int
      /\ Cutoff(d) <= Decisive(B, c, d).available /\ Decisive(B, c, d).available < EntriesEnd(d)
  BY <1>1, DecisiveIs, BarInSession
<1> DEFINE x == Decisive(B, c, d)
<1>4. SignalOf(B, c, d) =
        [symbol |-> c.symbol, day |-> d, available |-> x.available,
         expires |-> x.available + SignalTTL, reference |-> x.close, stop |-> c.or_low, rank |-> c.rank]
  BY DEF SignalOf, Decisive
<1>5. SignalTTL \in Nat
  BY ORBAssumption
<1> HIDE DEF x
<1>6. SignalOf(B, c, d) \in Signal
  BY <1>2, <1>3, <1>4, <1>5 DEF Signal, Selected, x
<1>7. QED
  BY <1>1, <1>3, <1>4, <1>6 DEF x

(* Each rejection has its cause.                                           *)
LEMMA RejectionIs ==
  ASSUME NEW B, SoundDataset(B), NEW d \in Int, NEW r \in ProcessSession(B, d).rejections
  PROVE  /\ r \in Refusals
         /\ \/ r.symbol \notin EvaluableOf(B, d) /\ r = Rejection(r.symbol, Reason(B, r.symbol, d))
            \/ /\ r.symbol \in EvaluableOf(B, d) /\ r.symbol \notin SymbolsOf(CandidatesOf(B, d))
               /\ r = Rejection(r.symbol, "RVOL_BELOW_THRESHOLD")
            \/ \E c \in SelectionOf(B, d) : /\ r = Rejection(c.symbol, Outcome(B, c, d))
                                            /\ r.symbol = c.symbol
                                            /\ Outcome(B, c, d) \notin {NoReason, Waiting}
<1>1. CASE r \in Refused(B, d)
  BY <1>1, RefusedIs
<1>2. ASSUME NEW s \in EvaluableOf(B, d) \ SymbolsOf(CandidatesOf(B, d)),
             r = Rejection(s, "RVOL_BELOW_THRESHOLD")
      PROVE  r \in Refusals /\ r.symbol = s
  BY <1>2 DEF Rejection, Refusals, Reasons, EvaluableOf
<1>3. ASSUME NEW c \in SelectionOf(B, d), Outcome(B, c, d) \notin {NoReason, Waiting},
             r = Rejection(c.symbol, Outcome(B, c, d))
      PROVE  r \in Refusals /\ r.symbol = c.symbol
  <2>1. c \in Selected
    BY SelectionIs
  <2>2. Outcome(B, c, d) \in Reasons
    <3>1. 0 \in Int
      OBVIOUS
    <3>2. QED
      BY <1>3, <3>1, OutcomeIsFinal
  <2>3. QED
    BY <1>3, <2>1, <2>2 DEF Rejection, Refusals, Selected
<1>4. \/ r \in Refused(B, d)
      \/ \E s \in EvaluableOf(B, d) \ SymbolsOf(CandidatesOf(B, d)) : r = Rejection(s, "RVOL_BELOW_THRESHOLD")
      \/ \E c \in SelectionOf(B, d) : /\ Outcome(B, c, d) \notin {NoReason, Waiting}
                                      /\ r = Rejection(c.symbol, Outcome(B, c, d))
  BY DecisionIs
<1>5. QED
  BY <1>1, <1>2, <1>3, <1>4

(* A decision is typed, its signals lie inside the entry window, and there  *)
(* is one at most for a symbol of the selection.                           *)
SoundDecision(p, d) ==
  /\ p \in Decision
  /\ IsFiniteSet(p.signals)
  /\ \A s \in p.signals : /\ s \in Signal /\ s.day = d /\ s.symbol \in SymbolsOf(p.selection)
                          /\ Cutoff(d) <= s.available /\ s.available < EntriesEnd(d)
  /\ \A s, u \in p.signals : s.symbol = u.symbol => s = u

(* It says one thing about a symbol: a signal, a rejection, or nothing.    *)
SaysOnce(p, d) ==
  /\ SoundDecision(p, d)
  /\ \A r, q \in p.rejections : r.symbol = q.symbol => r = q
  /\ \A s \in p.signals, r \in p.rejections : s.symbol # r.symbol

(* The strategy says one thing about a symbol.                             *)
LEMMA DecisionSaysOnce ==
  ASSUME NEW B, SoundDataset(B), NEW d \in Int
  PROVE  SaysOnce(ProcessSession(B, d), d)
<1> DEFINE p == ProcessSession(B, d)
           C == SelectionOf(B, d)
<1>1. /\ C \subseteq Selected
      /\ \A c \in C : c.symbol \in SymbolsOf(CandidatesOf(B, d)) /\ c.symbol \in EvaluableOf(B, d)
      /\ \A c, e \in C : c.symbol = e.symbol => c = e
  BY SelectionIs, CandidatesAre DEF SymbolsOf
<1>2. p.evaluable = EvaluableOf(B, d) /\ p.selection = C /\ EvaluableOf(B, d) \subseteq Listed
      /\ p = [evaluable |-> p.evaluable, selection |-> p.selection,
              signals |-> p.signals, rejections |-> p.rejections]
  BY DecisionIs, RefusedIs
<1>3. ASSUME NEW s \in p.signals
      PROVE  \E c \in C : s = SignalOf(B, c, d) /\ s.symbol = c.symbol /\ Outcome(B, c, d) = NoReason
  <2>1. PICK c \in C : s = SignalOf(B, c, d) /\ Outcome(B, c, d) = NoReason
    BY DecisionIs
  <2>2. QED
    BY <2>1, SignalIs
<1>4. ASSUME NEW s \in p.signals
      PROVE  /\ s \in Signal /\ s.day = d /\ s.symbol \in SymbolsOf(C)
             /\ Cutoff(d) <= s.available /\ s.available < EntriesEnd(d)
  <2>1. PICK c \in C : s = SignalOf(B, c, d) /\ Outcome(B, c, d) = NoReason
    BY <1>3
  <2>2. QED
    BY <2>1, SignalIs DEF SymbolsOf
<1>5. ASSUME NEW r \in p.rejections
      PROVE  /\ r \in Refusals
             /\ \/ r.symbol \notin EvaluableOf(B, d) /\ r = Rejection(r.symbol, Reason(B, r.symbol, d))
                \/ /\ r.symbol \in EvaluableOf(B, d) /\ r.symbol \notin SymbolsOf(CandidatesOf(B, d))
                   /\ r = Rejection(r.symbol, "RVOL_BELOW_THRESHOLD")
                \/ \E c \in C : /\ r = Rejection(c.symbol, Outcome(B, c, d))
                                /\ r.symbol = c.symbol
                                /\ Outcome(B, c, d) \notin {NoReason, Waiting}
  BY RejectionIs
<1> HIDE DEF p, C
<1>6. p \in Decision
  <2>1. p.signals \subseteq Signal /\ p.rejections \subseteq Refusals
    BY <1>4, <1>5
  <2>2. QED
    BY <1>1, <1>2, <2>1 DEF Decision
<1>7. ASSUME NEW s \in p.signals, NEW u \in p.signals, s.symbol = u.symbol PROVE s = u
  <2>1. PICK c \in C : s = SignalOf(B, c, d) /\ s.symbol = c.symbol
    BY <1>3
  <2>2. PICK e \in C : u = SignalOf(B, e, d) /\ u.symbol = e.symbol
    BY <1>3
  <2>3. QED
    BY <1>1, <1>7, <2>1, <2>2
<1>8. ASSUME NEW r \in p.rejections, NEW q \in p.rejections, r.symbol = q.symbol PROVE r = q
  <2>1. CASE r.symbol \notin EvaluableOf(B, d)
    BY <1>1, <1>5, <1>8, <2>1
  <2>2. CASE r.symbol \in EvaluableOf(B, d) /\ r.symbol \notin SymbolsOf(CandidatesOf(B, d))
    BY <1>1, <1>5, <1>8, <2>2
  <2>3. CASE r.symbol \in EvaluableOf(B, d) /\ r.symbol \in SymbolsOf(CandidatesOf(B, d))
    <3>1. PICK c \in C : r = Rejection(c.symbol, Outcome(B, c, d)) /\ r.symbol = c.symbol
      BY <1>5, <2>3
    <3>2. PICK e \in C : q = Rejection(e.symbol, Outcome(B, e, d)) /\ q.symbol = e.symbol
      BY <1>5, <1>8, <2>3
    <3>3. QED
      BY <1>1, <1>8, <3>1, <3>2
  <2>4. QED
    BY <2>1, <2>2, <2>3
<1>9. ASSUME NEW s \in p.signals, NEW r \in p.rejections PROVE s.symbol # r.symbol
  <2>1. PICK c \in C : s.symbol = c.symbol /\ Outcome(B, c, d) = NoReason
    BY <1>3
  <2>2. SUFFICES ASSUME r.symbol = c.symbol PROVE FALSE
    BY <2>1
  <2>3. PICK e \in C : r.symbol = e.symbol /\ Outcome(B, e, d) # NoReason
    BY <1>1, <1>5, <2>2
  <2>4. QED
    BY <1>1, <2>1, <2>2, <2>3
<1>10. IsFiniteSet(p.signals)
  <2> DEFINE of == [s \in p.signals |-> s.symbol]
  <2>1. of \in Injection(p.signals, Listed)
    <3>1. \A s \in p.signals : s.symbol \in Listed
      BY <1>4 DEF Signal
    <3>2. of \in [p.signals -> Listed]
      BY <3>1
    <3>3. \A s, u \in p.signals : of[s] = of[u] => s = u
      BY <1>7
    <3> HIDE DEF of
    <3>4. QED
      BY <3>2, <3>3 DEF Injection, IsInjective
  <2>2. QED
    BY <2>1, ListedIsFinite, FS_Injection DEF ExistsInjection
<1>11. QED
  BY <1>2, <1>4, <1>6, <1>7, <1>8, <1>9, <1>10 DEF SaysOnce, SoundDecision, p

(* Whether what is said about a symbol rests on bars published by t.       *)
Settles(B, s, d, t) ==
  \A c \in SelectionOf(B, d) : c.symbol = s /\ ~(c.or_close <= c.or_open) => Broke(B, c, d, t)

(* Two rejections read the same in a view.                                 *)
Alike(r, q) == r.symbol = q.symbol /\ Reading(r.reason) = Reading(q.reason)

(* The decision about a view is what the whole dataset says and what was   *)
(* published by then supports: the same selection, the signals of that     *)
(* time, and the rejections that are settled.                              *)
LEMMA ViewDecides ==
  ASSUME NEW B, SoundDataset(B), NEW d \in Int, NEW t \in Int, Cutoff(d) <= t
  PROVE  LET whole == ProcessSession(B, d)
             p     == ProcessSession(AsOf(B, t), d)
         IN  /\ p.evaluable = whole.evaluable /\ p.selection = whole.selection
             /\ p.signals = {s \in whole.signals : s.available <= t}
             /\ \A r \in p.rejections :
                  Settles(B, r.symbol, d, t) /\ \E q \in whole.rejections : Alike(r, q)
             /\ \A q \in whole.rejections :
                  Settles(B, q.symbol, d, t) => \E r \in p.rejections : Alike(r, q)
<1> DEFINE whole == ProcessSession(B, d)
           p     == ProcessSession(AsOf(B, t), d)
           V     == AsOf(B, t)
           C     == SelectionOf(B, d)
<1>1. V \in SUBSET B /\ SoundDataset(V)
  BY PartIsSound DEF AsOf
<1>2. Sees(V, B, d)
  <2>1. Cutoff(d) \in Int /\ \A b \in B : b.available \in Int
    BY DayInOrder, BarInSession
  <2>2. QED
    BY <1>1, <2>1 DEF Sees, AsOf
<1>3. /\ Refused(V, d) = Refused(B, d) /\ EvaluableOf(V, d) = EvaluableOf(B, d)
      /\ CandidatesOf(V, d) = CandidatesOf(B, d) /\ SelectionOf(V, d) = C
  BY <1>2, SelectionIsFinal
<1>4. /\ p.evaluable = EvaluableOf(B, d) /\ whole.evaluable = EvaluableOf(B, d)
      /\ p.selection = C /\ whole.selection = C
      /\ p.signals = {SignalOf(V, c, d) : c \in {c \in C : Outcome(V, c, d) = NoReason}}
      /\ whole.signals = {SignalOf(B, c, d) : c \in {c \in C : Outcome(B, c, d) = NoReason}}
  <2>1. p.selection = SelectionOf(V, d) /\ p.evaluable = EvaluableOf(V, d)
        /\ p.signals = {SignalOf(V, c, d) : c \in {c \in SelectionOf(V, d) : Outcome(V, c, d) = NoReason}}
    BY DecisionIs
  <2>2. whole.selection = C /\ whole.evaluable = EvaluableOf(B, d)
        /\ whole.signals = {SignalOf(B, c, d) : c \in {c \in C : Outcome(B, c, d) = NoReason}}
    BY DecisionIs
  <2>3. QED
    BY <1>3, <2>1, <2>2
<1>5. \A c \in C :
        /\ c.or_close <= c.or_open => Outcome(V, c, d) = "OPENING_RANGE_NOT_BULLISH"
                                      /\ Outcome(B, c, d) = "OPENING_RANGE_NOT_BULLISH"
        /\ ~(c.or_close <= c.or_open) =>
             /\ Breakouts(B, c, d) = {} <=> Outcome(B, c, d) = Waiting
             /\ Broke(B, c, d, t) => Reading(Outcome(V, c, d)) = Reading(Outcome(B, c, d))
             /\ ~Broke(B, c, d, t) => Outcome(V, c, d) = Waiting
  BY OutcomeIsFinal
<1>6. NoReason # Waiting /\ NoReason # "OPENING_RANGE_NOT_BULLISH" /\ Waiting # "OPENING_RANGE_NOT_BULLISH"
  BY DEF NoReason, Waiting
<1>7. ASSUME NEW c \in C
      PROVE  Outcome(V, c, d) = NoReason <=> Outcome(B, c, d) = NoReason /\ Broke(B, c, d, t)
  <2>1. CASE c.or_close <= c.or_open
    BY <1>5, <1>6, <2>1
  <2>2. CASE ~(c.or_close <= c.or_open)
    BY <1>5, <1>6, <2>2, ReadingKeeps
  <2>3. QED
    BY <2>1, <2>2
<1>8. ASSUME NEW c \in C, Broke(B, c, d, t)
      PROVE  SignalOf(V, c, d) = SignalOf(B, c, d)
             /\ SignalOf(B, c, d).available = Decisive(B, c, d).available
  <2>1. Decisive(V, c, d) = Decisive(B, c, d)
    BY <1>8, DecisiveIsFinal
  <2>2. QED
    BY <2>1 DEF SignalOf, Decisive
<1>9. p.signals = {s \in whole.signals : s.available <= t}
  <2>1. ASSUME NEW s \in p.signals PROVE s \in whole.signals /\ s.available <= t
    <3>1. PICK c \in C : s = SignalOf(V, c, d) /\ Outcome(V, c, d) = NoReason
      BY <1>4
    <3>2. Outcome(B, c, d) = NoReason /\ Broke(B, c, d, t)
      BY <1>7, <3>1
    <3>3. QED
      BY <1>4, <1>8, <3>1, <3>2 DEF Broke
  <2>2. ASSUME NEW s \in whole.signals, s.available <= t PROVE s \in p.signals
    <3>1. PICK c \in C : s = SignalOf(B, c, d) /\ Outcome(B, c, d) = NoReason
      BY <1>4
    <3>2. Breakouts(B, c, d) # {} /\ s.available = Decisive(B, c, d).available
      BY <3>1, SignalIs
    <3>3. Broke(B, c, d, t)
      BY <2>2, <3>2 DEF Broke
    <3>4. QED
      BY <1>4, <1>7, <1>8, <3>1, <3>3
  <2>3. QED
    BY <2>1, <2>2
<1> DEFINE below == {Rejection(s, "RVOL_BELOW_THRESHOLD") :
                       s \in EvaluableOf(B, d) \ SymbolsOf(CandidatesOf(B, d))}
           said(W) == {Rejection(c.symbol, Outcome(W, c, d)) :
                         c \in {c \in C : Outcome(W, c, d) \notin {NoReason, Waiting}}}
<1>10. p.rejections = Refused(B, d) \cup below \cup said(V)
       /\ whole.rejections = Refused(B, d) \cup below \cup said(B)
  <2>1. p.rejections =
          Refused(V, d)
            \cup {Rejection(s, "RVOL_BELOW_THRESHOLD") :
                    s \in EvaluableOf(V, d) \ SymbolsOf(CandidatesOf(V, d))}
            \cup {Rejection(c.symbol, Outcome(V, c, d)) :
                    c \in {c \in SelectionOf(V, d) : Outcome(V, c, d) \notin {NoReason, Waiting}}}
    BY DecisionIs
  <2>2. whole.rejections = Refused(B, d) \cup below \cup said(B)
    BY DecisionIs
  <2>3. QED
    BY <1>3, <2>1, <2>2
<1>11. ASSUME NEW r \in Refused(B, d) \cup below PROVE Settles(B, r.symbol, d, t)
  <2>1. r.symbol \notin EvaluableOf(B, d) \/ r.symbol \notin SymbolsOf(CandidatesOf(B, d))
    BY RefusedIs DEF Rejection
  <2>2. \A c \in C : c.symbol \in EvaluableOf(B, d) /\ c.symbol \in SymbolsOf(CandidatesOf(B, d))
    BY SelectionIs, CandidatesAre DEF SymbolsOf
  <2>3. QED
    BY <2>1, <2>2 DEF Settles
<1>12. \A c, e \in C : c.symbol = e.symbol => c = e
  BY SelectionIs
<1>13. ASSUME NEW c \in C
       PROVE  Settles(B, c.symbol, d, t) <=> (~(c.or_close <= c.or_open) => Broke(B, c, d, t))
  BY <1>12 DEF Settles
<1>14. ASSUME NEW c \in C, Settles(B, c.symbol, d, t)
       PROVE  Reading(Outcome(V, c, d)) = Reading(Outcome(B, c, d))
  BY <1>5, <1>13, <1>14
<1>15. ASSUME NEW c \in C, Outcome(V, c, d) # Waiting PROVE Settles(B, c.symbol, d, t)
  BY <1>5, <1>13, <1>15
<1> HIDE DEF C, V
<1>16. ASSUME NEW r \in p.rejections
       PROVE  Settles(B, r.symbol, d, t) /\ \E q \in whole.rejections : Alike(r, q)
  <2>1. CASE r \in Refused(B, d) \cup below
    BY <1>10, <1>11, <2>1 DEF Alike
  <2>2. ASSUME NEW c \in C, r = Rejection(c.symbol, Outcome(V, c, d)),
               Outcome(V, c, d) \notin {NoReason, Waiting}
        PROVE  Settles(B, r.symbol, d, t) /\ \E q \in whole.rejections : Alike(r, q)
    <3>1. r.symbol = c.symbol /\ r.reason = Outcome(V, c, d)
      BY <2>2 DEF Rejection
    <3>2. Settles(B, c.symbol, d, t) /\ Reading(Outcome(V, c, d)) = Reading(Outcome(B, c, d))
      BY <1>14, <1>15, <2>2
    <3>3. Outcome(B, c, d) \notin {NoReason, Waiting}
      BY <2>2, <3>2, ReadingKeeps
    <3> DEFINE q == Rejection(c.symbol, Outcome(B, c, d))
    <3>4. q.symbol = c.symbol /\ q.reason = Outcome(B, c, d)
      BY DEF Rejection
    <3>5. q \in said(B)
      BY <3>3
    <3> HIDE DEF q
    <3>6. q \in whole.rejections /\ Alike(r, q)
      BY <1>10, <3>1, <3>2, <3>4, <3>5 DEF Alike
    <3>7. QED
      BY <3>1, <3>2, <3>6
  <2>3. QED
    BY <1>10, <2>1, <2>2
<1>17. ASSUME NEW q \in whole.rejections, Settles(B, q.symbol, d, t)
       PROVE  \E r \in p.rejections : Alike(r, q)
  <2>1. CASE q \in Refused(B, d) \cup below
    BY <1>10, <2>1 DEF Alike
  <2>2. ASSUME NEW c \in C, q = Rejection(c.symbol, Outcome(B, c, d)),
               Outcome(B, c, d) \notin {NoReason, Waiting}
        PROVE  \E r \in p.rejections : Alike(r, q)
    <3>1. q.symbol = c.symbol /\ q.reason = Outcome(B, c, d)
      BY <2>2 DEF Rejection
    <3>2. Reading(Outcome(V, c, d)) = Reading(Outcome(B, c, d))
      BY <1>14, <1>17, <3>1
    <3>3. Outcome(V, c, d) \notin {NoReason, Waiting}
      BY <2>2, <3>2, ReadingKeeps
    <3> DEFINE r == Rejection(c.symbol, Outcome(V, c, d))
    <3>4. r.symbol = c.symbol /\ r.reason = Outcome(V, c, d)
      BY DEF Rejection
    <3>5. r \in said(V)
      BY <3>3
    <3> HIDE DEF r
    <3>6. r \in p.rejections /\ Alike(r, q)
      BY <1>10, <3>1, <3>2, <3>4, <3>5 DEF Alike
    <3>7. QED
      BY <3>6
  <2>3. QED
    BY <1>10, <2>1, <2>2
<1>18. QED
  BY <1>4, <1>9, <1>16, <1>17

(* A rejected candidate that was bullish broke out, inside the window.     *)
LEMMA RejectedBroke ==
  ASSUME NEW B, SoundDataset(B), NEW d \in Int, NEW q \in ProcessSession(B, d).rejections,
         NEW c \in SelectionOf(B, d), c.symbol = q.symbol, ~(c.or_close <= c.or_open)
  PROVE  /\ Breakouts(B, c, d) # {} /\ Decisive(B, c, d) \in B
         /\ Cutoff(d) <= Decisive(B, c, d).available /\ Decisive(B, c, d).available < EntriesEnd(d)
<1>1. /\ c.symbol \in SymbolsOf(CandidatesOf(B, d)) /\ c.symbol \in EvaluableOf(B, d)
      /\ \A e \in SelectionOf(B, d) : c.symbol = e.symbol => c = e
  BY SelectionIs, CandidatesAre DEF SymbolsOf
<1>2. Outcome(B, c, d) # Waiting
  BY <1>1, RejectionIs
<1>3. Breakouts(B, c, d) # {}
  <2>1. 0 \in Int
    OBVIOUS
  <2>2. QED
    BY <1>2, <2>1, OutcomeIsFinal
<1>4. QED
  BY <1>3, DecisiveIs

(* What is settled stays settled.                                          *)
LEMMA SettlesForGood ==
  ASSUME NEW B, SoundDataset(B), NEW s, NEW d \in Int, NEW t \in Int, NEW u \in Int, t <= u,
         Settles(B, s, d, t)
  PROVE  Settles(B, s, d, u)
<1>1. SUFFICES ASSUME NEW c \in SelectionOf(B, d), c.symbol = s, ~(c.or_close <= c.or_open)
               PROVE  Broke(B, c, d, u)
  BY DEF Settles
<1>2. Broke(B, c, d, t)
  BY <1>1 DEF Settles
<1>3. Decisive(B, c, d).available \in Int
  BY <1>2, DecisiveIs, BarInSession DEF Broke
<1>4. QED
  BY <1>2, <1>3 DEF Broke

(* A signal becomes available with the publication of a bar.               *)
LEMMA SignalIsPublished ==
  ASSUME NEW B, SoundDataset(B), NEW d \in Int, NEW s \in ProcessSession(B, d).signals
  PROVE  \E b \in B : b.available = s.available
<1>1. PICK c \in SelectionOf(B, d) : s = SignalOf(B, c, d) /\ Outcome(B, c, d) = NoReason
  BY DecisionIs
<1>2. Breakouts(B, c, d) # {} /\ s.available = Decisive(B, c, d).available
  BY <1>1, SignalIs
<1>3. QED
  BY <1>2, DecisiveIs

-----------------------------------------------------------------------------
(* The replay.                                                             *)

(* What was gathered about session d by t is what ViewDecides says.        *)
Follows(x, B, d, t) ==
  LET whole == ProcessSession(B, d)
  IN  /\ x.signals = {s \in whole.signals : s.available <= t}
      /\ \A r \in x.rejections :
           /\ r \in Refusals /\ Settles(B, r.symbol, d, t)
           /\ \E q \in whole.rejections : Alike(r, q)
      /\ \A q \in whole.rejections :
           Settles(B, q.symbol, d, t) => \E r \in x.rejections : Alike(r, q)

(* What was decided, what is being decided, and both: the replay has said  *)
(* of the session so far what the complete data say by the clock.          *)
DecisionsInv ==
  /\ decisions \in [Sessions -> Decision \cup {Unset}]
  /\ \A d \in Sessions : decisions[d] # Unset => SoundDecision(decisions[d], d)

CurrentInv ==
  /\ current = Unset => \A d \in Undecided : clock <= Cutoff(d)
  /\ current # Unset =>
       /\ Undecided # {} /\ current \in Progress
       /\ Cutoff(Deciding) <= clock /\ clock < EntriesEnd(Deciding)
       /\ current.initial.evaluable = ProcessSession(bars, Deciding).evaluable
       /\ current.initial.selection = ProcessSession(bars, Deciding).selection
       /\ Follows(current, bars, Deciding, clock)

ReplayInv ==
  /\ SoundDataset(bars) /\ raised = Unset /\ clock \in Int
  /\ DecisionsInv /\ CurrentInv

(* The first session without a decision.                                   *)
LEMMA DecidingIs ==
  ASSUME Undecided # {}
  PROVE  /\ Deciding \in Undecided /\ Deciding \in Int /\ Deciding \in Sessions
         /\ \A d \in Undecided : Deciding <= d
<1>1. Undecided \subseteq 1..Days /\ Days \in Nat
  BY ReplayAssumption DEF Undecided, Sessions
<1>2. IsFiniteSet(Undecided) /\ Undecided \subseteq Int
  <2>1. IsFiniteSet(1..Days)
    BY <1>1, FS_Interval
  <2>2. IsFiniteSet(Undecided)
    BY <1>1, <2>1, FS_Subset
  <2>3. Undecided \subseteq Int
    BY <1>1
  <2>4. QED
    BY <2>2, <2>3
<1>3. QED
  BY <1>1, <1>2, Extremes DEF Deciding, Sessions

(* A view in logical time is the dataset as of the clock.                  *)
LEMMA ViewIs == ASSUME NEW t PROVE View(t) = AsOf(bars, t)
  BY DEF View, AsOf

(* The decision on a view follows the whole dataset.                       *)
LEMMA ViewFollows ==
  ASSUME NEW B, SoundDataset(B), NEW d \in Int, NEW t \in Int, Cutoff(d) <= t
  PROVE  LET p == ProcessSession(AsOf(B, t), d)
         IN  /\ SaysOnce(p, d) /\ Follows(p, B, d, t)
             /\ p.evaluable = ProcessSession(B, d).evaluable
             /\ p.selection = ProcessSession(B, d).selection
<1> DEFINE p == ProcessSession(AsOf(B, t), d)
<1>1. SoundDataset(AsOf(B, t))
  BY PartIsSound DEF AsOf
<1>2. SaysOnce(p, d)
  BY <1>1, DecisionSaysOnce
<1>3. p.rejections \subseteq Refusals
  BY <1>2 DEF SaysOnce, SoundDecision, Decision
<1>4. QED
  BY <1>2, <1>3, ViewDecides DEF Follows

(* What a step of the replay promises, with the dataset as it was.         *)
Matches ==
  /\ raised' = Unset
  /\ \A d \in Sessions : decisions'[d] # decisions[d] => Same(decisions'[d], ProcessSession(bars, d))
  /\ current' # Unset =>
       LET whole == ProcessSession(bars, Deciding)
       IN  /\ current'.signals = {s \in whole.signals : s.available <= clock'}
           /\ AsSeen(current'.rejections) \subseteq AsSeen(whole.rejections)

(* Rejections that read alike are the same once read.                      *)
LEMMA AlikeAsSeen ==
  ASSUME NEW R, NEW Q, R \subseteq Refusals, Q \subseteq Refusals,
         \A r \in R : \E q \in Q : Alike(r, q)
  PROVE  AsSeen(R) \subseteq AsSeen(Q)
<1> DEFINE read(r) == [r EXCEPT !.reason = Reading(@)]
<1>1. \A S : AsSeen(S) = {read(r) : r \in S}
  BY DEF AsSeen, Reading
<1>2. ASSUME NEW r \in R, NEW q \in Q, Alike(r, q) PROVE read(r) = read(q)
  <2>1. r = [symbol |-> r.symbol, reason |-> r.reason] /\ q = [symbol |-> q.symbol, reason |-> q.reason]
    BY DEF Refusals
  <2>2. read(r) = [symbol |-> r.symbol, reason |-> Reading(r.reason)]
        /\ read(q) = [symbol |-> q.symbol, reason |-> Reading(q.reason)]
    BY <2>1
  <2>3. QED
    BY <1>2, <2>2 DEF Alike
<1> HIDE DEF read
<1>3. QED
  BY <1>1, <1>2

(* The decision at the cutoff.                                             *)
LEMMA CutoffStep ==
  ASSUME ReplayInv, AtCutoff
  PROVE  ReplayInv' /\ Matches
<1> DEFINE d == Deciding
           t == Cutoff(d)
           initial == ProcessSession(AsOf(bars, t), d)
           whole == ProcessSession(bars, d)
<1>1. Undecided # {} /\ d \in Int /\ d \in Undecided
  BY DecidingIs DEF AtCutoff
<1>2. clock <= t /\ t \in Int /\ clock \in Int /\ t < EntriesEnd(d)
  BY <1>1, DayInOrder DEF ReplayInv, CurrentInv, AtCutoff
<1>3. /\ current' = [initial |-> initial, signals |-> initial.signals, rejections |-> initial.rejections]
      /\ clock' = t /\ raised' = Unset /\ UNCHANGED <<bars, decisions>>
  BY <1>2, ViewIs DEF AtCutoff
<1>4. /\ SaysOnce(initial, d) /\ Follows(initial, bars, d, t)
      /\ initial.evaluable = whole.evaluable /\ initial.selection = whole.selection
  BY <1>1, <1>2, ViewFollows DEF ReplayInv
<1>5. SaysOnce(whole, d)
  BY <1>1, DecisionSaysOnce DEF ReplayInv
<1>6. /\ current' \in Progress /\ current' # Unset /\ current'.initial = initial
      /\ current'.signals = initial.signals /\ current'.rejections = initial.rejections
  <2>1. initial \in Decision
    BY <1>4 DEF SaysOnce, SoundDecision
  <2>2. initial.signals \subseteq Signal /\ initial.rejections \subseteq Refusals
    BY <2>1 DEF Decision
  <2> HIDE DEF initial
  <2>3. current' \in Progress
    BY <1>3, <2>1, <2>2 DEF Progress
  <2>4. QED
    BY <1>3, <2>3, ReplayAssumption
<1>7. Undecided' = Undecided /\ Deciding' = d
  BY <1>3 DEF Undecided, Deciding
<1> HIDE DEF initial, whole, d, t
<1>8. Follows(current', bars, d, t)
  BY <1>4, <1>6 DEF Follows
<1>9. CurrentInv'
  <2>1. (current # Unset)' /\ (Undecided # {})' /\ (current \in Progress)'
    BY <1>1, <1>6, <1>7
  <2>2. (Cutoff(Deciding) <= clock)' /\ (clock < EntriesEnd(Deciding))'
    BY <1>2, <1>3, <1>7 DEF t
  <2>3. (current.initial.evaluable = ProcessSession(bars, Deciding).evaluable)'
        /\ (current.initial.selection = ProcessSession(bars, Deciding).selection)'
    BY <1>3, <1>4, <1>6, <1>7 DEF whole
  <2>4. Follows(current, bars, Deciding, clock)'
    BY <1>3, <1>7, <1>8
  <2>5. QED
    BY <2>1, <2>2, <2>3, <2>4 DEF CurrentInv
<1>10. ReplayInv'
  BY <1>2, <1>3, <1>9 DEF ReplayInv, DecisionsInv
<1>11. AsSeen(current'.rejections) \subseteq AsSeen(whole.rejections)
  <2>1. whole.rejections \subseteq Refusals
    BY <1>5 DEF SaysOnce, SoundDecision, Decision
  <2>2. \A r \in current'.rejections : r \in Refusals /\ \E q \in whole.rejections : Alike(r, q)
    BY <1>8 DEF Follows, whole
  <2>3. QED
    BY <2>1, <2>2, AlikeAsSeen
<1>12. Matches
  BY <1>3, <1>8, <1>11 DEF Matches, Follows, whole, d
<1>13. QED
  BY <1>10, <1>12

(* What was gathered is about one symbol once, as in the whole decision.   *)
LEMMA FollowedOnce ==
  ASSUME NEW x, NEW B, NEW d, NEW t, SaysOnce(ProcessSession(B, d), d), Follows(x, B, d, t),
         NEW s \in SymbolsOf(x.signals) \cup SymbolsOf(x.rejections)
  PROVE  LET whole == ProcessSession(B, d)
         IN  /\ \A u \in whole.signals : u.symbol = s => u \in x.signals
             /\ \A q \in whole.rejections : q.symbol = s => \E r \in x.rejections : Alike(r, q)
<1> DEFINE whole == ProcessSession(B, d)
<1>1. /\ \A u, v \in whole.signals : u.symbol = v.symbol => u = v
      /\ \A r, q \in whole.rejections : r.symbol = q.symbol => r = q
      /\ \A u \in whole.signals, r \in whole.rejections : u.symbol # r.symbol
  BY DEF SaysOnce, SoundDecision
<1>2. x.signals \subseteq whole.signals
  BY DEF Follows
<1>3. \A r \in x.rejections : \E q \in whole.rejections : Alike(r, q)
  BY DEF Follows
<1>4. CASE s \in SymbolsOf(x.signals)
  <2>1. PICK v \in x.signals : v.symbol = s
    BY <1>4 DEF SymbolsOf
  <2>2. QED
    BY <1>1, <1>2, <2>1
<1>5. CASE s \in SymbolsOf(x.rejections)
  <2>1. PICK r \in x.rejections : r.symbol = s
    BY <1>5 DEF SymbolsOf
  <2>2. PICK q \in whole.rejections : Alike(r, q)
    BY <1>3
  <2>3. q.symbol = s
    BY <2>1, <2>2 DEF Alike
  <2>4. QED
    BY <1>1, <2>2, <2>3
<1>6. QED
  BY <1>4, <1>5

(* The instants still to come are numbers, and there is a next one.        *)
LEMMA NextInstant ==
  ASSUME SoundDataset(bars), Later # {}
  PROVE  /\ Min(Later) \in Later /\ Min(Later) \in Int /\ \A t \in Later : Min(Later) <= t
         /\ clock < Min(Later) /\ Cutoff(Deciding) < Min(Later) /\ Min(Later) < EntriesEnd(Deciding)
<1> DEFINE times == {b.available : b \in bars}
           published == [b \in bars |-> b.available]
<1>1. IsFiniteSet(bars) /\ \A b \in bars : b.available \in Int
  BY BarInSession DEF SoundDataset
<1>2. IsFiniteSet({published[b] : b \in bars}) /\ times = {published[b] : b \in bars}
  <2>1. times = {published[b] : b \in bars}
    OBVIOUS
  <2> HIDE DEF published
  <2>2. QED
    BY <1>1, <2>1, ImageIsFinite
<1>3. times \subseteq Int
  BY <1>1
<1>4. Later \subseteq times
  BY DEF Later, Clocks
<1>5. IsFiniteSet(Later) /\ Later \subseteq Int
  <2> HIDE DEF times, published
  <2>1. QED
    BY <1>2, <1>3, <1>4, FS_Subset
<1>6. Min(Later) \in Later /\ \A t \in Later : Min(Later) <= t
  BY <1>5, Extremes
<1>7. \A t \in Later : clock < t /\ Cutoff(Deciding) < t /\ t < EntriesEnd(Deciding)
  BY DEF Later, Clocks
<1>8. QED
  BY <1>5, <1>6, <1>7

(* The decision at a publication instant.                                  *)
LEMMA PublicationStep ==
  ASSUME ReplayInv, AtPublication
  PROVE  ReplayInv' /\ Matches
<1> DEFINE d == Deciding
           at == Min(Later)
           decision == ProcessSession(AsOf(bars, at), d)
           whole == ProcessSession(bars, d)
           signals == New(decision.signals)
           rejections == New(decision.rejections)
<1>1. /\ Undecided # {} /\ d \in Int /\ current \in Progress /\ SoundDataset(bars) /\ clock \in Int
      /\ Cutoff(d) <= clock /\ clock < EntriesEnd(d)
      /\ current.initial.evaluable = whole.evaluable /\ current.initial.selection = whole.selection
      /\ Follows(current, bars, d, clock)
  BY DecidingIs DEF AtPublication, ReplayInv, CurrentInv
<1>2. /\ at \in Int /\ at \in Later /\ clock < at /\ at < EntriesEnd(d) /\ Cutoff(d) <= at
      /\ \A t \in Later : at <= t
  BY <1>1, NextInstant, DayInOrder DEF AtPublication
<1>3. /\ SaysOnce(decision, d) /\ Follows(decision, bars, d, at)
      /\ decision.evaluable = whole.evaluable /\ decision.selection = whole.selection
  BY <1>1, <1>2, ViewFollows
<1>4. SaysOnce(whole, d)
  BY <1>1, DecisionSaysOnce
<1>5. /\ clock' = at /\ UNCHANGED <<bars, decisions>>
      /\ current' = [current EXCEPT !.signals = @ \cup signals, !.rejections = @ \cup rejections]
      /\ raised' = IF \/ decision.selection # current.initial.selection
                      \/ decision.evaluable # current.initial.evaluable
                   THEN "REPLAY_SELECTION_CHANGED_AFTER_CUTOFF"
                   ELSE IF \E s \in signals : s.available # at
                   THEN "REPLAY_RETROACTIVE_SIGNAL_BLOCKED"
                   ELSE Unset
  BY ViewIs DEF AtPublication
<1>6. \A x : x \in Terminal(current) <=> x \in SymbolsOf(current.signals) \cup SymbolsOf(current.rejections)
  BY DEF Terminal
<1>7. /\ \A s \in decision.signals : s \in whole.signals /\ s.available <= at /\ s.available \in Int
      /\ \A s \in whole.signals : s.available <= at => s \in decision.signals
      /\ \A s \in whole.signals : s.available <= clock <=> s \in current.signals
      /\ \A s \in current.signals : s \in whole.signals
  BY <1>1, <1>3, <1>4 DEF Follows, SaysOnce, SoundDecision, Signal
<1>8. ASSUME NEW s \in signals PROVE s.available = at
  <2>1. s \in decision.signals /\ s.symbol \notin Terminal(current)
    BY DEF New
  <2>2. s \in whole.signals /\ s.available <= at /\ s.available \in Int
    BY <1>7, <2>1
  <2>3. ~(s.available <= clock)
    BY <1>6, <1>7, <2>1, <2>2 DEF SymbolsOf
  <2>4. PICK b \in bars : b.available = s.available
    BY <1>1, <2>2, SignalIsPublished
  <2>5. Cutoff(d) < s.available /\ s.available < EntriesEnd(d)
    <3>1. s.available < EntriesEnd(d)
      BY <1>4, <2>2 DEF SaysOnce, SoundDecision
    <3>2. Cutoff(d) \in Int
      BY <1>1, DayInOrder
    <3>3. Cutoff(d) < s.available
      BY <1>1, <2>2, <2>3, <3>2
    <3>4. QED
      BY <3>1, <3>3
  <2>6. s.available \in Later
    BY <1>1, <2>2, <2>3, <2>4, <2>5 DEF Later, Clocks
  <2>7. QED
    BY <1>2, <2>2, <2>6
<1>9. raised' = Unset
  BY <1>1, <1>3, <1>5, <1>8
<1>10. /\ current' \in Progress /\ current' # Unset /\ current'.initial = current.initial
       /\ current'.signals = current.signals \cup signals
       /\ current'.rejections = current.rejections \cup rejections
  <2>1. signals \subseteq Signal /\ rejections \subseteq Refusals
    BY <1>3 DEF New, SaysOnce, SoundDecision, Decision
  <2> HIDE DEF signals, rejections
  <2>2. current' \in Progress
    BY <1>1, <1>5, <2>1 DEF Progress
  <2>3. QED
    BY <1>1, <1>5, <2>2, ReplayAssumption DEF Progress
<1>11. current'.signals = {s \in whole.signals : s.available <= at}
  <2>1. ASSUME NEW s \in current'.signals PROVE s \in whole.signals /\ s.available <= at
    <3>1. CASE s \in current.signals
      <4>1. s \in whole.signals /\ s.available <= clock
        BY <1>7, <3>1
      <4>2. s.available \in Int
        BY <1>4, <4>1 DEF SaysOnce, SoundDecision, Signal
      <4>3. QED
        BY <1>1, <1>2, <4>1, <4>2
    <3>2. CASE s \in signals
      BY <1>7, <3>2 DEF New
    <3>3. QED
      BY <1>10, <2>1, <3>1, <3>2
  <2>2. ASSUME NEW s \in whole.signals, s.available <= at PROVE s \in current'.signals
    <3>1. CASE s \in current.signals
      BY <1>10, <3>1
    <3>2. CASE s \notin current.signals
      <4>1. s.symbol \notin Terminal(current)
        BY <1>1, <1>4, <1>6, <3>2, FollowedOnce
      <4>2. s \in signals
        BY <1>7, <2>2, <4>1 DEF New
      <4>3. QED
        BY <1>10, <4>2
    <3>3. QED
      BY <3>1, <3>2
  <2>3. QED
    BY <2>1, <2>2
<1>12. ASSUME NEW r \in current'.rejections
       PROVE  r \in Refusals /\ Settles(bars, r.symbol, d, at) /\ \E q \in whole.rejections : Alike(r, q)
  <2>1. CASE r \in current.rejections
    <3>1. r \in Refusals /\ Settles(bars, r.symbol, d, clock) /\ \E q \in whole.rejections : Alike(r, q)
      BY <1>1, <2>1 DEF Follows
    <3>2. clock <= at
      BY <1>1, <1>2
    <3>3. QED
      BY <1>1, <1>2, <3>1, <3>2, SettlesForGood
  <2>2. CASE r \in decision.rejections
    BY <1>3, <2>2 DEF Follows
  <2>3. QED
    BY <1>10, <1>12, <2>1, <2>2 DEF New
<1>13. ASSUME NEW q \in whole.rejections, Settles(bars, q.symbol, d, at)
       PROVE  \E r \in current'.rejections : Alike(r, q)
  <2>1. PICK r \in decision.rejections : Alike(r, q)
    BY <1>3, <1>13 DEF Follows
  <2>2. CASE r.symbol \in Terminal(current)
    <3>1. \E u \in current.rejections : Alike(u, q)
      BY <1>1, <1>4, <1>6, <2>1, <2>2, FollowedOnce DEF Alike
    <3>2. QED
      BY <1>10, <3>1
  <2>3. CASE r.symbol \notin Terminal(current)
    <3>1. r \in rejections
      BY <2>3 DEF New
    <3>2. QED
      BY <1>10, <2>1, <3>1
  <2>4. QED
    BY <2>2, <2>3
<1>14. Undecided' = Undecided /\ Deciding' = d
  BY <1>5 DEF Undecided, Deciding
<1> HIDE DEF decision, whole, d, at, signals, rejections
<1>15. Follows(current', bars, d, at)
  BY <1>11, <1>12, <1>13 DEF Follows, whole
<1>16. CurrentInv'
  <2>1. (current # Unset)' /\ (Undecided # {})' /\ (current \in Progress)'
    BY <1>1, <1>10, <1>14
  <2>2. (Cutoff(Deciding) <= clock)' /\ (clock < EntriesEnd(Deciding))'
    BY <1>2, <1>5, <1>14
  <2>3. (current.initial.evaluable = ProcessSession(bars, Deciding).evaluable)'
        /\ (current.initial.selection = ProcessSession(bars, Deciding).selection)'
    BY <1>1, <1>5, <1>10, <1>14 DEF whole
  <2>4. Follows(current, bars, Deciding, clock)'
    BY <1>5, <1>14, <1>15
  <2>5. QED
    BY <2>1, <2>2, <2>3, <2>4 DEF CurrentInv
<1>17. ReplayInv'
  BY <1>1, <1>2, <1>5, <1>9, <1>16 DEF ReplayInv, DecisionsInv
<1>18. AsSeen(current'.rejections) \subseteq AsSeen(whole.rejections)
  <2>1. whole.rejections \subseteq Refusals
    BY <1>4 DEF SaysOnce, SoundDecision, Decision
  <2>2. \A r \in current'.rejections : r \in Refusals /\ \E q \in whole.rejections : Alike(r, q)
    BY <1>12
  <2>3. QED
    BY <2>1, <2>2, AlikeAsSeen
<1>19. Matches
  BY <1>5, <1>9, <1>11, <1>18 DEF Matches, whole, d
<1>20. QED
  BY <1>17, <1>19

(* Nothing of the session is left to find when the replay leaves it.       *)
LEMMA NothingLeft ==
  ASSUME ReplayInv, current # Unset, Settled(current) \/ Later = {}
  PROVE  LET whole == ProcessSession(bars, Deciding)
         IN  /\ current.signals = whole.signals
             /\ \A q \in whole.rejections : \E r \in current.rejections : Alike(r, q)
<1> DEFINE d == Deciding
           whole == ProcessSession(bars, d)
<1>1. /\ Undecided # {} /\ d \in Int /\ SoundDataset(bars) /\ clock \in Int /\ Cutoff(d) <= clock
      /\ current.initial.selection = whole.selection /\ Follows(current, bars, d, clock)
  BY DecidingIs DEF ReplayInv, CurrentInv
<1>2. SaysOnce(whole, d) /\ whole.selection = SelectionOf(bars, d)
  BY <1>1, DecisionSaysOnce, DecisionIs
<1>3. /\ \A s \in whole.signals : s.available <= clock <=> s \in current.signals
      /\ current.signals \subseteq whole.signals
      /\ \A q \in whole.rejections : Settles(bars, q.symbol, d, clock) => \E r \in current.rejections : Alike(r, q)
  BY <1>1 DEF Follows
<1>4. CASE Settled(current)
  <2>1. SymbolsOf(whole.selection) \subseteq SymbolsOf(current.signals) \cup SymbolsOf(current.rejections)
    BY <1>1, <1>4 DEF Settled, Terminal
  <2>2. ASSUME NEW s \in whole.signals PROVE s \in current.signals
    <3>1. s.symbol \in SymbolsOf(whole.selection)
      BY <1>2 DEF SaysOnce, SoundDecision
    <3>2. QED
      BY <1>1, <1>2, <2>1, <3>1, FollowedOnce
  <2>3. ASSUME NEW q \in whole.rejections PROVE \E r \in current.rejections : Alike(r, q)
    <3>1. CASE q.symbol \in SymbolsOf(whole.selection)
      BY <1>1, <1>2, <2>1, <3>1, FollowedOnce
    <3>2. CASE q.symbol \notin SymbolsOf(whole.selection)
      <4>1. Settles(bars, q.symbol, d, clock)
        BY <1>2, <3>2 DEF Settles, SymbolsOf
      <4>2. QED
        BY <1>3, <4>1
    <3>3. QED
      BY <3>1, <3>2
  <2>4. QED
    BY <1>3, <2>2, <2>3
<1>5. CASE Later = {}
  <2>1. ASSUME NEW b \in bars, Cutoff(d) <= b.available, b.available < EntriesEnd(d)
        PROVE  b.available <= clock
    <3>1. b.available \in Int /\ Cutoff(d) \in Int
      BY <1>1, BarInSession, DayInOrder
    <3>2. SUFFICES ASSUME clock < b.available PROVE FALSE
      BY <1>1, <3>1
    <3>3. Cutoff(d) < b.available
      BY <1>1, <3>1, <3>2
    <3>4. b.available \in Later
      BY <2>1, <3>2, <3>3 DEF Later, Clocks
    <3>5. QED
      BY <1>5, <3>4
  <2>2. ASSUME NEW s \in whole.signals PROVE s \in current.signals
    <3>1. PICK b \in bars : b.available = s.available
      BY <1>1, SignalIsPublished
    <3>2. Cutoff(d) <= s.available /\ s.available < EntriesEnd(d)
      BY <1>2 DEF SaysOnce, SoundDecision
    <3>3. QED
      BY <1>3, <2>1, <3>1, <3>2
  <2>3. ASSUME NEW q \in whole.rejections PROVE Settles(bars, q.symbol, d, clock)
    <3>1. SUFFICES ASSUME NEW c \in SelectionOf(bars, d), c.symbol = q.symbol, ~(c.or_close <= c.or_open)
                   PROVE  Broke(bars, c, d, clock)
      BY DEF Settles
    <3>2. /\ Breakouts(bars, c, d) # {} /\ Decisive(bars, c, d) \in bars
          /\ Cutoff(d) <= Decisive(bars, c, d).available /\ Decisive(bars, c, d).available < EntriesEnd(d)
      BY <1>1, <3>1, RejectedBroke
    <3>3. QED
      BY <2>1, <3>2 DEF Broke
  <2>4. QED
    BY <1>3, <2>2, <2>3
<1>6. QED
  BY <1>4, <1>5

(* A decision read as the replay sees it.                                  *)
LEMMA SameIs ==
  ASSUME NEW p \in Decision, NEW q \in Decision,
         p.evaluable = q.evaluable, p.selection = q.selection, p.signals = q.signals,
         AsSeen(p.rejections) = AsSeen(q.rejections)
  PROVE  Same(p, q)
<1>1. ASSUME NEW x \in Decision
      PROVE  [x EXCEPT !.rejections = AsSeen(@)] =
               [evaluable |-> x.evaluable, selection |-> x.selection, signals |-> x.signals,
                rejections |-> AsSeen(x.rejections)]
  BY DEF Decision
<1>2. QED
  BY <1>1 DEF Same

(* A session that gets its decision leaves the others as they were.        *)
LEMMA DecisionTaken ==
  ASSUME ReplayInv, Undecided # {}, NEW e, SoundDecision(e, Deciding),
         decisions' = [decisions EXCEPT ![Deciding] = e]
  PROVE  /\ DecisionsInv' /\ Undecided' \subseteq Undecided \ {Deciding}
         /\ Deciding \in Sessions /\ decisions'[Deciding] = e
         /\ \A d \in Sessions : d # Deciding => decisions'[d] = decisions[d]
<1>1. Deciding \in Sessions
  BY DecidingIs
<1>2. e \in Decision /\ e # Unset
  BY ReplayAssumption DEF SoundDecision
<1>3. decisions \in [Sessions -> Decision \cup {Unset}]
  BY DEF ReplayInv, DecisionsInv
<1>4. decisions'[Deciding] = e /\ \A d \in Sessions : d # Deciding => decisions'[d] = decisions[d]
  BY <1>1, <1>3
<1>5. decisions' \in [Sessions -> Decision \cup {Unset}]
  BY <1>1, <1>2, <1>3
<1>6. ASSUME NEW d \in Sessions, decisions'[d] # Unset PROVE SoundDecision(decisions'[d], d)
  BY <1>4, <1>6 DEF ReplayInv, DecisionsInv
<1>7. Undecided' \subseteq Undecided \ {Deciding}
  BY <1>2, <1>4 DEF Undecided
<1>8. QED
  BY <1>1, <1>4, <1>5, <1>6, <1>7 DEF DecisionsInv

(* The end of a session's decision.                                        *)
LEMMA DecidedStep ==
  ASSUME ReplayInv, SessionDecided
  PROVE  ReplayInv' /\ Matches
<1> DEFINE d == Deciding
           whole == ProcessSession(bars, d)
           e == [current.initial EXCEPT !.signals = current.signals, !.rejections = current.rejections]
<1>1. /\ Undecided # {} /\ d \in Int /\ current \in Progress /\ SoundDataset(bars) /\ clock \in Int
      /\ clock < EntriesEnd(d)
      /\ current.initial.evaluable = whole.evaluable /\ current.initial.selection = whole.selection
      /\ Follows(current, bars, d, clock)
  BY DecidingIs DEF SessionDecided, ReplayInv, CurrentInv
<1>2. SaysOnce(whole, d) /\ whole \in Decision
  BY <1>1, DecisionSaysOnce DEF SaysOnce, SoundDecision
<1>3. /\ current.signals = whole.signals
      /\ \A q \in whole.rejections : \E r \in current.rejections : Alike(r, q)
  BY NothingLeft DEF SessionDecided
<1>4. /\ e \in Decision /\ e.evaluable = whole.evaluable /\ e.selection = whole.selection
      /\ e.signals = whole.signals /\ e.rejections = current.rejections
  <2>1. current.initial \in Decision /\ current.signals \subseteq Signal /\ current.rejections \subseteq Refusals
    BY <1>1 DEF Progress
  <2>2. e \in Decision
    BY <2>1 DEF Decision
  <2>3. /\ e.evaluable = current.initial.evaluable /\ e.selection = current.initial.selection
        /\ e.signals = current.signals /\ e.rejections = current.rejections
    BY <2>1 DEF Decision
  <2> HIDE DEF e
  <2>4. QED
    BY <1>1, <1>3, <2>2, <2>3
<1>5. /\ decisions' = [decisions EXCEPT ![d] = e] /\ current' = Unset
      /\ UNCHANGED <<bars, clock, raised>>
  BY DEF SessionDecided
<1> HIDE DEF e, whole
<1>6. SoundDecision(e, d)
  BY <1>2, <1>4 DEF SaysOnce, SoundDecision
<1>7. /\ DecisionsInv' /\ Undecided' \subseteq Undecided \ {d} /\ d \in Sessions /\ decisions'[d] = e
      /\ \A k \in Sessions : k # d => decisions'[k] = decisions[k]
  BY <1>1, <1>5, <1>6, DecisionTaken
<1>8. ASSUME NEW k \in Undecided' PROVE clock <= Cutoff(k)
  <2>1. k \in Undecided /\ k # d /\ d <= k
    BY <1>1, <1>7, DecidingIs
  <2>2. k \in Int /\ d < k
    BY <1>1, <2>1, ReplayAssumption DEF Undecided, Sessions
  <2>3. MarketClose(d) <= MarketOpen(k)
    BY <1>1, <2>2, DaysInOrder
  <2>4. /\ EntriesEnd(d) <= MarketClose(d) /\ EntriesEnd(d) \in Int /\ MarketClose(d) \in Int
        /\ MarketOpen(k) <= Cutoff(k) /\ MarketOpen(k) \in Int /\ Cutoff(k) \in Int
    <3>1. /\ EntriesEnd(d) <= FlattenAt(d) /\ FlattenAt(d) <= MarketClose(d)
          /\ EntriesEnd(d) \in Int /\ MarketClose(d) \in Int /\ FlattenAt(d) \in Int
      BY <1>1, DayInOrder
    <3>2. MarketOpen(k) <= Cutoff(k) /\ MarketOpen(k) \in Int /\ Cutoff(k) \in Int
      BY <2>2, DayInOrder
    <3>3. QED
      BY <3>1, <3>2
  <2>5. QED
    BY <1>1, <2>3, <2>4
<1>9. CurrentInv'
  BY <1>5, <1>8 DEF CurrentInv
<1>10. ReplayInv'
  BY <1>1, <1>5, <1>7, <1>9 DEF ReplayInv
<1>11. AsSeen(e.rejections) = AsSeen(whole.rejections)
  <2>1. whole.rejections \subseteq Refusals /\ e.rejections \subseteq Refusals
    BY <1>2, <1>4 DEF Decision
  <2>2. \A r \in e.rejections : \E q \in whole.rejections : Alike(r, q)
    BY <1>1, <1>4 DEF Follows, whole
  <2>3. \A q \in whole.rejections : \E r \in e.rejections : Alike(q, r)
    BY <1>3, <1>4 DEF Alike
  <2>4. AsSeen(e.rejections) \subseteq AsSeen(whole.rejections)
    BY <2>1, <2>2, AlikeAsSeen
  <2>5. AsSeen(whole.rejections) \subseteq AsSeen(e.rejections)
    BY <2>1, <2>3, AlikeAsSeen
  <2>6. QED
    BY <2>4, <2>5
<1>12. Same(e, whole)
  BY <1>2, <1>4, <1>11, SameIs
<1>13. Matches
  BY <1>5, <1>7, <1>12 DEF Matches, ReplayInv, whole
<1>14. QED
  BY <1>10, <1>13

(* One decision over the whole bundle.                                     *)
LEMMA AtOnceStep ==
  ASSUME ReplayInv, DecidedAtOnce, current = Unset
  PROVE  ReplayInv' /\ Matches
<1> DEFINE d == Deciding
           whole == ProcessSession(bars, d)
<1>1. Undecided # {} /\ d \in Int /\ SoundDataset(bars)
  BY DecidingIs DEF DecidedAtOnce, ReplayInv
<1>2. SaysOnce(whole, d) /\ SoundDecision(whole, d) /\ whole \in Decision
  BY <1>1, DecisionSaysOnce DEF SaysOnce, SoundDecision
<1>3. decisions' = [decisions EXCEPT ![d] = whole] /\ UNCHANGED <<bars, clock, current, raised>>
  BY DEF DecidedAtOnce
<1> HIDE DEF whole
<1>4. /\ DecisionsInv' /\ Undecided' \subseteq Undecided \ {d} /\ d \in Sessions /\ decisions'[d] = whole
      /\ \A k \in Sessions : k # d => decisions'[k] = decisions[k]
  BY <1>1, <1>2, <1>3, DecisionTaken
<1>5. CurrentInv'
  BY <1>3, <1>4 DEF CurrentInv, ReplayInv
<1>6. ReplayInv'
  BY <1>3, <1>4, <1>5 DEF ReplayInv
<1>7. Same(whole, whole)
  BY DEF Same
<1>8. QED
  BY <1>3, <1>4, <1>6, <1>7 DEF Matches, ReplayInv, whole

(* At the start nothing is decided.                                        *)
LEMMA ReplayStarts ==
  ASSUME SoundDataset(bars), clock = 0, current = Unset, decisions = [d \in Sessions |-> Unset], raised = Unset
  PROVE  ReplayInv
<1>1. DecisionsInv
  BY DEF DecisionsInv
<1>2. ASSUME NEW d \in Undecided PROVE clock <= Cutoff(d)
  <2>1. d \in Int /\ 0 < d
    BY ReplayAssumption DEF Undecided, Sessions
  <2>2. MarketClose(0) <= MarketOpen(d) /\ MarketOpen(d) <= Cutoff(d)
        /\ MarketOpen(d) \in Int /\ Cutoff(d) \in Int
    BY <2>1, DaysInOrder, DayInOrder
  <2>3. 0 <= MarketClose(0) /\ MarketClose(0) \in Int
    <3>1. MarketOpen(0) = 0
      BY ORBAssumption DEF MarketOpen
    <3>2. 0 \in Int
      OBVIOUS
    <3>3. /\ MarketOpen(0) <= Cutoff(0) /\ Cutoff(0) < EntriesEnd(0) /\ EntriesEnd(0) <= FlattenAt(0)
          /\ FlattenAt(0) <= MarketClose(0) /\ MarketClose(0) \in Int
          /\ Cutoff(0) \in Int /\ EntriesEnd(0) \in Int /\ FlattenAt(0) \in Int
      BY <3>2, DayInOrder
    <3>4. QED
      BY <3>1, <3>3
  <2>4. QED
    BY <2>2, <2>3
<1>3. QED
  BY <1>1, <1>2 DEF ReplayInv, CurrentInv

-----------------------------------------------------------------------------
(* The books.                                                              *)

(* What the books hold.                                                    *)
Orders   == [signal : Signal, sent : Int, decision : Approval]
Holdings     == [signal : Signal, sent : Int, units : Int, risk : Int, filled : Int, entry : Int,
             fee : Int, mark : Int]
Exits    == {"SCHEDULED_CLOSE", "POST_FILL_RISK_EXIT", "STOP_CONSERVATIVE"}
Trades   == [signal : Signal, sent : Int, entry_at : Int, exit_at : Int, units : Int, entry : Int,
             price : Int, reason : Exits, net : Int]

(* A record with the fields of the book.                                   *)
IsBook(b) ==
  b \in [cash : {b.cash}, pending : {b.pending}, positions : {b.positions}, trades : {b.trades},
         rejects : {b.rejects}, incidents : {b.incidents}]

(* The trade a position becomes.                                           *)
TradeOf(p, price, at, reason) ==
  LET exit == Executable(price, -1)
  IN  [signal |-> p.signal, sent |-> p.sent, entry_at |-> p.filled, exit_at |-> at,
       units |-> p.units, entry |-> p.entry, price |-> price, reason |-> reason,
       net |-> Net(p.units, p.entry, p.fee, exit, Fee(p.units, exit))]

(* A position is closed: it leaves, its proceeds come, it is a trade.      *)
LEMMA ClosedIs ==
  ASSUME NEW b, IsBook(b), NEW s, NEW price, NEW at, NEW reason
  PROVE  LET p == Of(b.positions, s)
             exit == Executable(price, -1)
             c == Closed(b, s, price, at, reason)
         IN  /\ IsBook(c) /\ c.pending = b.pending /\ c.rejects = b.rejects /\ c.incidents = b.incidents
             /\ c.positions = Without(b.positions, s)
             /\ c.cash = b.cash + p.units * exit - Fee(p.units, exit)
             /\ c.trades = b.trades \cup {TradeOf(p, price, at, reason)}
<1> DEFINE p == Of(b.positions, s)
           exit == Executable(price, -1)
           left == Without(b.positions, s)
           cash == b.cash + p.units * exit - Fee(p.units, exit)
           trades == b.trades \cup {TradeOf(p, price, at, reason)}
           c == [b EXCEPT !.positions = left, !.cash = cash, !.trades = trades]
<1>1. Closed(b, s, price, at, reason) = c
  BY DEF Closed, TradeOf
<1> HIDE DEF p, exit, left, cash, trades
<1>2. /\ IsBook(c) /\ c.pending = b.pending /\ c.rejects = b.rejects /\ c.incidents = b.incidents
      /\ c.positions = left /\ c.cash = cash /\ c.trades = trades
  BY DEF IsBook
<1> HIDE DEF c
<1>3. QED
  BY <1>1, <1>2 DEF p, exit, left, cash, trades

(* A rejection changes the rejections only.                                *)
LEMMA RejectedIs ==
  ASSUME NEW b, IsBook(b), NEW s, NEW reason
  PROVE  LET c == Rejected(b, s, reason)
         IN  /\ IsBook(c) /\ c.cash = b.cash /\ c.pending = b.pending /\ c.positions = b.positions
             /\ c.trades = b.trades /\ c.incidents = b.incidents
             /\ c.rejects = b.rejects \cup {[signal |-> s, reason |-> reason]}
  BY DEF IsBook, Rejected

(* An incident changes the incidents only.                                 *)
LEMMA IncidentIs ==
  ASSUME NEW b, IsBook(b), NEW s, NEW at, NEW reason
  PROVE  LET c == Incident(b, s, at, reason)
         IN  /\ IsBook(c) /\ c.cash = b.cash /\ c.pending = b.pending /\ c.positions = b.positions
             /\ c.trades = b.trades /\ c.rejects = b.rejects
  BY DEF IsBook, Incident

(* Prices with friction, fees and results are numbers.                     *)
LEMMA MoneyIsWhole ==
  ASSUME NEW u \in Int, NEW price \in Int
  PROVE  /\ Executable(price, 1) \in Int /\ Executable(price, -1) \in Int /\ Fee(u, price) \in Int
         /\ \A entry, fee, exit, paid \in Int : Net(u, entry, fee, exit, paid) \in Int
<1>1. Friction \in Int
  BY BacktestAssumption
<1>2. Executable(price, 1) \in Int /\ Executable(price, -1) \in Int
  BY <1>1 DEF Executable
<1>3. FixedPerSide \in Int /\ MinimumPerSide \in Int /\ PerUnitPerSide \in Int /\ HalfImpact \in Int
  BY RiskAssumption
<1>4. Commission(u) \in Int
  BY <1>3 DEF Commission, Larger
<1>5. Fee(u, price) \in Int
  BY <1>3, <1>4 DEF Fee
<1>6. \A entry, fee, exit, paid \in Int : Net(u, entry, fee, exit, paid) \in Int
  BY DEF Net
<1>7. QED
  BY <1>2, <1>5, <1>6

(* The only entry of a symbol is the one that is found.                    *)
LEMMA OnlyOne ==
  ASSUME NEW S, NEW x \in S, \A y \in S : y.signal.symbol = x.signal.symbol => y = x
  PROVE  /\ Of(S, x.signal.symbol) = x
         /\ Without(S, x.signal.symbol) = S \ {x}
  BY DEF Of, Without

-----------------------------------------------------------------------------
(* Sums over the books.                                                    *)
Gained(T) == SumFunctionOnSet([t \in T |-> t.net], T)
Bound(P)  == SumFunctionOnSet([p \in P |-> Spent(p)], P)

(* What a position cost is a number.                                       *)
LEMMA SpentIsWhole == ASSUME NEW p \in Holdings PROVE Spent(p) \in Int
  BY DEF Holdings, Spent

(* A new trade adds its net result.                                        *)
LEMMA GainedGrows ==
  ASSUME NEW T, IsFiniteSet(T), T \subseteq Trades, NEW t \in Trades, t \notin T
  PROVE  Gained(T) \in Int /\ Gained(T \cup {t}) = Gained(T) + t.net
<1> DEFINE U == T \cup {t}
           g == [x \in U |-> x.net]
           h == [x \in T |-> x.net]
<1>1. \A x \in U : x.net \in Int
  BY DEF Trades
<1>2. (\A x \in U : g[x] \in Int) /\ (\A x \in T : h[x] \in Int /\ g[x] = h[x]) /\ g[t] = t.net
  BY <1>1
<1>3. Gained(U) = SumFunctionOnSet(g, U) /\ Gained(T) = SumFunctionOnSet(h, T)
  BY DEF Gained
<1> HIDE DEF g, h
<1>4. SumFunctionOnSet(g, U) = g[t] + SumFunctionOnSet(g, T)
  BY <1>2, SumAdd
<1>5. SumFunctionOnSet(g, T) = SumFunctionOnSet(h, T) /\ SumFunctionOnSet(h, T) \in Int
  BY <1>2, SumCongruent, SumType
<1>6. g[t] \in Int
  BY <1>2
<1>7. QED
  BY <1>2, <1>3, <1>4, <1>5, <1>6

(* A new position adds its cost.                                           *)
LEMMA BoundGrows ==
  ASSUME NEW P, IsFiniteSet(P), P \subseteq Holdings, NEW p \in Holdings, p \notin P
  PROVE  Bound(P) \in Int /\ Bound(P \cup {p}) = Bound(P) + Spent(p)
<1> DEFINE U == P \cup {p}
           g == [x \in U |-> Spent(x)]
           h == [x \in P |-> Spent(x)]
<1>1. \A x \in U : Spent(x) \in Int
  BY SpentIsWhole
<1>2. (\A x \in U : g[x] \in Int) /\ (\A x \in P : h[x] \in Int /\ g[x] = h[x]) /\ g[p] = Spent(p)
  BY <1>1
<1>3. Bound(U) = SumFunctionOnSet(g, U) /\ Bound(P) = SumFunctionOnSet(h, P)
  BY DEF Bound
<1> HIDE DEF g, h
<1>4. SumFunctionOnSet(g, U) = g[p] + SumFunctionOnSet(g, P)
  BY <1>2, SumAdd
<1>5. SumFunctionOnSet(g, P) = SumFunctionOnSet(h, P) /\ SumFunctionOnSet(h, P) \in Int
  BY <1>2, SumCongruent, SumType
<1>6. g[p] \in Int
  BY <1>2
<1>7. QED
  BY <1>2, <1>3, <1>4, <1>5, <1>6

(* A position that leaves takes its cost with it.                          *)
LEMMA BoundShrinks ==
  ASSUME NEW P, IsFiniteSet(P), P \subseteq Holdings, NEW p \in P
  PROVE  Bound(P) \in Int /\ Bound(P \ {p}) = Bound(P) - Spent(p)
<1> DEFINE Q == P \ {p}
<1>1. IsFiniteSet(Q) /\ Q \subseteq Holdings /\ p \in Holdings /\ p \notin Q /\ Q \cup {p} = P
  BY FS_Subset
<1> HIDE DEF Q
<1>2. Bound(Q) \in Int /\ Bound(P) = Bound(Q) + Spent(p)
  BY <1>1, BoundGrows
<1>3. QED
  BY <1>1, <1>2, SpentIsWhole DEF Q

-----------------------------------------------------------------------------
(* The invariant of the trading.                                           *)

(* The three kinds of events of a session.                                 *)
OpenOf(b)  == [kind |-> "open", at |-> b.at, order |-> 1, rank |-> 0, symbol |-> b.symbol, item |-> b]
CloseOf(b) == [kind |-> "close", at |-> ClosedAt(b), order |-> 0, rank |-> 0, symbol |-> b.symbol,
               item |-> b]
EntryOf(s) == [kind |-> "signal", at |-> s.available + Latency, order |-> 2, rank |-> s.rank,
               symbol |-> s.symbol, item |-> s]
Today(d)   == {b \in bars : b.day = d /\ b.symbol \in Signalled}

(* What was decided for a session.                                         *)
Decided(s, d) == d \in Sessions /\ decisions[d] # Unset /\ s \in decisions[d].signals

(* The books are sets of orders, positions and trades, finite.             *)
Typed(b) ==
  /\ IsBook(b) /\ b.cash \in Int
  /\ b.pending \subseteq Orders /\ b.positions \subseteq Holdings /\ b.trades \subseteq Trades
  /\ IsFiniteSet(b.pending) /\ IsFiniteSet(b.positions) /\ IsFiniteSet(b.trades)

(* The cash is what the trades and the open positions left of the capital. *)
Balanced(b) == b.cash = Allocated + Gained(b.trades) - Bound(b.positions)

(* A symbol is pending or held, and once.                                  *)
OnePer(b) ==
  /\ \A x, y \in b.pending : x.signal.symbol = y.signal.symbol => x = y
  /\ \A x, y \in b.positions : x.signal.symbol = y.signal.symbol => x = y
  /\ \A x \in b.pending, y \in b.positions : x.signal.symbol # y.signal.symbol

(* The places a signal can be in, and exactly one of six facts.            *)
Coming(evs, s) == \E e \in evs : e.kind = "signal" /\ e.item = s
In(set, s) == \E x \in set : x.signal = s
One(a, b, c, d, e, f) ==
  /\ a \/ b \/ c \/ d \/ e \/ f
  /\ a => ~b /\ ~c /\ ~d /\ ~e /\ ~f
  /\ b => ~c /\ ~d /\ ~e /\ ~f
  /\ c => ~d /\ ~e /\ ~f
  /\ d => ~e /\ ~f
  /\ e => ~f
Placed(b, evs, n) ==
  \A d \in Sessions : decisions[d] # Unset =>
    \A s \in decisions[d].signals :
      One(s.day > n, Coming(evs, s), In(b.pending, s), In(b.positions, s), In(b.trades, s), In(b.rejects, s))

(* A bar whose event was not handled yet.                                  *)
Ahead(b, e, evs, n) == b.day > n \/ (b.day = n /\ (n \in Sessions => e \in evs))

(* A pending order: submitted after its signal, and the opens after that   *)
(* are still to come.                                                      *)
SentHonestly(o, evs, n) ==
  /\ Decided(o.signal, n)
  /\ o.signal.available < o.sent /\ o.sent < EntriesEnd(n)
  /\ \A e \in evs : o.sent <= e.at
  /\ \A b \in bars : b.symbol = o.signal.symbol /\ b.at > o.sent => Ahead(b, OpenOf(b), evs, n)

(* A fill at the first open after the submission.                          *)
FilledHonestly(x, at) ==
  /\ x.signal.available < x.sent /\ x.sent < at /\ at < EntriesEnd(x.signal.day)
  /\ at = Min({t \in OpensOf(x.signal.symbol) : t > x.sent})

(* A position: filled honestly, with no bar handled that would have        *)
(* stopped it or closed it by the schedule.                                *)
HeldHonestly(p, evs, n) ==
  /\ Decided(p.signal, p.signal.day) /\ p.signal.day <= n
  /\ FilledHonestly(p, p.filled)
  /\ \A e \in evs : p.filled <= e.at
  /\ \A b \in bars :
       b.symbol = p.signal.symbol /\ b.at >= p.filled /\ b.low <= p.signal.stop /\ CloseHappens(b)
         => Ahead(b, CloseOf(b), evs, n)
  /\ \A b \in bars :
       b.symbol = p.signal.symbol /\ b.at >= FlattenAt(p.signal.day) => Ahead(b, OpenOf(b), evs, n)

(* A trade, as FillsAreHonest describes it.                                *)
TradedHonestly(t) ==
  /\ FilledHonestly(t, t.entry_at) /\ t.entry_at <= t.exit_at
  /\ t.reason = "STOP_CONSERVATIVE" =>
       \E b \in bars : Touches(b, t) /\ ClosedAt(b) = t.exit_at /\ t.price = Min({b.open, t.signal.stop})
  /\ t.reason = "SCHEDULED_CLOSE" => t.exit_at >= FlattenAt(t.signal.day)
  /\ \A b \in bars : Touches(b, t) =>
       \/ t.exit_at < ClosedAt(b) \/ t.exit_at <= b.at
       \/ t.exit_at = ClosedAt(b) /\ t.reason = "STOP_CONSERVATIVE"
  /\ \A at \in OpensOf(t.signal.symbol) : at >= FlattenAt(t.signal.day) => t.exit_at <= at

(* Everything in the books is honest.                                      *)
Honest(b, evs, n) ==
  /\ \A o \in b.pending : SentHonestly(o, evs, n)
  /\ \A p \in b.positions : HeldHonestly(p, evs, n)
  /\ \A t \in b.trades : TradedHonestly(t)

(* While an order is pending every position is of its session.             *)
OnlyToday(b) == b.pending # {} => \A p \in b.positions, o \in b.pending : p.signal.day = o.signal.day

(* The events left are of the session and none precedes a handled one.     *)
HandledFirst(evs, n) ==
  /\ evs \subseteq (IF n \in Sessions THEN EventsOf(n) ELSE {})
  /\ n \in Sessions => \A f \in EventsOf(n) \ evs, e \in evs : f.at <= e.at

(* A submitted signal is not an event any more.                            *)
SeenBefore(done, evs, n) == \A s \in done : s.day \in Int /\ s.day <= n /\ ~Coming(evs, s)

(* What holds of the books, given the events left of the session.          *)
Booked(b, evs, n) ==
  Typed(b) /\ Balanced(b) /\ OnePer(b) /\ Placed(b, evs, n) /\ Honest(b, evs, n) /\ OnlyToday(b)

(* The invariant: the books, what is left of the session, and nothing      *)
(* traded before every session is decided.                                 *)
TradingInv ==
  /\ session \in 0..(Days + 1) /\ reference \in Int /\ realized_start \in Int
  /\ session # 0 => Undecided = {}
  /\ ~replayed => current = Unset
  /\ session = 0 => /\ book.pending = {} /\ book.positions = {} /\ book.trades = {}
                    /\ book.rejects = {} /\ seen = {}
  /\ HandledFirst(events, session) /\ SeenBefore(seen, events, session)
  /\ Booked(book, events, session)

-----------------------------------------------------------------------------
(* What moves an entry keeps the books.                                    *)

(* Whole products.                                                         *)
LEMMA ProductOfGain ==
  ASSUME NEW u \in Int, NEW x \in Int, NEW y \in Int
  PROVE  u * x \in Int /\ u * y \in Int /\ u * (x - y) = u * x - u * y
  OBVIOUS

(* A closed position is a trade, and its proceeds go to cash.              *)
LEMMA ClosingKeeps ==
  ASSUME NEW b, Typed(b), Balanced(b), OnePer(b), NEW p \in b.positions,
         NEW price \in Int, NEW at \in Int, NEW reason \in Exits,
         \A t \in b.trades : t.signal # p.signal
  PROVE  LET c == Closed(b, p.signal.symbol, price, at, reason)
             t == TradeOf(p, price, at, reason)
         IN  /\ Typed(c) /\ Balanced(c) /\ OnePer(c) /\ t \in Trades
             /\ c.pending = b.pending /\ c.rejects = b.rejects
             /\ c.positions = b.positions \ {p} /\ c.trades = b.trades \cup {t}
<1> DEFINE c == Closed(b, p.signal.symbol, price, at, reason)
           t == TradeOf(p, price, at, reason)
           exit == Executable(price, -1)
           fee == Fee(p.units, exit)
<1>1. Of(b.positions, p.signal.symbol) = p /\ Without(b.positions, p.signal.symbol) = b.positions \ {p}
  BY OnlyOne DEF OnePer
<1>2. /\ IsBook(c) /\ c.pending = b.pending /\ c.rejects = b.rejects
      /\ c.positions = b.positions \ {p} /\ c.trades = b.trades \cup {t}
      /\ c.cash = b.cash + p.units * exit - fee
  BY <1>1, ClosedIs DEF Typed
<1>3. p \in Holdings
  BY DEF Typed
<1>4. /\ p.signal \in Signal /\ p.sent \in Int /\ p.units \in Int /\ p.filled \in Int
      /\ p.entry \in Int /\ p.fee \in Int
  BY <1>3 DEF Holdings
<1>5. exit \in Int /\ fee \in Int
  BY <1>4, MoneyIsWhole
<1>6. t.net = p.units * (exit - p.entry) - p.fee - fee /\ t.signal = p.signal
  BY DEF TradeOf, Net
<1>7. t \in Trades
  BY <1>4, <1>5, MoneyIsWhole DEF TradeOf, Trades
<1> HIDE DEF t, c, exit, fee
<1>8. t \notin b.trades
  BY <1>6
<1>9. IsFiniteSet(b.positions \ {p}) /\ IsFiniteSet(b.trades \cup {t})
  <2>1. IsFiniteSet(b.positions) /\ IsFiniteSet(b.trades) /\ b.positions \ {p} \subseteq b.positions
    BY DEF Typed
  <2>2. IsFiniteSet(b.positions \ {p})
    BY <2>1, FS_Subset
  <2>3. IsFiniteSet(b.trades \cup {t})
    BY <2>1, FS_AddElement
  <2>4. QED
    BY <2>2, <2>3
<1>10. p.units * exit \in Int
  BY <1>4, <1>5
<1>11. Typed(c)
  <2>1. c.cash \in Int
    BY <1>2, <1>5, <1>10 DEF Typed
  <2>2. QED
    BY <1>2, <1>7, <1>9, <2>1 DEF Typed
<1>12. Gained(c.trades) = Gained(b.trades) + t.net /\ Gained(b.trades) \in Int
  BY <1>2, <1>7, <1>8, GainedGrows DEF Typed
<1>13. Bound(c.positions) = Bound(b.positions) - Spent(p) /\ Bound(b.positions) \in Int
  BY <1>2, BoundShrinks DEF Typed
<1>14. Balanced(c)
  <2>1. p.units * exit \in Int /\ p.units * p.entry \in Int
        /\ p.units * (exit - p.entry) = p.units * exit - p.units * p.entry
    BY <1>4, <1>5, ProductOfGain
  <2> DEFINE in == p.units * exit
             out == p.units * p.entry
  <2>2. t.net = in - out - p.fee - fee /\ Spent(p) = out + p.fee /\ in \in Int /\ out \in Int
    BY <1>6, <2>1 DEF Spent
  <2>3. c.cash = b.cash + in - fee
    BY <1>2
  <2> HIDE DEF in, out
  <2>4. b.cash = Allocated + Gained(b.trades) - Bound(b.positions) /\ Allocated \in Int
    BY RiskAssumption DEF Balanced
  <2>5. c.cash = Allocated + Gained(c.trades) - Bound(c.positions)
    BY <1>4, <1>5, <1>12, <1>13, <2>2, <2>3, <2>4
  <2>6. QED
    BY <2>5 DEF Balanced
<1>15. OnePer(c)
  BY <1>2 DEF OnePer
<1>16. QED
  BY <1>2, <1>7, <1>11, <1>14, <1>15 DEF c, t

(* What is refused changes nothing but the list of refusals.               *)
LEMMA RefusingKeeps ==
  ASSUME NEW b, Typed(b), Balanced(b), OnePer(b), NEW c, IsBook(c), c.cash = b.cash,
         c.positions = b.positions, c.trades = b.trades, c.pending \subseteq b.pending
  PROVE  Typed(c) /\ Balanced(c) /\ OnePer(c)
<1>1. IsFiniteSet(c.pending)
  BY FS_Subset DEF Typed
<1>2. Typed(c)
  BY <1>1 DEF Typed
<1>3. QED
  BY <1>2 DEF Balanced, OnePer

(* A new order of a symbol that is neither pending nor held.               *)
LEMMA OrderingKeeps ==
  ASSUME NEW b, Typed(b), Balanced(b), OnePer(b), NEW o \in Orders,
         ~Holds(b.pending, o.signal.symbol), ~Holds(b.positions, o.signal.symbol),
         NEW c, IsBook(c), c.cash = b.cash, c.positions = b.positions, c.trades = b.trades,
         c.pending = b.pending \cup {o}
  PROVE  Typed(c) /\ Balanced(c) /\ OnePer(c)
<1>1. IsFiniteSet(c.pending)
  BY FS_AddElement DEF Typed
<1>2. Typed(c)
  BY <1>1 DEF Typed
<1>3. OnePer(c)
  BY DEF OnePer, Holds
<1>4. QED
  BY <1>2, <1>3 DEF Balanced

(* A pending order that fills: its cost leaves the cash.                   *)
LEMMA HoldingKeeps ==
  ASSUME NEW b, Typed(b), Balanced(b), OnePer(b), NEW o \in b.pending, NEW p \in Holdings,
         p.signal = o.signal, NEW c, IsBook(c), c.cash = b.cash - Spent(p),
         c.pending = b.pending \ {o}, c.positions = b.positions \cup {p}, c.trades = b.trades
  PROVE  Typed(c) /\ Balanced(c) /\ OnePer(c)
<1>1. IsFiniteSet(c.pending) /\ IsFiniteSet(c.positions)
  <2>1. IsFiniteSet(b.pending) /\ IsFiniteSet(b.positions) /\ c.pending \subseteq b.pending
    BY DEF Typed
  <2>2. IsFiniteSet(c.pending)
    BY <2>1, FS_Subset
  <2>3. IsFiniteSet(c.positions)
    BY <2>1, FS_AddElement
  <2>4. QED
    BY <2>2, <2>3
<1>2. p \notin b.positions
  BY DEF OnePer
<1>3. Spent(p) \in Int
  BY SpentIsWhole
<1>4. Bound(c.positions) = Bound(b.positions) + Spent(p) /\ Bound(b.positions) \in Int
  BY <1>2, BoundGrows DEF Typed
<1>5. Typed(c)
  BY <1>1, <1>3 DEF Typed
<1>6. Balanced(c)
  <2>1. Gained(b.trades) \in Int
    <3>1. IsFiniteSet(b.trades) /\ \A t \in b.trades : [x \in b.trades |-> x.net][t] \in Int
      BY DEF Typed, Trades
    <3>2. QED
      BY <3>1, SumType DEF Gained
  <2>2. b.cash = Allocated + Gained(b.trades) - Bound(b.positions) /\ Allocated \in Int
    BY RiskAssumption DEF Balanced
  <2>3. QED
    BY <1>3, <1>4, <2>1, <2>2 DEF Balanced
<1>7. OnePer(c)
  BY DEF OnePer
<1>8. QED
  BY <1>5, <1>6, <1>7

(* A new mark changes neither what a position cost nor which symbol it is. *)
LEMMA MarkingKeeps ==
  ASSUME NEW b, Typed(b), Balanced(b), OnePer(b), NEW p \in b.positions, NEW q \in Holdings,
         q.signal = p.signal, Spent(q) = Spent(p), NEW c, IsBook(c), c.cash = b.cash,
         c.pending = b.pending, c.positions = (b.positions \ {p}) \cup {q}, c.trades = b.trades
  PROVE  Typed(c) /\ Balanced(c) /\ OnePer(c)
<1> DEFINE P == b.positions \ {p}
<1>1. IsFiniteSet(P) /\ P \subseteq Holdings
  <2>1. IsFiniteSet(b.positions) /\ P \subseteq b.positions /\ b.positions \subseteq Holdings
    BY DEF Typed
  <2>2. QED
    BY <2>1, FS_Subset
<1>2. IsFiniteSet(P \cup {q})
  BY <1>1, FS_AddElement
<1>3. q \notin P
  BY DEF OnePer
<1>4. Typed(c)
  BY <1>1, <1>2 DEF Typed
<1>5. Bound(P) = Bound(b.positions) - Spent(p) /\ Bound(b.positions) \in Int
  BY BoundShrinks DEF Typed
<1>6. Bound(c.positions) = Bound(P) + Spent(q) /\ Bound(P) \in Int
  <2> HIDE DEF P
  <2>1. Bound(P) \in Int /\ Bound(P \cup {q}) = Bound(P) + Spent(q)
    BY <1>1, <1>3, BoundGrows
  <2>2. QED
    BY <2>1 DEF P
<1>7. Spent(q) \in Int
  BY SpentIsWhole
<1>8. Balanced(c)
  <2>1. Bound(c.positions) = Bound(b.positions)
    BY <1>5, <1>6, <1>7
  <2>2. QED
    BY <2>1 DEF Balanced
<1>9. OnePer(c)
  BY DEF OnePer
<1>10. QED
  BY <1>4, <1>8, <1>9

-----------------------------------------------------------------------------
(* The events of a session.                                                *)

(* The fields of the three kinds of events.                                *)
LEMMA EventFields ==
  ASSUME NEW x
  PROVE  /\ OpenOf(x).kind = "open" /\ OpenOf(x).at = x.at /\ OpenOf(x).order = 1
         /\ OpenOf(x).item = x /\ OpenOf(x).symbol = x.symbol
         /\ CloseOf(x).kind = "close" /\ CloseOf(x).at = ClosedAt(x) /\ CloseOf(x).order = 0
         /\ CloseOf(x).item = x /\ CloseOf(x).symbol = x.symbol
         /\ EntryOf(x).kind = "signal" /\ EntryOf(x).at = x.available + Latency
         /\ EntryOf(x).order = 2 /\ EntryOf(x).item = x /\ EntryOf(x).symbol = x.symbol
  BY DEF OpenOf, CloseOf, EntryOf

(* An event is the open or the close of a bar, or the entry of a signal.   *)
LEMMA EventsAre ==
  ASSUME NEW d
  PROVE  EventsOf(d) = {OpenOf(b) : b \in Today(d)}
                         \cup {CloseOf(b) : b \in {b \in Today(d) : CloseHappens(b)}}
                         \cup {EntryOf(s) : s \in decisions[d].signals}
  BY DEF EventsOf, OpenOf, CloseOf, EntryOf, Today

(* Which event it is shows in its kind.                                    *)
LEMMA EventIs ==
  ASSUME NEW d, NEW e \in EventsOf(d)
  PROVE  \/ e.kind = "open" /\ e.item \in Today(d) /\ e = OpenOf(e.item)
         \/ e.kind = "close" /\ e.item \in Today(d) /\ CloseHappens(e.item) /\ e = CloseOf(e.item)
         \/ e.kind = "signal" /\ e.item \in decisions[d].signals /\ e = EntryOf(e.item)
<1>1. \/ \E b \in Today(d) : e = OpenOf(b)
      \/ \E b \in Today(d) : CloseHappens(b) /\ e = CloseOf(b)
      \/ \E s \in decisions[d].signals : e = EntryOf(s)
  BY EventsAre
<1>2. ASSUME NEW b \in Today(d), e = OpenOf(b) PROVE e.kind = "open" /\ e.item = b
  BY <1>2, EventFields
<1>3. ASSUME NEW b \in Today(d), e = CloseOf(b) PROVE e.kind = "close" /\ e.item = b
  BY <1>3, EventFields
<1>4. ASSUME NEW s \in decisions[d].signals, e = EntryOf(s) PROVE e.kind = "signal" /\ e.item = s
  BY <1>4, EventFields
<1>5. QED
  BY <1>1, <1>2, <1>3, <1>4

(* The close of a bar comes after its open and within the session.         *)
LEMMA CloseComesLater ==
  ASSUME SoundDataset(bars), NEW b \in bars
  PROVE  /\ ClosedAt(b) \in Int /\ b.at < ClosedAt(b)
         /\ CloseHappens(b) /\ replayed \in BOOLEAN => ClosedAt(b) <= MarketClose(b.day)
<1>1. /\ b.at \in Int /\ b.available \in Int /\ EndTime(b) \in Int /\ b.at < EndTime(b)
      /\ EndTime(b) <= b.available /\ EndTime(b) <= MarketClose(b.day)
  BY BarInSession
<1>2. QED
  BY <1>1 DEF ClosedAt, CloseHappens

(* When the events of a session come.                                      *)
LEMMA EventTimes ==
  ASSUME SoundDataset(bars), DecisionsInv, replayed \in BOOLEAN,
         NEW d \in Sessions, decisions[d] # Unset, NEW e \in EventsOf(d)
  PROVE  /\ e.at \in Int /\ MarketOpen(d) <= e.at
         /\ e.kind # "signal" => e.at <= MarketClose(d)
<1>1. d \in Int /\ Latency \in Nat
  BY ReplayAssumption, BacktestAssumption DEF Sessions
<1>2. CASE e.kind = "signal"
  <2>1. e.item \in decisions[d].signals /\ e.at = e.item.available + Latency
    <3>1. e.item \in decisions[d].signals /\ e = EntryOf(e.item)
      BY <1>2, EventIs
    <3>2. EntryOf(e.item).at = e.item.available + Latency
      BY EventFields
    <3>3. QED
      BY <3>1, <3>2
  <2>2. e.item \in Signal /\ Cutoff(d) <= e.item.available
    BY <2>1 DEF DecisionsInv, SoundDecision
  <2>3. e.item.available \in Int
    BY <2>2 DEF Signal
  <2>4. MarketOpen(d) \in Int /\ Cutoff(d) \in Int /\ MarketOpen(d) <= Cutoff(d)
    BY <1>1, DayInOrder
  <2>5. QED
    BY <1>1, <1>2, <2>1, <2>2, <2>3, <2>4
<1>3. CASE e.kind # "signal"
  <2>1. e.item \in bars /\ e.item.day = d
        /\ (e.at = e.item.at \/ (e.at = ClosedAt(e.item) /\ CloseHappens(e.item)))
    <3>1. /\ e.item \in Today(d)
          /\ \/ e = OpenOf(e.item)
             \/ CloseHappens(e.item) /\ e = CloseOf(e.item)
      BY <1>3, EventIs
    <3>2. e.at = e.item.at \/ (e.at = ClosedAt(e.item) /\ CloseHappens(e.item))
      <4>1. OpenOf(e.item).at = e.item.at
        BY EventFields
      <4>2. CloseOf(e.item).at = ClosedAt(e.item)
        BY EventFields
      <4>3. QED
        BY <3>1, <4>1, <4>2
    <3>3. QED
      BY <3>1, <3>2 DEF Today
  <2>2. /\ MarketOpen(d) <= e.item.at /\ e.item.at < MarketClose(d) /\ e.item.at \in Int
    BY <2>1, BarInSession
  <2>3. /\ ClosedAt(e.item) \in Int /\ e.item.at < ClosedAt(e.item)
        /\ (CloseHappens(e.item) => ClosedAt(e.item) <= MarketClose(d))
    BY <2>1, CloseComesLater
  <2>4. MarketOpen(d) \in Int /\ MarketClose(d) \in Int
    BY <1>1, DayInOrder
  <2>5. QED
    BY <2>1, <2>2, <2>3, <2>4
<1>4. QED
  BY <1>2, <1>3

(* The events of a session are finitely many.                              *)
LEMMA EventsAreFinite ==
  ASSUME SoundDataset(bars), DecisionsInv, NEW d \in Sessions, decisions[d] # Unset
  PROVE  IsFiniteSet(EventsOf(d))
<1> DEFINE closing == {b \in Today(d) : CloseHappens(b)}
           signals == decisions[d].signals
           opened == [b \in Today(d) |-> OpenOf(b)]
           closed == [b \in closing |-> CloseOf(b)]
           entered == [s \in signals |-> EntryOf(s)]
<1>1. IsFiniteSet(bars) /\ Today(d) \subseteq bars /\ closing \subseteq bars /\ IsFiniteSet(signals)
  BY DEF SoundDataset, Today, DecisionsInv, SoundDecision
<1>2. EventsOf(d) = ({OpenOf(b) : b \in Today(d)} \cup {CloseOf(b) : b \in closing})
                      \cup {EntryOf(s) : s \in signals}
  BY EventsAre
<1>3. /\ {OpenOf(b) : b \in Today(d)} = {opened[b] : b \in Today(d)}
      /\ {CloseOf(b) : b \in closing} = {closed[b] : b \in closing}
      /\ {EntryOf(s) : s \in signals} = {entered[s] : s \in signals}
  OBVIOUS
<1> HIDE DEF closing, signals, opened, closed, entered
<1>4. IsFiniteSet(Today(d)) /\ IsFiniteSet(closing)
  <2>1. IsFiniteSet(Today(d))
    BY <1>1, FS_Subset
  <2>2. IsFiniteSet(closing)
    BY <1>1, FS_Subset
  <2>3. QED
    BY <2>1, <2>2
<1>5. IsFiniteSet({opened[b] : b \in Today(d)})
  BY <1>4, ImageIsFinite
<1>6. IsFiniteSet({closed[b] : b \in closing})
  BY <1>4, ImageIsFinite
<1>7. IsFiniteSet({entered[s] : s \in signals})
  BY <1>1, ImageIsFinite
<1> DEFINE A == {opened[b] : b \in Today(d)}
           B == {closed[b] : b \in closing}
           C == {entered[s] : s \in signals}
<1>8. EventsOf(d) = (A \cup B) \cup C /\ IsFiniteSet(A) /\ IsFiniteSet(B) /\ IsFiniteSet(C)
  BY <1>2, <1>3, <1>5, <1>6, <1>7
<1> HIDE DEF A, B, C
<1>9. IsFiniteSet(A \cup B)
  BY <1>8, FS_Union
<1>10. QED
  BY <1>8, <1>9, FS_Union

(* An event that is due is one of the earliest, and one of the first kind  *)
(* among those.                                                            *)
LEMMA DueIs ==
  ASSUME IsFiniteSet(events), \A e \in events : e.at \in Int, NEW e \in Due
  PROVE  /\ e \in events /\ \A f \in events : e.at <= f.at /\ (f.at = e.at => NotAfter(e, f))
<1> DEFINE times == {f.at : f \in events}
           when == [f \in events |-> f.at]
<1>1. e \in events /\ e.at = Min(times) /\ \A f \in events : f.at = Min(times) => NotAfter(e, f)
  BY DEF Due
<1>2. IsFiniteSet(times)
  <2>1. IsFiniteSet({when[f] : f \in events})
    <3> HIDE DEF when
    <3>1. QED
      BY ImageIsFinite
  <2>2. times = {when[f] : f \in events}
    OBVIOUS
  <2>3. QED
    BY <2>1, <2>2
<1>3. times \subseteq Int /\ times # {} /\ \A f \in events : f.at \in times
  BY <1>1
<1> HIDE DEF times
<1>4. \A t \in times : Min(times) <= t
  BY <1>2, <1>3, Extremes
<1>5. QED
  BY <1>1, <1>3, <1>4

(* Later days come later, and what comes late enough is of a later day.    *)
LEMMA LaterDays ==
  ASSUME SoundDataset(bars), NEW b \in bars, NEW n \in Int
  PROVE  /\ b.day > n => MarketClose(n) <= b.at /\ MarketOpen(n + 1) <= b.at
         /\ MarketOpen(n) <= b.at => b.day >= n
<1>1. b.day \in Int /\ b.at \in Int /\ MarketOpen(b.day) <= b.at /\ b.at < MarketClose(b.day)
  BY BarInSession
<1>2. /\ MarketOpen(b.day) \in Int /\ MarketClose(b.day) \in Int /\ MarketOpen(n) \in Int
      /\ MarketClose(n) \in Int /\ MarketOpen(n + 1) \in Int
  <2>1. MarketOpen(b.day) \in Int /\ MarketClose(b.day) \in Int
    BY <1>1, DayInOrder
  <2>2. MarketOpen(n) \in Int /\ MarketClose(n) \in Int /\ MarketOpen(n + 1) \in Int
    BY DayInOrder
  <2>3. QED
    BY <2>1, <2>2
<1>3. b.day > n => MarketOpen(n + 1) <= MarketOpen(b.day) /\ MarketClose(n) <= MarketOpen(b.day)
  BY <1>1, DaysInOrder
<1>4. b.day < n => MarketClose(b.day) <= MarketOpen(n)
  BY <1>1, DaysInOrder
<1>5. QED
  BY <1>1, <1>2, <1>3, <1>4

(* What was decided is typed, of its session and inside its entry window.  *)
LEMMA DecidedIs ==
  ASSUME DecisionsInv, NEW d, NEW s, Decided(s, d)
  PROVE  /\ d \in Int /\ s \in Signal /\ s.day = d /\ s.symbol \in Signalled
         /\ s.available \in Int /\ s.stop \in Int /\ s.reference \in Int /\ s.expires \in Int
         /\ Cutoff(d) <= s.available
         /\ \A u : Decided(u, d) /\ u.symbol = s.symbol => u = s
<1>1. d \in Sessions /\ d \in Int /\ decisions[d] # Unset /\ s \in decisions[d].signals
  BY ReplayAssumption DEF Decided, Sessions
<1>2. SoundDecision(decisions[d], d)
  BY <1>1 DEF DecisionsInv
<1>3. s \in Signal /\ s.day = d /\ Cutoff(d) <= s.available
  BY <1>1, <1>2 DEF SoundDecision
<1>4. s.symbol \in Signalled
  BY <1>1 DEF Signalled, SymbolsOf
<1>5. QED
  BY <1>1, <1>2, <1>3, <1>4 DEF SoundDecision, Decided, Signal

-----------------------------------------------------------------------------
(* A step of the trading leaves the dataset and the decisions alone.       *)
LEMMA HonestCarries ==
  ASSUME UNCHANGED <<bars, decisions, replayed>>, Honest(book', events', session')
  PROVE  Honest(book, events, session)'
<1>1. bars' = bars /\ decisions' = decisions /\ replayed' = replayed
  OBVIOUS
<1>2. ASSUME NEW b PROVE ClosedAt(b)' = ClosedAt(b) /\ (CloseHappens(b)' <=> CloseHappens(b))
  BY <1>1 DEF ClosedAt, CloseHappens
<1>3. ASSUME NEW s PROVE OpensOf(s)' = OpensOf(s)
  BY <1>1 DEF OpensOf
<1>4. ASSUME NEW b PROVE CloseOf(b)' = CloseOf(b)
  BY <1>2 DEF CloseOf
<1>5. \A s, d : Decided(s, d)' <=> Decided(s, d)
  BY <1>1 DEF Decided
<1>6. ASSUME NEW o, SentHonestly(o, events', session') PROVE SentHonestly(o, events, session)'
  BY <1>1, <1>5, <1>6 DEF SentHonestly, Ahead
<1>7. ASSUME NEW x, NEW at, FilledHonestly(x, at) PROVE FilledHonestly(x, at)'
  BY <1>1, <1>3, <1>7 DEF FilledHonestly
<1>8. ASSUME NEW p, HeldHonestly(p, events', session') PROVE HeldHonestly(p, events, session)'
  BY <1>1, <1>2, <1>4, <1>5, <1>7, <1>8 DEF HeldHonestly, Ahead
<1>9. ASSUME NEW t, TradedHonestly(t) PROVE TradedHonestly(t)'
  BY <1>1, <1>2, <1>3, <1>7, <1>9 DEF TradedHonestly, Touches
<1>10. QED
  BY <1>1, <1>6, <1>8, <1>9 DEF Honest

(* So do the other parts of the invariant.                                 *)
LEMMA BookedCarries ==
  ASSUME UNCHANGED <<bars, decisions, replayed>>, Booked(book', events', session'),
         HandledFirst(events', session')
  PROVE  Booked(book, events, session)' /\ HandledFirst(events, session)'
<1>1. bars' = bars /\ decisions' = decisions /\ replayed' = replayed
  OBVIOUS
<1>2. Honest(book, events, session)'
  BY HonestCarries DEF Booked
<1>3. Placed(book, events, session)'
  BY <1>1 DEF Booked, Placed
<1>4. Typed(book)' /\ Balanced(book)' /\ OnePer(book)' /\ OnlyToday(book)'
  BY DEF Booked
<1>5. EventsOf(session)' = EventsOf(session')
  <2>1. Today(session)' = Today(session')
    BY <1>1 DEF Today, Signalled
  <2>2. \A b : ClosedAt(b)' = ClosedAt(b) /\ (CloseHappens(b)' <=> CloseHappens(b))
    BY <1>1 DEF ClosedAt, CloseHappens
  <2>3. \A b : CloseOf(b)' = CloseOf(b)
    BY <2>2 DEF CloseOf
  <2>4. EventsOf(session)' = {OpenOf(b) : b \in Today(session')}
                               \cup {CloseOf(b) : b \in {b \in Today(session') : CloseHappens(b)}}
                               \cup {EntryOf(s) : s \in decisions[session'].signals}
    BY <1>1, <2>1, <2>2, <2>3 DEF EventsOf, Today, OpenOf, CloseOf, EntryOf
  <2>5. QED
    BY <2>4, EventsAre
<1>6. HandledFirst(events, session)'
  BY <1>5 DEF HandledFirst
<1>7. QED
  BY <1>2, <1>3, <1>4, <1>6 DEF Booked

-----------------------------------------------------------------------------
(* Where the signals are after a step.                                     *)

(* Dropping the only entry of a symbol.                                    *)
LEMMA InAfter ==
  ASSUME NEW S, NEW x, NEW s
  PROVE  x \in S /\ (\A y \in S : y.signal.symbol = x.signal.symbol => y = x)
           => (In(S \ {x}, s) <=> In(S, s) /\ s # x.signal)
  BY DEF In

(* Of the events only a signal's entry says that the signal is coming.     *)
LEMMA ComingAfter ==
  ASSUME NEW n, NEW evs, evs \subseteq EventsOf(n), NEW e \in evs, NEW s
  PROVE  /\ e.kind # "signal" => (Coming(evs \ {e}, s) <=> Coming(evs, s))
         /\ e.kind = "signal" => (Coming(evs \ {e}, s) <=> Coming(evs, s) /\ s # e.item)
<1>1. e.kind # "signal" => (Coming(evs \ {e}, s) <=> Coming(evs, s))
  BY DEF Coming
<1>2. ASSUME e.kind = "signal", NEW f \in evs, f.kind = "signal", f.item = e.item PROVE f = e
  <2>1. f = EntryOf(f.item) /\ e = EntryOf(e.item)
    BY <1>2, EventIs
  <2>2. QED
    BY <1>2, <2>1
<1>3. QED
  BY <1>1, <1>2 DEF Coming

(* A position becomes a trade.                                             *)
LEMMA PlacedClosing ==
  ASSUME NEW b, NEW c, NEW n, NEW evs, NEW left, Placed(b, evs, n), OnePer(b),
         \A s : Coming(left, s) <=> Coming(evs, s),
         NEW p \in b.positions, NEW t, t.signal = p.signal,
         c.pending = b.pending, c.positions = b.positions \ {p}, c.trades = b.trades \cup {t},
         c.rejects = b.rejects
  PROVE  Placed(c, left, n)
<1> SUFFICES ASSUME NEW d \in Sessions, decisions[d] # Unset, NEW s \in decisions[d].signals
             PROVE  One(s.day > n, Coming(left, s), In(c.pending, s), In(c.positions, s),
                        In(c.trades, s), In(c.rejects, s))
  BY DEF Placed
<1>1. One(s.day > n, Coming(evs, s), In(b.pending, s), In(b.positions, s), In(b.trades, s),
          In(b.rejects, s))
  BY DEF Placed
<1>2. In(c.positions, s) <=> In(b.positions, s) /\ s # p.signal
  BY InAfter DEF OnePer
<1>3. In(c.trades, s) <=> In(b.trades, s) \/ s = p.signal
  BY DEF In
<1>4. s = p.signal => In(b.positions, s)
  BY DEF In
<1>5. QED
  BY <1>1, <1>2, <1>3, <1>4 DEF One

(* A pending order becomes a position.                                     *)
LEMMA PlacedHolding ==
  ASSUME NEW b, NEW c, NEW n, NEW evs, NEW left, Placed(b, evs, n), OnePer(b),
         \A s : Coming(left, s) <=> Coming(evs, s),
         NEW o \in b.pending, NEW p, p.signal = o.signal,
         c.pending = b.pending \ {o}, c.positions = b.positions \cup {p}, c.trades = b.trades,
         c.rejects = b.rejects
  PROVE  Placed(c, left, n)
<1> SUFFICES ASSUME NEW d \in Sessions, decisions[d] # Unset, NEW s \in decisions[d].signals
             PROVE  One(s.day > n, Coming(left, s), In(c.pending, s), In(c.positions, s),
                        In(c.trades, s), In(c.rejects, s))
  BY DEF Placed
<1>1. One(s.day > n, Coming(evs, s), In(b.pending, s), In(b.positions, s), In(b.trades, s),
          In(b.rejects, s))
  BY DEF Placed
<1>2. In(c.pending, s) <=> In(b.pending, s) /\ s # o.signal
  BY InAfter DEF OnePer
<1>3. In(c.positions, s) <=> In(b.positions, s) \/ s = o.signal
  BY DEF In
<1>4. s = o.signal => In(b.pending, s)
  BY DEF In
<1>5. QED
  BY <1>1, <1>2, <1>3, <1>4 DEF One

(* A pending order is refused at last.                                     *)
LEMMA PlacedRefusing ==
  ASSUME NEW b, NEW c, NEW n, NEW evs, NEW left, Placed(b, evs, n), OnePer(b),
         \A s : Coming(left, s) <=> Coming(evs, s),
         NEW o \in b.pending, NEW r, r.signal = o.signal,
         c.pending = b.pending \ {o}, c.positions = b.positions, c.trades = b.trades,
         c.rejects = b.rejects \cup {r}
  PROVE  Placed(c, left, n)
<1> SUFFICES ASSUME NEW d \in Sessions, decisions[d] # Unset, NEW s \in decisions[d].signals
             PROVE  One(s.day > n, Coming(left, s), In(c.pending, s), In(c.positions, s),
                        In(c.trades, s), In(c.rejects, s))
  BY DEF Placed
<1>1. One(s.day > n, Coming(evs, s), In(b.pending, s), In(b.positions, s), In(b.trades, s),
          In(b.rejects, s))
  BY DEF Placed
<1>2. In(c.pending, s) <=> In(b.pending, s) /\ s # o.signal
  BY InAfter DEF OnePer
<1>3. In(c.rejects, s) <=> In(b.rejects, s) \/ s = o.signal
  BY DEF In
<1>4. s = o.signal => In(b.pending, s)
  BY DEF In
<1>5. QED
  BY <1>1, <1>2, <1>3, <1>4 DEF One

(* Nothing moves.                                                          *)
LEMMA PlacedStaying ==
  ASSUME NEW b, NEW c, NEW n, NEW evs, NEW left, Placed(b, evs, n),
         \A s : /\ Coming(left, s) <=> Coming(evs, s)
                /\ In(c.pending, s) <=> In(b.pending, s)
                /\ In(c.positions, s) <=> In(b.positions, s)
                /\ In(c.trades, s) <=> In(b.trades, s)
                /\ In(c.rejects, s) <=> In(b.rejects, s)
  PROVE  Placed(c, left, n)
<1> SUFFICES ASSUME NEW d \in Sessions, decisions[d] # Unset, NEW s \in decisions[d].signals
             PROVE  One(s.day > n, Coming(left, s), In(c.pending, s), In(c.positions, s),
                        In(c.trades, s), In(c.rejects, s))
  BY DEF Placed
<1>1. One(s.day > n, Coming(evs, s), In(b.pending, s), In(b.positions, s), In(b.trades, s),
          In(b.rejects, s))
  BY DEF Placed
<1>2. QED
  BY <1>1 DEF One

(* The event of a signal is handled: it is pending, or refused.            *)
LEMMA PlacedSubmitting ==
  ASSUME NEW b, NEW c, NEW n, NEW evs, evs \subseteq EventsOf(n), Placed(b, evs, n),
         NEW e \in evs, e.kind = "signal", NEW x, x.signal = e.item,
         c.positions = b.positions, c.trades = b.trades,
         \/ c.pending = b.pending \cup {x} /\ c.rejects = b.rejects
         \/ c.pending = b.pending /\ c.rejects = b.rejects \cup {x}
  PROVE  Placed(c, evs \ {e}, n)
<1> SUFFICES ASSUME NEW d \in Sessions, decisions[d] # Unset, NEW s \in decisions[d].signals
             PROVE  One(s.day > n, Coming(evs \ {e}, s), In(c.pending, s), In(c.positions, s),
                        In(c.trades, s), In(c.rejects, s))
  BY DEF Placed
<1>1. One(s.day > n, Coming(evs, s), In(b.pending, s), In(b.positions, s), In(b.trades, s),
          In(b.rejects, s))
  BY DEF Placed
<1>2. Coming(evs \ {e}, s) <=> Coming(evs, s) /\ s # e.item
  BY ComingAfter
<1>3. s = e.item => Coming(evs, s)
  BY DEF Coming
<1>4. CASE c.pending = b.pending \cup {x} /\ c.rejects = b.rejects
  <2>1. In(c.pending, s) <=> In(b.pending, s) \/ s = e.item
    BY <1>4 DEF In
  <2>2. QED
    BY <1>1, <1>2, <1>3, <1>4, <2>1 DEF One
<1>5. CASE c.pending = b.pending /\ c.rejects = b.rejects \cup {x}
  <2>1. In(c.rejects, s) <=> In(b.rejects, s) \/ s = e.item
    BY <1>5 DEF In
  <2>2. QED
    BY <1>1, <1>2, <1>3, <1>5, <2>1 DEF One
<1>6. QED
  BY <1>4, <1>5

(* One session ends and the next begins: what was pending is refused, and  *)
(* the signals of the next one are coming.                                 *)
LEMMA PlacedBeginning ==
  ASSUME DecisionsInv, NEW b, NEW c, NEW n \in Int, Placed(b, {}, n),
         NEW evs, evs = (IF n + 1 \in Sessions THEN EventsOf(n + 1) ELSE {}),
         n + 1 \in Sessions => decisions[n + 1] # Unset,
         c.pending = {}, c.positions = b.positions, c.trades = b.trades,
         \A s : In(c.rejects, s) <=> In(b.rejects, s) \/ In(b.pending, s)
  PROVE  Placed(c, evs, n + 1)
<1> SUFFICES ASSUME NEW d \in Sessions, decisions[d] # Unset, NEW s \in decisions[d].signals
             PROVE  One(s.day > n + 1, Coming(evs, s), In(c.pending, s), In(c.positions, s),
                        In(c.trades, s), In(c.rejects, s))
  BY DEF Placed
<1>1. One(s.day > n, Coming({}, s), In(b.pending, s), In(b.positions, s), In(b.trades, s),
          In(b.rejects, s))
  BY DEF Placed
<1>2. s.day = d /\ d \in Int
  BY DecidedIs DEF Decided
<1>3. Coming(evs, s) <=> d = n + 1
  <2>1. ASSUME d = n + 1 PROVE Coming(evs, s)
    <3>1. EntryOf(s) \in evs
      BY <2>1, EventsAre
    <3>2. EntryOf(s).kind = "signal" /\ EntryOf(s).item = s
      BY EventFields
    <3>3. QED
      BY <3>1, <3>2 DEF Coming
  <2>2. ASSUME Coming(evs, s) PROVE d = n + 1
    <3>1. PICK e \in evs : e.kind = "signal" /\ e.item = s
      BY <2>2 DEF Coming
    <3>2. n + 1 \in Sessions /\ e \in EventsOf(n + 1)
      BY <3>1
    <3>3. s \in decisions[n + 1].signals
      BY <3>1, <3>2, EventIs
    <3>4. Decided(s, n + 1)
      BY <3>2, <3>3 DEF Decided
    <3>5. QED
      BY <1>2, <3>4, DecidedIs
  <2>3. QED
    BY <2>1, <2>2
<1>4. ~Coming({}, s) /\ ~In(c.pending, s)
  BY DEF Coming, In
<1>5. s.day > n <=> s.day > n + 1 \/ d = n + 1
  BY <1>2
<1>6. s.day > n + 1 => d # n + 1
  BY <1>2
<1>7. QED
  BY <1>1, <1>3, <1>4, <1>5, <1>6 DEF One

-----------------------------------------------------------------------------
(* Honesty, one event at a time.                                           *)

(* An event of the session is about to be handled: it is due.              *)
Handling(e) ==
  /\ SoundDataset(bars) /\ DecisionsInv /\ replayed \in BOOLEAN
  /\ session \in Sessions /\ session \in Int /\ decisions[session] # Unset
  /\ HandledFirst(events, session) /\ Booked(book, events, session)
  /\ SeenBefore(seen, events, session)
  /\ events \subseteq EventsOf(session) /\ e \in events
  /\ \A f \in events : f.at \in Int /\ e.at <= f.at /\ (f.at = e.at => NotAfter(e, f))

(* An order is not concerned by an event that opens none of its bars.      *)
LEMMA OrderStays ==
  ASSUME NEW o, NEW evs, NEW n, SentHonestly(o, evs, n), NEW e,
         \A b \in bars : b.symbol = o.signal.symbol /\ b.at > o.sent => e # OpenOf(b)
  PROVE  SentHonestly(o, evs \ {e}, n)
  BY DEF SentHonestly, Ahead

(* A position is not concerned by an event that neither touches its stop   *)
(* nor opens a bar at which it is due to be closed.                        *)
LEMMA PositionStays ==
  ASSUME NEW p, NEW evs, NEW n, HeldHonestly(p, evs, n), NEW e,
         \A b \in bars :
           b.symbol = p.signal.symbol /\ b.at >= p.filled /\ b.low <= p.signal.stop /\ CloseHappens(b)
             => e # CloseOf(b),
         \A b \in bars :
           b.symbol = p.signal.symbol /\ b.at >= FlattenAt(p.signal.day) => e # OpenOf(b)
  PROVE  HeldHonestly(p, evs \ {e}, n)
  BY DEF HeldHonestly, Ahead

(* An event of another symbol, and one of a signal, concerns neither.      *)
LEMMA OthersStay ==
  ASSUME NEW e, NEW evs, NEW n, NEW x, e.kind = "signal" \/ e.symbol # x.signal.symbol
  PROVE  /\ SentHonestly(x, evs, n) => SentHonestly(x, evs \ {e}, n)
         /\ HeldHonestly(x, evs, n) => HeldHonestly(x, evs \ {e}, n)
<1>1. ASSUME NEW b \in bars, b.symbol = x.signal.symbol PROVE e # OpenOf(b) /\ e # CloseOf(b)
  <2>1. /\ OpenOf(b).kind = "open" /\ OpenOf(b).symbol = b.symbol
        /\ CloseOf(b).kind = "close" /\ CloseOf(b).symbol = b.symbol
    BY EventFields
  <2>2. QED
    BY <1>1, <2>1
<1>2. QED
  BY <1>1, OrderStays, PositionStays

(* What is handled next leaves the handled ones first.                     *)
LEMMA HandledNext ==
  ASSUME NEW e, Handling(e)
  PROVE  HandledFirst(events \ {e}, session)
  BY DEF Handling, HandledFirst

(* Every event that was handled came no later than the one that is due.    *)
LEMMA HandledBefore ==
  ASSUME NEW e, Handling(e), NEW f \in EventsOf(session), f \notin events
  PROVE  f.at <= e.at
  BY DEF Handling, HandledFirst

(* What an event at which a position is closed makes of it.                *)
LEMMA ExitIsHonest ==
  ASSUME NEW e, Handling(e), e.kind # "signal", NEW p \in book.positions, p \in Holdings, NEW t,
         t.signal = p.signal, t.sent = p.sent, t.entry_at = p.filled, t.exit_at = e.at
  PROVE  /\ FilledHonestly(t, t.entry_at) /\ t.entry_at <= t.exit_at
         /\ \A b \in bars : Touches(b, t) =>
              \/ t.exit_at < ClosedAt(b) \/ t.exit_at <= b.at
              \/ t.exit_at = ClosedAt(b) /\ e.kind = "close"
         /\ \A at \in OpensOf(t.signal.symbol) : at >= FlattenAt(t.signal.day) => t.exit_at <= at
<1>1. HeldHonestly(p, events, session)
  BY DEF Handling, Booked, Honest
<1>2. FilledHonestly(t, t.entry_at) /\ t.entry_at <= t.exit_at
  BY <1>1 DEF HeldHonestly, FilledHonestly, Handling
<1>3. e.at \in Int /\ e.at <= MarketClose(session) /\ MarketClose(session) \in Int
  BY EventTimes, DayInOrder DEF Handling
<1>4. ASSUME NEW b \in bars, b.day > session PROVE t.exit_at <= b.at
  <2>1. MarketClose(session) <= b.at /\ b.at \in Int
    BY <1>4, LaterDays, BarInSession DEF Handling
  <2>2. QED
    BY <1>3, <2>1
<1>5. ASSUME NEW b \in bars, Touches(b, t)
      PROVE  \/ t.exit_at < ClosedAt(b) \/ t.exit_at <= b.at
             \/ t.exit_at = ClosedAt(b) /\ e.kind = "close"
  <2>1. b.day > session \/ CloseOf(b) \in events
    BY <1>1, <1>5 DEF HeldHonestly, Touches, Ahead, Handling
  <2>2. CASE CloseOf(b) \in events
    <3>1. CloseOf(b).at = ClosedAt(b) /\ CloseOf(b).order = 0
      BY EventFields
    <3>2. e.at <= ClosedAt(b) /\ ClosedAt(b) \in Int
          /\ (ClosedAt(b) = e.at => NotAfter(e, CloseOf(b)))
      BY <2>2, <3>1 DEF Handling
    <3>3. e.kind = "open" => e.order = 1
      <4>1. e \in EventsOf(session)
        BY DEF Handling
      <4>2. e.kind = "open" => e = OpenOf(e.item)
        BY <4>1, EventIs
      <4>3. OpenOf(e.item).order = 1
        BY EventFields
      <4>4. QED
        BY <4>2, <4>3
    <3>4. e.kind = "open" \/ e.kind = "close"
      <4>1. e \in EventsOf(session)
        BY DEF Handling
      <4>2. QED
        BY <4>1, EventIs
    <3>5. e.kind = "open" => e.at # ClosedAt(b)
      BY <3>1, <3>2, <3>3 DEF NotAfter
    <3>6. QED
      BY <1>3, <3>2, <3>4, <3>5
  <2>3. QED
    BY <1>4, <2>1, <2>2
<1>6. ASSUME NEW at \in OpensOf(t.signal.symbol), at >= FlattenAt(t.signal.day)
      PROVE  t.exit_at <= at
  <2>1. PICK b \in bars : b.symbol = t.signal.symbol /\ b.at = at
    BY <1>6 DEF OpensOf
  <2>2. b.day > session \/ OpenOf(b) \in events
    BY <1>1, <1>6, <2>1 DEF HeldHonestly, Ahead, Handling
  <2>3. OpenOf(b).at = at
    BY <2>1, EventFields
  <2>4. OpenOf(b) \in events => t.exit_at <= at
    BY <2>3 DEF Handling
  <2>5. QED
    BY <1>4, <2>1, <2>2, <2>4
<1>7. QED
  BY <1>2, <1>5, <1>6

(* The close by the schedule.                                              *)
LEMMA ClosesOnSchedule ==
  ASSUME NEW e, Handling(e), e.kind = "open", NEW p \in book.positions, p \in Holdings,
         e.item.at >= FlattenAt(p.signal.day), NEW price
  PROVE  TradedHonestly(TradeOf(p, price, e.item.at, "SCHEDULED_CLOSE"))
<1> DEFINE t == TradeOf(p, price, e.item.at, "SCHEDULED_CLOSE")
<1>1. e = OpenOf(e.item)
  BY EventIs DEF Handling
<1>2. e.at = e.item.at
  <2>1. OpenOf(e.item).at = e.item.at
    BY EventFields
  <2>2. QED
    BY <1>1, <2>1
<1>3. /\ t.signal = p.signal /\ t.sent = p.sent /\ t.entry_at = p.filled /\ t.exit_at = e.at
      /\ t.reason = "SCHEDULED_CLOSE"
  BY <1>2 DEF TradeOf
<1>4. t.exit_at >= FlattenAt(t.signal.day)
  BY <1>2, <1>3
<1> HIDE DEF t
<1>5. /\ FilledHonestly(t, t.entry_at) /\ t.entry_at <= t.exit_at
      /\ \A b \in bars : Touches(b, t) => t.exit_at < ClosedAt(b) \/ t.exit_at <= b.at
      /\ \A at \in OpensOf(t.signal.symbol) : at >= FlattenAt(t.signal.day) => t.exit_at <= at
  <2>1. e.kind # "signal" /\ e.kind # "close"
    OBVIOUS
  <2>2. QED
    BY <1>3, <2>1, ExitIsHonest
<1>6. TradedHonestly(t)
  BY <1>3, <1>4, <1>5 DEF TradedHonestly
<1>7. QED
  BY <1>6 DEF t

(* The close at the stop.                                                  *)
LEMMA StopsHonestly ==
  ASSUME NEW e, Handling(e), e.kind = "close", NEW p \in book.positions, p \in Holdings,
         e.item.symbol = p.signal.symbol, Concerns(e.item, p), e.item.low <= p.signal.stop
  PROVE  TradedHonestly(TradeOf(p, Min({e.item.open, p.signal.stop}), ClosedAt(e.item),
                                "STOP_CONSERVATIVE"))
<1> DEFINE bar == e.item
           price == Min({bar.open, p.signal.stop})
           t == TradeOf(p, price, ClosedAt(bar), "STOP_CONSERVATIVE")
<1>1. e = CloseOf(bar) /\ bar \in bars /\ CloseHappens(bar)
  BY EventIs DEF Handling, Today
<1>2. e.at = ClosedAt(bar)
  <2>1. CloseOf(bar).at = ClosedAt(bar)
    BY EventFields
  <2>2. QED
    BY <1>1, <2>1
<1> HIDE DEF bar, price
<1>3. /\ t.signal = p.signal /\ t.sent = p.sent /\ t.entry_at = p.filled /\ t.exit_at = e.at
      /\ t.reason = "STOP_CONSERVATIVE" /\ t.price = price /\ t.exit_at = ClosedAt(bar)
  BY <1>2 DEF TradeOf
<1>4. Touches(bar, t)
  <2>1. bar.at \in Int /\ p.filled \in Int
    BY <1>1, BarInSession DEF Handling, Holdings
  <2>2. QED
    BY <1>1, <1>3, <2>1 DEF Touches, Concerns, bar
<1>5. t.price = Min({bar.open, t.signal.stop})
  BY <1>3 DEF price
<1> HIDE DEF t
<1>6. QED
  BY <1>1, <1>3, <1>4, <1>5, ExitIsHonest DEF TradedHonestly, t, bar, price

(* The events of a bar of the session, for a symbol that was decided.      *)
LEMMA EventsOfBar ==
  ASSUME NEW d \in Sessions, NEW b \in bars, b.day = d, b.symbol \in Signalled
  PROVE  /\ OpenOf(b) \in EventsOf(d)
         /\ CloseHappens(b) => CloseOf(b) \in EventsOf(d)
<1>1. b \in Today(d)
  BY DEF Today
<1>2. QED
  BY <1>1, EventsAre

(* An order is submitted honestly.                                         *)
LEMMA SubmitsHonestly ==
  ASSUME NEW e, Handling(e), e.kind = "signal", e.at < EntriesEnd(session),
         NEW o, o.signal = e.item, o.sent = e.at
  PROVE  SentHonestly(o, events \ {e}, session)
<1>1. e = EntryOf(e.item) /\ Decided(e.item, session)
  BY EventIs DEF Handling, Decided
<1>2. e.at = e.item.available + Latency /\ e.item.available \in Int /\ e.item.symbol \in Signalled
  <2>1. EntryOf(e.item).at = e.item.available + Latency
    BY EventFields
  <2>2. e.item.available \in Int /\ e.item.symbol \in Signalled
    BY <1>1, DecidedIs DEF Handling
  <2>3. QED
    BY <1>1, <2>1, <2>2
<1>3. e.item.available < e.at
  BY <1>2, BacktestAssumption
<1>4. ASSUME NEW b \in bars, b.symbol = o.signal.symbol, b.at > o.sent
      PROVE  Ahead(b, OpenOf(b), events \ {e}, session)
  <2>1. MarketOpen(session) <= e.at /\ e.at \in Int /\ MarketOpen(session) \in Int
    BY EventTimes, DayInOrder DEF Handling
  <2>2. b.at \in Int /\ b.day \in Int
    BY BarInSession DEF Handling
  <2>3. MarketOpen(session) <= b.at
    BY <1>4, <2>1, <2>2
  <2>4. b.day >= session
    BY <2>3, LaterDays DEF Handling
  <2>5. OpenOf(b).at = b.at /\ OpenOf(b).kind = "open"
    BY EventFields
  <2>6. ASSUME b.day = session PROVE OpenOf(b) \in events \ {e}
    <3>1. OpenOf(b) \in EventsOf(session)
      BY <1>2, <1>4, <2>6, EventsOfBar DEF Handling
    <3>2. ~(OpenOf(b).at <= e.at)
      BY <1>4, <2>1, <2>2, <2>5
    <3>3. OpenOf(b) \in events
      BY <3>1, <3>2, HandledBefore
    <3>4. QED
      BY <2>5, <3>3
  <2>7. session \in Int
    BY DEF Handling
  <2>8. QED
    BY <2>2, <2>4, <2>6, <2>7 DEF Ahead
<1>5. \A f \in events \ {e} : o.sent <= f.at
  BY DEF Handling
<1>6. QED
  BY <1>1, <1>3, <1>4, <1>5 DEF SentHonestly

(* A fill is honest: no other open came between, and none of the bars that *)
(* matter to the position was handled yet.                                 *)
LEMMA FillsHonestly ==
  ASSUME NEW e, Handling(e), e.kind = "open", NEW o \in book.pending, o \in Orders,
         e.item.symbol = o.signal.symbol, o.sent < e.item.at, e.item.at < EntriesEnd(session),
         NEW p, p.signal = o.signal, p.sent = o.sent, p.filled = e.item.at
  PROVE  HeldHonestly(p, events \ {e}, session)
<1> DEFINE b == e.item
           opens == {t \in OpensOf(p.signal.symbol) : t > p.sent}
<1>1. SentHonestly(o, events, session) /\ session \in Sessions /\ session \in Int
  BY DEF Handling, Booked, Honest
<1>2. /\ Decided(p.signal, session) /\ p.signal.day = session /\ p.signal.symbol \in Signalled
      /\ p.signal.available < p.sent /\ p.sent \in Int
  <2>1. Decided(o.signal, session) /\ o.signal.available < o.sent
    BY <1>1 DEF SentHonestly
  <2>2. o.sent \in Int
    BY DEF Orders
  <2>3. QED
    BY <2>1, <2>2, DecidedIs DEF Handling
<1>3. e = OpenOf(b) /\ b \in bars /\ b.day = session
  BY EventIs DEF Handling, Today
<1>4. e.at = b.at /\ e.at \in Int
  <2>1. OpenOf(b).at = b.at
    BY EventFields
  <2>2. QED
    BY <1>3, <2>1 DEF Handling
<1>5. /\ MarketOpen(session) <= b.at /\ b.at < MarketClose(session)
  BY <1>3, BarInSession DEF Handling
<1>6. /\ MarketOpen(session) \in Int /\ MarketClose(session) \in Int /\ EntriesEnd(session) \in Int
      /\ FlattenAt(session) \in Int /\ EntriesEnd(session) <= FlattenAt(session)
      /\ MarketOpen(session) <= FlattenAt(session)
  <2>1. /\ MarketOpen(session) \in Int /\ MarketClose(session) \in Int /\ EntriesEnd(session) \in Int
        /\ FlattenAt(session) \in Int /\ Cutoff(session) \in Int
        /\ EntriesEnd(session) <= FlattenAt(session) /\ MarketOpen(session) <= Cutoff(session)
        /\ Cutoff(session) < EntriesEnd(session)
    BY <1>1, DayInOrder
  <2>2. QED
    BY <2>1
<1>7. ASSUME NEW c \in bars
      PROVE  /\ c.at \in Int /\ c.day \in Int /\ ClosedAt(c) \in Int /\ c.at < ClosedAt(c)
             /\ c.day > session => MarketClose(session) <= c.at
             /\ MarketOpen(session) <= c.at => c.day >= session
             /\ OpenOf(c).at = c.at /\ CloseOf(c).at = ClosedAt(c) /\ CloseOf(c).kind = "close"
             /\ OpenOf(c).item = c
  <2>1. c.at \in Int /\ c.day \in Int
    BY BarInSession DEF Handling
  <2>2. ClosedAt(c) \in Int /\ c.at < ClosedAt(c)
    BY CloseComesLater DEF Handling
  <2>3. /\ c.day > session => MarketClose(session) <= c.at
        /\ MarketOpen(session) <= c.at => c.day >= session
    BY <1>1, LaterDays DEF Handling
  <2>4. QED
    BY <2>1, <2>2, <2>3, EventFields
<1>8. p.filled = Min(opens)
  <2>1. opens \subseteq Int
    BY <1>7 DEF OpensOf
  <2>2. b.at \in opens
    BY <1>3 DEF OpensOf
  <2>3. ASSUME NEW t \in opens PROVE b.at <= t
    <3>1. PICK c \in bars : c.symbol = o.signal.symbol /\ c.at = t /\ c.at > o.sent
      BY DEF OpensOf
    <3>2. c.day > session \/ OpenOf(c) \in events
      BY <1>1, <3>1 DEF SentHonestly, Ahead
    <3>3. OpenOf(c) \in events => e.at <= OpenOf(c).at
      BY DEF Handling
    <3>4. QED
      BY <1>4, <1>5, <1>6, <1>7, <3>1, <3>2, <3>3
  <2> HIDE DEF opens
  <2>4. Min(opens) = b.at
    BY <2>1, <2>2, <2>3, MinIs
  <2>5. QED
    BY <2>4
<1>9. FilledHonestly(p, p.filled)
  BY <1>2, <1>8 DEF FilledHonestly
<1>10. \A f \in events \ {e} : p.filled <= f.at
  BY <1>4 DEF Handling
<1>11. ASSUME NEW c \in bars, c.symbol = p.signal.symbol, c.at >= p.filled, CloseHappens(c)
       PROVE  Ahead(c, CloseOf(c), events \ {e}, session)
  <2>1. MarketOpen(session) <= c.at
    BY <1>4, <1>5, <1>6, <1>7, <1>11
  <2>2. c.day >= session
    BY <1>7, <2>1
  <2>3. ASSUME c.day = session PROVE CloseOf(c) \in events \ {e}
    <3>1. CloseOf(c) \in EventsOf(session)
      BY <1>1, <1>2, <1>11, <2>3, EventsOfBar
    <3>2. ~(CloseOf(c).at <= e.at)
      BY <1>4, <1>7, <1>11
    <3>3. CloseOf(c) \in events
      BY <3>1, <3>2, HandledBefore
    <3>4. QED
      BY <1>7, <3>3
  <2>4. QED
    BY <1>1, <1>7, <2>2, <2>3 DEF Ahead
<1>12. ASSUME NEW c \in bars, c.symbol = p.signal.symbol, c.at >= FlattenAt(p.signal.day)
       PROVE  Ahead(c, OpenOf(c), events \ {e}, session)
  <2>1. MarketOpen(session) <= c.at
    BY <1>2, <1>6, <1>7, <1>12
  <2>2. c.day >= session
    BY <1>7, <2>1
  <2>3. ~(c.at <= e.at)
    BY <1>2, <1>4, <1>6, <1>7, <1>12
  <2>4. ASSUME c.day = session PROVE OpenOf(c) \in events \ {e}
    <3>1. OpenOf(c) \in EventsOf(session)
      BY <1>1, <1>2, <1>12, <2>4, EventsOfBar
    <3>2. ~(OpenOf(c).at <= e.at)
      BY <1>7, <2>3
    <3>3. OpenOf(c) \in events
      BY <3>1, <3>2, HandledBefore
    <3>4. OpenOf(c) # e
      BY <1>4, <3>2
    <3>5. QED
      BY <3>3, <3>4
  <2>5. QED
    BY <1>1, <1>7, <2>2, <2>4 DEF Ahead
<1>13. Decided(p.signal, p.signal.day) /\ p.signal.day <= session
  BY <1>1, <1>2
<1>14. QED
  BY <1>9, <1>10, <1>11, <1>12, <1>13 DEF HeldHonestly

(* A position that is closed at once, at the price it was filled at.       *)
LEMMA ClosesAtOnce ==
  ASSUME SoundDataset(bars), NEW p, NEW evs, NEW n, HeldHonestly(p, evs, n), DecisionsInv, p \in Holdings,
         NEW price
  PROVE  TradedHonestly(TradeOf(p, price, p.filled, "POST_FILL_RISK_EXIT"))
<1> DEFINE t == TradeOf(p, price, p.filled, "POST_FILL_RISK_EXIT")
<1>1. /\ t.signal = p.signal /\ t.sent = p.sent /\ t.entry_at = p.filled /\ t.exit_at = p.filled
      /\ t.reason = "POST_FILL_RISK_EXIT"
  BY DEF TradeOf
<1>2. /\ p.filled \in Int /\ p.filled < EntriesEnd(p.signal.day) /\ p.signal.day \in Int
      /\ FilledHonestly(p, p.filled)
  BY DecidedIs DEF HeldHonestly, FilledHonestly, Holdings
<1>3. /\ EntriesEnd(p.signal.day) <= FlattenAt(p.signal.day) /\ EntriesEnd(p.signal.day) \in Int
      /\ FlattenAt(p.signal.day) \in Int
  BY <1>2, DayInOrder
<1> HIDE DEF t
<1>4. FilledHonestly(t, t.entry_at)
  BY <1>1, <1>2 DEF FilledHonestly
<1>5. ASSUME NEW at \in OpensOf(t.signal.symbol), at >= FlattenAt(t.signal.day) PROVE t.exit_at <= at
  <2>1. at \in Int
    BY BarInSession DEF OpensOf
  <2>2. QED
    BY <1>1, <1>2, <1>3, <1>5, <2>1
<1>6. \A b \in bars : Touches(b, t) => t.exit_at <= b.at
  <2>1. \A b \in bars : b.at \in Int
    BY BarInSession
  <2>2. QED
    BY <1>1, <1>2, <2>1 DEF Touches
<1>7. TradedHonestly(t)
  BY <1>1, <1>2, <1>4, <1>5, <1>6 DEF TradedHonestly
<1>8. QED
  BY <1>7 DEF t

(* A position goes into the next session: all its bars are still to come.  *)
LEMMA BeginsHonestly ==
  ASSUME SoundDataset(bars), DecisionsInv, replayed \in BOOLEAN, NEW n \in Sessions, n \in Int,
         NEW p \in Holdings, HeldHonestly(p, {}, n),
         n + 1 \in Sessions => decisions[n + 1] # Unset,
         NEW evs, evs = (IF n + 1 \in Sessions THEN EventsOf(n + 1) ELSE {})
  PROVE  HeldHonestly(p, evs, n + 1)
<1>1. /\ Decided(p.signal, p.signal.day) /\ p.signal.day <= n /\ p.signal.day \in Int
      /\ p.signal.symbol \in Signalled /\ FilledHonestly(p, p.filled) /\ p.filled \in Int
      /\ p.filled < EntriesEnd(p.signal.day)
  BY DecidedIs DEF HeldHonestly, FilledHonestly, Holdings
<1>2. /\ EntriesEnd(p.signal.day) <= MarketClose(p.signal.day)
      /\ EntriesEnd(p.signal.day) \in Int /\ MarketClose(p.signal.day) \in Int
  BY <1>1, DayInOrder
<1>3. MarketClose(p.signal.day) <= MarketOpen(n + 1) /\ MarketOpen(n + 1) \in Int
  <2>1. p.signal.day < n + 1 /\ n + 1 \in Int
    BY <1>1
  <2>2. MarketClose(p.signal.day) <= MarketOpen(n + 1)
    BY <1>1, <2>1, DaysInOrder
  <2>3. QED
    BY <2>1, <2>2, DayInOrder
<1>4. ASSUME NEW e \in evs PROVE p.filled <= e.at
  <2>1. n + 1 \in Sessions /\ e \in EventsOf(n + 1)
    OBVIOUS
  <2>2. MarketOpen(n + 1) <= e.at /\ e.at \in Int
    BY <2>1, EventTimes
  <2>3. QED
    BY <1>1, <1>2, <1>3, <2>2
<1>5. ASSUME NEW b \in bars, NEW e, Ahead(b, e, {}, n) PROVE b.day \in Int /\ b.day >= n + 1
  <2>1. b.day \in Int /\ b.day > n
    BY <1>5, BarInSession DEF Ahead
  <2>2. QED
    BY <2>1
<1>6. ASSUME NEW b \in bars, b.symbol = p.signal.symbol, Ahead(b, OpenOf(b), {}, n)
      PROVE  Ahead(b, OpenOf(b), evs, n + 1)
  <2>1. b.day \in Int /\ b.day >= n + 1
    BY <1>5, <1>6
  <2>2. b.day = n + 1 /\ n + 1 \in Sessions => OpenOf(b) \in evs
    BY <1>1, <1>6, EventsOfBar
  <2>3. QED
    BY <2>1, <2>2 DEF Ahead
<1>7. ASSUME NEW b \in bars, b.symbol = p.signal.symbol, Ahead(b, CloseOf(b), {}, n), CloseHappens(b)
      PROVE  Ahead(b, CloseOf(b), evs, n + 1)
  <2>1. b.day \in Int /\ b.day >= n + 1
    BY <1>5, <1>7
  <2>2. b.day = n + 1 /\ n + 1 \in Sessions => CloseOf(b) \in evs
    BY <1>1, <1>7, EventsOfBar
  <2>3. QED
    BY <2>1, <2>2 DEF Ahead
<1>8. p.signal.day <= n + 1
  BY <1>1
<1>9. QED
  BY <1>1, <1>4, <1>6, <1>7, <1>8 DEF HeldHonestly

-----------------------------------------------------------------------------
(* What the risk engine is shown is made of numbers.                       *)

(* The smaller of two numbers.                                             *)
LEMMA SmallerIs ==
  ASSUME NEW a \in Int, NEW b \in Int
  PROVE  Min({a, b}) = (IF a <= b THEN a ELSE b) /\ Min({a, b}) \in Int
<1>1. CASE a <= b
  BY <1>1, MinIs
<1>2. CASE ~(a <= b)
  BY <1>2, MinIs
<1>3. QED
  BY <1>1, <1>2

(* The smallest of three numbers is one.                                   *)
LEMMA SmallestIs ==
  ASSUME NEW a \in Int, NEW b \in Int, NEW c \in Int
  PROVE  Min({a, b, c}) \in Int
<1>1. PICK m \in {a, b, c} : m <= a /\ m <= b /\ m <= c
  <2>1. CASE a <= b /\ a <= c
    BY <2>1
  <2>2. CASE b <= a /\ b <= c
    BY <2>2
  <2>3. CASE c <= a /\ c <= b
    BY <2>3
  <2>4. QED
    BY <2>1, <2>2, <2>3
<1>2. Min({a, b, c}) = m
  BY <1>1, MinIs
<1>3. QED
  BY <1>1, <1>2

(* The sums of the portfolio.                                              *)
ReservedCash == Sum(LAMBDA o : o.decision.notional + o.decision.cost, book.pending)
ReservedRisk == Sum(LAMBDA o : o.decision.risk, book.pending)
RiskHeld == Sum(LAMBDA p : p.risk, book.positions)
OpenGain == Sum(LAMBDA p : (p.mark - p.entry) * p.units - p.fee, book.positions)

(* The sums over the books are numbers.                                    *)
LEMMA BooksAreNumbers ==
  ASSUME Typed(book)
  PROVE  /\ Gross \in Int /\ Realized \in Int
         /\ ReservedCash \in Int
         /\ ReservedRisk \in Int
         /\ RiskHeld \in Int
         /\ OpenGain \in Int
<1>1. /\ IsFiniteSet(book.pending) /\ IsFiniteSet(book.positions) /\ IsFiniteSet(book.trades)
      /\ book.pending \subseteq Orders /\ book.positions \subseteq Holdings /\ book.trades \subseteq Trades
  BY DEF Typed
<1>2. Gross \in Int
  <2> DEFINE g == [p \in book.positions |-> p.mark * p.units]
  <2>1. \A p \in book.positions : g[p] \in Int
    BY <1>1 DEF Holdings
  <2>2. Gross = SumFunctionOnSet(g, book.positions)
    BY DEF Gross, Sum, SumFunction
  <2> HIDE DEF g
  <2>3. QED
    BY <1>1, <2>1, <2>2, SumType
<1>3. Realized \in Int
  <2> DEFINE g == [t \in book.trades |-> t.net]
  <2>1. \A t \in book.trades : g[t] \in Int
    BY <1>1 DEF Trades
  <2>2. Realized = SumFunctionOnSet(g, book.trades)
    BY DEF Realized, Sum, SumFunction
  <2> HIDE DEF g
  <2>3. QED
    BY <1>1, <2>1, <2>2, SumType
<1>4. /\ ReservedCash \in Int
      /\ ReservedRisk \in Int
  <2> DEFINE g == [o \in book.pending |-> o.decision.notional + o.decision.cost]
             h == [o \in book.pending |-> o.decision.risk]
  <2>1. \A o \in book.pending : g[o] \in Int /\ h[o] \in Int
    <3>1. ASSUME NEW o \in book.pending PROVE o.decision \in Approval
      BY <1>1 DEF Orders
    <3>2. ASSUME NEW o \in book.pending
          PROVE  o.decision.notional \in Int /\ o.decision.cost \in Int /\ o.decision.risk \in Int
      BY <3>1 DEF Approval
    <3>3. QED
      BY <3>2
  <2>2. /\ ReservedCash = SumFunctionOnSet(g, book.pending)
        /\ ReservedRisk = SumFunctionOnSet(h, book.pending)
    BY DEF ReservedCash, ReservedRisk, RiskHeld, OpenGain, Sum, SumFunction
  <2> HIDE DEF g, h
  <2>3. QED
    BY <1>1, <2>1, <2>2, SumType
<1>5. /\ RiskHeld \in Int
      /\ OpenGain \in Int
  <2> DEFINE g == [p \in book.positions |-> p.risk]
             h == [p \in book.positions |-> (p.mark - p.entry) * p.units - p.fee]
  <2>1. \A p \in book.positions : g[p] \in Int /\ h[p] \in Int
    <3>1. ASSUME NEW p \in book.positions
          PROVE  p.risk \in Int /\ p.mark - p.entry \in Int /\ p.units \in Int /\ p.fee \in Int
      BY <1>1 DEF Holdings
    <3>2. QED
      BY <3>1
  <2>2. /\ RiskHeld = SumFunctionOnSet(g, book.positions)
        /\ OpenGain = SumFunctionOnSet(h, book.positions)
    BY DEF ReservedCash, ReservedRisk, RiskHeld, OpenGain, Sum, SumFunction
  <2> HIDE DEF g, h
  <2>3. QED
    BY <1>1, <2>1, <2>2, SumType
<1>6. QED
  BY <1>2, <1>3, <1>4, <1>5

(* So are the budgets.                                                     *)
LEMMA BudgetsAreNumbers ==
  ASSUME Typed(book), reference \in Int, realized_start \in Int
  PROVE  RiskBudget(Portfolio) \in Int /\ CashBudget(Portfolio) \in Int
<1> DEFINE shown == Portfolio
<1>1. /\ shown.reference = Min({reference, Allocated}) /\ shown.equity = book.cash + Gross /\ shown.cash = book.cash
      /\ shown.gross = Gross
      /\ shown.reserved_cash = ReservedCash
      /\ shown.reserved_risk = ReservedRisk
                             + RiskHeld
      /\ shown.pnl = Realized - realized_start
                   + OpenGain
  BY DEF Portfolio, ReservedCash, ReservedRisk, RiskHeld, OpenGain
<1> HIDE DEF shown
<1>2. Allocated \in Int /\ RiskBp \in Int /\ DailyLossBp \in Int /\ GrossBp \in Int /\ PositionBp \in Int
  BY RiskAssumption
<1>3. /\ shown.equity \in Int /\ shown.cash \in Int /\ shown.gross \in Int /\ shown.reserved_cash \in Int
      /\ shown.reserved_risk \in Int /\ shown.pnl \in Int
  BY <1>1, BooksAreNumbers DEF Typed
<1>4. shown.reference \in Int
  BY <1>1, <1>2, SmallerIs
<1>5. Capital(shown) \in Int
  BY <1>2, <1>3, <1>4, SmallestIs DEF Capital
<1>6. ASSUME NEW amount \in Int, NEW fraction \in Int PROVE Bp(amount, fraction) \in Int
  <2>1. amount * fraction \in Int
    OBVIOUS
  <2>2. QED
    BY <2>1 DEF Bp
<1>7. RiskBudget(shown) \in Int
  <2> DEFINE a == Bp(Capital(shown), RiskBp)
             b == Bp(shown.reference, DailyLossBp) + Min({0, shown.pnl}) - shown.reserved_risk
  <2>1. a \in Int /\ Bp(shown.reference, DailyLossBp) \in Int
    BY <1>2, <1>4, <1>5, <1>6
  <2>2. Min({0, shown.pnl}) \in Int
    BY <1>3, SmallerIs
  <2>3. b \in Int
    BY <1>3, <2>1, <2>2
  <2>4. RiskBudget(shown) = Min({a, b})
    BY DEF RiskBudget
  <2> HIDE DEF a, b
  <2>5. QED
    BY <2>1, <2>3, <2>4, SmallerIs
<1>8. CashBudget(shown) \in Int
  <2> DEFINE a == shown.cash - shown.reserved_cash
             b == Bp(Capital(shown), GrossBp) - shown.gross - shown.reserved_cash
             c == Bp(Capital(shown), PositionBp)
  <2>1. Bp(Capital(shown), GrossBp) \in Int /\ c \in Int
    BY <1>2, <1>5, <1>6
  <2>2. a \in Int /\ b \in Int
    BY <1>3, <2>1
  <2>3. CashBudget(shown) = Min({a, b, c})
    BY DEF CashBudget
  <2> HIDE DEF a, b, c
  <2>4. QED
    BY <2>1, <2>2, <2>3, SmallestIs
<1>9. QED
  BY <1>7, <1>8 DEF shown

(* And the request.                                                        *)
LEMMA RequestIsNumbers ==
  ASSUME NEW e, e.item \in Signal
  PROVE  Request(e).ask \in Int /\ Request(e).stop \in Int
<1>1. e.item.reference \in Int /\ e.item.stop \in Int
  BY DEF Signal
<1>2. Friction \in Int
  BY BacktestAssumption
<1>3. QED
  BY <1>1, <1>2 DEF Request, Executable

(* Every entry is sized as large as allowed.                               *)
LEMMA EntriesAreSized ==
  ASSUME DecisionsInv, TradingInv
  PROVE  SizedAsLargeAsAllowed
<1> SUFFICES ASSUME NEW e \in IF events = {} THEN {} ELSE Due, e.kind = "signal"
             PROVE  LET r == Request(e)   p == Portfolio   decision == Assess(r, p)
                        fits == {u \in 1..MaximumUnits :
                                   Feasible(u, r, p) /\ u * r.ask \in MinimumNotional..MaximumNotional}
                    IN  /\ decision.approved => decision.units = Max(fits)
                        /\ decision.reason = "MINIMUM_INCOMPATIBLE" => fits = {}
  BY DEF SizedAsLargeAsAllowed
<1>1. e \in events /\ session \in Sessions /\ e \in EventsOf(session)
  <2>1. e \in events
    BY DEF Due
  <2>2. QED
    BY <2>1 DEF TradingInv, HandledFirst
<1>2. decisions[session] # Unset
  <2>1. Undecided = {}
    BY <1>1, ReplayAssumption DEF TradingInv, Sessions
  <2>2. QED
    BY <1>1, <2>1 DEF Undecided
<1>3. e.item \in Signal
  <2>1. e.item \in decisions[session].signals
    BY <1>1, EventIs
  <2>2. QED
    BY <1>1, <1>2, <2>1, DecidedIs DEF Decided
<1>4. Request(e).ask \in Int /\ Request(e).stop \in Int
  BY <1>3, RequestIsNumbers
<1>5. RiskBudget(Portfolio) \in Int /\ CashBudget(Portfolio) \in Int
  BY BudgetsAreNumbers DEF TradingInv, Booked
<1>6. QED
  BY <1>4, <1>5, AssessIsLargest DEF Fits

-----------------------------------------------------------------------------
(* The handlers keep the books.                                            *)

(* What is honest stays so over a signal's event, and over an event of     *)
(* another symbol.                                                         *)
LEMMA HonestOverSignal ==
  ASSUME NEW b, NEW evs, NEW n, Honest(b, evs, n), NEW e, e.kind = "signal"
  PROVE  Honest(b, evs \ {e}, n)
  BY OthersStay DEF Honest

(* The book with other orders.                                             *)
LEMMA OrdersAre ==
  ASSUME NEW b, IsBook(b), NEW P
  PROVE  LET c == [b EXCEPT !.pending = P]
         IN  /\ IsBook(c) /\ c.cash = b.cash /\ c.pending = P /\ c.positions = b.positions
             /\ c.trades = b.trades /\ c.rejects = b.rejects
  BY DEF IsBook

(* A signal is submitted: a new order of its symbol, or a refusal.         *)
LEMMA SubmitStep ==
  ASSUME NEW e, Handling(e), e.kind = "signal", reference \in Int, realized_start \in Int
  PROVE  Booked(Submit(e), events \ {e}, session)
<1> DEFINE s == e.item
           c == Submit(e)
           d == Assess(Request(e), Portfolio)
           o == [signal |-> s, sent |-> e.at, decision |-> d]
           r == [signal |-> s, reason |-> d.reason]
           left == events \ {e}
<1>1. e \in EventsOf(session) /\ e \in events /\ events \subseteq EventsOf(session)
  BY DEF Handling
<1>2. e = EntryOf(s) /\ Decided(s, session)
  BY <1>1, EventIs DEF Handling, Decided
<1>3. e.symbol = s.symbol /\ s \in Signal /\ s.day = session
      /\ \A u : Decided(u, session) /\ u.symbol = s.symbol => u = s
  <2>1. EntryOf(s).symbol = s.symbol
    BY EventFields
  <2>2. QED
    BY <1>2, <2>1, DecidedIs DEF Handling
<1>4. s \notin seen
  BY <1>1 DEF Handling, SeenBefore, Coming
<1>5. /\ Typed(book) /\ Balanced(book) /\ OnePer(book) /\ Placed(book, events, session)
      /\ Honest(book, events, session) /\ OnlyToday(book) /\ IsBook(book)
  BY DEF Handling, Booked, Typed
<1>6. ~In(book.pending, s) /\ ~In(book.positions, s)
  <2>1. Coming(events, s)
    BY <1>1 DEF Coming
  <2>2. One(s.day > session, Coming(events, s), In(book.pending, s), In(book.positions, s),
            In(book.trades, s), In(book.rejects, s))
    BY <1>2, <1>5 DEF Placed, Decided
  <2>3. QED
    BY <2>1, <2>2 DEF One
<1>7. ~Holds(book.pending, s.symbol)
  <2> SUFFICES ASSUME NEW x \in book.pending, x.signal.symbol = s.symbol PROVE FALSE
    BY DEF Holds
  <2>1. Decided(x.signal, session)
    BY <1>5 DEF Honest, SentHonestly
  <2>2. QED
    BY <1>3, <1>6, <2>1 DEF In
<1>8. Honest(book, left, session)
  BY <1>5, HonestOverSignal
<1>9. CASE d.approved
  <2>1. d \in Approval /\ ~Portfolio.paused /\ Request(e).window_open
    <3>1. Request(e).ask \in Int /\ Request(e).stop \in Int
      BY <1>3, RequestIsNumbers
    <3>2. RiskBudget(Portfolio) \in Int /\ CashBudget(Portfolio) \in Int
      BY <1>5, BudgetsAreNumbers
    <3>3. QED
      BY <1>9, <3>1, <3>2, AssessIsTyped
  <2>2. e.at < EntriesEnd(session)
    BY <2>1 DEF Request
  <2>3. \A p \in book.positions : p.signal.day = session
    BY <2>1 DEF Portfolio
  <2>4. ~Holds(book.positions, s.symbol)
    <3> SUFFICES ASSUME NEW x \in book.positions, x.signal.symbol = s.symbol PROVE FALSE
      BY DEF Holds
    <3>1. Decided(x.signal, session)
      BY <1>5, <2>3 DEF Honest, HeldHonestly
    <3>2. QED
      BY <1>3, <1>6, <3>1 DEF In
  <2>5. o \in Orders /\ o.signal = s /\ o.sent = e.at
    <3>1. e.at \in Int
      BY <1>1 DEF Handling
    <3> HIDE DEF d
    <3>2. QED
      BY <1>3, <2>1, <3>1 DEF Orders
  <2>6. Without(book.pending, e.symbol) = book.pending
    BY <1>3, <1>7 DEF Without, Holds
  <2>7. c = [book EXCEPT !.pending = book.pending \cup {o}]
    BY <1>4, <1>9, <2>6 DEF Submit
  <2> HIDE DEF s, d, o, c, left
  <2>8. /\ IsBook(c) /\ c.cash = book.cash /\ c.pending = book.pending \cup {o}
        /\ c.positions = book.positions /\ c.trades = book.trades /\ c.rejects = book.rejects
    BY <1>5, <2>7, OrdersAre
  <2>9. Typed(c) /\ Balanced(c) /\ OnePer(c)
    BY <1>5, <1>7, <2>4, <2>5, <2>8, OrderingKeeps
  <2>10. Placed(c, events \ {e}, session)
    BY <1>1, <1>5, <2>5, <2>8, PlacedSubmitting DEF s
  <2>11. Honest(c, left, session)
    <3>1. SentHonestly(o, left, session)
      BY <2>2, <2>5, SubmitsHonestly DEF left, s
    <3>2. QED
      BY <1>8, <2>8, <3>1 DEF Honest
  <2>12. OnlyToday(c)
    <3>1. \A x \in book.pending : x.signal.day = session
      BY <1>5, DecidedIs DEF Honest, SentHonestly, Handling
    <3>2. QED
      BY <1>3, <2>3, <2>5, <2>8, <3>1 DEF OnlyToday
  <2>13. QED
    BY <2>9, <2>10, <2>11, <2>12 DEF Booked, c, left
<1>10. CASE ~d.approved
  <2>1. c = Rejected(book, s, d.reason)
    BY <1>4, <1>10 DEF Submit
  <2>2. r.signal = s
    OBVIOUS
  <2> HIDE DEF s, d, c, left
  <2>3. /\ IsBook(c) /\ c.cash = book.cash /\ c.pending = book.pending /\ c.positions = book.positions
        /\ c.trades = book.trades /\ c.rejects = book.rejects \cup {r}
    BY <1>5, <2>1, RejectedIs
  <2> HIDE DEF r
  <2>4. Typed(c) /\ Balanced(c) /\ OnePer(c)
    BY <1>5, <2>3, RefusingKeeps
  <2>5. Placed(c, events \ {e}, session)
    BY <1>1, <1>5, <2>2, <2>3, PlacedSubmitting DEF s
  <2>6. Honest(c, left, session)
    BY <1>8, <2>3 DEF Honest
  <2>7. OnlyToday(c)
    BY <1>5, <2>3 DEF OnlyToday
  <2>8. QED
    BY <2>4, <2>5, <2>6, <2>7 DEF Booked, c, left
<1>11. QED
  BY <1>9, <1>10

(* After an event only what it concerns has to be looked at.               *)
LEMMA HonestAfter ==
  ASSUME NEW b, NEW c, NEW evs, NEW n, NEW e, Honest(b, evs, n),
         \A o \in c.pending :
           (o \in b.pending /\ o.signal.symbol # e.symbol) \/ SentHonestly(o, evs \ {e}, n),
         \A p \in c.positions :
           (p \in b.positions /\ p.signal.symbol # e.symbol) \/ HeldHonestly(p, evs \ {e}, n),
         \A t \in c.trades : t \in b.trades \/ TradedHonestly(t)
  PROVE  Honest(c, evs \ {e}, n)
<1>1. \A o \in c.pending : SentHonestly(o, evs \ {e}, n)
  BY OthersStay DEF Honest
<1>2. \A p \in c.positions : HeldHonestly(p, evs \ {e}, n)
  BY OthersStay DEF Honest
<1>3. QED
  BY <1>1, <1>2 DEF Honest

(* What is known of the books before the event of a bar.                   *)
LEMMA BeforeBar ==
  ASSUME NEW e, Handling(e), e.kind # "signal"
  PROVE  /\ e.item \in bars /\ e.item.day = session /\ e.symbol = e.item.symbol
         /\ e.item.at \in Int /\ e.item.open \in Int /\ e.item.low \in Int /\ e.item.close \in Int
         /\ e.kind = "open" => e = OpenOf(e.item)
         /\ e.kind = "close" => e = CloseOf(e.item) /\ CloseHappens(e.item)
         /\ e.kind = "open" \/ e.kind = "close"
         /\ \A b : (OpenOf(b) = e => b = e.item /\ e.kind = "open")
                   /\ (CloseOf(b) = e => b = e.item /\ e.kind = "close")
         /\ \A s : Coming(events \ {e}, s) <=> Coming(events, s)
         /\ Typed(book) /\ Balanced(book) /\ OnePer(book) /\ Placed(book, events, session)
         /\ Honest(book, events, session) /\ OnlyToday(book) /\ IsBook(book)
<1>1. e \in EventsOf(session) /\ e \in events /\ events \subseteq EventsOf(session)
  BY DEF Handling
<1>2. /\ e.item \in bars /\ e.item.day = session
      /\ e.kind = "open" => e = OpenOf(e.item)
      /\ e.kind = "close" => e = CloseOf(e.item) /\ CloseHappens(e.item)
      /\ e.kind = "open" \/ e.kind = "close"
  BY <1>1, EventIs DEF Today
<1>3. e.symbol = e.item.symbol
  <2>1. OpenOf(e.item).symbol = e.item.symbol /\ CloseOf(e.item).symbol = e.item.symbol
    BY EventFields
  <2>2. QED
    BY <1>2, <2>1
<1>4. e.item.at \in Int /\ e.item.open \in Int /\ e.item.low \in Int /\ e.item.close \in Int
  BY <1>2, BarInSession DEF Handling
<1>5. \A b : (OpenOf(b) = e => b = e.item /\ e.kind = "open")
             /\ (CloseOf(b) = e => b = e.item /\ e.kind = "close")
  <2>1. \A b : /\ OpenOf(b).item = b /\ OpenOf(b).kind = "open"
               /\ CloseOf(b).item = b /\ CloseOf(b).kind = "close"
    BY EventFields
  <2>2. QED
    BY <2>1
<1>6. \A s : Coming(events \ {e}, s) <=> Coming(events, s)
  BY <1>1, ComingAfter
<1>7. QED
  BY <1>2, <1>3, <1>4, <1>5, <1>6 DEF Handling, Booked, Typed

(* What is pending or held was not traded.                                 *)
LEMMA OnePlace ==
  ASSUME NEW b, NEW evs, NEW n, Placed(b, evs, n), NEW s, NEW d, Decided(s, d),
         In(b.pending, s) \/ In(b.positions, s)
  PROVE  ~In(b.trades, s)
<1>1. One(s.day > n, Coming(evs, s), In(b.pending, s), In(b.positions, s), In(b.trades, s),
          In(b.rejects, s))
  BY DEF Placed, Decided
<1>2. QED
  BY <1>1 DEF One

(* An event that changes nothing in the books.                             *)
LEMMA NothingHappens ==
  ASSUME NEW e, Handling(e), e.kind # "signal",
         \A o \in book.pending : o.signal.symbol # e.symbol \/ SentHonestly(o, events \ {e}, session),
         \A p \in book.positions : p.signal.symbol # e.symbol \/ HeldHonestly(p, events \ {e}, session)
  PROVE  Booked(book, events \ {e}, session)
<1> DEFINE left == events \ {e}
<1>1. Honest(book, left, session)
  BY BeforeBar, HonestAfter
<1>2. \A s : Coming(left, s) <=> Coming(events, s)
  BY BeforeBar
<1> HIDE DEF left
<1>3. Placed(book, events, session)
  BY BeforeBar
<1>4. Placed(book, left, session)
  BY <1>2, <1>3, PlacedStaying
<1>5. Booked(book, left, session)
  BY <1>1, <1>4, BeforeBar DEF Booked
<1>6. QED
  BY <1>5 DEF left

(* A position is closed: what remains of the books was honest without it.  *)
LEMMA ClosingStep ==
  ASSUME NEW b, NEW evs, NEW n, Typed(b), Balanced(b), OnePer(b), Placed(b, evs, n), OnlyToday(b),
         NEW p \in b.positions, Decided(p.signal, p.signal.day),
         \A o \in b.pending : SentHonestly(o, evs, n),
         \A q \in b.positions \ {p} : HeldHonestly(q, evs, n),
         \A t \in b.trades : TradedHonestly(t),
         NEW price \in Int, NEW at \in Int, NEW reason \in Exits,
         TradedHonestly(TradeOf(p, price, at, reason))
  PROVE  LET c == Closed(b, p.signal.symbol, price, at, reason)
         IN  Booked(c, evs, n) /\ c.pending = b.pending
<1> DEFINE c == Closed(b, p.signal.symbol, price, at, reason)
           t == TradeOf(p, price, at, reason)
<1>1. \A x \in b.trades : x.signal # p.signal
  <2>1. In(b.positions, p.signal)
    BY DEF In
  <2>2. QED
    BY <2>1, OnePlace DEF In
<1>2. t.signal = p.signal
  BY DEF TradeOf
<1> HIDE DEF c, t
<1>3. /\ Typed(c) /\ Balanced(c) /\ OnePer(c)
      /\ c.pending = b.pending /\ c.rejects = b.rejects
      /\ c.positions = b.positions \ {p} /\ c.trades = b.trades \cup {t}
  BY <1>1, ClosingKeeps DEF c, t
<1>4. Placed(c, evs, n)
  <2>1. \A s : Coming(evs, s) <=> Coming(evs, s)
    OBVIOUS
  <2>2. QED
    BY <1>2, <1>3, <2>1, PlacedClosing
<1>5. Honest(c, evs, n)
  BY <1>3 DEF Honest, t
<1>6. OnlyToday(c)
  BY <1>3 DEF OnlyToday
<1>7. QED
  BY <1>3, <1>4, <1>5, <1>6 DEF Booked, c

(* A bar closes: the position is marked, or closed at its stop.            *)
LEMMA CloseStep ==
  ASSUME NEW e, Handling(e), e.kind = "close"
  PROVE  Booked(BarCloses(e.item), events \ {e}, session)
<1> DEFINE bar == e.item
           left == events \ {e}
<1>1. /\ bar \in bars /\ e.symbol = bar.symbol /\ bar.at \in Int /\ bar.open \in Int
      /\ bar.low \in Int /\ bar.close \in Int /\ e = CloseOf(bar) /\ CloseHappens(bar)
      /\ \A b : OpenOf(b) # e /\ (CloseOf(b) = e => b = bar)
      /\ \A s : Coming(left, s) <=> Coming(events, s)
  BY BeforeBar
<1>2. /\ Typed(book) /\ Balanced(book) /\ OnePer(book) /\ Placed(book, events, session)
      /\ Honest(book, events, session) /\ OnlyToday(book) /\ IsBook(book)
  BY BeforeBar
<1>3. ASSUME NEW o \in book.pending PROVE SentHonestly(o, left, session)
  BY <1>1, <1>2, OrderStays DEF Honest
<1>4. ASSUME NEW p \in book.positions, p.signal.symbol # bar.symbol
      PROVE  HeldHonestly(p, left, session)
  <2>1. HeldHonestly(p, events, session)
    BY <1>2 DEF Honest
  <2>2. QED
    BY <1>1, <1>4, <2>1, OthersStay
<1>5. CASE ~Holds(book.positions, bar.symbol)
  <2>1. BarCloses(bar) = book
    BY <1>5 DEF BarCloses
  <2>2. \A p \in book.positions : HeldHonestly(p, left, session)
    BY <1>4, <1>5 DEF Holds
  <2>3. Booked(book, left, session)
    BY <1>3, <2>2, NothingHappens
  <2>4. QED
    BY <2>1, <2>3
<1>6. ASSUME NEW p \in book.positions, p.signal.symbol = bar.symbol
      PROVE  Booked(BarCloses(bar), left, session)
  <2>1. /\ Of(book.positions, bar.symbol) = p /\ Holds(book.positions, bar.symbol)
        /\ Without(book.positions, bar.symbol) = book.positions \ {p}
    BY <1>2, <1>6, OnlyOne DEF OnePer, Holds
  <2>2. p \in Holdings /\ HeldHonestly(p, events, session) /\ Decided(p.signal, p.signal.day)
    BY <1>2 DEF Typed, Honest, HeldHonestly
  <2>3. /\ p.signal \in Signal /\ p.sent \in Int /\ p.units \in Int /\ p.risk \in Int
        /\ p.filled \in Int /\ p.entry \in Int /\ p.fee \in Int /\ p.mark \in Int
        /\ p = [signal |-> p.signal, sent |-> p.sent, units |-> p.units, risk |-> p.risk,
                filled |-> p.filled, entry |-> p.entry, fee |-> p.fee, mark |-> p.mark]
    BY <2>2 DEF Holdings
  <2>4. p.signal.stop \in Int
    BY <2>3 DEF Signal
  <2>5. \A q \in book.positions \ {p} : q.signal.symbol # bar.symbol
    BY <1>2, <1>6 DEF OnePer
  <2>6. CASE ~Concerns(bar, p) \/ (Concerns(bar, p) /\ bar.low > p.signal.stop)
    <3>1. HeldHonestly(p, left, session)
      <4>1. \A b \in bars :
              b.symbol = p.signal.symbol /\ b.at >= p.filled /\ b.low <= p.signal.stop /\ CloseHappens(b)
                => e # CloseOf(b)
        BY <1>1, <2>3, <2>4, <2>6 DEF Concerns
      <4>2. \A b \in bars : e # OpenOf(b)
        BY <1>1
      <4>3. QED
        BY <2>2, <4>1, <4>2, PositionStays
    <3>2. \A q \in book.positions : HeldHonestly(q, left, session)
      BY <1>4, <2>5, <3>1
    <3>3. Booked(book, left, session)
      BY <1>3, <3>2, NothingHappens
    <3>4. CASE ~Concerns(bar, p)
      <4>1. BarCloses(bar) = book
        BY <2>1, <3>4 DEF BarCloses
      <4>2. QED
        BY <3>3, <4>1
    <3>5. CASE Concerns(bar, p) /\ bar.low > p.signal.stop
      <4> DEFINE q == [p EXCEPT !.mark = bar.close]
                 P == (book.positions \ {p}) \cup {q}
                 c == [book EXCEPT !.positions = P]
      <4>1. BarCloses(bar) = c
        BY <2>1, <3>5 DEF BarCloses
      <4>2. q = [signal |-> p.signal, sent |-> p.sent, units |-> p.units, risk |-> p.risk,
                 filled |-> p.filled, entry |-> p.entry, fee |-> p.fee, mark |-> bar.close]
        BY <2>3
      <4> HIDE DEF q, P
      <4>3. q \in Holdings /\ q.signal = p.signal /\ q.sent = p.sent /\ q.filled = p.filled
            /\ Spent(q) = Spent(p)
        BY <1>1, <2>3, <4>2 DEF Holdings, Spent
      <4>4. /\ IsBook(c) /\ c.cash = book.cash /\ c.pending = book.pending
            /\ c.positions = P /\ c.trades = book.trades /\ c.rejects = book.rejects
        BY <1>2 DEF IsBook
      <4> HIDE DEF c
      <4>5. Typed(c) /\ Balanced(c) /\ OnePer(c)
        BY <1>2, <4>3, <4>4, MarkingKeeps DEF P
      <4>6. Placed(c, left, session)
        <5>1. \A s : In(c.positions, s) <=> In(book.positions, s)
          BY <4>3, <4>4 DEF In, P
        <5>2. QED
          BY <1>1, <1>2, <4>4, <5>1, PlacedStaying
      <4>7. Honest(c, left, session)
        <5>1. HeldHonestly(q, left, session)
          BY <3>1, <4>3 DEF HeldHonestly, FilledHonestly
        <5>2. \A x \in c.positions : HeldHonestly(x, left, session)
          BY <3>2, <4>4, <5>1 DEF P
        <5>3. QED
          BY <1>2, <1>3, <4>4, <5>2 DEF Honest
      <4>8. OnlyToday(c)
        BY <1>2, <4>3, <4>4 DEF OnlyToday, P
      <4>9. QED
        BY <4>1, <4>5, <4>6, <4>7, <4>8 DEF Booked
    <3>6. QED
      BY <2>6, <3>4, <3>5
  <2>7. CASE Concerns(bar, p) /\ ~(bar.low > p.signal.stop)
    <3> DEFINE q == [p EXCEPT !.mark = bar.close]
               P == (book.positions \ {p}) \cup {q}
               m == [book EXCEPT !.positions = P]
               price == Min({bar.open, p.signal.stop})
               at == ClosedAt(bar)
    <3>1. BarCloses(bar) = Closed(m, bar.symbol, price, at, "STOP_CONSERVATIVE")
      BY <2>1, <2>7 DEF BarCloses
    <3>2. q = [signal |-> p.signal, sent |-> p.sent, units |-> p.units, risk |-> p.risk,
               filled |-> p.filled, entry |-> p.entry, fee |-> p.fee, mark |-> bar.close]
      BY <2>3
    <3> HIDE DEF q, P
    <3>3. q \in Holdings /\ q.signal = p.signal /\ q.sent = p.sent /\ q.filled = p.filled
          /\ q.units = p.units /\ q.entry = p.entry /\ q.fee = p.fee /\ Spent(q) = Spent(p)
      BY <1>1, <2>3, <3>2 DEF Holdings, Spent
    <3>4. /\ IsBook(m) /\ m.cash = book.cash /\ m.pending = book.pending
          /\ m.positions = P /\ m.trades = book.trades /\ m.rejects = book.rejects
      BY <1>2 DEF IsBook
    <3> HIDE DEF m
    <3>5. Typed(m) /\ Balanced(m) /\ OnePer(m)
      BY <1>2, <3>3, <3>4, MarkingKeeps DEF P
    <3>6. Placed(m, left, session)
      <4>1. \A s : In(m.positions, s) <=> In(book.positions, s)
        BY <3>3, <3>4 DEF In, P
      <4>2. QED
        BY <1>1, <1>2, <3>4, <4>1, PlacedStaying
    <3>7. OnlyToday(m)
      BY <1>2, <3>3, <3>4 DEF OnlyToday, P
    <3>8. price \in Int /\ at \in Int
      BY <1>1, <2>4, SmallerIs, CloseComesLater DEF Handling
    <3>9. TradedHonestly(TradeOf(q, price, at, "STOP_CONSERVATIVE"))
      <4>1. bar.low <= p.signal.stop
        BY <1>1, <2>4, <2>7
      <4>2. TradedHonestly(TradeOf(p, price, at, "STOP_CONSERVATIVE"))
        BY <1>6, <2>2, <2>7, <4>1, StopsHonestly
      <4>3. TradeOf(q, price, at, "STOP_CONSERVATIVE") = TradeOf(p, price, at, "STOP_CONSERVATIVE")
        BY <3>3 DEF TradeOf
      <4>4. QED
        BY <4>2, <4>3
    <3>10. \A x \in m.positions \ {q} : HeldHonestly(x, left, session)
      BY <1>4, <2>5, <3>4 DEF P
    <3>11. \A t \in m.trades : TradedHonestly(t)
      BY <1>2, <3>4 DEF Honest
    <3>12. q \in m.positions /\ Decided(q.signal, q.signal.day) /\ q.signal.symbol = bar.symbol
      BY <1>6, <2>2, <3>3, <3>4 DEF P
    <3> HIDE DEF price, at
    <3>13. "STOP_CONSERVATIVE" \in Exits
      BY DEF Exits
    <3>14. \A o \in m.pending : SentHonestly(o, left, session)
      BY <1>3, <3>4
    <3> HIDE DEF left, bar
    <3>15. Booked(Closed(m, q.signal.symbol, price, at, "STOP_CONSERVATIVE"), left, session)
      BY <3>5, <3>6, <3>7, <3>8, <3>9, <3>10, <3>11, <3>12, <3>13, <3>14, ClosingStep
    <3>16. QED
      BY <3>1, <3>12, <3>15
  <2>8. QED
    BY <2>6, <2>7
<1>7. QED
  BY <1>5, <1>6 DEF Holds

(* What a fill makes of an order.                                          *)
LEMMA PositionIs ==
  ASSUME NEW o \in Orders, NEW bar, bar.at \in Int, bar.open \in Int
  PROVE  LET p == Position(o, bar)
         IN  /\ p \in Holdings /\ p.signal = o.signal /\ p.sent = o.sent /\ p.filled = bar.at
             /\ Spent(p) = p.units * p.entry + p.fee
<1> DEFINE p == Position(o, bar)
           price == Executable(bar.open, 1)
           fee == Fee(o.decision.units, price)
<1>1. o.signal \in Signal /\ o.sent \in Int /\ o.decision \in Approval
  BY DEF Orders
<1>2. o.decision.units \in Int /\ o.decision.risk \in Int
  BY <1>1 DEF Approval
<1>3. price \in Int /\ fee \in Int
  BY <1>2, MoneyIsWhole
<1>4. p = [signal |-> o.signal, sent |-> o.sent, units |-> o.decision.units,
           risk |-> o.decision.risk, filled |-> bar.at, entry |-> price, fee |-> fee,
           mark |-> bar.open]
  BY DEF Position
<1> HIDE DEF price, fee, p
<1>5. p \in Holdings /\ p.signal = o.signal /\ p.sent = o.sent /\ p.filled = bar.at
  BY <1>1, <1>2, <1>3, <1>4 DEF Holdings
<1>6. QED
  BY <1>5 DEF Spent, p

(* A fill: a position, or a trade if the fill risks too much.              *)
LEMMA FillStep ==
  ASSUME NEW e, Handling(e), e.kind = "open", NEW o \in book.pending,
         o.signal.symbol = e.item.symbol, o.sent < e.item.at, e.item.at < EntriesEnd(session)
  PROVE  Booked(Filled(book, o, e.item), events \ {e}, session)
<1> DEFINE bar == e.item
           left == events \ {e}
           p == Position(o, bar)
           P == Without(book.positions, bar.symbol) \cup {p}
           O == Without(book.pending, bar.symbol)
           cash == book.cash - (p.units * p.entry + p.fee)
           held == [book EXCEPT !.pending = O, !.cash = cash, !.positions = P]
           m == IF PostFillRisk(p.units, p.entry, p.signal.stop) > p.risk
                THEN Incident(held, {bar.symbol}, bar.at, "POST_FILL_RISK_EXCEEDED")
                ELSE held
<1>1. /\ bar \in bars /\ e.symbol = bar.symbol /\ bar.at \in Int /\ bar.open \in Int
      /\ \A s : Coming(left, s) <=> Coming(events, s)
      /\ Typed(book) /\ Balanced(book) /\ OnePer(book) /\ Placed(book, events, session)
      /\ Honest(book, events, session) /\ OnlyToday(book) /\ IsBook(book)
  BY BeforeBar
<1>2. o \in Orders
  BY <1>1 DEF Typed
<1>3. /\ p \in Holdings /\ p.signal = o.signal /\ p.sent = o.sent /\ p.filled = bar.at
      /\ Spent(p) = p.units * p.entry + p.fee
  BY <1>1, <1>2, PositionIs
<1>4. O = book.pending \ {o} /\ P = book.positions \cup {p}
  <2>1. O = book.pending \ {o}
    BY <1>1, OnlyOne DEF OnePer
  <2>2. Without(book.positions, bar.symbol) = book.positions
    BY <1>1 DEF Without, OnePer
  <2>3. QED
    BY <2>1, <2>2
<1>5. HeldHonestly(p, left, session)
  <2> HIDE DEF p
  <2>1. QED
    BY <1>2, <1>3, FillsHonestly
<1> HIDE DEF p, P, O
<1>6. /\ IsBook(held) /\ held.pending = O /\ held.positions = P /\ held.trades = book.trades
      /\ held.rejects = book.rejects /\ held.cash = book.cash - Spent(p)
  <2>1. cash = book.cash - Spent(p)
    BY <1>3
  <2> HIDE DEF cash
  <2>2. QED
    BY <1>1, <2>1 DEF IsBook
<1>7. /\ Filled(book, o, bar) =
           IF PostFillRisk(p.units, p.entry, p.signal.stop) > p.risk
           THEN Closed(m, bar.symbol, bar.open, bar.at, "POST_FILL_RISK_EXIT") ELSE m
  BY DEF Filled, p, P, O
<1> HIDE DEF held
<1>8. /\ IsBook(m) /\ m.pending = O /\ m.positions = P /\ m.trades = book.trades
      /\ m.rejects = book.rejects /\ m.cash = book.cash - Spent(p)
  BY <1>6, IncidentIs
<1> HIDE DEF m, bar, left
<1>9. Typed(m) /\ Balanced(m) /\ OnePer(m)
  BY <1>1, <1>3, <1>4, <1>8, HoldingKeeps
<1>10. Placed(m, left, session)
  BY <1>1, <1>3, <1>4, <1>8, PlacedHolding
<1>11. Honest(m, left, session)
  <2>1. \A x \in m.pending : x \in book.pending /\ x.signal.symbol # e.symbol
    BY <1>1, <1>4, <1>8 DEF OnePer, bar
  <2>2. \A x \in m.positions : \/ x \in book.positions /\ x.signal.symbol # e.symbol
                               \/ HeldHonestly(x, left, session)
    BY <1>1, <1>4, <1>5, <1>8 DEF OnePer, bar
  <2>3. QED
    BY <1>1, <1>8, <2>1, <2>2, HonestAfter DEF left
<1>12. o.signal.day = session /\ p.signal.day = session /\ Decided(p.signal, session)
  BY <1>1, <1>3, DecidedIs DEF Honest, SentHonestly, Handling
<1>13. OnlyToday(m)
  <2>1. \A x \in book.pending : x.signal.day = session
    BY <1>1, DecidedIs DEF Honest, SentHonestly, Handling
  <2>2. QED
    BY <1>1, <1>4, <1>8, <1>12, <2>1 DEF OnlyToday
<1>14. CASE PostFillRisk(p.units, p.entry, p.signal.stop) > p.risk
  <2>1. TradedHonestly(TradeOf(p, bar.open, bar.at, "POST_FILL_RISK_EXIT"))
    <3>1. TradedHonestly(TradeOf(p, bar.open, p.filled, "POST_FILL_RISK_EXIT"))
      BY <1>3, <1>5, ClosesAtOnce DEF Handling
    <3>2. QED
      BY <1>3, <3>1
  <2>2. "POST_FILL_RISK_EXIT" \in Exits
    BY DEF Exits
  <2>3. p \in m.positions /\ p.signal.symbol = bar.symbol
    BY <1>3, <1>4, <1>8 DEF bar
  <2>4. /\ \A x \in m.pending : SentHonestly(x, left, session)
        /\ \A x \in m.positions \ {p} : HeldHonestly(x, left, session)
        /\ \A x \in m.trades : TradedHonestly(x)
    BY <1>11 DEF Honest
  <2>5. Booked(Closed(m, p.signal.symbol, bar.open, bar.at, "POST_FILL_RISK_EXIT"), left, session)
    BY <1>1, <1>9, <1>10, <1>12, <1>13, <2>1, <2>2, <2>3, <2>4, ClosingStep
  <2>6. QED
    BY <1>7, <1>14, <2>3, <2>5 DEF bar, left
<1>15. CASE ~(PostFillRisk(p.units, p.entry, p.signal.stop) > p.risk)
  BY <1>7, <1>9, <1>10, <1>11, <1>13, <1>15 DEF Booked, bar, left
<1>16. QED
  BY <1>14, <1>15

(* A bar opens: the scheduled close, or the pending entry.                 *)
LEMMA OpenStep ==
  ASSUME NEW e, Handling(e), e.kind = "open"
  PROVE  Booked(BarOpens(e.item), events \ {e}, session)
<1> DEFINE bar == e.item
           left == events \ {e}
<1>1. /\ bar \in bars /\ e.symbol = bar.symbol /\ bar.at \in Int /\ bar.open \in Int
      /\ e = OpenOf(bar)
      /\ \A b : CloseOf(b) # e /\ (OpenOf(b) = e => b = bar)
      /\ \A s : Coming(left, s) <=> Coming(events, s)
  BY BeforeBar
<1>2. /\ Typed(book) /\ Balanced(book) /\ OnePer(book) /\ Placed(book, events, session)
      /\ Honest(book, events, session) /\ OnlyToday(book) /\ IsBook(book)
  BY BeforeBar
<1>3. ASSUME NEW x \in book.pending, x.signal.symbol # bar.symbol PROVE SentHonestly(x, left, session)
  <2>1. SentHonestly(x, events, session)
    BY <1>2 DEF Honest
  <2>2. QED
    BY <1>1, <1>3, <2>1, OthersStay
<1>4. ASSUME NEW p \in book.positions, p.signal.symbol # bar.symbol
      PROVE  HeldHonestly(p, left, session)
  <2>1. HeldHonestly(p, events, session)
    BY <1>2 DEF Honest
  <2>2. QED
    BY <1>1, <1>4, <2>1, OthersStay
<1>5. ASSUME NEW p \in book.positions, p.signal.symbol = bar.symbol
      PROVE  Booked(BarOpens(bar), left, session)
  <2>1. /\ Of(book.positions, bar.symbol) = p /\ Holds(book.positions, bar.symbol)
        /\ ~Holds(book.pending, bar.symbol)
    BY <1>2, <1>5, OnlyOne DEF OnePer, Holds
  <2>2. p \in Holdings /\ HeldHonestly(p, events, session) /\ Decided(p.signal, p.signal.day)
    BY <1>2 DEF Typed, Honest, HeldHonestly
  <2>3. p.signal.day \in Int
    BY <2>2, DecidedIs DEF Handling
  <2>4. FlattenAt(p.signal.day) \in Int
    BY <2>3, DayInOrder
  <2>5. \A x \in book.pending : SentHonestly(x, left, session)
    BY <1>3, <2>1 DEF Holds
  <2>6. \A q \in book.positions \ {p} : HeldHonestly(q, left, session)
    BY <1>2, <1>4, <1>5 DEF OnePer
  <2>7. CASE bar.at >= FlattenAt(p.signal.day)
    <3> DEFINE c == Closed(book, bar.symbol, bar.open, bar.at, "SCHEDULED_CLOSE")
    <3>1. ScheduledClose(book, bar) = c
      BY <2>1, <2>7 DEF ScheduledClose
    <3>2. TradedHonestly(TradeOf(p, bar.open, bar.at, "SCHEDULED_CLOSE"))
      BY <2>2, <2>7, ClosesOnSchedule
    <3>3. "SCHEDULED_CLOSE" \in Exits
      BY DEF Exits
    <3>4. Placed(book, left, session)
      <4> HIDE DEF left
      <4>1. QED
        BY <1>1, <1>2, PlacedStaying
    <3>5. \A t \in book.trades : TradedHonestly(t)
      BY <1>2 DEF Honest
    <3> HIDE DEF left, bar, c
    <3>6. Booked(c, left, session) /\ c.pending = book.pending
      BY <1>1, <1>2, <1>5, <2>2, <2>5, <2>6, <3>2, <3>3, <3>4, <3>5, ClosingStep DEF c
    <3>7. BarOpens(bar) = c
      BY <2>1, <3>1, <3>6 DEF BarOpens, Entered
    <3>8. QED
      BY <3>6, <3>7
  <2>8. CASE ~(bar.at >= FlattenAt(p.signal.day))
    <3>1. BarOpens(bar) = book
      BY <2>1, <2>8 DEF BarOpens, ScheduledClose, Entered
    <3>2. HeldHonestly(p, left, session)
      <4>1. \A b \in bars : b.symbol = p.signal.symbol /\ b.at >= FlattenAt(p.signal.day) => e # OpenOf(b)
        BY <1>1, <2>8
      <4>2. \A b \in bars : e # CloseOf(b)
        BY <1>1
      <4>3. QED
        BY <2>2, <4>1, <4>2, PositionStays
    <3>3. \A q \in book.positions : HeldHonestly(q, left, session)
      BY <2>6, <3>2
    <3>4. Booked(book, left, session)
      BY <2>5, <3>3, NothingHappens
    <3>5. QED
      BY <3>1, <3>4
  <2>9. QED
    BY <2>7, <2>8
<1>6. CASE ~Holds(book.positions, bar.symbol)
  <2>1. ScheduledClose(book, bar) = book
    BY <1>6 DEF ScheduledClose
  <2>2. \A q \in book.positions : HeldHonestly(q, left, session)
    BY <1>4, <1>6 DEF Holds
  <2>3. BarOpens(bar) = Entered(book, bar)
    BY <2>1 DEF BarOpens
  <2>4. CASE ~Holds(book.pending, bar.symbol)
    <3>1. BarOpens(bar) = book
      BY <2>3, <2>4 DEF Entered
    <3>2. \A x \in book.pending : SentHonestly(x, left, session)
      BY <1>3, <2>4 DEF Holds
    <3>3. Booked(book, left, session)
      BY <2>2, <3>2, NothingHappens
    <3>4. QED
      BY <3>1, <3>3
  <2>5. ASSUME NEW o \in book.pending, o.signal.symbol = bar.symbol
        PROVE  Booked(BarOpens(bar), left, session)
    <3>1. /\ Of(book.pending, bar.symbol) = o /\ Holds(book.pending, bar.symbol)
          /\ Without(book.pending, bar.symbol) = book.pending \ {o}
      BY <1>2, <2>5, OnlyOne DEF OnePer, Holds
    <3>2. \A x \in book.pending \ {o} : SentHonestly(x, left, session)
      BY <1>2, <1>3, <2>5 DEF OnePer
    <3>3. o.sent \in Int /\ SentHonestly(o, events, session)
      BY <1>2 DEF Typed, Orders, Honest
    <3>4. CASE bar.at <= o.sent
      <4>1. BarOpens(bar) = book
        BY <2>3, <3>1, <3>4 DEF Entered
      <4>2. SentHonestly(o, left, session)
        <5>1. \A b \in bars : b.symbol = o.signal.symbol /\ b.at > o.sent => e # OpenOf(b)
          BY <1>1, <3>3, <3>4
        <5>2. QED
          BY <3>3, <5>1, OrderStays
      <4>3. \A x \in book.pending : SentHonestly(x, left, session)
        BY <3>2, <4>2
      <4>4. Booked(book, left, session)
        BY <2>2, <4>3, NothingHappens
      <4>5. QED
        BY <4>1, <4>4
    <3>5. CASE ~(bar.at <= o.sent) /\ bar.at >= EntriesEnd(session)
      <4> DEFINE O == book.pending \ {o}
                 m == [book EXCEPT !.pending = O]
                 c == Rejected(m, o.signal, "PENDING_ENTRY_WINDOW_CLOSED")
                 r == [signal |-> o.signal, reason |-> "PENDING_ENTRY_WINDOW_CLOSED"]
      <4>1. BarOpens(bar) = c
        BY <2>3, <3>1, <3>5 DEF Entered
      <4>2. r.signal = o.signal
        OBVIOUS
      <4> HIDE DEF O
      <4>3. /\ IsBook(m) /\ m.cash = book.cash /\ m.pending = O /\ m.positions = book.positions
            /\ m.trades = book.trades /\ m.rejects = book.rejects
        BY <1>2, OrdersAre
      <4> HIDE DEF m
      <4>4. /\ IsBook(c) /\ c.cash = m.cash /\ c.pending = m.pending /\ c.positions = m.positions
            /\ c.trades = m.trades /\ c.rejects = m.rejects \cup {r}
        BY <4>3, RejectedIs
      <4> HIDE DEF c, r, left, bar
      <4>5. Typed(c) /\ Balanced(c) /\ OnePer(c)
        BY <1>2, <4>3, <4>4, RefusingKeeps DEF O
      <4>6. Placed(c, left, session)
        BY <1>1, <1>2, <4>2, <4>3, <4>4, PlacedRefusing DEF O
      <4>7. Honest(c, left, session)
        BY <1>2, <2>2, <3>2, <4>3, <4>4 DEF Honest, O
      <4>8. OnlyToday(c)
        BY <1>2, <4>3, <4>4 DEF OnlyToday, O
      <4>9. QED
        BY <4>1, <4>5, <4>6, <4>7, <4>8 DEF Booked
    <3>6. CASE ~(bar.at <= o.sent) /\ ~(bar.at >= EntriesEnd(session))
      <4>1. BarOpens(bar) = Filled(book, o, bar)
        BY <2>3, <3>1, <3>6 DEF Entered
      <4>2. o.sent < bar.at /\ bar.at < EntriesEnd(session)
        <5>1. EntriesEnd(session) \in Int
          BY DayInOrder DEF Handling
        <5>2. QED
          BY <1>1, <3>3, <3>6, <5>1
      <4>3. QED
        BY <2>5, <4>1, <4>2, FillStep
    <3>7. QED
      BY <3>4, <3>5, <3>6
  <2>6. QED
    BY <2>4, <2>5 DEF Holds
<1>7. QED
  BY <1>5, <1>6 DEF Holds

-----------------------------------------------------------------------------
(* The steps of the trading.                                               *)

(* While a session is traded every session is decided.                     *)
LEMMA AllDecided ==
  ASSUME TradingInv, session # 0
  PROVE  \A d \in Sessions : decisions[d] # Unset
  BY DEF TradingInv, Undecided

(* A due event is handled.                                                 *)
LEMMA DueIsHandled ==
  ASSUME SoundDataset(bars), DecisionsInv, replayed \in BOOLEAN, TradingInv, NEW e \in Due, events # {}
  PROVE  Handling(e)
<1>1. session \in Sessions /\ events \subseteq EventsOf(session)
  BY DEF TradingInv, HandledFirst
<1>2. session \in Int /\ session # 0
  BY <1>1, ReplayAssumption DEF Sessions
<1>3. decisions[session] # Unset
  BY <1>1, <1>2, AllDecided
<1>4. IsFiniteSet(events) /\ \A f \in events : f.at \in Int
  <2>1. IsFiniteSet(EventsOf(session))
    BY <1>1, <1>3, EventsAreFinite
  <2>2. IsFiniteSet(events)
    BY <1>1, <2>1, FS_Subset
  <2>3. \A f \in events : f.at \in Int
    BY <1>1, <1>3, EventTimes
  <2>4. QED
    BY <2>2, <2>3
<1>5. e \in events /\ \A f \in events : e.at <= f.at /\ (f.at = e.at => NotAfter(e, f))
  BY <1>4, DueIs
<1>6. QED
  BY <1>1, <1>2, <1>3, <1>4, <1>5 DEF Handling, TradingInv

(* An event is handled.                                                    *)
LEMMA HandleStep ==
  ASSUME SoundDataset(bars), DecisionsInv, replayed \in BOOLEAN, TradingInv, HandleEvent
  PROVE  TradingInv'
<1>1. PICK e \in Due :
        /\ events' = events \ {e}
        /\ book' = CASE e.kind = "signal" -> Submit(e)
                     [] e.kind = "open"   -> BarOpens(e.item)
                     [] e.kind = "close"  -> BarCloses(e.item)
        /\ seen' = IF e.kind = "signal" THEN seen \cup {e.item} ELSE seen
  BY DEF HandleEvent
<1>2. /\ bars' = bars /\ decisions' = decisions /\ replayed' = replayed /\ current' = current
      /\ session' = session /\ reference' = reference /\ realized_start' = realized_start
      /\ events # {}
  BY DEF HandleEvent, replayVars
<1>3. Handling(e)
  BY <1>1, <1>2, DueIsHandled
<1>4. /\ session \in Sessions /\ session # 0 /\ e \in events /\ events \subseteq EventsOf(session)
      /\ e.kind = "signal" \/ e.kind = "open" \/ e.kind = "close"
  <2>1. session \in Sessions /\ e \in events /\ events \subseteq EventsOf(session)
    BY <1>3 DEF Handling
  <2>2. session # 0
    BY <2>1, ReplayAssumption DEF Sessions
  <2>3. e.kind = "signal" \/ e.kind = "open" \/ e.kind = "close"
    BY <2>1, EventIs
  <2>4. QED
    BY <2>1, <2>2, <2>3
<1>5. Booked(book', events', session')
  <2>1. CASE e.kind = "signal"
    <3>1. book' = Submit(e)
      BY <1>1, <2>1
    <3>2. reference \in Int /\ realized_start \in Int
      BY DEF TradingInv
    <3>3. Booked(Submit(e), events \ {e}, session)
      BY <1>3, <2>1, <3>2, SubmitStep
    <3>4. QED
      BY <1>1, <1>2, <3>1, <3>3
  <2>2. CASE e.kind = "open"
    <3>1. book' = BarOpens(e.item)
      BY <1>1, <2>2
    <3>2. Booked(BarOpens(e.item), events \ {e}, session)
      BY <1>3, <2>2, OpenStep
    <3>3. QED
      BY <1>1, <1>2, <3>1, <3>2
  <2>3. CASE e.kind = "close"
    <3>1. book' = BarCloses(e.item)
      BY <1>1, <2>3
    <3>2. Booked(BarCloses(e.item), events \ {e}, session)
      BY <1>3, <2>3, CloseStep
    <3>3. QED
      BY <1>1, <1>2, <3>1, <3>2
  <2>4. QED
    BY <1>4, <2>1, <2>2, <2>3
<1>6. HandledFirst(events', session')
  BY <1>1, <1>2, <1>3, HandledNext
<1>7. Booked(book, events, session)' /\ HandledFirst(events, session)'
  BY <1>2, <1>5, <1>6, BookedCarries
<1>8. SeenBefore(seen', events', session')
  <2>1. \A s \in seen : s.day \in Int /\ s.day <= session /\ ~Coming(events, s)
    BY DEF TradingInv, SeenBefore
  <2>2. \A s : Coming(events', s) => Coming(events, s)
    BY <1>1 DEF Coming
  <2>3. ASSUME e.kind = "signal" PROVE e.item.day \in Int /\ e.item.day <= session /\ ~Coming(events', e.item)
    <3>1. e \in EventsOf(session) /\ decisions[session] # Unset
      BY <1>3, <1>4 DEF Handling
    <3>2. Decided(e.item, session)
      BY <1>4, <2>3, <3>1, EventIs DEF Decided
    <3>3. e.item.day = session /\ session \in Int
      BY <3>2, DecidedIs
    <3>4. ~Coming(events \ {e}, e.item)
      BY <1>4, <2>3, ComingAfter
    <3>5. QED
      BY <1>1, <3>3, <3>4
  <2>4. QED
    BY <1>1, <1>2, <2>1, <2>2, <2>3 DEF SeenBefore
<1>9. SeenBefore(seen, events, session)'
  BY <1>8 DEF SeenBefore
<1>10. Undecided' = Undecided
  BY <1>2 DEF Undecided
<1>11. QED
  BY <1>2, <1>4, <1>7, <1>9, <1>10 DEF TradingInv

(* A session begins, in books where nothing is pending.                    *)
LEMMA BeginStep ==
  ASSUME SoundDataset(bars), DecisionsInv, replayed \in BOOLEAN, TradingInv, Undecided = {},
         UNCHANGED <<bars, decisions, replayed, current, seen>>, Typed(book),
         session \in Sessions \cup {0}, Begin(session + 1),
         Typed(book'), Balanced(book'), OnePer(book'), Placed(book', events', session + 1),
         \A p \in book'.positions : p \in book.positions, \A t \in book'.trades : t \in book.trades,
         book'.pending = {}, session = 0 => book.positions = {},
         events = {}
  PROVE  TradingInv'
<1> DEFINE n == session
<1>1. n \in 0..Days /\ n \in Int /\ Days \in Nat /\ n + 1 \in 0..(Days + 1) /\ n + 1 # 0
      /\ (n # 0 => n \in Sessions)
  BY ReplayAssumption DEF Sessions
<1>2. /\ session' = n + 1 /\ events' = (IF n + 1 \in Sessions THEN EventsOf(n + 1) ELSE {})
      /\ reference' = book.cash + Gross /\ realized_start' = Realized
  BY DEF Begin
<1>3. reference' \in Int /\ realized_start' \in Int
  BY <1>2, BooksAreNumbers DEF Typed
<1>4. n + 1 \in Sessions => decisions[n + 1] # Unset
  BY DEF Undecided
<1>5. Honest(book, events, n) /\ SeenBefore(seen, events, n)
  BY DEF TradingInv, Booked
<1>6. Honest(book', events', session')
  <2>1. ASSUME NEW p \in book'.positions PROVE HeldHonestly(p, events', n + 1)
    <3>1. p \in book.positions /\ p \in Holdings /\ HeldHonestly(p, {}, n) /\ n # 0
      BY <1>5 DEF Typed, Honest
    <3>2. n \in Sessions
      BY <1>1, <3>1
    <3> HIDE DEF n
    <3>3. QED
      BY <1>1, <1>2, <1>4, <3>1, <3>2, BeginsHonestly
  <2>2. \A t \in book'.trades : TradedHonestly(t)
    BY <1>5 DEF Honest
  <2>3. QED
    BY <1>2, <2>1, <2>2 DEF Honest
<1>7. OnlyToday(book')
  BY DEF OnlyToday
<1>8. Booked(book', events', session')
  BY <1>2, <1>6, <1>7 DEF Booked
<1>9. HandledFirst(events', session')
  BY <1>2 DEF HandledFirst
<1>10. Booked(book, events, session)' /\ HandledFirst(events, session)'
  BY <1>8, <1>9, BookedCarries
<1>11. SeenBefore(seen', events', session')
  <2> SUFFICES ASSUME NEW s \in seen PROVE s.day \in Int /\ s.day <= n + 1 /\ ~Coming(events', s)
    BY <1>2 DEF SeenBefore
  <2>1. s.day \in Int /\ s.day <= n
    BY <1>5 DEF SeenBefore
  <2>2. ASSUME Coming(events', s) PROVE FALSE
    <3>1. PICK e \in events' : e.kind = "signal" /\ e.item = s
      BY <2>2 DEF Coming
    <3>2. n + 1 \in Sessions /\ e \in EventsOf(n + 1)
      BY <1>2
    <3>3. Decided(s, n + 1)
      BY <1>4, <3>1, <3>2, EventIs DEF Decided
    <3>4. s.day = n + 1
      BY <3>3, DecidedIs
    <3>5. QED
      BY <1>1, <2>1, <3>4
  <2>3. s.day <= n + 1
    BY <1>1, <2>1
  <2>4. QED
    BY <2>1, <2>2, <2>3
<1>12. SeenBefore(seen, events, session)'
  BY <1>11 DEF SeenBefore
<1>13. Undecided' = {}
  BY DEF Undecided
<1>14. ~replayed' => current' = Unset
  BY DEF TradingInv
<1>15. QED
  BY <1>1, <1>2, <1>3, <1>10, <1>12, <1>13, <1>14 DEF TradingInv

(* The book at the end of a session: nothing pending, its signals refused. *)
LEMMA EndBookIs ==
  ASSUME IsBook(book)
  PROVE  /\ IsBook(EndBook) /\ EndBook.cash = book.cash /\ EndBook.pending = {}
         /\ EndBook.positions = book.positions /\ EndBook.trades = book.trades
         /\ \A s : In(EndBook.rejects, s) <=> In(book.rejects, s) \/ In(book.pending, s)
<1> DEFINE unfilled == {[signal |-> o.signal, reason |-> "UNFILLED_NO_EXECUTABLE_BAR"] :
                          o \in book.pending}
           settled == [book EXCEPT !.pending = {}, !.rejects = @ \cup unfilled]
<1>1. ASSUME NEW s PROVE In(unfilled, s) <=> In(book.pending, s)
  <2>1. ASSUME NEW x \in unfilled, x.signal = s PROVE In(book.pending, s)
    BY <2>1 DEF In
  <2>2. ASSUME NEW o \in book.pending, o.signal = s PROVE In(unfilled, s)
    <3>1. [signal |-> o.signal, reason |-> "UNFILLED_NO_EXECUTABLE_BAR"] \in unfilled
      OBVIOUS
    <3>2. [signal |-> o.signal, reason |-> "UNFILLED_NO_EXECUTABLE_BAR"].signal = s
      BY <2>2
    <3> HIDE DEF unfilled
    <3>3. QED
      BY <3>1, <3>2 DEF In
  <2> HIDE DEF unfilled
  <2>3. QED
    BY <2>1, <2>2 DEF In
<1> HIDE DEF unfilled
<1>2. /\ IsBook(settled) /\ settled.cash = book.cash /\ settled.pending = {}
      /\ settled.positions = book.positions /\ settled.trades = book.trades
      /\ settled.rejects = book.rejects \cup unfilled
  BY DEF IsBook
<1>3. \A s : In(settled.rejects, s) <=> In(book.rejects, s) \/ In(book.pending, s)
  <2>1. \A s : In(book.rejects \cup unfilled, s) <=> In(book.rejects, s) \/ In(unfilled, s)
    BY DEF In
  <2>2. QED
    BY <1>1, <1>2, <2>1
<1>4. \/ EndBook = settled
      \/ EndBook = Incident(settled, {p.signal.symbol : p \in book.positions}, MarketClose(session),
                            "UNRESOLVED_EXPOSURE_NO_EXIT_BAR")
  BY DEF EndBook, unfilled
<1> HIDE DEF settled
<1>5. CASE EndBook = settled
  BY <1>2, <1>3, <1>5
<1>6. ASSUME NEW symbols, NEW at, NEW reason, EndBook = Incident(settled, symbols, at, reason)
      PROVE  /\ IsBook(EndBook) /\ EndBook.cash = book.cash /\ EndBook.pending = {}
             /\ EndBook.positions = book.positions /\ EndBook.trades = book.trades
             /\ EndBook.rejects = settled.rejects
  BY <1>2, <1>6, IncidentIs
<1>7. QED
  BY <1>3, <1>4, <1>5, <1>6

(* A session ends.                                                         *)
LEMMA EndStep ==
  ASSUME SoundDataset(bars), DecisionsInv, replayed \in BOOLEAN, TradingInv, EndSession
  PROVE  TradingInv'
<1>1. /\ session \in Sessions /\ events = {} /\ book' = EndBook /\ Begin(session + 1)
      /\ UNCHANGED <<bars, decisions, replayed, current, seen>>
  BY DEF EndSession, replayVars
<1>2. session \in Int /\ session # 0 /\ Undecided = {}
  BY <1>1, ReplayAssumption DEF Sessions, TradingInv
<1>3. Typed(book) /\ Balanced(book) /\ OnePer(book) /\ Placed(book, {}, session)
  BY <1>1 DEF TradingInv, Booked
<1>4. IsBook(book)
  BY <1>3 DEF Typed
<1>5. /\ IsBook(book') /\ book'.cash = book.cash /\ book'.pending = {}
      /\ book'.positions = book.positions /\ book'.trades = book.trades
      /\ \A s : In(book'.rejects, s) <=> In(book.rejects, s) \/ In(book.pending, s)
  BY <1>1, <1>4, EndBookIs
<1>6. Typed(book') /\ Balanced(book') /\ OnePer(book')
  <2>1. book'.pending \subseteq book.pending
    BY <1>5
  <2>2. QED
    BY <1>3, <1>5, <2>1, RefusingKeeps
<1>7. session + 1 \in Sessions => decisions[session + 1] # Unset
  BY <1>2 DEF Undecided
<1>8. events' = (IF session + 1 \in Sessions THEN EventsOf(session + 1) ELSE {})
  BY <1>1 DEF Begin
<1>9. Placed(book', events', session + 1)
  BY <1>2, <1>3, <1>5, <1>7, <1>8, PlacedBeginning
<1>10. QED
  BY <1>1, <1>2, <1>3, <1>5, <1>6, <1>9, BeginStep

(* The first session begins, with the books untouched.                     *)
LEMMA FirstStep ==
  ASSUME SoundDataset(bars), DecisionsInv, replayed \in BOOLEAN, TradingInv, FirstSession
  PROVE  TradingInv'
<1>1. /\ session = 0 /\ Undecided = {} /\ book' = book /\ Begin(session + 1)
      /\ UNCHANGED <<bars, decisions, replayed, current, seen>>
  BY DEF FirstSession, replayVars
<1>2. session \notin Sessions /\ session \in Int
  BY <1>1, ReplayAssumption DEF Sessions
<1>3. events = {}
  BY <1>2 DEF TradingInv, HandledFirst
<1>4. Typed(book) /\ Balanced(book) /\ OnePer(book) /\ Placed(book, {}, session)
  BY <1>3 DEF TradingInv, Booked
<1>5. book.pending = {} /\ book.positions = {}
  BY <1>1 DEF TradingInv
<1>6. session + 1 \in Sessions => decisions[session + 1] # Unset
  BY <1>1 DEF Undecided
<1>7. events' = (IF session + 1 \in Sessions THEN EventsOf(session + 1) ELSE {})
  BY <1>1 DEF Begin
<1>8. \A s : In(book.rejects, s) <=> In(book.rejects, s) \/ In(book.pending, s)
  BY <1>5 DEF In
<1>9. Placed(book, events', session + 1)
  BY <1>2, <1>4, <1>5, <1>6, <1>7, <1>8, PlacedBeginning
<1>10. QED
  BY <1>1, <1>3, <1>4, <1>5, <1>9, BeginStep

(* A step of the replay decides sessions while nothing is traded.          *)
LEMMA DecidingStep ==
  ASSUME DecisionsInv, DecisionsInv', TradingInv, Undecided # {},
         UNCHANGED <<bars, replayed, tradeVars>>, replayed \/ UNCHANGED current
  PROVE  TradingInv'
<1>1. session = 0 /\ session' = 0
  BY DEF TradingInv, tradeVars
<1>2. /\ book.pending = {} /\ book.positions = {} /\ book.trades = {} /\ book.rejects = {} /\ seen = {}
      /\ book' = book /\ seen' = seen /\ reference' = reference /\ realized_start' = realized_start
  BY <1>1 DEF TradingInv, tradeVars
<1>3. session \notin Sessions
  BY <1>1, ReplayAssumption DEF Sessions
<1>4. events = {} /\ events' = {}
  BY <1>3 DEF TradingInv, HandledFirst, tradeVars
<1>5. Typed(book') /\ Balanced(book') /\ OnePer(book')
  BY <1>2 DEF TradingInv, Booked
<1>6. Placed(book, events, session)'
  <2> SUFFICES ASSUME NEW d \in Sessions, decisions'[d] # Unset, NEW s \in decisions'[d].signals
               PROVE  One(s.day > 0, Coming({}, s), In({}, s), In({}, s), In({}, s), In({}, s))
    BY <1>1, <1>2, <1>4 DEF Placed
  <2>1. s.day = d /\ d > 0
    BY ReplayAssumption DEF DecisionsInv, SoundDecision, Sessions
  <2>2. QED
    BY <2>1 DEF One, Coming, In
<1>7. Honest(book, events, session)' /\ OnlyToday(book')
  BY <1>2 DEF Honest, OnlyToday
<1>8. HandledFirst(events, session)' /\ SeenBefore(seen, events, session)'
  <2>1. session' \notin Sessions
    BY <1>1, <1>3
  <2>2. QED
    BY <1>2, <1>4, <2>1 DEF HandledFirst, SeenBefore
<1>9. Booked(book, events, session)'
  BY <1>5, <1>6, <1>7 DEF Booked, Typed, Balanced, OnePer, OnlyToday
<1>10. ~replayed' => current' = Unset
  BY DEF TradingInv
<1>11. QED
  BY <1>1, <1>2, <1>8, <1>9, <1>10, ReplayAssumption DEF TradingInv

-----------------------------------------------------------------------------
(* A step of the backtester.                                               *)

(* What was decided stays when nothing is decided.                         *)
LEMMA DecidedStays ==
  ASSUME ReplayInv, UNCHANGED replayVars
  PROVE  ReplayInv'
  BY DEF ReplayInv, DecisionsInv, CurrentInv, Undecided, Deciding, replayVars

(* A step keeps both invariants, and what is decided matches the decision  *)
(* over the complete data.                                                 *)
LEMMA ResearchStep ==
  ASSUME ReplayInv, replayed \in BOOLEAN, TradingInv, Next
  PROVE  ReplayInv' /\ TradingInv' /\ replayed' \in BOOLEAN /\ (Matches \/ UNCHANGED replayVars)
<1>0. SoundDataset(bars) /\ DecisionsInv
  BY DEF ReplayInv
<1>1. CASE Replay
  <2>1. ReplayStep /\ replayed /\ UNCHANGED <<replayed, tradeVars>>
    BY <1>1 DEF Replay
  <2>2. ReplayInv' /\ Matches
    BY <2>1, CutoffStep, PublicationStep, DecidedStep DEF ReplayStep
  <2>3. Undecided # {}
    BY <2>1 DEF ReplayStep, AtCutoff, AtPublication, SessionDecided, ReplayInv, CurrentInv
  <2>4. UNCHANGED bars
    BY <2>1 DEF ReplayStep, AtCutoff, AtPublication, SessionDecided
  <2>5. DecisionsInv'
    BY <2>2 DEF ReplayInv
  <2>6. TradingInv'
    BY <1>0, <2>1, <2>3, <2>4, <2>5, DecidingStep
  <2>7. QED
    BY <2>1, <2>2, <2>6
<1>2. CASE Direct
  <2>1. DecidedAtOnce /\ ~replayed /\ UNCHANGED <<replayed, tradeVars>>
    BY <1>2 DEF Direct
  <2>2. current = Unset
    BY <2>1 DEF TradingInv
  <2>3. ReplayInv' /\ Matches
    BY <2>1, <2>2, AtOnceStep
  <2>4. Undecided # {} /\ UNCHANGED <<bars, current>>
    BY <2>1 DEF DecidedAtOnce
  <2>5. DecisionsInv'
    BY <2>3 DEF ReplayInv
  <2>6. TradingInv'
    BY <1>0, <2>1, <2>4, <2>5, DecidingStep
  <2>7. QED
    BY <2>1, <2>3, <2>6
<1>3. CASE FirstSession \/ HandleEvent \/ EndSession
  <2>1. UNCHANGED <<replayVars, replayed>>
    BY <1>3 DEF FirstSession, HandleEvent, EndSession
  <2>2. TradingInv'
    BY <1>0, <1>3, FirstStep, HandleStep, EndStep
  <2>3. QED
    BY <2>1, <2>2, DecidedStays
<1>4. QED
  BY <1>1, <1>2, <1>3 DEF Next

(* Nothing is decided or traded yet.                                       *)
Untouched ==
  /\ clock = 0 /\ current = Unset /\ decisions = [d \in Sessions |-> Unset] /\ raised = Unset
  /\ session = 0 /\ events = {} /\ seen = {} /\ reference = 0 /\ realized_start = 0
  /\ book = [cash |-> Allocated, pending |-> {}, positions |-> {}, trades |-> {},
             rejects |-> {}, incidents |-> {}]

(* A sound dataset starts the replay and the trading.                      *)
LEMMA ResearchStarts ==
  ASSUME SoundDataset(bars), Untouched, replayed \in BOOLEAN
  PROVE  ReplayInv /\ TradingInv /\ replayed \in BOOLEAN
<1>1. ReplayInv
  BY ReplayStarts DEF Untouched
<1>2. session = 0 /\ session \notin Sessions
  BY ReplayAssumption DEF Untouched, Sessions
<1>3. /\ events = {} /\ seen = {} /\ reference = 0 /\ realized_start = 0
      /\ book = [cash |-> Allocated, pending |-> {}, positions |-> {}, trades |-> {},
                 rejects |-> {}, incidents |-> {}]
  BY DEF Untouched
<1>4. /\ IsBook(book) /\ book.cash = Allocated /\ book.pending = {} /\ book.positions = {}
      /\ book.trades = {} /\ book.rejects = {}
  BY <1>3 DEF IsBook
<1>5. Allocated \in Int
  BY RiskAssumption
<1>6. Typed(book)
  BY <1>4, <1>5, FS_EmptySet DEF Typed
<1>7. Balanced(book)
  <2>1. Gained({}) = 0 /\ Bound({}) = 0
    BY SumEmpty DEF Gained, Bound
  <2>2. QED
    BY <1>4, <1>5, <2>1 DEF Balanced
<1>8. OnePer(book) /\ OnlyToday(book) /\ Honest(book, events, session)
  BY <1>4 DEF OnePer, OnlyToday, Honest
<1>9. \A d \in Sessions : decisions[d] = Unset
  BY DEF Untouched
<1>10. Placed(book, events, session)
  BY <1>9 DEF Placed
<1>11. HandledFirst(events, session) /\ SeenBefore(seen, events, session)
  BY <1>2, <1>3 DEF HandledFirst, SeenBefore
<1>12. Booked(book, events, session)
  BY <1>6, <1>7, <1>8, <1>10 DEF Booked
<1>13. session \in 0..(Days + 1) /\ reference \in Int /\ realized_start \in Int
  BY <1>2, <1>3, ReplayAssumption
<1>14. current = Unset
  BY DEF Untouched
<1>15. QED
  BY <1>1, <1>2, <1>3, <1>4, <1>11, <1>12, <1>13, <1>14 DEF TradingInv

-----------------------------------------------------------------------------
(* What the invariant says.                                                *)

(* One place out of six.                                                   *)
LEMMA OneIsCounted ==
  ASSUME NEW places, DOMAIN places = {1, 2, 3, 4, 5, 6},
         One(places[1], places[2], places[3], places[4], places[5], places[6])
  PROVE  Cardinality({i \in DOMAIN places : places[i]}) = 1
<1> DEFINE S == {i \in {1, 2, 3, 4, 5, 6} : places[i]}
<1>1. \E i \in {1, 2, 3, 4, 5, 6} : S = {i}
  <2>1. CASE places[1]
    <3>1. S = {1}
      BY <2>1 DEF One
    <3>2. QED
      BY <3>1
  <2>2. CASE places[2]
    <3>1. S = {2}
      BY <2>2 DEF One
    <3>2. QED
      BY <3>1
  <2>3. CASE places[3]
    <3>1. S = {3}
      BY <2>3 DEF One
    <3>2. QED
      BY <3>1
  <2>4. CASE places[4]
    <3>1. S = {4}
      BY <2>4 DEF One
    <3>2. QED
      BY <3>1
  <2>5. CASE places[5]
    <3>1. S = {5}
      BY <2>5 DEF One
    <3>2. QED
      BY <3>1
  <2>6. CASE places[6]
    <3>1. S = {6}
      BY <2>6 DEF One
    <3>2. QED
      BY <3>1
  <2>7. QED
    BY <2>1, <2>2, <2>3, <2>4, <2>5, <2>6 DEF One
<1>2. {i \in DOMAIN places : places[i]} = S
  OBVIOUS
<1> HIDE DEF S
<1>3. QED
  BY <1>1, <1>2, FS_Singleton

(* The books balance (BooksBalance).                                       *)
LEMMA BooksDoBalance ==
  ASSUME DecisionsInv, TradingInv
  PROVE  BooksBalance
<1>1. Balanced(book) /\ OnePer(book) /\ Placed(book, events, session)
  BY DEF TradingInv, Booked
<1>2. Realized = Gained(book.trades)
  BY DEF Realized, Sum, SumFunction, Gained
<1>3. Sum(Spent, book.positions) = Bound(book.positions)
  BY DEF Sum, SumFunction, Bound
<1>4. book.cash = Allocated + Realized - Sum(Spent, book.positions)
  BY <1>1, <1>2, <1>3 DEF Balanced
<1>5. ASSUME NEW d \in Sessions, decisions[d] # Unset, NEW s \in decisions[d].signals
      PROVE  LET places == Places(s) IN Cardinality({i \in DOMAIN places : places[i]}) = 1
  <2>1. One(s.day > session, Coming(events, s), In(book.pending, s), In(book.positions, s),
            In(book.trades, s), In(book.rejects, s))
    BY <1>1, <1>5 DEF Placed
  <2>2. DOMAIN Places(s) = {1, 2, 3, 4, 5, 6}
    BY DEF Places
  <2>3. /\ Places(s)[1] <=> s.day > session
        /\ Places(s)[2] <=> Coming(events, s)
        /\ Places(s)[3] <=> In(book.pending, s)
        /\ Places(s)[4] <=> In(book.positions, s)
        /\ Places(s)[5] <=> In(book.trades, s)
        /\ Places(s)[6] <=> In(book.rejects, s)
    BY DEF Places, Coming, In
  <2>4. One(Places(s)[1], Places(s)[2], Places(s)[3], Places(s)[4], Places(s)[5], Places(s)[6])
    BY <2>1, <2>3 DEF One
  <2>5. QED
    BY <2>2, <2>4, OneIsCounted
<1>6. \A x, y \in book.pending \cup book.positions : x.signal.symbol = y.signal.symbol => x = y
  BY <1>1 DEF OnePer
<1>7. QED
  BY <1>4, <1>5, <1>6 DEF BooksBalance

(* The fills are honest (FillsAreHonest).                                  *)
LEMMA FillsDoHonestly ==
  ASSUME SoundDataset(bars), TradingInv
  PROVE  FillsAreHonest
<1>1. Honest(book, events, session) /\ session \in Int
  BY ReplayAssumption DEF TradingInv, Booked
<1>2. \A t \in book.trades : TradedHonestly(t)
  BY <1>1 DEF Honest
<1>3. ASSUME NEW p \in book.positions, NEW b \in bars, b.symbol = p.signal.symbol,
             b.at >= FlattenAt(p.signal.day)
      PROVE  b.day >= session
  <2>1. Ahead(b, OpenOf(b), events, session)
    BY <1>1, <1>3 DEF Honest, HeldHonestly
  <2>2. b.day \in Int
    BY BarInSession
  <2>3. QED
    BY <1>1, <2>1, <2>2 DEF Ahead
<1>4. QED
  BY <1>2, <1>3 DEF FillsAreHonest, TradedHonestly, FilledHonestly

-----------------------------------------------------------------------------
(* Lemmas about sets.                                                      *)

(* The larger of two instants bounds both.                                 *)
LEMMA MaxOfTwo ==
  ASSUME NEW a \in Int, NEW b \in Int
  PROVE  Max({a, b}) = IF a >= b THEN a ELSE b
<1> DEFINE Best(x) == \A y \in {a, b} : x >= y
<1>1. \E x \in {a, b} : Best(x)
  OBVIOUS
<1>2. Max({a, b}) = CHOOSE x \in {a, b} : Best(x)
  BY DEF Max
<1>3. Max({a, b}) \in {a, b} /\ Best(Max({a, b}))
  <2> HIDE DEF Best
  <2> QED
    BY <1>1, <1>2
<1>4. QED
  BY <1>3

(* Two members of a set that holds at most one are the same.               *)
LEMMA AtMostOne ==
  ASSUME NEW S, IsFiniteSet(S), ~(Cardinality(S) > 1), NEW x \in S, NEW y \in S
  PROVE  x = y
<1> SUFFICES ASSUME x # y PROVE FALSE
  OBVIOUS
<1>1. IsFiniteSet({x}) /\ Cardinality({x}) = 1
  BY FS_Singleton
<1>2. Cardinality({x} \cup {y}) = 2
  BY <1>1, FS_AddElement
<1>3. Cardinality({x} \cup {y}) <= Cardinality(S)
  BY FS_Subset
<1>4. Cardinality(S) \in Nat
  BY FS_CardinalityType
<1>5. QED
  BY <1>2, <1>3, <1>4

-----------------------------------------------------------------------------
(* What is on disk comes from the server: the locals of the capture under  *)
(* way name one of the client's symbols and a page its server holds, and so*)
(* do the pages of every directory.                                        *)
Job ==
  [symbol : Range(Captured), stage : {"next", "send", "store", "save"}, page : Nat,
   seen : SUBSET Nat, attempt : Nat, status : {"INCOMPLETE", "COMPLETE"}]
Capture ==
  [pages : Seq(Nat), status : {"INCOMPLETE", "COMPLETE", Nothing}, damaged : BOOLEAN]

ServerInv ==
  /\ runs \in Nat
  /\ runs > 0 => catalogue \in Catalogues /\ provider \in {"massive", "alpaca"}
  /\ runs = 0 => queue = << >> /\ job = Nothing /\ \A s \in Range(Captured) : disk[s] = Nothing
Held(s) ==
  disk[s] \in Capture /\ \A i \in DOMAIN disk[s].pages : disk[s].pages[i] \in DOMAIN catalogue[s]
JobInv ==
  job # Nothing =>
    job \in Job /\ job.page \in DOMAIN catalogue[job.symbol] /\ Held(job.symbol)
DiskInv ==
  /\ DOMAIN disk = Range(Captured)
  /\ \A s \in Range(Captured) : disk[s] = Nothing \/ Held(s)
CaptureInv == ServerInv /\ queue \in Seq(Range(Captured)) /\ JobInv /\ DiskInv

(* What the server's pages are, once a client asked it.                    *)
LEMMA ServerPages ==
  ASSUME ServerInv, runs > 0, NEW s \in Range(Captured)
  PROVE  /\ DOMAIN catalogue[s] \subseteq Nat /\ 1 \in DOMAIN catalogue[s]
         /\ \A n \in DOMAIN catalogue[s] :
              /\ IsFiniteSet(PageRows(s, n)) /\ \A r \in PageRows(s, n) : r.symbol = s
              /\ NextOf(s, n) \in DOMAIN catalogue[s] \cup {LastPage, NoField}
  BY DownloadAssumption DEF ServerInv, PageRows, NextOf

(* A directory that is written stays one whose pages the server holds.     *)
LEMMA Written ==
  ASSUME DiskInv, NEW s \in Range(Captured), NEW d \in Capture,
         \A i \in DOMAIN d.pages : d.pages[i] \in DOMAIN catalogue[s],
         disk' = [disk EXCEPT ![s] = d], UNCHANGED catalogue
  PROVE  DiskInv' /\ Held(s)'
<1>1. /\ DOMAIN disk' = Range(Captured) /\ disk'[s] = d
      /\ \A t \in Range(Captured) : t # s => disk'[t] = disk[t]
  BY DEF DiskInv
<1>2. Held(s)'
  BY <1>1 DEF Held
<1>3. ASSUME NEW t \in Range(Captured), t # s PROVE disk'[t] = Nothing \/ Held(t)'
  BY <1>1, <1>3 DEF DiskInv, Held
<1>4. QED
  BY <1>1, <1>2, <1>3 DEF DiskInv

(* A step of the downloads keeps it.                                       *)
LEMMA CaptureStep ==
  ASSUME CaptureInv, DownloadStep
  PROVE  CaptureInv'
<1> USE DEF CaptureInv
<1>1. CASE StartClient
  <2>1. ServerInv'
    BY <1>1, DownloadAssumption DEF StartClient, ServerInv
  <2>2. (queue \in Seq(Range(Captured)))'
    BY <1>1, DownloadAssumption DEF StartClient
  <2>3. JobInv'
    BY <1>1 DEF StartClient, JobInv
  <2>4. DiskInv'
    <3>1. CASE runs = 0
      BY <1>1, <3>1 DEF StartClient, ServerInv, DiskInv
    <3>2. CASE runs # 0
      BY <1>1, <3>2 DEF StartClient, DiskInv, Held
    <3>3. QED
      BY <3>1, <3>2
  <2>5. QED
    BY <2>1, <2>2, <2>3, <2>4
<1>2. CASE BeginCapture
  <2>1. PICK s \in Range(Captured) : s = Head(queue)
    BY <1>2 DEF BeginCapture
  <2>2. /\ runs > 0 /\ Tail(queue) \in Seq(Range(Captured)) /\ queue' = Tail(queue)
        /\ UNCHANGED <<runs, provider, catalogue>>
    BY <1>2 DEF BeginCapture, ServerInv
  <2>3. 1 \in DOMAIN catalogue[s]
    BY <2>2, ServerPages
  <2> DEFINE new == [pages |-> << >>, status |-> Nothing, damaged |-> FALSE]
  <2>4. new \in Capture /\ DOMAIN new.pages = {} /\ disk' = [disk EXCEPT ![s] = new]
    BY <1>2, <2>1 DEF BeginCapture, Capture
  <2>5. DiskInv' /\ Held(s)'
    <3> HIDE DEF new
    <3>1. QED
      BY <2>2, <2>4, Written
  <2>6. JobInv'
    <3>1. job' \in Job /\ job'.symbol = s /\ job'.page = 1
      BY <1>2, <2>1 DEF BeginCapture, Job
    <3>2. QED
      BY <2>2, <2>3, <2>5, <3>1 DEF JobInv, Held
  <2>7. ServerInv'
    BY <2>2 DEF ServerInv
  <2>8. QED
    BY <2>2, <2>5, <2>6, <2>7
<1>3. ASSUME UNCHANGED <<provider, catalogue, queue, disk, runs>>, job # Nothing,
             job' \in Job, job'.page \in DOMAIN catalogue[job'.symbol],
             job'.symbol = job.symbol
      PROVE  CaptureInv'
  BY <1>3 DEF ServerInv, JobInv, DiskInv, Held
<1>4. ASSUME UNCHANGED <<provider, catalogue, queue, disk, runs, job>>
      PROVE  CaptureInv'
  BY <1>4 DEF ServerInv, JobInv, DiskInv, Held
<1>5. job # Nothing => Failed(job) \in Job /\ Failed(job).page = job.page
                       /\ Failed(job).symbol = job.symbol
  BY DEF JobInv, Failed, Job
<1>6. ASSUME Fail, job # Nothing, UNCHANGED <<provider, catalogue, queue, disk, runs>>
      PROVE  CaptureInv'
  BY <1>3, <1>5, <1>6 DEF Fail, JobInv
<1>7. CASE NextPage
  <2>1. CASE Fail
    BY <1>6, <1>7, <2>1 DEF NextPage
  <2>2. CASE ~Fail
    <3>1. job' = [job EXCEPT !.stage = "send", !.attempt = 1,
                             !.seen = IF Massive THEN @ \cup {job.page} ELSE @]
      BY <1>7, <2>2 DEF NextPage
    <3>2. job # Nothing /\ job \in Job
      BY <1>7 DEF NextPage, JobInv
    <3>3. job' \in Job /\ job'.page = job.page /\ job'.symbol = job.symbol
      BY <3>1, <3>2 DEF Job
    <3>4. QED
      BY <1>3, <1>7, <3>2, <3>3 DEF NextPage, JobInv
  <2>3. QED
    BY <2>1, <2>2
<1>8. CASE Sleep
  BY <1>4, <1>6, <1>8 DEF Sleep, Sending
<1>9. ASSUME job # Nothing, UNCHANGED <<provider, catalogue, queue, disk, runs>>,
             job' = [job EXCEPT !.stage = "store"]
      PROVE  CaptureInv'
  <2>1. job' \in Job /\ job'.page = job.page /\ job'.symbol = job.symbol
    BY <1>9 DEF JobInv, Job
  <2>2. QED
    BY <1>3, <1>9, <2>1 DEF JobInv
<1>10. CASE PageReceived
  BY <1>6, <1>9, <1>10 DEF PageReceived, Sending
<1>11. CASE Limited
  <2>1. job # Nothing /\ UNCHANGED <<provider, catalogue, queue, disk, runs>>
    BY <1>11 DEF Limited, Sending
  <2>2. \/ job' = Failed(job) \/ Fail \/ job' = [job EXCEPT !.attempt = @ + 1]
    BY <1>11 DEF Limited
  <2>3. CASE job' = [job EXCEPT !.attempt = @ + 1]
    <3>1. job' \in Job /\ job'.page = job.page /\ job'.symbol = job.symbol
      BY <2>1, <2>3 DEF JobInv, Job
    <3>2. QED
      BY <1>3, <2>1, <3>1 DEF JobInv
  <2>4. QED
    BY <1>6, <2>1, <2>2, <2>3 DEF Fail
<1>12. CASE AnswerRefused
  BY <1>6, <1>12 DEF AnswerRefused, Sending
<1>13. CASE StorePage
  <2>1. PICK s \in Range(Captured), n \in DOMAIN catalogue[job.symbol] :
          s = job.symbol /\ n = job.page
    BY <1>13 DEF StorePage, JobInv, Job
  <2>2. /\ job # Nothing /\ job \in Job /\ n \in Nat /\ n \in DOMAIN catalogue[s] /\ Held(s)
        /\ runs > 0 /\ UNCHANGED <<provider, catalogue, queue, runs>>
    BY <1>13, <2>1 DEF StorePage, JobInv, Job, ServerInv
  <2>3. PICK next \in DOMAIN catalogue[s] \cup {LastPage, NoField} : job' = Followed(job, next)
    <3>1. job' = Followed(job, NextOf(s, n))
      BY <1>13, <2>1 DEF StorePage, NextOf
    <3>2. NextOf(s, n) \in DOMAIN catalogue[s] \cup {LastPage, NoField}
      BY <2>2, ServerPages
    <3>3. QED
      BY <3>1, <3>2
  <2> DEFINE d == [disk[s] EXCEPT !.pages = Append(@, n)]
  <2>4. disk' = [disk EXCEPT ![s] = d]
    BY <1>13, <2>1, <2>2 DEF StorePage
  <2>5. d \in Capture /\ d.pages = Append(disk[s].pages, n) /\ disk[s].pages \in Seq(Nat)
    <3>1. disk[s] \in Capture /\ n \in Nat
      BY <2>2 DEF Held
    <3>2. disk[s].pages \in Seq(Nat)
      BY <3>1 DEF Capture
    <3>3. Append(disk[s].pages, n) \in Seq(Nat)
      BY <3>1, <3>2
    <3>4. QED
      BY <3>1, <3>2, <3>3 DEF Capture
  <2>6. \A i \in DOMAIN d.pages : d.pages[i] \in DOMAIN catalogue[s]
    <3> HIDE DEF d
    <3>1. QED
      BY <2>2, <2>5 DEF Held
  <2>7. DiskInv' /\ Held(s)'
    <3> HIDE DEF d
    <3>1. QED
      BY <2>2, <2>4, <2>5, <2>6, Written
  <2>8. job' \in Job /\ job'.symbol = s /\ job'.page \in DOMAIN catalogue[s]
    <3>1. CASE next = LastPage \/ (next = NoField /\ Massive)
      BY <2>1, <2>2, <2>3, <3>1 DEF Followed, Ended, Failed, Job
    <3>2. CASE ~(next = LastPage \/ (next = NoField /\ Massive))
               /\ Alpaca /\ next \in job.seen \cup {NoField}
      BY <2>1, <2>2, <2>3, <3>2 DEF Followed, Failed, Job
    <3>3. CASE /\ ~(next = LastPage \/ (next = NoField /\ Massive))
               /\ ~(Alpaca /\ next \in job.seen \cup {NoField})
      <4>1. job' = [job EXCEPT !.page = next, !.stage = "next",
                               !.seen = IF Alpaca THEN @ \cup {next} ELSE @]
        BY <2>3, <3>3 DEF Followed
      <4>2. next \in DOMAIN catalogue[s] /\ DOMAIN catalogue[s] \subseteq Nat
        <5>1. Massive \/ Alpaca
          BY <2>2 DEF ServerInv, Massive, Alpaca
        <5>2. next \in DOMAIN catalogue[s]
          BY <2>3, <3>3, <5>1
        <5>3. QED
          BY <2>2, <5>2, ServerPages
      <4>3. QED
        BY <2>1, <2>2, <4>1, <4>2 DEF Job
    <3>4. QED
      BY <3>1, <3>2, <3>3
  <2>9. ServerInv'
    BY <2>2, <2>8 DEF ServerInv
  <2>10. QED
    BY <2>2, <2>7, <2>8, <2>9 DEF JobInv, Held
<1>14. CASE SaveCapture
  <2>1. PICK s \in Range(Captured) : s = job.symbol
    BY <1>14 DEF SaveCapture, JobInv, Job
  <2>2. /\ job \in Job /\ Held(s) /\ job' = Nothing /\ job # Nothing
        /\ runs > 0 /\ UNCHANGED <<provider, catalogue, queue, runs>>
    BY <1>14, <2>1 DEF SaveCapture, JobInv, ServerInv
  <2> DEFINE d == [disk[s] EXCEPT !.status = job.status]
  <2>3. d \in Capture /\ d.pages = disk[s].pages
    BY <2>2 DEF Held, Capture, Job
  <2>4. disk' = [disk EXCEPT ![s] = d]
    BY <1>14, <2>1 DEF SaveCapture
  <2>5. DiskInv'
    <3> HIDE DEF d
    <3>1. QED
      BY <2>2, <2>3, <2>4, Written DEF Held
  <2>6. QED
    BY <2>2, <2>5 DEF ServerInv, JobInv
<1>15. CASE Kill
  BY <1>15 DEF Kill, ServerInv, JobInv, DiskInv, Held
<1>16. CASE Damage
  <2>1. PICK s \in Range(Captured) :
          disk[s] # Nothing /\ disk' = [disk EXCEPT ![s].damaged = TRUE]
    BY <1>16 DEF Damage, DiskInv
  <2>2. Held(s) /\ job' = Nothing /\ UNCHANGED <<provider, catalogue, queue, runs>>
    BY <1>16, <2>1 DEF Damage, DiskInv
  <2> DEFINE d == [disk[s] EXCEPT !.damaged = TRUE]
  <2>3. d \in Capture /\ d.pages = disk[s].pages
    BY <2>2 DEF Held, Capture
  <2>4. disk' = [disk EXCEPT ![s] = d]
    BY <2>1
  <2>5. DiskInv'
    <3> HIDE DEF d
    <3>1. QED
      BY <2>2, <2>3, <2>4, Written DEF Held
  <2>6. runs > 0
    BY <2>1 DEF ServerInv
  <2>7. QED
    BY <2>2, <2>5, <2>6 DEF ServerInv, JobInv
<1>17. QED
  BY <1>1, <1>2, <1>7, <1>8, <1>10, <1>11, <1>12, <1>13, <1>14, <1>15, <1>16 DEF DownloadStep

-----------------------------------------------------------------------------
(* Approval.                                                               *)

(* The rows of a capture are finitely many, of its symbol, and the server's.*)
LEMMA CaptureRows ==
  ASSUME ServerInv, runs > 0, NEW s \in Range(Captured), Held(s)
  PROVE  /\ IsFiniteSet(DOMAIN disk[s].pages) /\ IsFiniteSet(Rows(s))
         /\ \A r \in Rows(s) :
              /\ r.symbol = s
              /\ \E n \in DOMAIN catalogue[s] : r \in PageRows(s, n)
              /\ \E i \in DOMAIN disk[s].pages : r \in PageRows(s, disk[s].pages[i])
<1> DEFINE pages == disk[s].pages
           rowsOf == [i \in DOMAIN pages |-> PageRows(s, pages[i])]
           sets == {rowsOf[i] : i \in DOMAIN pages}
<1>1. pages \in Seq(Nat) /\ \A i \in DOMAIN pages : pages[i] \in DOMAIN catalogue[s]
  BY DEF Held, Capture
<1>2. IsFiniteSet(DOMAIN pages)
  <2>1. DOMAIN pages = 1..Len(pages) /\ Len(pages) \in Nat
    BY <1>1
  <2>2. QED
    BY <2>1, FS_Interval
<1>3. rowsOf \in Surjection(DOMAIN pages, sets)
  BY DEF Surjection
<1>4. IsFiniteSet(sets)
  <2> HIDE DEF sets, rowsOf
  <2>1. QED
    BY <1>2, <1>3, FS_Surjection DEF ExistsSurjection
<1>5. \A x \in sets : IsFiniteSet(x)
  BY <1>1, ServerPages
<1>6. Rows(s) = UNION sets
  BY DEF Rows, Range
<1>7. IsFiniteSet(Rows(s))
  <2> HIDE DEF sets
  <2>1. QED
    BY <1>4, <1>5, <1>6, FS_UNION
<1>8. ASSUME NEW r \in Rows(s)
      PROVE  \E i \in DOMAIN pages : r \in PageRows(s, pages[i])
  BY <1>6, <1>8
<1>9. QED
  BY <1>1, <1>2, <1>7, <1>8, ServerPages

(* A minute that is not repeated has one row.                              *)
LEMMA OneRowAMinute ==
  ASSUME ServerInv, runs > 0, NEW s \in Range(Captured), Held(s), Repeated(s) = {},
         NEW r \in Rows(s), NEW q \in Rows(s), r.at = q.at
  PROVE  r = q
<1> DEFINE pages == disk[s].pages
<1>1. IsFiniteSet((DOMAIN pages) \X Rows(s))
  BY CaptureRows, FS_Product
<1>2. Copies(s, r.at) \subseteq (DOMAIN pages) \X Rows(s)
  BY DEF Copies
<1>3. IsFiniteSet(Copies(s, r.at))
  BY <1>1, <1>2, FS_Subset
<1>4. ~(Cardinality(Copies(s, r.at)) > 1)
  BY DEF Repeated, Times
<1>5. PICK i \in DOMAIN pages : r \in PageRows(s, pages[i])
  BY CaptureRows
<1>6. PICK j \in DOMAIN pages : q \in PageRows(s, pages[j])
  BY CaptureRows
<1>7. <<i, r>> \in Copies(s, r.at) /\ <<j, q>> \in Copies(s, r.at)
  BY <1>5, <1>6 DEF Copies
<1>8. <<i, r>> = <<j, q>>
  <2> HIDE DEF pages
  <2>1. QED
    BY <1>3, <1>4, <1>7, AtMostOne
<1>9. QED
  BY <1>8

(* A bar keeps its row's symbol and minute.                                *)
LEMMA BarOfRow ==
  ASSUME NEW r
  PROVE  AtBarClose(r).symbol = r.symbol /\ AtBarClose(r).at = r.at
  BY DEF AtBarClose

(* The approved dataset is whole.                                          *)
LEMMA ApprovedIsWhole ==
  ASSUME CaptureInv, Approve
  PROVE  LoadedIsWhole'
<1>1. /\ Approved /\ runs > 0 /\ UNCHANGED downloadVars
      /\ bars' = Archived \cup {AtBarClose(r) : r \in UNION {Loaded(s, Requested) : s \in Range(Captured)}}
  BY DEF Approve
<1>2. SUFFICES ASSUME NEW s \in Range(Captured)
               PROVE  /\ \A t \in Minutes(Requested) : \E b \in bars' : b.symbol = s /\ b.at = t
                      /\ \A b, c \in bars' : b.symbol = s /\ c.symbol = s /\ b.at = c.at => b = c
                      /\ \A b \in bars' : b.symbol = s =>
                           \E n \in DOMAIN catalogue[s] : \E r \in PageRows(s, n) : b = AtBarClose(r)
  BY <1>1 DEF LoadedIsWhole, downloadVars, PageRows
<1>3. ServerInv /\ \A q \in Range(Captured) : Held(q)
  BY <1>1 DEF CaptureInv, DiskInv, Approved, Readable
<1>4. Repeated(s) = {} /\ Minutes(Requested) \subseteq Times(Rows(s))
  BY <1>1 DEF Approved, Quality
<1>5. ASSUME NEW b \in bars', b.symbol = s
      PROVE  \E r \in Rows(s) : b = AtBarClose(r)
  <2>1. b \notin Archived
    BY <1>5, ArchivedAssumption
  <2>2. PICK q \in Range(Captured) : \E r \in Loaded(q, Requested) : b = AtBarClose(r)
    BY <1>1, <1>5, <2>1
  <2>3. PICK r \in Loaded(q, Requested) : b = AtBarClose(r)
    BY <2>2
  <2>4. r \in Rows(q) /\ r.symbol = q
    BY <1>1, <1>3, <2>3, CaptureRows DEF Loaded
  <2>5. QED
    BY <1>5, <2>3, <2>4, BarOfRow
<1>6. ASSUME NEW t \in Minutes(Requested)
      PROVE  \E b \in bars' : b.symbol = s /\ b.at = t
  <2>1. PICK r \in Rows(s) : r.at = t
    BY <1>4, <1>6 DEF Times
  <2>2. r \in Loaded(s, Requested)
    BY <1>6, <2>1 DEF Loaded
  <2>3. AtBarClose(r) \in bars'
    BY <1>1, <2>2
  <2>4. r.symbol = s
    BY <1>1, <1>3, <2>1, CaptureRows
  <2>5. QED
    BY <2>1, <2>3, <2>4, BarOfRow
<1>7. ASSUME NEW b \in bars', NEW c \in bars', b.symbol = s, c.symbol = s, b.at = c.at
      PROVE  b = c
  <2>1. PICK r \in Rows(s) : b = AtBarClose(r)
    BY <1>5, <1>7
  <2>2. PICK q \in Rows(s) : c = AtBarClose(q)
    BY <1>5, <1>7
  <2>3. r = q
    BY <1>1, <1>3, <1>4, <1>7, <2>1, <2>2, BarOfRow, OneRowAMinute
  <2>4. QED
    BY <2>1, <2>2, <2>3
<1>8. ASSUME NEW b \in bars', b.symbol = s
      PROVE  \E n \in DOMAIN catalogue[s] : \E r \in PageRows(s, n) : b = AtBarClose(r)
  BY <1>1, <1>3, <1>5, <1>8, CaptureRows
<1>9. QED
  BY <1>6, <1>7, <1>8

(* LoadedIsWhole: whatever pages the server links, and however often the   *)
(* download failed, was killed and run again, the replay gets one bar of   *)
(* each symbol for each minute of the sessions, and one the server holds   *)
(* (backtesting/a4.py approved_dataset over data/massive.py).              *)
THEOREM LoadedIsAlwaysWhole == PipelineSpec => []LoadedIsWhole
<1> DEFINE Inv == CaptureInv /\ LoadedIsWhole
<1>1. PipelineInit => Inv
  BY DownloadAssumption
     DEF PipelineInit, DownloadInit, CaptureInv, ServerInv, JobInv, DiskInv, LoadedIsWhole
<1>2. Inv /\ [PipelineNext]_pipelineVars => Inv'
  <2> SUFFICES ASSUME Inv, [PipelineNext]_pipelineVars PROVE Inv'
    OBVIOUS
  <2>1. CASE Download
    <3>1. CaptureInv'
      BY <2>1, CaptureStep, DownloadAssumption DEF Download
    <3>2. LoadedIsWhole'
      BY <2>1 DEF Download, vars, replayVars, LoadedIsWhole
    <3>3. QED
      BY <3>1, <3>2
  <2>2. ASSUME UNCHANGED downloadVars PROVE CaptureInv'
    BY <2>2 DEF downloadVars, CaptureInv, ServerInv, JobInv, DiskInv, Held
  <2>3. CASE Approve
    BY <2>2, <2>3, ApprovedIsWhole DEF Approve
  <2>4. ASSUME UNCHANGED downloadVars, UNCHANGED bars PROVE LoadedIsWhole'
    BY <2>4 DEF downloadVars, LoadedIsWhole, PageRows
  <2>5. CASE Research
    <3>1. UNCHANGED bars
      BY <2>5 DEF Research, Next, Replay, Direct, FirstSession, HandleEvent, EndSession,
                  ReplayStep, AtCutoff, AtPublication, SessionDecided, DecidedAtOnce, replayVars
    <3>2. QED
      BY <2>2, <2>4, <2>5, <3>1 DEF Research
  <2>6. CASE UNCHANGED pipelineVars
    BY <2>2, <2>4, <2>6 DEF pipelineVars, vars, replayVars
  <2>7. QED
    BY <2>1, <2>3, <2>5, <2>6 DEF PipelineNext
<1>3. QED
  BY <1>1, <1>2, PTL DEF PipelineSpec

-----------------------------------------------------------------------------
(* What is still to be waited for never outlasts the client's own mark, but *)
(* for the allowance a Massive capture used up with its last page, after   *)
(* which that capture sends nothing.                                       *)
Parting ==
  job # Nothing =>
    \/ job.stage = "save"
    \/ job.stage = "store" /\ catalogue[job.symbol][job.page].next \in {LastPage, NoField}

WaitInv ==
  /\ wait \in Nat /\ owed \in Nat /\ allowance \in Nat
  /\ owed <= wait
  /\ allowance <= wait \/ (Massive /\ Parting)

(* The client waits at least what the header asks.                         *)
LEMMA HeaderDelay ==
  ASSUME NEW header \in Headers, Usable(header)
  PROVE  /\ Delay(header) \in Nat /\ Pause(header) \in Nat
         /\ Pause(header) >= Delay(header)
         /\ Massive => Pause(header) >= Pace
<1>1. Waits \subseteq Nat /\ Pace \in Nat /\ DefaultWait \in Nat
  BY DownloadAssumption
<1>2. Delay(header) \in Nat
  BY <1>1 DEF Headers, Usable, Delay, Absent, Unusable
<1>3. Max({Pace, Delay(header)}) = IF Pace >= Delay(header) THEN Pace ELSE Delay(header)
  BY <1>1, <1>2, MaxOfTwo
<1>4. QED
  BY <1>1, <1>2, <1>3 DEF Pause

(* While a request is under way everything asked for is within the mark, and *)
(* once nothing is left to wait for, nothing is asked for.                  *)
LEMMA SendingOwes ==
  ASSUME WaitInv, Sending
  PROVE  allowance <= wait /\ (wait = 0 => owed = 0 /\ allowance = 0)
<1>1. ~Parting
  BY DEF Sending, Parting
<1>2. QED
  BY <1>1 DEF WaitInv

(* From there an answer asks for no more than it moves the mark.            *)
LEMMA AskedIsMarked ==
  ASSUME WaitInv, Sending, wait = 0, NEW time \in Nat, NEW rest \in Nat, NEW used \in Nat,
         rest <= time, Mark(time),
         owed' = owed \/ Asked(rest), allowance' = allowance \/ UsedUp(used),
         used <= time \/ UNCHANGED allowance \/ (Massive /\ Parting)'
  PROVE  WaitInv'
<1>1. owed = 0 /\ allowance = 0
  BY SendingOwes
<1>2. Max({owed, rest}) = rest /\ Max({allowance, used}) = used
  BY <1>1, MaxOfTwo
<1>3. /\ owed' \in {0, rest} /\ allowance' \in {0, used}
      /\ allowance' = 0 \/ used <= time \/ (Massive /\ Parting)'
  BY <1>1, <1>2 DEF Asked, UsedUp
<1>4. wait' = time
  BY DEF Mark
<1>5. wait' \in Nat /\ owed' \in Nat /\ allowance' \in Nat /\ owed' <= wait'
  BY <1>3, <1>4
<1>6. allowance' <= wait' \/ (Massive /\ Parting)'
  BY <1>3, <1>4
<1>7. QED
  BY <1>5, <1>6 DEF WaitInv

(* Nothing asked for is lost when nothing moves.                           *)
LEMMA WaitRests ==
  ASSUME WaitInv, UNCHANGED <<wait, owed, allowance, provider>>, allowance <= wait \/ Parting'
  PROVE  WaitInv'
BY DEF WaitInv, Massive

(* A step of the downloads keeps the invariant.                            *)
LEMMA WaitStep ==
  ASSUME WaitInv, CaptureInv, DownloadStep
  PROVE  WaitInv'
<1>0. job # Nothing => job \in Job /\ [job EXCEPT !.stage = "save"].stage = "save"
  BY DEF CaptureInv, JobInv, Job
<1>1. CASE StartClient
  BY <1>1 DEF StartClient, WaitInv
<1>2. CASE BeginCapture
  BY <1>2 DEF BeginCapture, WaitInv, Massive
<1>3. CASE NextPage
  <2>1. allowance <= wait
    BY <1>3 DEF NextPage, WaitInv, Parting
  <2>2. QED
    BY <1>3, <2>1, WaitRests DEF NextPage
<1>4. CASE Sleep
  <2>1. allowance <= wait
    BY <1>4, SendingOwes DEF Sleep
  <2>2. CASE UNCHANGED <<wait, owed, allowance>>
    BY <1>4, <2>1, <2>2, WaitRests DEF Sleep
  <2>3. CASE wait' = 0 /\ owed' = Max({0, owed - wait}) /\ allowance' = Max({0, allowance - wait})
    <3>1. /\ owed - wait \in Int /\ owed - wait <= 0
          /\ allowance - wait \in Int /\ allowance - wait <= 0
      BY <2>1 DEF WaitInv
    <3>2. Max({0, owed - wait}) = 0 /\ Max({0, allowance - wait}) = 0
      BY <3>1, MaxOfTwo
    <3>3. QED
      BY <2>3, <3>2 DEF WaitInv
  <2>4. QED
    BY <1>4, <2>2, <2>3 DEF Sleep
<1>5. CASE PageReceived
  <2> DEFINE last == Massive /\ catalogue[job.symbol][job.page].next \in {LastPage, NoField}
             store == job' = [job EXCEPT !.stage = "store"]
             rest == IF Massive THEN Mark(Pace) ELSE UNCHANGED wait
  <2>1. /\ Sending /\ wait = 0 /\ UNCHANGED <<provider, catalogue>>
        /\ IF Massive THEN Asked(Pace) ELSE UNCHANGED owed
    BY <1>5 DEF PageReceived
  <2>2. owed = 0 /\ allowance = 0 /\ Pace \in Nat
    BY <2>1, SendingOwes, DownloadAssumption
  <2>3. ASSUME rest, UNCHANGED allowance PROVE WaitInv'
    <3>1. CASE Massive
      BY <2>1, <2>2, <2>3, <3>1, AskedIsMarked
    <3>2. CASE ~Massive
      BY <2>1, <2>2, <2>3, <3>2, WaitRests
    <3>3. QED
      BY <3>1, <3>2
  <2>4. ASSUME NEW header \in Headers, Usable(header), store, UsedUp(Delay(header)),
               IF last THEN rest ELSE Mark(Pause(header))
        PROVE  WaitInv'
    <3>1. /\ Delay(header) \in Nat /\ Pause(header) \in Nat /\ Pause(header) >= Delay(header)
          /\ Massive => Pause(header) >= Pace
      BY <2>4, HeaderDelay
    <3>2. CASE last
      <4>1. job \in Job
        BY <1>0, <2>1 DEF Sending
      <4>2. job'.stage = "store" /\ job'.symbol = job.symbol /\ job'.page = job.page
        BY <2>4, <4>1 DEF Job
      <4>3. (Massive /\ Parting)'
        BY <2>1, <3>2, <4>2 DEF Parting, Massive
      <4>4. Mark(Pace) /\ Asked(Pace)
        BY <2>1, <2>4, <3>2
      <4>5. QED
        BY <2>1, <2>2, <2>4, <3>1, <4>3, <4>4, AskedIsMarked
    <3>3. CASE ~last
      <4>1. Mark(Pause(header))
        BY <2>4, <3>3
      <4>2. CASE Massive
        BY <2>1, <2>2, <2>4, <3>1, <4>1, <4>2, AskedIsMarked
      <4>3. CASE ~Massive
        BY <2>1, <2>2, <2>4, <3>1, <4>1, <4>3, AskedIsMarked
      <4>4. QED
        BY <4>2, <4>3
    <3>4. QED
      BY <3>2, <3>3
  <2>5. QED
    BY <1>5, <2>3, <2>4 DEF PageReceived
<1>6. CASE Limited
  <2>1. Sending /\ wait = 0 /\ UNCHANGED <<provider, allowance>>
    BY <1>6 DEF Limited
  <2>2. PICK header \in Headers :
          \/ Usable(header) /\ Mark(Delay(header)) /\ Asked(Delay(header))
          \/ UNCHANGED <<wait, owed>>
    BY <1>6 DEF Limited
  <2>3. CASE UNCHANGED <<wait, owed>>
    BY <2>1, <2>3, WaitRests, SendingOwes
  <2>4. CASE Usable(header) /\ Mark(Delay(header)) /\ Asked(Delay(header))
    <3>1. Delay(header) \in Nat
      BY <2>4, HeaderDelay
    <3>2. QED
      BY <2>1, <2>4, <3>1, AskedIsMarked
  <2>5. QED
    BY <2>2, <2>3, <2>4
<1>7. CASE AnswerRefused
  <2>1. Sending /\ wait = 0 /\ UNCHANGED <<provider, owed>>
    BY <1>7 DEF AnswerRefused
  <2>2. CASE UNCHANGED <<wait, allowance>>
    BY <2>1, <2>2, WaitRests, SendingOwes
  <2>3. ASSUME Alpaca, NEW header \in Headers \ {Unusable},
               Mark(Delay(header)), UsedUp(Delay(header))
        PROVE  WaitInv'
    <3>1. Usable(header)
      BY <2>3 DEF Usable
    <3>2. Delay(header) \in Nat
      BY <3>1, HeaderDelay
    <3>3. QED
      BY <2>1, <2>3, <3>2, AskedIsMarked
  <2>4. QED
    BY <1>7, <2>2, <2>3 DEF AnswerRefused
<1>8. CASE StorePage
  <2>1. /\ job # Nothing /\ job.stage = "store" /\ UNCHANGED <<wait, owed, allowance, provider>>
        /\ job' = Followed(job, catalogue[job.symbol][job.page].next)
    BY <1>8 DEF StorePage
  <2>2. CASE allowance <= wait
    BY <2>1, <2>2, WaitRests
  <2>3. CASE ~(allowance <= wait)
    <3>1. Massive /\ catalogue[job.symbol][job.page].next \in {LastPage, NoField}
      BY <2>1, <2>3 DEF WaitInv, Parting
    <3>2. job' = Ended(job)
      BY <2>1, <3>1 DEF Followed
    <3>3. job'.stage = "save"
      BY <1>0, <2>1, <3>2 DEF Ended, Failed, Job
    <3>4. QED
      BY <2>1, <3>3, WaitRests DEF Parting
  <2>4. QED
    BY <2>2, <2>3
<1>9. CASE SaveCapture
  BY <1>9, WaitRests DEF SaveCapture, Parting
<1>10. CASE Kill
  BY <1>10 DEF Kill, WaitInv
<1>11. CASE Damage
  BY <1>11, WaitRests DEF Damage, Parting
<1>12. QED
  BY <1>1, <1>2, <1>3, <1>4, <1>5, <1>6, <1>7, <1>8, <1>9, <1>10, <1>11 DEF DownloadStep

(* WaitsHonoured: no request of a client leaves while a 429 it was answered *)
(* or the pause after a page still asks to wait, from one capture to the   *)
(* next, nor, within a capture and for Alpaca from one to the next, while a *)
(* page that used up the allowance does (massive_http.py _page,            *)
(* alpaca_http.py _page).                                                  *)
THEOREM WaitsAreHonoured == PipelineSpec => []WaitsHonoured
<1>1. PipelineInit => CaptureInv /\ WaitInv
  BY DownloadAssumption
     DEF PipelineInit, DownloadInit, CaptureInv, ServerInv, JobInv, DiskInv, WaitInv
<1>2. CaptureInv /\ WaitInv /\ [PipelineNext]_pipelineVars => (CaptureInv /\ WaitInv)'
  <2> SUFFICES ASSUME CaptureInv, WaitInv, [PipelineNext]_pipelineVars
               PROVE  (CaptureInv /\ WaitInv)'
    OBVIOUS
  <2>1. CASE Download
    BY <2>1, CaptureStep, WaitStep DEF Download
  <2>2. ASSUME UNCHANGED downloadVars PROVE (CaptureInv /\ WaitInv)'
    <3>1. CaptureInv'
      BY <2>2 DEF downloadVars, CaptureInv, ServerInv, JobInv, DiskInv, Held
    <3>2. WaitInv'
      BY <2>2 DEF downloadVars, WaitInv, Massive, Parting
    <3>3. QED
      BY <3>1, <3>2
  <2>3. QED
    BY <2>1, <2>2 DEF PipelineNext, Approve, Research, pipelineVars
<1>3. WaitInv => WaitsHonoured
  BY SendingOwes DEF WaitsHonoured
<1>4. QED
  BY <1>1, <1>2, <1>3, PTL DEF PipelineSpec

-----------------------------------------------------------------------------
(* What the backtester is given.                                           *)

(* The minutes of a requested session are on the row's own day.            *)
LEMMA RowInSession ==
  ASSUME CaptureInv, runs > 0, NEW s \in Range(Captured), Held(s), NEW r \in Loaded(s, Requested)
  PROVE  /\ r \in Bar /\ r.symbol = s
         /\ \E i \in 0..(SessionBars - 1) : r.at = Minute(r.day, i)
<1>1. PICK n \in DOMAIN catalogue[s] : r \in PageRows(s, n)
  BY CaptureRows DEF CaptureInv, Loaded
<1>2. r \in Bar /\ r.symbol = s /\ MarketOpen(r.day) <= r.at /\ r.at < MarketOpen(r.day + 1)
  BY <1>1, DownloadAssumption DEF CaptureInv, ServerInv, PageRows
<1>3. PICK d \in Requested, i \in 0..(SessionBars - 1) : r.at = Minute(d, i)
  BY DEF Loaded, Minutes
<1>4. d \in Int /\ i \in Int /\ r.day \in Int /\ r.at \in Int /\ SessionBars \in Int
  BY <1>2, <1>3, ReplayAssumption, ORBAssumption DEF Requested, Bar
<1>5. MarketOpen(d) <= r.at /\ r.at < MarketClose(d)
  <2>1. Minute(d, i) + BarTicks <= Minute(d, SessionBars)
    BY <1>3, <1>4, MinutesInOrder
  <2>2. Minute(d, 0) <= Minute(d, i)
    <3>1. CASE i = 0
      BY <1>4, <3>1, DayInOrder
    <3>2. CASE i # 0
      <4>1. Minute(d, 0) + BarTicks <= Minute(d, i)
        BY <1>3, <1>4, <3>2, MinutesInOrder
      <4>2. BarTicks \in Nat /\ Minute(d, 0) \in Int /\ Minute(d, i) \in Int
        BY <1>4, DayInOrder, ORBAssumption
      <4>3. QED
        BY <4>1, <4>2
    <3>3. QED
      BY <3>1, <3>2
  <2>3. Minute(d, 0) = MarketOpen(d)
    BY <1>4, DayInOrder, ORBAssumption DEF Minute
  <2>4. BarTicks \in Nat \ {0} /\ Minute(d, SessionBars) \in Int
    BY <1>4, DayInOrder, ORBAssumption
  <2>5. QED
    BY <1>3, <1>4, <2>1, <2>2, <2>3, <2>4 DEF MarketClose
<1>6. MarketOpen(d) \in Int /\ MarketClose(d) \in Int /\ MarketOpen(d + 1) \in Int
      /\ MarketOpen(r.day) \in Int /\ MarketOpen(r.day + 1) \in Int
  BY <1>4, DayInOrder
<1>7. ~(d < r.day)
  BY <1>2, <1>4, <1>5, <1>6, DaysInOrder
<1>8. ~(r.day < d)
  BY <1>2, <1>4, <1>5, <1>6, DaysInOrder
<1>9. d = r.day
  BY <1>4, <1>7, <1>8
<1>10. QED
  BY <1>2, <1>3, <1>9

(* A bar made of a row.                                                    *)
LEMMA BarAtClose ==
  ASSUME NEW r \in Bar
  PROVE  /\ AtBarClose(r) \in Bar /\ AtBarClose(r).day = r.day
         /\ EndTime(AtBarClose(r)) <= AtBarClose(r).available
<1>1. r.at \in Int /\ BarTicks \in Nat
  BY ORBAssumption DEF Bar
<1>2. EndTime(r) \in Int
  BY <1>1 DEF EndTime
<1>3. AtBarClose(r) \in Bar
  BY <1>2 DEF AtBarClose, Bar
<1>4. AtBarClose(r).day = r.day /\ AtBarClose(r).at = r.at /\ AtBarClose(r).available = EndTime(r)
  BY DEF AtBarClose
<1>5. EndTime(AtBarClose(r)) = EndTime(r)
  BY <1>4 DEF EndTime
<1>6. QED
  BY <1>2, <1>3, <1>4, <1>5

(* An approved dataset is sound (approved_dataset, backtesting/a4.py).     *)
LEMMA ApprovedIsSound ==
  ASSUME CaptureInv, Approve
  PROVE  SoundDataset(bars')
<1> DEFINE loaded == [s \in Range(Captured) |-> Loaded(s, Requested)]
           sets == {loaded[s] : s \in Range(Captured)}
           X == UNION {Loaded(s, Requested) : s \in Range(Captured)}
           close == [r \in X |-> AtBarClose(r)]
           Y == {close[r] : r \in X}
<1>1. Approved /\ runs > 0 /\ bars' = Archived \cup {AtBarClose(r) : r \in X}
  BY DEF Approve
<1>2. ServerInv /\ \A q \in Range(Captured) : Held(q) /\ Repeated(q) = {}
  BY <1>1 DEF CaptureInv, DiskInv, Approved, Readable, Quality
<1>3. ASSUME NEW s \in Range(Captured) PROVE IsFiniteSet(Loaded(s, Requested))
  <2>1. IsFiniteSet(Rows(s))
    BY <1>1, <1>2, CaptureRows
  <2>2. Loaded(s, Requested) \subseteq Rows(s)
    BY DEF Loaded
  <2>3. QED
    BY <2>1, <2>2, FS_Subset
<1>4. IsFiniteSet(Range(Captured))
  <2>1. Captured \in Seq(Range(Captured))
    BY DownloadAssumption
  <2>2. DOMAIN Captured = 1..Len(Captured) /\ Len(Captured) \in Nat
    BY <2>1
  <2>3. IsFiniteSet(DOMAIN Captured)
    BY <2>2, FS_Interval
  <2>4. IsFiniteSet({Captured[i] : i \in DOMAIN Captured})
    BY <2>3, ImageIsFinite
  <2>5. QED
    BY <2>4 DEF Range
<1>5. IsFiniteSet(X)
  <2>1. IsFiniteSet(sets)
    <3> HIDE DEF loaded
    <3>1. QED
      BY <1>4, ImageIsFinite
  <2>2. \A x \in sets : IsFiniteSet(x)
    BY <1>3
  <2>3. X = UNION sets
    OBVIOUS
  <2> HIDE DEF X, sets
  <2>4. QED
    BY <2>1, <2>2, <2>3, FS_UNION
<1>6. ASSUME NEW r \in X
      PROVE  r \in Bar /\ r.symbol \in Range(Captured) /\ r \in Rows(r.symbol)
             /\ \E i \in 0..(SessionBars - 1) : r.at = Minute(r.day, i)
  <2>1. PICK s \in Range(Captured) : r \in Loaded(s, Requested)
    BY <1>6
  <2>2. r \in Rows(s)
    BY <2>1 DEF Loaded
  <2>3. QED
    BY <1>1, <1>2, <2>1, <2>2, RowInSession
<1>7. bars' = Archived \cup Y /\ IsFiniteSet(Y)
  <2>1. bars' = Archived \cup Y
    BY <1>1
  <2> HIDE DEF close, X
  <2>2. IsFiniteSet(Y)
    BY <1>5, ImageIsFinite
  <2> HIDE DEF Y
  <2>3. QED
    BY <2>1, <2>2
<1>8. \A b \in Y : \E r \in X : b = AtBarClose(r)
  OBVIOUS
<1> HIDE DEF X, Y, close, sets, loaded
<1>9. IsFiniteSet(bars')
  BY <1>7, ArchivedAssumption, FS_Union DEF SoundDataset
<1>10. ASSUME NEW b \in Y
       PROVE  /\ b \in Bar /\ EndTime(b) <= b.available /\ b.symbol \in Range(Captured)
              /\ \E i \in 0..(SessionBars - 1) : b.at = Minute(b.day, i)
  <2>1. PICK r \in X : b = AtBarClose(r)
    BY <1>8
  <2>2. QED
    BY <1>6, <2>1, BarAtClose, BarOfRow
<1>11. ASSUME NEW b \in bars', NEW c \in bars', b.symbol = c.symbol, b.at = c.at
       PROVE  b = c
  <2>1. CASE b \in Archived
    <3>1. c \in Archived
      BY <1>7, <1>10, <1>11, <2>1, ArchivedAssumption
    <3>2. QED
      BY <1>11, <2>1, <3>1, ArchivedAssumption DEF SoundDataset
  <2>2. CASE b \in Y
    <3>1. c \in Y
      BY <1>7, <1>10, <1>11, <2>2, ArchivedAssumption
    <3>2. PICK r \in X : b = AtBarClose(r)
      BY <1>8, <2>2
    <3>3. PICK q \in X : c = AtBarClose(q)
      BY <1>8, <3>1
    <3>4. r.symbol = q.symbol /\ r.at = q.at
      BY <1>11, <3>2, <3>3, BarOfRow
    <3>5. r = q
      BY <1>1, <1>2, <1>6, <3>4, OneRowAMinute
    <3>6. QED
      BY <3>2, <3>3, <3>5
  <2>3. QED
    BY <1>7, <2>1, <2>2
<1>12. \A b \in bars' : b \in Bar /\ EndTime(b) <= b.available
                       /\ \E i \in 0..(SessionBars - 1) : b.at = Minute(b.day, i)
  BY <1>7, <1>10, ArchivedAssumption DEF SoundDataset
<1>13. QED
  BY <1>9, <1>11, <1>12 DEF SoundDataset

-----------------------------------------------------------------------------
(* The invariant of the pipeline.                                          *)

(* Nothing is decided or traded before there is a dataset.                 *)
PipelineInv ==
  /\ replayed \in BOOLEAN /\ ReplayInv /\ TradingInv /\ CaptureInv
  /\ bars = {} => Untouched

(* The same as a formula, so that it can be said of the next state.        *)
LEMMA UntouchedIsSound ==
  SoundDataset(bars) /\ Untouched /\ replayed \in BOOLEAN => ReplayInv /\ TradingInv
<1> SUFFICES ASSUME SoundDataset(bars), Untouched, replayed \in BOOLEAN
             PROVE  ReplayInv /\ TradingInv
  OBVIOUS
<1>1. QED
  BY ResearchStarts

(* What is traded stays when nothing changes.                              *)
LEMMA TradingStays ==
  ASSUME TradingInv, UNCHANGED vars
  PROVE  TradingInv'
<1>1. UNCHANGED <<bars, decisions, replayed, current, session, events, seen, reference,
                  realized_start, book>>
  BY DEF vars, replayVars, tradeVars
<1>2. Booked(book', events', session') /\ HandledFirst(events', session')
  BY <1>1 DEF TradingInv
<1>3. Booked(book, events, session)' /\ HandledFirst(events, session)'
  BY <1>1, <1>2, BookedCarries
<1>4. SeenBefore(seen, events, session)'
  BY <1>1 DEF TradingInv, SeenBefore, Coming
<1>5. Undecided' = Undecided
  BY <1>1 DEF Undecided
<1>6. QED
  BY <1>1, <1>3, <1>4, <1>5 DEF TradingInv

(* A step of the pipeline.                                                 *)
LEMMA PipelineStep ==
  PipelineInv /\ [PipelineNext]_pipelineVars => PipelineInv' /\ [Matches]_replayVars
<1>1. (SoundDataset(bars) /\ Untouched /\ replayed \in BOOLEAN => ReplayInv /\ TradingInv)'
  BY UntouchedIsSound, PTL
<1> SUFFICES ASSUME PipelineInv, [PipelineNext]_pipelineVars
             PROVE  PipelineInv' /\ [Matches]_replayVars
  OBVIOUS
<1>2. ASSUME UNCHANGED vars
      PROVE  /\ ReplayInv' /\ TradingInv' /\ (replayed \in BOOLEAN)' /\ (bars = {} => Untouched)'
             /\ UNCHANGED replayVars
  <2>1. UNCHANGED replayVars /\ UNCHANGED tradeVars /\ UNCHANGED replayed
    BY <1>2 DEF vars
  <2>2. ReplayInv' /\ TradingInv'
    BY <1>2, <2>1, DecidedStays, TradingStays DEF PipelineInv
  <2>3. (bars = {} => Untouched)'
    BY <2>1 DEF PipelineInv, Untouched, replayVars, tradeVars
  <2>4. QED
    BY <2>1, <2>2, <2>3 DEF PipelineInv
<1>3. ASSUME UNCHANGED downloadVars PROVE CaptureInv'
  BY <1>3 DEF PipelineInv, downloadVars, CaptureInv, ServerInv, JobInv, DiskInv, Held
<1>4. CASE Download
  <2>1. CaptureInv'
    BY <1>4, CaptureStep DEF Download, PipelineInv
  <2>2. QED
    BY <1>2, <1>4, <2>1 DEF Download, PipelineInv
<1>5. CASE Approve
  <2>1. /\ bars = {} /\ UNCHANGED <<clock, current, decisions, raised, replayed, tradeVars, downloadVars>>
    BY <1>5 DEF Approve
  <2>2. Untouched /\ replayed \in BOOLEAN /\ CaptureInv
    BY <2>1 DEF PipelineInv
  <2>3. SoundDataset(bars)'
    BY <1>5, <2>2, ApprovedIsSound
  <2>4. Untouched' /\ (replayed \in BOOLEAN)'
    BY <2>1, <2>2 DEF Untouched, tradeVars
  <2>5. ReplayInv' /\ TradingInv'
    BY <1>1, <2>3, <2>4
  <2>6. CaptureInv'
    BY <1>3, <2>1
  <2>7. Matches
    BY <2>1, <2>2, <2>4 DEF Matches, Untouched
  <2>8. QED
    BY <2>4, <2>5, <2>6, <2>7 DEF PipelineInv
<1>6. CASE Research
  <2>1. Next /\ UNCHANGED downloadVars /\ bars # {}
    BY <1>6 DEF Research
  <2>2. ReplayInv' /\ TradingInv' /\ replayed' \in BOOLEAN /\ (Matches \/ UNCHANGED replayVars)
    BY <2>1, ResearchStep DEF PipelineInv
  <2>3. UNCHANGED bars
    BY <2>1 DEF Next, Replay, Direct, FirstSession, HandleEvent, EndSession,
                ReplayStep, AtCutoff, AtPublication, SessionDecided, DecidedAtOnce, replayVars
  <2>4. QED
    BY <1>3, <2>1, <2>2, <2>3 DEF PipelineInv
<1>7. CASE UNCHANGED pipelineVars
  BY <1>2, <1>3, <1>7 DEF pipelineVars, PipelineInv
<1>8. QED
  BY <1>4, <1>5, <1>6, <1>7 DEF PipelineNext

(* The invariant holds at the start.                                       *)
LEMMA PipelineStarts == PipelineInit => PipelineInv
<1> SUFFICES ASSUME PipelineInit PROVE PipelineInv
  OBVIOUS
<1>1. SoundDataset(bars) /\ Untouched /\ replayed \in BOOLEAN
  BY ReplayAssumption DEF PipelineInit, Init, ReplayInit, Untouched
<1>2. CaptureInv
  BY DownloadAssumption DEF PipelineInit, DownloadInit, CaptureInv, ServerInv, JobInv, DiskInv
<1>3. QED
  BY <1>1, <1>2, ResearchStarts DEF PipelineInv

(* It is an invariant.                                                     *)
LEMMA PipelineIsSound == PipelineSpec => []PipelineInv
<1>1. PipelineInv /\ [PipelineNext]_pipelineVars => PipelineInv'
  BY PipelineStep
<1>2. QED
  BY <1>1, PipelineStarts, PTL DEF PipelineSpec

-----------------------------------------------------------------------------
(* ReplayMatchesOneShot: whatever the publication instants of the bars, a  *)
(* replay never stops with an error, never says what the complete data do  *)
(* not say, and ends with exactly their decision (ReplayAsOf and           *)
(* process_session, backtesting/replay.py, over strategies/orb.py).        *)
THEOREM ReplayAlwaysMatches == PipelineSpec => ReplayMatchesOneShot
<1>1. PipelineSpec => [][Matches]_replayVars
  <2>1. PipelineInv /\ [PipelineNext]_pipelineVars => PipelineInv' /\ [Matches]_replayVars
    BY PipelineStep
  <2>2. QED
    BY <2>1, PipelineStarts, PTL DEF PipelineSpec
<1>2. [][Matches]_replayVars => ReplayMatchesOneShot
  BY PTL DEF ReplayMatchesOneShot, Matches
<1>3. QED
  BY <1>1, <1>2

(* BooksBalance: at every event, for every dataset, cash is the capital    *)
(* plus what the trades earned less what the open positions cost, and each *)
(* decided signal is in exactly one place (the session loop of             *)
(* run_backtest, backtesting/engine.py).                                   *)
THEOREM BooksAlwaysBalance == PipelineSpec => []BooksBalance
<1>1. PipelineInv => BooksBalance
  BY BooksDoBalance DEF PipelineInv, ReplayInv
<1>2. QED
  BY <1>1, PipelineIsSound, PTL

(* FillsAreHonest: no entry fills before the first open after its          *)
(* submission, no stop is filled better than the bar allowed or on a bar   *)
(* the position did not live through, and nothing is held past the first   *)
(* open at or after the scheduled close (process_open, process_close and   *)
(* close of run_backtest, backtesting/engine.py).                          *)
THEOREM FillsAreAlwaysHonest == PipelineSpec => []FillsAreHonest
<1>1. PipelineInv => FillsAreHonest
  BY FillsDoHonestly DEF PipelineInv, ReplayInv
<1>2. QED
  BY <1>1, PipelineIsSound, PTL

(* SizedAsLargeAsAllowed: the bisection of the risk engine returns the     *)
(* largest number of units whose risk and cost fit the budgets of the      *)
(* moment, and "too small" is said only when none fits (RiskEngine.assess, *)
(* risk/engine.py).                                                        *)
THEOREM EntriesAreAlwaysSized == PipelineSpec => []SizedAsLargeAsAllowed
<1>1. PipelineInv => SizedAsLargeAsAllowed
  BY EntriesAreSized DEF PipelineInv, ReplayInv
<1>2. QED
  BY <1>1, PipelineIsSound, PTL
=============================================================================
