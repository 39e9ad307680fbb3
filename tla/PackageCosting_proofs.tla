------------------------ MODULE PackageCosting_proofs ------------------------
(***************************************************************************)
(* Theorems about PackageCosting, for any number of packages, items,       *)
(* quotations and concurrent requests, any prices and any edits.           *)
(*                                                                         *)
(* As no write has a condition, the argument rests on what cannot be       *)
(* undone: a quotation never changes once inserted and an item never       *)
(* leaves its package (Grows).  What a request carries (Carries) is stated *)
(* by such facts only.                                                     *)
(***************************************************************************)
EXTENDS PackageCosting, FiniteSetTheorems, TLAPS

\* The package of a costed status: it has had an item.
HasHadItem(p) == \E i \in Items : item[i].package = p

ItemSound(i) ==
  /\ item[i].status = Absent => item[i].package = None
  /\ item[i].status # Absent =>
       /\ item[i].package \in Packages
       /\ item[i].inputs \in Inputs /\ NewItems # {}
       /\ item[i].prices = CalculateItem(item[i].inputs)

QuotationSound(q) == quotation[q].package # None =>
  /\ LinesOf(quotation[q].lines) # {}
  /\ quotation[q].totals = TotalsOf(quotation[q].lines)
  /\ quotation[q].customerPrice = quotation[q].totals.totalSellPrice
  /\ quotation[q].version \in 1 .. Cardinality(QuotationsOf(quotation[q].package))

PackageSound(p) ==
  /\ package[p].status = "QUOTED" => "QUOTED" \in ManualStatuses \/ QuotationsOf(p) # {}
  /\ package[p].status = "COSTED" => "COSTED" \in ManualStatuses \/ HasHadItem(p)

\* What request r knows, by the point it has reached.
Carries(r) ==
  LET p == req[r].package IN
  /\ ~At(r, "idle") => p \in Packages
  /\ At(r, "updatePackage") => req[r].status \in ManualStatuses \cup {None}
  /\ req[r].pc \in {"findItem", "updateItem", "removeItem"} =>
       req[r].item \in Items /\ item[req[r].item].status # Absent
  /\ At(r, "addItem") => req[r].inputs \in NewItems
  /\ At(r, "updateItem") => req[r].inputs \in Inputs
  /\ At(r, "writeTotals") =>
       req[r].totals \in Totals /\ (HasHadItem(p) \/ req[r].totals.totalCost = 0)
  /\ At(r, "setCosted") => HasHadItem(p)
  /\ req[r].pc \in {"countQuotations", "insertQuotation"} =>
       /\ req[r].lines \in Lines /\ LinesOf(req[r].lines) # {}
       /\ req[r].totals = TotalsOf(req[r].lines)
  /\ At(r, "insertQuotation") => req[r].version \in 1 .. Cardinality(QuotationsOf(p)) + 1
  /\ At(r, "setQuoted") => QuotationsOf(p) # {}

\* The inductive invariant.
CostingInv ==
  /\ TypeOK
  /\ \A i \in Items : ItemSound(i)
  /\ \A q \in Quotations : QuotationSound(q)
  /\ \A p \in Packages : PackageSound(p)
  /\ \A r \in Requests : Carries(r)

\* A quotation, once inserted, is never written again; an item stays in its package.
Grows ==
  /\ \A q \in Quotations : quotation[q].package # None => quotation'[q] = quotation[q]
  /\ \A i \in Items : /\ item[i].package # None => item'[i].package = item[i].package
                      /\ item[i].status # Absent => item'[i].status # Absent

-----------------------------------------------------------------------------
(* The pricing engine *)

LEMMA Round2Nat == ASSUME NEW n \in Nat, NEW d \in Nat \ {0} PROVE Round2(n, d) \in Nat
<1>1. /\ 2 * n + d * Cent \in Nat
      /\ 2 * d * Cent \in Nat \ {0}
  BY DEF Cent
<1>2. \A a \in Nat, b \in Nat \ {0} : a \div b \in Nat
  OBVIOUS
<1>3. (2 * n + d * Cent) \div (2 * d * Cent) \in Nat
  BY <1>1, <1>2
<1>4. QED
  BY <1>3 DEF Round2, Cent

LEMMA Round2Int == ASSUME NEW n \in Int PROVE Round2(n, 1) \in Int
  BY DEF Round2, Cent

\* Prices are amounts: nothing but the profit can be negative.
LEMMA PricesType == ASSUME NEW x \in Inputs PROVE CalculateItem(x) \in ItemPrices
<1> DEFINE unitSellPrice == IF x.markupType = "FIXED"
                              THEN Round2(x.unitCost + x.markupValue, 1)
                              ELSE Round2(x.unitCost * (100 + x.markupValue), 100)
           totalCost == Round2(x.unitCost * x.quantity, 1)
           totalSellPrice == Round2(unitSellPrice * x.quantity, 1)
<1>1. x.unitCost \in Nat /\ x.quantity \in Nat \ {0} /\ x.markupValue \in Nat
  BY DEF Inputs
<1>2. \A a, b \in Nat : a * b \in Nat
  OBVIOUS
<1>3. unitSellPrice \in Nat
  <2>1. x.unitCost + x.markupValue \in Nat /\ x.unitCost * (100 + x.markupValue) \in Nat
    BY <1>1, <1>2
  <2>2. QED
    BY <2>1, Round2Nat
<1>4. totalCost \in Nat
  BY <1>1, <1>2, Round2Nat
<1>5. totalSellPrice \in Nat
  <2> HIDE DEF unitSellPrice
  <2>1. unitSellPrice * x.quantity \in Nat
    BY <1>1, <1>2, <1>3
  <2>2. QED
    BY <2>1, Round2Nat
<1>6. NonNegative(x.unitCost) = x.unitCost /\ NonNegative(x.markupValue) = x.markupValue
  BY <1>1 DEF NonNegative
<1>7. CalculateItem(x) = [unitSellPrice |-> unitSellPrice, totalCost |-> totalCost,
                          totalSellPrice |-> totalSellPrice,
                          profit |-> Round2(totalSellPrice - totalCost, 1)]
  BY <1>1, <1>6 DEF CalculateItem
<1> HIDE DEF unitSellPrice, totalCost, totalSellPrice
<1>8. Round2(totalSellPrice - totalCost, 1) \in Int
  BY <1>4, <1>5, Round2Int
<1>9. QED
  BY <1>3, <1>4, <1>5, <1>7, <1>8 DEF ItemPrices

\* Rounding does nothing to whole cents and never goes below them.
LEMMA Round2Cents == ASSUME NEW k \in Int PROVE Round2(Cent * k, 1) = Cent * k
  BY DEF Round2, Cent

LEMMA Round2Keeps ==
  ASSUME NEW k \in Nat, NEW n \in Nat, NEW d \in {1, 100}, n >= d * (Cent * k)
  PROVE  Round2(n, d) >= Cent * k /\ \E j \in Nat : Round2(n, d) = Cent * j
<1> DEFINE j == (2 * n + d * Cent) \div (2 * d * Cent)
<1>1. CASE d = 1
  <2>1. j = (2 * n + 10) \div 20 /\ 2 * n >= 20 * k
    BY <1>1 DEF Cent
  <2>2. j \in Nat /\ j >= k
    BY <2>1
  <2> HIDE DEF j
  <2>3. Round2(n, d) = j * 10
    BY DEF Round2, Cent, j
  <2>4. QED
    BY <2>2, <2>3 DEF Cent
<1>2. CASE d = 100
  <2>1. j = (2 * n + 1000) \div 2000 /\ 2 * n >= 2000 * k
    BY <1>2 DEF Cent
  <2>2. j \in Nat /\ j >= k
    BY <2>1
  <2> HIDE DEF j
  <2>3. Round2(n, d) = j * 10
    BY DEF Round2, Cent, j
  <2>4. QED
    BY <2>2, <2>3 DEF Cent
<1>3. QED
  BY <1>1, <1>2

\* An item is never sold below its cost when its unit cost is a whole number of cents,
\* whatever the markup and however its unit price was rounded (calculateItem in
\* pricing-engine.service.ts).  Costs finer than a cent can make a loss.
THEOREM NoLossAtWholeCents ==
  ASSUME NEW x \in Inputs, NEW k \in Nat, x.unitCost = Cent * k
  PROVE  /\ CalculateItem(x).totalCost <= CalculateItem(x).totalSellPrice
         /\ CalculateItem(x).profit >= 0
<1> DEFINE c == x.unitCost
           u == IF x.markupType = "FIXED"
                  THEN Round2(c + x.markupValue, 1)
                  ELSE Round2(c * (100 + x.markupValue), 100)
<1>1. c \in Nat /\ x.quantity \in Nat \ {0} /\ x.markupValue \in Nat /\ c = Cent * k
  BY DEF Inputs
<1>2. PICK j \in Nat : u = Cent * j /\ u >= Cent * k
  <2>1. c + x.markupValue \in Nat /\ c + x.markupValue >= 1 * (Cent * k)
    BY <1>1 DEF Cent
  <2>2. c * (100 + x.markupValue) \in Nat /\ c * (100 + x.markupValue) >= 100 * (Cent * k)
    <3> HIDE DEF c
    <3>1. \A a, b \in Nat : a * b \in Nat /\ a * (100 + b) = 100 * a + a * b
      OBVIOUS
    <3>2. c * x.markupValue \in Nat /\ c * (100 + x.markupValue) = 100 * c + c * x.markupValue
      BY <1>1, <3>1
    <3>3. QED
      BY <1>1, <3>2
  <2>3. QED
    BY <2>1, <2>2, Round2Keeps
<1> HIDE DEF u
<1>3. j >= k
  BY <1>2 DEF Cent
<1>4. /\ u * x.quantity = Cent * (j * x.quantity) /\ c * x.quantity = Cent * (k * x.quantity)
      /\ j * x.quantity \in Nat /\ k * x.quantity \in Nat
      /\ j * x.quantity >= k * x.quantity
  <2>1. PICK n \in Nat : n = x.quantity
    BY <1>1
  <2>2. \A a, b \in Nat : a * b \in Nat /\ (10 * a) * b = 10 * (a * b)
    OBVIOUS
  <2>3. PICK e \in Nat : j = k + e
    <3>1. j - k \in Nat /\ j = k + (j - k)
      BY <1>3
    <3>2. QED
      BY <3>1
  <2>4. (k + e) * n = k * n + e * n
    OBVIOUS
  <2>5. QED
    BY <1>1, <1>2, <2>1, <2>2, <2>3, <2>4 DEF Cent
<1> DEFINE sell == Cent * (j * x.quantity)
           cost == Cent * (k * x.quantity)
<1>5. NonNegative(c) = c /\ NonNegative(x.markupValue) = x.markupValue
  BY <1>1 DEF NonNegative
<1>6. /\ CalculateItem(x).totalCost = Round2(c * x.quantity, 1)
      /\ CalculateItem(x).totalSellPrice = Round2(u * x.quantity, 1)
      /\ CalculateItem(x).profit = Round2(Round2(u * x.quantity, 1) - Round2(c * x.quantity, 1), 1)
  BY <1>1, <1>5 DEF CalculateItem, u
<1>7. Round2(u * x.quantity, 1) = sell /\ Round2(c * x.quantity, 1) = cost
  BY <1>4, Round2Cents
<1>8. PICK m \in Nat : sell - cost = Cent * m
  <2>1. (j * x.quantity) - (k * x.quantity) \in Nat
    BY <1>4
  <2>2. sell - cost = Cent * ((j * x.quantity) - (k * x.quantity))
    BY <1>4 DEF Cent
  <2>3. QED
    BY <2>1, <2>2
<1>9. Round2(sell - cost, 1) = Cent * m
  BY <1>8, Round2Cents
<1>10. cost <= sell
  BY <1>4 DEF Cent
<1>11. QED
  BY <1>6, <1>7, <1>9, <1>10 DEF Cent

\* A sum of none is 0.
LEMMA EmptySum == ASSUME NEW f, DOMAIN f = {} PROVE SumFunction(f) = 0
<1>1. \A s \in SUBSET {} : s = {}
  OBVIOUS
<1>2. QED
  BY <1>1 DEF SumFunction, SumFunctionOnSet, FoldFunctionOnSet, MapThenFoldSet

LEMMA EmptyTotals == ASSUME NEW l, LinesOf(l) = {} PROVE TotalsOf(l).totalCost = 0
<1> DEFINE f == [i \in {} |-> l[i].totalCost]
<1>1. SumFunction(f) = 0
  BY EmptySum
<1>2. Round2(0, 1) = 0
  BY DEF Round2, Cent
<1>3. QED
  BY <1>1, <1>2 DEF TotalsOf, CalculatePackage

-----------------------------------------------------------------------------
(* Sums: the fold that SumFunction is does reach a number.  The library's theorem on such *)
(* definitions takes the body as an operator, so its argument is made again for sums.     *)

\* A set of subsets of a finite set has a smallest one.
LEMMA SmallestSet ==
  ASSUME NEW D, IsFiniteSet(D), NEW T \in SUBSET SUBSET D, T # {}
  PROVE  \E k \in T : \A m \in SUBSET k : m # k => m \notin T
<1> DEFINE S == FiniteSubsetsOf(D)
           R == StrictSubsetOrdering(D)
<1>1. IsWellFoundedOn(R, S)
  BY FS_StrictSubsetOrderingWellFounded
<1>2. T \subseteq S
  BY FS_Subset DEF FiniteSubsetsOf
<1>3. \A m \in T, k \in T : m \subseteq k /\ m # k => <<m, k>> \in R
  BY DEF StrictSubsetOrdering
<1> HIDE DEF S, R
<1>4. PICK k \in T : \A m \in T : ~(<<m, k>> \in R)
  BY <1>1, <1>2, WFMin
<1>5. QED
  BY <1>3, <1>4

\* The element that the fold takes first, and what is left of the set then.
First(s) == CHOOSE x \in s : TRUE
Rest(s) == s \ {First(s)}

\* What the fold computes: the sums of f over every subset of D.
Adds(total, f, D) ==
  total = [s \in SUBSET D |-> IF s = {} THEN 0 ELSE f[First(s)] + total[Rest(s)]]

LEMMA RestSmaller ==
  ASSUME NEW s, s # {} PROVE First(s) \in s /\ Rest(s) \subseteq s /\ Rest(s) # s
  BY DEF First, Rest

\* Two sums agree on the sets they share.
LEMMA SumsAgree ==
  ASSUME NEW D, IsFiniteSet(D), NEW f, NEW g, NEW h, NEW k, NEW m,
         NEW s, s \subseteq D, s \subseteq k, s \subseteq m, Adds(g, f, k), Adds(h, f, m)
  PROVE  g[s] = h[s]
<1> DEFINE T == {t \in SUBSET s : g[t] # h[t]}
<1>1. SUFFICES ASSUME T # {} PROVE FALSE
  OBVIOUS
<1>2. T \in SUBSET SUBSET D
  OBVIOUS
<1>3. PICK t \in T : \A u \in SUBSET t : u # t => u \notin T
  <2> HIDE DEF T
  <2>1. QED
    BY <1>1, <1>2, SmallestSet
<1>4. /\ g[t] = IF t = {} THEN 0 ELSE f[First(t)] + g[Rest(t)]
      /\ h[t] = IF t = {} THEN 0 ELSE f[First(t)] + h[Rest(t)]
  <2>1. t \in SUBSET k /\ t \in SUBSET m
    OBVIOUS
  <2>2. QED
    BY <2>1 DEF Adds
<1>5. t # {}
  BY <1>4
<1>6. Rest(t) \in SUBSET t /\ Rest(t) # t
  BY <1>5, RestSmaller
<1>7. Rest(t) \in SUBSET s /\ Rest(t) \notin T
  BY <1>3, <1>6
<1>8. QED
  BY <1>4, <1>5, <1>7

\* Natural numbers have sums over every subset of a finite set.
LEMMA SumExists ==
  ASSUME NEW D, IsFiniteSet(D), NEW f \in [D -> Nat]
  PROVE  \E g \in [SUBSET D -> Nat] : Adds(g, f, D)
<1> DEFINE Sums(k) == {g \in [SUBSET k -> Nat] : Adds(g, f, k)}
           T == {k \in SUBSET D : Sums(k) = {}}
<1>1. SUFFICES ASSUME T # {} PROVE FALSE
  <2>1. D \notin T => Sums(D) # {}
    OBVIOUS
  <2>2. QED
    BY <2>1
<1>2. PICK k \in T : \A m \in SUBSET k : m # k => m \notin T
  <2>1. T \in SUBSET SUBSET D
    OBVIOUS
  <2> HIDE DEF T
  <2>2. QED
    BY <1>1, <2>1, SmallestSet
<1> DEFINE G(m) == CHOOSE g \in Sums(m) : TRUE
<1>3. \A m \in SUBSET k : m # k => G(m) \in Sums(m)
  BY <1>2
<1> HIDE DEF G
<1>4. \A m \in SUBSET k : m # k => G(m) \in [SUBSET m -> Nat] /\ Adds(G(m), f, m)
  BY <1>3
<1>5. \A s \in SUBSET k : s # {} =>
        /\ First(s) \in s /\ Rest(s) \in SUBSET s /\ Rest(s) # k
        /\ f[First(s)] \in Nat /\ G(Rest(s))[Rest(s)] \in Nat
  <2> TAKE s \in SUBSET k
  <2> HAVE s # {}
  <2>1. First(s) \in s /\ Rest(s) \in SUBSET s /\ First(s) \notin Rest(s)
    BY RestSmaller DEF Rest
  <2>2. Rest(s) \in SUBSET k /\ Rest(s) # k
    BY <2>1
  <2>3. G(Rest(s)) \in [SUBSET Rest(s) -> Nat]
    BY <1>4, <2>2
  <2>4. G(Rest(s))[Rest(s)] \in Nat
    BY <2>3
  <2>5. First(s) \in D
    BY <2>1
  <2>6. QED
    BY <2>1, <2>2, <2>4, <2>5
<1> DEFINE g == [s \in SUBSET k |-> IF s = {} THEN 0 ELSE f[First(s)] + G(Rest(s))[Rest(s)]]
<1>6. g \in [SUBSET k -> Nat]
  <2>1. \A s \in SUBSET k :
          (IF s = {} THEN 0 ELSE f[First(s)] + G(Rest(s))[Rest(s)]) \in Nat
    BY <1>5
  <2>2. QED
    BY <2>1
<1>7. \A s \in SUBSET k : s # {} => g[Rest(s)] = G(Rest(s))[Rest(s)]
  <2> TAKE s \in SUBSET k
  <2> HAVE s # {}
  <2> DEFINE t == Rest(s)
             u == Rest(t)
  <2>1. t \in SUBSET k /\ t # k
    BY <1>5
  <2>2. Adds(G(t), f, t)
    BY <1>4, <2>1
  <2>3. G(t)[t] = IF t = {} THEN 0 ELSE f[First(t)] + G(t)[u]
    <3> HIDE DEF t
    <3>1. t \in SUBSET t
      OBVIOUS
    <3>2. QED
      BY <2>2, <3>1 DEF Adds
  <2>4. g[t] = IF t = {} THEN 0 ELSE f[First(t)] + G(u)[u]
    BY <2>1
  <2>5. CASE t = {}
    BY <2>3, <2>4, <2>5
  <2>6. CASE t # {}
    <3>1. u \in SUBSET t /\ u \in SUBSET k /\ u # k
      BY <1>5, <2>1, <2>6
    <3>2. Adds(G(u), f, u)
      BY <1>4, <3>1
    <3> HIDE DEF u, t, g
    <3>3. u \subseteq D /\ u \subseteq u /\ u \subseteq t
      BY <3>1
    <3>4. G(t)[u] = G(u)[u]
      BY <2>2, <3>2, <3>3, SumsAgree
    <3>5. QED
      BY <2>3, <2>4, <3>4 DEF t
  <2>7. QED
    BY <2>5, <2>6
<1>8. Adds(g, f, k)
  <2>1. \A s \in SUBSET k : g[s] = IF s = {} THEN 0 ELSE f[First(s)] + g[Rest(s)]
    BY <1>7
  <2>2. DOMAIN g = SUBSET k
    OBVIOUS
  <2>3. g = [s \in SUBSET k |-> g[s]]
    OBVIOUS
  <2> HIDE DEF g
  <2>4. QED
    BY <2>1, <2>3 DEF Adds
<1> HIDE DEF g
<1>9. QED
  BY <1>2, <1>6, <1>8

\* SumFunction is such a fold, if there is one.
LEMMA SumIs ==
  ASSUME NEW f, NEW g, Adds(g, f, DOMAIN f)
  PROVE \E h : Adds(h, f, DOMAIN f) /\ SumFunction(f) = h[DOMAIN f]
  BY DEF Adds, First, Rest, SumFunction, SumFunctionOnSet, FoldFunctionOnSet, MapThenFoldSet

\* A sum of natural numbers over a finite set is a natural number.
LEMMA SumNat ==
  ASSUME NEW D, IsFiniteSet(D), NEW f \in [D -> Nat] PROVE SumFunction(f) \in Nat
<1>1. DOMAIN f = D
  OBVIOUS
<1>2. PICK g \in [SUBSET D -> Nat] : Adds(g, f, D)
  BY SumExists
<1>3. PICK h : Adds(h, f, D) /\ SumFunction(f) = h[D]
  BY <1>1, <1>2, SumIs
<1>4. h[D] = g[D]
  BY <1>2, <1>3, SumsAgree
<1>5. QED
  BY <1>2, <1>3, <1>4

\* The totals of any lines are amounts.
LEMMA TotalsType == ASSUME NEW l \in Lines PROVE TotalsOf(l) \in Totals
<1> DEFINE D == LinesOf(l)
           costs == [i \in D |-> l[i].totalCost]
           sells == [i \in D |-> l[i].totalSellPrice]
           cost == Round2(SumFunction(costs), 1)
           sell == Round2(SumFunction(sells), 1)
<1>1. IsFiniteSet(D)
  BY ConstantsOK, FS_Subset DEF LinesOf
<1>2. \A i \in D : l[i] \in ItemPrices
  BY DEF LinesOf, Lines
<1>3. costs \in [D -> Nat] /\ sells \in [D -> Nat]
  BY <1>2 DEF ItemPrices
<1> HIDE DEF D, costs, sells
<1>4. SumFunction(costs) \in Nat /\ SumFunction(sells) \in Nat
  BY <1>1, <1>3, SumNat
<1>5. cost \in Nat /\ sell \in Nat
  BY <1>4, Round2Nat
<1>6. TotalsOf(l) = [totalCost |-> cost, totalMarkup |-> Round2(sell - cost, 1),
                     totalSellPrice |-> sell, expectedProfit |-> Round2(sell - cost, 1)]
  BY DEF TotalsOf, CalculatePackage, D, costs, sells
<1> HIDE DEF cost, sell
<1>7. Round2(sell - cost, 1) \in Int
  BY <1>5, Round2Int
<1>8. QED
  BY <1>5, <1>6, <1>7 DEF Totals

\* A sum of greater numbers is greater.
LEMMA SumsOrdered ==
  ASSUME NEW D, IsFiniteSet(D), NEW f \in [D -> Nat], NEW g \in [D -> Nat],
         \A i \in D : f[i] <= g[i]
  PROVE  SumFunction(f) <= SumFunction(g)
<1>1. PICK a \in [SUBSET D -> Nat] : Adds(a, f, D)
  BY SumExists
<1>2. PICK b \in [SUBSET D -> Nat] : Adds(b, g, D)
  BY SumExists
<1>3. SumFunction(f) = a[D] /\ SumFunction(g) = b[D]
  <2>1. DOMAIN f = D /\ DOMAIN g = D
    OBVIOUS
  <2>2. PICK h : Adds(h, f, D) /\ SumFunction(f) = h[D]
    BY <1>1, <2>1, SumIs
  <2>3. PICK j : Adds(j, g, D) /\ SumFunction(g) = j[D]
    BY <1>2, <2>1, SumIs
  <2>4. h[D] = a[D] /\ j[D] = b[D]
    BY <1>1, <1>2, <2>2, <2>3, SumsAgree
  <2>5. QED
    BY <2>2, <2>3, <2>4
<1> DEFINE T == {t \in SUBSET D : ~(a[t] <= b[t])}
<1>4. SUFFICES ASSUME T # {} PROVE FALSE
  <2>1. D \notin T => a[D] <= b[D]
    OBVIOUS
  <2>2. QED
    BY <1>3, <2>1
<1>5. PICK t \in T : \A u \in SUBSET t : u # t => u \notin T
  <2>1. T \in SUBSET SUBSET D
    OBVIOUS
  <2> HIDE DEF T
  <2>2. QED
    BY <1>4, <2>1, SmallestSet
<1>6. /\ a[t] = IF t = {} THEN 0 ELSE f[First(t)] + a[Rest(t)]
      /\ b[t] = IF t = {} THEN 0 ELSE g[First(t)] + b[Rest(t)]
  BY <1>1, <1>2 DEF Adds
<1>7. t # {}
  BY <1>6
<1>8. First(t) \in D /\ Rest(t) \in SUBSET t /\ Rest(t) # t
  BY <1>7, RestSmaller
<1>9. a[Rest(t)] <= b[Rest(t)] /\ a[Rest(t)] \in Nat /\ b[Rest(t)] \in Nat
  BY <1>5, <1>8
<1>10. f[First(t)] \in Nat /\ g[First(t)] \in Nat /\ f[First(t)] <= g[First(t)]
  BY <1>8
<1>11. a[t] <= b[t]
  BY <1>6, <1>7, <1>9, <1>10
<1>12. QED
  BY <1>11

\* A package whose items are each sold at their cost or more makes no loss as a whole,
\* however its sums are rounded (calculatePackage in pricing-engine.service.ts).
THEOREM NoLossInTotals ==
  ASSUME NEW l \in Lines,
         \A i \in LinesOf(l) : l[i].totalCost <= l[i].totalSellPrice
  PROVE  TotalsOf(l).expectedProfit >= 0
<1> DEFINE D == LinesOf(l)
           costs == [i \in D |-> l[i].totalCost]
           sells == [i \in D |-> l[i].totalSellPrice]
           x == SumFunction(costs)
           y == SumFunction(sells)
<1>1. IsFiniteSet(D)
  BY ConstantsOK, FS_Subset DEF LinesOf
<1>2. \A i \in D : l[i] \in ItemPrices
  BY DEF LinesOf, Lines
<1>3. /\ costs \in [D -> Nat] /\ sells \in [D -> Nat]
      /\ \A i \in D : costs[i] <= sells[i]
  BY <1>2 DEF ItemPrices
<1>4. TotalsOf(l).expectedProfit = Round2(Round2(y, 1) - Round2(x, 1), 1)
  BY DEF TotalsOf, CalculatePackage
<1> HIDE DEF D, costs, sells
<1>5. x \in Nat /\ y \in Nat /\ x <= y
  BY <1>1, <1>3, SumNat, SumsOrdered
<1> HIDE DEF x, y
<1>6. Round2(y, 1) - Round2(x, 1) \in Nat
  BY <1>5 DEF Round2, Cent
<1>7. Round2(Round2(y, 1) - Round2(x, 1), 1) \in Nat
  BY <1>6, Round2Nat
<1>8. QED
  BY <1>4, <1>7

-----------------------------------------------------------------------------
(* Helpers of the actions *)

\* A change of an item's inputs leaves inputs.
LEMMA MergedType ==
  ASSUME NEW x \in Inputs, NEW c \in Changes, NewItems # {}
  PROVE  Merged(x, c) \in Inputs
<1>1. PICK n \in NewItems : TRUE
  OBVIOUS
<1>2. n \in Inputs /\ Merged(n, c) \in Inputs
  BY ConstantsOK
<1> DEFINE Fields == {"unitCost", "quantity", "markupType", "markupValue"}
<1>3. DOMAIN x = Fields /\ DOMAIN n = Fields
  BY <1>2 DEF Inputs
<1>4. \A f \in Fields : Merged(n, c)[f] = IF f \in DOMAIN c THEN c[f] ELSE n[f]
  BY <1>3 DEF Merged
<1>5. Merged(x, c) = [f \in Fields |-> IF f \in DOMAIN c THEN c[f] ELSE x[f]]
  BY <1>3 DEF Merged
<1> DEFINE m == [f \in Fields |-> IF f \in DOMAIN c THEN c[f] ELSE x[f]]
<1>6. \A f \in Fields : m[f] = Merged(n, c)[f] \/ m[f] = x[f]
  BY <1>4
<1>7. m = [unitCost |-> m["unitCost"], quantity |-> m["quantity"],
           markupType |-> m["markupType"], markupValue |-> m["markupValue"]]
  OBVIOUS
<1>8. m["unitCost"] \in Nat
  BY <1>2, <1>6 DEF Inputs
<1>9. m["quantity"] \in Nat \ {0}
  BY <1>2, <1>6 DEF Inputs
<1>10. m["markupType"] \in MarkupType
  BY <1>2, <1>6 DEF Inputs
<1>11. m["markupValue"] \in Nat
  BY <1>2, <1>6 DEF Inputs
<1> HIDE DEF m
<1>12. QED
  BY <1>5, <1>7, <1>8, <1>9, <1>10, <1>11 DEF Inputs, m

\* A read of the items yields lines; there are none only when the package has no item.
LEMMA PricesRead ==
  ASSUME NEW p \in Packages, item \in [Items -> ItemDoc], \A i \in Items : ItemSound(i)
  PROVE  /\ Prices(p) \in Lines
         /\ LinesOf(Prices(p)) = ItemsOf(p)
         /\ LinesOf(Prices(p)) # {} => HasHadItem(p)
<1>1. \A i \in ItemsOf(p) : item[i].prices \in ItemPrices
  BY PricesType DEF ItemsOf, ItemSound, Absent
<1>2. \A i \in Items : Prices(p)[i] = IF i \in ItemsOf(p) THEN item[i].prices ELSE None
  BY DEF Prices
<1>3. Prices(p) \in Lines
  BY <1>1 DEF Prices, Lines
<1>4. LinesOf(Prices(p)) = ItemsOf(p)
  BY <1>1, <1>2, ConstantsOK DEF LinesOf, ItemsOf
<1>5. QED
  BY <1>3, <1>4 DEF ItemsOf, HasHadItem

-----------------------------------------------------------------------------
(* What growth preserves *)

LEMMA QuotationsGrow ==
  ASSUME Grows, NEW p \in Packages
  PROVE  /\ QuotationsOf(p) \subseteq QuotationsOf(p)'
         /\ Cardinality(QuotationsOf(p)) \in Nat /\ Cardinality(QuotationsOf(p))' \in Nat
         /\ Cardinality(QuotationsOf(p)) <= Cardinality(QuotationsOf(p))'
<1>1. p # None
  BY ConstantsOK
<1>2. QuotationsOf(p) \subseteq QuotationsOf(p)'
  BY <1>1 DEF Grows, QuotationsOf
<1>3. QuotationsOf(p) \subseteq Quotations /\ QuotationsOf(p)' \subseteq Quotations
  BY DEF QuotationsOf
<1>4. IsFiniteSet(QuotationsOf(p)) /\ IsFiniteSet(QuotationsOf(p)')
  BY <1>3, ConstantsOK, FS_Subset
<1>5. QED
  BY <1>2, <1>4, FS_Subset, FS_CardinalityType

LEMMA ItemsGrow == ASSUME Grows, NEW p \in Packages, HasHadItem(p) PROVE HasHadItem(p)'
  BY ConstantsOK DEF Grows, HasHadItem

LEMMA PackageStays ==
  ASSUME Grows, NEW p \in Packages, PackageSound(p), package'[p].status = package[p].status
  PROVE  PackageSound(p)'
  BY QuotationsGrow, ItemsGrow DEF PackageSound

LEMMA QuotationStays ==
  ASSUME TypeOK, Grows, NEW q \in Quotations, QuotationSound(q),
         quotation[q].package # None \/ quotation'[q] = quotation[q]
  PROVE  QuotationSound(q)'
<1>1. quotation'[q] = quotation[q]
  BY DEF Grows
<1>2. CASE quotation[q].package = None
  BY <1>1, <1>2 DEF QuotationSound
<1>3. CASE quotation[q].package # None
  <2>1. PICK p \in Packages : quotation[q].package = p
    BY <1>3 DEF TypeOK, QuotationDoc
  <2>2. quotation[q].version \in 1 .. Cardinality(QuotationsOf(p))
    BY <1>3, <2>1 DEF QuotationSound
  <2>3. quotation[q].version \in 1 .. Cardinality(QuotationsOf(p))'
    BY <2>2, QuotationsGrow
  <2>4. Cardinality(QuotationsOf(quotation[q].package))' = Cardinality(QuotationsOf(p))'
    BY <1>1, <2>1 DEF QuotationsOf
  <2>5. QED
    BY <1>1, <1>3, <2>3, <2>4 DEF QuotationSound, LinesOf, TotalsOf
<1>4. QED
  BY <1>2, <1>3

LEMMA CarriesOn ==
  ASSUME TypeOK, Grows, NEW r \in Requests, Carries(r), req'[r] = req[r]
  PROVE  Carries(r)'
<1>1. \A x : At(r, x)' <=> At(r, x)
  BY DEF At
<1>2. CASE At(r, "idle")
  BY <1>1, <1>2 DEF Carries, At
<1>3. CASE ~At(r, "idle")
  <2>1. PICK p \in Packages : req[r].package = p
    BY <1>3 DEF Carries
  <2>2. /\ HasHadItem(p) => HasHadItem(p)'
        /\ QuotationsOf(p) # {} => QuotationsOf(p)' # {}
        /\ req[r].version \in 1 .. Cardinality(QuotationsOf(p)) + 1
             => req[r].version \in 1 .. Cardinality(QuotationsOf(p))' + 1
    BY ItemsGrow, QuotationsGrow
  <2>3. \A i \in Items : item[i].status # Absent => item'[i].status # Absent
    BY DEF Grows
  <2>4. /\ HasHadItem(req[r].package)' = HasHadItem(p)'
        /\ QuotationsOf(req[r].package)' = QuotationsOf(p)'
        /\ Cardinality(QuotationsOf(req[r].package))' = Cardinality(QuotationsOf(p))'
        /\ LinesOf(req[r].lines)' = LinesOf(req[r].lines)
        /\ TotalsOf(req[r].lines)' = TotalsOf(req[r].lines)
    BY <2>1 DEF HasHadItem, QuotationsOf, LinesOf, TotalsOf
  <2>5. QED
    BY <1>1, <2>1, <2>2, <2>3, <2>4 DEF Carries
<1>4. QED
  BY <1>2, <1>3

\* A step of request r preserves the invariant when what it writes is sound.
LEMMA StepSound ==
  ASSUME CostingInv, TypeOK', Grows, NEW r \in Requests,
         \A s \in Requests : s # r => req'[s] = req[s], Carries(r)',
         \A i \in Items : ItemSound(i)' \/ item'[i] = item[i],
         \A q \in Quotations : QuotationSound(q)' \/ quotation'[q] = quotation[q],
         \A p \in Packages : PackageSound(p)' \/ package'[p].status = package[p].status
  PROVE  CostingInv'
<1>1. \A i \in Items : ItemSound(i)'
  BY DEF CostingInv, ItemSound
<1>2. \A q \in Quotations : QuotationSound(q)'
  BY QuotationStays DEF CostingInv
<1>3. \A p \in Packages : PackageSound(p)'
  BY PackageStays DEF CostingInv
<1>4. \A s \in Requests : Carries(s)'
  BY CarriesOn DEF CostingInv
<1>5. QED
  BY <1>1, <1>2, <1>3, <1>4 DEF CostingInv

\* A step that writes no document.
LEMMA ReadSound ==
  ASSUME CostingInv, UNCHANGED <<package, item, quotation>>, NEW r \in Requests,
         NEW x \in Request, req' = [req EXCEPT ![r] = x], Carries(r)'
  PROVE  CostingInv'
<1>1. TypeOK' /\ \A s \in Requests : s # r => req'[s] = req[s]
  <2>1. req \in [Requests -> Request]
    BY DEF CostingInv, TypeOK
  <2>2. req' \in [Requests -> Request] /\ \A s \in Requests : s # r => req'[s] = req[s]
    BY <2>1
  <2>3. QED
    BY <2>2 DEF CostingInv, TypeOK
<1>2. Grows
  BY DEF Grows
<1>3. QED
  BY <1>1, <1>2, StepSound

\* A step that writes a package.
LEMMA PackageSoundStep ==
  ASSUME CostingInv, UNCHANGED <<item, quotation>>, NEW r \in Requests,
         NEW x \in Request, req' = [req EXCEPT ![r] = x], Carries(r)',
         NEW p \in Packages, NEW d \in PackageDoc, package' = [package EXCEPT ![p] = d],
         d.status = package[p].status \/ PackageSound(p)'
  PROVE  CostingInv'
<1>1. TypeOK' /\ \A s \in Requests : s # r => req'[s] = req[s]
  <2>1. req \in [Requests -> Request] /\ package \in [Packages -> PackageDoc]
    BY DEF CostingInv, TypeOK
  <2>2. /\ req' \in [Requests -> Request]
        /\ \A s \in Requests : s # r => req'[s] = req[s]
        /\ package' \in [Packages -> PackageDoc]
    BY <2>1
  <2>3. QED
    BY <2>2 DEF CostingInv, TypeOK
<1>2. \A o \in Packages : PackageSound(o)' \/ package'[o].status = package[o].status
  BY DEF CostingInv, TypeOK
<1>3. Grows
  BY DEF Grows
<1>4. QED
  BY <1>1, <1>2, <1>3, StepSound

\* A step that writes an item.
LEMMA ItemSoundStep ==
  ASSUME CostingInv, UNCHANGED <<package, quotation>>, NEW r \in Requests,
         NEW x \in Request, req' = [req EXCEPT ![r] = x], Carries(r)',
         NEW i \in Items, NEW d \in ItemDoc, item' = [item EXCEPT ![i] = d],
         item[i].package # None => d.package = item[i].package,
         d.status # Absent, ItemSound(i)'
  PROVE  CostingInv'
<1>1. TypeOK' /\ \A s \in Requests : s # r => req'[s] = req[s]
  <2>1. req \in [Requests -> Request] /\ item \in [Items -> ItemDoc]
    BY DEF CostingInv, TypeOK
  <2>2. /\ req' \in [Requests -> Request]
        /\ \A s \in Requests : s # r => req'[s] = req[s]
        /\ item' \in [Items -> ItemDoc]
    BY <2>1
  <2>3. QED
    BY <2>2 DEF CostingInv, TypeOK
<1>2. /\ item'[i] = d
      /\ \A j \in Items : j # i => item'[j] = item[j]
  BY DEF CostingInv, TypeOK
<1>3. \A j \in Items : ItemSound(j)' \/ item'[j] = item[j]
  BY <1>2
<1>4. Grows
  BY <1>2 DEF Grows
<1>5. QED
  BY <1>1, <1>3, <1>4, StepSound

-----------------------------------------------------------------------------
(* Requests *)

LEMMA IdleTyped == Idle \in Request
  BY DEF Idle, Request, Points

\* A request that carries a package and goes to a point that needs no more.
LEMMA OnlyPackage ==
  ASSUME NEW p \in Packages, NEW c \in Points
  PROVE  [Idle EXCEPT !.pc = c, !.package = p] \in Request
  BY IdleTyped DEF Request

\* What a request that ended carries is nothing.
LEMMA Ended ==
  ASSUME NEW r \in Requests, req \in [Requests -> Request], Return(r)
  PROVE  Carries(r)'
<1>1. req'[r] = Idle
  BY DEF Return
<1>2. QED
  BY <1>1 DEF Carries, At, Idle

\* A step that ends a request, or never gives it more than its package, writes no document.
LEMMA ReturnSound ==
  ASSUME CostingInv, NEW r \in Requests, Return(r), UNCHANGED <<package, item, quotation>>
  PROVE  CostingInv'
<1>1. req \in [Requests -> Request]
  BY DEF CostingInv, TypeOK
<1>2. QED
  BY <1>1, Ended, IdleTyped, ReadSound DEF Return

LEMMA BeginSound ==
  ASSUME CostingInv, NEW r \in Requests, NEW p \in Packages,
         NEW c \in {"readItems", "removePackage", "findPackage"},
         Begin(r, [Idle EXCEPT !.pc = c, !.package = p]), UNCHANGED <<package, item, quotation>>
  PROVE  CostingInv'
<1> DEFINE x == [Idle EXCEPT !.pc = c, !.package = p]
<1>1. x \in Request
  BY OnlyPackage DEF Points
<1>2. req' = [req EXCEPT ![r] = x] /\ req'[r] = x
  BY DEF Begin, CostingInv, TypeOK
<1>3. x.pc = c /\ x.package = p
  BY DEF Idle
<1>4. Carries(r)'
  BY <1>2, <1>3 DEF Carries, At
<1> HIDE DEF x
<1>5. QED
  BY <1>1, <1>2, <1>4, ReadSound

-----------------------------------------------------------------------------
(* Packages *)

LEMMA CreatePackageSound ==
  ASSUME CostingInv, NEW p \in Packages, CreatePackage(p) PROVE CostingInv'
<1> DEFINE d == [package[p] EXCEPT !.status = "DRAFT"]
<1>1. package \in [Packages -> PackageDoc] /\ package' = [package EXCEPT ![p] = d]
  BY DEF CostingInv, TypeOK, CreatePackage
<1>2. d \in PackageDoc /\ d.status = "DRAFT"
  BY <1>1 DEF PackageDoc, PackageStatus
<1> HIDE DEF d
<1>3. TypeOK'
  BY <1>1, <1>2 DEF CostingInv, TypeOK, CreatePackage
<1>4. Grows
  BY DEF Grows, CreatePackage
<1>5. \A o \in Packages : PackageSound(o)'
  <2> TAKE o \in Packages
  <2>1. CASE o = p
    BY <1>1, <1>2, <2>1 DEF PackageSound
  <2>2. CASE o # p
    BY <1>1, <1>4, <2>2, PackageStays DEF CostingInv
  <2>3. QED
    BY <2>1, <2>2
<1>6. \A i \in Items : ItemSound(i)'
  BY DEF CostingInv, ItemSound, CreatePackage
<1>7. \A q \in Quotations : QuotationSound(q)'
  BY <1>4, QuotationStays DEF CostingInv, CreatePackage
<1>8. \A r \in Requests : Carries(r)'
  BY <1>4, CarriesOn DEF CostingInv, CreatePackage
<1>9. QED
  BY <1>3, <1>5, <1>6, <1>7, <1>8 DEF CostingInv

LEMMA UpdatePackageReadSound ==
  ASSUME CostingInv, NEW r \in Requests, NEW p \in Packages, NEW s \in ManualStatuses \cup {None},
         UpdatePackageRead(r, p, s)
  PROVE  CostingInv'
<1> DEFINE x == [Idle EXCEPT !.pc = "updatePackage", !.package = p, !.status = s]
<1>1. x \in Request
  BY IdleTyped, ConstantsOK DEF Request, Points
<1>2. req' = [req EXCEPT ![r] = x] /\ req'[r] = x
  BY DEF UpdatePackageRead, Begin, CostingInv, TypeOK
<1>3. x.pc = "updatePackage" /\ x.package = p /\ x.status = s
  BY DEF Idle
<1>4. Carries(r)'
  BY <1>2, <1>3 DEF Carries, At
<1> HIDE DEF x
<1>5. QED
  BY <1>1, <1>2, <1>4, ReadSound DEF UpdatePackageRead

\* A handler's last write sets a package's status.
LEMMA StatusWriteSound ==
  ASSUME CostingInv, NEW r \in Requests, NEW p \in Packages,
         NEW s \in PackageStatus, package' = [package EXCEPT ![p].status = s],
         Return(r), UNCHANGED <<item, quotation>>,
         s = "QUOTED" => "QUOTED" \in ManualStatuses \/ QuotationsOf(p) # {},
         s = "COSTED" => "COSTED" \in ManualStatuses \/ HasHadItem(p)
  PROVE  CostingInv'
<1> DEFINE d == [package[p] EXCEPT !.status = s]
<1>1. package \in [Packages -> PackageDoc] /\ package' = [package EXCEPT ![p] = d]
  BY DEF CostingInv, TypeOK
<1>2. d \in PackageDoc /\ d.status = s
  BY <1>1 DEF PackageDoc
<1> HIDE DEF d
<1>3. package'[p].status = s
  BY <1>1, <1>2
<1>4. PackageSound(p)'
  BY <1>3 DEF PackageSound, QuotationsOf, HasHadItem
<1>5. Carries(r)' /\ req' = [req EXCEPT ![r] = Idle]
  BY Ended DEF CostingInv, TypeOK, Return
<1>6. QED
  BY <1>1, <1>2, <1>4, <1>5, IdleTyped, PackageSoundStep

LEMMA UpdatePackageWriteSound ==
  ASSUME CostingInv, NEW r \in Requests, UpdatePackageWrite(r) PROVE CostingInv'
<1>1. PICK p \in Packages : req[r].package = p
  BY DEF CostingInv, Carries, UpdatePackageWrite, At
<1>2. req[r].status \in ManualStatuses \cup {None}
  BY DEF CostingInv, Carries, UpdatePackageWrite
<1>3. CASE req[r].status = None
  <2>1. package' = package
    BY <1>1, <1>3 DEF UpdatePackageWrite, CostingInv, TypeOK, PackageDoc
  <2>2. QED
    BY <2>1, ReturnSound DEF UpdatePackageWrite
<1>4. CASE req[r].status # None
  <2>1. PICK s \in ManualStatuses : req[r].status = s
    BY <1>2, <1>4
  <2>2. package' = [package EXCEPT ![p].status = s]
    BY <1>1, <1>4, <2>1 DEF UpdatePackageWrite
  <2>3. s \in PackageStatus /\ Return(r) /\ UNCHANGED <<item, quotation>>
    BY ConstantsOK DEF UpdatePackageWrite
  <2>4. QED
    BY <2>2, <2>3, StatusWriteSound
<1>5. QED
  BY <1>3, <1>4

LEMMA RemovePackageWriteSound ==
  ASSUME CostingInv, NEW r \in Requests, RemovePackageWrite(r) PROVE CostingInv'
<1>1. PICK p \in Packages : req[r].package = p
  BY DEF CostingInv, Carries, RemovePackageWrite, At
<1> DEFINE d == [package[p] EXCEPT !.removed = TRUE]
<1>2. package \in [Packages -> PackageDoc] /\ package' = [package EXCEPT ![p] = d]
  BY <1>1 DEF CostingInv, TypeOK, RemovePackageWrite
<1>3. d \in PackageDoc /\ d.status = package[p].status
  BY <1>2 DEF PackageDoc
<1> HIDE DEF d
<1>4. Carries(r)' /\ req' = [req EXCEPT ![r] = Idle]
  BY Ended DEF CostingInv, TypeOK, RemovePackageWrite, Return
<1>5. QED
  BY <1>2, <1>3, <1>4, IdleTyped, PackageSoundStep DEF RemovePackageWrite

-----------------------------------------------------------------------------
(* Items *)

LEMMA AddItemReadSound ==
  ASSUME CostingInv, NEW r \in Requests, NEW p \in Packages, AddItemRead(r, p) PROVE CostingInv'
<1>1. PICK n \in NewItems : Begin(r, [Idle EXCEPT !.pc = "addItem", !.package = p, !.inputs = n])
  BY DEF AddItemRead
<1> DEFINE x == [Idle EXCEPT !.pc = "addItem", !.package = p, !.inputs = n]
<1>2. x \in Request
  BY IdleTyped, ConstantsOK DEF Request, Points
<1>3. req' = [req EXCEPT ![r] = x] /\ req'[r] = x
  BY <1>1 DEF Begin, CostingInv, TypeOK
<1>4. x.pc = "addItem" /\ x.package = p /\ x.inputs = n
  BY DEF Idle
<1>5. Carries(r)'
  BY <1>3, <1>4 DEF Carries, At
<1> HIDE DEF x
<1>6. QED
  BY <1>2, <1>3, <1>5, ReadSound DEF AddItemRead

\* After a write, the request goes on to refreshPackage with its package only.
LEMMA ContinueSound ==
  ASSUME CostingInv, NEW r \in Requests, NEW p \in Packages, req[r].package = p,
         NEW c \in {"readItems", "setCosted", "setQuoted"}, Continue(r, c),
         c = "setCosted" => HasHadItem(p)', c = "setQuoted" => QuotationsOf(p)' # {}
  PROVE  \E x \in Request : req' = [req EXCEPT ![r] = x] /\ Carries(r)'
<1> DEFINE x == [Idle EXCEPT !.pc = c, !.package = p]
<1>1. x \in Request
  BY OnlyPackage DEF Points
<1>2. req' = [req EXCEPT ![r] = x] /\ req'[r] = x
  BY DEF Continue, CostingInv, TypeOK
<1>3. x.pc = c /\ x.package = p
  BY DEF Idle
<1>4. Carries(r)'
  BY <1>2, <1>3 DEF Carries, At, HasHadItem, QuotationsOf
<1> HIDE DEF x
<1>5. QED
  BY <1>1, <1>2, <1>4

LEMMA AddItemWriteSound ==
  ASSUME CostingInv, NEW r \in Requests, AddItemWrite(r) PROVE CostingInv'
<1>1. PICK p \in Packages : req[r].package = p
  BY DEF CostingInv, Carries, AddItemWrite, At
<1>2. PICK n \in NewItems : req[r].inputs = n
  BY DEF CostingInv, Carries, AddItemWrite
<1> DEFINE d == [status |-> "LISTED", package |-> p, inputs |-> n, prices |-> CalculateItem(n)]
<1>3. PICK i \in Items : item[i].status = Absent /\ item' = [item EXCEPT ![i] = d]
  BY <1>1, <1>2 DEF AddItemWrite
<1>4. n \in Inputs /\ CalculateItem(n) \in ItemPrices
  BY ConstantsOK, PricesType
<1>5. d \in ItemDoc
  BY <1>4 DEF ItemDoc
<1>6. /\ d.status = "LISTED" /\ d.package = p /\ d.inputs = n
      /\ d.prices = CalculateItem(n)
  OBVIOUS
<1> HIDE DEF d
<1>7. item[i].package = None
  BY <1>3 DEF CostingInv, ItemSound
<1>8. item'[i] = d
  BY <1>3 DEF CostingInv, TypeOK
<1>9. ItemSound(i)'
  BY <1>4, <1>6, <1>8 DEF ItemSound, Absent
<1>10. PICK x \in Request : req' = [req EXCEPT ![r] = x] /\ Carries(r)'
  BY <1>1, ContinueSound DEF AddItemWrite
<1>11. d.status # Absent
  BY <1>6 DEF Absent
<1>12. QED
  BY <1>3, <1>5, <1>7, <1>9, <1>10, <1>11, ItemSoundStep DEF AddItemWrite

LEMMA ChangeItemReadSound ==
  ASSUME CostingInv, NEW r \in Requests, NEW i \in Items, NEW c \in Changes \cup {None},
         ChangeItemRead(r, i, c)
  PROVE  CostingInv'
<1>1. PICK p \in Packages : item[i].package = p
  BY DEF ChangeItemRead, CostingInv, ItemSound
<1> DEFINE x == [Idle EXCEPT !.pc = "findItem", !.package = p, !.item = i, !.change = c]
<1>2. x \in Request
  BY IdleTyped DEF Request, Points
<1>3. req' = [req EXCEPT ![r] = x] /\ req'[r] = x
  BY <1>1 DEF ChangeItemRead, Begin, CostingInv, TypeOK
<1>4. x.pc = "findItem" /\ x.package = p /\ x.item = i
  BY DEF Idle
<1> HIDE DEF x
<1>5. item'[i].status # Absent
  BY DEF ChangeItemRead
<1>6. Carries(r)'
  BY <1>3, <1>4, <1>5 DEF Carries, At
<1>7. QED
  BY <1>2, <1>3, <1>6, ReadSound DEF ChangeItemRead

LEMMA FindItemSound ==
  ASSUME CostingInv, NEW r \in Requests, FindItem(r) PROVE CostingInv'
<1>1. PICK p \in Packages, i \in Items : req[r].package = p /\ req[r].item = i
  BY DEF CostingInv, Carries, FindItem, At
<1>2. /\ req \in [Requests -> Request] /\ item[i].status # Absent
      /\ UNCHANGED <<package, item, quotation>>
  BY <1>1 DEF CostingInv, TypeOK, Carries, FindItem, At
<1>3. CASE item[i].status # "LISTED"
  BY <1>1, <1>3, ReturnSound DEF FindItem
<1>4. CASE item[i].status = "LISTED" /\ req[r].change = None
  <2> DEFINE x == [req[r] EXCEPT !.pc = "removeItem"]
  <2>1. req' = [req EXCEPT ![r] = x] /\ req'[r] = x
    BY <1>1, <1>2, <1>4 DEF FindItem, Goto
  <2>2. x \in Request /\ x.pc = "removeItem" /\ x.package = p /\ x.item = i
    BY <1>1, <1>2 DEF Request, Points
  <2> HIDE DEF x
  <2>3. Carries(r)'
    BY <1>2, <2>1, <2>2 DEF Carries, At
  <2>4. QED
    BY <1>2, <2>1, <2>2, <2>3, ReadSound
<1>5. CASE item[i].status = "LISTED" /\ req[r].change # None
  <2>1. req[r].change \in Changes /\ item[i].inputs \in Inputs /\ NewItems # {}
    BY <1>2, <1>5 DEF CostingInv, ItemSound, Request
  <2>2. Merged(item[i].inputs, req[r].change) \in Inputs
    BY <2>1, MergedType
  <2>3. PICK m \in Inputs : m = Merged(item[i].inputs, req[r].change)
    BY <2>2
  <2> DEFINE x == [req[r] EXCEPT !.pc = "updateItem", !.inputs = m]
  <2>4. req' = [req EXCEPT ![r] = x] /\ req'[r] = x
    BY <1>1, <1>2, <1>5, <2>3 DEF FindItem
  <2>5. /\ x \in Request /\ x.pc = "updateItem" /\ x.package = p /\ x.item = i
        /\ x.inputs = m
    BY <1>1, <1>2 DEF Request, Points
  <2> HIDE DEF x
  <2>6. Carries(r)'
    BY <1>2, <2>4, <2>5 DEF Carries, At
  <2>7. QED
    BY <1>2, <2>4, <2>5, <2>6, ReadSound
<1>6. QED
  BY <1>3, <1>4, <1>5

LEMMA UpdateItemWriteSound ==
  ASSUME CostingInv, NEW r \in Requests, UpdateItemWrite(r) PROVE CostingInv'
<1>1. PICK p \in Packages, i \in Items, n \in Inputs :
        req[r].package = p /\ req[r].item = i /\ req[r].inputs = n
  BY DEF CostingInv, Carries, UpdateItemWrite, At
<1>2. item \in [Items -> ItemDoc] /\ item[i].status # Absent
  BY <1>1 DEF CostingInv, TypeOK, Carries, UpdateItemWrite, At
<1> DEFINE d == [item[i] EXCEPT !.inputs = n, !.prices = CalculateItem(n)]
<1>3. item' = [item EXCEPT ![i] = d] /\ item'[i] = d
  BY <1>1, <1>2 DEF UpdateItemWrite
<1>4. CalculateItem(n) \in ItemPrices
  BY PricesType
<1>5. /\ d \in ItemDoc
      /\ d.status = item[i].status /\ d.package = item[i].package
      /\ d.inputs = n /\ d.prices = CalculateItem(n)
  BY <1>2, <1>4 DEF ItemDoc
<1> HIDE DEF d
<1>6. ItemSound(i)'
  BY <1>2, <1>3, <1>5 DEF CostingInv, ItemSound
<1>7. PICK x \in Request : req' = [req EXCEPT ![r] = x] /\ Carries(r)'
  BY <1>1, ContinueSound DEF UpdateItemWrite
<1>8. QED
  BY <1>2, <1>3, <1>5, <1>6, <1>7, ItemSoundStep DEF UpdateItemWrite

LEMMA RemoveItemWriteSound ==
  ASSUME CostingInv, NEW r \in Requests, RemoveItemWrite(r) PROVE CostingInv'
<1>1. PICK p \in Packages, i \in Items : req[r].package = p /\ req[r].item = i
  BY DEF CostingInv, Carries, RemoveItemWrite, At
<1>2. item \in [Items -> ItemDoc] /\ item[i].status # Absent
  BY <1>1 DEF CostingInv, TypeOK, Carries, RemoveItemWrite, At
<1> DEFINE d == [item[i] EXCEPT !.status = "REMOVED"]
<1>3. item' = [item EXCEPT ![i] = d] /\ item'[i] = d
  BY <1>1, <1>2 DEF RemoveItemWrite
<1>4. /\ d \in ItemDoc /\ d.status = "REMOVED"
      /\ d.package = item[i].package /\ d.inputs = item[i].inputs /\ d.prices = item[i].prices
  BY <1>2 DEF ItemDoc
<1> HIDE DEF d
<1>5. d.status # Absent
  BY <1>4 DEF Absent
<1>6. ItemSound(i)'
  BY <1>2, <1>3, <1>4, <1>5 DEF CostingInv, ItemSound
<1>7. PICK x \in Request : req' = [req EXCEPT ![r] = x] /\ Carries(r)'
  BY <1>1, ContinueSound DEF RemoveItemWrite
<1>8. QED
  BY <1>3, <1>4, <1>5, <1>6, <1>7, ItemSoundStep DEF RemoveItemWrite

-----------------------------------------------------------------------------
(* refreshPackage *)

LEMMA ReadItemsSound ==
  ASSUME CostingInv, NEW r \in Requests, ReadItems(r) PROVE CostingInv'
<1>1. PICK p \in Packages : req[r].package = p
  BY DEF CostingInv, Carries, ReadItems, At
<1>2. PICK l \in Lines : l = Prices(p) /\ (LinesOf(l) # {} => HasHadItem(p))
  BY PricesRead DEF CostingInv, TypeOK
<1>3. req \in [Requests -> Request] /\ TotalsOf(l) \in Totals
  BY TotalsType DEF CostingInv, TypeOK
<1> DEFINE x == [req[r] EXCEPT !.pc = "writeTotals", !.totals = TotalsOf(l)]
<1>4. req' = [req EXCEPT ![r] = x] /\ req'[r] = x
  BY <1>1, <1>2, <1>3 DEF ReadItems
<1>5. x \in Request /\ x.pc = "writeTotals" /\ x.package = p /\ x.totals = TotalsOf(l)
  BY <1>1, <1>3 DEF Request, Points
<1> HIDE DEF x
<1>6. HasHadItem(p)' \/ TotalsOf(l).totalCost = 0
  BY <1>2, EmptyTotals DEF ReadItems, HasHadItem
<1>7. HasHadItem(req[r].package)' = HasHadItem(p)'
  BY <1>4, <1>5 DEF HasHadItem
<1>8. Carries(r)'
  BY <1>3, <1>4, <1>5, <1>6, <1>7 DEF Carries, At
<1>9. QED
  BY <1>4, <1>5, <1>8, ReadSound DEF ReadItems

LEMMA WriteTotalsSound ==
  ASSUME CostingInv, NEW r \in Requests, WriteTotals(r) PROVE CostingInv'
<1>1. PICK p \in Packages : req[r].package = p
  BY DEF CostingInv, Carries, WriteTotals, At
<1>2. PICK t \in Totals : req[r].totals = t
  BY DEF CostingInv, Carries, WriteTotals
<1>3. HasHadItem(p) \/ t.totalCost = 0
  BY <1>1, <1>2 DEF CostingInv, Carries, WriteTotals
<1> DEFINE d == [package[p] EXCEPT !.totals = t]
<1>4. package \in [Packages -> PackageDoc] /\ package' = [package EXCEPT ![p] = d]
  BY <1>1, <1>2 DEF CostingInv, TypeOK, WriteTotals
<1>5. d \in PackageDoc /\ d.status = package[p].status
  BY <1>4 DEF PackageDoc
<1> HIDE DEF d
<1>6. PICK x \in Request : req' = [req EXCEPT ![r] = x] /\ Carries(r)'
  <2>1. CASE Return(r)
    BY <2>1, Ended, IdleTyped DEF CostingInv, TypeOK, Return
  <2>2. CASE ~Return(r)
    <3>1. Continue(r, "setCosted") /\ t.totalCost > 0
      BY <1>2, <2>2 DEF WriteTotals
    <3>2. HasHadItem(p)'
      BY <1>3, <3>1 DEF WriteTotals, HasHadItem
    <3>3. QED
      BY <1>1, <3>1, <3>2, ContinueSound
  <2>3. QED
    BY <2>1, <2>2
<1>7. QED
  BY <1>4, <1>5, <1>6, PackageSoundStep DEF WriteTotals

LEMMA SetCostedSound ==
  ASSUME CostingInv, NEW r \in Requests, SetCosted(r) PROVE CostingInv'
<1>1. PICK p \in Packages : req[r].package = p
  BY DEF CostingInv, Carries, SetCosted, At
<1>2. HasHadItem(p)
  BY <1>1 DEF CostingInv, Carries, SetCosted
<1>3. package' = [package EXCEPT ![p].status = "COSTED"]
  BY <1>1 DEF SetCosted
<1>4. Return(r) /\ UNCHANGED <<item, quotation>> /\ "COSTED" \in PackageStatus
  BY DEF SetCosted, PackageStatus
<1>5. QED
  BY <1>2, <1>3, <1>4, StatusWriteSound

-----------------------------------------------------------------------------
(* generateFromPackage *)

LEMMA FindPackageSound ==
  ASSUME CostingInv, NEW r \in Requests, FindPackage(r) PROVE CostingInv'
<1>1. PICK p \in Packages : req[r].package = p
  BY DEF CostingInv, Carries, FindPackage, At
<1>2. CASE Return(r)
  BY <1>2, ReturnSound DEF FindPackage
<1>3. CASE Goto(r, "listItems")
  <2> DEFINE x == [req[r] EXCEPT !.pc = "listItems"]
  <2>1. req \in [Requests -> Request]
    BY DEF CostingInv, TypeOK
  <2>2. req' = [req EXCEPT ![r] = x] /\ req'[r] = x
    BY <1>3, <2>1 DEF Goto
  <2>3. x \in Request /\ x.pc = "listItems" /\ x.package = p
    BY <1>1, <2>1 DEF Request, Points
  <2> HIDE DEF x
  <2>4. Carries(r)'
    BY <2>2, <2>3 DEF Carries, At
  <2>5. QED
    BY <2>2, <2>3, <2>4, ReadSound DEF FindPackage
<1>4. QED
  BY <1>2, <1>3 DEF FindPackage

LEMMA ListItemsSound ==
  ASSUME CostingInv, NEW r \in Requests, ListItems(r) PROVE CostingInv'
<1>1. PICK p \in Packages : req[r].package = p
  BY DEF CostingInv, Carries, ListItems, At
<1>2. CASE ItemsOf(p) = {}
  BY <1>1, <1>2, ReturnSound DEF ListItems
<1>3. CASE ItemsOf(p) # {}
  <2>1. PICK l \in Lines : l = Prices(p) /\ LinesOf(l) # {}
    BY <1>3, PricesRead DEF CostingInv, TypeOK
  <2>2. req \in [Requests -> Request] /\ TotalsOf(l) \in Totals
    BY TotalsType DEF CostingInv, TypeOK
  <2> DEFINE x == [req[r] EXCEPT !.pc = "countQuotations", !.lines = l, !.totals = TotalsOf(l)]
  <2>3. req' = [req EXCEPT ![r] = x] /\ req'[r] = x
    BY <1>1, <1>3, <2>1, <2>2 DEF ListItems
  <2>4. /\ x \in Request /\ x.pc = "countQuotations" /\ x.package = p
        /\ x.lines = l /\ x.totals = TotalsOf(l)
    <3>1. req[r] \in Request /\ l \in Lines /\ TotalsOf(l) \in Totals
      BY <2>2
    <3>2. /\ DOMAIN x = DOMAIN req[r] /\ x.pc = "countQuotations" /\ x.lines = l
          /\ x.totals = TotalsOf(l) /\ x.package = req[r].package /\ x.item = req[r].item
          /\ x.status = req[r].status /\ x.change = req[r].change
          /\ x.inputs = req[r].inputs /\ x.version = req[r].version
      BY <3>1 DEF Request
    <3>3. x \in Request
      BY <3>1 DEF Request, Points
    <3>4. QED
      BY <1>1, <3>2, <3>3
  <2> HIDE DEF x
  <2>5. Carries(r)'
    BY <2>1, <2>3, <2>4 DEF Carries, At, LinesOf, TotalsOf
  <2>6. QED
    BY <2>3, <2>4, <2>5, ReadSound DEF ListItems
<1>4. QED
  BY <1>2, <1>3

LEMMA CountQuotationsSound ==
  ASSUME CostingInv, NEW r \in Requests, CountQuotations(r) PROVE CostingInv'
<1>1. PICK p \in Packages : req[r].package = p
  BY DEF CostingInv, Carries, CountQuotations, At
<1>2. PICK n \in Nat : /\ Cardinality(QuotationsOf(p)) + 1 = n
                     /\ n \in 1 .. Cardinality(QuotationsOf(p)) + 1
  <2>1. IsFiniteSet(QuotationsOf(p))
    BY ConstantsOK, FS_Subset DEF QuotationsOf
  <2>2. QED
    BY <2>1, FS_CardinalityType
<1>3. /\ req \in [Requests -> Request]
      /\ req[r].lines \in Lines /\ LinesOf(req[r].lines) # {}
      /\ req[r].totals = TotalsOf(req[r].lines)
  BY DEF CostingInv, TypeOK, Carries, CountQuotations, At
<1> DEFINE x == [req[r] EXCEPT !.pc = "insertQuotation", !.version = n]
<1>4. req' = [req EXCEPT ![r] = x] /\ req'[r] = x
  BY <1>1, <1>2, <1>3 DEF CountQuotations
<1>5. /\ x \in Request /\ x.pc = "insertQuotation" /\ x.package = p
      /\ x.lines = req[r].lines /\ x.totals = req[r].totals /\ x.version = n
  BY <1>1, <1>3 DEF Request, Points
<1> HIDE DEF x
<1>6. Cardinality(QuotationsOf(req[r].package))' = Cardinality(QuotationsOf(p))
  BY <1>4, <1>5 DEF QuotationsOf, CountQuotations
<1>7. Carries(r)'
  BY <1>2, <1>3, <1>4, <1>5, <1>6 DEF Carries, At, LinesOf, TotalsOf
<1>8. QED
  BY <1>4, <1>5, <1>7, ReadSound DEF CountQuotations

\* The quotation inserted is one more of its package: its version is in bounds again.
LEMMA InsertQuotationSound ==
  ASSUME CostingInv, NEW r \in Requests, InsertQuotation(r) PROVE CostingInv'
<1>1. PICK p \in Packages, l \in Lines, t \in Totals, v \in Nat :
        /\ req[r].package = p /\ req[r].lines = l /\ req[r].totals = t /\ req[r].version = v
        /\ LinesOf(l) # {} /\ t = TotalsOf(l) /\ v \in 1 .. Cardinality(QuotationsOf(p)) + 1
  BY TotalsType DEF CostingInv, TypeOK, Request, Carries, InsertQuotation, At
<1> DEFINE d == [package |-> p, version |-> v, lines |-> l, totals |-> t,
                 customerPrice |-> t.totalSellPrice]
<1>2. PICK q \in Quotations :
        quotation[q].package = None /\ quotation' = [quotation EXCEPT ![q] = d]
  BY <1>1 DEF InsertQuotation
<1>3. /\ d \in QuotationDoc /\ d.package = p /\ d.version = v /\ d.lines = l /\ d.totals = t
      /\ d.customerPrice = t.totalSellPrice
  BY DEF QuotationDoc, Totals
<1> HIDE DEF d
<1>4. quotation \in [Quotations -> QuotationDoc]
  BY DEF CostingInv, TypeOK
<1>5. quotation'[q] = d /\ \A o \in Quotations : o # q => quotation'[o] = quotation[o]
  BY <1>2, <1>4
<1>6. p # None
  BY ConstantsOK
<1>7. QuotationsOf(p)' = QuotationsOf(p) \cup {q} /\ q \notin QuotationsOf(p)
  BY <1>2, <1>3, <1>5, <1>6 DEF QuotationsOf
<1>8. /\ Cardinality(QuotationsOf(p)) \in Nat
      /\ Cardinality(QuotationsOf(p))' = Cardinality(QuotationsOf(p)) + 1
  <2>1. IsFiniteSet(QuotationsOf(p))
    BY ConstantsOK, FS_Subset DEF QuotationsOf
  <2>2. QED
    BY <1>7, <2>1, FS_AddElement, FS_CardinalityType
<1>9. QuotationSound(q)'
  <2>1. Cardinality(QuotationsOf(quotation[q].package))' = Cardinality(QuotationsOf(p))'
    BY <1>3, <1>5 DEF QuotationsOf
  <2>2. v \in 1 .. Cardinality(QuotationsOf(p))'
    BY <1>1, <1>8
  <2>3. LinesOf(quotation[q].lines)' = LinesOf(l) /\ TotalsOf(quotation[q].lines)' = TotalsOf(l)
    BY <1>3, <1>5 DEF LinesOf, TotalsOf
  <2>4. QED
    BY <1>1, <1>3, <1>5, <2>1, <2>2, <2>3 DEF QuotationSound
<1>10. PICK x \in Request : req' = [req EXCEPT ![r] = x] /\ Carries(r)'
  BY <1>1, <1>7, ContinueSound DEF InsertQuotation
<1>11. TypeOK' /\ \A s \in Requests : s # r => req'[s] = req[s]
  <2>1. req \in [Requests -> Request]
    BY DEF CostingInv, TypeOK
  <2>2. /\ req' \in [Requests -> Request]
        /\ \A s \in Requests : s # r => req'[s] = req[s]
        /\ quotation' \in [Quotations -> QuotationDoc]
    BY <1>2, <1>3, <1>4, <1>10, <2>1
  <2>3. QED
    BY <2>2 DEF CostingInv, TypeOK, InsertQuotation
<1>12. Grows
  BY <1>2, <1>5 DEF Grows, InsertQuotation
<1>13. QED
  <2>1. UNCHANGED <<package, item>>
    BY DEF InsertQuotation
  <2>2. \A o \in Quotations : QuotationSound(o)' \/ quotation'[o] = quotation[o]
    BY <1>5, <1>9
  <2>3. QED
    BY <1>10, <1>11, <1>12, <2>1, <2>2, StepSound

LEMMA SetQuotedSound ==
  ASSUME CostingInv, NEW r \in Requests, SetQuoted(r) PROVE CostingInv'
<1>1. PICK p \in Packages : req[r].package = p
  BY DEF CostingInv, Carries, SetQuoted, At
<1>2. QuotationsOf(p) # {}
  BY <1>1 DEF CostingInv, Carries, SetQuoted
<1>3. package' = [package EXCEPT ![p].status = "QUOTED"]
  BY <1>1 DEF SetQuoted
<1>4. Return(r) /\ UNCHANGED <<item, quotation>> /\ "QUOTED" \in PackageStatus
  BY DEF SetQuoted, PackageStatus
<1>5. QED
  BY <1>2, <1>3, <1>4, StatusWriteSound

-----------------------------------------------------------------------------
(* The invariant *)

LEMMA InitSound == Init => CostingInv
<1> SUFFICES ASSUME Init PROVE CostingInv
  OBVIOUS
<1>1. package \in [Packages -> PackageDoc]
  BY DEF Init, PackageDoc, Totals, NoTotals
<1>2. item \in [Items -> ItemDoc]
  BY DEF Init, ItemDoc
<1>3. quotation \in [Quotations -> QuotationDoc]
  BY DEF Init, QuotationDoc
<1>4. req \in [Requests -> Request]
  BY IdleTyped DEF Init
<1>5. \A i \in Items : ItemSound(i)
  BY DEF Init, ItemSound
<1>6. \A q \in Quotations : QuotationSound(q)
  BY DEF Init, QuotationSound
<1>7. \A p \in Packages : PackageSound(p)
  BY DEF Init, PackageSound, Absent
<1>8. \A r \in Requests : Carries(r)
  BY DEF Init, Carries, At, Idle
<1>9. QED
  BY <1>1, <1>2, <1>3, <1>4, <1>5, <1>6, <1>7, <1>8 DEF CostingInv, TypeOK

LEMMA ArriveSound ==
  ASSUME CostingInv, NEW r \in Requests, Arrive(r) PROVE CostingInv'
<1>1. ASSUME NEW p \in Packages, NEW s \in ManualStatuses \cup {None}, UpdatePackageRead(r, p, s)
      PROVE  CostingInv'
  BY <1>1, UpdatePackageReadSound
<1>2. ASSUME NEW p \in Packages, RemovePackageRead(r, p) PROVE CostingInv'
  BY <1>2, BeginSound DEF RemovePackageRead
<1>3. ASSUME NEW p \in Packages, Recalculate(r, p) PROVE CostingInv'
  BY <1>3, BeginSound DEF Recalculate
<1>4. ASSUME NEW p \in Packages, AddItemRead(r, p) PROVE CostingInv'
  BY <1>4, AddItemReadSound
<1>5. ASSUME NEW p \in Packages, GenerateRead(r, p) PROVE CostingInv'
  BY <1>5, BeginSound DEF GenerateRead
<1>6. ASSUME NEW i \in Items, NEW c \in Changes \cup {None}, ChangeItemRead(r, i, c)
      PROVE  CostingInv'
  BY <1>6, ChangeItemReadSound
<1>7. QED
  BY <1>1, <1>2, <1>3, <1>4, <1>5, <1>6 DEF Arrive

LEMMA ProceedSound ==
  ASSUME CostingInv, NEW r \in Requests, Proceed(r) PROVE CostingInv'
  BY UpdatePackageWriteSound, RemovePackageWriteSound, AddItemWriteSound, FindItemSound,
     UpdateItemWriteSound, RemoveItemWriteSound, ReadItemsSound, WriteTotalsSound,
     SetCostedSound, FindPackageSound, ListItemsSound, CountQuotationsSound,
     InsertQuotationSound, SetQuotedSound DEF Proceed

LEMMA NextSound == CostingInv /\ [Next]_vars => CostingInv'
<1> SUFFICES ASSUME CostingInv, [Next]_vars PROVE CostingInv'
  OBVIOUS
<1>1. CASE UNCHANGED vars
  <2>1. Grows
    BY <1>1 DEF Grows, vars
  <2>2. \A r \in Requests : Carries(r)'
    BY <1>1, <2>1, CarriesOn DEF CostingInv, vars
  <2>3. \A q \in Quotations : QuotationSound(q)'
    BY <1>1, <2>1, QuotationStays DEF CostingInv, vars
  <2>4. \A p \in Packages : PackageSound(p)'
    BY <1>1, <2>1, PackageStays DEF CostingInv, vars
  <2>5. QED
    BY <1>1, <2>2, <2>3, <2>4 DEF CostingInv, TypeOK, ItemSound, vars
<1>2. ASSUME NEW p \in Packages, CreatePackage(p) PROVE CostingInv'
  BY <1>2, CreatePackageSound
<1>3. ASSUME NEW r \in Requests, Arrive(r) PROVE CostingInv'
  BY <1>3, ArriveSound
<1>4. ASSUME NEW r \in Requests, Proceed(r) PROVE CostingInv'
  BY <1>4, ProceedSound
<1>5. ASSUME NEW r \in Requests, Crash(r) PROVE CostingInv'
  BY <1>5, ReturnSound DEF Crash
<1>6. QED
  BY <1>1, <1>2, <1>3, <1>4, <1>5 DEF Next

LEMMA Inductive == Spec => []CostingInv
  BY InitSound, NextSound, PTL DEF Spec

-----------------------------------------------------------------------------
(* Theorems *)

\* Documents and requests hold values of their schemas: every amount that the pricing engine
\* computes and every total that is stored is a number of the right sign, for any number of
\* items (calculateItem and calculatePackage in pricing-engine.service.ts).
THEOREM CostingTypeCorrect == Spec => []TypeOK
<1>1. CostingInv => TypeOK
  BY DEF CostingInv
<1>2. QED
  BY <1>1, Inductive, PTL

\* A quotation's frozen totals and price are those of its frozen lines, whatever edits and
\* other generations overlap with its making (buildSnapshot in quotations.service.ts).
THEOREM SnapshotsHold == Spec => []SnapshotConsistent
<1>1. CostingInv => SnapshotConsistent
  BY DEF CostingInv, QuotationSound, SnapshotConsistent
<1>2. QED
  BY <1>1, Inductive, PTL

\* An item's prices are those of its own inputs, for any partial updates that overlap
\* (updateItem in packages.service.ts).
THEOREM PricesDerived == Spec => []PricesFollowInputs
<1>1. CostingInv => PricesFollowInputs
  BY DEF CostingInv, ItemSound, PricesFollowInputs
<1>2. QED
  BY <1>1, Inductive, PTL

\* A package is QUOTED only when it has a quotation and COSTED only when it has had an item,
\* unless staff wrote the status (refreshPackage and generateFromPackage).
THEOREM StatusesBacked == Spec => []StatusBacked
<1>1. CostingInv => StatusBacked
  BY DEF CostingInv, PackageSound, HasHadItem, StatusBacked
<1>2. QED
  BY <1>1, Inductive, PTL

\* No version exceeds the number of quotations of its package, for any number of generations
\* at once (generateFromPackage).
THEOREM VersionsBounded == Spec => []VersionsFollow
<1>1. CostingInv => VersionsFollow
  BY DEF CostingInv, QuotationSound, VersionsFollow
<1>2. QED
  BY <1>1, Inductive, PTL

-----------------------------------------------------------------------------
(* Pricing in whole cents *)

WholeCents(amount) == \E k \in Nat : amount = Cent * k

\* Staff price in whole cents.
CentPricing ==
  /\ \A n \in NewItems : WholeCents(n.unitCost)
  /\ \A c \in Changes : "unitCost" \in DOMAIN c => WholeCents(c.unitCost)

\* Nothing is priced below its cost.
NoLoss ==
  /\ \A i \in Items : item[i].status # Absent =>
       item[i].prices.totalCost <= item[i].prices.totalSellPrice
  /\ \A p \in Packages : package[p].totals.expectedProfit >= 0
  /\ \A q \in Quotations : quotation[q].package # None => quotation[q].totals.expectedProfit >= 0

\* What a request carries is priced in whole cents, or makes no loss.
Covered(q) ==
  /\ q.pc = "updateItem" => WholeCents(q.inputs.unitCost)
  /\ q.pc \in {"writeTotals", "countQuotations", "insertQuotation"} =>
       q.totals.expectedProfit >= 0

\* The inductive invariant, next to CostingInv.
CoverInv ==
  /\ \A i \in Items : item[i].status # Absent => WholeCents(item[i].inputs.unitCost)
  /\ \A p \in Packages : package[p].totals.expectedProfit >= 0
  /\ \A q \in Quotations : quotation[q].package # None => quotation[q].totals.expectedProfit >= 0
  /\ \A r \in Requests : Covered(req[r])

LEMMA ItemsCovered ==
  ASSUME CostingInv, CoverInv, NEW i \in Items, item[i].status # Absent
  PROVE  item[i].prices.totalCost <= item[i].prices.totalSellPrice
<1>1. item[i].inputs \in Inputs /\ item[i].prices = CalculateItem(item[i].inputs)
  BY DEF CostingInv, ItemSound
<1>2. PICK k \in Nat : item[i].inputs.unitCost = Cent * k
  BY DEF CoverInv, WholeCents
<1>3. QED
  BY <1>1, <1>2, NoLossAtWholeCents

\* What a handler reads of a package's items makes no loss.
LEMMA ReadsCovered ==
  ASSUME CostingInv, CoverInv, NEW p \in Packages
  PROVE  TotalsOf(Prices(p)).expectedProfit >= 0
<1>1. Prices(p) \in Lines /\ LinesOf(Prices(p)) = ItemsOf(p)
  BY PricesRead DEF CostingInv, TypeOK
<1>2. \A i \in ItemsOf(p) : Prices(p)[i] = item[i].prices /\ item[i].status # Absent
  BY DEF ItemsOf, Prices, Absent
<1>3. \A i \in ItemsOf(p) : Prices(p)[i].totalCost <= Prices(p)[i].totalSellPrice
  BY <1>2, ItemsCovered DEF ItemsOf
<1>4. QED
  BY <1>1, <1>3, NoLossInTotals

\* A change of whole cents leaves whole cents.
LEMMA MergedCents ==
  ASSUME CentPricing, NEW x \in Inputs, WholeCents(x.unitCost), NEW c \in Changes
  PROVE  WholeCents(Merged(x, c).unitCost)
<1>1. Merged(x, c).unitCost = IF "unitCost" \in DOMAIN c THEN c.unitCost ELSE x.unitCost
  BY DEF Merged, Inputs
<1>2. QED
  BY <1>1 DEF CentPricing

\* A step that writes nothing but what is covered.
LEMMA CoverStep ==
  ASSUME CostingInv, CoverInv, NEW r \in Requests, NEW x, Covered(x), req' = [req EXCEPT ![r] = x],
         \A i \in Items : \/ item'[i] = item[i]
                          \/ item'[i].status # Absent => WholeCents(item'[i].inputs.unitCost),
         \A p \in Packages : \/ package'[p].totals = package[p].totals
                             \/ package'[p].totals.expectedProfit >= 0,
         \A q \in Quotations : \/ quotation'[q] = quotation[q]
                               \/ quotation'[q].totals.expectedProfit >= 0
  PROVE  CoverInv'
<1>1. \A s \in Requests : req'[s] = IF s = r THEN x ELSE req[s]
  BY DEF CostingInv, TypeOK
<1>2. \A s \in Requests : Covered(req'[s])
  BY <1>1 DEF CoverInv
<1>3. QED
  BY <1>2 DEF CoverInv

LEMMA IdleCovered ==
  /\ Covered(Idle)
  /\ \A p, c : c \notin {"updateItem", "writeTotals", "countQuotations", "insertQuotation"} =>
       Covered([Idle EXCEPT !.pc = c, !.package = p])
  BY DEF Covered, Idle

\* A step that writes no document but a package's status or its removal.
LEMMA CoverPlain ==
  ASSUME CostingInv, CoverInv, NEW r \in Requests, NEW x, Covered(x), req' = [req EXCEPT ![r] = x],
         UNCHANGED <<item, quotation>>,
         \A p \in Packages : package'[p].totals = package[p].totals
  PROVE  CoverInv'
  BY CoverStep

LEMMA ArriveCovers ==
  ASSUME CostingInv, CoverInv, NEW r \in Requests, Arrive(r) PROVE CoverInv'
<1>1. UNCHANGED <<package, item, quotation>>
  BY DEF Arrive, UpdatePackageRead, RemovePackageRead, Recalculate, AddItemRead, GenerateRead,
         ChangeItemRead
<1>2. \E x : Covered(x) /\ req' = [req EXCEPT ![r] = x]
  BY IdleCovered DEF Arrive, UpdatePackageRead, RemovePackageRead, Recalculate, AddItemRead,
         GenerateRead, ChangeItemRead, Begin, Covered, Idle
<1>3. QED
  BY <1>1, <1>2, CoverPlain

LEMMA ProceedCovers ==
  ASSUME CentPricing, CostingInv, CoverInv, NEW r \in Requests, Proceed(r) PROVE CoverInv'
<1> DEFINE p == req[r].package
           i == req[r].item
<1>1. /\ package \in [Packages -> PackageDoc] /\ item \in [Items -> ItemDoc]
      /\ quotation \in [Quotations -> QuotationDoc] /\ req \in [Requests -> Request]
      /\ req[r] \in Request /\ Covered(req[r]) /\ Carries(r)
  BY DEF CostingInv, TypeOK, CoverInv
<1>2. CASE \/ UpdatePackageWrite(r) \/ RemovePackageWrite(r) \/ SetCosted(r) \/ SetQuoted(r)
  <2>1. \A o \in Packages : package'[o].totals = package[o].totals
    BY <1>1, <1>2 DEF UpdatePackageWrite, RemovePackageWrite, SetCosted, SetQuoted, PackageDoc
  <2>2. UNCHANGED <<item, quotation>> /\ Return(r)
    BY <1>2 DEF UpdatePackageWrite, RemovePackageWrite, SetCosted, SetQuoted
  <2>3. QED
    BY <2>1, <2>2, IdleCovered, CoverPlain DEF Return
<1>3. CASE AddItemWrite(r)
  <2>1. WholeCents(req[r].inputs.unitCost)
    BY <1>1, <1>3 DEF AddItemWrite, Carries, CentPricing
  <2>2. \A o \in Items : item'[o] = item[o] \/ WholeCents(item'[o].inputs.unitCost)
    BY <1>1, <1>3, <2>1 DEF AddItemWrite
  <2>3. QED
    BY <1>3, <2>2, IdleCovered, CoverStep DEF AddItemWrite, Continue
<1>4. CASE FindItem(r)
  <2>1. UNCHANGED <<package, item, quotation>>
    BY <1>4 DEF FindItem
  <2>2. \E x : Covered(x) /\ req' = [req EXCEPT ![r] = x]
    <3>1. CASE Return(r)
      BY <3>1, IdleCovered DEF Return
    <3>2. CASE Goto(r, "removeItem")
      <4>1. req' = [req EXCEPT ![r] = [req[r] EXCEPT !.pc = "removeItem"]]
        BY <1>1, <3>2 DEF Goto
      <4>2. Covered([req[r] EXCEPT !.pc = "removeItem"])
        BY <1>1 DEF Covered, Request
      <4>3. QED
        BY <4>1, <4>2
    <3>3. CASE /\ item[i].status = "LISTED" /\ req[r].change # None
               /\ req' = [req EXCEPT ![r].pc = "updateItem",
                                     ![r].inputs = Merged(item[i].inputs, req[r].change)]
      <4> DEFINE m == Merged(item[i].inputs, req[r].change)
                 x == [req[r] EXCEPT !.pc = "updateItem", !.inputs = m]
      <4>1. i \in Items /\ item[i].status # Absent /\ req[r].change \in Changes
        BY <1>1, <1>4, <3>3 DEF Carries, FindItem, At, Request
      <4>2. item[i].inputs \in Inputs /\ WholeCents(item[i].inputs.unitCost)
        BY <4>1 DEF CostingInv, ItemSound, CoverInv
      <4>3. WholeCents(m.unitCost)
        BY <4>1, <4>2, MergedCents
      <4> HIDE DEF m
      <4>4. x.pc = "updateItem" /\ x.inputs = m
        BY <1>1 DEF Request
      <4>5. req' = [req EXCEPT ![r] = x]
        BY <1>1, <3>3 DEF m
      <4>6. QED
        BY <4>3, <4>4, <4>5 DEF Covered
    <3>4. QED
      BY <1>4, <3>1, <3>2, <3>3 DEF FindItem
  <2>3. QED
    BY <2>1, <2>2, CoverPlain
<1>5. CASE UpdateItemWrite(r)
  <2>1. WholeCents(req[r].inputs.unitCost)
    BY <1>1, <1>5 DEF UpdateItemWrite, Covered, At
  <2>2. \A o \in Items : item'[o] = item[o] \/ WholeCents(item'[o].inputs.unitCost)
    BY <1>1, <1>5, <2>1 DEF UpdateItemWrite, ItemDoc
  <2>3. QED
    BY <1>5, <2>2, IdleCovered, CoverStep DEF UpdateItemWrite, Continue
<1>6. CASE RemoveItemWrite(r)
  <2>1. i \in Items /\ WholeCents(item[i].inputs.unitCost)
    BY <1>1, <1>6 DEF RemoveItemWrite, Carries, At, CoverInv
  <2>2. \A o \in Items : item'[o] = item[o] \/ WholeCents(item'[o].inputs.unitCost)
    BY <1>1, <1>6, <2>1 DEF RemoveItemWrite, ItemDoc
  <2>3. QED
    BY <1>6, <2>2, IdleCovered, CoverStep DEF RemoveItemWrite, Continue
<1>7. CASE ReadItems(r)
  <2> DEFINE t == TotalsOf(Prices(p))
             x == [req[r] EXCEPT !.pc = "writeTotals", !.totals = t]
  <2>1. t.expectedProfit >= 0
    BY <1>1, <1>7, ReadsCovered DEF ReadItems, Carries, At
  <2> HIDE DEF t
  <2>2. x.pc = "writeTotals" /\ x.totals = t
    BY <1>1 DEF Request
  <2>3. req' = [req EXCEPT ![r] = x]
    BY <1>1, <1>7 DEF ReadItems, t
  <2>4. Covered(x)
    BY <2>1, <2>2 DEF Covered
  <2>5. QED
    BY <1>7, <2>3, <2>4, CoverPlain DEF ReadItems
<1>8. CASE WriteTotals(r)
  <2>1. req[r].totals.expectedProfit >= 0
    BY <1>1, <1>8 DEF WriteTotals, Covered, At
  <2>2. \A o \in Packages :
          package'[o].totals = package[o].totals \/ package'[o].totals.expectedProfit >= 0
    BY <1>1, <1>8, <2>1 DEF WriteTotals, PackageDoc
  <2>3. \E x : Covered(x) /\ req' = [req EXCEPT ![r] = x]
    BY <1>8, IdleCovered DEF WriteTotals, Return, Continue
  <2>4. QED
    BY <1>8, <2>2, <2>3, CoverStep DEF WriteTotals
<1>9. CASE FindPackage(r)
  <2>1. req' = [req EXCEPT ![r] = Idle] \/ req' = [req EXCEPT ![r] = [req[r] EXCEPT !.pc = "listItems"]]
    BY <1>1, <1>9 DEF FindPackage, Return, Goto
  <2>2. Covered([req[r] EXCEPT !.pc = "listItems"])
    BY <1>1 DEF Covered, Request
  <2>3. QED
    BY <1>9, <2>1, <2>2, IdleCovered, CoverPlain DEF FindPackage
<1>10. CASE ListItems(r)
  <2> DEFINE l == Prices(p)
             t == TotalsOf(l)
             x == [req[r] EXCEPT !.pc = "countQuotations", !.lines = l, !.totals = t]
  <2>1. t.expectedProfit >= 0
    BY <1>1, <1>10, ReadsCovered DEF ListItems, Carries, At
  <2> HIDE DEF l, t
  <2>2. x.pc = "countQuotations" /\ x.totals = t
    BY <1>1 DEF Request
  <2>3. req' = [req EXCEPT ![r] = x] \/ req' = [req EXCEPT ![r] = Idle]
    BY <1>1, <1>10 DEF ListItems, Return, l, t
  <2>4. Covered(x)
    BY <2>1, <2>2 DEF Covered
  <2>5. QED
    BY <1>10, <2>3, <2>4, IdleCovered, CoverPlain DEF ListItems
<1>11. CASE CountQuotations(r)
  <2> DEFINE n == Cardinality(QuotationsOf(req[r].package)) + 1
             x == [req[r] EXCEPT !.pc = "insertQuotation", !.version = n]
  <2>1. req' = [req EXCEPT ![r] = x]
    BY <1>1, <1>11 DEF CountQuotations
  <2>2. x.pc = "insertQuotation" /\ x.totals = req[r].totals
    BY <1>1 DEF Request
  <2>3. Covered(x)
    BY <1>1, <1>11, <2>2 DEF Covered, CountQuotations, At
  <2>4. QED
    BY <1>11, <2>1, <2>3, CoverPlain DEF CountQuotations
<1>12. CASE InsertQuotation(r)
  <2>1. req[r].totals.expectedProfit >= 0
    BY <1>1, <1>12 DEF InsertQuotation, Covered, At
  <2>2. \A o \in Quotations :
          quotation'[o] = quotation[o] \/ quotation'[o].totals.expectedProfit >= 0
    BY <1>1, <1>12, <2>1 DEF InsertQuotation
  <2>3. QED
    BY <1>12, <2>2, IdleCovered, CoverStep DEF InsertQuotation, Continue
<1>13. QED
  BY <1>2, <1>3, <1>4, <1>5, <1>6, <1>7, <1>8, <1>9, <1>10, <1>11, <1>12 DEF Proceed

\* As long as staff price in whole cents, no item, no package and no quotation is ever priced
\* at a loss, whatever quantities, markups and roundings, and whichever edits, recalculations
\* and generations overlap (pricing-engine.service.ts, packages.service.ts,
\* quotations.service.ts).
THEOREM NothingAtLoss == ASSUME CentPricing PROVE Spec => []NoLoss
<1>1. Init => CoverInv
  BY DEF Init, CoverInv, Covered, Idle, NoTotals
<1>2. CostingInv /\ CoverInv /\ [Next]_vars => CoverInv'
  <2> SUFFICES ASSUME CostingInv, CoverInv, [Next]_vars PROVE CoverInv'
    OBVIOUS
  <2>1. CASE UNCHANGED vars
    BY <2>1 DEF vars, CoverInv
  <2>2. ASSUME NEW p \in Packages, CreatePackage(p) PROVE CoverInv'
    <3>1. \A o \in Packages : package'[o].totals = package[o].totals
      BY <2>2 DEF CreatePackage, CostingInv, TypeOK, PackageDoc
    <3>2. UNCHANGED <<item, quotation, req>>
      BY <2>2 DEF CreatePackage
    <3>3. QED
      BY <3>1, <3>2 DEF CoverInv
  <2>3. ASSUME NEW r \in Requests, Arrive(r) PROVE CoverInv'
    BY <2>3, ArriveCovers
  <2>4. ASSUME NEW r \in Requests, Proceed(r) PROVE CoverInv'
    BY <2>4, ProceedCovers
  <2>5. ASSUME NEW r \in Requests, Crash(r) PROVE CoverInv'
    BY <2>5, IdleCovered, CoverPlain DEF Crash, Return
  <2>6. QED
    BY <2>1, <2>2, <2>3, <2>4, <2>5 DEF Next
<1>3. CostingInv /\ CoverInv => NoLoss
  BY ItemsCovered DEF CoverInv, NoLoss
<1>4. QED
  BY <1>1, <1>2, <1>3, Inductive, PTL DEF Spec

-----------------------------------------------------------------------------
(* What overlaps cost: nothing guards a package while its items change, so a total may be  *)
(* stale and an item may change after the package was archived.  These theorems say that   *)
(* two overlaps, each named below, are the only causes.                                    *)

Changing == {"addItem", "findItem", "updateItem", "removeItem"}
Refreshing == {"readItems", "writeTotals"}

\* The request that changes an item carries the item's package.
OwnInv ==
  \A r \in Requests : req[r].pc \in Changing \ {"addItem"} =>
    item[req[r].item].package = req[r].package

\* A step that writes no item and no totals, and moves no request that recalculates.
Plain ==
  /\ UNCHANGED item
  /\ \A p \in Packages : package'[p].totals = package[p].totals
  /\ \A s \in Requests :
       req[s].pc \in Refreshing \/ req'[s].pc = "writeTotals" => req'[s] = req[s]

\* Request r writes item i, which is new or of the package r carries, and goes on to
\* recalculate that package.
WritesItem(r, i) ==
  /\ req[r].pc \in Changing \ {"findItem"} /\ req[r].package \in Packages
  /\ \A j \in Items : j # i => item'[j] = item[j]
  /\ item[i].package \in {None, req[r].package} /\ item'[i].package = req[r].package
  /\ req'[r].pc = "readItems" /\ req'[r].package = req[r].package
  /\ \A s \in Requests : s # r => req'[s] = req[s]
  /\ UNCHANGED package

\* A request on its way to write an item was so before, for the same package and item, or
\* has just found the package to be open to changes.
ChangesBegin ==
  \A s \in Requests : req'[s].pc \in Changing =>
    \/ /\ req[s].pc \in Changing /\ req'[s].package = req[s].package
       /\ req'[s].pc # "addItem" => req[s].pc # "addItem" /\ req'[s].item = req[s].item
    \/ /\ Mutable(req'[s].package)
       /\ req'[s].pc # "addItem" => item[req'[s].item].package = req'[s].package

LEMMA ArriveKinds ==
  ASSUME CostingInv, NEW r \in Requests, Arrive(r)
  PROVE  Plain /\ ChangesBegin
<1> USE DEF CostingInv, TypeOK, Plain, ChangesBegin, Changing, Refreshing, Begin, At
<1>1. req \in [Requests -> Request] /\ req[r].pc = "idle"
  BY DEF Arrive, UpdatePackageRead, RemovePackageRead, Recalculate, AddItemRead, GenerateRead,
     ChangeItemRead
<1>2. ASSUME NEW p \in Packages, NEW s \in ManualStatuses \cup {None}, UpdatePackageRead(r, p, s)
      PROVE  Plain /\ ChangesBegin
  BY <1>1, <1>2 DEF UpdatePackageRead, Idle
<1>3. ASSUME NEW p \in Packages, RemovePackageRead(r, p) PROVE Plain /\ ChangesBegin
  BY <1>1, <1>3 DEF RemovePackageRead, Idle
<1>4. ASSUME NEW p \in Packages, Recalculate(r, p) PROVE Plain /\ ChangesBegin
  BY <1>1, <1>4 DEF Recalculate, Idle
<1>5. ASSUME NEW p \in Packages, AddItemRead(r, p) PROVE Plain /\ ChangesBegin
  BY <1>1, <1>5 DEF AddItemRead, Idle
<1>6. ASSUME NEW p \in Packages, GenerateRead(r, p) PROVE Plain /\ ChangesBegin
  BY <1>1, <1>6 DEF GenerateRead, Idle
<1>7. ASSUME NEW i \in Items, NEW change \in Changes \cup {None}, ChangeItemRead(r, i, change)
      PROVE  Plain /\ ChangesBegin
  BY <1>1, <1>7 DEF ChangeItemRead, Idle
<1>8. QED
  BY <1>2, <1>3, <1>4, <1>5, <1>6, <1>7 DEF Arrive

LEMMA ItemWriteKinds ==
  ASSUME CostingInv, OwnInv, NEW r \in Requests,
         AddItemWrite(r) \/ UpdateItemWrite(r) \/ RemoveItemWrite(r)
  PROVE  (\E i \in Items : WritesItem(r, i)) /\ ChangesBegin
<1> USE DEF CostingInv, TypeOK
<1>1. /\ req[r].pc \in Changing \ {"findItem"} /\ req[r].package \in Packages
      /\ req' = [req EXCEPT ![r] = [Idle EXCEPT !.pc = "readItems", !.package = req[r].package]]
      /\ UNCHANGED package
  BY DEF Carries, AddItemWrite, UpdateItemWrite, RemoveItemWrite, Continue, At, Changing
<1>2. /\ req'[r].pc = "readItems" /\ req'[r].package = req[r].package
      /\ \A s \in Requests : s # r => req'[s] = req[s]
  BY <1>1 DEF Idle
<1>3. ChangesBegin
  BY <1>2 DEF ChangesBegin, Changing
<1>4. CASE AddItemWrite(r)
  <2>1. PICK i \in Items :
          /\ item[i].status = Absent
          /\ item' = [item EXCEPT ![i] = [status |-> "LISTED", package |-> req[r].package,
                                          inputs |-> req[r].inputs,
                                          prices |-> CalculateItem(req[r].inputs)]]
    BY <1>4 DEF AddItemWrite
  <2>2. /\ item[i].package = None /\ item'[i].package = req[r].package
        /\ \A j \in Items : j # i => item'[j] = item[j]
    BY <2>1 DEF ItemSound
  <2>3. QED
    BY <1>1, <1>2, <1>3, <2>2 DEF WritesItem
<1>5. CASE UpdateItemWrite(r) \/ RemoveItemWrite(r)
  <2>1. /\ req[r].item \in Items /\ item[req[r].item].package = req[r].package
    BY <1>5 DEF Carries, OwnInv, UpdateItemWrite, RemoveItemWrite, At, Changing
  <2>2. /\ item'[req[r].item].package = item[req[r].item].package
        /\ \A j \in Items : j # req[r].item => item'[j] = item[j]
    BY <1>5, <2>1 DEF UpdateItemWrite, RemoveItemWrite, ItemDoc
  <2>3. QED
    BY <1>1, <1>2, <1>3, <2>1, <2>2 DEF WritesItem
<1>6. QED
  BY <1>4, <1>5

LEMMA ProceedKinds ==
  ASSUME CostingInv, OwnInv, NEW r \in Requests, Proceed(r)
  PROVE  /\ Plain \/ ReadItems(r) \/ WriteTotals(r) \/ \E i \in Items : WritesItem(r, i)
         /\ ChangesBegin
<1>1. req \in [Requests -> Request] /\ package \in [Packages -> PackageDoc]
  BY DEF CostingInv, TypeOK
<1>2. CASE AddItemWrite(r) \/ UpdateItemWrite(r) \/ RemoveItemWrite(r)
  BY <1>2, ItemWriteKinds
<1>3. CASE ReadItems(r)
  BY <1>1, <1>3 DEF ReadItems, ChangesBegin, Changing, At, Request
<1>4. CASE WriteTotals(r)
  <2>1. /\ req'[r].pc \in {"idle", "setCosted"}
        /\ \A s \in Requests : s # r => req'[s] = req[s]
    <3>1. Continue(r, "setCosted") \/ Return(r)
      BY <1>4 DEF WriteTotals
    <3>2. Return(r) => req'[r].pc = "idle" /\ \A s \in Requests : s # r => req'[s] = req[s]
      BY <1>1 DEF Return, Idle
    <3>3. Continue(r, "setCosted") =>
            req'[r].pc = "setCosted" /\ \A s \in Requests : s # r => req'[s] = req[s]
      BY <1>1 DEF Continue, Idle
    <3>4. QED
      BY <3>1, <3>2, <3>3
  <2>2. ChangesBegin
    BY <2>1 DEF ChangesBegin, Changing
  <2>3. QED
    BY <1>4, <2>2
<1> USE DEF Plain, ChangesBegin, Changing, Refreshing, At, Idle
<1>5. CASE UpdatePackageWrite(r) \/ RemovePackageWrite(r) \/ SetCosted(r) \/ SetQuoted(r)
  <2>1. UNCHANGED item /\ Return(r) /\ req[r].pc \notin Refreshing
    BY <1>5 DEF UpdatePackageWrite, RemovePackageWrite, SetCosted, SetQuoted
  <2>2. \A p \in Packages : package'[p].totals = package[p].totals
    BY <1>1, <1>5 DEF UpdatePackageWrite, RemovePackageWrite, SetCosted, SetQuoted, PackageDoc
  <2>3. QED
    BY <1>1, <2>1, <2>2 DEF Return
<1>6. CASE FindItem(r)
  <2>1. /\ req[r].pc = "findItem" /\ UNCHANGED <<package, item>>
        /\ \/ Return(r)
           \/ Goto(r, "removeItem")
           \/ \E x : req' = [req EXCEPT ![r].pc = "updateItem", ![r].inputs = x]
    BY <1>6 DEF FindItem
  <2>2. \A s \in Requests : s # r => req'[s] = req[s]
    BY <1>1, <2>1 DEF Return, Goto
  <2>3. \/ req'[r].pc = "idle"
        \/ /\ req'[r].pc \in {"removeItem", "updateItem"}
           /\ req'[r].package = req[r].package /\ req'[r].item = req[r].item
    BY <1>1, <2>1 DEF Return, Goto, Request
  <2>4. QED
    BY <2>1, <2>2, <2>3
<1>7. CASE FindPackage(r) \/ ListItems(r) \/ CountQuotations(r) \/ InsertQuotation(r)
  <2>1. /\ req[r].pc \notin Refreshing /\ UNCHANGED <<package, item>>
        /\ \A s \in Requests : s # r => req'[s] = req[s]
    BY <1>1, <1>7 DEF FindPackage, ListItems, CountQuotations, InsertQuotation, Goto, Return,
       Continue
  <2>2. FindPackage(r) => req'[r].pc \in {"idle", "listItems"}
    BY <1>1 DEF FindPackage, Goto, Return, Request
  <2>3. ListItems(r) => req'[r].pc \in {"idle", "countQuotations"}
    BY <1>1 DEF ListItems, Return, Request
  <2>4. CountQuotations(r) => req'[r].pc = "insertQuotation"
    BY <1>1 DEF CountQuotations, Request
  <2>5. InsertQuotation(r) => req'[r].pc = "setQuoted"
    BY <1>1 DEF InsertQuotation, Continue
  <2>6. QED
    BY <1>7, <2>1, <2>2, <2>3, <2>4, <2>5
<1>8. QED
  BY <1>2, <1>3, <1>4, <1>5, <1>6, <1>7 DEF Proceed

\* Every step is of one of four kinds, but for a crash.
LEMMA StepKinds ==
  ASSUME CostingInv, OwnInv, [Next]_vars
  PROVE  /\ \/ Plain
            \/ \E r \in Requests : Crash(r)
            \/ \E r \in Requests :
                 ReadItems(r) \/ WriteTotals(r) \/ \E i \in Items : WritesItem(r, i)
         /\ ChangesBegin
<1>1. req \in [Requests -> Request]
  BY DEF CostingInv, TypeOK
<1>2. CASE UNCHANGED vars
  BY <1>2 DEF vars, Plain, ChangesBegin
<1>3. ASSUME NEW p \in Packages, CreatePackage(p) PROVE Plain /\ ChangesBegin
  BY <1>3 DEF CreatePackage, Plain, ChangesBegin, CostingInv, TypeOK, PackageDoc
<1>4. ASSUME NEW r \in Requests, Crash(r) PROVE ChangesBegin
  BY <1>1, <1>4 DEF Crash, Return, Idle, ChangesBegin, Changing
<1>5. QED
  BY <1>2, <1>3, <1>4, ArriveKinds, ProceedKinds DEF Next

LEMMA OwnStep == CostingInv /\ OwnInv /\ [Next]_vars => OwnInv'
<1> SUFFICES ASSUME CostingInv, OwnInv, [Next]_vars,
                    NEW s \in Requests, req'[s].pc \in Changing \ {"addItem"}
             PROVE  item'[req'[s].item].package = req'[s].package
  BY DEF OwnInv
<1>1. req'[s].package # None /\ req'[s].item \in Items /\ CostingInv'
  <2>1. CostingInv'
    BY NextSound
  <2>2. QED
    BY <2>1, ConstantsOK DEF CostingInv, Carries, At, Changing
<1>2. item[req'[s].item].package = req'[s].package
  BY StepKinds DEF ChangesBegin, OwnInv, Changing
<1>3. \A i \in Items : item'[i].package \in {item[i].package} \/ item[i].package = None
  <2>1. \A r \in Requests : Crash(r) \/ ReadItems(r) \/ WriteTotals(r) => UNCHANGED item
    BY DEF Crash, ReadItems, WriteTotals
  <2>2. \A r \in Requests, i \in Items : WritesItem(r, i) =>
          \A j \in Items : item'[j].package = item[j].package \/ item[j].package = None
    BY DEF WritesItem
  <2>3. QED
    BY <2>1, <2>2, StepKinds DEF Plain
<1>4. QED
  BY <1>1, <1>2, <1>3

LEMMA Owns == Spec => [](CostingInv /\ OwnInv)
<1>1. Init => OwnInv
  BY DEF Init, OwnInv, Changing, Idle
<1>2. QED
  BY <1>1, OwnStep, Inductive, PTL DEF Spec

\* Prices(p) are those of p's items: they change only with an item that was or is p's.
LEMMA PricesKept ==
  ASSUME NEW p \in Packages,
         \A i \in Items : \/ item'[i] = item[i]
                          \/ item[i].package # p /\ item'[i].package # p
  PROVE  Prices(p)' = Prices(p) /\ TotalsOf(Prices(p))' = TotalsOf(Prices(p))
<1>1. \A i \in Items : /\ i \in ItemsOf(p)' <=> i \in ItemsOf(p)
                       /\ i \in ItemsOf(p) => item'[i].prices = item[i].prices
  BY DEF ItemsOf
<1>2. Prices(p)' = Prices(p)
  BY <1>1 DEF Prices
<1>3. QED
  BY <1>2 DEF TotalsOf, LinesOf

LEMMA SameItems == ASSUME UNCHANGED item, NEW p \in Packages
                   PROVE  Prices(p)' = Prices(p) /\ TotalsOf(Prices(p))' = TotalsOf(Prices(p))
  BY PricesKept

LEMMA OthersPricesKept ==
  ASSUME NEW r \in Requests, NEW i \in Items, WritesItem(r, i),
         NEW p \in Packages, p # req[r].package
  PROVE  Prices(p)' = Prices(p) /\ TotalsOf(Prices(p))' = TotalsOf(Prices(p))
<1>1. item[i].package # p /\ item'[i].package # p
  BY ConstantsOK DEF WritesItem
<1>2. QED
  BY <1>1, PricesKept DEF WritesItem

\* Request r has changed items of package p, or was asked to recalculate it, and has not
\* written the totals.
Refreshes(r, p) == req[r].pc \in Refreshing /\ req[r].package = p

\* No two of them at once.
OneRefresh ==
  \A p \in Packages : \A r \in Requests, s \in Requests :
    Refreshes(r, p) /\ Refreshes(s, p) => r = s

TotalsInv ==
  /\ \A p \in Packages :
       package[p].totals = TotalsOf(Prices(p)) \/ \E r \in Requests : Refreshes(r, p)
  /\ \A p \in Packages, r \in Requests :
       At(r, "writeTotals") /\ req[r].package = p => req[r].totals = TotalsOf(Prices(p))

LEMMA NoItemsNoTotals == ASSUME NEW l, LinesOf(l) = {} PROVE TotalsOf(l) = NoTotals
<1> DEFINE cost == [i \in {} |-> l[i].totalCost]
           sell == [i \in {} |-> l[i].totalSellPrice]
<1>1. SumFunction(cost) = 0 /\ SumFunction(sell) = 0
  BY EmptySum
<1>2. Round2(0, 1) = 0 /\ Round2(0 - 0, 1) = 0
  BY DEF Round2, Cent
<1>3. QED
  BY <1>1, <1>2 DEF TotalsOf, CalculatePackage, NoTotals

LEMMA InitTotals == Init => TotalsInv
<1> SUFFICES ASSUME Init PROVE TotalsInv
  OBVIOUS
<1>1. ASSUME NEW p \in Packages PROVE package[p].totals = TotalsOf(Prices(p))
  <2>1. \A i \in Items : Prices(p)[i] = None
    BY DEF Init, Prices, ItemsOf, Absent
  <2>2. LinesOf(Prices(p)) = {}
    BY <2>1 DEF LinesOf
  <2>3. QED
    BY <2>2, NoItemsNoTotals DEF Init
<1>2. QED
  BY <1>1 DEF Init, TotalsInv, At, Idle

LEMMA PlainTotals == ASSUME CostingInv, TotalsInv, Plain PROVE TotalsInv'
<1>1. ASSUME NEW p \in Packages
      PROVE  package'[p].totals = TotalsOf(Prices(p))' \/ \E r \in Requests : Refreshes(r, p)'
  BY SameItems DEF Plain, TotalsInv, Refreshes
<1>2. ASSUME NEW p \in Packages, NEW r \in Requests, At(r, "writeTotals")', req'[r].package = p
      PROVE  req'[r].totals = TotalsOf(Prices(p))'
  BY <1>2, SameItems DEF Plain, TotalsInv, At
<1>3. QED
  BY <1>1, <1>2 DEF TotalsInv

\* What the request reads are the package's items, which no one else changes meanwhile.
LEMMA ReadTotals ==
  ASSUME CostingInv, TotalsInv, NEW r \in Requests, ReadItems(r)
  PROVE  TotalsInv'
<1> DEFINE x == [req[r] EXCEPT !.pc = "writeTotals", !.totals = TotalsOf(Prices(req[r].package))]
<1>1. /\ req' = [req EXCEPT ![r] = x] /\ req \in [Requests -> Request]
      /\ UNCHANGED <<package, item>> /\ req[r].pc = "readItems" /\ req[r].package \in Packages
  BY DEF ReadItems, CostingInv, TypeOK, Carries, At
<1>2. /\ x.pc = "writeTotals" /\ x.package = req[r].package
      /\ x.totals = TotalsOf(Prices(req[r].package))
  BY <1>1 DEF Request
<1> HIDE DEF x
<1>3. req'[r] = x /\ \A s \in Requests : s # r => req'[s] = req[s]
  BY <1>1
<1>4. ASSUME NEW p \in Packages
      PROVE  package'[p].totals = TotalsOf(Prices(p))' \/ \E s \in Requests : Refreshes(s, p)'
  <2>1. ASSUME NEW s \in Requests, Refreshes(s, p) PROVE Refreshes(s, p)'
    BY <1>2, <1>3, <2>1 DEF Refreshes, Refreshing
  <2>2. QED
    BY <1>1, <2>1, SameItems DEF TotalsInv
<1>5. ASSUME NEW p \in Packages, NEW s \in Requests, At(s, "writeTotals")', req'[s].package = p
      PROVE  req'[s].totals = TotalsOf(Prices(p))'
  <2>1. CASE s = r
    BY <1>1, <1>2, <1>3, <1>5, <2>1, SameItems
  <2>2. CASE s # r
    BY <1>1, <1>3, <1>5, <2>2, SameItems DEF TotalsInv, At
  <2>3. QED
    BY <2>1, <2>2
<1>6. QED
  BY <1>4, <1>5 DEF TotalsInv

\* The totals written are those of the items as they are.
LEMMA WrittenTotals ==
  ASSUME CostingInv, TotalsInv, OneRefresh, NEW r \in Requests, WriteTotals(r)
  PROVE  TotalsInv'
<1>0. PICK p \in Packages : p = req[r].package
  BY DEF WriteTotals, CostingInv, Carries, At
<1>1. /\ UNCHANGED item /\ req[r].pc = "writeTotals"
      /\ package' = [package EXCEPT ![p].totals = req[r].totals]
      /\ req[r].totals = TotalsOf(Prices(p))
  BY <1>0 DEF WriteTotals, At, TotalsInv
<1>2. /\ package'[p].totals = req[r].totals
      /\ \A o \in Packages : o # p => package'[o].totals = package[o].totals
  BY <1>1 DEF CostingInv, TypeOK, PackageDoc
<1>3. /\ req'[r].pc \in {"idle", "setCosted"}
      /\ \A s \in Requests : s # r => req'[s] = req[s]
  <2>1. Continue(r, "setCosted") \/ Return(r)
    BY DEF WriteTotals
  <2>2. Return(r) => req'[r].pc = "idle" /\ \A s \in Requests : s # r => req'[s] = req[s]
    BY DEF Return, Idle, CostingInv, TypeOK
  <2>3. Continue(r, "setCosted") =>
          req'[r].pc = "setCosted" /\ \A s \in Requests : s # r => req'[s] = req[s]
    BY DEF Continue, Idle, CostingInv, TypeOK
  <2>4. QED
    BY <2>1, <2>2, <2>3
<1>4. package'[p].totals = TotalsOf(Prices(p))'
  BY <1>1, <1>2, SameItems
<1>5. ASSUME NEW o \in Packages, o # p
      PROVE  package'[o].totals = TotalsOf(Prices(o))' \/ \E s \in Requests : Refreshes(s, o)'
  <2>1. ASSUME NEW s \in Requests, Refreshes(s, o) PROVE Refreshes(s, o)'
    BY <1>0, <1>3, <1>5, <2>1 DEF Refreshes
  <2>2. QED
    BY <1>1, <1>2, <1>5, <2>1, SameItems DEF TotalsInv
<1>6. ASSUME NEW o \in Packages, NEW s \in Requests, At(s, "writeTotals")', req'[s].package = o
      PROVE  req'[s].totals = TotalsOf(Prices(o))'
  BY <1>1, <1>3, <1>6, SameItems DEF TotalsInv, At
<1>7. QED
  BY <1>4, <1>5, <1>6 DEF TotalsInv

\* The writer of an item recalculates next, and no one else does.
LEMMA ItemWriteTotals ==
  ASSUME CostingInv, TotalsInv, OneRefresh', NEW r \in Requests, NEW i \in Items, WritesItem(r, i)
  PROVE  TotalsInv'
<1>0. PICK p \in Packages : p = req[r].package
  BY DEF WritesItem
<1>1. Refreshes(r, p)'
  BY <1>0 DEF WritesItem, Refreshes, Refreshing
<1>2. ASSUME NEW o \in Packages, o # p
      PROVE  package'[o].totals = TotalsOf(Prices(o))' \/ \E s \in Requests : Refreshes(s, o)'
  <2>1. ASSUME NEW s \in Requests, Refreshes(s, o) PROVE Refreshes(s, o)'
    BY <1>0, <1>2, <2>1 DEF WritesItem, Refreshes
  <2>2. QED
    BY <1>0, <1>2, <2>1, OthersPricesKept DEF TotalsInv, WritesItem
<1>3. ASSUME NEW o \in Packages, NEW s \in Requests, At(s, "writeTotals")', req'[s].package = o
      PROVE  req'[s].totals = TotalsOf(Prices(o))'
  <2>1. s # r /\ req'[s] = req[s]
    BY <1>3 DEF WritesItem, At
  <2>2. o # p
    BY <1>1, <1>3, <2>1 DEF OneRefresh, Refreshes, Refreshing, At
  <2>3. QED
    BY <1>0, <1>3, <2>1, <2>2, OthersPricesKept DEF TotalsInv, At
<1>4. QED
  BY <1>1, <1>2, <1>3 DEF TotalsInv

\* If no two requests ever refresh the same package at once and the server does not die, the
\* totals of every package settle to those of its items (packages.service.ts refreshPackage):
\* the overlap that the counterexample to TotalsSettle shows is the only one that matters,
\* and reads, checks, edits of other packages and generations may overlap as they like.
THEOREM TotalsSettleOneByOne ==
  ASSUME ~MayCrash
  PROVE  Spec /\ []OneRefresh => []TotalsSettle
<1>1. CostingInv /\ OwnInv /\ TotalsInv /\ OneRefresh /\ OneRefresh' /\ [Next]_vars => TotalsInv'
  BY StepKinds, PlainTotals, ReadTotals, WrittenTotals, ItemWriteTotals DEF Crash
<1>2. TotalsInv => TotalsSettle
  BY DEF TotalsInv, TotalsSettle, Refreshes, Refreshing, At
<1>3. QED
  BY <1>1, <1>2, Owns, InitTotals, PTL DEF Spec

\* Request r may still write an item of package p.
ChangesItems(r, p) == req[r].pc \in Changing /\ req[r].package = p

\* An archived package whose last change of an item has ended.
Shut(p) == package[p].status = "ARCHIVED" /\ \A r \in Requests : ~ChangesItems(r, p)

\* "Archived package cannot be edited" (packages.service.ts assertMutablePackage): once the
\* changes that were checked before the archiving have ended, the items of an archived
\* package and their prices stay, and no change of them begins, until its status changes.
THEOREM ArchivedStaysShut ==
  Spec => [][\A p \in Packages : Shut(p) =>
               /\ Prices(p)' = Prices(p)
               /\ package'[p].status = "ARCHIVED" => Shut(p)']_vars
<1>1. ASSUME CostingInv, OwnInv, [Next]_vars, NEW p \in Packages, Shut(p)
      PROVE  Prices(p)' = Prices(p) /\ \A s \in Requests : ~ChangesItems(s, p)'
  <2>1. Prices(p)' = Prices(p)
    <3>1. \A r \in Requests : Crash(r) \/ ReadItems(r) \/ WriteTotals(r) => UNCHANGED item
      BY DEF Crash, ReadItems, WriteTotals
    <3>2. ASSUME NEW r \in Requests, NEW i \in Items, WritesItem(r, i)
          PROVE  Prices(p)' = Prices(p)
      BY <1>1, <3>2, OthersPricesKept DEF WritesItem, Shut, ChangesItems
    <3>3. QED
      BY <1>1, <3>1, <3>2, StepKinds, SameItems DEF Plain
  <2>2. ASSUME NEW s \in Requests, ChangesItems(s, p)' PROVE FALSE
    <3>1. req'[s].pc \in Changing /\ req'[s].package = p
      BY <2>2 DEF ChangesItems
    <3>2. ChangesBegin
      BY <1>1, StepKinds
    <3>3. ~Mutable(p)
      BY <1>1 DEF Shut, Mutable
    <3>4. QED
      BY <1>1, <3>1, <3>2, <3>3 DEF ChangesBegin, Shut, ChangesItems
  <2>3. QED
    BY <2>1, <2>2
<1>2. CostingInv /\ OwnInv /\ [Next]_vars =>
        [\A p \in Packages : Shut(p) => /\ Prices(p)' = Prices(p)
                                        /\ package'[p].status = "ARCHIVED" => Shut(p)']_vars
  BY <1>1 DEF Shut
<1>3. QED
  BY <1>2, Owns, PTL DEF Spec

-----------------------------------------------------------------------------
(* Versions: the number is counted in one query and inserted in the next, and no index on  *)
(* package and version refuses it a second time.                                           *)

\* Request r has counted the quotations of package p and is about to insert one more.
Numbering(r, p) == At(r, "insertQuotation") /\ req[r].package = p

\* Never do two generations of a package stand between count and insert.
OneNumbering ==
  \A p \in Packages : \A r, s \in Requests : Numbering(r, p) /\ Numbering(s, p) => r = s

Count(p) == Cardinality(QuotationsOf(p))

\* The versions of a package's quotations are 1, 2, 3 and so on, each given once.
Numbered(p) ==
  /\ \A a, b \in QuotationsOf(p) : quotation[a].version = quotation[b].version => a = b
  /\ \A n \in 1 .. Count(p) : \E q \in QuotationsOf(p) : quotation[q].version = n

NumberingInv ==
  /\ \A p \in Packages : Numbered(p)
  /\ \A r \in Requests : At(r, "insertQuotation") => req[r].version = Count(req[r].package) + 1

\* Which steps write a quotation, and which bring a request to its insert.
LEMMA NumberingKinds ==
  ASSUME CostingInv, [Next]_vars
  PROVE  /\ UNCHANGED quotation \/ \E r \in Requests : InsertQuotation(r)
         /\ \A s \in Requests : req'[s].pc = "insertQuotation" =>
              req'[s] = req[s] \/ CountQuotations(s)
<1>1. req \in [Requests -> Request]
  BY DEF CostingInv, TypeOK
<1>2. CASE UNCHANGED vars
  BY <1>2 DEF vars
<1>3. ASSUME NEW p \in Packages, CreatePackage(p)
      PROVE  UNCHANGED <<quotation, req>>
  BY <1>3 DEF CreatePackage
<1>4. ASSUME NEW r \in Requests, Arrive(r) \/ Crash(r)
      PROVE  /\ UNCHANGED quotation /\ req'[r].pc # "insertQuotation"
             /\ \A s \in Requests : s # r => req'[s] = req[s]
  <2>1. CASE Crash(r)
    BY <1>1, <2>1 DEF Crash, Return, Idle
  <2>2. CASE Arrive(r)
    BY <1>1, <2>2 DEF Arrive, UpdatePackageRead, RemovePackageRead, Recalculate, AddItemRead,
       GenerateRead, ChangeItemRead, Begin, Idle
  <2>3. QED
    BY <1>4, <2>1, <2>2
<1>5. ASSUME NEW r \in Requests, Proceed(r), ~CountQuotations(r)
      PROVE  /\ UNCHANGED quotation \/ InsertQuotation(r)
             /\ req'[r].pc # "insertQuotation"
             /\ \A s \in Requests : s # r => req'[s] = req[s]
  <2> USE <1>1 DEF Return, Continue, Goto, Idle, Request
  <2>1. CASE UpdatePackageWrite(r) \/ RemovePackageWrite(r) \/ SetCosted(r) \/ SetQuoted(r)
    BY <2>1 DEF UpdatePackageWrite, RemovePackageWrite, SetCosted, SetQuoted
  <2>2. CASE AddItemWrite(r) \/ UpdateItemWrite(r) \/ RemoveItemWrite(r)
    <3>1. Continue(r, "readItems") /\ UNCHANGED quotation
      BY <2>2 DEF AddItemWrite, UpdateItemWrite, RemoveItemWrite
    <3>2. QED
      BY <3>1
  <2>3. CASE FindItem(r)
    BY <2>3 DEF FindItem
  <2>4. CASE ReadItems(r)
    BY <2>4 DEF ReadItems
  <2>5. CASE WriteTotals(r)
    <3>1. UNCHANGED quotation /\ (Continue(r, "setCosted") \/ Return(r))
      BY <2>5 DEF WriteTotals
    <3>2. Continue(r, "setCosted") => req'[r].pc = "setCosted"
      OBVIOUS
    <3>3. Return(r) => req'[r].pc = "idle"
      OBVIOUS
    <3>4. QED
      BY <3>1, <3>2, <3>3
  <2>6. CASE FindPackage(r)
    BY <2>6 DEF FindPackage
  <2>7. CASE ListItems(r)
    BY <2>7 DEF ListItems
  <2>8. CASE InsertQuotation(r)
    BY <2>8 DEF InsertQuotation
  <2>9. QED
    BY <1>5, <2>1, <2>2, <2>3, <2>4, <2>5, <2>6, <2>7, <2>8 DEF Proceed
<1>6. ASSUME NEW r \in Requests, CountQuotations(r)
      PROVE  UNCHANGED quotation /\ \A s \in Requests : s # r => req'[s] = req[s]
  BY <1>1, <1>6 DEF CountQuotations
<1>7. QED
  BY <1>2, <1>3, <1>4, <1>5, <1>6 DEF Next

\* A count made while the quotations stay is the next number.
LEMMA CountedNext ==
  ASSUME CostingInv, NEW s \in Requests, CountQuotations(s)
  PROVE  req'[s].version = Count(req'[s].package) + 1
  BY DEF CostingInv, TypeOK, CountQuotations, Request, Count

\* The quotations of a package stay when no quotation is written.
LEMMA SameQuotations ==
  ASSUME UNCHANGED quotation, NEW p \in Packages
  PROVE  /\ QuotationsOf(p)' = QuotationsOf(p) /\ Count(p)' = Count(p)
         /\ Numbered(p) => Numbered(p)'
<1>1. QuotationsOf(p)' = QuotationsOf(p)
  BY DEF QuotationsOf
<1>2. Count(p)' = Count(p)
  BY <1>1 DEF Count
<1>3. QED
  BY <1>1, <1>2 DEF Numbered

\* An insert whose number is the next one leaves its package numbered.
LEMMA InsertNumbers ==
  ASSUME CostingInv, NumberingInv, NEW r \in Requests, InsertQuotation(r), NEW p \in Packages
  PROVE  /\ Numbered(p)'
         /\ p # req[r].package => Count(p)' = Count(p)
<1>1. PICK q \in Quotations :
        /\ quotation[q].package = None
        /\ quotation' = [quotation EXCEPT ![q] =
             [package |-> req[r].package, version |-> req[r].version, lines |-> req[r].lines,
              totals |-> req[r].totals, customerPrice |-> req[r].totals.totalSellPrice]]
  BY DEF InsertQuotation
<1>2. /\ quotation'[q].package = req[r].package /\ quotation'[q].version = req[r].version
      /\ \A o \in Quotations : o # q => quotation'[o] = quotation[o]
  BY <1>1 DEF CostingInv, TypeOK
<1>3. p # None
  BY ConstantsOK
<1>4. CASE p # req[r].package
  <2>1. QuotationsOf(p)' = QuotationsOf(p) /\ q \notin QuotationsOf(p)
    BY <1>1, <1>2, <1>3, <1>4 DEF QuotationsOf
  <2>2. Count(p)' = Count(p)
    BY <2>1 DEF Count
  <2>3. \A o \in QuotationsOf(p) : quotation'[o] = quotation[o]
    BY <1>2, <2>1 DEF QuotationsOf
  <2>4. Numbered(p)
    BY DEF NumberingInv
  <2>5. QED
    BY <1>4, <2>1, <2>2, <2>3, <2>4 DEF Numbered
<1>5. CASE p = req[r].package
  <2>1. QuotationsOf(p)' = QuotationsOf(p) \cup {q} /\ q \notin QuotationsOf(p)
    BY <1>1, <1>2, <1>3, <1>5 DEF QuotationsOf
  <2>2. IsFiniteSet(QuotationsOf(p))
    BY ConstantsOK, FS_Subset DEF QuotationsOf
  <2>3. Count(p) \in Nat /\ Count(p)' = Count(p) + 1
    BY <2>1, <2>2, FS_AddElement, FS_CardinalityType DEF Count
  <2>4. quotation'[q].version = Count(p) + 1
    BY <1>2, <1>5 DEF NumberingInv, InsertQuotation
  <2>5. \A o \in QuotationsOf(p) : quotation'[o] = quotation[o]
    BY <1>2, <2>1 DEF QuotationsOf
  <2>6. \A o \in QuotationsOf(p) : quotation[o].version \in 1 .. Count(p)
    BY <1>3 DEF CostingInv, QuotationSound, QuotationsOf, Count
  <2>7. Numbered(p)
    BY DEF NumberingInv
  <2>8. \A a, b \in QuotationsOf(p)' : quotation'[a].version = quotation'[b].version => a = b
    <3>1. \A o \in QuotationsOf(p) : quotation'[o].version # quotation'[q].version
      BY <2>3, <2>4, <2>5, <2>6
    <3>2. QED
      BY <2>1, <2>5, <2>7, <3>1 DEF Numbered
  <2>9. \A n \in 1 .. Count(p)' : \E o \in QuotationsOf(p)' : quotation'[o].version = n
    <3>1. \A n \in 1 .. Count(p)' : n \in 1 .. Count(p) \/ n = Count(p) + 1
      BY <2>3
    <3>2. \A n \in 1 .. Count(p) : \E o \in QuotationsOf(p) : quotation'[o].version = n
      BY <2>5, <2>7 DEF Numbered
    <3>3. QED
      BY <2>1, <2>4, <3>1, <3>2
  <2>10. QED
    BY <1>5, <2>8, <2>9 DEF Numbered
<1>6. QED
  BY <1>4, <1>5

LEMMA NumberingStep ==
  ASSUME CostingInv, NumberingInv, OneNumbering, OneNumbering', [Next]_vars
  PROVE  NumberingInv'
<1>1. \A s \in Requests : At(s, "insertQuotation") => req[s].package \in Packages
  BY DEF CostingInv, Carries, At
<1>2. ASSUME NEW p \in Packages PROVE Numbered(p)'
  BY <1>2, NumberingKinds, InsertNumbers, SameQuotations DEF NumberingInv
<1>3. ASSUME NEW s \in Requests, req'[s].pc = "insertQuotation"
      PROVE  req'[s].version = Count(req[s].package)' + 1
  <2>1. CASE CountQuotations(s)
    <3>1. UNCHANGED quotation
      BY <2>1 DEF CountQuotations
    <3>2. PICK p \in Packages : req'[s].package = p /\ req[s].package = p
      BY <2>1 DEF CostingInv, TypeOK, Carries, CountQuotations, At, Request
    <3>3. Count(p)' = Count(p)
      BY <3>1, SameQuotations
    <3>4. Count(req[s].package)' = Count(p)'
      BY <3>2 DEF Count, QuotationsOf
    <3>5. QED
      BY <2>1, <3>2, <3>3, <3>4, CountedNext
  <2>2. CASE req'[s] = req[s] /\ UNCHANGED quotation
    <3>1. PICK p \in Packages : req[s].package = p /\ req[s].version = Count(p) + 1
      BY <1>1, <1>3, <2>2 DEF NumberingInv, At
    <3>2. Count(req[s].package)' = Count(p)' /\ Count(p)' = Count(p)
      BY <2>2, <3>1 DEF Count, QuotationsOf
    <3>3. QED
      BY <2>2, <3>1, <3>2
  <2>3. ASSUME NEW r \in Requests, InsertQuotation(r), req'[s] = req[s]
        PROVE  req'[s].version = Count(req[s].package)' + 1
    <3>1. req'[r].pc = "setQuoted" /\ At(r, "insertQuotation")
      BY <2>3 DEF InsertQuotation, Continue, Idle, CostingInv, TypeOK
    <3>2. s # r /\ At(s, "insertQuotation")
      BY <1>3, <2>3, <3>1 DEF At
    <3>3. req[s].package # req[r].package /\ req[s].package \in Packages
      BY <1>1, <3>1, <3>2 DEF OneNumbering, Numbering
    <3>4. PICK p \in Packages : p = req[s].package /\ Count(p)' = Count(p)
      BY <2>3, <3>3, InsertNumbers
    <3>5. Count(req[s].package)' = Count(p)'
      BY <2>3, <3>4 DEF Count, QuotationsOf
    <3>6. QED
      BY <2>3, <3>2, <3>4, <3>5 DEF NumberingInv
  <2>4. QED
    BY <1>3, <2>1, <2>2, <2>3, NumberingKinds
<1>4. \A s \in Requests :
        At(s, "insertQuotation")' => req[s].version' = Count(req[s].package)' + 1
  BY <1>3 DEF At
<1>5. QED
  BY <1>2, <1>4 DEF NumberingInv

LEMMA InitNumbered == Init => NumberingInv
<1> SUFFICES ASSUME Init PROVE NumberingInv
  OBVIOUS
<1>1. \A p \in Packages : QuotationsOf(p) = {}
  BY ConstantsOK DEF Init, QuotationsOf
<1>2. Cardinality({}) = 0
  BY FS_EmptySet
<1>3. \A p \in Packages : Numbered(p)
  BY <1>1, <1>2 DEF Numbered, Count
<1>4. QED
  BY <1>3 DEF NumberingInv, Init, Idle, At

\* If never two generations of one package stand between their count and their insert, the
\* versions of its quotations are 1, 2, 3 and so on, each given once (generateFromPackage in
\* quotations.service.ts, "an incremented version"), whatever else overlaps and wherever a
\* generation is cut off.  Two that do get the same version, as no index refuses it.
THEOREM VersionsOneByOne ==
  Spec /\ []OneNumbering => [](\A p \in Packages : Numbered(p))
<1>1. NumberingInv => \A p \in Packages : Numbered(p)
  BY DEF NumberingInv
<1>2. CostingInv /\ NumberingInv /\ OneNumbering /\ OneNumbering' /\ [Next]_vars => NumberingInv'
  BY NumberingStep
<1>3. QED
  BY <1>1, <1>2, Inductive, InitNumbered, PTL DEF Spec

=============================================================================
