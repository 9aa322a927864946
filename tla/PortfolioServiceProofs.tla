----------------------- MODULE PortfolioServiceProofs -----------------------
(***************************************************************************)
(* Proofs about module PortfolioService: each workflow takes effect at     *)
(* once on the document as it is then, or not at all, as AtomicPortfolios  *)
(* specifies, and no race of workflows stores a history that sells what    *)
(* was not bought.                                                         *)
(***************************************************************************)
EXTENDS PortfolioService, FiniteSetTheorems, WellFoundedInduction, TLAPS

-----------------------------------------------------------------------------
\* The instance of the ledger in the abstract specification is the ledger.
LEMMA SameCount == \A S : Atomic!Cardinality(S) = Cardinality(S)
BY Zenon DEF Atomic!Cardinality, Cardinality

LEMMA SameByDay == \A trades : Atomic!ByDay(trades) = ByDay(trades)
BY Zenon DEF Atomic!ByDay, ByDay, Atomic!Inserted, Inserted, Atomic!FoldLeft, FoldLeft,
   Atomic!MapThenFoldSet, MapThenFoldSet, Atomic!Cardinality, Cardinality, Atomic!Max, Max

LEMMA SameAccepted == \A trades : Atomic!Accepted(trades) <=> Accepted(trades)
<1>1. \A trades : Atomic!PositionAfter(trades) = PositionAfter(trades)
  BY Zenon DEF Atomic!PositionAfter, PositionAfter, Atomic!FoldLeft, FoldLeft,
     Atomic!MapThenFoldSet, MapThenFoldSet, Atomic!Max, Max
<1> QED
  BY <1>1, Zenon DEF Atomic!Accepted, Accepted

LEMMA SameMerged == \A doc, rows : Atomic!Merged(doc, rows) = Merged(doc, rows)
<1>1. \A rows : Atomic!ReadRows(rows) = ReadRows(rows)
  BY SameByDay, SameCount, Zenon DEF Atomic!ReadRows, ReadRows, Atomic!Details, Details,
     Atomic!NoId, NoId
<1>2. \A trades, rows : Atomic!FoldLeft(Atomic!Added, trades, rows) = FoldLeft(Added, trades, rows)
  BY Zenon DEF Atomic!Added, Added, Atomic!Has, Has, Atomic!FoldLeft, FoldLeft,
     Atomic!MapThenFoldSet, MapThenFoldSet, Atomic!Max, Max
<1> QED
  BY <1>1, <1>2, SameByDay, Zenon DEF Atomic!Merged, Merged

LEMMA SameCorrected == \A doc, t : Atomic!Corrected(doc, t) = Corrected(doc, t)
BY SameByDay, Zenon DEF Atomic!Corrected, Corrected

LEMMA SameMayRecord == \A doc, t : Atomic!MayRecord(doc, t) <=> MayRecord(doc, t)
BY SameAccepted, Zenon DEF Atomic!MayRecord, MayRecord, Atomic!Has, Has

LEMMA SameMayCorrect == \A doc, t : Atomic!MayCorrect(doc, t) <=> MayCorrect(doc, t)
BY SameAccepted, SameCorrected, Zenon DEF Atomic!MayCorrect, MayCorrect, Atomic!Has, Has,
   Atomic!Find, Find

LEMMA SameMayMerge == \A doc, rows : Atomic!MayMerge(doc, rows) <=> MayMerge(doc, rows)
<1>1. \A rows : Atomic!ReadRows(rows) = ReadRows(rows)
  BY SameByDay, SameCount, Zenon DEF Atomic!ReadRows, ReadRows, Atomic!Details, Details,
     Atomic!NoId, NoId
<1> QED
  BY <1>1, SameAccepted, SameMerged, Zenon DEF Atomic!MayMerge, MayMerge, Atomic!Find, Find

-----------------------------------------------------------------------------
(* Induction up to a number, and what a fold over a sequence computes, step  *)
(* by step.  The folds of the ledger are named, so that one lemma serves all.*)

LEMMA UpTo ==
  ASSUME NEW n \in Nat, NEW G, 0 \in G, \A k \in 1..n : k - 1 \in G => k \in G
  PROVE  \A k \in 0..n : k \in G
<1> DEFINE Bad == {k \in 0..n : k \notin G}
           R == OpToRel(<, Nat)
<1> SUFFICES ASSUME Bad # {} PROVE FALSE
  OBVIOUS
<1>1. IsWellFoundedOn(R, Nat)
  BY NatLessThanWellFounded
<1>2. Bad \subseteq Nat
  OBVIOUS
<1>3. PICK m \in Bad : \A k \in Bad : <<k, m>> \notin R
  <2> HIDE DEF R, Bad
  <2> QED
    BY <1>1, <1>2, WFMin
<1>4. m \in 0..n /\ m # 0 /\ m \notin G
  OBVIOUS
<1>5. m \in 1..n /\ m - 1 \in 0..n /\ m - 1 < m
  BY <1>4
<1>6. \A k \in Bad : ~(k < m)
  <2> HIDE DEF Bad
  <2> QED
    BY <1>2, <1>3 DEF OpToRel
<1>7. m - 1 \in G
  BY <1>5, <1>6
<1> QED
  BY <1>4, <1>5, <1>7

\* The number in a set of numbers that is at least every other is its maximum.
LEMMA MaxOfSet ==
  ASSUME NEW S, S \subseteq Nat, NEW m \in S, \A x \in S : m >= x
  PROVE  Max(S) = m
<1>1. \A x \in S : (\A y \in S : x >= y) => x = m
  OBVIOUS
<1> QED
  BY <1>1 DEF Max

Posting(held, t) ==
  IF held = 0 THEN 0
  ELSE CASE t.side = "BUY" -> held + t.quantity
         [] t.side = "SELL" -> IF t.quantity < held THEN held - t.quantity ELSE 0
         [] t.side = "DIVIDEND" -> IF t.quantity < held THEN held ELSE 0

Summing(side, sum, t) == IF t.side = side THEN sum + t.quantity ELSE sum

AddedAll(trades, rows) == FoldLeft(Added, trades, rows)

FoldStep(fold, acc, t) ==
  IF fold = "position" THEN Posting(acc, t)
  ELSE IF fold = "sort" THEN Inserted(acc, t)
  ELSE IF fold = "add" THEN Added(acc, t)
  ELSE Summing(fold, acc, t)

\* The equation that defines a fold, for the first n elements.
FoldUpTo(fold, base, seq, n, h) ==
  h = [s \in SUBSET (1..n) |->
         IF s = {} THEN base ELSE FoldStep(fold, h[s \ {Max(s)}], seq[Max(s)])]

LEMMA FoldGrows ==
  ASSUME NEW fold, NEW base, NEW seq, NEW n \in Nat, NEW h, FoldUpTo(fold, base, seq, n, h)
  PROVE  \E g : FoldUpTo(fold, base, seq, n + 1, g)
<1> DEFINE g == [s \in SUBSET (1..(n + 1)) |->
                   IF n + 1 \notin s THEN h[s]
                   ELSE FoldStep(fold, h[s \ {n + 1}], seq[n + 1])]
           F(s) == IF s = {} THEN base
                   ELSE FoldStep(fold, g[s \ {Max(s)}], seq[Max(s)])
<1>1. \A s \in SUBSET (1..n) : h[s] = IF s = {} THEN base
                                      ELSE FoldStep(fold, h[s \ {Max(s)}], seq[Max(s)])
  BY DEF FoldUpTo
<1>2. \A s \in SUBSET (1..n) : s \in SUBSET (1..(n + 1)) /\ n + 1 \notin s
  OBVIOUS
<1>3. \A s \in SUBSET (1..n) : g[s] = h[s]
  BY <1>2
<1>4. \A x \in 1..(n + 1) : n + 1 >= x /\ (x = n + 1 \/ x \in 1..n)
  OBVIOUS
<1>5. ASSUME NEW s \in SUBSET (1..(n + 1))
      PROVE  g[s] = F(s)
  <2>1. CASE n + 1 \notin s
    <3>1. s \in SUBSET (1..n) /\ s \ {Max(s)} \in SUBSET (1..n)
      BY Zenon, <1>4, <2>1
    <3>2. g[s] = h[s] /\ g[s \ {Max(s)}] = h[s \ {Max(s)}]
      BY <1>3, <3>1
    <3> HIDE DEF g
    <3> QED
      BY <1>1, <3>1, <3>2
  <2>2. CASE n + 1 \in s
    <3>1. Max(s) = n + 1
      <4>1. s \subseteq Nat /\ \A x \in s : n + 1 >= x
        BY <1>4
      <4> QED
        BY <2>2, <4>1, MaxOfSet
    <3>2. s \ {n + 1} \in SUBSET (1..n)
      BY Zenon, <1>4
    <3>3. g[s \ {n + 1}] = h[s \ {n + 1}]
      BY <1>3, <3>2
    <3>4. g[s] = FoldStep(fold, h[s \ {n + 1}], seq[n + 1])
      BY <2>2
    <3> HIDE DEF g
    <3>5. s # {} /\ F(s) = FoldStep(fold, g[s \ {n + 1}], seq[n + 1])
      BY Zenon, <2>2, <3>1
    <3> QED
      BY Zenon, <3>3, <3>4, <3>5
  <2> QED
    BY <2>1, <2>2
<1>6. g = [s \in SUBSET (1..(n + 1)) |-> F(s)]
  <2>1. g = [s \in SUBSET (1..(n + 1)) |-> g[s]]
    OBVIOUS
  <2> HIDE DEF g
  <2> QED
    BY <1>5, <2>1
<1> HIDE DEF g
<1> QED
  BY <1>6 DEF FoldUpTo

LEMMA FoldExists ==
  ASSUME NEW fold, NEW base, NEW seq, NEW n \in Nat
  PROVE  \E h : FoldUpTo(fold, base, seq, n, h)
<1> DEFINE G == {k \in Nat : \E h : FoldUpTo(fold, base, seq, k, h)}
<1>1. 0 \in G
  <2>1. FoldUpTo(fold, base, seq, 0, [s \in SUBSET (1..0) |-> base])
    BY DEF FoldUpTo
  <2> QED
    BY <2>1
<1>2. \A k \in 1..n : k - 1 \in G => k \in G
  <2> SUFFICES ASSUME NEW k \in 1..n, k - 1 \in G PROVE k \in G
    OBVIOUS
  <2>1. k - 1 \in Nat /\ (k - 1) + 1 = k
    OBVIOUS
  <2>2. PICK h : FoldUpTo(fold, base, seq, k - 1, h)
    BY <2>1
  <2>3. \E g : FoldUpTo(fold, base, seq, (k - 1) + 1, g)
    BY <2>1, <2>2, FoldGrows
  <2> QED
    BY <2>1, <2>3
<1> HIDE DEF G
<1>3. n \in G
  <2>1. n \in 0..n
    OBVIOUS
  <2> QED
    BY <1>1, <1>2, <2>1, UpTo
<1> QED
  BY <1>3 DEF G

\* What the fold has computed before the first element and after each.
Computes(fold, base, seq, n, acc) ==
  /\ acc[0] = base
  /\ \A k \in 1..n : acc[k] = FoldStep(fold, acc[k - 1], seq[k])

LEMMA FoldSteps ==
  ASSUME NEW fold, NEW base, NEW seq, NEW n \in Nat, NEW h, FoldUpTo(fold, base, seq, n, h)
  PROVE  \E acc : Computes(fold, base, seq, n, acc) /\ acc[n] = h[1..n]
<1> DEFINE acc == [k \in 0..n |-> h[1..k]]
<1>1. \A s \in SUBSET (1..n) : h[s] = IF s = {} THEN base
                                      ELSE FoldStep(fold, h[s \ {Max(s)}], seq[Max(s)])
  BY DEF FoldUpTo
<1>2. acc[0] = base
  <2>1. 1..0 = {} /\ 1..0 \in SUBSET (1..n) /\ 0 \in 0..n
    OBVIOUS
  <2>2. h[1..0] = base
    BY <1>1, <2>1
  <2> QED
    BY <2>1, <2>2
<1>3. ASSUME NEW k \in 1..n
      PROVE  acc[k] = FoldStep(fold, acc[k - 1], seq[k])
  <2>1. Max(1..k) = k
    <3>1. k \in 1..k /\ 1..k \subseteq Nat /\ \A x \in 1..k : k >= x
      OBVIOUS
    <3> QED
      BY <3>1, MaxOfSet
  <2>2. (1..k) \ {k} = 1..(k - 1) /\ 1..k \in SUBSET (1..n) /\ k \in 1..k
    OBVIOUS
  <2>3. h[1..k] = FoldStep(fold, h[1..(k - 1)], seq[k])
    <3> HIDE DEF acc
    <3>1. h[1..k] = IF 1..k = {} THEN base
                    ELSE FoldStep(fold, h[(1..k) \ {Max(1..k)}], seq[Max(1..k)])
      BY Zenon, <1>1, <2>2
    <3> QED
      BY Zenon, <2>1, <2>2, <3>1
  <2>4. k \in 0..n /\ k - 1 \in 0..n
    OBVIOUS
  <2> QED
    BY Zenon, <2>3, <2>4
<1>4. acc[n] = h[1..n]
  OBVIOUS
<1> HIDE DEF acc
<1>5. Computes(fold, base, seq, n, acc)
  BY Zenon, <1>2, <1>3 DEF Computes
<1> QED
  BY Zenon, <1>4, <1>5

\* Sorting, trade by trade.
LEMMA SortSteps ==
  ASSUME NEW S, NEW trades \in Seq(S)
  PROVE  \E acc : /\ acc[0] = <<>>
                  /\ \A k \in 1..Len(trades) : acc[k] = Inserted(acc[k - 1], trades[k])
                  /\ ByDay(trades) = acc[Len(trades)]
<1> DEFINE n == Len(trades)
           base == <<>>
           Solves(f) == f = [s \in SUBSET (1..n) |->
                               IF s = {} THEN base
                               ELSE Inserted(f[s \ {Max(s)}], trades[Max(s)])]
           h == CHOOSE f : Solves(f)
<1>1. n \in Nat /\ DOMAIN trades = 1..n
  OBVIOUS
<1>2. ByDay(trades) = h[1..n]
  <2> HIDE DEF n
  <2> QED
    BY Zenon, <1>1 DEF ByDay, FoldLeft, MapThenFoldSet
<1>3. \A a, t : FoldStep("sort", a, t) = Inserted(a, t)
  BY DEF FoldStep
<1> HIDE DEF n, base
<1>4. \A f : Solves(f) <=> FoldUpTo("sort", base, trades, n, f)
  BY Zenon, <1>3 DEF FoldUpTo
<1>5. FoldUpTo("sort", base, trades, n, h)
  <2>1. \E f : Solves(f)
    BY Zenon, <1>1, <1>4, FoldExists
  <2> HIDE DEF Solves
  <2>2. Solves(h)
    BY Zenon, <2>1
  <2> QED
    BY Zenon, <1>4, <2>2
<1> HIDE DEF h, Solves
<1>6. PICK acc : Computes("sort", base, trades, n, acc) /\ acc[n] = h[1..n]
  BY <1>1, <1>5, FoldSteps
<1>7. \A k \in 1..n : acc[k] = Inserted(acc[k - 1], trades[k])
  BY Zenon, <1>3, <1>6 DEF Computes
<1>8. ByDay(trades) = acc[n]
  BY Zenon, <1>2, <1>6
<1> QED
  BY Zenon, <1>6, <1>7, <1>8 DEF Computes, n, base

\* Adding the rows of a file, row by row.
LEMMA AddSteps ==
  ASSUME NEW S, NEW trades, NEW rows \in Seq(S)
  PROVE  \E acc : /\ acc[0] = trades
                  /\ \A k \in 1..Len(rows) : acc[k] = Added(acc[k - 1], rows[k])
                  /\ AddedAll(trades, rows) = acc[Len(rows)]
<1> DEFINE n == Len(rows)
           base == trades
           Solves(f) == f = [s \in SUBSET (1..n) |->
                               IF s = {} THEN base
                               ELSE Added(f[s \ {Max(s)}], rows[Max(s)])]
           h == CHOOSE f : Solves(f)
<1>1. n \in Nat /\ DOMAIN rows = 1..n
  OBVIOUS
<1>2. AddedAll(trades, rows) = h[1..n]
  <2> HIDE DEF n
  <2> QED
    BY Zenon, <1>1 DEF AddedAll, FoldLeft, MapThenFoldSet
<1>3. \A a, t : FoldStep("add", a, t) = Added(a, t)
  BY DEF FoldStep
<1> HIDE DEF n, base
<1>4. \A f : Solves(f) <=> FoldUpTo("add", base, rows, n, f)
  BY Zenon, <1>3 DEF FoldUpTo
<1>5. FoldUpTo("add", base, rows, n, h)
  <2>1. \E f : Solves(f)
    BY Zenon, <1>1, <1>4, FoldExists
  <2> HIDE DEF Solves
  <2>2. Solves(h)
    BY Zenon, <2>1
  <2> QED
    BY Zenon, <1>4, <2>2
<1> HIDE DEF h, Solves
<1>6. PICK acc : Computes("add", base, rows, n, acc) /\ acc[n] = h[1..n]
  BY <1>1, <1>5, FoldSteps
<1>7. \A k \in 1..n : acc[k] = Added(acc[k - 1], rows[k])
  BY Zenon, <1>3, <1>6 DEF Computes
<1>8. AddedAll(trades, rows) = acc[n]
  BY Zenon, <1>2, <1>6
<1> QED
  BY Zenon, <1>6, <1>7, <1>8 DEF Computes, n, base

\* The position, trade by trade.
LEMMA PositionSteps ==
  ASSUME NEW S, NEW trades \in Seq(S)
  PROVE  \E acc : /\ acc[0] = 1
                  /\ \A k \in 1..Len(trades) : acc[k] = Posting(acc[k - 1], trades[k])
                  /\ PositionAfter(trades) = acc[Len(trades)]
<1> DEFINE n == Len(trades)
           base == 1
           Solves(f) == f = [s \in SUBSET (1..n) |->
                               IF s = {} THEN base
                               ELSE Posting(f[s \ {Max(s)}], trades[Max(s)])]
           h == CHOOSE f : Solves(f)
<1>1. n \in Nat /\ DOMAIN trades = 1..n
  OBVIOUS
<1>2. PositionAfter(trades) = h[1..n]
  <2> HIDE DEF n
  <2> QED
    BY Zenon, <1>1 DEF PositionAfter, FoldLeft, MapThenFoldSet, Posting
<1>3. \A a, t : FoldStep("position", a, t) = Posting(a, t)
  BY DEF FoldStep
<1> HIDE DEF n, base
<1>4. \A f : Solves(f) <=> FoldUpTo("position", base, trades, n, f)
  BY Zenon, <1>3 DEF FoldUpTo
<1>5. FoldUpTo("position", base, trades, n, h)
  <2>1. \E f : Solves(f)
    BY Zenon, <1>1, <1>4, FoldExists
  <2> HIDE DEF Solves
  <2>2. Solves(h)
    BY Zenon, <2>1
  <2> QED
    BY Zenon, <1>4, <2>2
<1> HIDE DEF h, Solves
<1>6. PICK acc : Computes("position", base, trades, n, acc) /\ acc[n] = h[1..n]
  BY <1>1, <1>5, FoldSteps
<1>7. \A k \in 1..n : acc[k] = Posting(acc[k - 1], trades[k])
  BY Zenon, <1>3, <1>6 DEF Computes
<1>8. PositionAfter(trades) = acc[n]
  BY Zenon, <1>2, <1>6
<1> QED
  BY Zenon, <1>6, <1>7, <1>8 DEF Computes, n, base

\* The quantity of one side, trade by trade.
LEMMA QuantitySteps ==
  ASSUME NEW S, NEW trades \in Seq(S), NEW side \in {"BUY", "SELL"}
  PROVE  \E acc : /\ acc[0] = 0
                  /\ \A k \in 1..Len(trades) : acc[k] = Summing(side, acc[k - 1], trades[k])
                  /\ Quantity(trades, side) = acc[Len(trades)]
<1> DEFINE n == Len(trades)
           base == 0
           Solves(f) == f = [s \in SUBSET (1..n) |->
                               IF s = {} THEN base
                               ELSE Summing(side, f[s \ {Max(s)}], trades[Max(s)])]
           h == CHOOSE f : Solves(f)
<1>1. n \in Nat /\ DOMAIN trades = 1..n
  OBVIOUS
<1>2. Quantity(trades, side) = h[1..n]
  <2> HIDE DEF n
  <2> QED
    BY Zenon, <1>1 DEF Quantity, FoldLeft, MapThenFoldSet, Summing
<1>3. \A a, t : FoldStep(side, a, t) = Summing(side, a, t)
  BY DEF FoldStep
<1> HIDE DEF n, base
<1>4. \A f : Solves(f) <=> FoldUpTo(side, base, trades, n, f)
  BY Zenon, <1>3 DEF FoldUpTo
<1>5. FoldUpTo(side, base, trades, n, h)
  <2>1. \E f : Solves(f)
    BY Zenon, <1>1, <1>4, FoldExists
  <2> HIDE DEF Solves
  <2>2. Solves(h)
    BY Zenon, <2>1
  <2> QED
    BY Zenon, <1>4, <2>2
<1> HIDE DEF h, Solves
<1>6. PICK acc : Computes(side, base, trades, n, acc) /\ acc[n] = h[1..n]
  BY <1>1, <1>5, FoldSteps
<1>7. \A k \in 1..n : acc[k] = Summing(side, acc[k - 1], trades[k])
  BY Zenon, <1>3, <1>6 DEF Computes
<1>8. Quantity(trades, side) = acc[n]
  BY Zenon, <1>2, <1>6
<1> QED
  BY Zenon, <1>6, <1>7, <1>8 DEF Computes, n, base

-----------------------------------------------------------------------------
(* Histories that are accepted never oversell, at no point.                  *)

LEMMA PositionIsDifference ==
  ASSUME NEW S, NEW trades \in Seq(S), \A t \in S : IsTrade(t), PositionAfter(trades) # 0,
         NEW n \in 1..Len(trades)
  PROVE  LET sofar == SubSeq(trades, 1, n)
         IN Quantity(sofar, "SELL") <= Quantity(sofar, "BUY")
<1> DEFINE sofar == SubSeq(trades, 1, n)
           N == Len(trades)
<1>1. N \in Nat /\ n \in 0..N /\ \A k \in 1..N : trades[k] \in S /\ IsTrade(trades[k])
  OBVIOUS
<1>2. sofar \in Seq(S) /\ Len(sofar) = n /\ \A k \in 1..n : sofar[k] = trades[k]
  OBVIOUS
<1>3. PICK held : /\ held[0] = 1
                  /\ \A k \in 1..N : held[k] = Posting(held[k - 1], trades[k])
                  /\ PositionAfter(trades) = held[N]
  BY PositionSteps
<1> HIDE DEF sofar, N
<1>4. PICK sold : /\ sold[0] = 0
                  /\ \A k \in 1..n : sold[k] = Summing("SELL", sold[k - 1], sofar[k])
                  /\ Quantity(sofar, "SELL") = sold[n]
  BY <1>2, QuantitySteps
<1>5. PICK bought : /\ bought[0] = 0
                    /\ \A k \in 1..n : bought[k] = Summing("BUY", bought[k - 1], sofar[k])
                    /\ Quantity(sofar, "BUY") = bought[n]
  BY <1>2, QuantitySteps
\* A position that was once oversold stays so.
<1>6. held[n] # 0
  <2> DEFINE G == {k \in Nat : k <= N - n => held[N - k] # 0}
  <2>1. 0 \in G
    BY <1>1, <1>3
  <2>2. ASSUME NEW k \in 1..(N - n), k - 1 \in G
        PROVE  k \in G
    <3>1. N - k + 1 \in 1..N /\ (N - k + 1) - 1 = N - k /\ N - (k - 1) = N - k + 1 /\ k - 1 <= N - n
      BY <1>1
    <3>2. held[N - k + 1] # 0
      BY <2>2, <3>1
    <3>3. held[N - k + 1] = Posting(held[N - k], trades[N - k + 1])
      BY <1>3, <3>1
    <3>4. held[N - k] # 0
      BY <3>2, <3>3 DEF Posting
    <3> QED
      BY <3>4
  <2> HIDE DEF G
  <2>3. N - n \in Nat /\ N - n \in 0..(N - n)
    BY <1>1
  <2>4. N - n \in G
    BY <2>1, <2>2, <2>3, UpTo
  <2>5. N - (N - n) = n
    BY <1>1
  <2> QED
    BY <2>3, <2>4, <2>5 DEF G
<1> DEFINE Good(k) == k <= n => /\ held[k] \in Nat /\ sold[k] \in Nat /\ bought[k] \in Nat
                                /\ held[k] # 0 => held[k] + sold[k] = bought[k] + 1
           G == {k \in Nat : Good(k)}
<1>7. 0 \in G
  BY <1>3, <1>4, <1>5
<1>8. ASSUME NEW k \in 1..n, k - 1 \in G
      PROVE  k \in G
  <2> DEFINE t == trades[k]
             h == held[k - 1]
             s == sold[k - 1]
             b == bought[k - 1]
  <2>1. /\ held[k] = Posting(h, t) /\ sold[k] = Summing("SELL", s, t)
        /\ bought[k] = Summing("BUY", b, t) /\ IsTrade(t)
    BY <1>1, <1>2, <1>3, <1>4, <1>5
  <2>2. /\ h \in Nat /\ s \in Nat /\ b \in Nat
        /\ h # 0 => h + s = b + 1
    BY <1>8
  <2>3. t.quantity \in Nat /\ t.side \in {"BUY", "SELL", "DIVIDEND"}
    BY <2>1 DEF IsTrade
  <2> HIDE DEF t, h, s, b
  <2>4. CASE t.side = "BUY"
    <3>1. sold[k] = s /\ bought[k] = b + t.quantity
      BY <2>1, <2>4 DEF Summing
    <3>2. held[k] = IF h = 0 THEN 0 ELSE h + t.quantity
      BY <2>1, <2>4 DEF Posting
    <3>3. held[k] \in Nat /\ sold[k] \in Nat /\ bought[k] \in Nat
      BY <2>2, <2>3, <3>1, <3>2
    <3>4. held[k] # 0 => held[k] + sold[k] = bought[k] + 1
      <4>1. CASE h = 0
        BY <3>2, <4>1
      <4>2. CASE h # 0
        <5>1. \A q \in Nat : (h + q) + s = (b + q) + 1
          BY <2>2, <4>2
        <5>2. held[k] = h + t.quantity
          BY <3>2, <4>2
        <5> QED
          BY <2>3, <3>1, <5>1, <5>2
      <4> QED
        BY <4>1, <4>2
    <3> QED
      BY <3>3, <3>4
  <2>5. CASE t.side = "SELL"
    <3>1. sold[k] = s + t.quantity /\ bought[k] = b
      BY <2>1, <2>5 DEF Summing
    <3>2. held[k] = IF h = 0 THEN 0 ELSE IF t.quantity < h THEN h - t.quantity ELSE 0
      BY <2>1, <2>5 DEF Posting
    <3>3. held[k] \in Nat /\ sold[k] \in Nat /\ bought[k] \in Nat
      BY <2>2, <2>3, <3>1, <3>2
    <3>4. held[k] # 0 => held[k] + sold[k] = bought[k] + 1
      <4>1. CASE h = 0
        BY <3>2, <4>1
      <4>2. CASE h # 0
        BY <2>2, <2>3, <3>1, <3>2, <4>2
      <4> QED
        BY <4>1, <4>2
    <3> QED
      BY <3>3, <3>4
  <2>6. CASE t.side = "DIVIDEND"
    <3>1. sold[k] = s /\ bought[k] = b
      BY <2>1, <2>6 DEF Summing
    <3>2. held[k] = IF h = 0 THEN 0 ELSE IF t.quantity < h THEN h ELSE 0
      BY <2>1, <2>6 DEF Posting
    <3>3. held[k] \in Nat /\ sold[k] \in Nat /\ bought[k] \in Nat
      BY <2>2, <2>3, <3>1, <3>2
    <3>4. held[k] # 0 => held[k] + sold[k] = bought[k] + 1
      <4>1. CASE h = 0
        BY <3>2, <4>1
      <4>2. CASE h # 0
        BY <2>2, <2>3, <3>1, <3>2, <4>2
      <4> QED
        BY <4>1, <4>2
    <3> QED
      BY <3>3, <3>4
  <2> QED
    BY <2>3, <2>4, <2>5, <2>6
<1>9. n \in G
  <2>1. n \in Nat /\ n \in 0..n
    BY <1>1
  <2> HIDE DEF G
  <2> QED
    BY <1>7, <1>8, <2>1, UpTo
<1>10. sold[n] <= bought[n]
  BY <1>6, <1>9
<1> QED
  BY <1>4, <1>5, <1>10 DEF sofar

\* Neighbours in order of days are a history in order of days.
LEMMA DaysInOrder ==
  ASSUME NEW S, NEW trades \in Seq(S), \A t \in S : t.day \in Nat,
         \A i \in 1..(Len(trades) - 1) : trades[i].day <= trades[i + 1].day,
         NEW n \in 1..Len(trades), NEW m \in 1..(n - 1)
  PROVE  trades[m].day <= trades[n].day
<1> DEFINE G == {k \in Nat : m + k <= n => trades[m].day <= trades[m + k].day}
<1>1. \A i \in 1..Len(trades) : trades[i] \in S /\ trades[i].day \in Nat
  OBVIOUS
<1>2. m \in 1..Len(trades) /\ m + 0 = m
  OBVIOUS
<1>3. 0 \in G
  BY <1>1, <1>2
<1>4. ASSUME NEW k \in 1..(n - m), k - 1 \in G
      PROVE  k \in G
  <2>1. /\ m + (k - 1) \in 1..(Len(trades) - 1) /\ (m + (k - 1)) + 1 = m + k
        /\ m + (k - 1) <= n /\ k - 1 \in Nat /\ m + k \in 1..Len(trades)
    OBVIOUS
  <2>2. trades[m].day <= trades[m + (k - 1)].day
    BY <1>4, <2>1
  <2>3. trades[m + (k - 1)].day <= trades[m + k].day
    BY <2>1
  <2>4. trades[m].day \in Nat /\ trades[m + (k - 1)].day \in Nat /\ trades[m + k].day \in Nat
    BY <1>1, <1>2, <2>1
  <2>5. \A x, y, z \in Nat : x <= y /\ y <= z => x <= z
    OBVIOUS
  <2>6. trades[m].day <= trades[m + k].day
    BY Zenon, <2>1, <2>2, <2>3, <2>4, <2>5
  <2> QED
    BY <2>6
<1> HIDE DEF G
<1>5. n - m \in Nat /\ n - m \in 0..(n - m) /\ m + (n - m) = n
  OBVIOUS
<1>6. n - m \in G
  BY <1>3, <1>4, <1>5, UpTo
<1> QED
  BY <1>5, <1>6 DEF G

-----------------------------------------------------------------------------
(* Sorting and adding keep every trade once.                                 *)

OnceEach(trades) ==
  \A i, j \in DOMAIN trades : trades[i].id = trades[j].id => i = j

LEMMA RestOfSequence ==
  ASSUME NEW S, NEW s \in Seq(S), NEW b \in 0..Len(s)
  PROVE  LET rest == SubSeq(s, b + 1, Len(s))
         IN /\ rest \in Seq(S) /\ Len(rest) = Len(s) - b
            /\ \A i \in 1..(Len(s) - b) : rest[i] = s[b + i]
OBVIOUS

\* A trade goes between those not after its day and the others.
Placed(s, t, new, b) ==
  /\ Len(new) = Len(s) + 1
  /\ \A i \in 1..(Len(s) + 1) :
       new[i] = IF i <= b THEN s[i] ELSE IF i = b + 1 THEN t ELSE s[i - 1]

LEMMA InsertedPlaces ==
  ASSUME NEW S, NEW s \in Seq(S), NEW t \in S
  PROVE  /\ Inserted(s, t) \in Seq(S)
         /\ \E b \in 0..Len(s) : Placed(s, t, Inserted(s, t), b)
<1> DEFINE early == {i \in DOMAIN s : s[i].day <= t.day}
           b == Cardinality(early)
           n == Len(s)
<1>1. n \in Nat /\ DOMAIN s = 1..n
  OBVIOUS
<1>2. b \in 0..n
  <2> HIDE DEF n
  <2>1. IsFiniteSet(1..n) /\ Cardinality(1..n) = n
    BY <1>1, FS_Interval
  <2>2. early \in SUBSET (1..n)
    BY <1>1
  <2> HIDE DEF early
  <2>3. IsFiniteSet(early) /\ Cardinality(early) <= n
    BY <2>1, <2>2, FS_Subset
  <2>4. Cardinality(early) \in Nat
    BY <2>3, FS_CardinalityType
  <2> QED
    BY <1>1, <2>3, <2>4
<1>3. Inserted(s, t) = SubSeq(s, 1, b) \o <<t>> \o SubSeq(s, b + 1, n)
  BY DEF Inserted
<1> HIDE DEF b
<1> DEFINE front == SubSeq(s, 1, b)
           back == SubSeq(s, b + 1, n)
<1>4. /\ front \in Seq(S) /\ Len(front) = b /\ \A i \in 1..b : front[i] = s[i]
      /\ back \in Seq(S) /\ Len(back) = n - b /\ \A i \in 1..(n - b) : back[i] = s[b + i]
  <2>1. front \in Seq(S) /\ Len(front) = b /\ \A i \in 1..b : front[i] = s[i]
    BY <1>1, <1>2
  <2>2. back \in Seq(S) /\ Len(back) = n - b /\ \A i \in 1..(n - b) : back[i] = s[b + i]
    BY <1>2, RestOfSequence
  <2> QED
    BY <2>1, <2>2
<1> HIDE DEF front, back, n
<1> DEFINE middle == front \o <<t>>
<1>5. /\ middle \in Seq(S) /\ Len(middle) = b + 1
      /\ \A i \in 1..(b + 1) : middle[i] = IF i <= b THEN front[i] ELSE t
  BY <1>1, <1>2, <1>4
<1> HIDE DEF middle
<1> DEFINE all == middle \o back
<1>6. /\ all \in Seq(S) /\ Len(all) = n + 1
      /\ \A i \in 1..(n + 1) : all[i] = IF i <= b + 1 THEN middle[i] ELSE back[i - (b + 1)]
  <2>1. all \in Seq(S) /\ Len(all) = (b + 1) + (n - b)
    BY <1>1, <1>2, <1>4, <1>5
  <2>2. \A i \in 1..((b + 1) + (n - b)) :
           all[i] = IF i <= b + 1 THEN middle[i] ELSE back[i - (b + 1)]
    BY <1>1, <1>2, <1>4, <1>5
  <2>3. (b + 1) + (n - b) = n + 1
    BY <1>1, <1>2
  <2> HIDE DEF all
  <2> QED
    BY <2>1, <2>2, <2>3
<1>7. Inserted(s, t) = all
  BY <1>3 DEF middle, front, back, n
<1> HIDE DEF all
<1>8. \A i \in 1..(n + 1) : all[i] = IF i <= b THEN s[i] ELSE IF i = b + 1 THEN t ELSE s[i - 1]
  <2> SUFFICES ASSUME NEW i \in 1..(n + 1)
               PROVE  all[i] = IF i <= b THEN s[i] ELSE IF i = b + 1 THEN t ELSE s[i - 1]
    OBVIOUS
  <2>1. CASE i <= b
    <3>1. i \in 1..b /\ i \in 1..(b + 1) /\ i <= b + 1
      BY <1>1, <1>2, <2>1
    <3> QED
      BY <1>4, <1>5, <1>6, <2>1, <3>1
  <2>2. CASE i = b + 1
    <3>1. i \in 1..(b + 1) /\ ~(i <= b) /\ i <= b + 1
      BY <1>1, <1>2, <2>2
    <3> QED
      BY <1>5, <1>6, <2>2, <3>1
  <2>3. CASE i > b + 1
    <3>1. /\ i - (b + 1) \in 1..(n - b) /\ b + (i - (b + 1)) = i - 1
          /\ ~(i <= b) /\ i # b + 1 /\ ~(i <= b + 1)
      BY <1>1, <1>2, <2>3
    <3> QED
      BY <1>4, <1>6, <3>1
  <2> QED
    BY <1>1, <1>2, <2>1, <2>2, <2>3
<1>9. Placed(s, t, all, b)
  BY <1>6, <1>8 DEF Placed, n
<1> QED
  BY <1>2, <1>6, <1>7, <1>9 DEF n

LEMMA InsertedOnce ==
  ASSUME NEW S, NEW s \in Seq(S), NEW t \in S, OnceEach(s),
         \A i \in DOMAIN s : s[i].id # t.id
  PROVE  OnceEach(Inserted(s, t))
<1>0. Inserted(s, t) \in Seq(S) /\ \E b \in 0..Len(s) : Placed(s, t, Inserted(s, t), b)
  BY Zenon, InsertedPlaces
<1> DEFINE new == Inserted(s, t)
           n == Len(s)
<1>a. PICK b \in 0..n : Placed(s, t, new, b)
  BY Zenon, <1>0
<1>1. /\ new \in Seq(S) /\ Len(new) = n + 1
      /\ \A i \in 1..(n + 1) :
            new[i] = IF i <= b THEN s[i] ELSE IF i = b + 1 THEN t ELSE s[i - 1]
  BY Zenon, <1>0, <1>a DEF Placed
<1>2. n \in Nat /\ DOMAIN s = 1..n /\ DOMAIN new = 1..(n + 1) /\ b \in 0..n
  BY <1>1
<1> HIDE DEF new, n
<1> DEFINE from(i) == IF i <= b THEN i ELSE i - 1
<1>3. \A i \in 1..(n + 1) :
        \/ i = b + 1 /\ new[i] = t
        \/ i # b + 1 /\ from(i) \in 1..n /\ new[i] = s[from(i)]
  BY <1>1, <1>2
<1>4. \A i, j \in 1..(n + 1) : i # b + 1 /\ j # b + 1 /\ from(i) = from(j) => i = j
  BY <1>2
<1> HIDE DEF from
<1>5. ASSUME NEW i \in 1..(n + 1), NEW j \in 1..(n + 1), new[i].id = new[j].id
      PROVE  i = j
  <2>1. CASE i = b + 1 /\ j # b + 1
    BY <1>2, <1>3, <1>5, <2>1
  <2>2. CASE i # b + 1 /\ j = b + 1
    BY <1>2, <1>3, <1>5, <2>2
  <2>3. CASE i # b + 1 /\ j # b + 1
    <3>1. from(i) = from(j)
      BY <1>2, <1>3, <1>5, <2>3 DEF OnceEach
    <3> QED
      BY <1>4, <2>3, <3>1
  <2> QED
    BY <2>1, <2>2, <2>3
<1>6. OnceEach(new)
  BY <1>2, <1>5 DEF OnceEach
<1> QED
  BY <1>6 DEF new

LEMMA ByDayKeeps ==
  ASSUME NEW S, NEW trades \in Seq(S)
  PROVE  ByDay(trades) \in Seq(S) /\ (OnceEach(trades) => OnceEach(ByDay(trades)))
<1> DEFINE n == Len(trades)
<1>1. PICK acc : /\ acc[0] = <<>>
                 /\ \A k \in 1..n : acc[k] = Inserted(acc[k - 1], trades[k])
                 /\ ByDay(trades) = acc[n]
  BY SortSteps
<1>2. n \in Nat /\ DOMAIN trades = 1..n /\ \A k \in 1..n : trades[k] \in S
  OBVIOUS
<1> HIDE DEF n
<1> DEFINE From(k) == \A i \in DOMAIN acc[k] : \E j \in 1..k : acc[k][i] = trades[j]
           Good(k) == /\ acc[k] \in Seq(S)
                      /\ k <= n => From(k)
                      /\ k <= n /\ OnceEach(trades) => OnceEach(acc[k])
           G == {k \in Nat : Good(k)}
<1>3. 0 \in G
  <2>1. acc[0] \in Seq(S) /\ DOMAIN acc[0] = {}
    BY <1>1
  <2> QED
    BY <2>1 DEF OnceEach
<1>4. ASSUME NEW k \in 1..n, k - 1 \in G
      PROVE  k \in G
  <2> DEFINE s == acc[k - 1]
             t == trades[k]
  <2>1. /\ acc[k] = Inserted(s, t) /\ t \in S /\ k - 1 <= n
        /\ s \in Seq(S) /\ From(k - 1) /\ (OnceEach(trades) => OnceEach(s))
    BY <1>1, <1>2, <1>4
  <2>a. /\ acc[k] \in Seq(S)
        /\ \E b \in 0..Len(s) : Placed(s, t, acc[k], b)
    <3> HIDE DEF s, t
    <3> QED
      BY Zenon, <2>1, InsertedPlaces
  <2>b. PICK b \in 0..Len(s) : Placed(s, t, acc[k], b)
    BY Zenon, <2>a
  <2>2. /\ acc[k] \in Seq(S) /\ Len(acc[k]) = Len(s) + 1
        /\ \A i \in 1..(Len(s) + 1) :
             acc[k][i] = IF i <= b THEN s[i] ELSE IF i = b + 1 THEN t ELSE s[i - 1]
    BY Zenon, <2>a, <2>b DEF Placed
  <2>3. From(k)
    <3> SUFFICES ASSUME NEW i \in DOMAIN acc[k] PROVE \E j \in 1..k : acc[k][i] = trades[j]
      OBVIOUS
    <3>1. i \in 1..(Len(s) + 1) /\ Len(s) \in Nat /\ DOMAIN s = 1..Len(s)
      BY <2>1, <2>2
    <3>2. acc[k][i] = t \/ \E m \in DOMAIN s : acc[k][i] = s[m]
      <4> HIDE DEF s, t
      <4>1. CASE i = b + 1
        BY <2>2, <3>1, <4>1
      <4>2. CASE i <= b
        <5>1. i \in DOMAIN s /\ acc[k][i] = s[i]
          BY <2>2, <3>1, <4>2
        <5> QED
          BY <5>1
      <4>3. CASE i > b + 1
        <5>1. i - 1 \in DOMAIN s /\ acc[k][i] = s[i - 1]
          BY <2>2, <3>1, <4>3
        <5> QED
          BY <5>1
      <4> QED
        BY <3>1, <4>1, <4>2, <4>3
    <3>3. k \in 1..k /\ \A j \in 1..(k - 1) : j \in 1..k
      BY <1>2
    <3> QED
      BY <2>1, <3>2, <3>3
  <2>4. OnceEach(trades) => OnceEach(acc[k])
    <3> SUFFICES ASSUME OnceEach(trades) PROVE OnceEach(acc[k])
      OBVIOUS
    <3>1. ASSUME NEW i \in DOMAIN s PROVE s[i].id # t.id
      <4>1. PICK j \in 1..(k - 1) : s[i] = trades[j]
        BY <2>1
      <4>2. j \in 1..n /\ k \in 1..n /\ j # k
        BY <1>2
      <4> QED
        BY <1>2, <4>1, <4>2 DEF OnceEach
    <3> HIDE DEF s, t
    <3> QED
      BY <2>1, <3>1, InsertedOnce
  <2>5. k \in Nat /\ Good(k)
    <3> HIDE DEF From
    <3>1. k \in Nat
      BY <1>2
    <3> QED
      BY Zenon, <2>2, <2>3, <2>4, <3>1
  <2> HIDE DEF Good
  <2> QED
    BY <2>5
<1>5. n \in G
  <2>1. n \in 0..n
    BY <1>2
  <2> HIDE DEF G
  <2> QED
    BY <1>2, <1>3, <1>4, <2>1, UpTo
<1> QED
  BY <1>1, <1>5

LEMMA AppendedOnce ==
  ASSUME NEW S, NEW s \in Seq(S), NEW t \in S, OnceEach(s), ~Has(s, t.id)
  PROVE  Append(s, t) \in Seq(S) /\ OnceEach(Append(s, t))
<1> DEFINE new == Append(s, t)
<1>1. /\ new \in Seq(S) /\ Len(new) = Len(s) + 1 /\ new[Len(s) + 1] = t
      /\ \A i \in 1..Len(s) : new[i] = s[i]
  OBVIOUS
<1> HIDE DEF new
<1>2. /\ Len(s) \in Nat /\ DOMAIN s = 1..Len(s) /\ DOMAIN new = 1..(Len(s) + 1)
      /\ \A i \in 1..Len(s) : s[i].id # t.id
  BY <1>1 DEF Has
<1>3. \A i \in 1..(Len(s) + 1) : i \in 1..Len(s) \/ i = Len(s) + 1
  BY <1>2
<1>4. OnceEach(new)
  BY <1>1, <1>2, <1>3 DEF OnceEach
<1> QED
  BY <1>1, <1>4 DEF new

LEMMA AddingKeeps ==
  ASSUME NEW S, NEW trades \in Seq(S), OnceEach(trades), NEW rows \in Seq(S)
  PROVE  AddedAll(trades, rows) \in Seq(S) /\ OnceEach(AddedAll(trades, rows))
<1> DEFINE n == Len(rows)
           all == AddedAll(trades, rows)
<1>1. PICK acc : /\ acc[0] = trades
                 /\ \A k \in 1..n : acc[k] = Added(acc[k - 1], rows[k])
                 /\ all = acc[n]
  BY AddSteps
<1>2. n \in Nat /\ \A k \in 1..n : rows[k] \in S
  OBVIOUS
<1> HIDE DEF n, all
<1> DEFINE G == {k \in Nat : acc[k] \in Seq(S) /\ OnceEach(acc[k])}
<1>3. 0 \in G
  BY <1>1
<1>4. ASSUME NEW k \in 1..n, k - 1 \in G
      PROVE  k \in G
  <2> DEFINE s == acc[k - 1]
             t == rows[k]
  <2>1. acc[k] = (IF Has(s, t.id) THEN s ELSE Append(s, t)) /\ t \in S
        /\ s \in Seq(S) /\ OnceEach(s)
    BY <1>1, <1>2, <1>4 DEF Added
  <2> HIDE DEF s, t
  <2>2. CASE Has(s, t.id)
    BY <2>1, <2>2
  <2>3. CASE ~Has(s, t.id)
    <3>4. acc[k] \in Seq(S) /\ OnceEach(acc[k])
      BY <2>1, <2>3, AppendedOnce
    <3>5. k \in Nat
      BY <1>2
    <3> QED
      BY Zenon, <3>4, <3>5
  <2> QED
    BY <2>2, <2>3
<1>5. n \in G
  <2>1. n \in 0..n
    BY <1>2
  <2> HIDE DEF G
  <2> QED
    BY <1>2, <1>3, <1>4, <2>1, UpTo
<1> QED
  BY <1>1, <1>5 DEF all

-----------------------------------------------------------------------------
(* What a user may post, and the histories made of it.                       *)

NamedRows(rows) ==
  [i \in DOMAIN rows |->
     [rows[i] EXCEPT !.id =
        IF @ = NoId
        THEN Details(rows[i])
               \o <<Cardinality({j \in 1..(i - 1) : Details(rows[j]) = Details(rows[i])})>>
        ELSE @]]

Posted == Trades \cup UNION {ToSet(NamedRows(rows)) : rows \in Imports}

IsHistory(trades) == trades \in Seq(Posted) /\ OnceEach(trades)

LEMMA RowsNamed ==
  ASSUME NEW rows \in Imports
  PROVE  /\ NamedRows(rows) \in Seq(ToSet(NamedRows(rows)))
         /\ \A t \in ToSet(NamedRows(rows)) : IsTrade(t)
<1>1. rows \in Seq(ToSet(rows)) /\ \A row \in ToSet(rows) : IsTrade(row)
  BY InputsAssumption
<1> DEFINE named == NamedRows(rows)
           id(i) == named[i].id
<1>2. DOMAIN named = 1..Len(rows) /\ DOMAIN rows = 1..Len(rows) /\ Len(rows) \in Nat
  BY <1>1 DEF NamedRows
<1>3. ASSUME NEW i \in DOMAIN rows
      PROVE  IsTrade(named[i])
  <2>1. IsTrade(rows[i])
    BY <1>1 DEF ToSet
  <2>2. PICK x : named[i] = [rows[i] EXCEPT !.id = x]
    BY DEF NamedRows
  <2> HIDE DEF named
  <2>3. /\ DOMAIN named[i] = DOMAIN rows[i] /\ named[i].side = rows[i].side
        /\ named[i].day = rows[i].day /\ named[i].quantity = rows[i].quantity
    BY <2>1, <2>2 DEF IsTrade
  <2> QED
    BY <2>1, <2>3 DEF IsTrade
<1>4. \A i \in DOMAIN named : named[i] \in ToSet(named)
  BY DEF ToSet
<1>5. \A t \in ToSet(named) : IsTrade(t)
  BY <1>2, <1>3 DEF ToSet
<1>6. named = [i \in 1..Len(rows) |-> named[i]]
  BY <1>2 DEF NamedRows
<1> HIDE DEF named
<1>7. named \in Seq(ToSet(named))
  BY <1>2, <1>4, <1>6
<1> QED
  BY <1>5, <1>7 DEF named

LEMMA PostedTrades == \A t \in Posted : IsTrade(t)
BY InputsAssumption, RowsNamed DEF Posted

LEMMA ReadRowsPosted ==
  ASSUME NEW rows \in Imports
  PROVE  ReadRows(rows) \in Seq(Posted)
<1>1. ReadRows(rows) = ByDay(NamedRows(rows))
  BY DEF ReadRows, NamedRows
<1>2. ByDay(NamedRows(rows)) \in Seq(ToSet(NamedRows(rows)))
  BY RowsNamed, ByDayKeeps
<1>3. ToSet(NamedRows(rows)) \subseteq Posted
  BY DEF Posted
<1> QED
  BY <1>1, <1>2, <1>3

LEMMA CorrectedHistory ==
  ASSUME NEW trades, IsHistory(trades), NEW t \in Trades
  PROVE  IsHistory(ByDay([i \in DOMAIN trades |->
                            IF trades[i].id = t.id THEN t ELSE trades[i]]))
<1> DEFINE new == [i \in DOMAIN trades |-> IF trades[i].id = t.id THEN t ELSE trades[i]]
<1>1. trades \in Seq(Posted) /\ OnceEach(trades) /\ t \in Posted
  BY DEF IsHistory, Posted
<1>2. new \in Seq(Posted)
  BY <1>1
<1>3. \A i \in DOMAIN trades : new[i].id = trades[i].id
  OBVIOUS
<1>4. OnceEach(new)
  <2>1. DOMAIN new = DOMAIN trades
    OBVIOUS
  <2> HIDE DEF new
  <2> QED
    BY <1>1, <1>3, <2>1 DEF OnceEach
<1> HIDE DEF new
<1>5. IsHistory(ByDay(new))
  BY <1>2, <1>4, ByDayKeeps DEF IsHistory
<1> QED
  BY <1>5 DEF new

LEMMA MergedHistory ==
  ASSUME NEW trades, IsHistory(trades), NEW rows \in Imports
  PROVE  IsHistory(ByDay(AddedAll(trades, ReadRows(rows))))
BY ReadRowsPosted, AddingKeeps, ByDayKeeps DEF IsHistory

LEMMA EmptyHistory == IsHistory(<<>>)
BY DEF IsHistory, OnceEach

-----------------------------------------------------------------------------
\* A document, and what each workflow makes of one.
IsDocument(doc) ==
  /\ doc = [revision |-> doc.revision, title |-> doc.title, trades |-> doc.trades,
            corrections |-> doc.corrections]
  /\ doc.revision \in Nat

\* Its history is one that the ledger accepted as a whole.
Held(doc) ==
  /\ IsDocument(doc)
  /\ IsHistory(doc.trades)
  /\ doc.trades = <<>> \/ Accepted(doc.trades)

LEMMA NoDocumentHeld == Held(NoDocument) /\ NoDocument.revision = 0
BY EmptyHistory DEF Held, IsDocument, NoDocument

LEMMA ResultShape ==
  ASSUME NEW op \in Operation, op.kind # "delete", NEW doc, IsDocument(doc)
  PROVE  IsDocument(Result(op, doc)) /\ Result(op, doc).revision = doc.revision
<1>1. doc = [revision |-> doc.revision, title |-> doc.title, trades |-> doc.trades,
             corrections |-> doc.corrections] /\ doc.revision \in Nat
  BY DEF IsDocument
<1>3. \A x : IsDocument([doc EXCEPT !.title = x]) /\ [doc EXCEPT !.title = x].revision = doc.revision
  BY <1>1 DEF IsDocument
<1>4. \A x : IsDocument([doc EXCEPT !.trades = x]) /\ [doc EXCEPT !.trades = x].revision = doc.revision
  BY <1>1 DEF IsDocument
<1>5. ASSUME op.kind = "correct"
      PROVE  IsDocument(Result(op, doc)) /\ Result(op, doc).revision = doc.revision
  <2> DEFINE x == ByDay([i \in DOMAIN doc.trades |->
                          IF doc.trades[i].id = op.arg.id THEN op.arg ELSE doc.trades[i]])
             noted == [revision |-> doc.revision, title |-> doc.title, trades |-> x,
                       corrections |-> doc.corrections + 1]
  <2>1. Result(op, doc) = [doc EXCEPT !.trades = x, !.corrections = doc.corrections + 1]
    BY <1>5, Zenon DEF Result, Corrected
  <2> HIDE DEF x
  <2>2. Result(op, doc) = noted
    BY <1>1, <2>1
  <2> QED
    BY <1>1, <2>2 DEF IsDocument
<1>6. CASE op.kind # "correct"
  <2>1. op.kind \in {"save", "record", "merge", "new"}
    BY <1>6 DEF Operation
  <2>2. \/ Result(op, doc) = Renamed(doc, op.arg)
        \/ Result(op, doc) = Recorded(doc, op.arg)
        \/ Result(op, doc) = Merged(doc, op.arg)
    BY <2>1, Zenon DEF Result
  <2> QED
    BY <1>3, <1>4, <2>2, Zenon DEF Renamed, Recorded, Merged
<1> QED
  BY <1>5, <1>6

LEMMA ResultHeld ==
  ASSUME NEW op \in Operation, op.kind # "delete", NEW doc, Held(doc),
         op.kind = "new" => doc = NoDocument, Allowed(op, doc)
  PROVE  Held(Result(op, doc)) /\ Result(op, doc).revision = doc.revision
<1>1. IsDocument(Result(op, doc)) /\ Result(op, doc).revision = doc.revision
  BY ResultShape DEF Held
<1> DEFINE result == Result(op, doc)
<1>2. IsDocument(doc) /\ IsHistory(doc.trades)
  BY DEF Held
<1>3. CASE op.kind = "save"
  <2>1. result = [doc EXCEPT !.title = op.arg]
    BY <1>3, Zenon DEF Result, Renamed
  <2> HIDE DEF result
  <2>2. result.trades = doc.trades
    BY <1>2, <2>1 DEF IsDocument
  <2> QED
    BY <1>1, <2>2 DEF Held, result
<1>4. CASE op.kind = "record"
  <2>1. /\ result = [doc EXCEPT !.trades = Append(doc.trades, op.arg)]
        /\ ~Has(doc.trades, op.arg.id) /\ Accepted(Append(doc.trades, op.arg))
    BY <1>4, Zenon DEF Result, Allowed, Recorded, MayRecord
  <2> HIDE DEF result
  <2>2. result.trades = Append(doc.trades, op.arg)
    BY <1>2, <2>1 DEF IsDocument
  <2>3. op.arg \in Posted
    BY <1>4 DEF Operation, Posted
  <2>4. IsHistory(Append(doc.trades, op.arg))
    BY <1>2, <2>1, <2>3, AppendedOnce DEF IsHistory
  <2> QED
    BY <1>1, <2>1, <2>2, <2>4 DEF Held, result
<1>5. CASE op.kind = "correct"
  <2> DEFINE x == ByDay([i \in DOMAIN doc.trades |->
                          IF doc.trades[i].id = op.arg.id THEN op.arg ELSE doc.trades[i]])
  <2>1. /\ result = [doc EXCEPT !.trades = x, !.corrections = doc.corrections + 1]
        /\ Accepted(result.trades)
    BY <1>5, Zenon DEF Result, Allowed, MayCorrect, Corrected
  <2>2. IsHistory(x)
    <3>1. op.arg \in Trades
      BY <1>5 DEF Operation
    <3> QED
      BY Zenon, <1>2, <3>1, CorrectedHistory
  <2> HIDE DEF result, x
  <2>3. result.trades = x
    BY <1>2, <2>1 DEF IsDocument
  <2> QED
    BY <1>1, <2>1, <2>2, <2>3 DEF Held, result
<1>6. CASE op.kind \in {"merge", "new"}
  <2> DEFINE x == ByDay(AddedAll(doc.trades, ReadRows(op.arg)))
  <2>1. result = [doc EXCEPT !.trades = x]
    BY <1>6, Zenon DEF Result, Merged, AddedAll
  <2>2. IsHistory(x)
    <3>1. op.arg \in Imports
      BY <1>6 DEF Operation
    <3> QED
      BY Zenon, <1>2, <3>1, MergedHistory
  <2>3. Accepted(result.trades)
    BY <1>6, Zenon DEF Result, Allowed, MayMerge
  <2> HIDE DEF result, x
  <2>4. result.trades = x
    BY <1>2, <2>1 DEF IsDocument
  <2> QED
    BY <1>1, <2>2, <2>3, <2>4 DEF Held, result
<1> QED
  BY <1>3, <1>4, <1>5, <1>6 DEF Operation

-----------------------------------------------------------------------------
(* Every document stored, read or about to be written holds a history that   *)
(* the ledger accepted, whatever its revision stands for.                    *)

IsCall(call) ==
  /\ call = [phase |-> call.phase, op |-> call.op, base |-> call.base, next |-> call.next]
  /\ call.phase \in {"loading", "loaded", "quoting", "committing"} => call.op \in Operation
  /\ call.phase \in {"loading", "loaded"} => call.op.kind # "new"
  /\ Held(call.base)
  /\ call.phase \in {"quoting", "committing"} => Held(call.next)

HistoriesInv ==
  /\ \A k \in DOMAIN documents : Held(documents[k])
  /\ DOMAIN ops = Clients
  /\ \A c \in Clients : IsCall(ops[c])

LEMMA IdleIsCall == IsCall(Idle)
BY NoDocumentHeld DEF Idle, IsCall

LEMMA ResultIsHeld ==
  ASSUME NEW op \in Operation, NEW doc, Held(doc), op.kind = "new" => doc = NoDocument,
         Allowed(op, doc)
  PROVE  Held(Result(op, doc))
<1>1. CASE op.kind = "delete"
  BY <1>1, NoDocumentHeld, Zenon DEF Result
<1>2. CASE op.kind # "delete"
  BY <1>2, ResultHeld
<1> QED
  BY <1>1, <1>2

LEMMA OneCallMoves ==
  ASSUME HistoriesInv, NEW c \in Clients, NEW call, IsCall(call),
         ops' = [ops EXCEPT ![c] = call],
         \A k \in DOMAIN documents' : Held(documents'[k])
  PROVE  HistoriesInv'
<1>1. DOMAIN ops' = Clients /\ \A d \in Clients : ops'[d] = call \/ ops'[d] = ops[d]
  BY DEF HistoriesInv
<1>2. \A d \in Clients : IsCall(ops'[d])
  BY Zenon, <1>1 DEF HistoriesInv
<1> QED
  BY Zenon, <1>1, <1>2 DEF HistoriesInv

LEMMA SomeCallsEnd ==
  ASSUME HistoriesInv, UNCHANGED documents, DOMAIN ops' = Clients,
         \A d \in Clients : ops'[d] = Idle \/ ops'[d] = ops[d]
  PROVE  HistoriesInv'
<1>1. \A d \in Clients : IsCall(ops'[d])
  BY Zenon, IdleIsCall DEF HistoriesInv
<1> QED
  BY <1>1 DEF HistoriesInv

LEMMA BeginHolds ==
  ASSUME HistoriesInv, NEW c \in Clients, NEW op \in Operation, Begin(c, op)
  PROVE  HistoriesInv'
<1>1. documents' = documents
  BY DEF Begin, database
<1>2. CASE op.kind = "new"
  <2> DEFINE call == [phase |-> "quoting", op |-> op, base |-> NoDocument,
                      next |-> Result(op, NoDocument)]
  <2>1. Allowed(op, NoDocument) /\ ops' = [ops EXCEPT ![c] = call]
    BY <1>2 DEF Begin
  <2>2. Held(Result(op, NoDocument)) /\ Held(NoDocument)
    BY <2>1, ResultIsHeld, NoDocumentHeld
  <2>3. IsCall(call)
    BY <2>2 DEF IsCall
  <2> HIDE DEF call
  <2> QED
    BY <1>1, <2>1, <2>3, OneCallMoves DEF HistoriesInv
<1>3. CASE op.kind # "new"
  <2> DEFINE call == [Idle EXCEPT !.phase = "loading", !.op = op]
  <2>1. ops' = [ops EXCEPT ![c] = call]
    BY <1>3 DEF Begin
  <2>2. call = [phase |-> "loading", op |-> op, base |-> NoDocument, next |-> NoDocument]
    <3>1. /\ Idle = [phase |-> Idle.phase, op |-> Idle.op, base |-> Idle.base,
                     next |-> Idle.next]
          /\ Idle.base = NoDocument /\ Idle.next = NoDocument
      BY DEF Idle
    <3>2. call = [Idle EXCEPT !.phase = "loading", !.op = op]
      OBVIOUS
    <3> HIDE DEF call
    <3> QED
      BY <3>1, <3>2
  <2> HIDE DEF call
  <2>3. IsCall(call)
    BY <1>3, <2>2, NoDocumentHeld DEF IsCall
  <2> QED
    BY <1>1, <2>1, <2>3, OneCallMoves DEF HistoriesInv
<1> QED
  BY <1>2, <1>3

\* A call whose phase changes, and what it carries with it.
LEMMA PhaseMoves ==
  ASSUME NEW call, IsCall(call), NEW phase, NEW doc, Held(doc)
  PROVE  /\ phase \in {"idle", "gone"} => IsCall([call EXCEPT !.phase = phase])
         /\ phase = "committing" /\ call.phase = "quoting" =>
              IsCall([call EXCEPT !.phase = phase])
         /\ phase \in {"quoting", "committing"} /\ call.phase = "loaded" =>
              IsCall([call EXCEPT !.phase = phase, !.next = doc])
         /\ phase = "loaded" /\ call.phase = "loading" =>
              IsCall([call EXCEPT !.phase = phase, !.base = doc])
<1>1. call = [phase |-> call.phase, op |-> call.op, base |-> call.base, next |-> call.next]
  BY DEF IsCall
<1>2. [call EXCEPT !.phase = phase]
        = [phase |-> phase, op |-> call.op, base |-> call.base, next |-> call.next]
  BY <1>1
<1>3. [call EXCEPT !.phase = phase, !.next = doc]
        = [phase |-> phase, op |-> call.op, base |-> call.base, next |-> doc]
  <2> DEFINE moved == [call EXCEPT !.phase = phase, !.next = doc]
  <2>1. moved = [call EXCEPT !.phase = phase, !.next = doc]
    OBVIOUS
  <2> HIDE DEF moved
  <2>2. moved = [phase |-> phase, op |-> call.op, base |-> call.base, next |-> doc]
    BY <1>1, <2>1
  <2> QED
    BY <2>1, <2>2
<1>4. [call EXCEPT !.phase = phase, !.base = doc]
        = [phase |-> phase, op |-> call.op, base |-> doc, next |-> call.next]
  <2> DEFINE moved == [call EXCEPT !.phase = phase, !.base = doc]
  <2>1. moved = [call EXCEPT !.phase = phase, !.base = doc]
    OBVIOUS
  <2> HIDE DEF moved
  <2>2. moved = [phase |-> phase, op |-> call.op, base |-> doc, next |-> call.next]
    BY <1>1, <2>1
  <2> QED
    BY <2>1, <2>2
<1> QED
  BY <1>2, <1>3, <1>4 DEF IsCall

LEMMA CallHolds ==
  ASSUME HistoriesInv, NEW c \in Clients, Resume(c) \/ Quoted(c) \/ Cancel(c)
  PROVE  HistoriesInv'
<1> DEFINE call == ops[c]
<1>1. UNCHANGED documents /\ DOMAIN ops = Clients /\ IsCall(call)
  BY DEF Resume, Quoted, Cancel, database, HistoriesInv
<1>2. ASSUME NEW next, IsCall(next), ops' = [ops EXCEPT ![c] = next] PROVE HistoriesInv'
  BY <1>1, <1>2, OneCallMoves DEF HistoriesInv
<1>3. CASE End(c)
  BY <1>2, <1>3, IdleIsCall DEF End
<1>4. CASE AwaitQuotes(c) \/ CommitAtOnce(c)
  <2>1. PICK phase \in {"quoting", "committing"} :
          /\ ops' = [ops EXCEPT ![c].phase = phase, ![c].next = Result(call.op, call.base)]
          /\ call.phase = "loaded" /\ Allowed(call.op, call.base)
    BY <1>4, Zenon DEF AwaitQuotes, CommitAtOnce
  <2>2. call.op \in Operation /\ call.op.kind # "new" /\ Held(call.base)
    BY <1>1, <2>1 DEF IsCall
  <2> DEFINE result == Result(call.op, call.base)
  <2>3. Held(result)
    BY <2>1, <2>2, ResultIsHeld
  <2>4. ops' = [ops EXCEPT ![c] = [call EXCEPT !.phase = phase, !.next = result]]
    <3> HIDE DEF result
    <3> QED
      BY <1>1, <2>1 DEF result
  <2> HIDE DEF result
  <2>5. IsCall([call EXCEPT !.phase = phase, !.next = result])
    BY <1>1, <2>1, <2>3, PhaseMoves
  <2> QED
    BY <1>2, <2>4, <2>5
<1>5. CASE Quoted(c)
  <2>1. CASE ops' = [ops EXCEPT ![c].phase = "committing"] /\ call.phase = "quoting"
    <3>1. IsCall([call EXCEPT !.phase = "committing"])
      BY <1>1, <2>1, NoDocumentHeld, PhaseMoves
    <3> QED
      BY <1>2, <2>1, <3>1
  <2> QED
    BY <1>3, <1>5, <2>1 DEF Quoted
<1>6. CASE Cancel(c)
  <2>1. CASE ops' = [ops EXCEPT ![c].phase = "gone"]
    <3>1. IsCall([call EXCEPT !.phase = "gone"])
      BY <1>1, NoDocumentHeld, PhaseMoves
    <3> QED
      BY <1>2, <2>1, <3>1
  <2> QED
    BY <1>3, <1>6, <2>1 DEF Cancel
<1> QED
  BY <1>3, <1>4, <1>5, <1>6 DEF Resume, Refuse

LEMMA CommitHolds ==
  ASSUME HistoriesInv, NEW c \in Clients, ServeCommit(c)
  PROVE  HistoriesInv'
<1> DEFINE op == ops[c].op
           base == ops[c].base
           next == ops[c].next
           made == [next EXCEPT !.revision = base.revision + 1]
<1>1. Commit(op, base, next) /\ End(c) /\ ops[c].phase = "committing" /\ IsCall(ops[c])
  BY DEF ServeCommit, HistoriesInv
<1>2. Held(next) /\ Held(base)
  BY <1>1 DEF IsCall
<1>3. Held(made)
  <2>1. base.revision + 1 \in Nat
    BY <1>2 DEF Held, IsDocument
  <2>2. next = [revision |-> next.revision, title |-> next.title, trades |-> next.trades,
                corrections |-> next.corrections]
    BY <1>2 DEF Held, IsDocument
  <2>3. made = [revision |-> base.revision + 1, title |-> next.title, trades |-> next.trades,
                corrections |-> next.corrections]
    BY <2>2
  <2> HIDE DEF made
  <2>4. IsDocument(made) /\ made.trades = next.trades
    BY <2>1, <2>3 DEF IsDocument
  <2> HIDE DEF next
  <2> QED
    BY <1>2, <2>4 DEF Held
<1> HIDE DEF made
<1>4. \/ documents' = [k \in DOMAIN documents \ {op.key} |-> documents[k]]
      \/ documents' = [k \in DOMAIN documents \cup {op.key} |->
                         IF k = op.key THEN made ELSE documents[k]]
  BY <1>1 DEF Commit, made
<1>5. \A k \in DOMAIN documents' :
         documents'[k] = made \/ (k \in DOMAIN documents /\ documents'[k] = documents[k])
  BY <1>4
<1>6. \A k \in DOMAIN documents' : Held(documents'[k])
  BY Zenon, <1>3, <1>5 DEF HistoriesInv
<1> QED
  BY <1>1, <1>6, IdleIsCall, OneCallMoves DEF End

LEMMA ServeHolds ==
  ASSUME HistoriesInv, NEW c \in Clients, Serve(c)
  PROVE  HistoriesInv'
<1>1. DOMAIN ops = Clients /\ IsCall(ops[c])
  BY DEF HistoriesInv
<1>2. CASE ServeLoad(c)
  <2> DEFINE stored == Stored(ops[c].op.key)
  <2>1. Held(stored)
    BY NoDocumentHeld DEF Stored, HistoriesInv
  <2>2. /\ ops' = [ops EXCEPT ![c].phase = "loaded", ![c].base = stored]
        /\ ops[c].phase = "loading" /\ UNCHANGED documents
    BY <1>2 DEF ServeLoad, database
  <2> HIDE DEF stored
  <2>3. ops' = [ops EXCEPT ![c] = [ops[c] EXCEPT !.phase = "loaded", !.base = stored]]
    BY <1>1, <2>2
  <2>4. IsCall([ops[c] EXCEPT !.phase = "loaded", !.base = stored])
    BY <1>1, <2>1, <2>2, PhaseMoves
  <2> QED
    BY <2>2, <2>3, <2>4, OneCallMoves DEF HistoriesInv
<1>3. CASE ServeCommit(c)
  BY <1>3, CommitHolds
<1>4. CASE ServeNothing(c)
  BY <1>4, IdleIsCall, OneCallMoves DEF ServeNothing, database, End, HistoriesInv
<1> QED
  BY <1>2, <1>3, <1>4 DEF Serve

LEMMA HistoriesStep == HistoriesInv /\ [Next]_vars => HistoriesInv'
<1> SUFFICES ASSUME HistoriesInv, [Next]_vars PROVE HistoriesInv'
  OBVIOUS
<1>1. CASE \E c \in Clients : \E op \in Operation : Begin(c, op)
  BY <1>1, BeginHolds
<1>2. CASE \E c \in Clients : Resume(c) \/ Quoted(c) \/ Cancel(c)
  BY <1>2, CallHolds
<1>3. CASE \E c \in Clients : Serve(c)
  BY <1>3, ServeHolds
<1>4. CASE StopStore \/ CloseStore \/ Crash \/ Reopen \/ UNCHANGED vars
  <2>1. /\ UNCHANGED documents /\ DOMAIN ops = Clients
        /\ ops' = ops \/ ops' = Abandoned \/ ops' = [c \in Clients |-> Idle]
    BY <1>4 DEF StopStore, CloseStore, Crash, Reopen, vars, database, HistoriesInv
  <2>2. DOMAIN ops' = Clients /\ \A d \in Clients : ops'[d] = Idle \/ ops'[d] = ops[d]
    BY <2>1 DEF Abandoned
  <2> QED
    BY <2>1, <2>2, SomeCallsEnd
<1> QED
  BY <1>1, <1>2, <1>3, <1>4 DEF Next

\* The inductive invariant: every document stored, read or about to be written
\* holds a history that the ledger accepted.
THEOREM HistoriesInvariant == Spec => []HistoriesInv
<1>1. Init => HistoriesInv
  BY IdleIsCall DEF Init, HistoriesInv
<1> QED
  BY <1>1, HistoriesStep, PTL DEF Spec

\* Every stored history is one that the ledger accepted as a whole.
AcceptedHistories ==
  \A k \in DOMAIN documents :
    documents[k].trades = <<>> \/ Accepted(documents[k].trades)

\* No race of workflows joins trades that each were accepted into a history
\* that was not (quant-engine/src/portfolio.rs: portfolio_ledger).
THEOREM HistoriesAccepted == Spec => []AcceptedHistories
<1>1. HistoriesInv => AcceptedHistories
  BY DEF HistoriesInv, Held, AcceptedHistories
<1> QED
  BY <1>1, HistoriesInvariant, PTL

\* Whatever calls interleave, fail or are dropped, a stored history is in order
\* of days, holds a trade once, and at no point sells what was not bought
\* (mutations.rs and imports.rs over portfolio_ledger), ids used again or not.
THEOREM HistoriesSound == Spec => []HistoriesAreSound
<1>1. HistoriesInv => HistoriesAreSound
  <2> SUFFICES ASSUME HistoriesInv, NEW k \in DOMAIN documents,
                      NEW n \in 1..Len(documents[k].trades)
               PROVE  LET trades == documents[k].trades
                          sofar == SubSeq(trades, 1, n)
                      IN /\ \A m \in 1..(n - 1) :
                              trades[m].id # trades[n].id /\ trades[m].day <= trades[n].day
                         /\ Quantity(sofar, "SELL") <= Quantity(sofar, "BUY")
    BY Zenon DEF HistoriesAreSound
  <2> DEFINE trades == documents[k].trades
  <2>1. /\ trades \in Seq(Posted) /\ OnceEach(trades)
        /\ trades = <<>> \/ Accepted(trades)
    BY DEF HistoriesInv, Held, IsHistory
  <2> HIDE DEF trades
  <2>2. n \in 1..Len(trades)
    BY DEF trades
  <2>3. Accepted(trades)
    BY <2>1, <2>2
  <2>4. /\ \A i \in 1..(Len(trades) - 1) : trades[i].day <= trades[i + 1].day
        /\ PositionAfter(trades) # 0
    BY <2>3 DEF Accepted
  <2>5. /\ \A t \in Posted : IsTrade(t)
        /\ \A t \in Posted : t.day \in Nat
    BY PostedTrades DEF IsTrade
  <2>6. Quantity(SubSeq(trades, 1, n), "SELL") <= Quantity(SubSeq(trades, 1, n), "BUY")
    BY <2>1, <2>2, <2>4, <2>5, PositionIsDifference
  <2>7. ASSUME NEW m \in 1..(n - 1)
        PROVE  trades[m].id # trades[n].id /\ trades[m].day <= trades[n].day
    <3>1. trades[m].day <= trades[n].day
      BY <2>1, <2>2, <2>4, <2>5, DaysInOrder
    <3>2. m \in DOMAIN trades /\ n \in DOMAIN trades /\ m # n
      BY <2>1, <2>2
    <3> QED
      BY <2>1, <3>1, <3>2 DEF OnceEach
  <2> QED
    BY <2>6, <2>7 DEF trades
<1> QED
  BY <1>1, HistoriesInvariant, PTL

-----------------------------------------------------------------------------
(* The workflows implement AtomicPortfolios.  A document that a call has     *)
(* read was stored once, so among the versions of its id; and as long as an  *)
(* id is not reused, its versions before the stored one have smaller         *)
(* revisions.  So the comparison of revisions in commit lets only what was   *)
(* computed from the stored document through.                                *)

\* What a call has read, and what it will commit.
Reads(call, seen) ==
  /\ call.base.revision = 0 => call.base = NoDocument
  /\ call.phase \in {"loaded", "quoting", "committing"} /\ call.base.revision # 0 =>
       call.base \in seen[call.op.key]
  /\ call.phase \in {"quoting", "committing"} =>
       /\ Allowed(call.op, call.base) /\ call.next = Result(call.op, call.base)
       /\ call.op.kind = "new" => call.base = NoDocument

Remembered ==
  /\ documents = [k \in DOMAIN documents |-> documents[k]]
  /\ DOMAIN documents \subseteq Keys
  /\ \A k \in Keys : \A doc \in versions[k] : doc.revision \in Nat
  /\ \A k \in DOMAIN documents :
       /\ documents[k].revision # 0 /\ documents[k] \in versions[k]
       /\ k \notin reused => \A doc \in versions[k] :
            doc.revision < documents[k].revision \/ doc = documents[k]

ServiceInv ==
  /\ HistoriesInv
  /\ Remembered
  /\ \A c \in Clients : Reads(ops[c], versions)

\* A call moves while the versions at most grow.
LEMMA ReadsStay ==
  ASSUME HistoriesInv, \A c \in Clients : Reads(ops[c], versions),
         \A k \in Keys : versions[k] \subseteq versions'[k],
         DOMAIN ops' = Clients,
         \A c \in Clients : ops'[c] = ops[c] \/ Reads(ops'[c], versions')
  PROVE  \A c \in Clients : Reads(ops'[c], versions')
<1> SUFFICES ASSUME NEW c \in Clients, ops'[c] = ops[c] PROVE Reads(ops'[c], versions')
  OBVIOUS
<1>1. IsCall(ops[c]) /\ Reads(ops[c], versions)
  BY DEF HistoriesInv
<1>2. ops[c].phase \in {"loaded", "quoting", "committing"} => ops[c].op.key \in Keys
  BY <1>1 DEF IsCall, Operation
<1> QED
  BY <1>1, <1>2, Zenon DEF Reads

LEMMA OneCallReads ==
  ASSUME HistoriesInv, \A c \in Clients : Reads(ops[c], versions),
         \A k \in Keys : versions[k] \subseteq versions'[k],
         NEW c \in Clients, NEW call, Reads(call, versions'), ops' = [ops EXCEPT ![c] = call]
  PROVE  \A d \in Clients : Reads(ops'[d], versions')
<1>1. DOMAIN ops' = Clients /\ \A d \in Clients : ops'[d] = ops[d] \/ ops'[d] = call
  BY DEF HistoriesInv
<1> QED
  BY <1>1, ReadsStay, Zenon

LEMMA IdleReads == \A seen : Reads(Idle, seen)
BY NoDocumentHeld DEF Idle, Reads

LEMMA BeginReads ==
  ASSUME ServiceInv, NEW c \in Clients, NEW op \in Operation, Begin(c, op)
  PROVE  UNCHANGED database /\ \A d \in Clients : Reads(ops'[d], versions')
<1>1. UNCHANGED database /\ versions' = versions
  BY DEF Begin, database
<1>2. CASE op.kind = "new"
  <2> DEFINE call == [phase |-> "quoting", op |-> op, base |-> NoDocument,
                      next |-> Result(op, NoDocument)]
  <2>1. Allowed(op, NoDocument) /\ ops' = [ops EXCEPT ![c] = call]
    BY <1>2 DEF Begin
  <2>2. Reads(call, versions')
    BY <2>1, NoDocumentHeld DEF Reads
  <2> HIDE DEF call
  <2> QED
    BY <1>1, <2>1, <2>2, OneCallReads DEF ServiceInv
<1>3. CASE op.kind # "new"
  <2> DEFINE call == [Idle EXCEPT !.phase = "loading", !.op = op]
  <2>1. ops' = [ops EXCEPT ![c] = call]
    BY <1>3 DEF Begin
  <2>2. call.phase = "loading" /\ call.base = NoDocument
    BY DEF Idle
  <2> HIDE DEF call
  <2>3. Reads(call, versions')
    BY <2>2, NoDocumentHeld DEF Reads
  <2> QED
    BY <1>1, <2>1, <2>3, OneCallReads DEF ServiceInv
<1> QED
  BY <1>2, <1>3, <1>1

\* A call that ends or loses its caller.
LEMMA EndReads ==
  ASSUME ServiceInv, NEW c \in Clients, UNCHANGED versions,
         End(c) \/ ops' = [ops EXCEPT ![c].phase = "gone"]
  PROVE  \A d \in Clients : Reads(ops'[d], versions')
<1>1. DOMAIN ops = Clients /\ IsCall(ops[c]) /\ Reads(ops[c], versions)
  BY DEF ServiceInv, HistoriesInv
<1>2. CASE End(c)
  BY <1>2, IdleReads, OneCallReads DEF ServiceInv, End
<1>3. CASE ops' = [ops EXCEPT ![c].phase = "gone"]
  <2> DEFINE call == [ops[c] EXCEPT !.phase = "gone"]
  <2>1. ops' = [ops EXCEPT ![c] = call]
    BY <1>1, <1>3
  <2>2. call.phase = "gone" /\ call.base = ops[c].base
    BY <1>1 DEF IsCall
  <2> HIDE DEF call
  <2>3. Reads(call, versions')
    BY <1>1, <2>2 DEF Reads
  <2> QED
    BY <2>1, <2>3, OneCallReads DEF ServiceInv
<1> QED
  BY <1>2, <1>3

LEMMA ResumeReads ==
  ASSUME ServiceInv, NEW c \in Clients, Resume(c)
  PROVE  UNCHANGED database /\ \A d \in Clients : Reads(ops'[d], versions')
<1> DEFINE op == ops[c].op
           base == ops[c].base
           result == Result(op, base)
<1>1. UNCHANGED database /\ versions' = versions /\ ops[c].phase = "loaded"
  BY DEF Resume, Refuse, AwaitQuotes, CommitAtOnce, database
<1>2. CASE Refuse(c)
  BY <1>1, <1>2, EndReads DEF Refuse
<1>3. CASE AwaitQuotes(c) \/ CommitAtOnce(c)
  <2>1. PICK phase \in {"quoting", "committing"} :
          /\ ops' = [ops EXCEPT ![c].phase = phase, ![c].next = result]
          /\ Allowed(op, base)
    BY <1>3, Zenon DEF AwaitQuotes, CommitAtOnce
  <2>2. DOMAIN ops = Clients /\ IsCall(ops[c]) /\ Reads(ops[c], versions) /\ op.kind # "new"
    BY <1>1 DEF ServiceInv, HistoriesInv, IsCall
  <2> HIDE DEF result
  <2> DEFINE call == [ops[c] EXCEPT !.phase = phase, !.next = result]
  <2>3. ops' = [ops EXCEPT ![c] = call]
    BY <2>1, <2>2
  <2>4. call = [phase |-> phase, op |-> op, base |-> base, next |-> result]
    <3>1. ops[c] = [phase |-> ops[c].phase, op |-> op, base |-> base, next |-> ops[c].next]
      BY <2>2 DEF IsCall
    <3>2. call = [ops[c] EXCEPT !.phase = phase, !.next = result]
      OBVIOUS
    <3> HIDE DEF call
    <3> QED
      BY <3>1, <3>2
  <2> HIDE DEF call
  <2>5. call.phase = phase /\ call.op = op /\ call.base = base /\ call.next = result
    BY <2>4
  <2>6. Reads(call, versions')
    BY <1>1, <2>1, <2>2, <2>5 DEF Reads, result
  <2> QED
    BY <1>1, <2>3, <2>6, OneCallReads DEF ServiceInv
<1> QED
  BY <1>1, <1>2, <1>3 DEF Resume

LEMMA QuotedReads ==
  ASSUME ServiceInv, NEW c \in Clients, Quoted(c)
  PROVE  UNCHANGED database /\ \A d \in Clients : Reads(ops'[d], versions')
<1>1. /\ UNCHANGED database /\ versions' = versions /\ ops[c].phase = "quoting"
      /\ End(c) \/ ops' = [ops EXCEPT ![c].phase = "committing"]
  BY DEF Quoted, database
<1>2. CASE End(c)
  BY <1>1, <1>2, EndReads
<1>3. CASE ops' = [ops EXCEPT ![c].phase = "committing"]
  <2>1. DOMAIN ops = Clients /\ IsCall(ops[c]) /\ Reads(ops[c], versions)
    BY DEF ServiceInv, HistoriesInv
  <2> DEFINE call == [ops[c] EXCEPT !.phase = "committing"]
  <2>2. ops' = [ops EXCEPT ![c] = call]
    BY <1>3, <2>1
  <2>3. /\ call.phase = "committing" /\ call.op = ops[c].op /\ call.base = ops[c].base
        /\ call.next = ops[c].next
    BY <2>1 DEF IsCall
  <2> HIDE DEF call
  <2>4. Reads(call, versions')
    BY <1>1, <2>1, <2>3 DEF Reads
  <2> QED
    BY <1>1, <2>2, <2>4, OneCallReads DEF ServiceInv
<1> QED
  BY <1>1, <1>2, <1>3

LEMMA ServeLoadReads ==
  ASSUME ServiceInv, NEW c \in Clients, ServeLoad(c)
  PROVE  UNCHANGED database /\ \A d \in Clients : Reads(ops'[d], versions')
<1> DEFINE key == ops[c].op.key
           found == Stored(key)
<1>1. /\ UNCHANGED database /\ versions' = versions
      /\ ops' = [ops EXCEPT ![c].phase = "loaded", ![c].base = found]
  BY DEF ServeLoad, database
<1>2. DOMAIN ops = Clients /\ IsCall(ops[c])
  BY DEF ServiceInv, HistoriesInv
<1>3. /\ found.revision = 0 => found = NoDocument
      /\ found.revision # 0 => found \in versions[key]
  BY NoDocumentHeld DEF Stored, ServiceInv, Remembered
<1> HIDE DEF found
<1> DEFINE call == [ops[c] EXCEPT !.phase = "loaded", !.base = found]
<1>4. ops' = [ops EXCEPT ![c] = call]
  BY <1>1, <1>2
<1>5. call = [phase |-> "loaded", op |-> ops[c].op, base |-> found, next |-> ops[c].next]
  <2>1. ops[c] = [phase |-> ops[c].phase, op |-> ops[c].op, base |-> ops[c].base,
                  next |-> ops[c].next]
    BY <1>2 DEF IsCall
  <2>2. call = [ops[c] EXCEPT !.phase = "loaded", !.base = found]
    OBVIOUS
  <2> HIDE DEF call
  <2> QED
    BY <2>1, <2>2
<1> HIDE DEF call
<1>6. call.phase = "loaded" /\ call.base = found /\ call.op = ops[c].op
  BY <1>5
<1>7. Reads(call, versions')
  BY <1>1, <1>3, <1>6 DEF Reads
<1> QED
  BY <1>1, <1>4, <1>7, OneCallReads DEF ServiceInv

-----------------------------------------------------------------------------
\* A commit replaces, removes or makes one document.  Its revision is new among
\* the versions of its id, unless the id is one created again.
LEMMA CommitRemembered ==
  ASSUME Remembered, NEW key \in Keys, Remember,
         \A k \in DOMAIN documents : documents[k].revision \in Nat,
         documents' = [k \in DOMAIN documents' |-> documents'[k]],
         \A k \in DOMAIN documents' \ {key} :
           k \in DOMAIN documents /\ documents'[k] = documents[k],
         key \in DOMAIN documents' =>
           /\ documents'[key].revision \in Nat \ {0}
           /\ key \in DOMAIN documents => documents'[key].revision > documents[key].revision
  PROVE  Remembered' /\ \A k \in Keys : versions[k] \subseteq versions'[k]
<1>1. DOMAIN documents' \subseteq Keys
  BY DEF Remembered
<1>2. /\ \A k \in Keys : versions[k] \subseteq versions'[k]
      /\ \A k \in Keys : \A doc \in versions'[k] :
           doc \in versions[k] \/ (k \in DOMAIN documents' /\ doc = documents'[k])
      /\ \A k \in DOMAIN documents' : documents'[k] \in versions'[k]
  BY <1>1 DEF Remember
<1>3. \A k \in DOMAIN documents' : documents'[k].revision \in Nat \ {0}
  BY DEF Remembered
<1>4. \A k \in Keys : \A doc \in versions'[k] : doc.revision \in Nat
  BY <1>2, <1>3 DEF Remembered
<1>5. ASSUME NEW k \in DOMAIN documents', k \notin reused', NEW doc \in versions'[k]
      PROVE  doc.revision < documents'[k].revision \/ doc = documents'[k]
  <2>1. CASE doc = documents'[k]
    BY <2>1
  <2>2. CASE doc \in versions[k] /\ k \notin DOMAIN documents
    <3>1. versions[k] = {}
      BY <1>5, <2>2 DEF Remember
    <3> QED
      BY <2>2, <3>1
  <2>3. CASE doc \in versions[k] /\ k \in DOMAIN documents
    <3>1. k \notin reused /\ k \in Keys
      BY <1>1, <1>5 DEF Remember
    <3>2. doc.revision < documents[k].revision \/ doc = documents[k]
      BY <2>3, <3>1 DEF Remembered
    <3>3. documents'[k] = documents[k] \/ documents'[k].revision > documents[k].revision
      BY <2>3
    <3>4. /\ doc.revision \in Nat /\ documents[k].revision \in Nat
          /\ documents'[k].revision \in Nat
      BY <1>3, <2>3, <3>1 DEF Remembered
    <3> QED
      BY <3>2, <3>3, <3>4
  <2> QED
    BY <1>1, <1>2, <2>1, <2>2, <2>3
<1> QED
  BY <1>1, <1>2, <1>3, <1>4, <1>5 DEF Remembered

\* What a commit does is what the abstract specification lets the workflow do.
LEMMA CommitIsAtomic ==
  ASSUME ServiceInv, NEW c \in Clients, ServeCommit(c)
  PROVE  /\ Remembered' /\ \A k \in Keys : versions[k] \subseteq versions'[k]
         /\ Atomic!AtomicNext
<1> DEFINE op == ops[c].op
           key == op.key
           base == ops[c].base
           next == ops[c].next
           made == [next EXCEPT !.revision = base.revision + 1]
<1>1. /\ ops[c].phase = "committing" /\ Commit(op, base, next) /\ Remember
      /\ IsCall(ops[c]) /\ Reads(ops[c], versions)
  BY DEF ServeCommit, ServiceInv, HistoriesInv
<1>2. op \in Operation /\ key \in Keys
  BY <1>1 DEF IsCall, Operation
<1>3. /\ Allowed(op, base) /\ next = Result(op, base) /\ Held(base)
      /\ op.kind = "new" => base = NoDocument
      /\ base.revision = 0 => base = NoDocument
      /\ base.revision # 0 => base \in versions[key]
      /\ base.revision \in Nat
  BY <1>1 DEF Reads, IsCall, Held, IsDocument
<1>4. /\ documents = [k \in DOMAIN documents |-> documents[k]]
      /\ \A k \in DOMAIN documents :
           Held(documents[k]) /\ documents[k].revision # 0 /\ documents[k].revision \in Nat
      /\ Remembered
  BY DEF ServiceInv, HistoriesInv, Remembered, Held, IsDocument
<1>5. Stored(key).revision = base.revision
  BY <1>1 DEF Commit
<1>6. base.revision # 0 => key \in DOMAIN documents /\ base \in Atomic!Bases(key)
  <2> SUFFICES ASSUME base.revision # 0
               PROVE  key \in DOMAIN documents /\ base \in Atomic!Bases(key)
    OBVIOUS
  <2>1. key \in DOMAIN documents /\ Stored(key) = documents[key]
    BY <1>5, NoDocumentHeld DEF Stored
  <2>2. base \in versions[key] /\ base.revision = documents[key].revision
    BY <1>3, <1>5, <2>1
  <2>3. key \notin reused => base = documents[key]
    <3>1. key \notin reused => base.revision < documents[key].revision \/ base = documents[key]
      BY <1>4, <2>1, <2>2 DEF Remembered
    <3> QED
      BY <1>3, <2>2, <3>1
  <2> QED
    BY <2>1, <2>2, <2>3 DEF Atomic!Bases
<1>7. base.revision = 0 => key \notin DOMAIN documents
  BY <1>4, <1>5 DEF Stored
<1>8. Atomic!Remember
  BY <1>1 DEF Remember, Atomic!Remember
<1>9. CASE op.kind = "delete"
  <2>1. base.revision # 0
    BY <1>3, <1>9 DEF Allowed
  <2>2. documents' = [k \in DOMAIN documents \ {key} |-> documents[k]]
    BY <1>1, <1>9 DEF Commit
  <2>3. Atomic!Delete(key)
    BY <2>2 DEF Atomic!Delete
  <2>4. /\ DOMAIN documents' = DOMAIN documents \ {key}
        /\ \A k \in DOMAIN documents' : documents'[k] = documents[k]
        /\ documents' = [k \in DOMAIN documents' |-> documents'[k]]
    BY <2>2
  <2>5. documents' # documents
    BY <1>6, <2>1, <2>4
  <2>6. Remembered' /\ \A k \in Keys : versions[k] \subseteq versions'[k]
    BY <1>1, <1>2, <1>4, <2>4, CommitRemembered
  <2> QED
    BY <1>6, <1>8, <2>1, <2>3, <2>5, <2>6, Zenon DEF Atomic!AtomicNext
<1>10. CASE op.kind # "delete"
  <2>1. /\ base.revision = 0 => Cardinality(DOMAIN documents) < MaxPortfolios
        /\ documents' = [k \in DOMAIN documents \cup {key} |-> IF k = key THEN made ELSE documents[k]]
    BY <1>1, <1>10 DEF Commit
  <2>2. Held(next) /\ next.revision = base.revision
    BY <1>2, <1>3, <1>10, ResultHeld
  <2>3. made = Atomic!Next1(next)
    BY <2>2 DEF Atomic!Next1
  <2>4. made.revision = base.revision + 1
    <3> HIDE DEF next
    <3> QED
      BY <2>2 DEF Held, IsDocument
  <2> HIDE DEF made
  <2>5. /\ DOMAIN documents' = DOMAIN documents \cup {key} /\ documents'[key] = made
        /\ \A k \in DOMAIN documents \ {key} : documents'[k] = documents[k]
        /\ documents' = [k \in DOMAIN documents' |-> documents'[k]]
    BY <2>1
  <2>6. key \in DOMAIN documents => documents[key].revision = base.revision
    BY <1>5 DEF Stored
  <2>7. documents' # documents
    BY <1>3, <2>4, <2>5, <2>6
  <2>8. Remembered' /\ \A k \in Keys : versions[k] \subseteq versions'[k]
    BY <1>1, <1>2, <1>3, <1>4, <2>4, <2>5, <2>6, CommitRemembered
  <2>9. CASE base.revision # 0
    <3>1. op.kind # "new"
      BY <1>3, <2>9, NoDocumentHeld
    <3>2. documents' = [documents EXCEPT ![key] = Atomic!Next1(next)]
      BY <1>4, <1>6, <2>1, <2>3, <2>9
    <3>3. Atomic!Change(key, next)
      BY <3>2 DEF Atomic!Change
    <3>4. key \in DOMAIN documents /\ base \in Atomic!Bases(key)
      BY <1>6, <2>9
    <3>5. \/ op.kind = "save" /\ next = Renamed(base, op.arg) /\ op.arg \in Titles
          \/ /\ op.kind = "record" /\ next = Recorded(base, op.arg)
             /\ MayRecord(base, op.arg) /\ op.arg \in Trades
          \/ /\ op.kind = "correct" /\ next = Corrected(base, op.arg)
             /\ MayCorrect(base, op.arg) /\ op.arg \in Trades
          \/ /\ op.kind = "merge" /\ next = Merged(base, op.arg)
             /\ MayMerge(base, op.arg) /\ op.arg \in Imports
      <4>1. \/ op.kind = "save" /\ op.arg \in Titles
            \/ op.kind \in {"record", "correct"} /\ op.arg \in Trades
            \/ op.kind = "merge" /\ op.arg \in Imports
        BY <1>2, <1>10, <3>1 DEF Operation
      <4> QED
        BY <1>3, <4>1, Zenon DEF Result, Allowed
    <3> HIDE DEF next, base
    <3>6. \/ Atomic!Rename(key, base, op.arg) /\ op.arg \in Titles
          \/ /\ Atomic!Record(key, base, op.arg) \/ Atomic!Correct(key, base, op.arg)
             /\ op.arg \in Trades
          \/ Atomic!Merge(key, base, op.arg) /\ op.arg \in Imports
      <4>1. \A doc, x : Atomic!Renamed(doc, x) = Renamed(doc, x)
                        /\ Atomic!Recorded(doc, x) = Recorded(doc, x)
        BY Zenon DEF Atomic!Renamed, Renamed, Atomic!Recorded, Recorded
      <4> QED
        BY <3>3, <3>5, <4>1, SameCorrected, SameMerged, SameMayRecord, SameMayCorrect,
           SameMayMerge, Zenon
           DEF Atomic!Rename, Atomic!Record, Atomic!Correct, Atomic!Merge
    <3> QED
      BY <1>8, <2>7, <2>8, <3>4, <3>6, Zenon DEF Atomic!AtomicNext
  <2>10. CASE base.revision = 0
    <3>1. base = NoDocument /\ key \notin DOMAIN documents
      BY <1>3, <1>7, <2>10
    <3>2. op.kind \in {"save", "new"}
      BY <1>2, <1>3, <1>10, <2>10, Zenon DEF Allowed, Operation
    <3>3. Atomic!Made(key, next)
      BY <2>1, <2>3, <2>10, <3>1, SameCount DEF Atomic!Made
    <3>4. \/ op.kind = "save" /\ next = Renamed(NoDocument, op.arg) /\ op.arg \in Titles
          \/ /\ op.kind = "new" /\ next = Merged(NoDocument, op.arg)
             /\ MayMerge(NoDocument, op.arg) /\ op.arg \in Imports
      <4>1. \/ op.kind = "save" /\ op.arg \in Titles
            \/ op.kind = "new" /\ op.arg \in Imports
        BY <1>2, <3>2 DEF Operation
      <4> QED
        BY <1>3, <3>1, <4>1, Zenon DEF Result, Allowed
    <3>5. Atomic!NoDocument = NoDocument
      BY DEF Atomic!NoDocument, NoDocument
    <3> HIDE DEF next
    <3>6. \/ Atomic!Create(key, op.arg) /\ op.arg \in Titles
          \/ Atomic!ImportNew(key, op.arg) /\ op.arg \in Imports
      BY <3>3, <3>4, <3>5, SameMerged, SameMayMerge, Zenon
         DEF Atomic!Create, Atomic!ImportNew, Renamed
    <3> QED
      BY <1>2, <1>8, <2>7, <2>8, <3>6, Zenon DEF Atomic!AtomicNext
  <2> QED
    BY <2>9, <2>10
<1> QED
  BY <1>9, <1>10

-----------------------------------------------------------------------------
LEMMA ServiceStep ==
  ASSUME ServiceInv, [Next]_vars
  PROVE  ServiceInv' /\ [Atomic!AtomicNext]_(Atomic!portfolios)
<1>1. HistoriesInv'
  BY HistoriesStep DEF ServiceInv
<1>2. ASSUME UNCHANGED database, \A c \in Clients : Reads(ops'[c], versions')
      PROVE  ServiceInv' /\ [Atomic!AtomicNext]_(Atomic!portfolios)
  <2>1. Remembered'
    BY <1>2 DEF ServiceInv, Remembered, database
  <2> QED
    BY <1>1, <1>2, <2>1 DEF ServiceInv, database, Atomic!portfolios
<1>3. CASE \E c \in Clients : \E op \in Operation : Begin(c, op)
  BY <1>2, <1>3, BeginReads
<1>4. CASE \E c \in Clients : Resume(c) \/ Quoted(c)
  BY <1>2, <1>4, ResumeReads, QuotedReads
<1>5. ASSUME NEW c \in Clients, Cancel(c) \/ (Serve(c) /\ ServeNothing(c))
      PROVE  ServiceInv' /\ [Atomic!AtomicNext]_(Atomic!portfolios)
  <2>1. /\ UNCHANGED database /\ versions' = versions
        /\ End(c) \/ ops' = [ops EXCEPT ![c].phase = "gone"]
    BY <1>5 DEF Cancel, ServeNothing, database
  <2> QED
    BY <1>2, <2>1, EndReads
<1>6. ASSUME NEW c \in Clients, Serve(c), ServeLoad(c)
      PROVE  ServiceInv' /\ [Atomic!AtomicNext]_(Atomic!portfolios)
  BY <1>2, <1>6, ServeLoadReads
<1>7. ASSUME NEW c \in Clients, Serve(c), ServeCommit(c)
      PROVE  ServiceInv' /\ [Atomic!AtomicNext]_(Atomic!portfolios)
  <2>1. /\ Remembered' /\ \A k \in Keys : versions[k] \subseteq versions'[k]
        /\ Atomic!AtomicNext
    BY <1>7, CommitIsAtomic
  <2>2. ops' = [ops EXCEPT ![c] = Idle]
    BY <1>7 DEF ServeCommit, End
  <2>3. \A d \in Clients : Reads(ops'[d], versions')
    BY <2>1, <2>2, IdleReads, OneCallReads DEF ServiceInv
  <2> QED
    BY <1>1, <2>1, <2>3 DEF ServiceInv
<1>8. CASE StopStore \/ CloseStore \/ Crash \/ Reopen \/ UNCHANGED vars
  <2>1. /\ UNCHANGED database /\ versions' = versions /\ DOMAIN ops = Clients
        /\ ops' = ops \/ ops' = Abandoned \/ ops' = [c \in Clients |-> Idle]
    BY <1>8 DEF StopStore, CloseStore, Crash, Reopen, vars, database, ServiceInv, HistoriesInv
  <2>2. DOMAIN ops' = Clients /\ \A d \in Clients : ops'[d] = Idle \/ ops'[d] = ops[d]
    BY <2>1 DEF Abandoned
  <2>3. \A c \in Clients : ops'[c] = ops[c] \/ Reads(ops'[c], versions')
    BY <2>2, IdleReads
  <2>4. \A c \in Clients : Reads(ops'[c], versions')
    BY <2>1, <2>2, <2>3, ReadsStay DEF ServiceInv
  <2> QED
    BY <1>2, <2>1, <2>4
<1> QED
  BY <1>3, <1>4, <1>5, <1>6, <1>7, <1>8 DEF Next, Serve

LEMMA ServiceStart == Init => ServiceInv /\ Atomic!AtomicInit
<1> SUFFICES ASSUME Init PROVE ServiceInv /\ Atomic!AtomicInit
  OBVIOUS
<1>1. /\ documents = [k \in {} |-> NoDocument] /\ ops = [c \in Clients |-> Idle]
      /\ versions = [k \in Keys |-> {}] /\ reused = {}
  BY DEF Init
<1>2. Atomic!NoDocument = NoDocument
  BY DEF Atomic!NoDocument, NoDocument
<1>3. Atomic!AtomicInit
  BY <1>1, <1>2, Zenon DEF Atomic!AtomicInit
<1>4. \A c \in Clients : Reads(ops[c], versions)
  BY <1>1, IdleReads
<1>5. HistoriesInv
  BY <1>1, IdleIsCall DEF HistoriesInv
<1>6. Remembered
  BY <1>1 DEF Remembered
<1> QED
  BY <1>3, <1>4, <1>5, <1>6 DEF ServiceInv

\* The inductive invariant: what a call has read was stored once, what it will
\* commit follows from it, and of an id that was not created again after its
\* deletion no earlier version has the stored one's revision.
THEOREM ServiceInvariant == Spec => []ServiceInv
<1>1. ServiceInv /\ [Next]_vars => ServiceInv'
  BY ServiceStep
<1> QED
  BY <1>1, ServiceStart, PTL DEF Spec

\* Each workflow takes effect at once on the document as it is then, or not at
\* all (portfolio/ of terminal-engine over the transactions of
\* terminal-storage), whatever calls interleave, name the same id, fail, lose
\* their callers, are repeated or are cut off by a crash or a shutdown.
THEOREM ServiceIsAtomic == Spec => TakesEffectAtomically
<1>1. Init => Atomic!AtomicInit
  BY ServiceStart
<1>2. ServiceInv /\ [Next]_vars => [Atomic!AtomicNext]_(Atomic!portfolios)
  BY ServiceStep
<1> QED
  BY <1>1, <1>2, ServiceInvariant, PTL DEF Spec, TakesEffectAtomically, Atomic!AtomicSpec
=============================================================================
