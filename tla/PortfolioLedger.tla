--------------------------- MODULE PortfolioLedger ---------------------------
(***************************************************************************)
(* The pure part of the portfolio workflows: which trade histories the     *)
(* ledger accepts (crates/quant-engine/src/portfolio.rs) and what each     *)
(* workflow makes of a document (crates/terminal-engine/src/portfolio).    *)
(*                                                                         *)
(* One symbol stands for all: positions of different symbols do not        *)
(* interact.  Amounts are whole numbers; prices, costs and gains are left  *)
(* out, as no rejection that the code makes for valid inputs depends on    *)
(* them.  A document is its revision, its title, its trades and the number *)
(* of its recorded corrections; revision 0 stands for no document.         *)
(***************************************************************************)
EXTENDS Naturals, Sequences, FiniteSets, SequencesExt

CONSTANTS
  MaxTrades,      \* trades of a portfolio (2000 in the code)
  MaxCorrections  \* corrections of a portfolio (2000 in the code)

\* Ids are tuples: <<name>> of a client's, four details of a row's without one.
NoId == <<>>

NoDocument == [revision |-> 0, title |-> 0, trades |-> <<>>, corrections |-> 0]

Has(trades, id) == \E i \in DOMAIN trades : trades[i].id = id

Find(trades, id) == trades[CHOOSE i \in DOMAIN trades : trades[i].id = id]

\* (mutant) only the end of the history is checked
PositionAtTheEnd(trades) ==
  LET sum(side) == FoldLeft(LAMBDA n, t : IF t.side = side THEN n + t.quantity ELSE n, 0, trades)
  IN IF sum("SELL") <= sum("BUY") THEN 1 + sum("BUY") - sum("SELL") ELSE 0

\* The position after a history, plus one; 0 if a sale or a dividend exceeded
\* the position at its place.
PositionAfter(trades) ==
  FoldLeft(LAMBDA held, t :
    IF held = 0 THEN 0
    ELSE CASE t.side = "BUY" -> held + t.quantity
           [] t.side = "SELL" -> IF t.quantity < held THEN held - t.quantity ELSE 0
           [] t.side = "DIVIDEND" -> IF t.quantity < held THEN held ELSE 0,
    1, trades)

\* portfolio_ledger accepts a history in order of days that never oversells.
Accepted(trades) ==
  /\ Len(trades) <= MaxTrades
  /\ \A i \in 1..(Len(trades) - 1) : trades[i].day <= trades[i + 1].day
  /\ PositionAfter(trades) # 0

\* sort_by_key: a stable sort by day.
Inserted(sorted, t) ==
  LET before == Cardinality({i \in DOMAIN sorted : sorted[i].day <= t.day})
  IN SubSeq(sorted, 1, before) \o <<t>> \o SubSeq(sorted, before + 1, Len(sorted))

ByDay(trades) == FoldLeft(Inserted, <<>>, trades)

\* save of a document that exists: only its title and the like may change.
Renamed(doc, title) == [doc EXCEPT !.title = title]

\* record_trade appends; the same trade again changes nothing, the same id with
\* other details and an earlier day are refused.
MayRecord(doc, t) ==
  /\ ~Has(doc.trades, t.id)
  /\ Len(doc.trades) < MaxTrades
  /\ Accepted(Append(doc.trades, t))

Recorded(doc, t) == [doc EXCEPT !.trades = Append(@, t)]

\* correct_trade replaces a trade, sorts again and notes the correction.
Corrected(doc, t) ==
  [doc EXCEPT
    !.trades = ByDay([i \in DOMAIN @ |-> IF @[i].id = t.id THEN t ELSE @[i]]),
    !.corrections = @ + 1]

MayCorrect(doc, t) ==
  /\ Has(doc.trades, t.id)
  /\ Find(doc.trades, t.id) # t
  /\ doc.corrections < MaxCorrections
  /\ Accepted(Corrected(doc, t).trades)

\* parse_import reads the rows of a file, in order of days: a row without an id
\* gets one made of its details and of how many rows before it have the same.
Details(row) == <<row.day, row.side, row.quantity>>

ReadRows(rows) ==
  LET copies(i) == {j \in 1..(i - 1) : Details(rows[j]) = Details(rows[i])}
  IN ByDay([i \in DOMAIN rows |->
       [rows[i] EXCEPT !.id =
          IF @ = NoId THEN Details(rows[i]) \o <<Cardinality(copies(i))>> ELSE @]])

\* An import adds the trades it does not find, in order of days; a trade with
\* the same id must be the same trade, in the document or in the file.
Added(trades, t) == IF Has(trades, t.id) THEN trades ELSE Append(trades, t)

Merged(doc, rows) ==
  [doc EXCEPT !.trades = ByDay(FoldLeft(Added, @, ReadRows(rows)))]

MayMerge(doc, rows) ==
  LET merged == Merged(doc, rows).trades
      imported == ReadRows(rows)
  IN /\ Len(rows) \in 1..MaxTrades
     /\ \A i \in DOMAIN imported : Find(merged, imported[i].id) = imported[i]
     /\ Accepted(merged)
=============================================================================
