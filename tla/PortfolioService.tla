-------------------------- MODULE PortfolioService --------------------------
(***************************************************************************)
(* The native portfolio workflows (crates/terminal-engine/src/portfolio)   *)
(* over the SQLite worker thread (crates/terminal-storage/src/portfolio.rs)*)
(*                                                                         *)
(* A workflow loads the document, checks and computes, may await quotes to *)
(* check currencies, and commits the new document if its revision is still *)
(* the loaded one.  The worker serves one request at a time; a request     *)
(* whose caller is gone, or that finds the store stopping, is skipped.     *)
(* SQLite transactions are atomic and survive a crash of the process.      *)
(***************************************************************************)
EXTENDS PortfolioLedger

CONSTANTS
  Clients,        \* concurrent calls
  Keys, Trades, Imports, Titles,
  MaxPortfolios,  \* portfolios of a user (50 in the code)
  MaxCalls,       \* bound: calls begun
  MaxRestarts     \* bound: crashes, shutdowns

\* A purchase, a sale or a dividend, with its day and a quantity.
IsTrade(t) ==
  /\ DOMAIN t = {"id", "side", "day", "quantity"}
  /\ t.side \in {"BUY", "SELL", "DIVIDEND"} /\ t.day \in Nat /\ t.quantity \in Nat

ASSUME InputsAssumption ==
  /\ \A t \in Trades : IsTrade(t)
  /\ \A rows \in Imports : rows \in Seq(ToSet(rows)) /\ \A row \in ToSet(rows) : IsTrade(row)

VARIABLES
  documents,  \* the database: key -> document
  ops,        \* client -> the state of its call
  queue,      \* requests sent to the worker thread, in order
  stopping,   \* the flag set by shutdown
  open,       \* the worker thread is alive
  versions,   \* history: key -> the documents it ever had
  reused,     \* history: the keys created again after a deletion
  begun,      \* number of calls so far
  restarts    \* number of crashes and shutdowns so far

database == <<documents, versions, reused>>
vars == <<database, ops, queue, stopping, open, begun, restarts>>
-----------------------------------------------------------------------------
\* What a user may ask for.
Operation ==
  [kind : {"save"}, key : Keys, arg : Titles]
  \cup [kind : {"delete"}, key : Keys, arg : {0}]
  \cup [kind : {"record", "correct"}, key : Keys, arg : Trades]
  \cup [kind : {"merge", "new"}, key : Keys, arg : Imports]

NoOp == [kind |-> "none"]

Idle == [phase |-> "idle", op |-> NoOp, base |-> NoDocument, next |-> NoDocument]

Shutdown == "shutdown"

\* The revision the database holds for a key; None is 0.
Stored(k) == IF k \in DOMAIN documents THEN documents[k] ELSE NoDocument

\* What the workflow computes from the loaded document, and when it may.
Result(op, doc) ==
  CASE op.kind = "save" -> Renamed(doc, op.arg)
    [] op.kind = "delete" -> NoDocument
    [] op.kind = "record" -> Recorded(doc, op.arg)
    [] op.kind = "correct" -> Corrected(doc, op.arg)
    [] op.kind \in {"merge", "new"} -> Merged(doc, op.arg)

Allowed(op, doc) ==
  CASE op.kind = "save" -> TRUE
    [] op.kind = "delete" -> doc.revision # 0
    [] op.kind = "record" -> doc.revision # 0 /\ MayRecord(doc, op.arg)
    [] op.kind = "correct" -> doc.revision # 0 /\ MayCorrect(doc, op.arg)
    [] op.kind = "merge" -> doc.revision # 0 /\ MayMerge(doc, op.arg)
    [] op.kind = "new" -> MayMerge(NoDocument, op.arg)

\* Workflows that await quotes between the load and the commit.
Quotes(op) == op.kind \in {"record", "merge", "new"}

End(c) == ops' = [ops EXCEPT ![c] = Idle]

Enqueue(c) == queue' = Append(queue, c)

-----------------------------------------------------------------------------
\* A workflow begins: it sends a load, or (import of a new portfolio) awaits
\* quotes at once.  A store that stops or stopped refuses.
Begin(c, op) ==
  /\ ops[c].phase = "idle"
  /\ begun < MaxCalls
  /\ begun' = begun + 1
  /\ IF op.kind = "new"
     THEN /\ Allowed(op, NoDocument)
          /\ ops' = [ops EXCEPT ![c] =
               [phase |-> "quoting", op |-> op, base |-> NoDocument,
                next |-> Result(op, NoDocument)]]
          /\ UNCHANGED queue
     ELSE /\ open /\ ~stopping
          /\ ops' = [ops EXCEPT ![c] = [Idle EXCEPT !.phase = "loading", !.op = op]]
          /\ Enqueue(c)
  /\ UNCHANGED <<database, stopping, open, restarts>>

\* The document arrived; the workflow is refused (the caller named another
\* revision, another currency, an invalid history), has nothing to do, awaits
\* quotes or commits.
Refuse(c) ==
  /\ ops[c].phase = "loaded"
  /\ End(c)
  /\ UNCHANGED queue

AwaitQuotes(c) ==
  LET op == ops[c].op
      base == ops[c].base
  IN /\ ops[c].phase = "loaded"
     /\ Quotes(op) /\ Allowed(op, base)
     /\ ops' = [ops EXCEPT ![c].phase = "quoting", ![c].next = Result(op, base)]
     /\ UNCHANGED queue

CommitAtOnce(c) ==
  LET op == ops[c].op
      base == ops[c].base
  IN /\ ops[c].phase = "loaded"
     /\ ~Quotes(op) /\ Allowed(op, base)
     /\ open
     /\ ops' = [ops EXCEPT ![c].phase = "committing", ![c].next = Result(op, base)]
     /\ Enqueue(c)

Resume(c) ==
  /\ Refuse(c) \/ AwaitQuotes(c) \/ CommitAtOnce(c)
  /\ UNCHANGED <<database, stopping, open, begun, restarts>>

\* The quotes arrived: commit, unless one has another currency or failed, or
\* the store is stopping.
Quoted(c) ==
  /\ ops[c].phase = "quoting"
  /\ \/ open /\ Enqueue(c) /\ ops' = [ops EXCEPT ![c].phase = "committing"]
     \/ End(c) /\ UNCHANGED queue
  /\ UNCHANGED <<database, stopping, open, begun, restarts>>

\* The caller is dropped at an await; a request it sent stays in the queue.
Cancel(c) ==
  /\ \/ /\ ops[c].phase \in {"loaded", "quoting"}
        /\ End(c)
     \/ /\ ops[c].phase \in {"loading", "committing"}
        /\ ops' = [ops EXCEPT ![c].phase = "gone"]
  /\ UNCHANGED <<database, queue, stopping, open, begun, restarts>>

-----------------------------------------------------------------------------
\* (mutant) the revision is not compared
CommitUnchecked(op, base, next) ==
  IF op.kind = "delete"
  THEN /\ base.revision # 0
       /\ documents' = [k \in DOMAIN documents \ {op.key} |-> documents[k]]
  ELSE /\ documents' = [k \in DOMAIN documents \cup {op.key} |->
            IF k = op.key THEN [next EXCEPT !.revision = Stored(op.key).revision + 1]
            ELSE documents[k]]
       /\ base.revision = 0 => Cardinality(DOMAIN documents) < MaxPortfolios

\* commit: compare the revision, check the limit, write the next revision.  (A
\* document equal to the stored one keeps its revision; the workflows never
\* commit one, they stamp each document with the time.)
Commit(op, base, next) ==
  /\ Stored(op.key).revision = base.revision
  /\ IF op.kind = "delete"
     THEN documents' = [k \in DOMAIN documents \ {op.key} |-> documents[k]]
     ELSE /\ base.revision = 0 => Cardinality(DOMAIN documents) < MaxPortfolios
          /\ documents' = [k \in DOMAIN documents \cup {op.key} |->
               IF k = op.key THEN [next EXCEPT !.revision = base.revision + 1]
               ELSE documents[k]]

\* The worker answers the oldest request.  Any request may fail without an
\* effect: a conflict, the limit, a locked or interrupted database, a full disk.
Serving(c) == queue # <<>> /\ Head(queue) = c /\ open

ServeLoad(c) ==
  /\ ops[c].phase = "loading" /\ ~stopping
  /\ ops' = [ops EXCEPT ![c].phase = "loaded", ![c].base = Stored(ops[c].op.key)]
  /\ UNCHANGED database

\* (history variables)
Remember ==
  /\ versions' = [k \in Keys |->
       versions[k] \cup {documents'[j] : j \in DOMAIN documents' \cap {k}}]
  /\ reused' = reused \cup {k \in DOMAIN documents' \ DOMAIN documents : versions[k] # {}}

ServeCommit(c) ==
  /\ ops[c].phase = "committing" /\ ~stopping
  /\ Commit(ops[c].op, ops[c].base, ops[c].next)
  /\ Remember
  /\ End(c)

ServeNothing(c) == End(c) /\ UNCHANGED database

Serve(c) ==
  /\ Serving(c)
  /\ ServeLoad(c) \/ ServeCommit(c) \/ ServeNothing(c)
  /\ queue' = Tail(queue)
  /\ UNCHANGED <<stopping, open, begun, restarts>>

-----------------------------------------------------------------------------
\* (mutant) the flag is set, the worker is not told to end
StopStoreByFlag ==
  /\ open /\ ~stopping
  /\ restarts < MaxRestarts
  /\ restarts' = restarts + 1
  /\ stopping' = TRUE
  /\ UNCHANGED <<database, ops, queue, open, begun>>

\* shutdown: refuse new requests, interrupt SQLite, queue the last request.
StopStore ==
  /\ open /\ ~stopping
  /\ restarts < MaxRestarts
  /\ restarts' = restarts + 1
  /\ stopping' = TRUE
  /\ queue' = Append(queue, Shutdown)
  /\ UNCHANGED <<database, ops, open, begun>>

\* (mutant) calls behind the last request wait on
AbandonedNone == ops

\* The calls with a request in a queue nobody serves any more get an error.
Abandoned ==
  [c \in Clients |->
    IF ops[c].phase \in {"loading", "committing", "gone"} THEN Idle ELSE ops[c]]

CloseStore ==
  /\ open
  /\ queue # <<>> /\ Head(queue) = Shutdown
  /\ open' = FALSE
  /\ queue' = <<>>
  /\ ops' = Abandoned
  /\ UNCHANGED <<database, stopping, begun, restarts>>

\* The process dies: nothing but the committed transactions is left.
Crash ==
  /\ restarts < MaxRestarts
  /\ restarts' = restarts + 1
  /\ open' = FALSE
  /\ queue' = <<>>
  /\ ops' = [c \in Clients |-> Idle]
  /\ UNCHANGED <<database, stopping, begun>>

Reopen ==
  /\ ~open
  /\ open' = TRUE
  /\ stopping' = FALSE
  /\ UNCHANGED <<database, ops, queue, begun, restarts>>

-----------------------------------------------------------------------------
Init ==
  /\ documents = [k \in {} |-> NoDocument]
  /\ versions = [k \in Keys |-> {}]
  /\ reused = {}
  /\ ops = [c \in Clients |-> Idle]
  /\ queue = <<>>
  /\ stopping = FALSE
  /\ open = TRUE
  /\ begun = 0
  /\ restarts = 0

Next ==
  \/ \E c \in Clients :
       \/ \E op \in Operation : Begin(c, op)
       \/ Resume(c) \/ Quoted(c) \/ Cancel(c) \/ Serve(c)
  \/ StopStore \/ CloseStore \/ Crash \/ Reopen

Spec == Init /\ [][Next]_vars

\* The worker thread runs, callers are polled and quotes arrive or time out.
Fairness ==
  /\ WF_vars(CloseStore)
  /\ \A c \in Clients : WF_vars(Serve(c)) /\ WF_vars(Resume(c)) /\ WF_vars(Quoted(c))

FairSpec == Spec /\ Fairness

-----------------------------------------------------------------------------
Quantity(trades, side) ==
  FoldLeft(LAMBDA sum, t : IF t.side = side THEN sum + t.quantity ELSE sum, 0, trades)

\* Whatever calls interleave, fail or are dropped, a stored history is in order
\* of days, holds a trade once, and at no point sells what was not bought.
HistoriesAreSound ==
  \A k \in DOMAIN documents :
    LET trades == documents[k].trades
    IN \A n \in 1..Len(trades) :
         LET sofar == SubSeq(trades, 1, n)
         IN /\ \A m \in 1..(n - 1) :
                 trades[m].id # trades[n].id /\ trades[m].day <= trades[n].day
            /\ Quantity(sofar, "SELL") <= Quantity(sofar, "BUY")

\* Each workflow takes effect at once on the document as it is then, or not at
\* all: no update is lost, none is applied twice or in parts, and of the calls
\* that create one id only one does, across failures, retries, dropped callers,
\* crashes and shutdown.  Only after a deletion and a new creation of its id may
\* a call also meet the revision of a document it read before.
Atomic == INSTANCE AtomicPortfolios
TakesEffectAtomically == Atomic!AtomicSpec

\* Every call returns, also when the store is shut down around it.
CallsReturn == \A c \in Clients : (ops[c].phase # "idle") ~> (ops[c].phase = "idle")

\* Shutdown ends.
StoreCloses == stopping ~> ~open
=============================================================================
