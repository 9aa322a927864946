-------------------------- MODULE AtomicPortfolios --------------------------
(***************************************************************************)
(* What the portfolio workflows promise: documents that change as if every *)
(* workflow ran alone, in one step, on the document as it is then.  Which  *)
(* histories a document may hold, and what a workflow does to it, is       *)
(* PortfolioLedger's; each change that has an effect makes the next        *)
(* revision.  Revisions start again when an id is created again after its  *)
(* deletion: from then on a workflow may also take effect on an earlier    *)
(* document of the id that had the same revision, and on no other.         *)
(***************************************************************************)
EXTENDS PortfolioLedger

CONSTANTS
  Keys,          \* portfolio ids of one user
  Trades,        \* trades a user may enter
  Imports,       \* sequences of trades a user may import
  Titles,        \* names of portfolios
  MaxPortfolios  \* portfolios of a user (50 in the code)

VARIABLES
  documents,  \* key -> document, for the portfolios that exist
  versions,   \* history: key -> the documents it ever had
  reused      \* history: the keys created again after a deletion

portfolios == <<documents, versions, reused>>

Remember ==
  /\ versions' = [k \in Keys |->
       versions[k] \cup {documents'[j] : j \in DOMAIN documents' \cap {k}}]
  /\ reused' = reused \cup {k \in DOMAIN documents' \ DOMAIN documents : versions[k] # {}}

\* The documents a workflow may have computed its change from.
Bases(k) ==
  IF k \in reused THEN {doc \in versions[k] : doc.revision = documents[k].revision}
  ELSE {documents[k]}

Next1(doc) == [doc EXCEPT !.revision = @ + 1]

Made(k, doc) ==
  /\ k \notin DOMAIN documents
  /\ Cardinality(DOMAIN documents) < MaxPortfolios
  /\ documents' = [j \in DOMAIN documents \cup {k} |->
                    IF j = k THEN Next1(doc) ELSE documents[j]]

Create(k, title) == Made(k, [NoDocument EXCEPT !.title = title])

ImportNew(k, imported) ==
  MayMerge(NoDocument, imported) /\ Made(k, Merged(NoDocument, imported))

Change(k, doc) == documents' = [documents EXCEPT ![k] = Next1(doc)]

Rename(k, base, title) == Change(k, Renamed(base, title))

Record(k, base, t) == MayRecord(base, t) /\ Change(k, Recorded(base, t))

Correct(k, base, t) == MayCorrect(base, t) /\ Change(k, Corrected(base, t))

Merge(k, base, imported) ==
  MayMerge(base, imported) /\ Change(k, Merged(base, imported))

Delete(k) == documents' = [j \in DOMAIN documents \ {k} |-> documents[j]]

AtomicInit ==
  /\ documents = [k \in {} |-> NoDocument]
  /\ versions = [k \in Keys |-> {}]
  /\ reused = {}

AtomicNext ==
  /\ documents' # documents  \* what would change nothing has no effect
  /\ \/ \E k \in Keys :
          \/ \E title \in Titles : Create(k, title)
          \/ \E imported \in Imports : ImportNew(k, imported)
     \/ \E k \in DOMAIN documents : \E base \in Bases(k) :
          \/ \E title \in Titles : Rename(k, base, title)
          \/ \E t \in Trades : Record(k, base, t) \/ Correct(k, base, t)
          \/ \E imported \in Imports : Merge(k, base, imported)
          \/ Delete(k)
  /\ Remember

AtomicSpec == AtomicInit /\ [][AtomicNext]_portfolios
=============================================================================
