---------------------------- MODULE ResourceCache ----------------------------
(***************************************************************************)
(* The deduplication and retry cache behind every desktop fetch            *)
(* (crates/terminal-engine/src/resources.rs).                              *)
(*                                                                         *)
(* A call looks its request up in a map of shared cells (creating or       *)
(* evicting one under the map's lock), then takes the cell's own lock,     *)
(* answers from the cell while it is not due, and otherwise takes one of a *)
(* few permits and asks the provider.  Everybody who asks meanwhile waits  *)
(* for the cell's lock.  One action is what a call does between two await  *)
(* points; a call may be dropped at any of them.                           *)
(*                                                                         *)
(* Data is represented by the number of the fetch that produced it, 0 is   *)
(* no data, and for a list of features one with every feature off.  A cell *)
(* is numbered, because a map may hold a new cell for a request while a    *)
(* call still works on an old one.                                         *)
(***************************************************************************)
EXTENDS Naturals, FiniteSets

CONSTANTS
  Callers,      \* concurrent calls
  Requests,     \* resource requests; a number is the BTreeMap position
  Unsupported,  \* requests the provider refuses (mock mode)
  FeatureLists, \* requests for the features on offer (Capabilities)
  Capacity,     \* entries in the map (512 in the code)
  Permits,      \* concurrent provider calls (4 in the code)
  MaxFetches    \* bound: provider answers that bring data

ASSUME CacheAssumption ==
  /\ Requests \subseteq Nat \ {0} /\ Unsupported \subseteq Requests
  /\ FeatureLists \subseteq Requests
  /\ IsFiniteSet(Requests) /\ IsFiniteSet(Callers)
  /\ Capacity \in Nat /\ Permits \in Nat /\ MaxFetches \in Nat

VARIABLES
  entries,  \* the map: request -> cell
  cells,    \* cell -> its contents, for every cell somebody can reach
  calls,    \* caller -> where its call is
  fetched,  \* number of provider answers with data so far
  stopped   \* the stop signal

vars == <<entries, cells, calls, fetched, stopped>>
-----------------------------------------------------------------------------
\* Calls of the service endpoint use a permit and no cell.
Service == 0

NoValue == [some |-> FALSE, data |-> 0, stale |-> FALSE]

EmptyCell == [value |-> NoValue, due |-> "unset", error |-> FALSE]

\* Cells are reused when nobody refers to them any more.
CellIds == 1..(Cardinality(Requests) + Cardinality(Callers))

Working == {"locking", "asking", "permit", "fetching"}

\* The calls that hold a reference to cell k, and those that hold its lock.
Holders(k) ==
  {c \in Callers : calls[c].request # Service /\ calls[c].phase \in Working
                   /\ calls[c].cell = k}

LockedBy(k) == {c \in Holders(k) : calls[c].phase \in {"permit", "fetching"}}

InUse == {entries[r] : r \in DOMAIN entries} \cup
         {k \in CellIds : Holders(k) # {}}

UnusedCell == CHOOSE k \in CellIds : k \notin InUse

\* (mutant) a queued call counts already
PermitsWithQueue ==
  Cardinality({c \in Callers : calls[c].phase \in {"permit", "fetching"}})

PermitsUsed == Cardinality({c \in Callers : calls[c].phase = "fetching"})

Put(map, key, value) ==
  [k \in DOMAIN map \cup {key} |-> IF k = key THEN value ELSE map[k]]

Drop(map, key) == [k \in DOMAIN map \ {key} |-> map[k]]

\* (mutant) any entry may be evicted
IdleOrNot == DOMAIN entries

\* strong_count == 1: only the map refers to the cell.
Idle == {r \in DOMAIN entries : Holders(entries[r]) = {}}

\* The map after it made room for one more entry, as a set: empty if it cannot.
Evicted ==
  IF Cardinality(DOMAIN entries) < Capacity THEN {entries}
  ELSE {Drop(entries, r) : r \in {i \in Idle : \A j \in Idle : i <= j}}

NotCalling == [phase |-> "idle", request |-> Service, cell |-> 0]

\* The call ends: it answers what its cell holds now, or an error.
Return(c) == calls' = [calls EXCEPT ![c] = NotCalling]

-----------------------------------------------------------------------------
\* request: refused after stop, or with the map full of busy entries;
\* otherwise the call holds the cell of its request.
Lookup(c, r) ==
  /\ calls[c].phase = "idle"
  /\ IF r \in DOMAIN entries
     THEN UNCHANGED <<entries, cells>>
     ELSE \E room \in Evicted :
            /\ entries' = Put(room, r, UnusedCell)
            /\ cells' = [cells EXCEPT ![UnusedCell] = EmptyCell]
  /\ calls' = [calls EXCEPT ![c] =
       [phase |-> "locking", request |-> r, cell |-> entries'[r]]]
  /\ ~stopped
  /\ UNCHANGED <<fetched, stopped>>

Refused(c, r) ==
  /\ calls[c].phase = "idle"
  /\ stopped \/ (r \notin DOMAIN entries /\ Evicted = {})
  /\ Return(c)
  /\ UNCHANGED <<entries, cells, fetched, stopped>>

\* service: no cell, only a permit.
CallService(c) ==
  /\ calls[c].phase = "idle"
  /\ ~stopped
  /\ calls' = [calls EXCEPT ![c] =
       [phase |-> "permit", request |-> Service, cell |-> 0]]
  /\ UNCHANGED <<entries, cells, fetched, stopped>>

\* (mutant) the due time is not looked at again under the lock
LockCellUnchecked(c) ==
  /\ calls[c].phase = "locking"
  /\ LockedBy(calls[c].cell) = {}
  /\ calls' = [calls EXCEPT ![c].phase = "permit"]
  /\ UNCHANGED <<entries, cells, fetched, stopped>>

\* The cell's lock is granted: answer from the cell, or queue for a permit.
LockCell(c) ==
  LET cell == cells[calls[c].cell]
  IN /\ calls[c].phase = "locking"
     /\ LockedBy(calls[c].cell) = {}
     /\ IF cell.due = "later" THEN Return(c)
        ELSE calls' = [calls EXCEPT ![c].phase = "permit"]
     /\ UNCHANGED <<entries, cells, fetched, stopped>>

TakePermit(c) ==
  /\ calls[c].phase = "permit"
  /\ PermitsUsed < Permits
  /\ calls' = [calls EXCEPT ![c].phase = "fetching"]
  /\ UNCHANGED <<entries, cells, fetched, stopped>>

\* (mutant) an answer without data replaces the last success
PreservedNothing(old) == [some |-> TRUE, data |-> 0, stale |-> FALSE]

\* preserve_last_success: an answer without data keeps the old data, stale.
Preserved(old) == [some |-> TRUE, data |-> old.data, stale |-> old.data # 0]

\* (mutant) a failure leaves the last success unmarked
MarkedStaleNot(r, old) == old

\* mark_stale: a failure marks the data it leaves, and turns every feature off.
MarkedStale(r, old) ==
  IF r \in FeatureLists THEN [old EXCEPT !.data = 0]
  ELSE [old EXCEPT !.stale = old.data # 0]

\* The provider answers; the cell's new contents and due time are stored and
\* the lock, the cell and the permit are given back.  The data may come from
\* the provider's own cache and be stale already.
AnswerData(c) ==
  /\ fetched < MaxFetches
  /\ fetched' = fetched + 1
  /\ \E stale \in BOOLEAN :
       /\ stale => calls[c].request \notin FeatureLists
       /\ cells' = [cells EXCEPT ![calls[c].cell] =
                      [value |-> [some |-> TRUE, data |-> fetched + 1, stale |-> stale],
                       due |-> "later", error |-> FALSE]]
  /\ Return(c)

AnswerEmpty(c) ==
  /\ calls[c].request \notin FeatureLists
  /\ cells' = [cells EXCEPT ![calls[c].cell] =
                 [value |-> Preserved(cells[calls[c].cell].value),
                  due |-> "later", error |-> FALSE]]
  /\ Return(c)
  /\ UNCHANGED fetched

\* A failure keeps the old value as mark_stale leaves it, and answers with it.
AnswerError(c) ==
  /\ cells' = [cells EXCEPT ![calls[c].cell] =
                 [value |-> MarkedStale(calls[c].request, cells[calls[c].cell].value),
                  due |-> "later", error |-> TRUE]]
  /\ Return(c)
  /\ UNCHANGED fetched

\* The mock provider's early return leaves the cell as it is.
AnswerUnsupported(c) ==
  /\ Return(c)
  /\ UNCHANGED <<cells, fetched>>

Answer(c) ==
  /\ calls[c].phase = "fetching"
  /\ IF calls[c].request = Service
     THEN /\ Return(c)
          /\ UNCHANGED <<cells, fetched>>
     ELSE IF calls[c].request \in Unsupported THEN AnswerUnsupported(c)
     ELSE AnswerData(c) \/ AnswerEmpty(c) \/ AnswerError(c)
  /\ UNCHANGED <<entries, stopped>>

\* next_due: wait for the cell's lock too, only to read the due time.
AskDue(c, r) ==
  /\ calls[c].phase = "idle"
  /\ r \in DOMAIN entries
  /\ calls' = [calls EXCEPT ![c] =
       [phase |-> "asking", request |-> r, cell |-> entries[r]]]
  /\ UNCHANGED <<entries, cells, fetched, stopped>>

ReadDue(c) ==
  /\ calls[c].phase = "asking"
  /\ LockedBy(calls[c].cell) = {}
  /\ Return(c)
  /\ UNCHANGED <<entries, cells, fetched, stopped>>

\* The future is dropped: its task was aborted, or the stop signal came.
Cancel(c) ==
  /\ calls[c].phase \in Working
  /\ Return(c)
  /\ UNCHANGED <<entries, cells, fetched, stopped>>

DueElapses(r) ==
  /\ r \in DOMAIN entries
  /\ cells[entries[r]].due = "later"
  /\ cells' = [cells EXCEPT ![entries[r]].due = "reached"]
  /\ UNCHANGED <<entries, calls, fetched, stopped>>

Stop ==
  /\ ~stopped
  /\ stopped' = TRUE
  /\ UNCHANGED <<entries, cells, calls, fetched>>

-----------------------------------------------------------------------------
Init ==
  /\ entries = [r \in {} |-> 0]
  /\ cells = [k \in CellIds |-> EmptyCell]
  /\ calls = [c \in Callers |-> NotCalling]
  /\ fetched = 0
  /\ stopped = FALSE

Next ==
  \/ \E c \in Callers, r \in Requests :
       Lookup(c, r) \/ Refused(c, r) \/ AskDue(c, r)
  \/ \E c \in Callers :
       CallService(c) \/ LockCell(c) \/ TakePermit(c) \/ Answer(c)
       \/ ReadDue(c) \/ Cancel(c)
  \/ \E r \in Requests : DueElapses(r)
  \/ Stop

Spec == Init /\ [][Next]_vars

\* Locks and permits are granted in turn (tokio's are queues), providers time
\* out, and after stop every call is dropped.
Fairness ==
  \A c \in Callers :
    /\ SF_vars(LockCell(c))
    /\ SF_vars(ReadDue(c))
    /\ SF_vars(TakePermit(c))
    /\ WF_vars(Answer(c))
    /\ WF_vars(stopped /\ Cancel(c))

FairSpec == Spec /\ Fairness

-----------------------------------------------------------------------------
Value == [some : BOOLEAN, data : 0..MaxFetches, stale : BOOLEAN]

\* Every variable stays in its type.
TypeOK ==
  /\ DOMAIN entries \subseteq Requests
  /\ entries \in [DOMAIN entries -> CellIds]
  /\ cells \in [CellIds -> [value : Value, due : {"unset", "later", "reached"},
                            error : BOOLEAN]]
  /\ \A c \in Callers :
       /\ calls[c].phase \in {"idle"} \cup Working
       /\ calls[c].request \in Requests \cup {Service}
       /\ calls[c].cell \in {0} \cup CellIds
  /\ fetched \in 0..MaxFetches
  /\ stopped \in BOOLEAN

\* Deduplication: two calls for the same request never both go to the
\* provider, because the cell a call works on is never evicted under it.
SingleFlight ==
  \A c, d \in Callers :
    (/\ {calls[c].phase, calls[d].phase} \subseteq {"permit", "fetching"}
     /\ calls[c].request = calls[d].request /\ calls[c].request # Service)
      => c = d

\* Whoever queues for the provider does so because the entry in the map is
\* due: an answer that arrived while the call waited for the lock is used.
OnlyDueIsFetched ==
  \A c \in Callers :
    (calls[c].phase \in {"permit", "fetching"} /\ calls[c].request # Service) =>
      /\ calls[c].request \in DOMAIN entries
      /\ entries[calls[c].request] = calls[c].cell
      /\ cells[calls[c].cell].due # "later"

\* A step that stored the outcome of a refresh in cell k.
Refreshed(k) == cells[k].due # "later" /\ cells'[k].due = "later"

\* What a refresh may make of the value of a request: newer data; the data of
\* the last success, marked stale; or, of a list of features, none left on, so
\* that no screen offers what the provider did not confirm.
Refresh(r, old, new) ==
  \/ new.data > old.data
  \/ r \notin FeatureLists /\ new.data = old.data /\ (new.data # 0 => new.stale)
  \/ r \in FeatureLists /\ new.data = 0

\* As long as an entry stays in the map its last success outlives failures
\* and empty answers, but never passes for a fresh one: the calls that are
\* answered from the cell during the retry delay can tell.
LastSuccessKept ==
  [][\A r \in DOMAIN entries \cap DOMAIN entries' :
       LET k == entries[r]
       IN entries'[r] = k =>
            IF Refreshed(k) THEN Refresh(r, cells[k].value, cells'[k].value)
            ELSE cells'[k].value = cells[k].value]_vars

\* Every call returns: waiting for cells and permits never ends in a deadlock.
CallsReturn ==
  \A c \in Callers :
    (calls[c].phase \in Working) ~> (calls[c].phase = "idle")
=============================================================================
