------------------------- MODULE ResourceCacheProofs -------------------------
(***************************************************************************)
(* The resource cache, for every set of callers and requests and every     *)
(* limit: its types, that a request has one flight at a time, that only    *)
(* what is due is fetched, and that a success is not lost.                 *)
(***************************************************************************)
EXTENDS ResourceCache, FiniteSetTheorems, TLAPS

Call == [phase : {"idle"} \cup Working, request : Requests \cup {Service},
         cell : {0} \cup CellIds]

Cell == [value : Value, due : {"unset", "later", "reached"}, error : BOOLEAN]

Types ==
  /\ DOMAIN entries \subseteq Requests
  /\ entries \in [DOMAIN entries -> CellIds]
  /\ cells \in [CellIds -> Cell]
  /\ calls \in [Callers -> Call]
  /\ fetched \in 0..MaxFetches
  /\ stopped \in BOOLEAN

OfCell(c) == calls[c].phase \in Working /\ calls[c].request # Service

Owns(c) == OfCell(c) /\ calls[c].phase \in {"permit", "fetching"}

\* A call that is under way works on the cell of its request in the map.
HeldIsEntry ==
  \A c \in Callers : OfCell(c) =>
    /\ calls[c].request \in DOMAIN entries
    /\ entries[calls[c].request] = calls[c].cell

\* No two requests share a cell.
EntriesApart == \A q, r \in DOMAIN entries : entries[q] = entries[r] => q = r

\* The lock of a cell has one owner.
LockIsExclusive ==
  \A c, d \in Callers : Owns(c) /\ Owns(d) /\ calls[c].cell = calls[d].cell => c = d

OwnersAreDue ==
  \A c \in Callers : Owns(c) => cells[calls[c].cell].due # "later"

\* Data come from a fetch that has been.
DataAreFetched == \A k \in CellIds : cells[k].value.data <= fetched

IInv ==
  /\ Types
  /\ HeldIsEntry
  /\ EntriesApart
  /\ LockIsExclusive
  /\ OwnersAreDue
  /\ DataAreFetched

-----------------------------------------------------------------------------
LEMMA NotCallingIsCall == NotCalling \in Call
BY DEF NotCalling, Call, Service

LEMMA EmptyCellIsCell == EmptyCell \in Cell /\ EmptyCell.value.data = 0
BY CacheAssumption DEF EmptyCell, Cell, Value, NoValue

\* There is a cell for an entry to come: the entries and the other callers
\* refer to fewer than there are.
LEMMA UnusedCellExists ==
  ASSUME Types, NEW c \in Callers, calls[c].phase = "idle",
         NEW r \in Requests, r \notin DOMAIN entries
  PROVE  UnusedCell \in CellIds \ InUse
<1> DEFINE E == {entries[q] : q \in DOMAIN entries}
           H == {calls[d].cell : d \in Callers \ {c}}
<1>1. IsFiniteSet(DOMAIN entries) /\ Cardinality(DOMAIN entries) < Cardinality(Requests)
  <2>1. DOMAIN entries \subseteq Requests \ {r}
    BY DEF Types
  <2>2. IsFiniteSet(Requests \ {r})
        /\ Cardinality(Requests \ {r}) = Cardinality(Requests) - 1
    BY CacheAssumption, FS_RemoveElement
  <2>3. IsFiniteSet(DOMAIN entries)
        /\ Cardinality(DOMAIN entries) <= Cardinality(Requests \ {r})
    BY <2>1, <2>2, FS_Subset
  <2> QED
    BY <2>2, <2>3, CacheAssumption, FS_CardinalityType
<1>2. IsFiniteSet(Callers \ {c}) /\ Cardinality(Callers \ {c}) < Cardinality(Callers)
  <2>1. IsFiniteSet(Callers \ {c})
        /\ Cardinality(Callers \ {c}) = Cardinality(Callers) - 1
    BY CacheAssumption, FS_RemoveElement
  <2> QED
    BY <2>1, CacheAssumption, FS_CardinalityType
<1>3. IsFiniteSet(E) /\ Cardinality(E) <= Cardinality(DOMAIN entries)
  <2> DEFINE f == [q \in DOMAIN entries |-> entries[q]]
  <2>1. f \in Surjection(DOMAIN entries, E)
    BY DEF Surjection
  <2> QED
    BY <1>1, <2>1, FS_Surjection
<1>4. IsFiniteSet(H) /\ Cardinality(H) <= Cardinality(Callers \ {c})
  <2> DEFINE f == [d \in Callers \ {c} |-> calls[d].cell]
  <2>1. f \in Surjection(Callers \ {c}, H)
    BY DEF Surjection
  <2> QED
    BY <1>2, <2>1, FS_Surjection
<1>5. InUse \subseteq E \cup H
  BY DEF InUse, Holders, Working
<1>6. IsFiniteSet(E \cup H)
      /\ Cardinality(E \cup H) <= Cardinality(E) + Cardinality(H)
  <2>1. Cardinality(E \cup H) = Cardinality(E) + Cardinality(H) - Cardinality(E \cap H)
        /\ IsFiniteSet(E \cup H)
    BY <1>3, <1>4, FS_Union
  <2>2. IsFiniteSet(E \cap H)
    BY <1>3, FS_Intersection
  <2>3. Cardinality(E \cap H) \in Nat /\ Cardinality(E) \in Nat /\ Cardinality(H) \in Nat
    BY <1>3, <1>4, <2>2, FS_CardinalityType
  <2> QED
    BY <2>1, <2>3
<1>7. ~(CellIds \subseteq E \cup H)
  <2> DEFINE n == Cardinality(Requests) + Cardinality(Callers)
  <2>1. n \in Nat /\ Cardinality(CellIds) = n
    <3>1. n \in Nat
      BY CacheAssumption, FS_CardinalityType
    <3>2. Cardinality(1..n) = IF 1 > n THEN 0 ELSE n - 1 + 1
      BY <3>1, FS_Interval
    <3> QED
      BY <3>1, <3>2 DEF CellIds
  <2>2. CellIds \subseteq E \cup H => Cardinality(CellIds) <= Cardinality(E \cup H)
    BY <1>6, FS_Subset
  <2>3. Cardinality(DOMAIN entries) \in Nat /\ Cardinality(Callers \ {c}) \in Nat
        /\ Cardinality(E) \in Nat /\ Cardinality(H) \in Nat
        /\ Cardinality(E \cup H) \in Nat
        /\ Cardinality(Requests) \in Nat /\ Cardinality(Callers) \in Nat
    BY <1>1, <1>2, <1>3, <1>4, <1>6, CacheAssumption, FS_CardinalityType
  <2> QED
    BY <1>1, <1>2, <1>3, <1>4, <1>6, <2>1, <2>2, <2>3
<1>8. \E k \in CellIds : k \notin InUse
  BY <1>5, <1>7
<1> QED
  BY <1>8 DEF UnusedCell

\* A call changes and cells do not.
LEMMA CallMoves ==
  ASSUME IInv, NEW c \in Callers, NEW v \in Call, calls' = [calls EXCEPT ![c] = v],
         UNCHANGED <<entries, cells, fetched, stopped>>,
         v.phase \in Working /\ v.request # Service =>
           /\ v.request \in DOMAIN entries
           /\ entries[v.request] = v.cell
           /\ v.phase \in {"permit", "fetching"} =>
                /\ cells[v.cell].due # "later"
                /\ LockedBy(v.cell) \subseteq {c}
  PROVE  IInv'
<1>1. Types'
  BY DEF IInv, Types
<1>2. \A d \in Callers : calls'[d] = IF d = c THEN v ELSE calls[d]
  BY DEF IInv, Types
<1>3. HeldIsEntry'
  BY <1>2 DEF IInv, HeldIsEntry, OfCell
<1>4. OwnersAreDue'
  BY <1>2 DEF IInv, OwnersAreDue, Owns, OfCell
<1>5. LockIsExclusive'
  <2> SUFFICES ASSUME NEW d \in Callers, NEW e \in Callers, Owns(d)', Owns(e)',
                      calls'[d].cell = calls'[e].cell
               PROVE  d = e
    BY DEF LockIsExclusive
  <2>1. CASE d # c /\ e # c
    BY <1>2, <2>1 DEF IInv, LockIsExclusive, Owns, OfCell
  <2>2. CASE d = c /\ e # c
    BY <1>2, <2>2 DEF Owns, OfCell, LockedBy, Holders
  <2>3. CASE d # c /\ e = c
    BY <1>2, <2>3 DEF Owns, OfCell, LockedBy, Holders
  <2> QED
    BY <2>1, <2>2, <2>3
<1>6. DataAreFetched' /\ EntriesApart'
  BY DEF IInv, DataAreFetched, EntriesApart
<1> QED
  BY <1>1, <1>3, <1>4, <1>5, <1>6 DEF IInv

LEMMA ReturnKeeps ==
  ASSUME IInv, NEW c \in Callers, Return(c), UNCHANGED <<entries, cells, fetched, stopped>>
  PROVE  IInv'
<1>1. NotCalling.phase \notin Working
  BY DEF NotCalling, Working
<1> QED
  BY <1>1, NotCallingIsCall, CallMoves DEF Return

LEMMA AskDueKeeps ==
  ASSUME IInv, NEW c \in Callers, NEW r \in Requests, AskDue(c, r)
  PROVE  IInv'
<1> DEFINE v == [phase |-> "asking", request |-> r, cell |-> entries[r]]
<1>1. v \in Call
  BY DEF Call, Working, AskDue, IInv, Types
<1> QED
  BY <1>1, CallMoves DEF AskDue

LEMMA CallServiceKeeps ==
  ASSUME IInv, NEW c \in Callers, CallService(c)
  PROVE  IInv'
<1> DEFINE v == [phase |-> "permit", request |-> Service, cell |-> 0]
<1>1. v \in Call
  BY DEF Call, Working
<1> QED
  BY <1>1, CallMoves DEF CallService

LEMMA LockCellKeeps ==
  ASSUME IInv, NEW c \in Callers, LockCell(c)
  PROVE  IInv'
<1>1. CASE cells[calls[c].cell].due = "later"
  BY <1>1, ReturnKeeps DEF LockCell
<1>2. CASE cells[calls[c].cell].due # "later"
  <2> DEFINE v == [calls[c] EXCEPT !.phase = "permit"]
  <2>1. v \in Call /\ calls[c].phase \in Working
    BY DEF Call, Working, LockCell, IInv, Types
  <2>2. calls' = [calls EXCEPT ![c] = v] /\ UNCHANGED <<entries, cells, fetched, stopped>>
    BY <1>2 DEF LockCell
  <2>3. v.request = calls[c].request /\ v.cell = calls[c].cell
    BY DEF IInv, Types, Call
  <2>4. v.request # Service =>
          v.request \in DOMAIN entries /\ entries[v.request] = v.cell
    BY <2>1, <2>3 DEF IInv, HeldIsEntry, OfCell
  <2>5. cells[v.cell].due # "later" /\ LockedBy(v.cell) = {}
    BY <1>2, <2>3 DEF LockCell
  <2> HIDE DEF v
  <2> QED
    BY <2>1, <2>2, <2>4, <2>5, CallMoves
<1> QED
  BY <1>1, <1>2

LEMMA TakePermitKeeps ==
  ASSUME IInv, NEW c \in Callers, TakePermit(c)
  PROVE  IInv'
<1> DEFINE v == [calls[c] EXCEPT !.phase = "fetching"]
<1>1. v \in Call /\ calls[c].phase = "permit" /\ calls[c].phase \in Working
  BY DEF Call, Working, TakePermit, IInv, Types
<1>2. calls' = [calls EXCEPT ![c] = v] /\ UNCHANGED <<entries, cells, fetched, stopped>>
  BY DEF TakePermit
<1>3. v.request = calls[c].request /\ v.cell = calls[c].cell
  BY DEF IInv, Types, Call
<1>4. ASSUME v.request # Service
      PROVE  /\ v.request \in DOMAIN entries /\ entries[v.request] = v.cell
             /\ cells[v.cell].due # "later" /\ LockedBy(v.cell) \subseteq {c}
  <2>1. Owns(c)
    BY <1>1, <1>3, <1>4 DEF Owns, OfCell
  <2>2. v.request \in DOMAIN entries /\ entries[v.request] = v.cell
        /\ cells[v.cell].due # "later"
    BY <1>3, <2>1 DEF IInv, HeldIsEntry, OwnersAreDue, Owns
  <2>3. LockedBy(v.cell) \subseteq {c}
    BY <1>3, <2>1 DEF IInv, LockIsExclusive, LockedBy, Holders, Owns, OfCell
  <2> QED
    BY <2>2, <2>3
<1> HIDE DEF v
<1> QED
  BY <1>1, <1>2, <1>4, CallMoves

\* The cells of the calls under way.
LEMMA HeldIsInUse ==
  ASSUME IInv, NEW c \in Callers, OfCell(c)
  PROVE  calls[c].cell \in CellIds /\ calls[c].cell \in InUse
         /\ c \in Holders(calls[c].cell)
BY DEF IInv, Types, HeldIsEntry, OfCell, InUse, Holders

LEMMA LookupKeeps ==
  ASSUME IInv, NEW c \in Callers, NEW r \in Requests, Lookup(c, r)
  PROVE  IInv'
<1>1. CASE r \in DOMAIN entries
  <2> DEFINE v == [phase |-> "locking", request |-> r, cell |-> entries[r]]
  <2>1. v \in Call
    BY <1>1 DEF Call, Working, IInv, Types
  <2>2. calls' = [calls EXCEPT ![c] = v] /\ UNCHANGED <<entries, cells, fetched, stopped>>
    BY <1>1 DEF Lookup
  <2> QED
    BY <1>1, <2>1, <2>2, CallMoves
<1>2. CASE r \notin DOMAIN entries
  <2> DEFINE k == UnusedCell
             v == [phase |-> "locking", request |-> r, cell |-> k]
  <2>1. k \in CellIds /\ k \notin InUse
    BY <1>2, UnusedCellExists DEF Lookup, IInv
  <2>2. PICK room \in Evicted : entries' = Put(room, r, k)
    BY <1>2 DEF Lookup
  <2>3. cells' = [cells EXCEPT ![k] = EmptyCell] /\ UNCHANGED <<fetched, stopped>>
    BY <1>2 DEF Lookup
  <2> HIDE DEF k
  <2>4. entries'[r] = k /\ DOMAIN entries' = DOMAIN room \cup {r}
        /\ \A q \in DOMAIN room \ {r} : entries'[q] = room[q]
    BY <2>2 DEF Put
  <2>5. /\ DOMAIN room \subseteq DOMAIN entries
        /\ \A q \in DOMAIN room : room[q] = entries[q]
        /\ \A q \in DOMAIN entries : q \in DOMAIN room \/ q \in Idle
    BY <2>2 DEF Evicted, Drop
  <2>6. calls' = [calls EXCEPT ![c] = v]
    BY <2>4 DEF Lookup
  <2>7. v \in Call
    BY <2>1 DEF Call, Working
  <2>8. \A d \in Callers : calls'[d] = IF d = c THEN v ELSE calls[d]
    BY <2>6 DEF IInv, Types
  <2>9. Types'
    <3>1. entries' \in [DOMAIN entries' -> CellIds] /\ DOMAIN entries' \subseteq Requests
      <4>1. \A q \in DOMAIN entries' : entries'[q] \in CellIds
        BY <2>1, <2>4, <2>5 DEF IInv, Types
      <4>2. entries' = [q \in DOMAIN entries' |-> entries'[q]]
        BY <2>2 DEF Put
      <4> QED
        BY <2>4, <2>5, <4>1, <4>2 DEF IInv, Types
    <3>2. cells' \in [CellIds -> Cell]
      BY <2>3, EmptyCellIsCell DEF IInv, Types
    <3>3. calls' \in [Callers -> Call]
      BY <2>6, <2>7 DEF IInv, Types
    <3> QED
      BY <2>3, <3>1, <3>2, <3>3 DEF IInv, Types
  <2>10. HeldIsEntry'
    <3> SUFFICES ASSUME NEW d \in Callers, OfCell(d)'
                 PROVE  calls'[d].request \in DOMAIN entries'
                        /\ entries'[calls'[d].request] = calls'[d].cell
      BY DEF HeldIsEntry
    <3>1. CASE d = c
      BY <2>4, <2>8, <3>1
    <3>2. CASE d # c
      <4>1. OfCell(d) /\ calls'[d] = calls[d]
        BY <2>8, <3>2 DEF OfCell
      <4>2. calls[d].request \in DOMAIN entries
            /\ entries[calls[d].request] = calls[d].cell
            /\ d \in Holders(calls[d].cell)
        BY <4>1, HeldIsInUse DEF IInv, HeldIsEntry
      <4>3. calls[d].request \notin Idle
        BY <4>2 DEF Idle
      <4> QED
        BY <1>2, <2>4, <2>5, <4>1, <4>2, <4>3
    <3> QED
      BY <3>1, <3>2
  <2>15. EntriesApart'
    <3>1. \A q \in DOMAIN entries : entries[q] # k
      BY <2>1 DEF InUse
    <3> QED
      BY <1>2, <2>4, <2>5, <3>1 DEF IInv, EntriesApart
  <2>11. ASSUME NEW d \in Callers, Owns(d)'
         PROVE  d # c /\ Owns(d) /\ calls'[d] = calls[d]
    BY <2>8, <2>11 DEF Owns, OfCell
  <2>12. LockIsExclusive'
    BY <2>11 DEF IInv, LockIsExclusive
  <2>13. OwnersAreDue'
    <3> SUFFICES ASSUME NEW d \in Callers, Owns(d)'
                 PROVE  cells'[calls'[d].cell].due # "later"
      BY DEF OwnersAreDue
    <3>1. calls[d].cell # k /\ calls[d].cell \in CellIds /\ cells[calls[d].cell].due # "later"
      BY <2>1, <2>11, HeldIsInUse DEF IInv, OwnersAreDue, Owns
    <3> QED
      BY <2>3, <2>11, <3>1 DEF IInv, Types
  <2>14. DataAreFetched'
    <3>1. fetched \in Nat
      BY CacheAssumption DEF IInv, Types
    <3> QED
      BY <2>3, <3>1, EmptyCellIsCell DEF IInv, DataAreFetched, Types
  <2> QED
    BY <2>9, <2>10, <2>12, <2>13, <2>14, <2>15 DEF IInv
<1> QED
  BY <1>1, <1>2

\* The owner of a cell's lock fills the cell and returns.
LEMMA FillKeeps ==
  ASSUME IInv, NEW c \in Callers, Owns(c), NEW x \in Cell, Return(c),
         cells' = [cells EXCEPT ![calls[c].cell] = x],
         fetched' \in 0..MaxFetches, fetched <= fetched', x.value.data <= fetched',
         UNCHANGED <<entries, stopped>>
  PROVE  IInv'
<1>1. \A d \in Callers : calls'[d] = IF d = c THEN NotCalling ELSE calls[d]
  BY DEF IInv, Types, Return
<1>2. Types'
  BY NotCallingIsCall DEF IInv, Types, Return
<1>3. ASSUME NEW d \in Callers, OfCell(d)'
      PROVE  d # c /\ OfCell(d) /\ calls'[d] = calls[d]
  BY <1>1, <1>3 DEF OfCell, NotCalling, Working
<1>4. HeldIsEntry' /\ EntriesApart'
  BY <1>3 DEF IInv, HeldIsEntry, EntriesApart
<1>5. ASSUME NEW d \in Callers, Owns(d)'
      PROVE  Owns(d) /\ calls'[d] = calls[d] /\ d # c
  BY <1>3, <1>5 DEF Owns
<1>6. LockIsExclusive'
  BY <1>5 DEF IInv, LockIsExclusive
<1>7. OwnersAreDue'
  <2> SUFFICES ASSUME NEW d \in Callers, Owns(d)'
               PROVE  cells'[calls'[d].cell].due # "later"
    BY DEF OwnersAreDue
  <2>1. calls[d].cell # calls[c].cell
    BY <1>5 DEF IInv, LockIsExclusive
  <2>2. calls[d].cell \in CellIds
    BY <1>5, HeldIsInUse DEF Owns
  <2> QED
    BY <1>5, <2>1, <2>2 DEF IInv, OwnersAreDue, Types
<1>8. DataAreFetched'
  <2> SUFFICES ASSUME NEW k \in CellIds PROVE cells'[k].value.data <= fetched'
    BY DEF DataAreFetched
  <2>1. cells'[k] = IF k = calls[c].cell THEN x ELSE cells[k]
    BY DEF IInv, Types
  <2>2. cells[k].value.data \in Nat /\ cells[k].value.data <= fetched
    BY CacheAssumption DEF IInv, Types, Cell, Value, DataAreFetched
  <2>3. fetched \in Nat /\ fetched' \in Nat
    BY CacheAssumption DEF IInv, Types
  <2> QED
    BY <2>1, <2>2, <2>3
<1> QED
  BY <1>2, <1>4, <1>6, <1>7, <1>8 DEF IInv

\* What mark_stale leaves: a value again; of a feature list, with every
\* feature off; of anything else, the same data, marked.
LEMMA MarkedValue ==
  ASSUME NEW r, NEW old \in Value
  PROVE  /\ MarkedStale(r, old) \in Value
         /\ r \in FeatureLists => MarkedStale(r, old).data = 0
         /\ r \notin FeatureLists =>
              /\ MarkedStale(r, old).data = old.data
              /\ MarkedStale(r, old).data # 0 => MarkedStale(r, old).stale
<1>1. old = [some |-> old.some, data |-> old.data, stale |-> old.stale]
      /\ old.some \in BOOLEAN /\ old.data \in 0..MaxFetches /\ old.stale \in BOOLEAN
  BY DEF Value
<1>2. 0 \in 0..MaxFetches
  BY CacheAssumption
<1>3. CASE r \in FeatureLists
  <2>1. MarkedStale(r, old) = [some |-> old.some, data |-> 0, stale |-> old.stale]
    BY <1>1, <1>3 DEF MarkedStale, Value
  <2> QED
    BY <1>1, <1>2, <1>3, <2>1 DEF Value
<1>4. CASE r \notin FeatureLists
  <2> DEFINE marked == old.data # 0
  <2>1. MarkedStale(r, old) = [some |-> old.some, data |-> old.data, stale |-> marked]
    BY <1>1, <1>4 DEF MarkedStale, Value
  <2>2. marked \in BOOLEAN
    OBVIOUS
  <2>3. MarkedStale(r, old) \in Value
    BY <1>1, <2>1, <2>2 DEF Value
  <2>4. MarkedStale(r, old).data = old.data
    BY <2>1
  <2>5. MarkedStale(r, old).stale = marked
    BY <2>1
  <2>6. MarkedStale(r, old).data # 0 => MarkedStale(r, old).stale
    BY <2>4, <2>5, Zenon
  <2> QED
    BY <1>4, <2>3, <2>4, <2>6
<1> QED
  BY <1>3, <1>4

LEMMA AnswerKeeps ==
  ASSUME IInv, NEW c \in Callers, Answer(c)
  PROVE  IInv'
<1> DEFINE old == cells[calls[c].cell].value
<1>1. CASE calls[c].request = Service \/ calls[c].request \in Unsupported
  BY <1>1, ReturnKeeps DEF Answer, AnswerUnsupported
<1>2. CASE calls[c].request # Service /\ calls[c].request \notin Unsupported
  <2>1. Owns(c)
    BY <1>2 DEF Answer, Owns, OfCell, Working
  <2>2. old \in Value /\ old.data <= fetched /\ old.data \in 0..MaxFetches
    BY <2>1, HeldIsInUse DEF IInv, Types, Cell, DataAreFetched, Owns, Value
  <2>3. fetched \in 0..MaxFetches /\ fetched \in Nat /\ fetched <= fetched
    BY CacheAssumption DEF IInv, Types
  <2>4. CASE AnswerData(c)
    <3>0. PICK stale \in BOOLEAN :
            cells' = [cells EXCEPT ![calls[c].cell] =
                       [value |-> [some |-> TRUE, data |-> fetched + 1, stale |-> stale],
                        due |-> "later", error |-> FALSE]]
      BY <2>4 DEF AnswerData
    <3> DEFINE x == [value |-> [some |-> TRUE, data |-> fetched + 1, stale |-> stale],
                     due |-> "later", error |-> FALSE]
    <3>1. fetched + 1 \in 0..MaxFetches /\ fetched <= fetched + 1
      BY <2>3, <2>4, CacheAssumption DEF AnswerData
    <3>2. x \in Cell /\ x.value.data <= fetched + 1
      BY <3>1 DEF Cell, Value
    <3> QED
      BY <2>1, <2>4, <3>0, <3>1, <3>2, FillKeeps DEF AnswerData, Answer
  <2>5. CASE AnswerEmpty(c)
    <3> DEFINE x == [value |-> Preserved(old), due |-> "later", error |-> FALSE]
    <3>1. x \in Cell /\ x.value.data = old.data
      BY <2>2 DEF Cell, Value, Preserved
    <3> QED
      BY <2>1, <2>2, <2>3, <2>5, <3>1, FillKeeps DEF AnswerEmpty, Answer
  <2>6. CASE AnswerError(c)
    <3> DEFINE v == MarkedStale(calls[c].request, old)
               x == [value |-> v, due |-> "later", error |-> TRUE]
    <3>1. v \in Value /\ v.data <= fetched
      BY <2>2, <2>3, MarkedValue
    <3>2. cells' = [cells EXCEPT ![calls[c].cell] = x]
      BY <2>6 DEF AnswerError
    <3> HIDE DEF v
    <3>3. x \in Cell /\ x.value.data <= fetched
      BY <3>1 DEF Cell
    <3> QED
      BY <2>1, <2>3, <2>6, <3>2, <3>3, FillKeeps DEF AnswerError, Answer
  <2> QED
    BY <1>2, <2>4, <2>5, <2>6 DEF Answer
<1> QED
  BY <1>1, <1>2

LEMMA DueElapsesKeeps ==
  ASSUME IInv, NEW r \in Requests, DueElapses(r)
  PROVE  IInv'
<1> DEFINE k == entries[r]
<1>1. k \in CellIds /\ cells[k] \in Cell
  BY DEF DueElapses, IInv, Types
<1>2. cells' = [cells EXCEPT ![k] = [cells[k] EXCEPT !.due = "reached"]]
  BY DEF DueElapses
<1>3. [cells[k] EXCEPT !.due = "reached"] \in Cell
  BY <1>1 DEF Cell
<1>4. Types'
  BY <1>2, <1>3 DEF IInv, Types, DueElapses
<1>5. \A j \in CellIds : cells'[j].value = cells[j].value
                        /\ (cells'[j].due = "later" => cells[j].due = "later")
  BY <1>1, <1>2 DEF IInv, Types, Cell
<1>6. HeldIsEntry' /\ LockIsExclusive' /\ EntriesApart'
  BY DEF IInv, EntriesApart, HeldIsEntry, LockIsExclusive, Owns, OfCell, DueElapses
<1>7. OwnersAreDue'
  <2> SUFFICES ASSUME NEW d \in Callers, Owns(d)
               PROVE  cells'[calls[d].cell].due # "later"
    BY DEF OwnersAreDue, Owns, OfCell, DueElapses
  <2> QED
    BY <1>5, HeldIsInUse DEF IInv, OwnersAreDue, Owns
<1>8. DataAreFetched'
  BY <1>5 DEF IInv, DataAreFetched, DueElapses
<1> QED
  BY <1>4, <1>6, <1>7, <1>8 DEF IInv

LEMMA StopKeeps ==
  ASSUME IInv, UNCHANGED <<entries, cells, calls, fetched>>, stopped' \in BOOLEAN
  PROVE  IInv'
BY DEF IInv, Types, HeldIsEntry, EntriesApart, LockIsExclusive, OwnersAreDue, DataAreFetched,
       Owns, OfCell

LEMMA IInvInit == Init => IInv
<1> SUFFICES ASSUME Init PROVE IInv
  OBVIOUS
<1>1. Types
  <2>1. entries \in [DOMAIN entries -> CellIds] /\ DOMAIN entries = {}
    BY DEF Init
  <2>2. cells \in [CellIds -> Cell] /\ calls \in [Callers -> Call]
    BY NotCallingIsCall, EmptyCellIsCell DEF Init
  <2>3. fetched \in 0..MaxFetches
    BY CacheAssumption DEF Init
  <2>4. stopped \in BOOLEAN
    BY DEF Init
  <2> QED
    BY <2>1, <2>2, <2>3, <2>4 DEF Types
<1>2. \A c \in Callers : ~OfCell(c)
  BY DEF Init, OfCell, NotCalling, Working
<1>3. DataAreFetched /\ EntriesApart
  BY EmptyCellIsCell DEF Init, DataAreFetched, EntriesApart
<1> QED
  BY <1>1, <1>2, <1>3 DEF IInv, HeldIsEntry, LockIsExclusive, OwnersAreDue, Owns

LEMMA IInvNext == IInv /\ [Next]_vars => IInv'
<1> SUFFICES ASSUME IInv, [Next]_vars PROVE IInv'
  OBVIOUS
<1>1. ASSUME NEW c \in Callers, NEW r \in Requests,
             Lookup(c, r) \/ Refused(c, r) \/ AskDue(c, r)
      PROVE  IInv'
  BY <1>1, LookupKeeps, ReturnKeeps, AskDueKeeps DEF Refused
<1>2. ASSUME NEW c \in Callers,
             CallService(c) \/ LockCell(c) \/ TakePermit(c) \/ Answer(c)
             \/ ReadDue(c) \/ Cancel(c)
      PROVE  IInv'
  BY <1>2, CallServiceKeeps, LockCellKeeps, TakePermitKeeps, AnswerKeeps, ReturnKeeps
     DEF ReadDue, Cancel
<1>3. CASE \E r \in Requests : DueElapses(r)
  BY <1>3, DueElapsesKeeps
<1>4. CASE Stop
  BY <1>4, StopKeeps DEF Stop
<1>5. CASE UNCHANGED vars
  BY <1>5, StopKeeps DEF vars, IInv, Types
<1> QED
  BY <1>1, <1>2, <1>3, <1>4, <1>5 DEF Next

\* What LastSuccessKept says of a step.
KeepsSuccess ==
  \A r \in DOMAIN entries \cap DOMAIN entries' :
    LET k == entries[r]
    IN entries'[r] = k =>
         IF Refreshed(k) THEN Refresh(r, cells[k].value, cells'[k].value)
         ELSE cells'[k].value = cells[k].value

\* What an answer puts into the cell of its request.
LEMMA AnswerRefreshes ==
  ASSUME IInv, NEW c \in Callers, Answer(c), cells' # cells
  PROVE  /\ Owns(c)
         /\ \E x \in Cell :
              /\ cells' = [cells EXCEPT ![calls[c].cell] = x]
              /\ x.due = "later"
              /\ Refresh(calls[c].request, cells[calls[c].cell].value, x.value)
<1> DEFINE was == cells[calls[c].cell].value
           q == calls[c].request
<1>1. Owns(c) /\ q \notin Unsupported
  BY DEF Answer, AnswerUnsupported, Owns, OfCell, Working
<1>2. was \in Value /\ was.data \in Nat /\ was.data <= fetched /\ fetched \in Nat
  BY <1>1, HeldIsInUse, CacheAssumption
     DEF IInv, Types, Cell, Owns, Value, DataAreFetched
<1>3. CASE AnswerData(c)
  <2>1. PICK stale \in BOOLEAN :
          cells' = [cells EXCEPT ![calls[c].cell] =
                     [value |-> [some |-> TRUE, data |-> fetched + 1, stale |-> stale],
                      due |-> "later", error |-> FALSE]]
    BY <1>3 DEF AnswerData
  <2> DEFINE x == [value |-> [some |-> TRUE, data |-> fetched + 1, stale |-> stale],
                   due |-> "later", error |-> FALSE]
  <2>2. fetched + 1 \in 0..MaxFetches
    BY <1>2, <1>3, CacheAssumption DEF AnswerData
  <2>3. x \in Cell /\ x.due = "later" /\ Refresh(q, was, x.value)
    BY <1>2, <2>2 DEF Cell, Value, Refresh
  <2> QED
    BY <1>1, <2>1, <2>3
<1>4. CASE AnswerEmpty(c)
  <2> DEFINE v == Preserved(was)
             x == [value |-> v, due |-> "later", error |-> FALSE]
  <2>1. cells' = [cells EXCEPT ![calls[c].cell] = x] /\ q \notin FeatureLists
    BY <1>4 DEF AnswerEmpty
  <2>2. v \in Value /\ v.data = was.data /\ (v.data # 0 => v.stale)
    BY <1>2 DEF Value, Preserved
  <2> HIDE DEF v
  <2>3. x \in Cell /\ x.due = "later" /\ Refresh(q, was, x.value)
    BY <2>1, <2>2 DEF Cell, Refresh
  <2> QED
    BY <1>1, <2>1, <2>3
<1>5. CASE AnswerError(c)
  <2> DEFINE v == MarkedStale(q, was)
             x == [value |-> v, due |-> "later", error |-> TRUE]
  <2>1. cells' = [cells EXCEPT ![calls[c].cell] = x]
    BY <1>5 DEF AnswerError
  <2>2. /\ v \in Value
        /\ q \in FeatureLists => v.data = 0
        /\ q \notin FeatureLists => v.data = was.data /\ (v.data # 0 => v.stale)
    BY <1>2, MarkedValue
  <2> HIDE DEF v
  <2>3. x \in Cell /\ x.due = "later" /\ Refresh(q, was, x.value)
    BY <2>2 DEF Cell, Refresh
  <2> QED
    BY <1>1, <2>1, <2>3
<1> QED
  BY <1>1, <1>3, <1>4, <1>5 DEF Answer, Owns, OfCell

LEMMA SuccessStep == IInv /\ [Next]_vars => KeepsSuccess
<1> SUFFICES ASSUME IInv, [Next]_vars, NEW r \in DOMAIN entries, entries[r] = entries'[r]
             PROVE  IF Refreshed(entries[r])
                    THEN Refresh(r, cells[entries[r]].value, cells'[entries[r]].value)
                    ELSE cells'[entries[r]].value = cells[entries[r]].value
  BY DEF KeepsSuccess
<1> DEFINE k == entries[r]
<1>1. k \in CellIds /\ k \in InUse /\ cells \in [CellIds -> Cell]
  BY DEF IInv, Types, InUse
<1>2. CASE cells' = cells
  BY <1>2 DEF Refreshed
<1>3. CASE cells'[k] = cells[k]
  BY <1>3 DEF Refreshed
<1>4. ASSUME NEW c \in Callers, NEW q \in Requests, Lookup(c, q), cells' # cells
      PROVE  cells'[k] = cells[k]
  <2>1. q \notin DOMAIN entries /\ cells' = [cells EXCEPT ![UnusedCell] = EmptyCell]
    BY <1>4 DEF Lookup
  <2>2. UnusedCell \notin InUse
    BY <1>4, <2>1, UnusedCellExists DEF Lookup, IInv
  <2> QED
    BY <1>1, <2>1, <2>2
<1>5. ASSUME NEW c \in Callers, Answer(c), cells' # cells, cells'[k] # cells[k]
      PROVE  Refreshed(k) /\ Refresh(r, cells[k].value, cells'[k].value)
  <2>1. PICK x \in Cell :
          /\ cells' = [cells EXCEPT ![calls[c].cell] = x]
          /\ x.due = "later"
          /\ Refresh(calls[c].request, cells[calls[c].cell].value, x.value)
    BY <1>5, AnswerRefreshes
  <2>2. Owns(c)
    BY <1>5, AnswerRefreshes
  <2>3. k = calls[c].cell /\ cells'[k] = x
    BY <1>1, <1>5, <2>1
  <2>4. calls[c].request = r
    BY <2>2, <2>3 DEF IInv, HeldIsEntry, EntriesApart, Owns
  <2>5. cells[k].due # "later"
    BY <2>2, <2>3 DEF IInv, OwnersAreDue
  <2> QED
    BY <2>1, <2>3, <2>4, <2>5 DEF Refreshed
<1>6. ASSUME NEW q \in Requests, DueElapses(q)
      PROVE  cells'[k].value = cells[k].value /\ ~Refreshed(k)
  <2>1. cells' = [cells EXCEPT ![entries[q]] = [cells[entries[q]] EXCEPT !.due = "reached"]]
    BY <1>6 DEF DueElapses
  <2>2. \/ cells'[k] = cells[k]
        \/ cells'[k] = [cells[k] EXCEPT !.due = "reached"]
    BY <1>1, <2>1
  <2>3. cells[k] \in Cell
    BY <1>1
  <2>4. cells'[k].value = cells[k].value
    BY <2>2, <2>3 DEF Cell
  <2>5. cells'[k].due \in {cells[k].due, "reached"}
    BY <2>2, <2>3 DEF Cell
  <2> QED
    BY <2>4, <2>5 DEF Refreshed
<1> QED
  BY <1>2, <1>3, <1>4, <1>5, <1>6
     DEF Next, vars, Refused, AskDue, CallService, LockCell, TakePermit, ReadDue, Cancel, Stop

\* Who holds a cell, its lock and a permit agrees with where each call is, and
\* the owner of a cell in the map works on a due entry (resources.rs, request).
THEOREM CacheInvariant == Spec => []IInv
BY IInvInit, IInvNext, PTL DEF Spec

-----------------------------------------------------------------------------
\* Every variable stays in its type (resources.rs, the maps and cells).
THEOREM TypeCorrect == Spec => []TypeOK
<1>1. IInv => TypeOK
  BY DEF IInv, Types, TypeOK, Call, Cell
<1> QED
  BY <1>1, CacheInvariant, PTL

\* One flight per request (request in resources.rs): eviction and dropped
\* calls never let a second call of a request to the provider.
THEOREM OneFlight == Spec => []SingleFlight
<1>1. IInv => SingleFlight
  <2> SUFFICES ASSUME IInv, NEW c \in Callers, NEW d \in Callers,
                      {calls[c].phase, calls[d].phase} \subseteq {"permit", "fetching"},
                      calls[c].request = calls[d].request, calls[c].request # Service
               PROVE  c = d
    BY DEF SingleFlight
  <2>1. Owns(c) /\ Owns(d)
    BY DEF Owns, OfCell, Working
  <2>2. calls[c].cell = calls[d].cell
    BY <2>1 DEF IInv, HeldIsEntry, Owns
  <2> QED
    BY <2>1, <2>2 DEF IInv, LockIsExclusive
<1> QED
  BY <1>1, CacheInvariant, PTL

\* A call goes to the provider only for the entry in the map, and only while
\* it is due: the due time is read under the cell's lock (resources.rs:148).
THEOREM DueIsFetched == Spec => []OnlyDueIsFetched
<1>1. IInv => OnlyDueIsFetched
  BY DEF IInv, HeldIsEntry, OwnersAreDue, Owns, OfCell, Working, OnlyDueIsFetched
<1> QED
  BY <1>1, CacheInvariant, PTL

\* The last success of an entry outlives failures and empty answers, marked
\* stale, and a feature list that could not be refreshed offers nothing, until
\* newer data come (resources.rs:184, preserve_last_success, mark_stale).
THEOREM SuccessKept == Spec => LastSuccessKept
<1>1. LastSuccessKept <=> [][KeepsSuccess]_vars
  BY DEF LastSuccessKept, KeepsSuccess
<1> QED
  BY <1>1, CacheInvariant, SuccessStep, PTL DEF Spec
=============================================================================
