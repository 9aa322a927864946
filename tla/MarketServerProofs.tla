------------------------- MODULE MarketServerProofs -------------------------
(***************************************************************************)
(* Theorems about the cache of the market service, for any clients,        *)
(* resources and limits: a call that waits for an entry's lock or loads    *)
(* keeps the entry in the map, so whoever asks for the resource meanwhile  *)
(* gets in line behind it.                                                 *)
(***************************************************************************)
EXTENDS MarketServer, FiniteSetTheorems, SequenceTheorems, TLAPS

Outside == {"idle", "keys", "fetching", "lookup"}

Inside == {"locking", "loading"}

Call == [phase : Outside \cup Inside \cup {"trimming"}, of : Requests \cup {None},
         slot : SlotIds \cup {None}, stage : Nat, failed : SUBSET Hosts,
         denied : BOOLEAN, retried : BOOLEAN, first : BOOLEAN]

Slot == [queue : Seq(Clients), data : BOOLEAN, fresh : BOOLEAN]

Types ==
    /\ setup \in Setups
    /\ calls \in [Clients -> Call]
    /\ entries \in [Requests -> SlotIds \cup {None}]
    /\ slots \in [SlotIds -> Slot]

\* A call has no slot before it has looked up its entry.
SlotsAreLookedUp ==
    \A c \in Clients : calls[c].phase \in Outside =>
        /\ calls[c].slot = None
        /\ calls[c].phase # "idle" => calls[c].of \in Requests

\* A call inside works on the entry that the map has for its resource.
HeldIsEntry ==
    \A c \in Clients : calls[c].phase \in Inside =>
        /\ calls[c].of \in Requests /\ calls[c].slot \in SlotIds
        /\ entries[calls[c].of] = calls[c].slot

\* The lock of a slot is asked for by calls that are inside with it, once each.
LinesAreInside ==
    \A s \in SlotIds :
        /\ IsInjective(slots[s].queue)
        /\ \A i \in DOMAIN slots[s].queue :
              /\ calls[slots[s].queue[i]].phase \in Inside
              /\ calls[slots[s].queue[i]].slot = s

LoadersOwn ==
    \A c \in Clients : InPhase(c, "loading") => Holds(slots[calls[c].slot].queue, c)

WithinEntries == Cardinality(Cached) <= setup.entries

CacheInv ==
    /\ Types /\ SlotsAreLookedUp /\ HeldIsEntry /\ LinesAreInside /\ LoadersOwn
    /\ WithinEntries

-----------------------------------------------------------------------------
(* What a queue is when somebody has left it.                                *)

Left(queue, rest, c) ==
    /\ rest \in Seq(Clients) /\ IsInjective(rest)
    /\ \A i \in DOMAIN rest : rest[i] # c /\ \E j \in DOMAIN queue : queue[j] = rest[i]
    /\ queue # <<>> /\ Head(queue) # c => rest # <<>> /\ Head(rest) = Head(queue)

LEMMA TailLeaves ==
  ASSUME NEW queue \in Seq(Clients), IsInjective(queue), NEW c, Holds(queue, c)
  PROVE  Left(queue, Tail(queue), c)
<1> DEFINE rest == Tail(queue)
<1>1. /\ queue # <<>> /\ Head(queue) = c /\ queue[1] = c
      /\ rest \in Seq(Clients) /\ Len(rest) = Len(queue) - 1
      /\ \A i \in 1..Len(rest) : rest[i] = queue[i + 1] /\ i + 1 \in 1..Len(queue)
      /\ Len(queue) \in Nat \ {0} /\ DOMAIN rest = 1..Len(rest)
      /\ DOMAIN queue = 1..Len(queue)
  BY DEF Holds
<1> HIDE DEF rest
<1>2. \A i, j \in 1..Len(queue) : queue[i] = queue[j] => i = j
  BY <1>1 DEF IsInjective
<1>3. IsInjective(rest)
  <2> SUFFICES ASSUME NEW i \in 1..Len(rest), NEW j \in 1..Len(rest), rest[i] = rest[j]
               PROVE  i = j
    BY <1>1 DEF IsInjective
  <2>1. i + 1 = j + 1
    BY <1>1, <1>2
  <2> QED
    BY <2>1
<1>4. ASSUME NEW i \in 1..Len(rest)
      PROVE  rest[i] # c /\ \E j \in DOMAIN queue : queue[j] = rest[i]
  <2>1. rest[i] = queue[i + 1] /\ i + 1 \in 1..Len(queue) /\ i + 1 # 1 /\ 1 \in 1..Len(queue)
    BY <1>1
  <2> QED
    BY <2>1, <1>1, <1>2
<1> QED
  BY <1>1, <1>3, <1>4 DEF Left, rest

LEMMA WithoutLeaves ==
  ASSUME NEW queue \in Seq(Clients), IsInjective(queue), NEW c
  PROVE  Left(queue, Without(queue, c), c)
<1> DEFINE n == Len(queue)
<1>0. n \in Nat /\ DOMAIN queue = 1..n /\ \A i, j \in 1..n : queue[i] = queue[j] => i = j
  BY DEF IsInjective
<1>1. CASE ~\E i \in DOMAIN queue : queue[i] = c
  BY <1>1, <1>0 DEF Without, Left
<1>2. CASE \E i \in DOMAIN queue : queue[i] = c
  <2> DEFINE k == CHOOSE i \in DOMAIN queue : queue[i] = c
             front == SubSeq(queue, 1, k - 1)
             back == SubSeq(queue, k + 1, n)
             rest == front \o back
  <2>1. k \in 1..n /\ queue[k] = c
    BY <1>2, <1>0
  <2>2. rest = Without(queue, c)
    BY <1>2 DEF Without, RemoveAt
  <2> HIDE DEF k
  <2>3. /\ front \in Seq(Clients) /\ Len(front) = k - 1
        /\ \A i \in 1..(k - 1) : front[i] = queue[i]
    BY <2>1, <1>0
  <2>4. /\ back \in Seq(Clients) /\ Len(back) = n - k
        /\ \A i \in 1..(n - k) : back[i] = queue[i + k]
    <3>1. /\ k \in 1..n /\ n \in Nat /\ \A i \in (k + 1)..n : queue[i] \in Clients
          /\ back = SubSeq(queue, k + 1, n)
      BY <2>1, <1>0
    <3> HIDE DEF n, back
    <3>2. /\ back \in Seq(Clients)
          /\ Len(back) = IF k + 1 <= n THEN n - (k + 1) + 1 ELSE 0
          /\ \A i \in 1..(n - (k + 1) + 1) : back[i] = queue[(k + 1) + i - 1]
      BY <3>1, SubSeqProperties
    <3>3. Len(back) = n - k /\ n - (k + 1) + 1 = n - k
      BY <3>1, <3>2
    <3>4. \A i \in 1..(n - k) : (k + 1) + i - 1 = i + k
      BY <3>1
    <3> QED
      BY <3>2, <3>3, <3>4
  <2> HIDE DEF front, back
  <2>5. /\ rest \in Seq(Clients) /\ Len(rest) = n - 1 /\ DOMAIN rest = 1..(n - 1)
        /\ \A i \in 1..(n - 1) : rest[i] = IF i < k THEN queue[i] ELSE queue[i + 1]
    <3>1. k \in Nat /\ k - 1 \in Nat /\ n - k \in Nat
      BY <2>1, <1>0
    <3>2. /\ front \o back \in Seq(Clients)
          /\ Len(front \o back) = Len(front) + Len(back)
          /\ \A i \in 1..(Len(front) + Len(back)) : (front \o back)[i] =
                IF i <= Len(front) THEN front[i] ELSE back[i - Len(front)]
      BY <2>3, <2>4, ConcatProperties
    <3>3. /\ rest \in Seq(Clients) /\ Len(rest) = (k - 1) + (n - k)
          /\ \A i \in 1..((k - 1) + (n - k)) :
                rest[i] = IF i <= k - 1 THEN front[i] ELSE back[i - (k - 1)]
      BY <3>2, <2>3, <2>4
    <3>4. (k - 1) + (n - k) = n - 1
      BY <3>1, <1>0
    <3> HIDE DEF rest, n
    <3>5. ASSUME NEW i \in 1..(n - 1)
          PROVE  rest[i] = IF i < k THEN queue[i] ELSE queue[i + 1]
      <4>1. CASE i < k
        BY <4>1, <3>1, <3>3, <3>4, <2>3, <1>0
      <4>2. CASE ~(i < k)
        <5>1. i - (k - 1) \in 1..(n - k) /\ i - (k - 1) + k = i + 1 /\ ~(i <= k - 1)
          BY <4>2, <3>1, <1>0
        <5> QED
          BY <4>2, <5>1, <3>3, <3>4, <2>4
      <4> QED
        BY <4>1, <4>2
    <3> QED
      BY <3>3, <3>4, <3>5, <1>0
  <2> HIDE DEF rest, n
  <2> DEFINE at(i) == IF i < k THEN i ELSE i + 1
  <2>6. \A i \in 1..(n - 1) : at(i) \in 1..n /\ at(i) # k /\ rest[i] = queue[at(i)]
    BY <2>1, <2>5, <1>0
  <2>7. \A i, j \in 1..(n - 1) : at(i) = at(j) => i = j
    BY <1>0, <2>1
  <2> HIDE DEF at
  <2>8. IsInjective(rest)
    BY <2>5, <2>6, <2>7, <1>0 DEF IsInjective
  <2>9. \A i \in DOMAIN rest : rest[i] # c /\ \E j \in DOMAIN queue : queue[j] = rest[i]
    BY <2>1, <2>5, <2>6, <1>0
  <2>10. ASSUME queue # <<>>, Head(queue) # c
         PROVE  rest # <<>> /\ Head(rest) = Head(queue)
    <3>1. Head(queue) = queue[1] /\ k # 1
      BY <2>10, <2>1
    <3>2. k > 1 /\ n - 1 >= 1
      BY <3>1, <2>1, <1>0
    <3>3. rest[1] = queue[1] /\ rest # <<>>
      BY <3>2, <2>5, <1>0, <2>1
    <3> QED
      BY <3>1, <3>3
  <2> QED
    BY <2>2, <2>5, <2>8, <2>9, <2>10 DEF Left
<1> QED
  BY <1>1, <1>2

\* Who is not in a line leaves it as it is.
LEMMA AbsentLeaves ==
  ASSUME NEW queue \in Seq(Clients), IsInjective(queue), NEW c,
         \A i \in DOMAIN queue : queue[i] # c
  PROVE  Left(queue, queue, c)
BY DEF Left

-----------------------------------------------------------------------------
(* What the steps of a call do to the cache.                                 *)

SameCall(c) ==
    /\ calls'[c].phase = calls[c].phase
    /\ calls'[c].of = calls[c].of /\ calls'[c].slot = calls[c].slot

LEMMA HeadIsIn ==
  ASSUME NEW queue \in Seq(Clients), NEW c, Holds(queue, c)
  PROVE  1 \in DOMAIN queue /\ queue[1] = c
BY DEF Holds

\* A call goes on without the lock of an entry, or with the one it owns.
LEMMA GoesOn ==
  ASSUME CacheInv, Types', UNCHANGED <<setup, entries>>, NEW c,
         \A s \in SlotIds : slots'[s].queue = slots[s].queue,
         \A d \in Clients \ {c} : SameCall(d),
         \/ SameCall(c)
         \/ /\ Owns(c) /\ calls'[c].phase = "loading"
            /\ calls'[c].of = calls[c].of /\ calls'[c].slot = calls[c].slot
         \/ /\ calls[c].phase \notin Inside /\ calls'[c].phase \in Outside
            /\ calls'[c].slot = None
            /\ calls'[c].phase # "idle" => calls'[c].of \in Requests
  PROVE  CacheInv'
<1>1. SlotsAreLookedUp'
  BY DEF CacheInv, SlotsAreLookedUp, SameCall, Outside, Inside
<1>2. \A d \in Clients : calls'[d].phase \in Inside =>
         /\ calls[d].phase \in Inside
         /\ calls'[d].of = calls[d].of /\ calls'[d].slot = calls[d].slot
  BY DEF SameCall, Owns, InPhase, Outside, Inside
<1>3. \A d \in Clients : calls[d].phase \in Inside =>
         calls'[d].phase \in Inside /\ calls'[d].slot = calls[d].slot
  BY DEF SameCall, Owns, InPhase, Outside, Inside
<1>4. HeldIsEntry'
  BY <1>2 DEF CacheInv, HeldIsEntry
<1>5. LinesAreInside'
  <2>1. \A s \in SlotIds : slots[s].queue \in Seq(Clients)
    BY DEF CacheInv, Types, Slot
  <2>2. \A s \in SlotIds : \A i \in DOMAIN slots[s].queue : slots[s].queue[i] \in Clients
    BY <2>1
  <2> QED
    BY <2>2, <1>3 DEF CacheInv, LinesAreInside
<1>6. LoadersOwn'
  <2> SUFFICES ASSUME NEW d \in Clients, calls'[d].phase = "loading"
               PROVE  Holds(slots'[calls'[d].slot].queue, d)
    BY DEF LoadersOwn, InPhase
  <2>1. calls[d].phase \in Inside /\ calls'[d].slot = calls[d].slot
    BY <1>2 DEF Inside
  <2>2. calls[d].slot \in SlotIds
    BY <2>1 DEF CacheInv, HeldIsEntry
  <2>3. Holds(slots[calls[d].slot].queue, d)
    BY <2>1 DEF CacheInv, LoadersOwn, InPhase, SameCall, Owns, Outside, Inside
  <2> QED
    BY <2>1, <2>2, <2>3
<1>7. WithinEntries'
  BY DEF CacheInv, WithinEntries, Cached
<1> QED
  BY <1>1, <1>4, <1>5, <1>6, <1>7 DEF CacheInv

\* A call gives up the lock of its entry, or its place in the line.
LEMMA GoesAway ==
  ASSUME CacheInv, Types', UNCHANGED <<setup, entries>>, NEW c \in Clients,
         \A s \in SlotIds : Left(slots[s].queue, slots'[s].queue, c),
         \A d \in Clients \ {c} : SameCall(d),
         \/ calls'[c].phase = "idle" /\ calls'[c].slot = None
         \/ calls'[c].phase = "trimming"
  PROVE  CacheInv'
<1>1. SlotsAreLookedUp'
  BY DEF CacheInv, SlotsAreLookedUp, SameCall, Outside
<1>2. HeldIsEntry'
  BY DEF CacheInv, HeldIsEntry, SameCall, Inside
<1>3. LinesAreInside'
  <2> SUFFICES ASSUME NEW s \in SlotIds
               PROVE  /\ IsInjective(slots'[s].queue)
                      /\ \A i \in DOMAIN slots'[s].queue :
                            /\ calls'[slots'[s].queue[i]].phase \in Inside
                            /\ calls'[slots'[s].queue[i]].slot = s
    BY DEF LinesAreInside
  <2>1. slots[s].queue \in Seq(Clients) /\ Left(slots[s].queue, slots'[s].queue, c)
    BY DEF CacheInv, Types, Slot
  <2>2. ASSUME NEW i \in DOMAIN slots'[s].queue
        PROVE  /\ calls'[slots'[s].queue[i]].phase \in Inside
               /\ calls'[slots'[s].queue[i]].slot = s
    <3>1. PICK j \in DOMAIN slots[s].queue : slots[s].queue[j] = slots'[s].queue[i]
      BY <2>1 DEF Left
    <3>2. slots[s].queue[j] \in Clients \ {c}
      BY <2>1, <3>1 DEF Left
    <3>3. calls[slots[s].queue[j]].phase \in Inside /\ calls[slots[s].queue[j]].slot = s
      BY <3>1 DEF CacheInv, LinesAreInside
    <3> QED
      BY <3>1, <3>2, <3>3 DEF SameCall
  <2> QED
    BY <2>1, <2>2 DEF Left
<1>4. LoadersOwn'
  <2> SUFFICES ASSUME NEW d \in Clients, calls'[d].phase = "loading"
               PROVE  Holds(slots'[calls'[d].slot].queue, d)
    BY DEF LoadersOwn, InPhase
  <2>1. d # c /\ calls[d].phase = "loading" /\ calls'[d].slot = calls[d].slot
    BY DEF SameCall
  <2>2. calls[d].slot \in SlotIds /\ Holds(slots[calls[d].slot].queue, d)
    BY <2>1 DEF CacheInv, HeldIsEntry, LoadersOwn, InPhase, Inside
  <2> QED
    BY <2>1, <2>2 DEF Left, Holds
<1>5. WithinEntries'
  BY DEF CacheInv, WithinEntries, Cached
<1> QED
  BY <1>1, <1>2, <1>3, <1>4, <1>5 DEF CacheInv

\* Only entries that no call holds are removed, and nobody waits for those.
LEMMA RemovedSlots ==
  ASSUME CacheInv, NEW R \in SUBSET Idle
  PROVE  /\ Removed(R) \in [SlotIds -> Slot]
         /\ \A s \in SlotIds : Removed(R)[s].queue = slots[s].queue
         /\ \A c \in Clients : calls[c].phase \in Inside => calls[c].of \notin R
<1>1. ASSUME NEW s \in SlotIds, ~InUse(s)
      PROVE  slots[s].queue = <<>>
  <2>1. slots[s].queue \in Seq(Clients)
    BY DEF CacheInv, Types, Slot
  <2>2. SUFFICES ASSUME slots[s].queue # <<>> PROVE FALSE
    OBVIOUS
  <2>3. 1 \in DOMAIN slots[s].queue /\ slots[s].queue[1] \in Clients
    BY <2>1, <2>2
  <2> QED
    BY <2>3, <1>1 DEF CacheInv, LinesAreInside, InUse
<1>2. Unused \in Slot /\ Unused.queue = <<>>
  BY DEF Unused, Slot
<1>3. \A s \in SlotIds : Removed(R)[s] \in Slot /\ Removed(R)[s].queue = slots[s].queue
  BY <1>1, <1>2 DEF Removed, CacheInv, Types
<1>4. \A c \in Clients : calls[c].phase \in Inside => calls[c].of \notin R
  BY DEF CacheInv, HeldIsEntry, Idle, InUse
<1> QED
  BY <1>3, <1>4 DEF Removed

-----------------------------------------------------------------------------
(* There is always a slot for one more entry.                                *)

LEMMA ImageSize ==
  ASSUME NEW S, IsFiniteSet(S), NEW f
  PROVE  /\ IsFiniteSet({f[x] : x \in S})
         /\ Cardinality({f[x] : x \in S}) <= Cardinality(S)
<1> DEFINE T == {f[x] : x \in S}
           g == [x \in S |-> f[x]]
<1>1. g \in Surjection(S, T)
  BY DEF Surjection
<1> HIDE DEF g, T
<1>2. IsFiniteSet(T) /\ Cardinality(T) <= Cardinality(S)
  BY <1>1, FS_Surjection
<1> QED
  BY <1>2 DEF T

LEMMA FiniteCached == IsFiniteSet(Cached) /\ Cardinality(Cached) \in Nat
<1>1. IsFiniteSet(Requests) /\ Cached \in SUBSET Requests
  BY ServerAssumption DEF Cached
<1>2. IsFiniteSet(Cached)
  BY <1>1, FS_Subset
<1> QED
  BY <1>2, FS_CardinalityType

LEMMA FreeExists ==
  ASSUME CacheInv, NEW c \in Clients, calls[c].slot = None
  PROVE  Free \in SlotIds /\ Free \notin Range(entries) /\ ~InUse(Free)
<1> DEFINE E == {entries[r] : r \in Cached}
           others == Clients \ {c}
           slotOf == [d \in Clients |-> calls[d].slot]
           U == {slotOf[d] : d \in others}
           n == Cardinality(Clients)
<1>1. IsFiniteSet(Clients) /\ IsFiniteSet(others) /\ n \in Nat /\ Cardinality(others) = n - 1
  BY ServerAssumption, FS_RemoveElement, FS_CardinalityType
<1>2. /\ IsFiniteSet(Cached) /\ Cardinality(Cached) \in Nat
      /\ MaxEntries \in Nat /\ Cardinality(Cached) <= MaxEntries
  BY FiniteCached, ServerAssumption DEF CacheInv, Types, WithinEntries
<1>3. IsFiniteSet(E) /\ Cardinality(E) <= Cardinality(Cached)
  BY <1>2, ImageSize
<1>4. IsFiniteSet(U) /\ Cardinality(U) <= n - 1
  <2> HIDE DEF slotOf, others
  <2> QED
    BY <1>1, ImageSize
<1> HIDE DEF E, U
<1>5. /\ Cardinality(E) \in Nat /\ Cardinality(U) \in Nat
      /\ IsFiniteSet(E \cup U)
      /\ Cardinality(E \cup U) <= Cardinality(E) + Cardinality(U)
  <2>1. /\ IsFiniteSet(E \cap U) /\ Cardinality(E \cap U) \in Nat
        /\ Cardinality(E) \in Nat /\ Cardinality(U) \in Nat
    <3>1. E \cap U \in SUBSET E
      OBVIOUS
    <3> QED
      BY <1>3, <1>4, <3>1, FS_Subset, FS_CardinalityType
  <2>2. /\ IsFiniteSet(E \cup U)
        /\ Cardinality(E \cup U) = Cardinality(E) + Cardinality(U) - Cardinality(E \cap U)
    BY <1>3, <1>4, FS_Union
  <2> QED
    BY <2>1, <2>2
<1>6. Cardinality(SlotIds) = MaxEntries + n /\ IsFiniteSet(SlotIds)
  <2>1. MaxEntries + n \in Nat
    BY <1>1, <1>2
  <2> QED
    BY <2>1, FS_Interval DEF SlotIds
<1>7. PICK s \in SlotIds : s \notin E \cup U
  <2> SUFFICES ASSUME SlotIds \subseteq E \cup U PROVE FALSE
    OBVIOUS
  <2>1. Cardinality(SlotIds) <= Cardinality(E \cup U)
    BY <1>5, FS_Subset
  <2>2. \A a, b, m, k, e, u \in Nat :
           a <= m /\ b <= k - 1 /\ m <= e /\ u <= a + b => u < e + k
    OBVIOUS
  <2>3. Cardinality(E \cup U) \in Nat
    BY <1>5, FS_CardinalityType
  <2>4. Cardinality(E \cup U) < MaxEntries + n
    BY <1>1, <1>2, <1>3, <1>4, <1>5, <2>2, <2>3
  <2> QED
    BY <2>1, <2>3, <2>4, <1>6, <1>1, <1>2
<1>8. s \notin Range(entries) /\ ~InUse(s)
  <2>1. None \notin SlotIds
    BY ServerAssumption, <1>1, <1>2 DEF SlotIds
  <2>2. DOMAIN entries = Requests
    BY DEF CacheInv, Types
  <2>3. s \notin Range(entries)
    BY <1>7, <2>1, <2>2 DEF E, Range, Cached
  <2>4. ~InUse(s)
    BY <1>7, <2>1 DEF U, InUse
  <2> QED
    BY <2>3, <2>4
<1> QED
  BY <1>8 DEF Free

-----------------------------------------------------------------------------
(* Looking up an entry and trimming the cache: the map itself changes.       *)

LEMMA AppendLine ==
  ASSUME NEW queue \in Seq(Clients), IsInjective(queue), NEW c \in Clients,
         \A i \in DOMAIN queue : queue[i] # c
  PROVE  /\ Append(queue, c) \in Seq(Clients) /\ IsInjective(Append(queue, c))
         /\ \A i \in DOMAIN Append(queue, c) :
               Append(queue, c)[i] = c \/ \E j \in DOMAIN queue : queue[j] = Append(queue, c)[i]
         /\ queue # <<>> => Append(queue, c) # <<>> /\ Head(Append(queue, c)) = Head(queue)
BY DEF IsInjective

LEMMA EvictableIdle ==
  ASSUME NEW r
  PROVE  Evictable(r) \in SUBSET Idle /\ (HasRoom(r) => Evictable(r) = {})
BY DEF Evictable, Oldest

LEMMA RoomForOne ==
  ASSUME CacheInv, NEW r \in Requests, NEW out \in SUBSET Cached,
         HasRoom(r) => out = {}, HasRoom(r) \/ out # {}
  PROVE  Cardinality((Cached \ out) \cup {r}) <= setup.entries
<1>0. /\ IsFiniteSet(Cached) /\ Cardinality(Cached) \in Nat
      /\ setup.entries \in Nat /\ Cardinality(Cached) <= setup.entries
  BY FiniteCached, ServerAssumption DEF CacheInv, Types, WithinEntries
<1>1. CASE r \in Cached
  <2>1. (Cached \ out) \cup {r} = Cached
    BY <1>1 DEF HasRoom
  <2> QED
    BY <2>1, <1>0
<1>2. CASE r \notin Cached /\ Cardinality(Cached) < setup.entries
  <2>1. (Cached \ out) \cup {r} = Cached \cup {r}
    BY <1>2 DEF HasRoom
  <2>2. Cardinality(Cached \cup {r}) = Cardinality(Cached) + 1
    BY <1>0, <1>2, FS_AddElement
  <2>3. Cardinality((Cached \ out) \cup {r}) = Cardinality(Cached) + 1
    BY <2>1, <2>2
  <2> QED
    BY <2>3, <1>0, <1>2
<1>3. CASE r \notin Cached /\ ~(Cardinality(Cached) < setup.entries)
  <2>1. PICK x \in out : TRUE
    BY <1>3 DEF HasRoom
  <2>2. /\ IsFiniteSet(Cached \ {x}) /\ Cardinality(Cached \ {x}) = Cardinality(Cached) - 1
    BY <2>1, <1>0, FS_RemoveElement
  <2>3. Cached \ out \in SUBSET (Cached \ {x})
    BY <2>1
  <2>4. /\ IsFiniteSet(Cached \ out) /\ Cardinality(Cached \ out) \in Nat
        /\ Cardinality(Cached \ out) <= Cardinality(Cached) - 1
    BY <2>2, <2>3, FS_Subset, FS_CardinalityType
  <2>5. Cardinality((Cached \ out) \cup {r}) = Cardinality(Cached \ out) + 1
    BY <2>4, <1>3, FS_AddElement
  <2> QED
    BY <2>4, <2>5, <1>0
<1> QED
  BY <1>1, <1>2, <1>3

LEMMA LookupKeeps ==
  ASSUME CacheInv, NEW c \in Clients, Lookup(c)
  PROVE  CacheInv'
<1> DEFINE r == calls[c].of
           out == Evictable(r)
           s == IF r \in Cached THEN entries[r] ELSE Free
           removed == Removed(out)
<1>1. /\ calls[c] \in Call /\ calls[c].phase = "lookup" /\ calls[c].slot = None
      /\ r \in Requests
  BY DEF CacheInv, Types, SlotsAreLookedUp, Lookup, InPhase, Outside
<1>2. out \in SUBSET Idle /\ out \in SUBSET Cached /\ (HasRoom(r) => out = {})
  BY EvictableIdle DEF Idle
<1>3. s \in SlotIds
  BY <1>1, FreeExists DEF CacheInv, Types, Cached
<1>4. /\ removed \in [SlotIds -> Slot]
      /\ \A t \in SlotIds : removed[t].queue = slots[t].queue
      /\ \A d \in Clients : calls[d].phase \in Inside => calls[d].of \notin out
  BY <1>2, RemovedSlots
<1>5. /\ HasRoom(r) \/ out # {}
      /\ entries' = [q \in Requests |-> IF q = r THEN s
                                       ELSE IF q \in out THEN None ELSE entries[q]]
      /\ slots' = [removed EXCEPT ![s].queue = Append(@, c)]
      /\ calls' = [calls EXCEPT ![c].phase = "locking", ![c].slot = s]
      /\ setup' = setup
  BY DEF Lookup
<1> HIDE DEF out, s, removed
<1>6. /\ calls'[c].phase = "locking" /\ calls'[c].of = r /\ calls'[c].slot = s
      /\ calls'[c] \in Call
      /\ \A d \in Clients \ {c} : calls'[d] = calls[d]
      /\ calls' \in [Clients -> Call]
  <2>1. calls' = [calls EXCEPT ![c] = [calls[c] EXCEPT !.phase = "locking", !.slot = s]]
    BY <1>5
  <2> DEFINE call == [calls[c] EXCEPT !.phase = "locking", !.slot = s]
  <2>2. call \in Call /\ call.phase = "locking" /\ call.of = r /\ call.slot = s
    BY <1>1, <1>3 DEF Call, Inside
  <2> HIDE DEF call
  <2> QED
    BY <2>1, <2>2 DEF CacheInv, Types, call
<1>7. /\ slots'[s].queue = Append(slots[s].queue, c)
      /\ \A t \in SlotIds \ {s} : slots'[t].queue = slots[t].queue
  BY <1>3, <1>4, <1>5 DEF Slot
<1>8. \A t \in SlotIds : slots[t].queue \in Seq(Clients) /\ IsInjective(slots[t].queue)
                         /\ \A i \in DOMAIN slots[t].queue : slots[t].queue[i] \in Clients \ {c}
  <2>1. \A t \in SlotIds : slots[t].queue \in Seq(Clients)
    BY DEF CacheInv, Types, Slot
  <2> QED
    BY <2>1, <1>1 DEF CacheInv, LinesAreInside, Inside
<1>9. /\ slots'[s].queue \in Seq(Clients) /\ IsInjective(slots'[s].queue)
      /\ \A i \in DOMAIN slots'[s].queue :
            slots'[s].queue[i] = c
            \/ \E j \in DOMAIN slots[s].queue : slots[s].queue[j] = slots'[s].queue[i]
      /\ slots[s].queue # <<>> => /\ slots'[s].queue # <<>>
                                  /\ Head(slots'[s].queue) = Head(slots[s].queue)
  BY <1>3, <1>7, <1>8, AppendLine
<1>10. Types'
  <2>1. entries' \in [Requests -> SlotIds \cup {None}]
    BY <1>3, <1>5 DEF CacheInv, Types
  <2>2. slots' \in [SlotIds -> Slot]
    <3>1. removed[s] \in Slot /\ [removed[s] EXCEPT !.queue = Append(@, c)] \in Slot
      <4>1. removed[s] \in Slot /\ Append(removed[s].queue, c) \in Seq(Clients)
        BY <1>3, <1>4, <1>8
      <4> QED
        BY <4>1 DEF Slot
    <3> QED
      BY <3>1, <1>3, <1>4, <1>5
  <2> QED
    BY <2>1, <2>2, <1>5, <1>6 DEF CacheInv, Types
<1>11. SlotsAreLookedUp'
  BY <1>6 DEF CacheInv, SlotsAreLookedUp, Outside
<1>12. HeldIsEntry'
  <2> SUFFICES ASSUME NEW d \in Clients, calls'[d].phase \in Inside
               PROVE  /\ calls'[d].of \in Requests /\ calls'[d].slot \in SlotIds
                      /\ entries'[calls'[d].of] = calls'[d].slot
    BY DEF HeldIsEntry
  <2>1. CASE d = c
    BY <2>1, <1>1, <1>3, <1>5, <1>6
  <2>2. CASE d # c
    <3>1. /\ calls'[d] = calls[d] /\ calls[d].of \in Requests /\ calls[d].slot \in SlotIds
          /\ entries[calls[d].of] = calls[d].slot /\ calls[d].of \notin out
      BY <2>2, <1>4, <1>6 DEF CacheInv, HeldIsEntry
    <3>2. None \notin SlotIds
      BY ServerAssumption, FS_CardinalityType DEF SlotIds
    <3>3. calls[d].of \in Cached
      BY <3>1, <3>2 DEF Cached
    <3> QED
      BY <3>1, <3>3, <1>5 DEF s
  <2> QED
    BY <2>1, <2>2
<1>13. LinesAreInside'
  <2> SUFFICES ASSUME NEW t \in SlotIds
               PROVE  /\ IsInjective(slots'[t].queue)
                      /\ \A i \in DOMAIN slots'[t].queue :
                            /\ calls'[slots'[t].queue[i]].phase \in Inside
                            /\ calls'[slots'[t].queue[i]].slot = t
    BY DEF LinesAreInside
  <2>1. \A i \in DOMAIN slots[t].queue :
           /\ calls'[slots[t].queue[i]].phase \in Inside
           /\ calls'[slots[t].queue[i]].slot = t
    BY <1>6, <1>8 DEF CacheInv, LinesAreInside
  <2>2. CASE t # s
    BY <2>1, <2>2, <1>7, <1>8
  <2>3. CASE t = s
    <3>1. calls'[c].phase \in Inside /\ calls'[c].slot = s
      BY <1>6 DEF Inside
    <3> QED
      BY <2>1, <2>3, <3>1, <1>9
  <2> QED
    BY <2>2, <2>3
<1>14. LoadersOwn'
  <2> SUFFICES ASSUME NEW d \in Clients, calls'[d].phase = "loading"
               PROVE  Holds(slots'[calls'[d].slot].queue, d)
    BY DEF LoadersOwn, InPhase
  <2>1. d # c /\ calls'[d] = calls[d]
    BY <1>6
  <2>2. calls[d].slot \in SlotIds /\ Holds(slots[calls[d].slot].queue, d)
    BY <2>1 DEF CacheInv, HeldIsEntry, LoadersOwn, InPhase, Inside
  <2> QED
    BY <2>1, <2>2, <1>7, <1>9 DEF Holds
<1>15. WithinEntries'
  <2>1. Cached' = (Cached \ out) \cup {r}
    <3>1. None \notin SlotIds
      BY ServerAssumption, FS_CardinalityType DEF SlotIds
    <3> QED
      BY <3>1, <1>1, <1>2, <1>3, <1>5 DEF Cached
  <2>2. Cardinality((Cached \ out) \cup {r}) <= setup.entries
    BY <1>1, <1>2, <1>5, RoomForOne
  <2> QED
    BY <2>1, <2>2, <1>5 DEF WithinEntries
<1> QED
  BY <1>10, <1>11, <1>12, <1>13, <1>14, <1>15 DEF CacheInv

LEMMA AwayIsCall == Away \in Call
BY DEF Away, Call, Outside

LEMMA TrimKeeps ==
  ASSUME CacheInv, NEW c \in Clients, Trim(c)
  PROVE  CacheInv'
<1>1. PICK out \in SUBSET Idle :
         /\ entries' = [r \in Requests |-> IF r \in out THEN None ELSE entries[r]]
         /\ slots' = Removed(out)
  BY DEF Trim
<1>2. /\ calls[c].phase = "trimming" /\ calls' = [calls EXCEPT ![c] = Away]
      /\ setup' = setup
  BY DEF Trim, InPhase
<1>3. /\ slots' \in [SlotIds -> Slot]
      /\ \A s \in SlotIds : slots'[s].queue = slots[s].queue
      /\ \A d \in Clients : calls[d].phase \in Inside => calls[d].of \notin out
  BY <1>1, RemovedSlots
<1>4. /\ calls'[c] = Away /\ \A d \in Clients \ {c} : calls'[d] = calls[d]
      /\ calls' \in [Clients -> Call]
  BY <1>2, AwayIsCall DEF CacheInv, Types
<1>5. Types'
  BY <1>1, <1>2, <1>3, <1>4 DEF CacheInv, Types
<1>6. SlotsAreLookedUp'
  BY <1>4 DEF CacheInv, SlotsAreLookedUp, Away
<1>7. HeldIsEntry'
  <2>1. \A d \in Clients : calls'[d].phase \in Inside => d # c
    BY <1>4 DEF Away, Inside
  <2> QED
    BY <2>1, <1>1, <1>3, <1>4 DEF CacheInv, HeldIsEntry
<1>8. LinesAreInside'
  <2>1. \A s \in SlotIds : slots[s].queue \in Seq(Clients)
    BY DEF CacheInv, Types, Slot
  <2>2. \A s \in SlotIds : \A i \in DOMAIN slots[s].queue :
           slots[s].queue[i] \in Clients \ {c}
    BY <2>1, <1>2 DEF CacheInv, LinesAreInside, Inside
  <2> QED
    BY <2>2, <1>3, <1>4 DEF CacheInv, LinesAreInside
<1>9. LoadersOwn'
  <2> SUFFICES ASSUME NEW d \in Clients, calls'[d].phase = "loading"
               PROVE  Holds(slots'[calls'[d].slot].queue, d)
    BY DEF LoadersOwn, InPhase
  <2>1. calls'[d] = calls[d]
    BY <1>4 DEF Away
  <2>2. calls[d].slot \in SlotIds /\ Holds(slots[calls[d].slot].queue, d)
    BY <2>1 DEF CacheInv, HeldIsEntry, LoadersOwn, InPhase, Inside
  <2> QED
    BY <2>1, <2>2, <1>3
<1>10. WithinEntries'
  <2>1. Cached' \in SUBSET Cached
    BY <1>1 DEF Cached
  <2>2. Cardinality(Cached') <= Cardinality(Cached) /\ Cardinality(Cached') \in Nat
    BY <2>1, FiniteCached, FS_Subset, FS_CardinalityType
  <2>3. Cardinality(Cached) \in Nat /\ setup.entries \in Nat
        /\ Cardinality(Cached) <= setup.entries
    BY FiniteCached, ServerAssumption DEF CacheInv, Types, WithinEntries
  <2> QED
    BY <2>2, <2>3, <1>2 DEF WithinEntries
<1> QED
  BY <1>5, <1>6, <1>7, <1>8, <1>9, <1>10 DEF CacheInv

-----------------------------------------------------------------------------
(* Steps that leave the map alone.                                           *)

LEMMA SetCall ==
  ASSUME CacheInv, NEW c \in Clients, NEW call \in Call, calls' = [calls EXCEPT ![c] = call]
  PROVE  /\ calls' \in [Clients -> Call] /\ calls'[c] = call
         /\ \A d \in Clients \ {c} : calls'[d] = calls[d] /\ SameCall(d)
BY DEF CacheInv, Types, SameCall

LEMMA SetSlot ==
  ASSUME CacheInv, NEW s \in SlotIds, NEW slot \in Slot, slots' = [slots EXCEPT ![s] = slot]
  PROVE  /\ slots' \in [SlotIds -> Slot] /\ slots'[s] = slot
         /\ \A t \in SlotIds \ {s} : slots'[t] = slots[t]
BY DEF CacheInv, Types

\* The call stays outside, or leaves.
LEMMA StaysOutside ==
  ASSUME CacheInv, NEW c \in Clients, calls[c].phase \notin Inside,
         UNCHANGED <<setup, entries, slots>>,
         NEW call \in Call, calls' = [calls EXCEPT ![c] = call],
         call.phase \in Outside, call.slot = None,
         call.phase # "idle" => call.of \in Requests
  PROVE  CacheInv'
<1>1. /\ calls' \in [Clients -> Call] /\ calls'[c] = call
      /\ \A d \in Clients \ {c} : SameCall(d)
  BY SetCall
<1>2. Types'
  BY <1>1 DEF CacheInv, Types
<1>3. \A s \in SlotIds : slots'[s].queue = slots[s].queue
  OBVIOUS
<1> QED
  BY <1>1, <1>2, <1>3, GoesOn

\* The call works on the entry whose lock it has.
LEMMA StaysInside ==
  ASSUME CacheInv, NEW c \in Clients, UNCHANGED <<setup, entries, slots>>,
         NEW call \in Call, calls' = [calls EXCEPT ![c] = call],
         call.of = calls[c].of, call.slot = calls[c].slot,
         call.phase = calls[c].phase \/ (Owns(c) /\ call.phase = "loading")
  PROVE  CacheInv'
<1>1. /\ calls' \in [Clients -> Call] /\ calls'[c] = call
      /\ \A d \in Clients \ {c} : SameCall(d)
  BY SetCall
<1>2. Types'
  BY <1>1 DEF CacheInv, Types
<1>3. \A s \in SlotIds : slots'[s].queue = slots[s].queue
  OBVIOUS
<1>4. \/ SameCall(c)
      \/ /\ Owns(c) /\ calls'[c].phase = "loading"
         /\ calls'[c].of = calls[c].of /\ calls'[c].slot = calls[c].slot
  BY <1>1 DEF SameCall
<1> QED
  BY <1>1, <1>2, <1>3, <1>4, GoesOn

LEMMA OutsideKeeps ==
  ASSUME CacheInv, NEW c \in Clients,
         \/ \E r \in Requests : Ask(c, r)
         \/ Authenticate(c) \/ FetchKeys(c) \/ NoEntry(c)
  PROVE  CacheInv'
<1>0. /\ calls[c] \in Call /\ calls[c].phase \in Outside /\ calls[c].phase \notin Inside
      /\ calls[c].slot = None /\ (calls[c].phase # "idle" => calls[c].of \in Requests)
      /\ UNCHANGED <<setup, entries, slots>>
  <2>1. calls[c].phase \in Outside /\ UNCHANGED <<setup, entries, slots>>
    BY DEF Ask, Authenticate, FetchKeys, NoEntry, InPhase, Outside
  <2> QED
    BY <2>1 DEF CacheInv, Types, SlotsAreLookedUp, Outside, Inside
<1>1. CASE \E r \in Requests : Ask(c, r)
  <2> PICK r \in Requests : Ask(c, r)
    BY <1>1
  <2>1. PICK call \in {[Away EXCEPT !.phase = p, !.of = r] : p \in {"keys", "lookup"}} :
           calls' = [calls EXCEPT ![c] = call]
    BY DEF Ask
  <2>2. call \in Call /\ call.phase \in Outside /\ call.slot = None /\ call.of = r
    BY <2>1, AwayIsCall DEF Away, Call, Outside
  <2> QED
    BY <2>1, <2>2, <1>0, StaysOutside
<1>2. CASE calls' = [calls EXCEPT ![c] = Away]
  BY <1>0, <1>2, AwayIsCall, StaysOutside DEF Away, Outside
<1>3. CASE InPhase(c, "keys") \/ InPhase(c, "fetching")
  <2> DEFINE next(p) == [calls[c] EXCEPT !.phase = p]
  <2>1. ASSUME NEW p \in {"lookup", "fetching"}, calls' = [calls EXCEPT ![c].phase = p]
        PROVE  CacheInv'
    <3>1. calls' = [calls EXCEPT ![c] = next(p)]
      BY <2>1
    <3>2. /\ next(p) \in Call /\ next(p).phase = p /\ next(p).slot = None
          /\ next(p).of \in Requests /\ p \in Outside
      BY <1>0, <1>3, <2>1 DEF Call, Outside, InPhase
    <3> HIDE DEF next
    <3> QED
      BY <3>1, <3>2, <1>0, StaysOutside
  <2>2. \/ calls' = [calls EXCEPT ![c] = Away]
        \/ \E p \in {"lookup", "fetching"} : calls' = [calls EXCEPT ![c].phase = p]
    BY <1>3 DEF Ask, Authenticate, FetchKeys, NoEntry, Verified, InPhase
  <2> QED
    BY <2>1, <2>2, <1>2
<1> QED
  BY <1>1, <1>2, <1>3 DEF Authenticate, FetchKeys, NoEntry

LEMMA LoadKeeps ==
  ASSUME CacheInv, NEW c \in Clients, Load(c)
  PROVE  CacheInv'
<1>1. calls[c] \in Call /\ Owns(c) /\ UNCHANGED <<setup, entries, slots>>
  BY DEF Load, CacheInv, Types
<1>2. \/ calls' = [calls EXCEPT ![c].phase = "loading",
                                ![c].first = (Kind[calls[c].of] = "chain")]
      \/ calls' = [calls EXCEPT ![c].phase = "loading", ![c].stage = 1]
  BY DEF Load
<1>3. CASE calls' = [calls EXCEPT ![c].phase = "loading",
                                  ![c].first = (Kind[calls[c].of] = "chain")]
  <2> DEFINE call == [calls[c] EXCEPT !.phase = "loading",
                                      !.first = (Kind[calls[c].of] = "chain")]
  <2>1. calls' = [calls EXCEPT ![c] = call]
    BY <1>3
  <2>2. /\ call \in Call /\ call.phase = "loading"
        /\ call.of = calls[c].of /\ call.slot = calls[c].slot
    BY <1>1 DEF Call, Inside
  <2> HIDE DEF call
  <2> QED
    BY <1>1, <2>1, <2>2, StaysInside
<1>4. CASE calls' = [calls EXCEPT ![c].phase = "loading", ![c].stage = 1]
  <2> DEFINE call == [calls[c] EXCEPT !.phase = "loading", !.stage = 1]
  <2>1. calls' = [calls EXCEPT ![c] = call]
    BY <1>4
  <2>2. /\ call \in Call /\ call.phase = "loading"
        /\ call.of = calls[c].of /\ call.slot = calls[c].slot
    BY <1>1 DEF Call, Inside
  <2> HIDE DEF call
  <2> QED
    BY <1>1, <2>1, <2>2, StaysInside
<1> QED
  BY <1>2, <1>3, <1>4

LEMMA StageKeeps ==
  ASSUME CacheInv, NEW c \in Clients,
         \/ UseSession(c) \/ NextStage(c) \/ Unauthorised(c) \/ DropSession(c)
         \/ SecondPage(c)
  PROVE  CacheInv'
<1>0. /\ calls[c] \in Call /\ UNCHANGED <<setup, entries, slots>>
      /\ calls[c].stage \in Nat /\ calls[c].stage + 1 \in Nat
  BY DEF CacheInv, Types, Call, UseSession, NextStage, Unauthorised, DropSession, SecondPage
<1>1. ASSUME NEW n \in Nat, calls' = [calls EXCEPT ![c].stage = n]
      PROVE  CacheInv'
  <2> DEFINE call == [calls[c] EXCEPT !.stage = n]
  <2>1. calls' = [calls EXCEPT ![c] = call]
    BY <1>1
  <2>2. /\ call \in Call /\ call.phase = calls[c].phase
        /\ call.of = calls[c].of /\ call.slot = calls[c].slot
    BY <1>0 DEF Call
  <2> HIDE DEF call
  <2> QED
    BY <1>0, <2>1, <2>2, StaysInside
<1>2. CASE UseSession(c)
  BY <1>1, <1>2 DEF UseSession, Stage, Page, Cookie
<1>3. CASE NextStage(c)
  BY <1>0, <1>1, <1>3 DEF NextStage, Stage
<1>4. CASE Unauthorised(c)
  <2> DEFINE call == [calls[c] EXCEPT !.stage = 0, !.failed = {}, !.retried = TRUE]
  <2>1. calls' = [calls EXCEPT ![c] = call]
    BY <1>4 DEF Unauthorised
  <2>2. /\ call \in Call /\ call.phase = calls[c].phase
        /\ call.of = calls[c].of /\ call.slot = calls[c].slot
    BY <1>0 DEF Call
  <2> HIDE DEF call
  <2> QED
    BY <1>0, <2>1, <2>2, StaysInside
<1>5. CASE DropSession(c)
  <2> DEFINE call == [calls[c] EXCEPT !.denied = FALSE]
  <2>1. calls' = [calls EXCEPT ![c] = call]
    BY <1>5 DEF DropSession
  <2>2. /\ call \in Call /\ call.phase = calls[c].phase
        /\ call.of = calls[c].of /\ call.slot = calls[c].slot
    BY <1>0 DEF Call
  <2> HIDE DEF call
  <2> QED
    BY <1>0, <2>1, <2>2, StaysInside
<1>6. CASE SecondPage(c)
  <2> DEFINE call == [calls[c] EXCEPT !.stage = 0, !.retried = FALSE, !.first = FALSE]
  <2>1. calls' = [calls EXCEPT ![c] = call]
    BY <1>6 DEF SecondPage
  <2>2. /\ call \in Call /\ call.phase = calls[c].phase
        /\ call.of = calls[c].of /\ call.slot = calls[c].slot
    BY <1>0 DEF Call
  <2> HIDE DEF call
  <2> QED
    BY <1>0, <2>1, <2>2, StaysInside
<1> QED
  BY <1>2, <1>3, <1>4, <1>5, <1>6

LEMMA NothingMoves ==
  ASSUME CacheInv, UNCHANGED <<setup, calls, entries, slots>>
  PROVE  CacheInv'
<1>1. Types' /\ SameCall(None) /\ \A d \in Clients \ {None} : SameCall(d)
  BY DEF CacheInv, Types, SameCall
<1>2. \A s \in SlotIds : slots'[s].queue = slots[s].queue
  OBVIOUS
<1> QED
  BY <1>1, <1>2, GoesOn

LEMMA UpstreamKeeps ==
  ASSUME CacheInv, NEW c \in Clients, NEW h \in Hosts,
         Send(<<c, h>>) \/ Respond(<<c, h>>)
  PROVE  CacheInv'
<1>0. calls[c] \in Call /\ UNCHANGED <<setup, entries, slots>>
  BY DEF CacheInv, Types, Send, Respond
<1>1. ASSUME NEW failed \in SUBSET Hosts, NEW denied \in BOOLEAN,
             calls' = [calls EXCEPT ![c] = [calls[c] EXCEPT !.failed = failed,
                                                            !.denied = denied]]
      PROVE  CacheInv'
  <2> DEFINE call == [calls[c] EXCEPT !.failed = failed, !.denied = denied]
  <2>1. calls' = [calls EXCEPT ![c] = call]
    BY <1>1
  <2>2. /\ call \in Call /\ call.phase = calls[c].phase
        /\ call.of = calls[c].of /\ call.slot = calls[c].slot
    BY <1>0 DEF Call
  <2> HIDE DEF call
  <2> QED
    BY <1>0, <2>1, <2>2, StaysInside
<1>2. ASSUME NEW ok \in BOOLEAN, Fetched(<<c, h>>, ok)
      PROVE  CacheInv'
  <2> DEFINE failed == IF ok THEN calls[c].failed ELSE calls[c].failed \cup {h}
             denied == calls[c].denied
  <2>1. failed \in SUBSET Hosts /\ denied \in BOOLEAN
    BY <1>0 DEF Call
  <2>2. calls' = [calls EXCEPT ![c].failed = failed]
    BY <1>2 DEF Fetched
  <2> HIDE DEF failed
  <2>3. [calls[c] EXCEPT !.failed = failed]
          = [calls[c] EXCEPT !.failed = failed, !.denied = denied]
    BY <1>0 DEF Call
  <2>4. calls' = [calls EXCEPT ![c] = [calls[c] EXCEPT !.failed = failed, !.denied = denied]]
    BY <2>2, <2>3
  <2> HIDE DEF denied
  <2> QED
    BY <1>1, <2>1, <2>4
<1>3. CASE Send(<<c, h>>)
  <2>1. UNCHANGED calls \/ Fetched(<<c, h>>, FALSE)
    BY <1>3 DEF Send
  <2> QED
    BY <2>1, <1>0, <1>2, NothingMoves
<1>4. CASE Respond(<<c, h>>)
  <2>1. CASE \E ok \in BOOLEAN : Fetched(<<c, h>>, ok)
    BY <2>1, <1>2
  <2>2. CASE calls' = [calls EXCEPT ![c].failed = {h}, ![c].denied = TRUE]
    <3>1. calls' = [calls EXCEPT ![c] = [calls[c] EXCEPT !.failed = {h}, !.denied = TRUE]]
      BY <2>2
    <3> QED
      BY <3>1, <1>1
  <2> QED
    BY <1>4, <2>1, <2>2 DEF Respond
<1> QED
  BY <1>3, <1>4

\* Who is inside with a slot is in no other slot's line.
LEMMA OneLine ==
  ASSUME CacheInv, NEW c \in Clients, NEW s \in SlotIds, calls[c].slot # s
  PROVE  Left(slots[s].queue, slots[s].queue, c)
<1>1. slots[s].queue \in Seq(Clients) /\ IsInjective(slots[s].queue)
  BY DEF CacheInv, Types, Slot, LinesAreInside
<1>2. \A i \in DOMAIN slots[s].queue : slots[s].queue[i] # c
  BY DEF CacheInv, LinesAreInside
<1> QED
  BY <1>1, <1>2, AbsentLeaves

\* The call gives the lock back, with what it has put into the entry.
LEMMA Unlocks ==
  ASSUME CacheInv, NEW c \in Clients, UNCHANGED <<setup, entries>>,
         calls[c].phase \in Inside, Holds(slots[calls[c].slot].queue, c),
         NEW call \in Call, calls' = [calls EXCEPT ![c] = call],
         (call.phase = "idle" /\ call.slot = None) \/ call.phase = "trimming",
         NEW slot \in Slot, slots' = [slots EXCEPT ![calls[c].slot] = slot],
         slot.queue = Tail(slots[calls[c].slot].queue)
  PROVE  CacheInv'
<1> DEFINE s == calls[c].slot
<1>1. s \in SlotIds
  BY DEF CacheInv, HeldIsEntry
<1>2. slots[s].queue \in Seq(Clients) /\ IsInjective(slots[s].queue)
  BY <1>1 DEF CacheInv, Types, Slot, LinesAreInside
<1>3. /\ calls' \in [Clients -> Call] /\ calls'[c] = call
      /\ \A d \in Clients \ {c} : SameCall(d)
  BY SetCall
<1>4. /\ slots' \in [SlotIds -> Slot] /\ slots'[s] = slot
      /\ \A t \in SlotIds \ {s} : slots'[t] = slots[t]
  BY <1>1, SetSlot
<1>5. Types'
  BY <1>3, <1>4 DEF CacheInv, Types
<1>6. Left(slots[s].queue, slots'[s].queue, c)
  BY <1>2, <1>4, TailLeaves
<1>7. \A t \in SlotIds : Left(slots[t].queue, slots'[t].queue, c)
  BY <1>4, <1>6, OneLine
<1> HIDE DEF s
<1> QED
  BY <1>3, <1>5, <1>7, GoesAway

LEMMA AnsweredKeeps ==
  ASSUME CacheInv, NEW c \in Clients, Answered(c)
  PROVE  CacheInv'
<1> DEFINE s == calls[c].slot
           slot == [slots[s] EXCEPT !.queue = Tail(@)]
<1>1. /\ calls[c].phase \in Inside /\ Holds(slots[s].queue, c)
      /\ calls' = [calls EXCEPT ![c] = Away] /\ UNCHANGED <<setup, entries>>
      /\ slots' = [slots EXCEPT ![s].queue = Tail(@)]
  BY DEF Answered, Owns, InPhase, Inside
<1>2. slots[s] \in Slot
  BY <1>1 DEF CacheInv, Types, HeldIsEntry
<1>3. Tail(slots[s].queue) \in Seq(Clients)
  BY <1>1, <1>2 DEF Holds, Slot
<1>4. slot \in Slot /\ slot.queue = Tail(slots[s].queue)
  BY <1>2, <1>3 DEF Slot
<1>5. slots' = [slots EXCEPT ![s] = slot]
  BY <1>1
<1> HIDE DEF slot
<1>6. Away \in Call /\ Away.phase = "idle" /\ Away.slot = None
  BY AwayIsCall DEF Away
<1> QED
  BY <1>1, <1>4, <1>5, <1>6, Unlocks

LEMMA LoadedKeeps ==
  ASSUME CacheInv, NEW c \in Clients, Loaded(c)
  PROVE  CacheInv'
<1> DEFINE s == calls[c].slot
           call == [Away EXCEPT !.phase = "trimming", !.slot = s]
<1>1. /\ calls[c].phase = "loading" /\ calls' = [calls EXCEPT ![c] = call]
      /\ UNCHANGED <<setup, entries>>
  BY DEF Loaded, StageEnds, InPhase
<1>2. s \in SlotIds /\ slots[s] \in Slot /\ Holds(slots[s].queue, c)
  BY <1>1 DEF CacheInv, Types, HeldIsEntry, LoadersOwn, InPhase, Inside
<1>3. PICK data \in Outcomes(c) : slots' = [slots EXCEPT
         ![s] = [queue |-> Tail(slots[s].queue), data |-> data, fresh |-> TRUE]]
  BY DEF Loaded
<1>4. data \in BOOLEAN
  BY <1>2 DEF Outcomes, Slot
<1> DEFINE slot == [queue |-> Tail(slots[s].queue), data |-> data, fresh |-> TRUE]
<1>5. Tail(slots[s].queue) \in Seq(Clients)
  BY <1>2 DEF Holds, Slot
<1>6. slot \in Slot /\ slot.queue = Tail(slots[s].queue)
  BY <1>4, <1>5 DEF Slot
<1>7. call \in Call /\ call.phase = "trimming"
  BY <1>2, AwayIsCall DEF Away, Call
<1>8. slots' = [slots EXCEPT ![s] = slot] /\ calls[c].phase \in Inside
  BY <1>1, <1>3 DEF Inside
<1> HIDE DEF slot, call
<1> QED
  BY <1>1, <1>2, <1>6, <1>7, <1>8, Unlocks

LEMMA DroppedKeeps ==
  ASSUME CacheInv, NEW c \in Clients, Dropped(c)
  PROVE  CacheInv'
<1>1. /\ calls' = [calls EXCEPT ![c] = Away] /\ UNCHANGED <<setup, entries>>
      /\ slots' = [s \in SlotIds |-> [slots[s] EXCEPT !.queue = Without(@, c)]]
  BY DEF Dropped
<1>2. /\ calls' \in [Clients -> Call] /\ calls'[c] = Away
      /\ \A d \in Clients \ {c} : SameCall(d)
  BY <1>1, AwayIsCall, SetCall
<1>3. ASSUME NEW s \in SlotIds
      PROVE  /\ slots'[s] \in Slot
             /\ Left(slots[s].queue, slots'[s].queue, c)
  <2>1. /\ slots[s] \in Slot /\ slots[s].queue \in Seq(Clients)
        /\ IsInjective(slots[s].queue)
    BY DEF CacheInv, Types, Slot, LinesAreInside
  <2>2. Left(slots[s].queue, Without(slots[s].queue, c), c)
    BY <2>1, WithoutLeaves
  <2>3. Without(slots[s].queue, c) \in Seq(Clients)
    BY <2>2 DEF Left
  <2>4. slots'[s] \in Slot /\ slots'[s].queue = Without(slots[s].queue, c)
    BY <1>1, <2>1, <2>3 DEF Slot
  <2> QED
    BY <2>2, <2>4
<1>4. Types'
  BY <1>1, <1>2, <1>3 DEF CacheInv, Types
<1>5. Away.phase = "idle" /\ Away.slot = None
  BY DEF Away
<1> QED
  BY <1>1, <1>2, <1>3, <1>4, <1>5, GoesAway

\* The cache of a new server.
Empty ==
    /\ calls = [c \in Clients |-> Away]
    /\ entries = [r \in Requests |-> None]
    /\ slots = [s \in SlotIds |-> Unused]

LEMMA EmptyCache ==
  ASSUME setup \in Setups, Empty
  PROVE  CacheInv
<1>1. Types
  BY AwayIsCall DEF Empty, Types, Unused, Slot
<1>2. SlotsAreLookedUp /\ HeldIsEntry /\ LoadersOwn
  BY DEF Empty, SlotsAreLookedUp, HeldIsEntry, LoadersOwn, InPhase, Away, Inside
<1>3. LinesAreInside
  BY DEF Empty, LinesAreInside, Unused, IsInjective
<1>4. WithinEntries
  <2>1. Cached = {}
    BY DEF Empty, Cached
  <2>2. setup.entries \in Nat
    BY ServerAssumption
  <2> QED
    BY <2>1, <2>2, FS_EmptySet DEF WithinEntries
<1> QED
  BY <1>1, <1>2, <1>3, <1>4 DEF CacheInv

LEMMA ShutdownKeeps ==
  ASSUME CacheInv, Shutdown
  PROVE  CacheInv'
<1>1. setup' \in Setups /\ Empty'
  BY DEF CacheInv, Types, Shutdown, Empty
<1>2. (setup \in Setups /\ Empty => CacheInv)'
  BY EmptyCache, PTL
<1> QED
  BY <1>1, <1>2

LEMMA ElapsesKeeps ==
  ASSUME CacheInv, Elapses
  PROVE  CacheInv'
<1>1. UNCHANGED <<setup, calls, entries>>
  BY DEF Elapses
<1>2. CASE UNCHANGED slots
  BY <1>1, <1>2, NothingMoves
<1>3. CASE \E s \in SlotIds : slots' = [slots EXCEPT ![s].fresh = FALSE]
  <2> PICK s \in SlotIds : slots' = [slots EXCEPT ![s].fresh = FALSE]
    BY <1>3
  <2>1. slots' \in [SlotIds -> Slot] /\ \A t \in SlotIds : slots'[t].queue = slots[t].queue
    BY DEF CacheInv, Types, Slot
  <2>2. Types' /\ SameCall(None) /\ \A d \in Clients \ {None} : SameCall(d)
    BY <1>1, <2>1 DEF CacheInv, Types, SameCall
  <2> QED
    BY <1>1, <2>1, <2>2, GoesOn
<1> QED
  BY <1>2, <1>3 DEF Elapses

LEMMA NextKeeps == CacheInv /\ [Next]_vars => CacheInv'
<1> SUFFICES ASSUME CacheInv, [Next]_vars PROVE CacheInv'
  OBVIOUS
<1>1. ASSUME NEW c \in Clients, (\E r \in Requests : Ask(c, r)) \/ Progress(c) \/ Dropped(c)
      PROVE  CacheInv'
  BY <1>1, OutsideKeeps, LookupKeeps, AnsweredKeeps, LoadKeeps, StageKeeps, LoadedKeeps,
     TrimKeeps, UpstreamKeeps, DroppedKeeps DEF Progress
<1>2. CASE UNCHANGED vars
  BY <1>2, NothingMoves DEF vars
<1> QED
  BY <1>1, <1>2, ShutdownKeeps, ElapsesKeeps DEF Next

\* Whoever waits for the lock of an entry, or loads it, keeps it in the map:
\* the map never grows beyond its limit, and never by a second entry for a
\* resource that somebody works on (terminal-engine/src/market.rs,
\* execute_validated and trim).
THEOREM CacheInvariant == Spec => []CacheInv
<1>1. Init => CacheInv
  BY EmptyCache DEF Init, Empty
<1> QED
  BY <1>1, NextKeeps, PTL DEF Spec

\* Two calls never load one resource at the same time, whatever is evicted,
\* trimmed or dropped meanwhile, and the cache keeps within its entries.
THEOREM FlightsAreShared == Spec => []SharedFlights
<1>1. CacheInv => SharedFlights
  <2> SUFFICES ASSUME CacheInv, NEW c \in Clients, NEW d \in Clients,
                      InPhase(c, "loading"), InPhase(d, "loading"), calls[c].of = calls[d].of
               PROVE  c = d
    BY DEF CacheInv, WithinEntries, SharedFlights
  <2>1. calls[c].slot = calls[d].slot
    BY DEF CacheInv, HeldIsEntry, InPhase, Inside
  <2>2. Holds(slots[calls[c].slot].queue, c) /\ Holds(slots[calls[d].slot].queue, d)
    BY DEF CacheInv, LoadersOwn
  <2> QED
    BY <2>1, <2>2 DEF Holds
<1> QED
  BY <1>1, CacheInvariant, PTL
=============================================================================
