-------------------------- MODULE EngineWorkerProofs --------------------------
(* The worker of the terminal, for every set of instruments, databases and   *)
(* messages.  Three inductive invariants: DocsInv follows the documents from *)
(* the screen through a save to the disk and back, FetchOK the legacy        *)
(* scheduler, which needs from the first that lists are finite and that a    *)
(* save leaves the selection alone.  SoundInv, on top of both, is about what *)
(* the documents say: wherever they are, no panel shows a list that is not   *)
(* with them.                                                                *)
EXTENDS EngineWorker, FiniteSetTheorems, FunctionTheorems, WellFoundedInduction, TLAPS

PreferenceFields == {"version", "selected", "range", "history", "keymap",
                     "active", "workspace"}

TaskFields == {"key", "aborted", "done", "of"}

EntryFields == {"due", "abort"}

FetchFields == {"generation", "schedule", "tasks"}

\* A task of a history knows what it fetches, and one of the present history
\* fetches what is selected.
FetchesFor(task, generation, chosen) ==
    \/ task.key.kind = "quote"
    \/ \E g \in 0..generation :
          task.key = History(g) /\ (g = generation => task.of = chosen)

EntryOK(f, k) ==
    /\ DOMAIN f.schedule[k] = EntryFields
    /\ k.kind = "quote" \/ k = History(f.generation)
    /\ LET t == f.schedule[k].abort
       IN  t # None => t \in DOMAIN f.tasks /\ f.tasks[t].key = k

FetchOK(f, chosen) ==
    /\ DOMAIN f = FetchFields /\ f.generation \in Nat
    /\ DOMAIN f.tasks \subseteq TaskIds
    /\ \A k \in DOMAIN f.schedule : EntryOK(f, k)
    /\ \A t \in DOMAIN f.tasks :
          /\ DOMAIN f.tasks[t] = TaskFields
          /\ FetchesFor(f.tasks[t], f.generation, chosen)

-----------------------------------------------------------------------------
\* The scheduler's bookkeeping keeps this.
LEMMA DroppedKeeps ==
  ASSUME NEW f, NEW chosen, FetchOK(f, chosen), NEW keys
  PROVE  /\ FetchOK(Dropped(f, keys), chosen)
         /\ Dropped(f, keys).generation = f.generation
         /\ DOMAIN Dropped(f, keys).schedule = DOMAIN f.schedule \ keys
         /\ \A k \in DOMAIN f.schedule \ keys : Dropped(f, keys).schedule[k] = f.schedule[k]
<1> DEFINE aborted == {f.schedule[k].abort : k \in keys}
           schedule == [k \in DOMAIN f.schedule \ keys |-> f.schedule[k]]
           task(t) == IF t \in aborted THEN [f.tasks[t] EXCEPT !.aborted = TRUE]
                      ELSE f.tasks[t]
           tasks == [t \in DOMAIN f.tasks |-> task(t)]
           d == Dropped(f, keys)
<1>1. /\ DOMAIN d = FetchFields /\ d.generation = f.generation
      /\ d.schedule = schedule /\ d.tasks = tasks
  BY DEF FetchOK, FetchFields, Dropped
<1>2. ASSUME NEW t \in DOMAIN f.tasks
      PROVE  /\ DOMAIN task(t) = TaskFields /\ task(t).key = f.tasks[t].key
             /\ task(t).of = f.tasks[t].of
  <2>1. DOMAIN f.tasks[t] = TaskFields
    BY DEF FetchOK
  <2> QED
    BY <2>1 DEF TaskFields
<1> HIDE DEF d, task, aborted
<1>3. DOMAIN tasks = DOMAIN f.tasks /\ \A t \in DOMAIN f.tasks : tasks[t] = task(t)
  OBVIOUS
<1>4. /\ DOMAIN schedule = DOMAIN f.schedule \ keys
      /\ \A k \in DOMAIN f.schedule \ keys : schedule[k] = f.schedule[k]
  OBVIOUS
<1>5. ASSUME NEW k \in DOMAIN d.schedule PROVE EntryOK(d, k)
  <2>1. EntryOK(f, k) /\ k \in DOMAIN f.schedule \ keys
    BY <1>1, <1>4 DEF FetchOK
  <2> QED
    BY <2>1, <1>1, <1>2, <1>3, <1>4 DEF EntryOK
<1>6. ASSUME NEW t \in DOMAIN d.tasks
      PROVE  DOMAIN d.tasks[t] = TaskFields /\ FetchesFor(d.tasks[t], d.generation, chosen)
  <2>1. t \in DOMAIN f.tasks /\ FetchesFor(f.tasks[t], f.generation, chosen)
    BY <1>1, <1>3 DEF FetchOK
  <2> QED
    BY <2>1, <1>1, <1>2, <1>3 DEF FetchesFor
<1>7. /\ d.schedule = [k \in DOMAIN d.schedule |-> d.schedule[k]]
      /\ d.tasks = [t \in DOMAIN d.tasks |-> d.tasks[t]]
  BY <1>1
<1> HIDE DEF schedule, tasks
<1>8. FetchOK(d, chosen)
  BY <1>1, <1>3, <1>5, <1>6, <1>7 DEF FetchOK
<1> QED
  BY <1>1, <1>4, <1>8 DEF d

LEMMA ReconciledKeeps ==
  ASSUME NEW f, NEW chosen, FetchOK(f, chosen), NEW s
  PROVE  /\ FetchOK(Reconciled(f, s), chosen)
         /\ DOMAIN Reconciled(f, s).schedule = WantedKeys(f, s, native)
<1> DEFINE wanted == WantedKeys(f, s, native)
           kept == Dropped(f, DOMAIN f.schedule \ wanted)
           schedule == [k \in wanted |-> IF k \in DOMAIN kept.schedule THEN kept.schedule[k]
                                         ELSE Entry]
           r == Reconciled(f, s)
<1>1. FetchOK(kept, chosen) /\ kept.generation = f.generation
  BY DroppedKeeps
<1>2. \A k \in wanted : k.kind = "quote" \/ k = History(f.generation)
  BY DEF WantedKeys, Quote
<1>3. r = [kept EXCEPT !.schedule = schedule]
  BY DEF Reconciled
<1> HIDE DEF kept, wanted
<1>4. /\ DOMAIN r = FetchFields /\ r.generation = f.generation
      /\ r.schedule = schedule /\ r.tasks = kept.tasks
  BY <1>1, <1>3 DEF FetchOK, FetchFields
<1> HIDE DEF r
<1>5. ASSUME NEW k \in wanted PROVE EntryOK(r, k)
  <2>1. CASE k \in DOMAIN kept.schedule
    <3>1. EntryOK(kept, k) /\ schedule[k] = kept.schedule[k]
      BY <1>1, <2>1 DEF FetchOK
    <3> QED
      BY <1>1, <1>4, <3>1 DEF EntryOK
  <2>2. CASE k \notin DOMAIN kept.schedule
    <3>1. schedule[k] = Entry
      BY <2>2
    <3> QED
      BY <1>2, <1>4, <3>1 DEF EntryOK, Entry, EntryFields
  <2> QED
    BY <2>1, <2>2
<1>6. DOMAIN r.schedule = wanted /\ r.schedule = [k \in wanted |-> r.schedule[k]]
  BY <1>4
<1> HIDE DEF schedule
<1>7. FetchOK(r, chosen)
  BY <1>1, <1>4, <1>5, <1>6 DEF FetchOK
<1> QED
  BY <1>6, <1>7 DEF r, wanted

\* A new history is nobody's yet, and no fetch of an older one is its.
LEMMA ResetKeeps ==
  ASSUME NEW f, NEW chosen, FetchOK(f, chosen), NEW selected
  PROVE  FetchOK(ResetHistory(f), selected)
<1> DEFINE d == Dropped(f, {k \in DOMAIN f.schedule : k.kind = "history"})
           r == ResetHistory(f)
<1>1. /\ FetchOK(d, chosen) /\ d.generation = f.generation
      /\ \A k \in DOMAIN d.schedule : k \in DOMAIN f.schedule /\ k.kind # "history"
  BY DroppedKeeps
<1>2. f.generation \in Nat
  BY DEF FetchOK
<1>3. r = [d EXCEPT !.generation = @ + 1]
  BY DEF ResetHistory
<1> HIDE DEF d
<1>4. /\ DOMAIN r = FetchFields /\ r.generation = f.generation + 1
      /\ r.schedule = d.schedule /\ r.tasks = d.tasks
  BY <1>1, <1>3 DEF FetchOK, FetchFields
<1> HIDE DEF r
<1>5. ASSUME NEW k \in DOMAIN d.schedule PROVE EntryOK(r, k)
  <2>1. EntryOK(d, k) /\ k.kind = "quote"
    BY <1>1 DEF FetchOK, EntryOK, History
  <2> QED
    BY <2>1, <1>4 DEF EntryOK
<1>6. ASSUME NEW t \in DOMAIN d.tasks
      PROVE  FetchesFor(d.tasks[t], r.generation, selected)
  <2>1. CASE d.tasks[t].key.kind = "quote"
    BY <2>1 DEF FetchesFor
  <2>2. CASE d.tasks[t].key.kind # "quote"
    <3>1. PICK g \in 0..f.generation : d.tasks[t].key = History(g)
      BY <1>1, <2>2 DEF FetchOK, FetchesFor
    <3>2. g \in 0..r.generation /\ g # r.generation
      BY <1>2, <1>4
    <3> QED
      BY <3>1, <3>2 DEF FetchesFor
  <2> QED
    BY <2>1, <2>2
<1>7. r.generation \in Nat
  BY <1>2, <1>4
<1>8. FetchOK(r, selected)
  BY <1>1, <1>4, <1>5, <1>6, <1>7 DEF FetchOK
<1> QED
  BY <1>8 DEF r

\* As many fetches as there is room for can be told apart.
LEMMA RoomForAll ==
  ASSUME NEW S, NEW T, IsFiniteSet(S), IsFiniteSet(T), Cardinality(S) <= Cardinality(T)
  PROVE  \E g \in [S -> T] : \A k, l \in S : g[k] = g[l] => k = l
<1>1. /\ Cardinality(S) \in Nat /\ ExistsBijection(1..Cardinality(S), S)
      /\ Cardinality(T) \in Nat /\ ExistsBijection(1..Cardinality(T), T)
  BY FS_CardinalityType
<1>2. ExistsBijection(S, 1..Cardinality(S))
  BY <1>1, Fun_ExistsBijSymmetric
<1>3. PICK b \in Bijection(S, 1..Cardinality(S)) : TRUE
  BY <1>2, Zenon DEF ExistsBijection
<1>4. PICK c \in Bijection(1..Cardinality(T), T) : TRUE
  BY <1>1, Zenon DEF ExistsBijection
<1>5. b \in [S -> 1..Cardinality(S)] /\ \A k, l \in S : b[k] = b[l] => k = l
  BY <1>3 DEF Bijection, Injection, IsInjective
<1>6. /\ c \in [1..Cardinality(T) -> T]
      /\ \A i, j \in 1..Cardinality(T) : c[i] = c[j] => i = j
  BY <1>4, Fun_BijectionProperties
<1> DEFINE g == [k \in S |-> c[b[k]]]
<1>7. \A k \in S : b[k] \in 1..Cardinality(T)
  BY <1>1, <1>5
<1>8. g \in [S -> T]
  BY <1>5, <1>6, <1>7
<1>9. \A k, l \in S : g[k] = g[l] => k = l
  BY <1>5, <1>6, <1>7
<1> QED
  BY <1>8, <1>9

LEMMA SpawnedKeeps ==
  ASSUME NEW f, FetchOK(f, Chosen(shown)), NEW keys, keys \subseteq DOMAIN f.schedule,
         IsFiniteSet(keys), Cardinality(keys) <= MaxTasks - Cardinality(DOMAIN f.tasks)
  PROVE  FetchOK(Spawned(f, keys), Chosen(shown))
<1> DEFINE free == TaskIds \ DOMAIN f.tasks
           id == CHOOSE g \in [keys -> free] : \A k, l \in keys : g[k] = g[l] => k = l
           KeyOf(t) == CHOOSE k \in keys : id[k] = t
           started == {id[k] : k \in keys}
           entry(k) == IF k \in keys THEN [f.schedule[k] EXCEPT !.abort = id[k]]
                       ELSE f.schedule[k]
           task(t) == IF t \in started
                      THEN [key |-> KeyOf(t), aborted |-> FALSE, done |-> FALSE,
                            of |-> IF KeyOf(t).kind = "history" THEN Chosen(shown)
                                   ELSE None]
                      ELSE f.tasks[t]
           schedule == [k \in DOMAIN f.schedule |-> entry(k)]
           tasks == [t \in DOMAIN f.tasks \cup started |-> task(t)]
           r == Spawned(f, keys)
<1>1. IsFiniteSet(free) /\ Cardinality(keys) <= Cardinality(free)
  <2>1. IsFiniteSet(TaskIds) /\ Cardinality(TaskIds) = MaxTasks
    <3>1. Cardinality(1..MaxTasks) = IF 1 > MaxTasks THEN 0 ELSE MaxTasks - 1 + 1
      BY WorkerAssumption, FS_Interval
    <3> QED
      BY <3>1, WorkerAssumption, FS_Interval DEF TaskIds
  <2>2. TaskIds \cap DOMAIN f.tasks = DOMAIN f.tasks
    BY DEF FetchOK
  <2>3. IsFiniteSet(free) /\ Cardinality(free) = MaxTasks - Cardinality(DOMAIN f.tasks)
    BY <2>1, <2>2, FS_Difference
  <2> QED
    BY <2>3
<1>2. id \in [keys -> free] /\ \A k, l \in keys : id[k] = id[l] => k = l
  BY <1>1, RoomForAll
<1>3. \A k \in keys : KeyOf(id[k]) = k /\ id[k] \in started
  BY <1>2
<1>4. /\ DOMAIN r = FetchFields /\ r.generation = f.generation
      /\ r.schedule = schedule /\ r.tasks = tasks
  BY DEF Spawned, FetchOK, FetchFields
<1> HIDE DEF id, r
<1>5. \A t \in started : t \in free /\ KeyOf(t) \in keys /\ id[KeyOf(t)] = t
  BY <1>2, <1>3
<1> HIDE DEF KeyOf, started
<1>6. /\ DOMAIN tasks = DOMAIN f.tasks \cup started
      /\ \A t \in DOMAIN f.tasks : tasks[t] = f.tasks[t]
      /\ \A t \in started :
            /\ DOMAIN tasks[t] = TaskFields /\ tasks[t].key = KeyOf(t)
            /\ KeyOf(t).kind = "history" => tasks[t].of = Chosen(shown)
  BY <1>5 DEF TaskFields
<1> HIDE DEF tasks
<1>7. ASSUME NEW k \in DOMAIN f.schedule PROVE EntryOK(r, k)
  <2>1. EntryOK(f, k)
    BY DEF FetchOK
  <2>2. CASE k \in keys
    <3>1. /\ DOMAIN schedule[k] = EntryFields /\ schedule[k].abort = id[k]
      BY <2>1, <2>2 DEF EntryOK, EntryFields
    <3>2. id[k] \in started /\ KeyOf(id[k]) = k
      BY <1>3, <2>2
    <3>3. id[k] \in DOMAIN tasks /\ tasks[id[k]].key = k
      BY <1>6, <3>2
    <3> QED
      BY <2>1, <3>1, <3>3, <1>4 DEF EntryOK
  <2>3. CASE k \notin keys
    <3>1. schedule[k] = f.schedule[k]
      BY <2>3
    <3> QED
      BY <2>1, <3>1, <1>4, <1>6 DEF EntryOK
  <2> QED
    BY <2>2, <2>3
<1>8. ASSUME NEW t \in DOMAIN tasks
      PROVE  DOMAIN tasks[t] = TaskFields /\ FetchesFor(tasks[t], f.generation, Chosen(shown))
  <2>1. CASE t \in DOMAIN f.tasks
    BY <1>6, <2>1 DEF FetchOK
  <2>2. CASE t \in started
    <3>1. /\ DOMAIN tasks[t] = TaskFields /\ tasks[t].key = KeyOf(t)
          /\ KeyOf(t) \in DOMAIN f.schedule
      BY <1>5, <1>6, <2>2
    <3>2. EntryOK(f, KeyOf(t)) /\ f.generation \in 0..f.generation
      BY <3>1 DEF FetchOK
    <3>3. CASE KeyOf(t).kind = "quote"
      BY <3>1, <3>3 DEF FetchesFor
    <3>4. CASE KeyOf(t).kind # "quote"
      <4>1. KeyOf(t) = History(f.generation) /\ KeyOf(t).kind = "history"
        BY <3>2, <3>4 DEF EntryOK, History
      <4>2. tasks[t].of = Chosen(shown)
        BY <1>6, <2>2, <3>4, <4>1
      <4> QED
        BY <3>1, <3>2, <4>1, <4>2 DEF FetchesFor
    <3> QED
      BY <3>1, <3>3, <3>4
  <2> QED
    BY <1>6, <2>1, <2>2
<1>9. /\ r.schedule = [k \in DOMAIN f.schedule |-> r.schedule[k]]
      /\ DOMAIN r.schedule = DOMAIN f.schedule
  BY <1>4
<1>10. r.tasks = [t \in DOMAIN r.tasks |-> r.tasks[t]] /\ DOMAIN r.tasks \subseteq TaskIds
  BY <1>4, <1>5, <1>6 DEF FetchOK, tasks
<1> HIDE DEF schedule
<1>11. FetchOK(r, Chosen(shown))
  BY <1>4, <1>7, <1>8, <1>9, <1>10 DEF FetchOK
<1> QED
  BY <1>11 DEF r

\* A step that drops tasks or handles, and keeps the rest, keeps it too.
LEMMA UpdateKeeps ==
  ASSUME NEW f, NEW chosen, FetchOK(f, chosen), NEW g,
         DOMAIN g = FetchFields, g.generation = f.generation,
         DOMAIN g.schedule = DOMAIN f.schedule, DOMAIN g.tasks \subseteq DOMAIN f.tasks,
         \A t \in DOMAIN g.tasks :
            /\ DOMAIN g.tasks[t] = TaskFields
            /\ g.tasks[t].key = f.tasks[t].key /\ g.tasks[t].of = f.tasks[t].of,
         \A k \in DOMAIN g.schedule :
            /\ DOMAIN g.schedule[k] = EntryFields
            /\ \/ g.schedule[k].abort = None
               \/ /\ g.schedule[k].abort = f.schedule[k].abort
                  /\ f.schedule[k].abort \in DOMAIN f.tasks => f.schedule[k].abort \in DOMAIN g.tasks
  PROVE  FetchOK(g, chosen)
<1>1. ASSUME NEW k \in DOMAIN g.schedule PROVE EntryOK(g, k)
  <2>1. EntryOK(f, k)
    BY DEF FetchOK
  <2> QED
    BY <2>1 DEF EntryOK
<1>2. ASSUME NEW t \in DOMAIN g.tasks PROVE FetchesFor(g.tasks[t], g.generation, chosen)
  <2>1. FetchesFor(f.tasks[t], f.generation, chosen)
    BY DEF FetchOK
  <2> QED
    BY <2>1 DEF FetchesFor
<1> QED
  BY <1>1, <1>2 DEF FetchOK

-----------------------------------------------------------------------------
\* The documents, from the screen through a save to the disk and back.

Quiet == request = None /\ reply = None

Matches == disk.lists = shown.lists /\ Lasting(shown.prefs) = Lasting(disk.value)

ShownOK ==
    /\ ValidLists(shown.lists, shown.prefs.active)
    /\ shown.watchlist = SymbolsOf(shown.lists, shown.prefs.active)

LoadingOK ==
    /\ phase = "loading"
    /\ store = "ready"
    /\ \/ request = [op |-> "load"] /\ reply = None
       \/ /\ request = None
          /\ reply # None /\ reply.ok => reply.prefs = disk.value /\ Loadable

ListingOK ==
    /\ phase = "listing"
    /\ store = "ready" /\ Loadable /\ shown.prefs = disk.value
    /\ \/ request = [op |-> "listing"] /\ reply = None
       \/ request = None /\ (reply # None /\ reply.ok => reply.lists = disk.lists)

ShowingOK ==
    /\ phase \in {"idle", "quitting"}
    /\ store = "ready" /\ Quiet /\ Matches /\ ShownOK

Asked(d) ==
    IF SavesLists(d.message)
    THEN [op |-> "lists", lists |-> d.lists, prefs |-> d.prefs]
    ELSE [op |-> "save", prefs |-> d.prefs]

Drafted(d) ==
    /\ DOMAIN d.prefs = PreferenceFields /\ Chosen(d) = Chosen(shown)
    /\ IF SavesLists(d.message) THEN ValidLists(d.lists, d.prefs.active)
       ELSE d.lists = shown.lists /\ d.prefs.active = shown.prefs.active

SavingOK ==
    /\ phase = "saving"
    /\ store = "ready" /\ ShownOK /\ Drafted(draft)
    /\ \/ request = Asked(draft) /\ reply = None /\ Matches
       \/ /\ request = None
          /\ reply # None => IF reply.ok
                             THEN disk.lists = draft.lists /\ disk.value = draft.prefs
                             ELSE Matches

PhaseOK ==
    \/ phase \in {"off", "opening"} /\ Quiet
    \/ LoadingOK \/ ListingOK \/ ShowingOK \/ SavingOK
    \/ phase \in {"failed", "ended"} /\ request = None

ShownTyped ==
    DOMAIN shown = {"lists", "watchlist", "prefs"} /\ DOMAIN shown.prefs = PreferenceFields

DiskTyped ==
    /\ DOMAIN disk = {"schema", "symbols", "lists", "existing", "value"}
    /\ disk.schema < 2 => disk.lists = <<>>
    /\ disk.existing => DOMAIN disk.value = PreferenceFields
    /\ store = "ready" => disk.schema = 2 /\ disk.existing /\ DOMAIN disk.value = PreferenceFields

DocsInv == ShownTyped /\ DiskTyped /\ PhaseOK

Before == {"off", "opening", "loading", "listing", "failed"}

FetchInv ==
    /\ phase \in Before => fetch = NoFetches /\ candles = Loading
    /\ phase # "ended" => FetchOK(fetch, Chosen(shown))
    /\ HistoryIsSelected

WorkerInv == DocsInv /\ FetchInv

-----------------------------------------------------------------------------
\* What an edit drafts: valid lists or the ones shown, and the selection
\* that is shown.
LEMMA EnteredKeeps ==
  ASSUME NEW p, DOMAIN p = PreferenceFields, NEW text
  PROVE  /\ DOMAIN Entered(p, text) = PreferenceFields
         /\ Entered(p, text).selected = p.selected /\ Entered(p, text).range = p.range
         /\ Entered(p, text).active = p.active /\ Lasting(Entered(p, text)) = Lasting(p)
<1> QED
  BY DEF Entered, Lasting, PreferenceFields

LEMMA ListDraftsOK ==
  ASSUME ShownTyped, NEW p, DOMAIN p = PreferenceFields, NEW m, NEW d \in ListDrafts(p, m)
  PROVE  /\ DOMAIN d.prefs = PreferenceFields
         /\ d.prefs.selected = p.selected /\ d.prefs.range = p.range
         /\ ValidLists(d.lists, d.prefs.active)
<1>1. PICK r \in ApplyWatchlist(shown.lists, p.active, m) :
        d = [lists |-> r.lists,
             prefs |-> [p EXCEPT !.version = 7, !.active = r.active,
                                 !.workspace = Repointed(@, r.lists, r.active)]]
  BY DEF ListDrafts
<1>2. ValidLists(r.lists, r.active)
  BY <1>1 DEF ApplyWatchlist
<1> QED
  BY <1>1, <1>2 DEF PreferenceFields

LEMMA PreferenceDraftsOK ==
  ASSUME ShownTyped, NEW m, NEW p \in PreferenceDrafts(m)
  PROVE  /\ DOMAIN p = PreferenceFields
         /\ p.selected = shown.prefs.selected /\ p.range = shown.prefs.range
         /\ p.active = shown.prefs.active
<1> DEFINE Same(q) == /\ DOMAIN q = PreferenceFields
                      /\ q.selected = shown.prefs.selected /\ q.range = shown.prefs.range
                      /\ q.active = shown.prefs.active
<1>1. Same(Current)
  BY DEF ShownTyped, Current, prefs, PreferenceFields
<1>2. ASSUME NEW w PROVE Same([Current EXCEPT !.workspace = w])
  BY <1>1 DEF PreferenceFields
<1>3. ASSUME NEW b PROVE Same([Current EXCEPT !.workspace.browser = b])
  BY <1>1 DEF PreferenceFields
<1>4. ASSUME NEW v PROVE Same([Current EXCEPT !.workspace.view = v])
  BY <1>1 DEF PreferenceFields
<1>5. ASSUME NEW k PROVE Same([prefs EXCEPT !.keymap = k])
  BY DEF ShownTyped, prefs, PreferenceFields
<1> HIDE DEF Same
<1>6. Same(p)
  BY <1>2, <1>3, <1>4, <1>5 DEF PreferenceDrafts
<1> QED
  BY <1>6 DEF Same

LEMMA DraftsOK ==
  ASSUME ShownTyped, NEW m, NEW d \in Drafts(m)
  PROVE  /\ Drafted([message |-> m, lists |-> d.lists, prefs |-> d.prefs])
         /\ m.kind \notin {"select", "range"}
<1> DEFINE a == [message |-> m, lists |-> d.lists, prefs |-> d.prefs]
<1>1. CASE m.kind = "watchlist"
  <2>1. d \in ListDrafts(shown.prefs, m) /\ SavesLists(m)
    BY <1>1 DEF Drafts, SavesLists, prefs
  <2> QED
    BY <1>1, <2>1, ListDraftsOK DEF Drafted, Chosen, ShownTyped
<1>2. CASE m.kind = "command"
  <2> DEFINE p == Entered(prefs, m.words)
  <2>1. /\ DOMAIN p = PreferenceFields /\ p.selected = prefs.selected
        /\ p.range = prefs.range /\ p.active = prefs.active
    BY EnteredKeeps DEF ShownTyped, prefs
  <2>2. d \in CommandDrafts(m)
    BY <1>2 DEF Drafts
  <2> HIDE DEF p
  <2>3. CASE Does(m) \in {"add", "del"}
    <3>1. d \in ListDrafts(p, CommandEdit(m)) /\ SavesLists(m)
      BY <2>2, <2>3 DEF CommandDrafts, SavesLists, p
    <3> QED
      BY <1>2, <2>1, <3>1, ListDraftsOK DEF Drafted, Chosen, prefs
  <2>4. CASE Does(m) = "write"
    <3>1. d = [lists |-> shown.lists, prefs |-> p] /\ ~SavesLists(m)
      BY <1>2, <2>2, <2>4 DEF CommandDrafts, SavesLists, p
    <3> QED
      BY <1>2, <2>1, <3>1 DEF Drafted, Chosen, prefs
  <2>5. Does(m) \in {"add", "del", "write"}
    BY <2>2 DEF CommandDrafts
  <2> QED
    BY <2>3, <2>4, <2>5
<1>3. CASE m.kind \notin {"watchlist", "command"}
  <2>1. PICK p \in PreferenceDrafts(m) : d = [lists |-> shown.lists, prefs |-> p]
    BY <1>3 DEF Drafts
  <2>2. m.kind \notin {"select", "range"}
    BY <1>3 DEF Drafts
  <2>3. ~SavesLists(m)
    BY <1>3 DEF SavesLists, Does
  <2> QED
    BY <2>1, <2>2, <2>3, PreferenceDraftsOK DEF Drafted, Chosen
<1> QED
  BY <1>1, <1>2, <1>3

LEMMA ImmediateKeeps ==
  ASSUME ShownTyped, NEW m
  PROVE  /\ DOMAIN Immediate(m) = {"lists", "watchlist", "prefs"}
         /\ DOMAIN Immediate(m).prefs = PreferenceFields
         /\ Immediate(m).lists = shown.lists /\ Immediate(m).watchlist = shown.watchlist
         /\ Immediate(m).prefs.active = shown.prefs.active
         /\ Lasting(Immediate(m).prefs) = Lasting(shown.prefs)
         /\ m.kind \notin {"select", "range"} => Chosen(Immediate(m)) = Chosen(shown)
<1>1. CASE m.kind = "select"
  BY <1>1 DEF Immediate, ShownTyped, Lasting, PreferenceFields
<1>2. CASE m.kind = "range"
  BY <1>2 DEF Immediate, ShownTyped, Lasting, PreferenceFields
<1>3. CASE m.kind = "command"
  <2> DEFINE p == Entered(shown.prefs, m.words)
  <2>1. Immediate(m) = [shown EXCEPT !.prefs = p]
    BY <1>3 DEF Immediate
  <2>2. /\ DOMAIN p = PreferenceFields /\ p.selected = shown.prefs.selected
        /\ p.range = shown.prefs.range /\ p.active = shown.prefs.active
        /\ Lasting(p) = Lasting(shown.prefs)
    BY EnteredKeeps DEF ShownTyped
  <2> HIDE DEF p
  <2> QED
    BY <2>1, <2>2 DEF ShownTyped, Chosen
<1>4. CASE m.kind \notin {"select", "range", "command"}
  BY <1>4 DEF Immediate, ShownTyped
<1> QED
  BY <1>1, <1>2, <1>3, <1>4

-----------------------------------------------------------------------------
\* The store's steps, in every phase of the worker.
LEMMA OpeningKeeps ==
  ASSUME DocsInv, CreateSchema \/ NameLists \/ Seed \/ RefuseNewer, UNCHANGED volatile
  PROVE  DocsInv'
<1>1. DiskTyped'
  <2>1. CASE CreateSchema
    BY <2>1 DEF CreateSchema, DocsInv, DiskTyped
  <2>2. CASE NameLists
    BY <2>2 DEF NameLists, DocsInv, DiskTyped
  <2>3. CASE Seed
    <3> DEFINE value == IF disk.existing THEN disk.value ELSE DefaultPreferences
    <3>1. DOMAIN value = PreferenceFields
      BY DEF DefaultPreferences, PreferenceFields, DocsInv, DiskTyped
    <3>2. disk' = [disk EXCEPT !.value = value, !.lists = SeedLists(@), !.existing = TRUE]
      BY <2>3 DEF Seed
    <3> HIDE DEF value
    <3>3. /\ DOMAIN disk' = DOMAIN disk /\ disk'.value = value /\ disk'.schema = 2
          /\ disk'.existing
      BY <2>3, <3>2 DEF Seed, DocsInv, DiskTyped
    <3> QED
      BY <3>1, <3>3 DEF DocsInv, DiskTyped
  <2>4. CASE RefuseNewer
    BY <2>4 DEF RefuseNewer, DocsInv, DiskTyped
  <2> QED
    BY <2>1, <2>2, <2>3, <2>4
<1>2. store = "opening" /\ UNCHANGED <<request, reply, phase, shown>>
  BY DEF CreateSchema, NameLists, Seed, RefuseNewer, volatile
<1>3. \/ phase \in {"off", "opening"} /\ Quiet
      \/ phase \in {"failed", "ended"} /\ request = None
  BY <1>2 DEF DocsInv, PhaseOK, LoadingOK, ListingOK, ShowingOK, SavingOK
<1>4. PhaseOK'
  BY <1>2, <1>3 DEF PhaseOK, Quiet
<1> QED
  BY <1>1, <1>2, <1>4 DEF DocsInv, ShownTyped

\* A save is committed with the documents drafted, or not at all.
LEMMA SavesKeep ==
  ASSUME DocsInv, Save \/ SaveLists, UNCHANGED volatile
  PROVE  DocsInv'
<1>1. /\ store = "ready" /\ request # None /\ request.op \in {"save", "lists"}
      /\ UNCHANGED <<store, phase, shown, draft>> /\ request' = None
  BY DEF Save, SaveLists, volatile, Answer
<1>2. SavingOK /\ request = Asked(draft) /\ Matches
  BY <1>1 DEF DocsInv, PhaseOK, LoadingOK, ListingOK, ShowingOK, SavingOK, Quiet
<1>3. Drafted(draft) /\ Drafted(draft)' /\ ShownOK'
  BY <1>1, <1>2 DEF SavingOK, Drafted, ShownOK, Chosen, SavesLists, Does, Parsed
<1>4. \/ disk' = [disk EXCEPT !.value = draft.prefs, !.lists = draft.lists] /\ reply' = Done
      \/ disk' = disk /\ reply' = Failed
  <2>1. CASE SavesLists(draft.message)
    <3>1. request = [op |-> "lists", lists |-> draft.lists, prefs |-> draft.prefs]
      BY <1>2, <2>1 DEF Asked
    <3> QED
      BY <3>1 DEF Save, SaveLists, Answer
  <2>2. CASE ~SavesLists(draft.message)
    <3>1. request = [op |-> "save", prefs |-> draft.prefs]
      BY <1>2, <2>2 DEF Asked
    <3>2. draft.lists = disk.lists
      BY <1>2, <1>3, <2>2 DEF Drafted, Matches
    <3> QED
      BY <3>1, <3>2 DEF Save, SaveLists, Answer, DocsInv, DiskTyped
  <2> QED
    BY <2>1, <2>2
<1>5. CASE disk' = [disk EXCEPT !.value = draft.prefs, !.lists = draft.lists] /\ reply' = Done
  <2>1. /\ DOMAIN disk' = DOMAIN disk /\ disk'.value = draft.prefs
        /\ disk'.lists = draft.lists /\ disk'.schema = disk.schema
        /\ disk'.existing = disk.existing
    BY <1>5 DEF DocsInv, DiskTyped
  <2>2. SavingOK'
    BY <1>1, <1>2, <1>3, <1>5, <2>1 DEF SavingOK, Done
  <2>3. DiskTyped'
    BY <1>1, <1>3, <2>1 DEF DocsInv, DiskTyped, Drafted
  <2> QED
    BY <1>1, <2>2, <2>3 DEF DocsInv, ShownTyped, PhaseOK
<1>6. CASE disk' = disk /\ reply' = Failed
  <2>1. SavingOK'
    BY <1>1, <1>2, <1>3, <1>6 DEF SavingOK, Matches, Failed
  <2> QED
    BY <1>1, <1>6, <2>1 DEF DocsInv, ShownTyped, DiskTyped, PhaseOK
<1> QED
  BY <1>4, <1>5, <1>6

\* Loading upgrades, renames and reads; each leaves the store's own record.
LEMMA LoadsKeep ==
  ASSUME DocsInv, LoadUpgrade \/ LoadRename \/ LoadRead, UNCHANGED volatile
  PROVE  DocsInv'
<1>1. /\ store = "ready" /\ request # None /\ request.op = "load"
      /\ UNCHANGED <<store, phase, shown>>
  BY DEF LoadUpgrade, LoadRename, LoadRead, volatile
<1>2. LoadingOK /\ request = [op |-> "load"] /\ reply = None
  <2>1. SavingOK => request.op # "load" \/ request = None
    BY DEF SavingOK, Asked
  <2> QED
    BY <1>1, <2>1 DEF DocsInv, PhaseOK, LoadingOK, ListingOK, ShowingOK, SavingOK, Quiet
<1>3. ASSUME NEW v, disk' = [disk EXCEPT !.value = v], DOMAIN v = PreferenceFields,
             UNCHANGED <<request, reply>>
      PROVE  DocsInv'
  <2>1. /\ DOMAIN disk' = DOMAIN disk /\ disk'.value = v
        /\ disk'.lists = disk.lists /\ disk'.schema = disk.schema
        /\ disk'.existing = disk.existing
    BY <1>3 DEF DocsInv, DiskTyped
  <2>2. LoadingOK'
    BY <1>1, <1>2, <1>3 DEF LoadingOK
  <2>3. DiskTyped'
    BY <1>1, <1>3, <2>1 DEF DocsInv, DiskTyped
  <2> QED
    BY <1>1, <2>2, <2>3 DEF DocsInv, ShownTyped, PhaseOK
<1>4. ASSUME UNCHANGED disk, NEW r, Answer(r), r.ok => r.prefs = disk.value /\ Loadable
      PROVE  DocsInv'
  <2>1. LoadingOK'
    BY <1>1, <1>2, <1>4 DEF LoadingOK, Answer, Loadable
  <2> QED
    BY <1>1, <1>4, <2>1 DEF DocsInv, ShownTyped, DiskTyped, PhaseOK
<1>5. DOMAIN disk.value = PreferenceFields
  BY <1>1 DEF DocsInv, DiskTyped
<1>6. CASE LoadUpgrade
  <2>1. CASE UNCHANGED disk /\ Answer(Failed)
    BY <2>1, <1>4 DEF Failed
  <2>2. ASSUME NEW p \in Upgraded(disk.value), disk' = [disk EXCEPT !.value = p],
               UNCHANGED <<request, reply>>
        PROVE  DocsInv'
    <3>1. DOMAIN p = PreferenceFields
      BY <1>5, <2>2 DEF Upgraded, PreferenceFields
    <3> QED
      BY <1>3, <2>2, <3>1
  <2> QED
    BY <1>6, <2>1, <2>2 DEF LoadUpgrade
<1>7. CASE LoadRename
  <2>1. CASE UNCHANGED disk /\ Answer(Failed)
    BY <2>1, <1>4 DEF Failed
  <2>2. CASE /\ disk' = [disk EXCEPT !.value.workspace = RenameLegacyDesk(@)]
             /\ UNCHANGED <<request, reply>>
    <3> DEFINE v == [disk.value EXCEPT !.workspace = RenameLegacyDesk(@)]
    <3>1. disk' = [disk EXCEPT !.value = v] /\ DOMAIN v = PreferenceFields
      BY <1>5, <2>2 DEF PreferenceFields
    <3> HIDE DEF v
    <3> QED
      BY <1>3, <2>2, <3>1
  <2> QED
    BY <1>7, <2>1, <2>2 DEF LoadRename
<1>8. CASE LoadRead
  <2> DEFINE loaded == [ok |-> TRUE, prefs |-> disk.value]
  <2>1. UNCHANGED disk /\ ((Loadable /\ Answer(loaded)) \/ Answer(Failed))
    BY <1>8 DEF LoadRead
  <2>2. loaded.ok /\ loaded.prefs = disk.value /\ ~Failed.ok
    BY DEF Failed
  <2> HIDE DEF loaded
  <2> QED
    BY <1>4, <2>1, <2>2
<1> QED
  BY <1>6, <1>7, <1>8

LEMMA ListingKeeps ==
  ASSUME DocsInv, Lists, UNCHANGED volatile
  PROVE  DocsInv'
<1>1. /\ store = "ready" /\ request # None /\ request.op = "listing"
      /\ UNCHANGED <<store, phase, shown, disk>>
      /\ request' = None /\ reply' \in {[ok |-> TRUE, lists |-> disk.lists], Failed}
  BY DEF Lists, volatile, Answer
<1>2. ListingOK
  <2>1. SavingOK => request.op # "listing" \/ request = None
    BY DEF SavingOK, Asked
  <2> QED
    BY <1>1, <2>1 DEF DocsInv, PhaseOK, LoadingOK, ListingOK, ShowingOK, SavingOK, Quiet
<1>3. ListingOK'
  BY <1>1, <1>2 DEF ListingOK, Loadable, Failed
<1> QED
  BY <1>1, <1>3 DEF DocsInv, ShownTyped, DiskTyped, PhaseOK

LEMMA StoreKeeps ==
  ASSUME DocsInv, StoreStep
  PROVE  DocsInv'
<1> QED
  BY OpeningKeeps, SavesKeep, LoadsKeep, ListingKeeps DEF StoreStep, StoreNext

-----------------------------------------------------------------------------
\* The worker's steps.
LEMMA DocsStutter ==
  ASSUME DocsInv, UNCHANGED <<storeVars, phase, shown, draft>>
  PROVE  DocsInv'
<1>1. UNCHANGED <<disk, store, request, reply, phase, shown, draft>>
  BY DEF storeVars
<1>2. ShownTyped' /\ DiskTyped'
  BY <1>1 DEF DocsInv, ShownTyped, DiskTyped
<1>3. UNCHANGED <<Matches, ShownOK, Quiet, Loadable>>
  BY <1>1 DEF Matches, ShownOK, Quiet, Loadable
<1>4. UNCHANGED Asked(draft) /\ UNCHANGED Drafted(draft)
  BY <1>1 DEF Asked, Drafted, SavesLists, Does, Parsed, Chosen
<1>5. PhaseOK'
  BY <1>1, <1>3, <1>4 DEF DocsInv, PhaseOK, LoadingOK, ListingOK, ShowingOK, SavingOK
<1> QED
  BY <1>2, <1>5 DEF DocsInv

LEMMA StartingKeeps ==
  ASSUME DocsInv, Boot \/ AskLoad \/ AskLists \/ Start \/ StartFails \/ Restart
  PROVE  DocsInv'
<1>1. CASE Boot
  <2>1. PhaseOK'
    BY <1>1 DEF Boot, DocsInv, PhaseOK, LoadingOK, ListingOK, ShowingOK, SavingOK, Quiet
  <2> QED
    BY <1>1, <2>1 DEF Boot, DocsInv, ShownTyped, DiskTyped
<1>2. CASE AskLoad
  <2>1. Quiet
    BY <1>2 DEF AskLoad, DocsInv, PhaseOK, LoadingOK, ListingOK, ShowingOK, SavingOK
  <2>2. PhaseOK'
    BY <1>2, <2>1 DEF AskLoad, Ask, PhaseOK, LoadingOK, Quiet, storeVars
  <2> QED
    BY <1>2, <2>2 DEF AskLoad, Ask, DocsInv, ShownTyped, DiskTyped, storeVars
<1>3. CASE AskLists
  <2>1. /\ store = "ready" /\ request = None
        /\ reply.ok => reply.prefs = disk.value /\ Loadable
    BY <1>3 DEF AskLists, DocsInv, PhaseOK, LoadingOK, ListingOK, ShowingOK, SavingOK
  <2>2. UNCHANGED <<disk, store>>
    BY <1>3 DEF AskLists, Ask, storeVars
  <2>3. CASE reply.ok
    <3>1. /\ phase' = "listing" /\ shown' = [shown EXCEPT !.prefs = disk.value]
          /\ request' = [op |-> "listing"] /\ reply' = None
      BY <1>3, <2>1, <2>3 DEF AskLists, Ask
    <3>2. ShownTyped' /\ shown'.prefs = disk.value
      BY <2>1, <3>1 DEF DocsInv, ShownTyped, DiskTyped
    <3>3. ListingOK'
      BY <2>1, <2>2, <2>3, <3>1, <3>2 DEF ListingOK, Loadable
    <3> QED
      BY <2>2, <3>2, <3>3 DEF DocsInv, DiskTyped, PhaseOK
  <2>4. CASE ~reply.ok
    <3>1. phase' = "failed" /\ UNCHANGED <<shown, request>>
      BY <1>3, <2>4 DEF AskLists, storeVars
    <3> QED
      BY <2>1, <2>2, <3>1 DEF DocsInv, ShownTyped, DiskTyped, PhaseOK
  <2> QED
    BY <2>3, <2>4
<1>4. CASE Start
  <2>1. /\ store = "ready" /\ request = None /\ reply.lists = disk.lists
        /\ Loadable /\ shown.prefs = disk.value
    BY <1>4 DEF Start, DocsInv, PhaseOK, LoadingOK, ListingOK, ShowingOK, SavingOK
  <2> DEFINE p == [shown.prefs EXCEPT !.selected = FirstSelection(shown.prefs, reply.lists)]
  <2>2. /\ shown' = [lists |-> disk.lists,
                     watchlist |-> SymbolsOf(disk.lists, shown.prefs.active), prefs |-> p]
        /\ phase' = "idle" /\ reply' = None /\ UNCHANGED <<disk, store, request>>
    BY <1>4, <2>1 DEF Start
  <2>3. /\ DOMAIN p = PreferenceFields /\ p.active = shown.prefs.active
        /\ Lasting(p) = Lasting(shown.prefs)
    BY DEF DocsInv, ShownTyped, PreferenceFields, Lasting
  <2> HIDE DEF p
  <2>4. ShownTyped' /\ Matches' /\ ShownOK'
    BY <2>1, <2>2, <2>3 DEF ShownTyped, Matches, ShownOK, Loadable
  <2> QED
    BY <2>1, <2>2, <2>4 DEF DocsInv, DiskTyped, PhaseOK, ShowingOK, Quiet
<1>5. CASE StartFails
  <2>1. request = None
    BY <1>5 DEF StartFails, DocsInv, PhaseOK, LoadingOK, ListingOK, ShowingOK, SavingOK
  <2> QED
    BY <1>5, <2>1 DEF StartFails, storeVars, DocsInv, ShownTyped, DiskTyped, PhaseOK
<1>6. CASE Restart
  <2>1. DOMAIN shown'.prefs = PreferenceFields
    BY <1>6 DEF Restart, Unread, DefaultPreferences, PreferenceFields
  <2> QED
    BY <1>6, <2>1 DEF Restart, Unread, DocsInv, ShownTyped, DiskTyped, PhaseOK, Quiet
<1> QED
  BY <1>1, <1>2, <1>3, <1>4, <1>5, <1>6

LEMMA ServeKeepsDocs ==
  ASSUME DocsInv, Serve
  PROVE  DocsInv'
<1> DEFINE m == Head(inbox)
<1>1. /\ ShowingOK /\ UNCHANGED <<disk, store>> /\ shown' = Immediate(m)
      /\ \/ phase' \in {"idle", "quitting"} /\ UNCHANGED <<request, reply>>
         \/ \E d \in Drafts(m) :
              /\ phase' = "saving"
              /\ draft' = [message |-> m, lists |-> d.lists, prefs |-> d.prefs]
              /\ request' = Asked(draft') /\ reply' = None
  BY DEF Serve, Ask, Asked, storeVars, DocsInv, PhaseOK, LoadingOK, ListingOK, ShowingOK,
         SavingOK
<1> HIDE DEF m
<1>2. /\ ShownTyped' /\ shown'.lists = shown.lists /\ shown'.watchlist = shown.watchlist
      /\ shown'.prefs.active = shown.prefs.active
      /\ Lasting(shown'.prefs) = Lasting(shown.prefs)
      /\ m.kind \notin {"select", "range"} => Chosen(shown') = Chosen(shown)
  BY <1>1, ImmediateKeeps DEF DocsInv, ShownTyped
<1>3. Matches' /\ ShownOK'
  BY <1>1, <1>2 DEF ShowingOK, Matches, ShownOK
<1>4. DiskTyped'
  BY <1>1 DEF DocsInv, DiskTyped
<1>5. CASE phase' \in {"idle", "quitting"} /\ UNCHANGED <<request, reply>>
  BY <1>1, <1>2, <1>3, <1>4, <1>5 DEF DocsInv, PhaseOK, ShowingOK, Quiet
<1>6. ASSUME NEW d \in Drafts(m), phase' = "saving",
             draft' = [message |-> m, lists |-> d.lists, prefs |-> d.prefs],
             request' = Asked(draft'), reply' = None
      PROVE  DocsInv'
  <2>1. Drafted(draft') /\ Chosen(shown') = Chosen(shown)
    BY <1>2, <1>6, DraftsOK DEF DocsInv
  <2>2. Drafted(draft)'
    BY <1>2, <2>1 DEF Drafted, SavesLists, Does, Parsed, Chosen
  <2>3. Asked(draft)' = Asked(draft')
    BY DEF Asked, SavesLists, Does, Parsed
  <2>4. SavingOK'
    BY <1>1, <1>3, <1>6, <2>2, <2>3 DEF SavingOK, ShowingOK
  <2> QED
    BY <1>2, <1>4, <2>4 DEF DocsInv, PhaseOK
<1> QED
  BY <1>1, <1>5, <1>6

LEMMA FinishKeepsDocs ==
  ASSUME DocsInv, Finish
  PROVE  DocsInv' /\ Chosen(shown') = Chosen(shown)
<1>1. /\ SavingOK /\ request = None
      /\ IF reply.ok THEN disk.lists = draft.lists /\ disk.value = draft.prefs ELSE Matches
  BY DEF Finish, DocsInv, PhaseOK, LoadingOK, ListingOK, ShowingOK, SavingOK
<1>2. /\ phase' = "idle" /\ reply' = None /\ UNCHANGED <<disk, store, request>>
      /\ shown' = IF reply.ok THEN Install(draft) ELSE shown
  BY DEF Finish
<1>3. ShownTyped' /\ ShownOK' /\ Matches' /\ Chosen(shown') = Chosen(shown)
  <2>1. CASE ~reply.ok
    BY <1>1, <1>2, <2>1 DEF SavingOK, DocsInv, ShownTyped, ShownOK, Matches
  <2>2. CASE reply.ok
    <3> DEFINE w == IF SavesLists(draft.message)
                    THEN SymbolsOf(draft.lists, draft.prefs.active) ELSE shown.watchlist
    <3>1. shown' = [lists |-> draft.lists, watchlist |-> w, prefs |-> draft.prefs]
      BY <1>2, <2>2 DEF Install
    <3>2. /\ ValidLists(draft.lists, draft.prefs.active)
          /\ w = SymbolsOf(draft.lists, draft.prefs.active)
          /\ DOMAIN draft.prefs = PreferenceFields /\ Chosen(draft) = Chosen(shown)
      BY <1>1 DEF SavingOK, Drafted, ShownOK
    <3> HIDE DEF w
    <3> QED
      BY <1>1, <1>2, <2>2, <3>1, <3>2 DEF ShownTyped, ShownOK, Matches, Chosen
  <2> QED
    BY <2>1, <2>2
<1>4. ShowingOK'
  BY <1>1, <1>2, <1>3 DEF ShowingOK, SavingOK, Quiet
<1> QED
  BY <1>2, <1>3, <1>4 DEF DocsInv, DiskTyped, PhaseOK

LEMMA EndKeepsDocs ==
  ASSUME DocsInv, End
  PROVE  DocsInv'
<1>1. ShowingOK /\ phase' = "ended" /\ UNCHANGED <<disk, store, request, shown>>
  BY DEF End, storeVars, DocsInv, PhaseOK, LoadingOK, ListingOK, ShowingOK, SavingOK
<1> QED
  BY <1>1 DEF DocsInv, ShownTyped, DiskTyped, PhaseOK, ShowingOK, Quiet

-----------------------------------------------------------------------------
\* The scheduler's invariant, step by step.
LEMMA NoFetchesOK ==
  ASSUME NEW chosen
  PROVE  FetchOK(NoFetches, chosen)
<1> QED
  BY DEF NoFetches, FetchOK, FetchFields

LEMMA FetchStutter ==
  ASSUME FetchInv, UNCHANGED <<fetch, candles, shown>>,
         phase' \in Before => phase \in Before, phase' # "ended" => phase # "ended"
  PROVE  FetchInv'
<1> QED
  BY DEF FetchInv, HistoryIsSelected, prefs, Chosen

\* While the worker starts there is neither a fetch nor a history.
LEMMA StartingKeepsFetches ==
  ASSUME DocsInv, FetchInv, Boot \/ AskLoad \/ AskLists \/ Start \/ StartFails \/ Restart
  PROVE  FetchInv'
<1>1. fetch' = NoFetches /\ candles' = Loading
  BY DEF FetchInv, Before, Boot, AskLoad, AskLists, Start, StartFails, Restart
<1> QED
  BY <1>1, NoFetchesOK DEF FetchInv, HistoryIsSelected, Loading

LEMMA ServeKeepsFetches ==
  ASSUME DocsInv, FetchInv, Serve
  PROVE  FetchInv'
<1> DEFINE m == Head(inbox)
<1>1. /\ phase = "idle" /\ phase' \notin Before /\ shown' = Immediate(m)
      /\ \/ /\ fetch' = Rescheduled(m, shown', fetch)
            /\ candles' = IF Chosen(shown') # Chosen(shown) THEN Loading ELSE candles
         \/ Drafts(m) # {} /\ UNCHANGED <<fetch, candles>>
  BY DEF Serve, Before
<1> HIDE DEF m
<1>2. m.kind \notin {"select", "range"} => Chosen(shown') = Chosen(shown)
  BY <1>1, ImmediateKeeps DEF DocsInv
<1>3. FetchOK(fetch, Chosen(shown)) /\ (candles.data => candles.of = Chosen(shown))
  BY <1>1 DEF FetchInv, HistoryIsSelected, prefs, Chosen
<1>4. CASE Drafts(m) # {} /\ UNCHANGED <<fetch, candles>>
  <2>1. Chosen(shown') = Chosen(shown)
    BY <1>2, <1>4, DraftsOK DEF DocsInv
  <2> QED
    BY <1>1, <1>3, <1>4, <2>1 DEF FetchInv, HistoryIsSelected, prefs, Chosen
<1>5. CASE /\ fetch' = Rescheduled(m, shown', fetch)
           /\ candles' = IF Chosen(shown') # Chosen(shown) THEN Loading ELSE candles
  <2>1. FetchOK(fetch', Chosen(shown'))
    <3>1. CASE m.kind = "command"
      BY <1>2, <1>3, <1>5, <3>1, ReconciledKeeps DEF Rescheduled
    <3>2. CASE m.kind # "command"
      BY <1>2, <1>3, <1>5, <3>2, ResetKeeps DEF Rescheduled
    <3> QED
      BY <3>1, <3>2
  <2>2. candles'.data => candles'.of = Chosen(shown')
    BY <1>3, <1>5 DEF Loading
  <2> QED
    BY <1>1, <2>1, <2>2 DEF FetchInv, HistoryIsSelected, prefs, Chosen
<1> QED
  BY <1>1, <1>4, <1>5

LEMMA FinishKeepsFetches ==
  ASSUME DocsInv, FetchInv, Finish
  PROVE  FetchInv'
<1>1. /\ phase = "saving" /\ phase' = "idle" /\ UNCHANGED candles
      /\ fetch' \in {fetch, Reconciled(fetch, shown')}
  BY DEF Finish
<1>2. Chosen(shown') = Chosen(shown)
  BY FinishKeepsDocs
<1>3. FetchOK(fetch', Chosen(shown'))
  BY <1>1, <1>2, ReconciledKeeps DEF FetchInv
<1> QED
  BY <1>1, <1>2, <1>3 DEF FetchInv, HistoryIsSelected, prefs, Chosen, Before

\* What is due is finite: the lists hold at most so many instruments.
LEMMA LaunchKeepsFetches ==
  ASSUME DocsInv, FetchInv, Launch
  PROVE  FetchInv'
<1> DEFINE f == Reconciled(fetch, shown)
<1>1. /\ phase = "idle" /\ UNCHANGED <<phase, shown, candles>>
      /\ \E keys \in FirstKeys(f) : fetch' = Spawned(f, keys)
  BY DEF Launch
<1>2. FetchOK(f, Chosen(shown)) /\ DOMAIN f.schedule = WantedKeys(fetch, shown, native)
  BY <1>1, ReconciledKeeps DEF FetchInv
<1>3. ShownOK
  BY <1>1 DEF DocsInv, PhaseOK, LoadingOK, ListingOK, ShowingOK, SavingOK
<1> DEFINE selected == {shown.prefs.selected} \ {None}
           symbols == shown.watchlist \cup selected
           quoted == {Quote(i) : i \in symbols}
           charted == {History(fetch.generation) : i \in selected}
<1>4. IsFiniteSet(shown.watchlist)
  <2>1. IsFiniteSet(Held(shown.lists))
    BY <1>3 DEF ShownOK, ValidLists
  <2>2. shown.watchlist \subseteq Held(shown.lists)
    BY <1>3 DEF ShownOK, SymbolsOf, Held, At
  <2> QED
    BY <2>1, <2>2, FS_Subset
<1>5. IsFiniteSet(selected)
  BY FS_Singleton, FS_Difference
<1>6. IsFiniteSet(quoted)
  <2>1. IsFiniteSet(symbols)
    BY <1>4, <1>5, FS_Union
  <2>2. [i \in symbols |-> Quote(i)] \in Surjection(symbols, quoted)
    BY DEF Surjection
  <2> HIDE DEF symbols, quoted
  <2> QED
    BY <2>1, <2>2, FS_Surjection
<1>7. IsFiniteSet(charted)
  <2>1. charted \subseteq {History(fetch.generation)}
    OBVIOUS
  <2> QED
    BY <2>1, FS_Singleton, FS_Subset
<1>8. IsFiniteSet(DOMAIN f.schedule)
  <2>1. DOMAIN f.schedule \subseteq quoted \cup charted
    BY <1>2 DEF WantedKeys
  <2>2. IsFiniteSet(quoted \cup charted)
    BY <1>6, <1>7, FS_Union
  <2> QED
    BY <2>1, <2>2, FS_Subset
<1> HIDE DEF f
<1>9. PICK keys \in FirstKeys(f) : fetch' = Spawned(f, keys)
  BY <1>1
<1>10. keys \subseteq DOMAIN f.schedule /\ Cardinality(keys) <= MaxTasks - Cardinality(DOMAIN f.tasks)
  BY <1>9 DEF FirstKeys, DueKeys
<1>11. IsFiniteSet(keys)
  BY <1>8, <1>10, FS_Subset
<1>12. FetchOK(fetch', Chosen(shown))
  BY <1>2, <1>9, <1>10, <1>11, SpawnedKeeps
<1> QED
  BY <1>1, <1>12 DEF FetchInv, HistoryIsSelected, prefs, Chosen, Before

LEMMA TaskEndsKeeps ==
  ASSUME FetchInv, phase # "ended", NEW t, TaskEnds(t)
  PROVE  FetchOK(fetch', Chosen(shown))
<1> DEFINE ended == [fetch.tasks[t] EXCEPT !.done = TRUE]
<1>1. FetchOK(fetch, Chosen(shown)) /\ t \in DOMAIN fetch.tasks
  BY DEF FetchInv, TaskEnds
<1>2. fetch' = [fetch EXCEPT !.tasks = [fetch.tasks EXCEPT ![t] = ended]]
  BY <1>1 DEF TaskEnds, FetchOK, FetchFields
<1>3. /\ DOMAIN ended = TaskFields /\ ended.key = fetch.tasks[t].key
      /\ ended.of = fetch.tasks[t].of
  <2>1. DOMAIN fetch.tasks[t] = TaskFields
    BY <1>1 DEF FetchOK
  <2> QED
    BY <2>1 DEF TaskFields
<1> HIDE DEF ended
<1>4. /\ DOMAIN fetch' = FetchFields /\ fetch'.generation = fetch.generation
      /\ fetch'.schedule = fetch.schedule
      /\ fetch'.tasks = [fetch.tasks EXCEPT ![t] = ended]
  BY <1>1, <1>2 DEF FetchOK, FetchFields
<1>5. \A u \in DOMAIN fetch'.tasks :
        /\ DOMAIN fetch'.tasks[u] = TaskFields
        /\ fetch'.tasks[u].key = fetch.tasks[u].key /\ fetch'.tasks[u].of = fetch.tasks[u].of
  BY <1>1, <1>3, <1>4 DEF FetchOK
<1>6. \A k \in DOMAIN fetch.schedule : DOMAIN fetch.schedule[k] = EntryFields
  BY <1>1 DEF FetchOK, EntryOK
<1> QED
  BY <1>1, <1>4, <1>5, <1>6, UpdateKeeps

LEMMA ElapseKeeps ==
  ASSUME FetchInv, phase # "ended", NEW k, Elapse(k)
  PROVE  FetchOK(fetch', Chosen(shown))
<1> DEFINE due == [fetch.schedule[k] EXCEPT !.due = TRUE]
<1>1. FetchOK(fetch, Chosen(shown)) /\ k \in DOMAIN fetch.schedule
  BY DEF FetchInv, Elapse
<1>2. fetch' = [fetch EXCEPT !.schedule = [fetch.schedule EXCEPT ![k] = due]]
  BY <1>1 DEF Elapse, FetchOK, FetchFields
<1>3. \A l \in DOMAIN fetch.schedule : DOMAIN fetch.schedule[l] = EntryFields
  BY <1>1 DEF FetchOK, EntryOK
<1>4. DOMAIN due = EntryFields /\ due.abort = fetch.schedule[k].abort
  BY <1>1, <1>3 DEF EntryFields
<1> HIDE DEF due
<1>5. /\ DOMAIN fetch' = FetchFields /\ fetch'.generation = fetch.generation
      /\ fetch'.schedule = [fetch.schedule EXCEPT ![k] = due]
      /\ fetch'.tasks = fetch.tasks
  BY <1>1, <1>2 DEF FetchOK, FetchFields
<1>6. \A l \in DOMAIN fetch'.schedule :
        /\ DOMAIN fetch'.schedule[l] = EntryFields
        /\ fetch'.schedule[l].abort = fetch.schedule[l].abort
  BY <1>3, <1>4, <1>5
<1>7. \A u \in DOMAIN fetch.tasks : DOMAIN fetch.tasks[u] = TaskFields
  BY <1>1 DEF FetchOK
<1> QED
  BY <1>1, <1>5, <1>6, <1>7, UpdateKeeps

\* A task is joined: entries that hold its handle let go of it.
LEMMA JoinedKeeps ==
  ASSUME NEW chosen, FetchOK(fetch, chosen), NEW t \in DOMAIN fetch.tasks, NEW schedule,
         DOMAIN schedule = DOMAIN fetch.schedule,
         \A k \in DOMAIN schedule :
            /\ DOMAIN schedule[k] = EntryFields
            /\ \/ schedule[k].abort = None
               \/ /\ schedule[k].abort = fetch.schedule[k].abort
                  /\ fetch.schedule[k].abort # t
  PROVE  FetchOK([Joined(t) EXCEPT !.schedule = schedule], chosen)
<1> DEFINE tasks == [u \in DOMAIN fetch.tasks \ {t} |-> fetch.tasks[u]]
           g == [Joined(t) EXCEPT !.schedule = schedule]
<1>1. /\ DOMAIN g = FetchFields /\ g.generation = fetch.generation
      /\ g.schedule = schedule /\ g.tasks = tasks
  BY DEF Joined, FetchOK, FetchFields
<1> HIDE DEF g
<1>2. /\ DOMAIN tasks = DOMAIN fetch.tasks \ {t}
      /\ \A u \in DOMAIN tasks : DOMAIN tasks[u] = TaskFields /\ tasks[u] = fetch.tasks[u]
  BY DEF FetchOK
<1> HIDE DEF tasks
<1>3. FetchOK(g, chosen)
  BY <1>1, <1>2, UpdateKeeps
<1> QED
  BY <1>3 DEF g

LEMMA JoinFailedKeeps ==
  ASSUME FetchInv, NEW t, JoinFailed(t)
  PROVE  FetchOK(fetch', Chosen(shown))
<1> DEFINE entry(k) == IF fetch.schedule[k].abort = t
                       THEN [fetch.schedule[k] EXCEPT !.abort = None] ELSE fetch.schedule[k]
           schedule == [k \in DOMAIN fetch.schedule |-> entry(k)]
<1>1. FetchOK(fetch, Chosen(shown)) /\ t \in DOMAIN fetch.tasks
  BY DEF FetchInv, JoinFailed
<1>2. fetch' = [Joined(t) EXCEPT !.schedule = schedule]
  BY <1>1 DEF JoinFailed, Joined, FetchOK, FetchFields
<1>3. \A k \in DOMAIN fetch.schedule :
        /\ DOMAIN entry(k) = EntryFields
        /\ \/ entry(k).abort = None
           \/ entry(k).abort = fetch.schedule[k].abort /\ fetch.schedule[k].abort # t
  BY <1>1 DEF FetchOK, EntryOK, EntryFields
<1>4. DOMAIN schedule = DOMAIN fetch.schedule /\ \A k \in DOMAIN schedule : schedule[k] = entry(k)
  OBVIOUS
<1> HIDE DEF entry, schedule
<1>5. FetchOK([Joined(t) EXCEPT !.schedule = schedule], Chosen(shown))
  BY <1>1, <1>3, <1>4, JoinedKeeps
<1> QED
  BY <1>2, <1>5

\* A key that is still scheduled is of the quote or history shown now.
LEMMA CompleteKeeps ==
  ASSUME FetchInv, NEW t, Complete(t)
  PROVE  FetchOK(fetch', Chosen(shown)) /\ HistoryIsSelected'
<1> DEFINE k == fetch.tasks[t].key
           answered == [due |-> FALSE, abort |-> None]
<1>1. /\ FetchOK(fetch, Chosen(shown)) /\ t \in DOMAIN fetch.tasks
      /\ phase = "idle" /\ UNCHANGED shown
  BY DEF FetchInv, Complete
<1>2. \A l \in DOMAIN fetch.schedule :
        DOMAIN fetch.schedule[l] = EntryFields /\ (fetch.schedule[l].abort = t => l = k \/ t = None)
  BY <1>1 DEF FetchOK, EntryOK
<1>3. Joined(t) = [Joined(t) EXCEPT !.schedule = fetch.schedule]
  BY <1>1 DEF Joined, FetchOK, FetchFields
<1>4. CASE k \notin DOMAIN fetch.schedule /\ fetch' = Joined(t) /\ UNCHANGED candles
  <2>1. FetchOK(fetch', Chosen(shown))
    BY <1>1, <1>2, <1>3, <1>4, JoinedKeeps
  <2> QED
    BY <1>1, <1>4, <2>1 DEF FetchInv, HistoryIsSelected, prefs
<1>5. CASE /\ k \in DOMAIN fetch.schedule
           /\ fetch' = [Joined(t) EXCEPT !.schedule[k] = answered]
           /\ \E data \in BOOLEAN :
                IF k.kind = "quote" THEN UNCHANGED candles
                ELSE candles' = MergedCandles(fetch.tasks[t].of, data)
  <2> DEFINE schedule == [fetch.schedule EXCEPT ![k] = answered]
  <2>1. fetch' = [Joined(t) EXCEPT !.schedule = schedule]
    BY <1>1, <1>5 DEF Joined, FetchOK, FetchFields
  <2>2. \A l \in DOMAIN fetch.schedule :
          /\ DOMAIN schedule[l] = EntryFields
          /\ \/ schedule[l].abort = None
             \/ schedule[l].abort = fetch.schedule[l].abort /\ fetch.schedule[l].abort # t
    BY <1>2 DEF EntryFields
  <2>3. DOMAIN schedule = DOMAIN fetch.schedule
    OBVIOUS
  <2> HIDE DEF schedule
  <2>4. FetchOK([Joined(t) EXCEPT !.schedule = schedule], Chosen(shown))
    BY <1>1, <2>2, <2>3, JoinedKeeps
  <2>5. FetchOK(fetch', Chosen(shown))
    BY <2>1, <2>4
  <2>6. k.kind # "quote" => fetch.tasks[t].of = Chosen(shown)
    <3>1. SUFFICES ASSUME k.kind # "quote" PROVE fetch.tasks[t].of = Chosen(shown)
      OBVIOUS
    <3>2. k = History(fetch.generation) /\ fetch.generation \in Nat
      BY <1>1, <1>5, <3>1 DEF FetchOK, EntryOK
    <3>3. PICK g \in 0..fetch.generation :
            k = History(g) /\ (g = fetch.generation => fetch.tasks[t].of = Chosen(shown))
      BY <1>1, <3>1 DEF FetchOK, FetchesFor
    <3>4. g = fetch.generation
      BY <3>2, <3>3 DEF History
    <3> QED
      BY <3>3, <3>4
  <2>7. candles.data => candles.of = Chosen(shown)
    BY DEF FetchInv, HistoryIsSelected, prefs, Chosen
  <2>8. candles'.data => candles'.of = Chosen(shown)
    BY <1>5, <2>6, <2>7 DEF MergedCandles
  <2> QED
    BY <1>1, <2>5, <2>8 DEF HistoryIsSelected, prefs, Chosen
<1> QED
  BY <1>4, <1>5 DEF Complete

LEMMA SchedulerKeeps ==
  ASSUME DocsInv, FetchInv, Next
  PROVE  FetchInv'
<1>1. CASE Boot \/ AskLoad \/ AskLists \/ Start \/ StartFails \/ Restart
  BY <1>1, StartingKeepsFetches
<1>2. CASE Serve
  BY <1>2, ServeKeepsFetches
<1>3. CASE Finish
  BY <1>3, FinishKeepsFetches
<1>4. CASE Launch
  BY <1>4, LaunchKeepsFetches
<1>5. CASE End
  <2>1. phase' = "ended" /\ UNCHANGED <<shown, candles>>
    BY <1>5 DEF End
  <2> QED
    BY <2>1 DEF FetchInv, HistoryIsSelected, prefs, Before
<1>6. CASE Send \/ UseNativePanels \/ Stop \/ ResourceChange \/ StoreStep
  <2>1. UNCHANGED <<phase, fetch, candles, shown>>
    BY <1>6 DEF Send, UseNativePanels, Stop, ResourceChange, StoreStep, volatile
  <2> QED
    BY <2>1, FetchStutter
<1>7. ASSUME NEW t \in TaskIds, TaskEnds(t) \/ Complete(t) \/ JoinFailed(t)
      PROVE  FetchInv'
  <2>1. t \in DOMAIN fetch.tasks /\ UNCHANGED <<phase, shown>>
    BY <1>7 DEF TaskEnds, Complete, JoinFailed
  <2>2. phase \notin Before
    BY <2>1 DEF FetchInv, NoFetches
  <2>3. phase # "ended" => FetchOK(fetch', Chosen(shown)) /\ HistoryIsSelected'
    <3>1. CASE Complete(t)
      BY <3>1, CompleteKeeps
    <3>2. CASE TaskEnds(t) \/ JoinFailed(t)
      <4>1. UNCHANGED candles
        BY <3>2 DEF TaskEnds, JoinFailed
      <4> QED
        BY <2>1, <3>2, <4>1, TaskEndsKeeps, JoinFailedKeeps
           DEF FetchInv, HistoryIsSelected, prefs
    <3> QED
      BY <1>7, <3>1, <3>2
  <2>4. phase = "ended" => HistoryIsSelected'
    BY <1>7, <2>1 DEF TaskEnds, Complete, JoinFailed, FetchInv, HistoryIsSelected, prefs
  <2> QED
    BY <2>1, <2>2, <2>3, <2>4 DEF FetchInv
<1>8. ASSUME NEW k \in Keys, Elapse(k)
      PROVE  FetchInv'
  <2>1. k \in DOMAIN fetch.schedule /\ UNCHANGED <<phase, shown, candles>>
    BY <1>8 DEF Elapse
  <2>2. phase \notin Before
    BY <2>1 DEF FetchInv, NoFetches
  <2> QED
    BY <1>8, <2>1, <2>2, ElapseKeeps DEF FetchInv, HistoryIsSelected, prefs
<1> QED
  BY <1>1, <1>2, <1>3, <1>4, <1>5, <1>6, <1>7, <1>8 DEF Next

LEMMA DocsKeep ==
  ASSUME DocsInv, Next
  PROVE  DocsInv'
<1>1. CASE Send \/ UseNativePanels \/ Stop \/ Launch \/ ResourceChange
  <2>1. UNCHANGED <<storeVars, phase, shown, draft>>
    BY <1>1 DEF Send, UseNativePanels, Stop, Launch, ResourceChange
  <2> QED
    BY <2>1, DocsStutter
<1>2. ASSUME NEW t \in TaskIds, TaskEnds(t) \/ Complete(t) \/ JoinFailed(t)
      PROVE  DocsInv'
  <2>1. UNCHANGED <<storeVars, phase, shown, draft>>
    BY <1>2 DEF TaskEnds, Complete, JoinFailed
  <2> QED
    BY <2>1, DocsStutter
<1>3. ASSUME NEW k \in Keys, Elapse(k)
      PROVE  DocsInv'
  <2>1. UNCHANGED <<storeVars, phase, shown, draft>>
    BY <1>3 DEF Elapse
  <2> QED
    BY <2>1, DocsStutter
<1> QED
  BY <1>1, <1>2, <1>3, StartingKeeps, ServeKeepsDocs, FinishKeepsDocs, EndKeepsDocs,
     StoreKeeps DEF Next

-----------------------------------------------------------------------------
(* The theorems about where the documents are.                               *)

LEMMA WorkerInit == Init => WorkerInv
<1> SUFFICES ASSUME Init PROVE WorkerInv
  OBVIOUS
<1>1. ShownTyped
  BY DEF Init, ShownTyped, Unread, DefaultPreferences, PreferenceFields
<1>2. DiskTyped
  <2>1. DOMAIN DefaultPreferences = PreferenceFields
    BY DEF DefaultPreferences, PreferenceFields
  <2> QED
    BY <2>1, WorkerAssumption DEF Init, StoreInit, DiskTyped, WrittenFor
<1>3. PhaseOK
  BY DEF Init, StoreInit, PhaseOK, Quiet
<1>4. FetchInv
  BY NoFetchesOK DEF Init, FetchInv, HistoryIsSelected, Loading, Before
<1> QED
  BY <1>1, <1>2, <1>3, <1>4 DEF WorkerInv, DocsInv

(* Both inductive invariants hold: in every phase the documents are where    *)
(* the exchange with the store says they are, and every fetch is for a key   *)
(* of the scheduler or for a history that was dropped.                       *)
THEOREM WorkerInvariant == Spec => []WorkerInv
<1>1. WorkerInv /\ [Next]_vars => WorkerInv'
  <2> SUFFICES ASSUME WorkerInv, [Next]_vars PROVE WorkerInv'
    OBVIOUS
  <2>1. CASE Next
    BY <2>1, SchedulerKeeps, DocsKeep DEF WorkerInv
  <2>2. CASE UNCHANGED vars
    <3>1. UNCHANGED <<storeVars, phase, shown, draft, fetch, candles>>
      BY <2>2 DEF vars, volatile
    <3> QED
      BY <3>1, DocsStutter, FetchStutter DEF WorkerInv
  <2> QED
    BY <2>1, <2>2
<1>2. Spec => Init /\ [][Next]_vars
  BY DEF Spec
<1> QED
  BY <1>1, <1>2, WorkerInit, PTL

(* Outside of a save the snapshot shows what a restart would find, for every *)
(* order of edits, commits, failed saves and restarts.                       *)
THEOREM SavedIsShown == Spec => []ShownIsSaved
<1>1. WorkerInv => ShownIsSaved
  BY DEF WorkerInv, DocsInv, PhaseOK, LoadingOK, ListingOK, ShowingOK, SavingOK, ShownIsSaved,
         Matches, ShownOK, prefs
<1> QED
  BY <1>1, WorkerInvariant, PTL

(* The history shown is of the symbol and the range selected.                *)
THEOREM SelectedHistory == Spec => []HistoryIsSelected
<1>1. WorkerInv => HistoryIsSelected
  BY DEF WorkerInv, FetchInv
<1> QED
  BY <1>1, WorkerInvariant, PTL

(* No key waits for a task that nobody will join.                            *)
THEOREM LiveHandles == Spec => []HandlesAreLive
<1>1. WorkerInv => HandlesAreLive
  BY DEF WorkerInv, FetchInv, FetchOK, EntryOK, HandlesAreLive
<1> QED
  BY <1>1, WorkerInvariant, PTL

KeepsLists ==
    disk'.lists # disk.lists =>
        \/ request # None /\ request.op = "lists"
        \/ store = "opening" /\ disk.lists = <<>>

(* Lists change on the disk by saving them, or while an empty namespace is   *)
(* opened; no restart brings one back or takes one away.                     *)
THEOREM ListsSaved == Spec => ListsChangeBySaving
<1>1. DiskTyped /\ [Next]_vars => KeepsLists
  <2> SUFFICES ASSUME DiskTyped, [Next]_vars, disk' # disk PROVE KeepsLists
    BY DEF KeepsLists
  <2>1. StoreNext
    BY DEF Next, vars, storeVars, Boot, AskLoad, AskLists, Start, StartFails, Restart, Send,
           UseNativePanels, Stop, Serve, Finish, End, Launch, ResourceChange, TaskEnds,
           Complete, JoinFailed, Elapse, StoreStep, Ask
  <2>2. CASE CreateSchema \/ NameLists \/ RefuseNewer
    BY <2>2 DEF CreateSchema, NameLists, RefuseNewer, KeepsLists, DiskTyped
  <2>3. CASE Seed
    <3>1. disk'.lists = SeedLists(disk.lists) /\ store = "opening"
      BY <2>3 DEF Seed, DiskTyped
    <3> QED
      BY <3>1 DEF SeedLists, KeepsLists
  <2>4. CASE SaveLists
    BY <2>4 DEF SaveLists, KeepsLists
  <2>5. CASE Save \/ LoadUpgrade \/ LoadRename \/ LoadRead \/ Lists
    BY <2>5 DEF Save, LoadUpgrade, LoadRename, LoadRead, Lists, KeepsLists, DiskTyped
  <2> QED
    BY <2>1, <2>2, <2>3, <2>4, <2>5 DEF StoreNext
<1>2. WorkerInv => DiskTyped
  BY DEF WorkerInv, DocsInv
<1>3. Spec => [][Next]_vars
  BY DEF Spec
<1>4. ListsChangeBySaving <=> [][KeepsLists]_vars
  BY DEF ListsChangeBySaving, KeepsLists
<1> QED
  BY <1>1, <1>2, <1>3, <1>4, WorkerInvariant, PTL

-----------------------------------------------------------------------------
\* What the documents say.

\* Workspaces whose panels show the same lists.
SameLists(v, w) ==
    /\ DOMAIN w.layouts = DOMAIN v.layouts
    /\ \A i \in DOMAIN v.layouts :
          /\ DOMAIN w.layouts[i].panels = DOMAIN v.layouts[i].panels
          /\ \A p \in DOMAIN v.layouts[i].panels :
                w.layouts[i].panels[p].list = v.layouts[i].panels[p].list

\* The charts that a layout of v and one of w with its name both have.
SameCharts(v, w) ==
    \A i \in DOMAIN v.layouts, j \in DOMAIN w.layouts :
        v.layouts[i].name = w.layouts[j].name =>
            \A p \in DOMAIN v.layouts[i].panels \cap DOMAIN w.layouts[j].panels :
                /\ w.layouts[j].panels[p].chart = v.layouts[i].panels[p].chart
                /\ w.layouts[j].panels[p].drawings = v.layouts[i].panels[p].drawings

LayoutFields == {"name", "root", "panels"}

PanelFields == {"kind", "list", "pin", "chart", "drawings"}

WorkspaceFields == {"view", "browser", "active", "layouts"}

LEMMA SameListsDangle ==
  ASSUME NEW v, NEW w, SameLists(v, w), NEW ids, ~Dangling(v, ids)
  PROVE  ~Dangling(w, ids)
<1> QED
  BY DEF SameLists, Dangling

\* The names of layouts tell them apart in a valid workspace, so the charts of
\* a workspace are those of itself, panel by panel.
LEMMA ChartsOfItself ==
  ASSUME NEW v, NEW w, ValidWorkspace(v), w.layouts = v.layouts
  PROVE  SameCharts(v, w)
<1>1. \A i, j \in DOMAIN v.layouts : v.layouts[i].name = v.layouts[j].name => i = j
  <2>1. Distinct([i \in DOMAIN v.layouts |-> v.layouts[i].name])
    BY DEF ValidWorkspace
  <2> QED
    BY <2>1 DEF Distinct
<1> QED
  BY <1>1 DEF SameCharts

-----------------------------------------------------------------------------
\* The panels whose list is gone show one that is there, and are otherwise the same.
LEMMA RepointedSound ==
  ASSUME NEW w, Shaped(w), NEW lists, NEW active \in Ids(lists)
  PROVE  /\ Shaped(Repointed(w, lists, active))
         /\ ~Dangling(Repointed(w, lists, active), Ids(lists))
         /\ ValidWorkspace(w) => SameCharts(w, Repointed(w, lists, active))
<1> DEFINE Showing(id) == IF id # None /\ id \notin Ids(lists) THEN active ELSE id
           panel(i, p) == [w.layouts[i].panels[p] EXCEPT
                            !.list = Showing(w.layouts[i].panels[p].list)]
           panels(i) == [p \in DOMAIN w.layouts[i].panels |-> panel(i, p)]
           layout(i) == [w.layouts[i] EXCEPT !.panels = panels(i)]
           layouts == [i \in DOMAIN w.layouts |-> layout(i)]
           r == Repointed(w, lists, active)
<1>1. DOMAIN w = WorkspaceFields
  BY DEF Shaped, WorkspaceFields
<1>2. \A i \in DOMAIN w.layouts : DOMAIN w.layouts[i] = LayoutFields
  BY DEF Shaped, LayoutFields
<1>3. \A i \in DOMAIN w.layouts : \A p \in DOMAIN w.layouts[i].panels :
        DOMAIN w.layouts[i].panels[p] = PanelFields
  BY DEF Shaped, PanelFields
<1>4. r = [w EXCEPT !.layouts = layouts]
  BY DEF Repointed
<1>5. ASSUME NEW i \in DOMAIN w.layouts, NEW p \in DOMAIN w.layouts[i].panels
      PROVE  /\ DOMAIN panel(i, p) = PanelFields
             /\ panel(i, p).list = Showing(w.layouts[i].panels[p].list)
             /\ panel(i, p).chart = w.layouts[i].panels[p].chart
             /\ panel(i, p).drawings = w.layouts[i].panels[p].drawings
  BY <1>3 DEF PanelFields
<1>6. \A id : Showing(id) = None \/ Showing(id) \in Ids(lists)
  OBVIOUS
<1> HIDE DEF panel, Showing, r
<1>7. ASSUME NEW i \in DOMAIN w.layouts
      PROVE  /\ DOMAIN layout(i) = LayoutFields
             /\ layout(i).name = w.layouts[i].name
             /\ layout(i).panels = panels(i)
  BY <1>2 DEF LayoutFields
<1>8. \A i \in DOMAIN w.layouts :
        /\ DOMAIN panels(i) = DOMAIN w.layouts[i].panels
        /\ \A p \in DOMAIN w.layouts[i].panels : panels(i)[p] = panel(i, p)
  OBVIOUS
<1> HIDE DEF layout, panels
<1>9. /\ DOMAIN r = WorkspaceFields /\ DOMAIN r.layouts = DOMAIN w.layouts
      /\ \A i \in DOMAIN w.layouts : r.layouts[i] = layout(i)
  BY <1>1, <1>4 DEF WorkspaceFields
<1> HIDE DEF layouts
<1>10. Shaped(r)
  BY <1>5, <1>7, <1>8, <1>9 DEF Shaped, WorkspaceFields, LayoutFields, PanelFields
<1>11. ~Dangling(r, Ids(lists))
  <2>1. \A i \in DOMAIN r.layouts : \A p \in DOMAIN r.layouts[i].panels :
          r.layouts[i].panels[p].list = Showing(w.layouts[i].panels[p].list)
    BY <1>5, <1>7, <1>8, <1>9
  <2> QED
    BY <2>1, <1>6 DEF Dangling
<1>12. ASSUME ValidWorkspace(w) PROVE SameCharts(w, r)
  <2>1. SameCharts(w, w)
    BY <1>12, ChartsOfItself
  <2>2. \A j \in DOMAIN w.layouts :
          /\ r.layouts[j].name = w.layouts[j].name
          /\ DOMAIN r.layouts[j].panels = DOMAIN w.layouts[j].panels
          /\ \A p \in DOMAIN w.layouts[j].panels :
                /\ r.layouts[j].panels[p].chart = w.layouts[j].panels[p].chart
                /\ r.layouts[j].panels[p].drawings = w.layouts[j].panels[p].drawings
    BY <1>5, <1>7, <1>8, <1>9
  <2> QED
    BY <2>1, <2>2, <1>9 DEF SameCharts
<1> QED
  BY <1>10, <1>11, <1>12 DEF r

-----------------------------------------------------------------------------
\* A layout saved by the web view has the charts of the layout of its name.
LEMMA KeptChartsOf ==
  ASSUME NEW layout, DOMAIN layout = LayoutFields,
         \A p \in DOMAIN layout.panels : DOMAIN layout.panels[p] = PanelFields,
         ValidWorkspace(shown.prefs.workspace)
  PROVE  /\ DOMAIN KeptCharts(layout) = LayoutFields
         /\ KeptCharts(layout).name = layout.name
         /\ DOMAIN KeptCharts(layout).panels = DOMAIN layout.panels
         /\ \A p \in DOMAIN layout.panels :
               /\ DOMAIN KeptCharts(layout).panels[p] = PanelFields
               /\ \A i \in DOMAIN shown.prefs.workspace.layouts :
                     LET l == shown.prefs.workspace.layouts[i]
                     IN  l.name = layout.name /\ p \in DOMAIN l.panels =>
                            /\ KeptCharts(layout).panels[p].chart = l.panels[p].chart
                            /\ KeptCharts(layout).panels[p].drawings = l.panels[p].drawings
<1> DEFINE w == shown.prefs.workspace
           old == {l \in ToSet(w.layouts) : l.name = layout.name}
           With(p, q) == [p EXCEPT !.chart = q.chart, !.drawings = q.drawings]
           some == CHOOSE l \in old : TRUE
           panel(p) == IF \E l \in old : p \in DOMAIN l.panels
                       THEN With(layout.panels[p], some.panels[p]) ELSE layout.panels[p]
           panels == [p \in DOMAIN layout.panels |-> panel(p)]
           k == KeptCharts(layout)
<1>1. k = [layout EXCEPT !.panels = panels]
  BY DEF KeptCharts, prefs
<1>2. \A i, j \in DOMAIN w.layouts : w.layouts[i].name = w.layouts[j].name => i = j
  <2>1. Distinct([i \in DOMAIN w.layouts |-> w.layouts[i].name])
    BY DEF ValidWorkspace
  <2> QED
    BY <2>1 DEF Distinct
<1>3. ASSUME NEW i \in DOMAIN w.layouts, w.layouts[i].name = layout.name
      PROVE  w.layouts[i] \in old /\ some = w.layouts[i]
  <2>1. w.layouts[i] \in old
    BY <1>3 DEF ToSet
  <2>2. \A l \in old : l = w.layouts[i]
    BY <1>2, <1>3 DEF ToSet
  <2> QED
    BY <2>1, <2>2
<1>4. ASSUME NEW p \in DOMAIN layout.panels
      PROVE  DOMAIN panel(p) = PanelFields
  BY <1>4 DEF PanelFields
<1>5. ASSUME NEW p \in DOMAIN layout.panels, NEW i \in DOMAIN w.layouts,
             w.layouts[i].name = layout.name, p \in DOMAIN w.layouts[i].panels
      PROVE  /\ panel(p).chart = w.layouts[i].panels[p].chart
             /\ panel(p).drawings = w.layouts[i].panels[p].drawings
  <2>1. panel(p) = With(layout.panels[p], w.layouts[i].panels[p])
    <3> HIDE DEF With, some, old
    <3> QED
      BY <1>3, <1>5
  <2>2. DOMAIN layout.panels[p] = PanelFields
    OBVIOUS
  <2> HIDE DEF panel
  <2> QED
    BY <2>1, <2>2 DEF PanelFields
<1> HIDE DEF panel, k, w, old, some
<1>6. /\ DOMAIN panels = DOMAIN layout.panels
      /\ \A p \in DOMAIN layout.panels : panels[p] = panel(p)
  OBVIOUS
<1> HIDE DEF panels
<1>7. DOMAIN k = LayoutFields /\ k.name = layout.name /\ k.panels = panels
  BY <1>1 DEF LayoutFields
<1>8. \A p \in DOMAIN layout.panels :
         /\ DOMAIN k.panels[p] = PanelFields
         /\ \A i \in DOMAIN w.layouts :
               w.layouts[i].name = layout.name /\ p \in DOMAIN w.layouts[i].panels =>
                  /\ k.panels[p].chart = w.layouts[i].panels[p].chart
                  /\ k.panels[p].drawings = w.layouts[i].panels[p].drawings
  BY <1>4, <1>5, <1>6, <1>7
<1> QED
  BY <1>6, <1>7, <1>8 DEF k, w

LEMMA SavedWorkspaceSound ==
  ASSUME NEW w, Shaped(w), ValidWorkspace(shown.prefs.workspace)
  PROVE  Shaped(SavedWorkspace(w)) /\ SameCharts(shown.prefs.workspace, SavedWorkspace(w))
<1> DEFINE old == shown.prefs.workspace
           layouts == [i \in DOMAIN w.layouts |-> KeptCharts(w.layouts[i])]
           s == SavedWorkspace(w)
<1>1. DOMAIN w = WorkspaceFields
  BY DEF Shaped, WorkspaceFields
<1>2. \A i \in DOMAIN w.layouts :
        /\ DOMAIN w.layouts[i] = LayoutFields
        /\ \A p \in DOMAIN w.layouts[i].panels : DOMAIN w.layouts[i].panels[p] = PanelFields
  BY DEF Shaped, LayoutFields, PanelFields
<1>3. s = [w EXCEPT !.browser = prefs.workspace.browser, !.layouts = layouts]
  BY DEF SavedWorkspace
<1> HIDE DEF s
<1>4. /\ DOMAIN s = WorkspaceFields /\ DOMAIN s.layouts = DOMAIN w.layouts
      /\ \A i \in DOMAIN w.layouts : s.layouts[i] = KeptCharts(w.layouts[i])
  BY <1>1, <1>3 DEF WorkspaceFields
<1> HIDE DEF layouts
<1>5. ASSUME NEW i \in DOMAIN w.layouts
      PROVE  /\ DOMAIN s.layouts[i] = LayoutFields
             /\ s.layouts[i].name = w.layouts[i].name
             /\ DOMAIN s.layouts[i].panels = DOMAIN w.layouts[i].panels
             /\ \A p \in DOMAIN w.layouts[i].panels :
                   /\ DOMAIN s.layouts[i].panels[p] = PanelFields
                   /\ \A j \in DOMAIN old.layouts :
                         LET l == old.layouts[j]
                         IN  l.name = w.layouts[i].name /\ p \in DOMAIN l.panels =>
                                /\ s.layouts[i].panels[p].chart = l.panels[p].chart
                                /\ s.layouts[i].panels[p].drawings = l.panels[p].drawings
  BY <1>2, <1>4, KeptChartsOf
<1>6. Shaped(s)
  BY <1>4, <1>5 DEF Shaped, WorkspaceFields, LayoutFields, PanelFields
<1>7. SameCharts(old, s)
  BY <1>4, <1>5 DEF SameCharts
<1> QED
  BY <1>6, <1>7 DEF s

-----------------------------------------------------------------------------
\* Upgrading names "main" only where no list is named.
MigratedPanels(l) ==
    [p \in DOMAIN l.panels \cup Tabs(l) |->
        IF p \in DOMAIN l.panels THEN l.panels[p]
        ELSE [DefaultPanel(LegacyPanels[p]) EXCEPT !.list = Main]]

LEMMA MigrationSound ==
  ASSUME NEW w, Shaped(w), NEW ids, ~Dangling(w, ids), Implicit(w) => Main \in ids,
         NEW v \in MigrateWorkspace(w)
  PROVE  /\ Shaped(v) /\ ~Dangling(v, ids) /\ (Implicit(v) => Main \in ids)
<1> DEFINE layout(i) == [w.layouts[i] EXCEPT !.panels = MigratedPanels(w.layouts[i])]
           layouts == [i \in DOMAIN w.layouts |-> layout(i)]
<1>1. DOMAIN w = WorkspaceFields
  BY DEF Shaped, WorkspaceFields
<1>2. \A i \in DOMAIN w.layouts :
        /\ DOMAIN w.layouts[i] = LayoutFields
        /\ \A p \in DOMAIN w.layouts[i].panels : DOMAIN w.layouts[i].panels[p] = PanelFields
  BY DEF Shaped, LayoutFields, PanelFields
<1>3. v = [w EXCEPT !.layouts = layouts]
  BY DEF MigrateWorkspace, MigratedPanels
<1>4. ASSUME NEW i \in DOMAIN w.layouts
      PROVE  /\ DOMAIN layout(i) = LayoutFields /\ layout(i).root = w.layouts[i].root
             /\ layout(i).panels = MigratedPanels(w.layouts[i])
  BY <1>2 DEF LayoutFields
<1> HIDE DEF layout
<1>5. /\ DOMAIN v = WorkspaceFields /\ DOMAIN v.layouts = DOMAIN w.layouts
      /\ \A i \in DOMAIN w.layouts : v.layouts[i] = layout(i)
  BY <1>1, <1>3 DEF WorkspaceFields
<1> HIDE DEF layouts
<1>6. ASSUME NEW i \in DOMAIN w.layouts, NEW p \in DOMAIN w.layouts[i].panels \cup Tabs(w.layouts[i])
      PROVE  LET q == MigratedPanels(w.layouts[i])[p] IN
             /\ DOMAIN q = PanelFields
             /\ \/ q.list = Main /\ Main \in ids
                \/ /\ p \in DOMAIN w.layouts[i].panels /\ q = w.layouts[i].panels[p]
                   /\ q.list = None \/ q.list \in ids
  <2> DEFINE q == MigratedPanels(w.layouts[i])[p]
             fresh == [DefaultPanel(LegacyPanels[p]) EXCEPT !.list = Main]
  <2>1. q = IF p \in DOMAIN w.layouts[i].panels THEN w.layouts[i].panels[p] ELSE fresh
    <3> HIDE DEF fresh
    <3> QED
      BY DEF MigratedPanels, fresh
  <2>2. DOMAIN fresh = PanelFields /\ fresh.list = Main
    BY DEF DefaultPanel, PanelFields
  <2> HIDE DEF fresh, q
  <2>3. CASE p \in DOMAIN w.layouts[i].panels
    BY <1>2, <2>1, <2>3 DEF Dangling, q
  <2>4. CASE p \notin DOMAIN w.layouts[i].panels
    <3>1. Implicit(w)
      BY <2>4 DEF Implicit
    <3> QED
      BY <2>1, <2>2, <2>4, <3>1 DEF q
  <2> QED
    BY <2>3, <2>4
<1>7. \A i \in DOMAIN w.layouts :
        DOMAIN MigratedPanels(w.layouts[i]) = DOMAIN w.layouts[i].panels \cup Tabs(w.layouts[i])
  BY DEF MigratedPanels
<1>11. ASSUME NEW i \in DOMAIN w.layouts
       PROVE  /\ DOMAIN v.layouts[i] = LayoutFields
              /\ \A p \in DOMAIN v.layouts[i].panels :
                    LET q == v.layouts[i].panels[p]
                    IN  DOMAIN q = PanelFields /\ (q.list = None \/ q.list \in ids)
  <2>1. v.layouts[i] = layout(i) /\ v.layouts[i].panels = MigratedPanels(w.layouts[i])
    BY <1>4, <1>5
  <2>2. \A p \in DOMAIN w.layouts[i].panels \cup Tabs(w.layouts[i]) :
          LET q == MigratedPanels(w.layouts[i])[p]
          IN  DOMAIN q = PanelFields /\ (q.list = None \/ q.list \in ids)
    BY <1>6
  <2>3. DOMAIN layout(i) = LayoutFields
    BY <1>4
  <2>4. DOMAIN MigratedPanels(w.layouts[i]) = DOMAIN w.layouts[i].panels \cup Tabs(w.layouts[i])
    BY <1>7
  <2> QED
    BY <2>1, <2>2, <2>3, <2>4
<1>8. Shaped(v)
  BY <1>5, <1>11 DEF Shaped, WorkspaceFields, LayoutFields, PanelFields
<1>9. ~Dangling(v, ids)
  BY <1>5, <1>11 DEF Dangling
<1>10. ASSUME Implicit(v), Main \notin ids PROVE FALSE
  <2>1. ~Implicit(w)
    BY <1>10
  <2>2. PICK i \in DOMAIN w.layouts :
          \/ ~(Tabs(v.layouts[i]) \subseteq DOMAIN v.layouts[i].panels)
          \/ \E p \in DOMAIN v.layouts[i].panels :
                v.layouts[i].panels[p].kind = "watchlist" /\ v.layouts[i].panels[p].list = None
    BY <1>5, <1>10 DEF Implicit
  <2>3. Tabs(v.layouts[i]) = Tabs(w.layouts[i])
    BY <1>4, <1>5 DEF Tabs
  <2>4. DOMAIN v.layouts[i].panels = DOMAIN w.layouts[i].panels \cup Tabs(w.layouts[i])
    BY <1>4, <1>5, <1>7
  <2>5. PICK p \in DOMAIN v.layouts[i].panels :
          v.layouts[i].panels[p].kind = "watchlist" /\ v.layouts[i].panels[p].list = None
    BY <2>2, <2>3, <2>4
  <2>6. p \in DOMAIN w.layouts[i].panels /\ v.layouts[i].panels[p] = w.layouts[i].panels[p]
    BY <1>4, <1>5, <1>6, <1>10, <2>4
  <2> QED
    BY <2>1, <2>5, <2>6 DEF Implicit
<1> QED
  BY <1>8, <1>9, <1>10

\* The panels of an older version that stand for a watchlist.
ListedPanel(q) ==
    IF q.kind = "watchlist" /\ q.list = None THEN [q EXCEPT !.list = Main] ELSE q

ListedLayout(l) ==
    [l EXCEPT !.panels = [q \in DOMAIN l.panels |-> ListedPanel(l.panels[q])]]

LEMMA UpgradedSound ==
  ASSUME NEW p, DOMAIN p = PreferenceFields, Shaped(p.workspace), NEW ids,
         ~Dangling(p.workspace, ids), Implicit(p.workspace) => Main \in ids,
         NEW u \in Upgraded(p)
  PROVE  /\ Shaped(u.workspace) /\ ~Dangling(u.workspace, ids)
         /\ u.history = p.history /\ u.version = 7
<1> DEFINE listed(w) == [w EXCEPT !.layouts =
                            [i \in DOMAIN w.layouts |-> ListedLayout(w.layouts[i])]]
<1>1. PICK w \in MigrateWorkspace(p.workspace) :
        u = [p EXCEPT !.version = 7, !.workspace = listed(w)]
  BY DEF Upgraded, ListedLayout, ListedPanel
<1>2. Shaped(w) /\ ~Dangling(w, ids) /\ (Implicit(w) => Main \in ids)
  BY MigrationSound
<1>3. DOMAIN w = WorkspaceFields
  BY <1>2 DEF Shaped, WorkspaceFields
<1>4. \A i \in DOMAIN w.layouts :
        /\ DOMAIN w.layouts[i] = LayoutFields
        /\ \A q \in DOMAIN w.layouts[i].panels : DOMAIN w.layouts[i].panels[q] = PanelFields
  BY <1>2 DEF Shaped, LayoutFields, PanelFields
<1> DEFINE v == listed(w)
<1>5. u.workspace = v /\ u.history = p.history /\ u.version = 7
  <2> HIDE DEF listed
  <2> QED
    BY <1>1 DEF PreferenceFields
<1>6. /\ DOMAIN v = WorkspaceFields /\ DOMAIN v.layouts = DOMAIN w.layouts
      /\ \A i \in DOMAIN w.layouts : v.layouts[i] = ListedLayout(w.layouts[i])
  BY <1>3 DEF WorkspaceFields
<1> HIDE DEF listed
<1>7. ASSUME NEW i \in DOMAIN w.layouts
      PROVE  /\ DOMAIN v.layouts[i] = LayoutFields
             /\ DOMAIN v.layouts[i].panels = DOMAIN w.layouts[i].panels
             /\ \A q \in DOMAIN w.layouts[i].panels :
                   v.layouts[i].panels[q] = ListedPanel(w.layouts[i].panels[q])
  <2> DEFINE panels == [q \in DOMAIN w.layouts[i].panels |-> ListedPanel(w.layouts[i].panels[q])]
  <2>1. v.layouts[i] = [w.layouts[i] EXCEPT !.panels = panels]
    BY <1>6 DEF ListedLayout
  <2>2. /\ DOMAIN panels = DOMAIN w.layouts[i].panels
        /\ \A q \in DOMAIN w.layouts[i].panels : panels[q] = ListedPanel(w.layouts[i].panels[q])
    OBVIOUS
  <2> HIDE DEF panels
  <2>3. DOMAIN v.layouts[i] = LayoutFields /\ v.layouts[i].panels = panels
    BY <2>1, <1>4 DEF LayoutFields
  <2> QED
    BY <2>2, <2>3
<1>8. ASSUME NEW i \in DOMAIN w.layouts, NEW q \in DOMAIN w.layouts[i].panels
      PROVE  /\ DOMAIN v.layouts[i].panels[q] = PanelFields
             /\ v.layouts[i].panels[q].list = None \/ v.layouts[i].panels[q].list \in ids
  <2> DEFINE panel == w.layouts[i].panels[q]
  <2>1. v.layouts[i].panels[q] = ListedPanel(panel) /\ DOMAIN panel = PanelFields
    BY <1>4, <1>7
  <2>2. CASE panel.kind = "watchlist" /\ panel.list = None
    <3>1. Main \in ids
      BY <1>2, <2>2 DEF Implicit
    <3> QED
      BY <2>1, <2>2, <3>1 DEF ListedPanel, PanelFields
  <2>3. CASE ~(panel.kind = "watchlist" /\ panel.list = None)
    BY <1>2, <2>1, <2>3 DEF ListedPanel, Dangling
  <2> QED
    BY <2>2, <2>3
<1>9. Shaped(v)
  BY <1>6, <1>7, <1>8 DEF Shaped, WorkspaceFields, LayoutFields, PanelFields
<1>10. ~Dangling(v, ids)
  BY <1>6, <1>7, <1>8 DEF Dangling
<1> QED
  BY <1>5, <1>9, <1>10

-----------------------------------------------------------------------------
\* What holds of 0 and of every number whose predecessor it holds of.
LEMMA UpTo ==
  ASSUME NEW n \in Nat, NEW G, 0 \in G, \A k \in 1..n : k - 1 \in G => k \in G
  PROVE  \A k \in 0..n : k \in G
<1> DEFINE Bad == {k \in 0..n : k \notin G}
           R == OpToRel(<, Nat)
<1> SUFFICES ASSUME Bad # {} PROVE FALSE
  OBVIOUS
<1>1. IsWellFoundedOn(R, Nat)
  BY NatLessThanWellFounded
<1>2. Bad \subseteq Nat
  OBVIOUS
<1>3. PICK m \in Bad : \A k \in Bad : <<k, m>> \notin R
  <2> HIDE DEF R, Bad
  <2> QED
    BY <1>1, <1>2, WFMin
<1>4. m \in 0..n /\ m # 0 /\ m \notin G
  OBVIOUS
<1>5. m \in 1..n /\ m - 1 \in 0..n /\ m - 1 < m
  BY <1>4
<1>6. \A k \in Bad : ~(k < m)
  <2> HIDE DEF Bad
  <2> QED
    BY <1>2, <1>3 DEF OpToRel
<1>7. m - 1 \in G
  BY <1>5, <1>6
<1> QED
  BY <1>4, <1>5, <1>7

FreeDeskName(v) ==
    DeskNames[CHOOSE k \in DOMAIN DeskNames :
                 /\ DeskNames[k] \notin LayoutNames(v)
                 /\ \A j \in 1..(k - 1) : DeskNames[j] \in LayoutNames(v)]

DeskRenamed(v, i) ==
    IF v.layouts[i].name \notin LegacyDesks THEN v
    ELSE [v EXCEPT !.layouts[i].name = FreeDeskName(v),
                   !.active = IF @ = v.layouts[i].name THEN FreeDeskName(v) ELSE @]

\* The equation that defines the renaming of the first n layouts.
Renames(w, n, f) ==
    f = [i \in 0..n |-> IF i = 0 THEN w ELSE DeskRenamed(f[i - 1], i)]

LEMMA RenamesGrow ==
  ASSUME NEW w, NEW n \in Nat, NEW f, Renames(w, n, f)
  PROVE  \E g : Renames(w, n + 1, g)
<1> DEFINE g == [i \in 0..(n + 1) |-> IF i \in 0..n THEN f[i] ELSE DeskRenamed(f[n], n + 1)]
           F(i) == IF i = 0 THEN w ELSE DeskRenamed(g[i - 1], i)
<1>1. \A i \in 0..n : f[i] = IF i = 0 THEN w ELSE DeskRenamed(f[i - 1], i)
  BY DEF Renames
<1>2. ASSUME NEW i \in 0..(n + 1)
      PROVE  g[i] = F(i)
  <2>1. CASE i \in 0..n
    <3>1. g[i] = f[i] /\ (i = 0 \/ (i - 1 \in 0..n /\ i - 1 \in 0..(n + 1)))
      BY <2>1
    <3>2. i # 0 => g[i - 1] = f[i - 1]
      BY <3>1
    <3> HIDE DEF g
    <3> QED
      BY <3>1, <3>2, <1>1, <2>1
  <2>2. CASE i \notin 0..n
    <3>1. i = n + 1 /\ i # 0 /\ i - 1 = n /\ n \in 0..n /\ n \in 0..(n + 1)
      BY <2>2
    <3>2. g[i] = DeskRenamed(f[n], n + 1) /\ g[n] = f[n]
      BY <2>2, <3>1
    <3> HIDE DEF g
    <3> QED
      BY <3>1, <3>2
  <2> QED
    BY <2>1, <2>2
<1>3. g = [i \in 0..(n + 1) |-> F(i)]
  <2>1. g = [i \in 0..(n + 1) |-> g[i]]
    OBVIOUS
  <2> HIDE DEF g
  <2> QED
    BY <1>2, <2>1
<1> HIDE DEF g
<1> QED
  BY <1>3 DEF Renames

LEMMA RenamesExist ==
  ASSUME NEW w, NEW n \in Nat
  PROVE  \E f : Renames(w, n, f)
<1> DEFINE G == {k \in Nat : \E f : Renames(w, k, f)}
<1>1. 0 \in G
  <2>1. Renames(w, 0, [i \in 0..0 |-> w])
    BY DEF Renames
  <2> QED
    BY <2>1
<1>2. \A k \in 1..n : k - 1 \in G => k \in G
  <2> SUFFICES ASSUME NEW k \in 1..n, k - 1 \in G PROVE k \in G
    OBVIOUS
  <2>1. k - 1 \in Nat /\ (k - 1) + 1 = k
    OBVIOUS
  <2>2. PICK f : Renames(w, k - 1, f)
    BY <2>1
  <2>3. \E g : Renames(w, (k - 1) + 1, g)
    BY <2>1, <2>2, RenamesGrow
  <2> QED
    BY <2>1, <2>3
<1> HIDE DEF G
<1>3. n \in G
  <2>1. n \in 0..n
    OBVIOUS
  <2> QED
    BY <1>1, <1>2, <2>1, UpTo
<1> QED
  BY <1>3 DEF G

\* Renaming a desk changes no panel.
LEMMA DeskRenamedSound ==
  ASSUME NEW v, Shaped(v), NEW ids, ~Dangling(v, ids), NEW i
  PROVE  Shaped(DeskRenamed(v, i)) /\ ~Dangling(DeskRenamed(v, i), ids)
<1> DEFINE free == FreeDeskName(v)
           layouts == [v.layouts EXCEPT ![i].name = free]
           active == IF v.active = v.layouts[i].name THEN free ELSE v.active
           r == DeskRenamed(v, i)
<1>1. CASE v.layouts[i].name \notin LegacyDesks
  BY <1>1 DEF DeskRenamed
<1>2. CASE v.layouts[i].name \in LegacyDesks
  <2>1. r = [v EXCEPT !.layouts = layouts, !.active = active]
    <3>1. DOMAIN v = WorkspaceFields
      BY DEF Shaped, WorkspaceFields
    <3> HIDE DEF free
    <3> QED
      BY <1>2, <3>1 DEF DeskRenamed, WorkspaceFields, free
  <2> HIDE DEF r, active, free
  <2>2. DOMAIN r = WorkspaceFields /\ r.layouts = layouts
    BY <2>1 DEF Shaped, WorkspaceFields
  <2>3. ASSUME NEW j \in DOMAIN v.layouts
        PROVE  /\ DOMAIN layouts[j] = LayoutFields
               /\ layouts[j].panels = v.layouts[j].panels
    BY DEF Shaped, LayoutFields
  <2>4. DOMAIN layouts = DOMAIN v.layouts
    OBVIOUS
  <2> HIDE DEF layouts
  <2>5. Shaped(r)
    BY <2>2, <2>3, <2>4 DEF Shaped, WorkspaceFields, LayoutFields
  <2>6. ~Dangling(r, ids)
    BY <2>2, <2>3, <2>4 DEF Dangling
  <2> QED
    BY <2>5, <2>6 DEF r
<1> QED
  BY <1>1, <1>2

LEMMA RenamedSound ==
  ASSUME NEW w, Shaped(w), NEW ids, ~Dangling(w, ids), Len(w.layouts) \in Nat
  PROVE  Shaped(RenameLegacyDesk(w)) /\ ~Dangling(RenameLegacyDesk(w), ids)
<1> DEFINE n == Len(w.layouts)
           f == CHOOSE g : Renames(w, n, g)
<1>1. Renames(w, n, f)
  <2>1. \E g : Renames(w, n, g)
    BY RenamesExist
  <2> QED
    BY Zenon, <2>1
<1>2. RenameLegacyDesk(w) = f[n]
  BY Zenon DEF RenameLegacyDesk, Renames, DeskRenamed, FreeDeskName
<1> HIDE DEF f
<1>3. \A i \in 0..n : f[i] = IF i = 0 THEN w ELSE DeskRenamed(f[i - 1], i)
  BY <1>1 DEF Renames
<1> DEFINE G == {k \in 0..n : Shaped(f[k]) /\ ~Dangling(f[k], ids)}
<1>4. 0 \in G
  BY <1>3
<1>5. \A k \in 1..n : k - 1 \in G => k \in G
  BY <1>3, DeskRenamedSound
<1> HIDE DEF G
<1>6. n \in G
  <2>1. n \in Nat /\ n \in 0..n
    OBVIOUS
  <2> HIDE DEF n
  <2> QED
    BY <1>4, <1>5, <2>1, UpTo
<1> QED
  BY <1>2, <1>6 DEF G

-----------------------------------------------------------------------------
\* What is drafted can be shown, once the store has found it valid.
Sequenced(s) == \E S : s \in Seq(S)

Sound(p, lists) ==
    /\ Shaped(p.workspace) /\ ~Dangling(p.workspace, Ids(lists))
    /\ Sequenced(p.history) /\ p.version = 7

LEMMA EnteredSequence ==
  ASSUME NEW h, Sequenced(h), Len(h) <= MaxHistory, NEW text
  PROVE  LET pushed == IF h # <<>> /\ h[Len(h)] = text THEN h ELSE Append(h, text)
             kept == IF Len(pushed) > MaxHistory THEN Tail(pushed) ELSE pushed
         IN  Sequenced(kept) /\ Len(kept) <= MaxHistory
<1> DEFINE pushed == IF h # <<>> /\ h[Len(h)] = text THEN h ELSE Append(h, text)
           kept == IF Len(pushed) > MaxHistory THEN Tail(pushed) ELSE pushed
<1>1. PICK S : h \in Seq(S)
  BY DEF Sequenced
<1>2. /\ pushed \in Seq(S \cup {text}) /\ Len(pushed) <= MaxHistory + 1
      /\ Len(pushed) \in Nat /\ MaxHistory \in Nat
  <2>1. h \in Seq(S \cup {text})
    BY <1>1
  <2> QED
    BY <2>1, WorkerAssumption
<1> HIDE DEF pushed
<1>3. kept \in Seq(S \cup {text}) /\ Len(kept) <= MaxHistory
  <2>1. CASE Len(pushed) > MaxHistory
    <3>1. pushed # <<>>
      BY <1>2, <2>1
    <3> QED
      BY <1>2, <2>1, <3>1
  <2>2. CASE ~(Len(pushed) > MaxHistory)
    BY <1>2, <2>2
  <2> QED
    BY <2>1, <2>2
<1> QED
  BY <1>3 DEF Sequenced, pushed

LEMMA EnteredSound ==
  ASSUME NEW p, DOMAIN p = PreferenceFields, NEW lists, Sound(p, lists), NEW text,
         ValidPreferences(p)
  PROVE  /\ Sound(Entered(p, text), lists) /\ ValidPreferences(Entered(p, text))
         /\ Entered(p, text).workspace = p.workspace
<1> DEFINE h == p.history
           pushed == IF h # <<>> /\ h[Len(h)] = text THEN h ELSE Append(h, text)
           kept == IF Len(pushed) > MaxHistory THEN Tail(pushed) ELSE pushed
           e == Entered(p, text)
<1>1. Sequenced(kept) /\ Len(kept) <= MaxHistory
  BY EnteredSequence DEF Sound, ValidPreferences
<1>2. e = [p EXCEPT !.history = kept]
  BY DEF Entered
<1> HIDE DEF kept, e
<1>3. /\ e.history = kept /\ e.workspace = p.workspace /\ e.keymap = p.keymap
      /\ e.version = p.version
  BY <1>2 DEF PreferenceFields
<1> QED
  BY <1>1, <1>3 DEF Sound, ValidPreferences, e

\* One panel is edited and shows the list it showed.
LEMMA PanelEdited ==
  ASSUME NEW w, Shaped(w), NEW ids, ~Dangling(w, ids), NEW i \in DOMAIN w.layouts,
         NEW p \in DOMAIN w.layouts[i].panels, NEW q, DOMAIN q = PanelFields,
         q.list = w.layouts[i].panels[p].list
  PROVE  LET v == [w EXCEPT !.layouts[i].panels[p] = q]
         IN  Shaped(v) /\ ~Dangling(v, ids)
<1> DEFINE panels == [w.layouts[i].panels EXCEPT ![p] = q]
           layout == [w.layouts[i] EXCEPT !.panels = panels]
           layouts == [w.layouts EXCEPT ![i] = layout]
           v == [w EXCEPT !.layouts = layouts]
<1>1. /\ DOMAIN panels = DOMAIN w.layouts[i].panels
      /\ \A r \in DOMAIN panels : panels[r] = IF r = p THEN q ELSE w.layouts[i].panels[r]
  OBVIOUS
<1> HIDE DEF panels
<1>2. DOMAIN layout = LayoutFields /\ layout.panels = panels
  BY DEF Shaped, LayoutFields
<1> HIDE DEF layout
<1>3. /\ DOMAIN layouts = DOMAIN w.layouts
      /\ \A j \in DOMAIN layouts : layouts[j] = IF j = i THEN layout ELSE w.layouts[j]
  OBVIOUS
<1> HIDE DEF layouts
<1>4. DOMAIN v = WorkspaceFields /\ v.layouts = layouts
  BY DEF Shaped, WorkspaceFields
<1> HIDE DEF v
<1>5. ASSUME NEW j \in DOMAIN v.layouts
      PROVE  /\ DOMAIN v.layouts[j] = LayoutFields
             /\ DOMAIN v.layouts[j].panels = DOMAIN w.layouts[j].panels
             /\ \A r \in DOMAIN w.layouts[j].panels :
                   /\ DOMAIN v.layouts[j].panels[r] = PanelFields
                   /\ v.layouts[j].panels[r].list = w.layouts[j].panels[r].list
  <2>1. CASE j = i
    BY <1>1, <1>2, <1>3, <1>4, <2>1 DEF Shaped, PanelFields
  <2>2. CASE j # i
    BY <1>3, <1>4, <2>2 DEF Shaped, LayoutFields, PanelFields
  <2> QED
    BY <2>1, <2>2
<1>6. Shaped(v)
  BY <1>4, <1>5 DEF Shaped, WorkspaceFields, LayoutFields, PanelFields
<1>7. ~Dangling(v, ids)
  BY <1>3, <1>4, <1>5 DEF Dangling
<1> QED
  BY <1>6, <1>7 DEF v, layouts, layout, panels

LEMMA ChartDraftSound ==
  ASSUME NEW w, Shaped(w), NEW ids, ~Dangling(w, ids), NEW m, NEW v \in ApplyChart(w, m)
  PROVE  Shaped(v) /\ ~Dangling(v, ids)
<1> DEFINE target == {i \in DOMAIN w.layouts :
                        /\ w.layouts[i].name = m.layout
                        /\ m.panel \in DOMAIN w.layouts[i].panels
                        /\ w.layouts[i].panels[m.panel].kind = "chart"}
           edited(i, q) == [w EXCEPT !.layouts[i].panels[m.panel] = q]
           old(i) == w.layouts[i].panels[m.panel]
<1>1. \/ \E i \in target : v = edited(i, [old(i) EXCEPT !.chart = m.chart])
      \/ \E i \in target : \E d : v = edited(i, [old(i) EXCEPT !.drawings = d])
  BY DEF ApplyChart
<1>2. ASSUME NEW i \in target, NEW q, DOMAIN q = PanelFields, q.list = old(i).list
      PROVE  Shaped(edited(i, q)) /\ ~Dangling(edited(i, q), ids)
  BY <1>2, PanelEdited
<1>3. ASSUME NEW i \in target, NEW x
      PROVE  /\ DOMAIN [old(i) EXCEPT !.chart = x] = PanelFields
             /\ DOMAIN [old(i) EXCEPT !.drawings = x] = PanelFields
             /\ [old(i) EXCEPT !.chart = x].list = old(i).list
             /\ [old(i) EXCEPT !.drawings = x].list = old(i).list
  <2>1. DOMAIN old(i) = PanelFields
    BY DEF Shaped, PanelFields
  <2> HIDE DEF old
  <2> QED
    BY <2>1 DEF PanelFields
<1> HIDE DEF edited, old, target
<1> QED
  BY <1>1, <1>2, <1>3

-----------------------------------------------------------------------------
\* What the web view sees and what it sends.
ShownSound ==
    /\ Sound(shown.prefs, shown.lists) /\ ValidPreferences(shown.prefs)
    /\ ValidLists(shown.lists, shown.prefs.active)

Readable(m) == m.kind = "workspace" => Shaped(m.workspace)

LEMMA ListDraftSound ==
  ASSUME NEW p, DOMAIN p = PreferenceFields, Sound(p, shown.lists), ValidPreferences(p),
         NEW m, NEW d \in ListDrafts(p, m)
  PROVE  Sound(d.prefs, d.lists) /\ SameCharts(p.workspace, d.prefs.workspace)
<1>1. PICK r \in ApplyWatchlist(shown.lists, p.active, m) :
        d = [lists |-> r.lists,
             prefs |-> [p EXCEPT !.version = 7, !.active = r.active,
                                 !.workspace = Repointed(@, r.lists, r.active)]]
  BY DEF ListDrafts
<1>2. r.active \in Ids(r.lists)
  <2>1. ValidLists(r.lists, r.active)
    BY <1>1 DEF ApplyWatchlist
  <2> QED
    BY <2>1 DEF ValidLists
<1> DEFINE w == Repointed(p.workspace, r.lists, r.active)
<1>3. /\ d.lists = r.lists /\ d.prefs.workspace = w /\ d.prefs.history = p.history
      /\ d.prefs.version = 7
  <2>1. d.prefs = [p EXCEPT !.version = 7, !.active = r.active, !.workspace = w]
    BY <1>1
  <2> HIDE DEF w
  <2> QED
    BY <1>1, <2>1 DEF PreferenceFields
<1>4. Shaped(w) /\ ~Dangling(w, Ids(r.lists)) /\ SameCharts(p.workspace, w)
  BY <1>2, RepointedSound DEF Sound, ValidPreferences
<1> HIDE DEF w
<1> QED
  BY <1>3, <1>4 DEF Sound

LEMMA PreferenceDraftSound ==
  ASSUME ShownTyped, ShownSound, NEW m, Readable(m), NEW p \in PreferenceDrafts(m)
  PROVE  /\ Sound(p, shown.lists)
         /\ m.kind # "chart" => SameCharts(shown.prefs.workspace, p.workspace)
<1> DEFINE old == shown.prefs.workspace
           Good(w) == /\ Shaped(w) /\ ~Dangling(w, Ids(shown.lists))
                      /\ m.kind # "chart" => SameCharts(old, w)
<1>1. /\ Shaped(old) /\ ~Dangling(old, Ids(shown.lists)) /\ ValidWorkspace(old)
      /\ DOMAIN shown.prefs = PreferenceFields /\ Sequenced(shown.prefs.history)
      /\ shown.prefs.version = 7
  BY DEF ShownTyped, ShownSound, Sound, ValidPreferences
<1>2. ASSUME NEW w, Good(w), p = [Current EXCEPT !.workspace = w]
      PROVE  /\ Sound(p, shown.lists)
             /\ m.kind # "chart" => SameCharts(shown.prefs.workspace, p.workspace)
  <2>1. p.workspace = w /\ p.history = shown.prefs.history /\ p.version = 7
    BY <1>1, <1>2 DEF Current, prefs, PreferenceFields
  <2> QED
    BY <1>1, <1>2, <2>1 DEF Sound
<1>3. ASSUME NEW w, DOMAIN w = WorkspaceFields, w.layouts = old.layouts
      PROVE  Good(w)
  <2>1. Shaped(w) /\ ~Dangling(w, Ids(shown.lists))
    BY <1>1, <1>3 DEF Shaped, WorkspaceFields, Dangling
  <2> QED
    BY <1>1, <1>3, <2>1, ChartsOfItself
<1> HIDE DEF Good
<1>4. Current.workspace = old /\ DOMAIN Current = PreferenceFields
  BY <1>1 DEF Current, prefs, PreferenceFields
<1>5. DOMAIN old = WorkspaceFields
  BY <1>1 DEF Shaped, WorkspaceFields
<1>6. CASE m.kind = "browser"
  <2>1. PICK b : p = [Current EXCEPT !.workspace.browser = b]
    BY <1>6 DEF PreferenceDrafts
  <2>2. p = [Current EXCEPT !.workspace = [old EXCEPT !.browser = b]]
    BY <1>4, <2>1
  <2>3. Good([old EXCEPT !.browser = b])
    BY <1>3, <1>5 DEF WorkspaceFields
  <2> QED
    BY <1>2, <2>2, <2>3
<1>7. CASE m.kind = "chart"
  <2>1. PICK w \in ApplyChart(old, m) : p = [Current EXCEPT !.workspace = w]
    BY <1>7 DEF PreferenceDrafts, prefs
  <2>2. Good(w)
    BY <1>1, <1>7, <2>1, ChartDraftSound DEF Good
  <2> QED
    BY <1>2, <2>1, <2>2
<1>8. CASE m.kind = "view"
  <2>1. p = [Current EXCEPT !.workspace.view = m.view]
    BY <1>8 DEF PreferenceDrafts
  <2>2. p = [Current EXCEPT !.workspace = [old EXCEPT !.view = m.view]]
    BY <1>4, <2>1
  <2>3. Good([old EXCEPT !.view = m.view])
    BY <1>3, <1>5 DEF WorkspaceFields
  <2> QED
    BY <1>2, <2>2, <2>3
<1>9. CASE m.kind = "workspace"
  <2>1. /\ p = [Current EXCEPT !.workspace = SavedWorkspace(m.workspace)]
        /\ ~Dangling(SavedWorkspace(m.workspace), Ids(shown.lists))
    BY <1>9 DEF PreferenceDrafts
  <2>2. Good(SavedWorkspace(m.workspace))
    BY <1>1, <1>9, <2>1, SavedWorkspaceSound DEF Good, Readable
  <2> QED
    BY <1>2, <2>1, <2>2
<1>10. CASE m.kind \notin {"browser", "chart", "view", "workspace"}
  <2>1. p = [prefs EXCEPT !.keymap = m.keymap]
    BY <1>10 DEF PreferenceDrafts
  <2>2. /\ p.workspace = old /\ p.history = shown.prefs.history
        /\ p.version = shown.prefs.version
    BY <1>1, <2>1 DEF prefs, PreferenceFields
  <2> QED
    BY <1>1, <2>2, ChartsOfItself DEF Sound
<1> QED
  BY <1>6, <1>7, <1>8, <1>9, <1>10

LEMMA DraftSound ==
  ASSUME ShownTyped, ShownSound, NEW m, Readable(m), NEW d \in Drafts(m)
  PROVE  /\ Sound(d.prefs, d.lists)
         /\ m.kind # "chart" => SameCharts(shown.prefs.workspace, d.prefs.workspace)
<1>1. /\ DOMAIN shown.prefs = PreferenceFields /\ Sound(shown.prefs, shown.lists)
      /\ ValidPreferences(shown.prefs) /\ ValidWorkspace(shown.prefs.workspace)
  BY DEF ShownTyped, ShownSound, ValidPreferences
<1>2. CASE m.kind = "watchlist"
  <2>1. d \in ListDrafts(shown.prefs, m)
    BY <1>2 DEF Drafts, prefs
  <2> QED
    BY <1>1, <2>1, ListDraftSound
<1>3. CASE m.kind = "command"
  <2> DEFINE p == Entered(shown.prefs, m.words)
  <2>1. /\ DOMAIN p = PreferenceFields /\ Sound(p, shown.lists) /\ ValidPreferences(p)
        /\ p.workspace = shown.prefs.workspace
    BY <1>1, EnteredKeeps, EnteredSound
  <2>2. d \in CommandDrafts(m)
    BY <1>3 DEF Drafts
  <2> HIDE DEF p
  <2>3. CASE Does(m) \in {"add", "del"}
    <3>1. d \in ListDrafts(p, CommandEdit(m))
      BY <2>2, <2>3 DEF CommandDrafts, p, prefs
    <3> QED
      BY <2>1, <3>1, ListDraftSound
  <2>4. CASE Does(m) = "write"
    <3>1. d = [lists |-> shown.lists, prefs |-> p]
      BY <2>2, <2>4 DEF CommandDrafts, p, prefs
    <3> QED
      BY <1>1, <2>1, <3>1, ChartsOfItself
  <2>5. Does(m) \in {"add", "del", "write"}
    BY <2>2 DEF CommandDrafts
  <2> QED
    BY <2>3, <2>4, <2>5
<1>4. CASE m.kind \notin {"watchlist", "command"}
  <2>1. PICK p \in PreferenceDrafts(m) : d = [lists |-> shown.lists, prefs |-> p]
    BY <1>4 DEF Drafts
  <2> QED
    BY <2>1, PreferenceDraftSound
<1> QED
  BY <1>2, <1>3, <1>4

\* What a message changes at once is as sound as before.
LEMMA ImmediateSound ==
  ASSUME ShownTyped, ShownSound, NEW m
  PROVE  /\ Sound(Immediate(m).prefs, Immediate(m).lists)
         /\ ValidPreferences(Immediate(m).prefs)
         /\ ValidLists(Immediate(m).lists, Immediate(m).prefs.active)
         /\ Immediate(m).prefs.workspace = shown.prefs.workspace
<1> DEFINE Kept(p) == /\ Sound(p, shown.lists) /\ ValidPreferences(p)
                      /\ p.active = shown.prefs.active
                      /\ p.workspace = shown.prefs.workspace
<1>1. /\ DOMAIN shown = {"lists", "watchlist", "prefs"}
      /\ DOMAIN shown.prefs = PreferenceFields
  BY DEF ShownTyped
<1>2. Kept(shown.prefs)
  BY DEF ShownSound
<1>3. ASSUME NEW p, p.workspace = shown.prefs.workspace, p.history = shown.prefs.history,
             p.version = shown.prefs.version, p.keymap = shown.prefs.keymap,
             p.active = shown.prefs.active
      PROVE  Kept(p)
  BY <1>2, <1>3 DEF Sound, ValidPreferences
<1>4. Kept(Entered(shown.prefs, m.words))
  BY <1>1, <1>2, EnteredSound, EnteredKeeps
<1>5. \A x : Kept([shown.prefs EXCEPT !.selected = x]) /\ Kept([shown.prefs EXCEPT !.range = x])
  BY <1>1, <1>3 DEF PreferenceFields
<1> HIDE DEF Kept
<1>6. Immediate(m).lists = shown.lists
  BY ImmediateKeeps
<1>7. Kept(Immediate(m).prefs)
  <2>1. CASE m.kind = "select"
    BY <1>1, <1>5, <2>1 DEF Immediate
  <2>2. CASE m.kind = "range"
    BY <1>1, <1>5, <2>2 DEF Immediate
  <2>3. CASE m.kind = "command"
    BY <1>1, <1>4, <2>3 DEF Immediate
  <2>4. CASE m.kind \notin {"select", "range", "command"}
    BY <1>2, <2>4 DEF Immediate
  <2> QED
    BY <2>1, <2>2, <2>3, <2>4
<1> QED
  BY <1>6, <1>7 DEF Kept, ShownSound

-----------------------------------------------------------------------------
\* The documents of a database fit the lists it has once it is open; what is
\* shown is sound, and so is what is being saved.
DiskSound ==
    IF disk.existing
    THEN /\ Shaped(disk.value.workspace) /\ Sequenced(disk.value.history)
         /\ ~Dangling(disk.value.workspace, OpenedIds(disk))
         /\ disk.value.version <= 6 /\ Implicit(disk.value.workspace) =>
                Main \in OpenedIds(disk)
    ELSE disk.lists = <<>>

InboxReadable == \E S : inbox \in Seq(S) /\ \A m \in S : Readable(m)

LoadedCurrent ==
    phase = "listing" \/ (phase = "loading" /\ reply # None /\ reply.ok) =>
        disk.value.version = 7

DraftInv ==
    phase = "saving" =>
        /\ Sound(draft.prefs, draft.lists)
        /\ draft.message.kind # "chart" =>
              SameCharts(shown.prefs.workspace, draft.prefs.workspace)
        /\ request = None /\ reply # None /\ reply.ok => ValidPreferences(draft.prefs)

SoundInv ==
    /\ DiskSound /\ InboxReadable /\ LoadedCurrent
    /\ Started => ShownSound
    /\ DraftInv

\* A database that is open has the lists it has.
LEMMA OpenedLists ==
  ASSUME NEW d, d.schema = 2, NEW active, ValidLists(d.lists, active)
  PROVE  OpenedIds(d) = Ids(d.lists)
<1>1. d.lists # <<>>
  BY DEF ValidLists
<1> QED
  BY <1>1 DEF OpenedIds

LEMMA MainAlone ==
  ASSUME NEW symbols
  PROVE  Ids(<<MyWatchlist(symbols)>>) = {Main}
<1> DEFINE main == MyWatchlist(symbols)
           lists == <<main>>
<1>3. main.id = Main
  BY DEF MyWatchlist
<1> HIDE DEF main
<1>1. /\ \A i \in DOMAIN lists : lists[i].id = Main
      /\ 1 \in DOMAIN lists
  BY <1>3
<1> HIDE DEF lists
<1>2. Ids(lists) = {Main}
  BY <1>1 DEF Ids
<1> QED
  BY <1>2 DEF lists, main

LEMMA DefaultsSound ==
  /\ Shaped(DefaultWorkspace) /\ ~Dangling(DefaultWorkspace, {Main})
  /\ Sequenced(DefaultPreferences.history) /\ DefaultPreferences.version = 7
  /\ DefaultPreferences.workspace = DefaultWorkspace
<1>1. DefaultPreferences.version = 7 /\ DefaultPreferences.workspace = DefaultWorkspace
  BY DEF DefaultPreferences
<1>2. Sequenced(DefaultPreferences.history)
  <2>1. DefaultPreferences.history = <<>>
    BY DEF DefaultPreferences
  <2>2. <<>> \in Seq({})
    OBVIOUS
  <2> QED
    BY <2>1, <2>2 DEF Sequenced
<1> DEFINE root == <<Split(19), Group("watchlist-group", "watchlist"), Group("chart-group", "chart")>>
           desk == [name |-> "Market Desk", root |-> root,
                    panels |-> [p \in {"chart", "watchlist"} |-> DefaultPanel(p)]]
<1>3. DefaultWorkspace = [view |-> 290, browser |-> DefaultBrowser, active |-> desk.name,
                          layouts |-> <<desk>>]
  BY DEF DefaultWorkspace
<1>4. \A p : /\ DOMAIN DefaultPanel(p) = PanelFields
             /\ DefaultPanel(p).list = None \/ DefaultPanel(p).list = Main
  BY DEF DefaultPanel, PanelFields
<1>5. /\ DOMAIN desk = LayoutFields
      /\ \A p \in DOMAIN desk.panels : desk.panels[p] = DefaultPanel(p)
  BY DEF LayoutFields
<1> HIDE DEF desk
<1>6. /\ DOMAIN DefaultWorkspace = WorkspaceFields /\ DefaultWorkspace.layouts = <<desk>>
  BY <1>3 DEF WorkspaceFields
<1>7. \A i \in DOMAIN DefaultWorkspace.layouts : DefaultWorkspace.layouts[i] = desk
  BY <1>6
<1>8. Shaped(DefaultWorkspace)
  BY <1>4, <1>5, <1>6, <1>7 DEF Shaped, WorkspaceFields, LayoutFields, PanelFields
<1>9. ~Dangling(DefaultWorkspace, {Main})
  BY <1>4, <1>5, <1>7 DEF Dangling
<1> QED
  BY <1>1, <1>2, <1>8, <1>9

-----------------------------------------------------------------------------
\* The store's steps.
LEMMA OpeningSound ==
  ASSUME DocsInv, SoundInv, CreateSchema \/ NameLists \/ Seed \/ RefuseNewer,
         UNCHANGED volatile
  PROVE  SoundInv'
<1>1. store = "opening" /\ UNCHANGED <<request, reply, phase, shown, inbox>>
  BY DEF CreateSchema, NameLists, Seed, RefuseNewer, volatile
<1>2. phase \in {"off", "opening", "failed", "ended"}
  BY <1>1 DEF DocsInv, PhaseOK, LoadingOK, ListingOK, ShowingOK, SavingOK
<1>3. /\ DOMAIN disk = {"schema", "symbols", "lists", "existing", "value"}
      /\ disk.schema < 2 => disk.lists = <<>>
  BY DEF DocsInv, DiskTyped
<1>4. DiskSound
  BY DEF SoundInv
<1>5. ASSUME disk'.existing = disk.existing, disk'.value = disk.value,
             OpenedIds(disk') = OpenedIds(disk), ~disk.existing => disk'.lists = <<>>
      PROVE  DiskSound'
  BY <1>4, <1>5 DEF DiskSound
<1>6. Ids(<<MyWatchlist(disk.symbols)>>) = {Main}
  BY MainAlone
<1>7. DiskSound'
  <2>1. CASE CreateSchema
    <3>1. disk' = [disk EXCEPT !.schema = 1] /\ disk.schema = 0
      BY <2>1 DEF CreateSchema
    <3>2. /\ disk'.existing = disk.existing /\ disk'.value = disk.value
          /\ disk'.lists = disk.lists /\ disk'.schema = 1
      BY <1>3, <3>1
    <3> QED
      BY <1>3, <1>4, <1>5, <3>1, <3>2 DEF OpenedIds, DiskSound
  <2>2. CASE NameLists
    <3> DEFINE lists == IF disk.existing THEN <<MyWatchlist(disk.symbols)>> ELSE <<>>
    <3>1. disk' = [disk EXCEPT !.schema = 2, !.lists = lists] /\ disk.schema = 1
      BY <2>2 DEF NameLists
    <3> HIDE DEF lists
    <3>2. /\ disk'.existing = disk.existing /\ disk'.value = disk.value
          /\ disk'.lists = lists /\ disk'.schema = 2
      BY <1>3, <3>1
    <3>3. OpenedIds(disk') = {Main} /\ OpenedIds(disk) = {Main}
      BY <1>6, <3>1, <3>2 DEF OpenedIds, lists
    <3> QED
      BY <1>5, <3>2, <3>3 DEF lists
  <2>3. CASE Seed
    <3> DEFINE value == IF disk.existing THEN disk.value ELSE DefaultPreferences
    <3>1. /\ disk' = [disk EXCEPT !.value = value, !.lists = SeedLists(@), !.existing = TRUE]
          /\ disk.schema = 2
      BY <2>3 DEF Seed
    <3> HIDE DEF value
    <3>2. /\ disk'.existing /\ disk'.value = value
          /\ disk'.lists = SeedLists(disk.lists) /\ disk'.schema = 2
      BY <1>3, <3>1
    <3>3. OpenedIds(disk') = OpenedIds(disk)
      <4>1. CASE disk.lists # <<>>
        BY <3>1, <3>2, <4>1 DEF OpenedIds, SeedLists
      <4>2. CASE disk.lists = <<>>
        <5>1. \A s : Ids(<<MyWatchlist(s)>>) = {Main}
          BY MainAlone
        <5>2. Ids(SeedLists(disk.lists)) = {Main}
          BY <4>2, <5>1 DEF SeedLists
        <5> QED
          BY <3>2, <4>2, <5>2 DEF OpenedIds
      <4> QED
        BY <4>1, <4>2
    <3>4. CASE disk.existing
      BY <1>4, <3>2, <3>3, <3>4 DEF DiskSound, value
    <3>5. CASE ~disk.existing
      <4>1. OpenedIds(disk) = {Main}
        BY <1>4, <3>5 DEF DiskSound, OpenedIds
      <4>2. disk'.value = DefaultPreferences
        BY <3>2, <3>5 DEF value
      <4> QED
        BY <3>2, <3>3, <4>1, <4>2, DefaultsSound DEF DiskSound
    <3> QED
      BY <3>4, <3>5
  <2>4. CASE RefuseNewer
    BY <1>4, <2>4 DEF RefuseNewer, DiskSound
  <2> QED
    BY <2>1, <2>2, <2>3, <2>4
<1>8. InboxReadable'
  BY <1>1 DEF SoundInv, InboxReadable
<1> QED
  BY <1>1, <1>2, <1>7, <1>8 DEF SoundInv, LoadedCurrent, Started, DraftInv

LEMMA SavesSound ==
  ASSUME DocsInv, SoundInv, Save \/ SaveLists, UNCHANGED volatile
  PROVE  SoundInv'
<1>1. /\ store = "ready" /\ request # None /\ request.op \in {"save", "lists"}
      /\ UNCHANGED <<store, phase, shown, draft, inbox>> /\ request' = None
  BY DEF Save, SaveLists, volatile, Answer
<1>2. SavingOK /\ request = Asked(draft) /\ Matches
  BY <1>1 DEF DocsInv, PhaseOK, LoadingOK, ListingOK, ShowingOK, SavingOK, Quiet
<1>3. Sound(draft.prefs, draft.lists) /\ phase = "saving"
  BY <1>2 DEF SavingOK, SoundInv, DraftInv
<1>4. \/ /\ disk' = [disk EXCEPT !.value = draft.prefs, !.lists = draft.lists] /\ reply' = Done
         /\ ValidPreferences(draft.prefs)
      \/ disk' = disk /\ reply' = Failed
  <2>1. CASE SavesLists(draft.message)
    <3>1. request = [op |-> "lists", lists |-> draft.lists, prefs |-> draft.prefs]
      BY <1>2, <2>1 DEF Asked
    <3> QED
      BY <3>1 DEF Save, SaveLists, Answer
  <2>2. CASE ~SavesLists(draft.message)
    <3>1. request = [op |-> "save", prefs |-> draft.prefs]
      BY <1>2, <2>2 DEF Asked
    <3>2. draft.lists = disk.lists
      BY <1>2, <2>2 DEF SavingOK, Drafted, Matches
    <3> QED
      BY <3>1, <3>2 DEF Save, SaveLists, Answer, DocsInv, DiskTyped
  <2> QED
    BY <2>1, <2>2
<1>5. ValidLists(draft.lists, draft.prefs.active)
  BY <1>2 DEF SavingOK, Drafted, ShownOK
<1>6. DiskSound'
  <2>1. CASE disk' = disk
    BY <2>1 DEF SoundInv, DiskSound
  <2>2. CASE disk' = [disk EXCEPT !.value = draft.prefs, !.lists = draft.lists]
    <3>1. /\ disk'.value = draft.prefs /\ disk'.lists = draft.lists /\ disk'.schema = 2
          /\ disk'.existing
      BY <1>1, <2>2 DEF DocsInv, DiskTyped
    <3>2. OpenedIds(disk') = Ids(draft.lists)
      BY <1>5, <3>1, OpenedLists
    <3> QED
      BY <1>3, <3>1, <3>2 DEF DiskSound, Sound
  <2> QED
    BY <1>4, <2>1, <2>2
<1>7. DraftInv'
  BY <1>1, <1>3, <1>4 DEF SoundInv, DraftInv, Failed
<1>8. InboxReadable'
  BY <1>1 DEF SoundInv, InboxReadable
<1>9. ShownSound'
  BY <1>1, <1>3 DEF SoundInv, Started, ShownSound
<1> QED
  BY <1>1, <1>3, <1>6, <1>7, <1>8, <1>9 DEF SoundInv, LoadedCurrent

LEMMA LoadsSound ==
  ASSUME DocsInv, SoundInv, LoadUpgrade \/ LoadRename \/ LoadRead, UNCHANGED volatile
  PROVE  SoundInv'
<1>1. /\ store = "ready" /\ request # None /\ request.op = "load"
      /\ UNCHANGED <<store, phase, shown, inbox>>
  BY DEF LoadUpgrade, LoadRename, LoadRead, volatile
<1>2. phase = "loading"
  <2>1. SavingOK => request.op # "load" \/ request = None
    BY DEF SavingOK, Asked
  <2> QED
    BY <1>1, <2>1 DEF DocsInv, PhaseOK, LoadingOK, ListingOK, ShowingOK, SavingOK, Quiet
<1>3. /\ disk.existing /\ DOMAIN disk.value = PreferenceFields /\ disk.schema = 2
      /\ DOMAIN disk = {"schema", "symbols", "lists", "existing", "value"}
      /\ DiskSound /\ reply = None
  <2>1. LoadingOK /\ request # None
    BY <1>1, <1>2 DEF DocsInv, PhaseOK, LoadingOK, ListingOK, ShowingOK, SavingOK
  <2> QED
    BY <1>1, <2>1 DEF DocsInv, DiskTyped, SoundInv, LoadingOK
<1>4. ASSUME DiskSound', reply' # None /\ reply'.ok => disk'.value.version = 7
      PROVE  SoundInv'
  <2>1. InboxReadable'
    BY <1>1 DEF SoundInv, InboxReadable
  <2> QED
    BY <1>1, <1>2, <1>4, <2>1 DEF SoundInv, LoadedCurrent, Started, DraftInv
<1>5. ASSUME NEW v, disk' = [disk EXCEPT !.value = v], UNCHANGED reply, v.version = 7,
             Shaped(v.workspace), v.history = disk.value.history,
             ~Dangling(v.workspace, OpenedIds(disk))
      PROVE  SoundInv'
  <2>1. /\ disk'.value = v /\ disk'.existing /\ disk'.lists = disk.lists
        /\ disk'.schema = disk.schema
    BY <1>3, <1>5
  <2>2. OpenedIds(disk') = OpenedIds(disk)
    BY <2>1 DEF OpenedIds
  <2> QED
    BY <1>3, <1>4, <1>5, <2>1, <2>2 DEF DiskSound
<1>6. ASSUME UNCHANGED disk, reply' # None /\ reply'.ok => disk.value.version = 7
      PROVE  SoundInv'
  BY <1>3, <1>4, <1>6 DEF DiskSound
<1>7. /\ Shaped(disk.value.workspace) /\ ~Dangling(disk.value.workspace, OpenedIds(disk))
  BY <1>3 DEF DiskSound
<1>8. CASE LoadUpgrade
  <2>1. CASE UNCHANGED disk /\ Answer(Failed)
    BY <1>6, <2>1 DEF Answer, Failed
  <2>2. ASSUME NEW p \in Upgraded(disk.value), disk' = [disk EXCEPT !.value = p],
               UNCHANGED <<request, reply>>
        PROVE  SoundInv'
    <3>1. Implicit(disk.value.workspace) => Main \in OpenedIds(disk)
      BY <1>3, <1>8 DEF LoadUpgrade, DiskSound
    <3>2. /\ Shaped(p.workspace) /\ ~Dangling(p.workspace, OpenedIds(disk))
          /\ p.history = disk.value.history /\ p.version = 7
      BY <1>3, <1>7, <3>1, UpgradedSound
    <3> QED
      BY <1>5, <2>2, <3>2
  <2> QED
    BY <1>8, <2>1, <2>2 DEF LoadUpgrade
<1>9. CASE LoadRename
  <2>1. CASE UNCHANGED disk /\ Answer(Failed)
    BY <1>6, <2>1 DEF Answer, Failed
  <2>2. CASE /\ disk' = [disk EXCEPT !.value.workspace = RenameLegacyDesk(@)]
             /\ UNCHANGED <<request, reply>>
    <3> DEFINE w == RenameLegacyDesk(disk.value.workspace)
               v == [disk.value EXCEPT !.workspace = w]
    <3>1. disk' = [disk EXCEPT !.value = v]
      BY <2>2
    <3>2. Shaped(w) /\ ~Dangling(w, OpenedIds(disk))
      <4>1. Len(disk.value.workspace.layouts) \in Nat
        <5>1. Len(disk.value.workspace.layouts) \in 1..MaxLayouts
          BY <1>9 DEF LoadRename, ValidPreferences, ValidWorkspace
        <5> QED
          BY <5>1
      <4> QED
        BY <1>7, <4>1, RenamedSound
    <3> HIDE DEF w
    <3>3. v.workspace = w /\ v.history = disk.value.history /\ v.version = disk.value.version
      BY <1>3 DEF PreferenceFields
    <3>4. disk.value.version = 7
      BY <1>9 DEF LoadRename
    <3> HIDE DEF v
    <3> QED
      BY <1>5, <2>2, <3>1, <3>2, <3>3, <3>4
  <2> QED
    BY <1>9, <2>1, <2>2 DEF LoadRename
<1>10. CASE LoadRead
  <2>1. UNCHANGED disk /\ disk.value.version = 7
    BY <1>10 DEF LoadRead
  <2> QED
    BY <1>6, <2>1
<1> QED
  BY <1>8, <1>9, <1>10

LEMMA ListingSound ==
  ASSUME DocsInv, SoundInv, Lists, UNCHANGED volatile
  PROVE  SoundInv'
<1>1. /\ store = "ready" /\ request # None /\ request.op = "listing"
      /\ UNCHANGED <<store, phase, shown, disk, inbox>>
  BY DEF Lists, volatile
<1>2. phase = "listing"
  <2>1. SavingOK => request.op # "listing" \/ request = None
    BY DEF SavingOK, Asked
  <2> QED
    BY <1>1, <2>1 DEF DocsInv, PhaseOK, LoadingOK, ListingOK, ShowingOK, SavingOK, Quiet
<1>3. DiskSound' /\ InboxReadable'
  BY <1>1 DEF SoundInv, DiskSound, InboxReadable
<1> QED
  BY <1>1, <1>2, <1>3 DEF SoundInv, LoadedCurrent, Started, DraftInv

LEMMA StoreSound ==
  ASSUME DocsInv, SoundInv, StoreStep
  PROVE  SoundInv'
<1> QED
  BY OpeningSound, SavesSound, LoadsSound, ListingSound DEF StoreStep, StoreNext

-----------------------------------------------------------------------------
\* The worker's steps.
LEMMA SoundStutter ==
  ASSUME SoundInv, UNCHANGED <<storeVars, phase, shown, draft, inbox>>
  PROVE  SoundInv'
<1>1. UNCHANGED <<disk, request, reply>>
  BY DEF storeVars
<1>2. DiskSound' /\ InboxReadable'
  BY <1>1 DEF SoundInv, DiskSound, InboxReadable
<1>3. UNCHANGED ShownSound
  BY DEF ShownSound
<1> QED
  BY <1>1, <1>2, <1>3 DEF SoundInv, LoadedCurrent, Started, DraftInv

LEMMA NothingSent == ASSUME inbox = <<>> PROVE InboxReadable
<1>1. PICK S : S = {}
  OBVIOUS
<1>2. inbox \in Seq(S)
  <2>1. <<>> \in Seq(S)
    OBVIOUS
  <2> QED
    BY <2>1
<1>3. \A m \in S : Readable(m)
  BY <1>1
<1> QED
  BY <1>2, <1>3, Zenon DEF InboxReadable

LEMMA StartingSound ==
  ASSUME DocsInv, SoundInv, Boot \/ AskLoad \/ AskLists \/ Start \/ StartFails \/ Restart
  PROVE  SoundInv'
<1>1. UNCHANGED disk /\ DiskSound'
  BY DEF Boot, AskLoad, AskLists, Start, StartFails, Restart, Ask, storeVars, SoundInv, DiskSound
<1>2. InboxReadable'
  <2>1. CASE Restart
    <3>1. inbox' = <<>>
      BY <2>1 DEF Restart
    <3>2. <<>> \in Seq({})
      OBVIOUS
    <3> QED
      BY <3>1, <3>2 DEF InboxReadable
  <2>2. CASE ~Restart
    BY <2>2 DEF Boot, AskLoad, AskLists, Start, StartFails, SoundInv, InboxReadable
  <2> QED
    BY <2>1, <2>2
<1>3. CASE Start
  <2>1. /\ phase = "listing" /\ phase' = "idle" /\ reply.lists = disk.lists
        /\ Loadable /\ shown.prefs = disk.value /\ store = "ready"
    BY <1>3 DEF Start, DocsInv, PhaseOK, LoadingOK, ListingOK, ShowingOK, SavingOK
  <2> DEFINE p == [shown.prefs EXCEPT !.selected = FirstSelection(shown.prefs, reply.lists)]
  <2>2. shown'.lists = disk.lists /\ shown'.prefs = p
    BY <1>3, <2>1 DEF Start
  <2>3. /\ p.active = disk.value.active /\ p.workspace = disk.value.workspace
        /\ p.history = disk.value.history /\ p.version = disk.value.version
        /\ p.keymap = disk.value.keymap
    BY <2>1 DEF DocsInv, ShownTyped, PreferenceFields
  <2> HIDE DEF p
  <2>4. disk.schema = 2 /\ disk.existing
    BY <2>1 DEF DocsInv, DiskTyped
  <2>5. OpenedIds(disk) = Ids(disk.lists)
    BY <2>1, <2>4, OpenedLists DEF Loadable
  <2>6. Sound(p, disk.lists)
    BY <2>1, <2>3, <2>4, <2>5 DEF SoundInv, DiskSound, LoadedCurrent, Sound
  <2>7. ValidPreferences(p) /\ ValidLists(disk.lists, p.active)
    BY <2>1, <2>3 DEF Loadable, ValidPreferences
  <2>8. ShownSound'
    BY <2>2, <2>6, <2>7 DEF ShownSound
  <2> QED
    BY <1>1, <1>2, <2>1, <2>8 DEF SoundInv, LoadedCurrent, DraftInv
<1>4. CASE Boot \/ AskLoad \/ AskLists \/ StartFails \/ Restart
  <2>1. phase' \in {"off", "opening", "loading", "listing", "failed"}
    BY <1>4 DEF Boot, AskLoad, AskLists, StartFails, Restart
  <2>2. phase' = "loading" => reply' = None
    BY <1>4 DEF Boot, AskLoad, AskLists, StartFails, Restart, Ask
  <2>3. phase' = "listing" => disk.value.version = 7
    BY <1>4 DEF Boot, AskLoad, AskLists, StartFails, Restart, SoundInv, LoadedCurrent
  <2> QED
    BY <1>1, <1>2, <2>1, <2>2, <2>3 DEF SoundInv, LoadedCurrent, Started, DraftInv
<1> QED
  BY <1>3, <1>4

LEMMA SendSound ==
  ASSUME SoundInv, Send
  PROVE  SoundInv'
<1>1. PICK m \in {x \in Messages(scenario, shown) : Admitted(x)} : inbox' = Append(inbox, m)
  BY DEF Send
<1>2. Readable(m)
  BY <1>1 DEF Admitted, Readable
<1>3. PICK S : inbox \in Seq(S) /\ \A x \in S : Readable(x)
  BY DEF SoundInv, InboxReadable
<1>4. inbox' \in Seq(S \cup {m}) /\ \A x \in S \cup {m} : Readable(x)
  <2>1. inbox \in Seq(S \cup {m})
    BY <1>3
  <2> QED
    BY <1>1, <1>2, <1>3, <2>1
<1>5. InboxReadable'
  BY <1>4 DEF InboxReadable, Readable
<1>6. UNCHANGED <<disk, request, reply, phase, shown, draft>>
  BY DEF Send, storeVars
<1> QED
  BY <1>5, <1>6 DEF SoundInv, DiskSound, LoadedCurrent, Started, ShownSound, DraftInv

LEMMA ServeSound ==
  ASSUME DocsInv, SoundInv, Serve
  PROVE  SoundInv'
<1> DEFINE m == Head(inbox)
<1>1. /\ phase = "idle" /\ inbox # <<>> /\ inbox' = Tail(inbox)
      /\ shown' = Immediate(m) /\ UNCHANGED disk
      /\ \/ phase' \in {"idle", "quitting"}
         \/ \E d \in Drafts(m) :
              /\ phase' = "saving" /\ reply' = None
              /\ draft' = [message |-> m, lists |-> d.lists, prefs |-> d.prefs]
  BY DEF Serve, Ask, storeVars
<1>2. PICK S : inbox \in Seq(S) /\ \A x \in S : Readable(x)
  BY DEF SoundInv, InboxReadable
<1>3. m \in S /\ inbox' \in Seq(S)
  BY <1>1, <1>2
<1> HIDE DEF m
<1>4. Readable(m) /\ InboxReadable'
  BY <1>2, <1>3 DEF InboxReadable, Readable
<1>5. ShownSound /\ ShownTyped
  BY <1>1 DEF SoundInv, Started, DocsInv
<1>6. ShownSound' /\ shown'.prefs.workspace = shown.prefs.workspace
  BY <1>1, <1>5, ImmediateSound DEF ShownSound
<1>7. DiskSound'
  BY <1>1 DEF SoundInv, DiskSound
<1>8. CASE phase' \in {"idle", "quitting"}
  BY <1>4, <1>6, <1>7, <1>8 DEF SoundInv, LoadedCurrent, DraftInv
<1>9. ASSUME NEW d \in Drafts(m), phase' = "saving", reply' = None,
             draft' = [message |-> m, lists |-> d.lists, prefs |-> d.prefs]
      PROVE  SoundInv'
  <2>1. /\ Sound(d.prefs, d.lists)
        /\ m.kind # "chart" => SameCharts(shown.prefs.workspace, d.prefs.workspace)
    BY <1>4, <1>5, DraftSound
  <2>2. DraftInv'
    BY <1>6, <1>9, <2>1 DEF DraftInv
  <2> QED
    BY <1>4, <1>6, <1>7, <1>9, <2>2 DEF SoundInv, LoadedCurrent
<1> QED
  BY <1>1, <1>8, <1>9

LEMMA FinishSound ==
  ASSUME DocsInv, SoundInv, Finish
  PROVE  SoundInv'
<1>1. /\ SavingOK /\ request = None
      /\ phase = "saving" /\ phase' = "idle" /\ UNCHANGED <<disk, inbox>> /\ reply # None
      /\ shown' = IF reply.ok THEN Install(draft) ELSE shown
  BY DEF Finish, DocsInv, PhaseOK, LoadingOK, ListingOK, ShowingOK, SavingOK
<1>2. ShownSound /\ DraftInv
  BY <1>1 DEF SoundInv, Started
<1>3. ShownSound'
  <2>1. CASE ~reply.ok
    BY <1>1, <1>2, <2>1 DEF ShownSound
  <2>2. CASE reply.ok
    <3>1. shown'.lists = draft.lists /\ shown'.prefs = draft.prefs
      BY <1>1, <2>2 DEF Install
    <3>2. ValidLists(draft.lists, draft.prefs.active)
      BY <1>1 DEF SavingOK, Drafted, ShownOK
    <3>3. Sound(draft.prefs, draft.lists) /\ ValidPreferences(draft.prefs)
      BY <1>1, <1>2, <2>2 DEF DraftInv
    <3> QED
      BY <3>1, <3>2, <3>3 DEF ShownSound
  <2> QED
    BY <2>1, <2>2
<1>4. DiskSound' /\ InboxReadable'
  BY <1>1 DEF SoundInv, DiskSound, InboxReadable
<1> QED
  BY <1>1, <1>3, <1>4 DEF SoundInv, LoadedCurrent, DraftInv

LEMMA EndSound ==
  ASSUME SoundInv, End
  PROVE  SoundInv'
<1>1. phase' = "ended" /\ inbox' = <<>> /\ UNCHANGED disk
  BY DEF End, storeVars
<1>2. <<>> \in Seq({})
  OBVIOUS
<1>3. InboxReadable' /\ DiskSound'
  BY <1>1, <1>2 DEF InboxReadable, SoundInv, DiskSound
<1> QED
  BY <1>1, <1>3 DEF SoundInv, LoadedCurrent, Started, DraftInv

LEMMA SoundKeeps ==
  ASSUME DocsInv, SoundInv, Next
  PROVE  SoundInv'
<1>1. CASE UseNativePanels \/ Stop \/ Launch \/ ResourceChange
  <2>1. UNCHANGED <<storeVars, phase, shown, draft, inbox>>
    BY <1>1 DEF UseNativePanels, Stop, Launch, ResourceChange
  <2> QED
    BY <2>1, SoundStutter
<1>2. ASSUME NEW t \in TaskIds, TaskEnds(t) \/ Complete(t) \/ JoinFailed(t)
      PROVE  SoundInv'
  <2>1. UNCHANGED <<storeVars, phase, shown, draft, inbox>>
    BY <1>2 DEF TaskEnds, Complete, JoinFailed
  <2> QED
    BY <2>1, SoundStutter
<1>3. ASSUME NEW k \in Keys, Elapse(k)
      PROVE  SoundInv'
  <2>1. UNCHANGED <<storeVars, phase, shown, draft, inbox>>
    BY <1>3 DEF Elapse
  <2> QED
    BY <2>1, SoundStutter
<1> QED
  BY <1>1, <1>2, <1>3, StartingSound, SendSound, ServeSound, FinishSound, EndSound,
     StoreSound DEF Next

LEMMA SoundInit == Init => SoundInv
<1> SUFFICES ASSUME Init PROVE SoundInv
  OBVIOUS
<1>1. DiskSound
  <2>1. /\ disk.schema < 2 => disk.lists = <<>>
        /\ IF disk.existing THEN WrittenFor(disk.value, OpenedIds(disk)) ELSE disk.lists = <<>>
    BY WorkerAssumption DEF Init
  <2> QED
    BY <2>1 DEF DiskSound, WrittenFor, Sequenced
<1>2. InboxReadable
  BY NothingSent DEF Init
<1> QED
  BY <1>1, <1>2 DEF Init, SoundInv, LoadedCurrent, Started, DraftInv

(* What is saved, what is shown and what a database holds fit together, from *)
(* a database of any version the program wrote through every upgrade, edit,  *)
(* refused save and restart.                                                 *)
THEOREM SoundInvariant == Spec => []SoundInv
<1>1. SoundInv /\ DocsInv /\ [Next]_vars => SoundInv'
  <2> SUFFICES ASSUME SoundInv, DocsInv, [Next]_vars PROVE SoundInv'
    OBVIOUS
  <2>1. CASE Next
    BY <2>1, SoundKeeps
  <2>2. CASE UNCHANGED vars
    <3>1. UNCHANGED <<storeVars, phase, shown, draft, inbox>>
      BY <2>2 DEF vars, volatile
    <3> QED
      BY <3>1, SoundStutter
  <2> QED
    BY <2>1, <2>2
<1>2. Spec => Init /\ [][Next]_vars
  BY DEF Spec
<1>3. WorkerInv => DocsInv
  BY DEF WorkerInv
<1> QED
  BY <1>1, <1>2, <1>3, SoundInit, WorkerInvariant, PTL

(* What is shown can be saved again and loaded again, and no panel shows a   *)
(* list that is gone, whatever edits were accepted, refused or overtaken.    *)
THEOREM SoundShown == Spec => []ShownIsSound
<1>1. SoundInv => ShownIsSound
  BY DEF SoundInv, ShownSound, Sound, ShownIsSound, prefs
<1> QED
  BY <1>1, SoundInvariant, PTL

LEMMA SameChartsShown ==
  ASSUME NEW v, NEW w, SameCharts(v, w), NEW n, NEW p,
         Chart(v, n, p) # {}, Chart(w, n, p) # {}
  PROVE  Chart(v, n, p) = Chart(w, n, p)
<1>1. ASSUME NEW c \in Chart(v, n, p), NEW d \in Chart(w, n, p)
      PROVE  c = d
  <2>1. PICK i \in DOMAIN v.layouts :
          /\ v.layouts[i].name = n /\ p \in DOMAIN v.layouts[i].panels
          /\ c = <<v.layouts[i].panels[p].chart, v.layouts[i].panels[p].drawings>>
    BY <1>1 DEF Chart, ToSet
  <2>2. PICK j \in DOMAIN w.layouts :
          /\ w.layouts[j].name = n /\ p \in DOMAIN w.layouts[j].panels
          /\ d = <<w.layouts[j].panels[p].chart, w.layouts[j].panels[p].drawings>>
    BY <1>1 DEF Chart, ToSet
  <2> QED
    BY <2>1, <2>2 DEF SameCharts
<1> HIDE DEF Chart
<1> QED
  BY <1>1

KeepsCharts ==
    Started /\ Started' /\ (phase = "saving" => draft.message.kind # "chart") =>
        \A n \in LayoutNames(prefs.workspace), p \in PanelIds :
            LET before == Chart(prefs.workspace, n, p)
                after == Chart(prefs'.workspace, n, p)
            IN  before # {} /\ after # {} => before = after

(* The charts of a layout change by chart edits only, however many layouts   *)
(* were edited before and saved after them.                                  *)
THEOREM ChartsByCharting == Spec => ChartsChangeByCharting
<1>1. DocsInv /\ SoundInv /\ [Next]_vars => KeepsCharts
  <2> SUFFICES ASSUME DocsInv, SoundInv, [Next]_vars, Started, Started',
                      phase = "saving" => draft.message.kind # "chart",
                      NEW n, NEW p,
                      Chart(shown.prefs.workspace, n, p) # {},
                      Chart(shown'.prefs.workspace, n, p) # {}
               PROVE  Chart(shown.prefs.workspace, n, p) = Chart(shown'.prefs.workspace, n, p)
    BY DEF KeepsCharts, prefs
  <2>1. SUFFICES ASSUME shown'.prefs.workspace # shown.prefs.workspace
                 PROVE  SameCharts(shown.prefs.workspace, shown'.prefs.workspace)
    BY SameChartsShown
  <2>2. ~Serve
    <3>1. ASSUME Serve PROVE shown'.prefs.workspace = shown.prefs.workspace
      <4>1. shown' = Immediate(Head(inbox)) /\ ShownTyped
        BY <3>1 DEF Serve, DocsInv
      <4> QED
        BY <4>1, ImmediateKeeps DEF Lasting
    <3> QED
      BY <2>1, <3>1
  <2>3. ~(Boot \/ AskLoad \/ AskLists \/ Start \/ StartFails \/ Restart)
    BY DEF Boot, AskLoad, AskLists, Start, StartFails, Restart, Started
  <2>4. Finish
    BY <2>1, <2>2, <2>3 DEF Next, vars, volatile, Send, UseNativePanels, Stop, End, Launch,
       ResourceChange, TaskEnds, Complete, JoinFailed, Elapse, StoreStep
  <2>5. /\ phase = "saving" /\ shown' = Install(draft)
    BY <2>1, <2>4 DEF Finish
  <2>6. shown'.prefs = draft.prefs
    BY <2>5 DEF Install
  <2> QED
    BY <2>5, <2>6 DEF SoundInv, DraftInv
<1>2. WorkerInv => DocsInv
  BY DEF WorkerInv
<1>3. Spec => [][Next]_vars
  BY DEF Spec
<1>4. ChartsChangeByCharting <=> [][KeepsCharts]_vars
  BY DEF ChartsChangeByCharting, KeepsCharts
<1> QED
  BY <1>1, <1>2, <1>3, <1>4, WorkerInvariant, SoundInvariant, PTL

=============================================================================
