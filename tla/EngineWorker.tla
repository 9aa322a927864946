---------------------------- MODULE EngineWorker ----------------------------
(* The engine of the terminal (crates/terminal-engine/src/lib.rs): one task  *)
(* that serves actions, saves documents through the store, runs the fetches  *)
(* of the market data it shows and publishes a snapshot after every handler. *)
(* A handler that saves waits for the store's reply and does nothing else;   *)
(* the store's commit, a crash, a stop and new messages fall in between.     *)
EXTENDS WorkspaceStore

CONSTANTS
    Symbols,            \* instruments
    PanelIds,           \* the panels of a layout
    Ranges,             \* HistoryRange
    Scenarios,          \* the web views considered, the databases they find, and
                        \* how many messages and restarts a behaviour has
    Messages(_, _),     \* the messages such a web view sends for what it sees
    MaxTasks,           \* fetches running at once: 4 in the code
    QueueSize           \* messages the channel holds: 64 in the code

(* The databases are ones the program wrote.  Lists came with version 2 and  *)
(* are saved along with preferences.  A panel shows a list that is there,    *)
(* and one that does not say which is from before "main" could be deleted.   *)
WrittenFor(p, ids) ==
    /\ DOMAIN p = DOMAIN DefaultPreferences
    /\ p.history \in Seq(ToSet(p.history))
    /\ Shaped(p.workspace)
    /\ ~Dangling(p.workspace, ids)
    /\ p.version <= 6 /\ Implicit(p.workspace) => Main \in ids

ASSUME WorkerAssumption ==
    /\ MaxTasks \in Nat /\ MaxHistory \in Nat
    /\ \A s \in Scenarios : \A d \in s.disks :
          /\ DOMAIN d = {"schema", "symbols", "lists", "existing", "value"}
          /\ d.schema < 2 => d.lists = <<>>
          /\ IF d.existing THEN WrittenFor(d.value, OpenedIds(d))
             ELSE d.lists = <<>>

VARIABLES
    phase,      \* off, opening, loading, listing, failed; idle, saving; ended
    shown,      \* the snapshot's documents: [lists, watchlist, prefs]
    inbox,      \* messages accepted and not served
    draft,      \* the documents being saved, with their message
    fetch,      \* [generation, schedule, tasks]: the legacy scheduler
    quotes,     \* per instrument of the snapshot, whether there are data
    candles,    \* [of, data]: the history of the snapshot
    native,     \* use_native_panels was called: the legacy scheduler is off
    stopping,   \* the stop signal
    scenario,   \* which web view: never changes
    spent       \* [messages, restarts]: the bounds

volatile == <<phase, shown, inbox, draft, fetch, quotes, candles, native, stopping>>

vars == <<storeVars, volatile, scenario, spent>>

TaskIds == 1..MaxTasks

Quote(s) == [kind |-> "quote", of |-> s]

History(g) == [kind |-> "history", of |-> g]

(* What the history shows before its first answer.                           *)
Loading == [of |-> None, data |-> FALSE]

-----------------------------------------------------------------------------
(* Bookkeeping of the scheduler.  A schedule entry is due or not, and holds  *)
(* the id of the task it can abort.  A task that is through waits in the     *)
(* JoinSet until the worker takes its result.                                *)

Entry == [due |-> TRUE, abort |-> None]

Dropped(f, keys) ==
    LET aborted == {f.schedule[k].abort : k \in keys}
    IN  [f EXCEPT !.schedule = [k \in DOMAIN @ \ keys |-> @[k]],
                  !.tasks = [t \in DOMAIN @ |->
                                IF t \in aborted THEN [@[t] EXCEPT !.aborted = TRUE]
                                ELSE @[t]]]

(* (mutant) A new history has the key of the old one.                        *)
ResetKeepsGeneration(f) ==
    Dropped(f, {k \in DOMAIN f.schedule : k.kind = "history"})

(* reset_history: the fetch of the old history is aborted and its key gone.  *)
ResetHistory(f) ==
    [Dropped(f, {k \in DOMAIN f.schedule : k.kind = "history"})
        EXCEPT !.generation = @ + 1]

(* The keys that reconcile keeps or adds.                                    *)
WantedKeys(f, s, off) ==
    IF off THEN {}
    ELSE {Quote(i) : i \in s.watchlist \cup ({s.prefs.selected} \ {None})}
         \cup {History(f.generation) : i \in {s.prefs.selected} \ {None}}

Reconciled(f, s) ==
    LET wanted == WantedKeys(f, s, native)
        kept == Dropped(f, DOMAIN f.schedule \ wanted)
    IN  [kept EXCEPT !.schedule =
            [k \in wanted |-> IF k \in DOMAIN @ THEN @[k] ELSE Entry]]

(* The quotes reconcile keeps: of every list, the selection and the pins.    *)
KeptQuotes(q, s) ==
    LET retained == Held(s.lists) \cup {s.prefs.selected} \cup Pinned(s.prefs.workspace)
    IN  [i \in DOMAIN q \cap retained |-> q[i]]

-----------------------------------------------------------------------------
(* Starting, and starting again after a crash or an exit.                    *)

Started == phase \in {"idle", "saving", "quitting"}

Unread == [lists |-> <<>>, watchlist |-> {}, prefs |-> DefaultPreferences]

NoFetches == [generation |-> 0, schedule |-> <<>>, tasks |-> <<>>]

Init ==
    /\ scenario \in Scenarios
    /\ disk \in scenario.disks
    /\ StoreInit
    /\ phase = "off" /\ stopping = FALSE /\ native = (scenario.panels = "first")
    /\ shown = Unread /\ inbox = <<>> /\ draft = None
    /\ fetch = NoFetches /\ quotes = <<>> /\ candles = Loading
    /\ spent = [messages |-> 0, restarts |-> 0]

Boot ==
    /\ phase = "off"
    /\ phase' = "opening"
    /\ store' = "opening"
    /\ UNCHANGED <<disk, request, reply, shown, inbox, draft, fetch, quotes, candles,
                   native, stopping, scenario, spent>>

Ask(r) == request' = r /\ reply' = None /\ UNCHANGED <<disk, store>>

(* start(): the preferences, then the lists; without a selection the first   *)
(* symbol of the active list is selected.                                    *)
AskLoad ==
    /\ phase = "opening"
    /\ \/ store = "ready" /\ phase' = "loading" /\ Ask([op |-> "load"])
       \/ store = "refused" /\ phase' = "failed" /\ UNCHANGED storeVars
    /\ UNCHANGED <<shown, inbox, draft, fetch, quotes, candles, native, stopping,
                   scenario, spent>>

AskLists ==
    /\ phase = "loading" /\ reply # None
    /\ IF reply.ok
       THEN /\ phase' = "listing"
            /\ shown' = [shown EXCEPT !.prefs = reply.prefs]
            /\ Ask([op |-> "listing"])
       ELSE /\ phase' = "failed"
            /\ UNCHANGED <<shown, storeVars>>
    /\ UNCHANGED <<inbox, draft, fetch, quotes, candles, native, stopping, scenario,
                   spent>>

FirstSelection(prefs, lists) ==
    LET first == {lists[i].symbols[1] :
                     i \in {j \in At(lists, prefs.active) : lists[j].symbols # <<>>}}
    IN  IF prefs.selected # None \/ first = {} THEN prefs.selected
        ELSE CHOOSE s \in first : TRUE

Start ==
    /\ phase = "listing" /\ reply # None /\ reply.ok
    /\ phase' = "idle"
    /\ shown' = [lists |-> reply.lists,
                 watchlist |-> SymbolsOf(reply.lists, shown.prefs.active),
                 prefs |-> [shown.prefs EXCEPT
                              !.selected = FirstSelection(shown.prefs, reply.lists)]]
    /\ reply' = None
    /\ UNCHANGED <<disk, store, request, inbox, draft, fetch, quotes, candles, native,
                   stopping, scenario, spent>>

StartFails ==
    /\ phase = "listing" /\ reply # None /\ ~reply.ok
    /\ phase' = "failed"
    /\ UNCHANGED <<storeVars, shown, inbox, draft, fetch, quotes, candles, native,
                   stopping, scenario, spent>>

Restart ==
    /\ phase # "off"
    /\ spent.restarts < scenario.restarts
    /\ phase' = "off" /\ stopping' = FALSE /\ native' = (scenario.panels = "first")
    /\ shown' = Unread /\ inbox' = <<>> /\ draft' = None
    /\ fetch' = NoFetches /\ quotes' = <<>> /\ candles' = Loading
    /\ store' = "closed" /\ request' = None /\ reply' = None
    /\ spent' = [spent EXCEPT !.restarts = @ + 1]
    /\ UNCHANGED <<disk, scenario>>

-----------------------------------------------------------------------------
(* The web view: dispatch and the mutate calls put a message into the        *)
(* channel; a layout is saved as the workspace the view sees, edited.        *)

(* What a call refuses before it sends anything.                             *)
Admitted(m) ==
    CASE m.kind = "view" -> m.view \in 260..420
      [] m.kind = "keys" -> ValidKeymap(m.keymap)
      [] m.kind = "workspace" -> Shaped(m.workspace) /\ ValidWorkspace(m.workspace)
      [] OTHER -> TRUE

Send ==
    /\ Started /\ ~stopping
    /\ Len(inbox) < QueueSize
    /\ spent.messages < scenario.messages
    /\ \E m \in {x \in Messages(scenario, shown) : Admitted(x)} :
          inbox' = Append(inbox, m)
    /\ spent' = [spent EXCEPT !.messages = @ + 1]
    /\ UNCHANGED <<storeVars, phase, shown, draft, fetch, quotes, candles, native,
                   stopping, scenario>>

UseNativePanels ==
    /\ Started /\ ~native /\ scenario.panels = "later"
    /\ native' = TRUE
    /\ UNCHANGED <<storeVars, phase, shown, inbox, draft, fetch, quotes, candles,
                   stopping, scenario, spent>>

Stop ==
    /\ Started /\ ~stopping
    /\ stopping' = TRUE
    /\ UNCHANGED <<storeVars, phase, shown, inbox, draft, fetch, quotes, candles,
                   native, scenario, spent>>

-----------------------------------------------------------------------------
(* Serving a message.                                                        *)

prefs == shown.prefs

Current == [prefs EXCEPT !.version = 7]

(* SaveWorkspace keeps the browser settings, and the charts of the panels    *)
(* that a layout of the same name has.                                       *)
KeptCharts(layout) ==
    LET old == {l \in ToSet(prefs.workspace.layouts) : l.name = layout.name}
        With(p, q) == [p EXCEPT !.chart = q.chart, !.drawings = q.drawings]
    IN  [layout EXCEPT !.panels =
            [p \in DOMAIN @ |->
                IF \E l \in old : p \in DOMAIN l.panels
                THEN With(@[p], (CHOOSE l \in old : TRUE).panels[p]) ELSE @[p]]]

(* (mutant) A layout is saved with the charts it was sent with.              *)
SavedAsSent(w) == [w EXCEPT !.browser = prefs.workspace.browser]

SavedWorkspace(w) ==
    [w EXCEPT !.browser = prefs.workspace.browser,
              !.layouts = [i \in DOMAIN @ |-> KeptCharts(@[i])]]

(* parse_command; :add and :del edit the active list.                        *)
Parsed(words) ==
    CASE words = <<"q">> -> "quit"
      [] words = <<"w">> -> "write"
      [] Len(words) = 2 /\ words[1] \in {"add", "del"} /\ words[2] \in Symbols -> words[1]
      [] OTHER -> "invalid"

Does(m) == IF m.kind = "command" THEN Parsed(m.words) ELSE "nothing"

CommandEdit(m) ==
    IF Does(m) = "add"
    THEN [edit |-> "add", id |-> prefs.active, symbols |-> <<m.words[2]>>]
    ELSE [edit |-> "remove", id |-> prefs.active, symbol |-> m.words[2]]

(* The preferences after a command was entered: its text joins the history.  *)
Entered(p, text) ==
    LET pushed == IF p.history # <<>> /\ p.history[Len(p.history)] = text
                  THEN p.history ELSE Append(p.history, text)
    IN  [p EXCEPT !.history = IF Len(pushed) > MaxHistory THEN Tail(pushed) ELSE pushed]

(* The documents a message asks to save: none when the edit is refused.      *)
ListDrafts(p, m) ==
    {[lists |-> r.lists,
      prefs |-> [p EXCEPT !.version = 7, !.active = r.active,
                          !.workspace = Repointed(@, r.lists, r.active)]] :
        r \in ApplyWatchlist(shown.lists, p.active, m)}

(* (mutant) A layout may show a list that was deleted meanwhile.             *)
DraftsDangle(m) ==
    CASE m.kind = "browser" ->
            {[Current EXCEPT !.workspace.browser = b] :
                b \in ApplyBrowser(prefs.workspace.browser, m)}
      [] m.kind = "chart" ->
            {[Current EXCEPT !.workspace = w] : w \in ApplyChart(prefs.workspace, m)}
      [] m.kind = "view" -> {[Current EXCEPT !.workspace.view = m.view]}
      [] m.kind = "workspace" ->
            {[Current EXCEPT !.workspace = SavedWorkspace(m.workspace)]}
      [] m.kind = "keys" -> {[prefs EXCEPT !.keymap = m.keymap]}

PreferenceDrafts(m) ==
    CASE m.kind = "browser" ->
            {[Current EXCEPT !.workspace.browser = b] :
                b \in ApplyBrowser(prefs.workspace.browser, m)}
      [] m.kind = "chart" ->
            {[Current EXCEPT !.workspace = w] : w \in ApplyChart(prefs.workspace, m)}
      [] m.kind = "view" -> {[Current EXCEPT !.workspace.view = m.view]}
      [] m.kind = "workspace" ->
            {[Current EXCEPT !.workspace = w] :
                w \in {v \in {SavedWorkspace(m.workspace)} : ~Dangling(v, Ids(shown.lists))}}
      [] OTHER -> {[prefs EXCEPT !.keymap = m.keymap]}

CommandDrafts(m) ==
    CASE Does(m) \in {"add", "del"} ->
            ListDrafts(Entered(prefs, m.words), CommandEdit(m))
      [] Does(m) = "write" ->
            {[lists |-> shown.lists, prefs |-> Entered(prefs, m.words)]}
      [] OTHER -> {}

Drafts(m) ==
    CASE m.kind = "watchlist" -> ListDrafts(prefs, m)
      [] m.kind = "command" -> CommandDrafts(m)
      [] m.kind \in {"select", "range"} -> {}
      [] OTHER -> {[lists |-> shown.lists, prefs |-> p] :
                      p \in {q \in PreferenceDrafts(m) : ValidPreferences(q)}}

SavesLists(m) ==
    m.kind = "watchlist" \/ Does(m) \in {"add", "del"}

(* What a message changes in the documents before anything is saved.         *)
Immediate(m) ==
    CASE m.kind = "select" -> [shown EXCEPT !.prefs.selected = m.symbol]
      [] m.kind = "range" -> [shown EXCEPT !.prefs.range = m.range]
      [] m.kind = "command" -> [shown EXCEPT !.prefs = Entered(@, m.words)]
      [] OTHER -> shown

Chosen(d) == <<d.prefs.selected, d.prefs.range>>

(* A new selection or range starts a new history; every command ends with    *)
(* reconcile.                                                                *)
Rescheduled(m, docs, f) ==
    CASE m.kind = "command" -> Reconciled(f, docs)
      [] m.kind \in {"select", "range"} /\ Chosen(docs) # Chosen(shown) -> ResetHistory(f)
      [] OTHER -> f

Serve ==
    /\ phase = "idle" /\ inbox # <<>>
    /\ inbox' = Tail(inbox)
    /\ shown' = Immediate(Head(inbox))
    /\ LET m == Head(inbox) IN
       \/ /\ Drafts(m) = {}
          /\ phase' = IF Does(m) = "quit" THEN "quitting" ELSE "idle"
          /\ fetch' = Rescheduled(m, shown', fetch)
          /\ quotes' = IF m.kind = "command" THEN KeptQuotes(quotes, shown') ELSE quotes
          /\ candles' = IF Chosen(shown') # Chosen(shown) THEN Loading ELSE candles
          /\ UNCHANGED <<storeVars, draft>>
       \/ \E d \in Drafts(m) :
          /\ phase' = "saving"
          /\ draft' = [message |-> m, lists |-> d.lists, prefs |-> d.prefs]
          /\ Ask(IF SavesLists(m)
                 THEN [op |-> "lists", lists |-> d.lists, prefs |-> d.prefs]
                 ELSE [op |-> "save", prefs |-> d.prefs])
          /\ UNCHANGED <<fetch, quotes, candles>>
    /\ UNCHANGED <<native, stopping, scenario, spent>>

(* The store replied: the documents are shown only if they were committed.   *)
Install(d) ==
    [lists |-> d.lists,
     watchlist |-> IF SavesLists(d.message) THEN SymbolsOf(d.lists, d.prefs.active)
                   ELSE shown.watchlist,
     prefs |-> d.prefs]

(* (mutant) The documents are shown although their save failed.              *)
FinishIgnoresFailure ==
    /\ phase = "saving" /\ reply # None
    /\ phase' = "idle"
    /\ shown' = Install(draft)
    /\ fetch' = Reconciled(fetch, shown')
    /\ quotes' = KeptQuotes(quotes, shown')
    /\ draft' = None
    /\ reply' = None
    /\ UNCHANGED <<disk, store, request, inbox, candles, native, stopping, scenario,
                   spent>>

Finish ==
    /\ phase = "saving" /\ reply # None
    /\ phase' = "idle"
    /\ shown' = IF reply.ok THEN Install(draft) ELSE shown
    /\ LET m == draft.message
           reconcile == m.kind = "command" \/ (reply.ok /\ SavesLists(m))
       IN  /\ fetch' = IF reconcile THEN Reconciled(fetch, shown') ELSE fetch
           /\ quotes' = IF reconcile THEN KeptQuotes(quotes, shown') ELSE quotes
    /\ draft' = None
    /\ reply' = None
    /\ UNCHANGED <<disk, store, request, inbox, candles, native, stopping, scenario,
                   spent>>

-----------------------------------------------------------------------------
(* Fetching.                                                                 *)

DueKeys(f) ==
    {k \in DOMAIN f.schedule : f.schedule[k].due /\ f.schedule[k].abort = None}

(* (mutant) The history waits its turn among the quotes.                     *)
AnyKeys(f) ==
    LET due == DueKeys(f)
        room == MaxTasks - Cardinality(DOMAIN f.tasks)
    IN  {q \in SUBSET due :
            Cardinality(q) <= room /\ (Cardinality(q) < room => q = due)}

(* The history goes first, then as many quotes as there is room for.         *)
FirstKeys(f) ==
    LET due == DueKeys(f)
        room == MaxTasks - Cardinality(DOMAIN f.tasks)
        history == {k \in due : k.kind = "history"}
    IN  {q \in SUBSET due :
            /\ Cardinality(q) <= room /\ (Cardinality(q) < room => q = due)
            /\ q # {} => history \subseteq q}

Spawned(f, keys) ==
    LET id == CHOOSE g \in [keys -> TaskIds \ DOMAIN f.tasks] :
                  \A k, l \in keys : g[k] = g[l] => k = l
        KeyOf(t) == CHOOSE k \in keys : id[k] = t
        started == {id[k] : k \in keys}
    IN  [f EXCEPT
            !.schedule = [k \in DOMAIN @ |->
                            IF k \in keys THEN [@[k] EXCEPT !.abort = id[k]] ELSE @[k]],
            !.tasks = [t \in DOMAIN @ \cup started |->
                         IF t \in started
                         THEN [key |-> KeyOf(t), aborted |-> FALSE, done |-> FALSE,
                               of |-> IF KeyOf(t).kind = "history" THEN Chosen(shown)
                                      ELSE None]
                         ELSE @[t]]]

(* The timer, every 100 ms.                                                  *)
Launch ==
    /\ phase = "idle"
    /\ LET f == Reconciled(fetch, shown) IN
       \E keys \in FirstKeys(f) : fetch' = Spawned(f, keys)
    /\ quotes' = KeptQuotes(quotes, shown)
    /\ UNCHANGED <<storeVars, phase, shown, inbox, draft, candles, native, stopping,
                   scenario, spent>>

TaskEnds(t) ==
    /\ t \in DOMAIN fetch.tasks /\ ~fetch.tasks[t].done
    /\ fetch' = [fetch EXCEPT !.tasks[t].done = TRUE]
    /\ UNCHANGED <<storeVars, phase, shown, inbox, draft, quotes, candles, native,
                   stopping, scenario, spent>>

Joined(t) == [fetch EXCEPT !.tasks = [u \in DOMAIN @ \ {t} |-> @[u]]]

(* merge: without data in the answer the last data are kept.                 *)
MergedQuotes(i, data) ==
    [j \in DOMAIN quotes \cup {i} |->
        IF j = i THEN data \/ (i \in DOMAIN quotes /\ quotes[i]) ELSE quotes[j]]

MergedCandles(of, data) ==
    IF data \/ ~candles.data THEN [of |-> of, data |-> data] ELSE candles

(* complete(): an answer nobody waits for is dropped; the key of any other   *)
(* gets its next delay, and what was shown is merged with the answer, which  *)
(* may be fresh, stale, without data or an error.  No key is ever blocked:   *)
(* authentication_failure looks for Http errors, and launch gives every      *)
(* error of a fetch as a Payload.                                            *)
Complete(t) ==
    /\ phase = "idle"
    /\ t \in DOMAIN fetch.tasks /\ fetch.tasks[t].done
    /\ LET k == fetch.tasks[t].key IN
       \/ /\ k \notin DOMAIN fetch.schedule
          /\ fetch' = Joined(t)
          /\ UNCHANGED <<quotes, candles>>
       \/ /\ k \in DOMAIN fetch.schedule
          /\ fetch' = [Joined(t) EXCEPT !.schedule[k] = [due |-> FALSE, abort |-> None]]
          /\ \E data \in BOOLEAN :
                IF k.kind = "quote"
                THEN quotes' = MergedQuotes(k.of, data) /\ UNCHANGED candles
                ELSE /\ candles' = MergedCandles(fetch.tasks[t].of, data)
                     /\ UNCHANGED quotes
    /\ UNCHANGED <<storeVars, phase, shown, inbox, draft, native, stopping, scenario,
                   spent>>

(* (mutant) A failed join leaves the handle in its entry.                    *)
JoinForgetsEntry(t) ==
    /\ phase = "idle"
    /\ t \in DOMAIN fetch.tasks /\ fetch.tasks[t].done
    /\ fetch' = Joined(t)
    /\ UNCHANGED <<storeVars, phase, shown, inbox, draft, quotes, candles, native,
                   stopping, scenario, spent>>

(* join_next reports a panic, or a task aborted before it was through: the   *)
(* entry that holds this very task may be fetched again.                     *)
JoinFailed(t) ==
    /\ phase = "idle"
    /\ t \in DOMAIN fetch.tasks /\ fetch.tasks[t].done
    /\ fetch' = [Joined(t) EXCEPT !.schedule =
                    [k \in DOMAIN @ |-> IF @[k].abort = t
                                        THEN [@[k] EXCEPT !.abort = None] ELSE @[k]]]
    /\ UNCHANGED <<storeVars, phase, shown, inbox, draft, quotes, candles, native,
                   stopping, scenario, spent>>

(* The delay of an entry is over.                                            *)
Elapse(k) ==
    /\ k \in DOMAIN fetch.schedule /\ ~fetch.schedule[k].due
    /\ fetch' = [fetch EXCEPT !.schedule[k].due = TRUE]
    /\ UNCHANGED <<storeVars, phase, shown, inbox, draft, quotes, candles, native,
                   stopping, scenario, spent>>

(* A quote of the panels' subscriptions replaces the one shown.              *)
ResourceChange ==
    /\ phase = "idle" /\ native
    /\ \E i \in Symbols, data \in BOOLEAN :
          quotes' = [j \in DOMAIN quotes \cup {i} |-> IF j = i THEN data ELSE quotes[j]]
    /\ UNCHANGED <<storeVars, phase, shown, inbox, draft, fetch, candles, native,
                   stopping, scenario, spent>>

(* (mutant) The loop ends without its fetches.                               *)
EndLeavesTasks ==
    /\ phase = "quitting" \/ (phase = "idle" /\ stopping)
    /\ phase' = "ended"
    /\ inbox' = <<>>
    /\ UNCHANGED <<storeVars, shown, draft, fetch, quotes, candles, native, stopping,
                   scenario, spent>>

(* The loop ends: fetches are aborted and joined, queued messages dropped.   *)
End ==
    /\ phase = "quitting" \/ (phase = "idle" /\ stopping)
    /\ phase' = "ended"
    /\ fetch' = [fetch EXCEPT !.tasks = <<>>]
    /\ inbox' = <<>>
    /\ UNCHANGED <<storeVars, shown, draft, quotes, candles, native, stopping, scenario,
                   spent>>

-----------------------------------------------------------------------------
MaxMessages == Max({s.messages : s \in Scenarios})

Keys == {Quote(s) : s \in Symbols} \cup {History(g) : g \in 0..MaxMessages}

StoreStep == StoreNext /\ UNCHANGED <<volatile, scenario, spent>>

Next ==
    \/ Boot \/ AskLoad \/ AskLists \/ Start \/ StartFails \/ Restart
    \/ Send \/ UseNativePanels \/ Stop
    \/ Serve \/ Finish \/ End
    \/ Launch \/ ResourceChange
    \/ \E t \in TaskIds : TaskEnds(t) \/ Complete(t) \/ JoinFailed(t)
    \/ \E k \in Keys : Elapse(k)
    \/ StoreStep

(* The worker polls its branches in random order, the store's thread runs,   *)
(* a fetch ends: its request has a deadline.                                 *)
Fairness ==
    /\ WF_vars(Boot \/ AskLoad \/ AskLists \/ Start \/ StartFails)
    /\ WF_vars(StoreStep)
    /\ WF_vars(Serve) /\ WF_vars(Finish) /\ WF_vars(End) /\ WF_vars(Launch)
    /\ \A t \in TaskIds : WF_vars(TaskEnds(t)) /\ WF_vars(Complete(t) \/ JoinFailed(t))

Spec == Init /\ [][Next]_vars /\ Fairness

-----------------------------------------------------------------------------
(* The history on the screen is of the symbol and the range that are         *)
(* selected, whatever was asked for before: an answer of an older selection  *)
(* is dropped, whenever it comes.                                            *)
HistoryIsSelected ==
    candles.data => candles.of = <<prefs.selected, prefs.range>>

(* A key that holds an abort handle holds the one of a task that will still  *)
(* be joined, so it can always be fetched again: no panic, no abort and no   *)
(* answer of an earlier fetch leaves it waiting for nobody.                  *)
HandlesAreLive ==
    phase = "ended" \/ \A k \in DOMAIN fetch.schedule :
        LET t == fetch.schedule[k].abort
        IN  t # None => t \in DOMAIN fetch.tasks /\ fetch.tasks[t].key = k

(* Outside of a save, what the snapshot shows is what a restart would find:  *)
(* lists, and preferences but for what is only saved along with the rest.    *)
Lasting(p) == <<p.active, p.workspace, p.keymap>>

ShownIsSaved ==
    phase \in {"idle", "quitting"} =>
        /\ shown.lists = disk.lists
        /\ Lasting(prefs) = Lasting(disk.value)
        /\ shown.watchlist = SymbolsOf(shown.lists, prefs.active)

(* What is shown can always be saved again: no sequence of accepted edits    *)
(* reaches documents that a later save, or the next start, refuses.          *)
ShownIsSound ==
    Started => /\ ValidPreferences(prefs)
               /\ ValidLists(shown.lists, prefs.active)
               /\ ~Dangling(prefs.workspace, Ids(shown.lists))

(* Lists change on the disk by a saved edit only: opening the database again *)
(* neither brings a deleted list back nor takes one away.                    *)
ListsChangeBySaving ==
    [][disk'.lists # disk.lists =>
          \/ request # None /\ request.op = "lists"
          \/ store = "opening" /\ disk.lists = <<>>]_vars

(* What was drawn or set on a chart changes by chart edits only: a layout    *)
(* that was edited before them and is saved after them keeps them.           *)
Chart(w, name, p) ==
    {<<l.panels[p].chart, l.panels[p].drawings>> :
        l \in {k \in ToSet(w.layouts) : k.name = name /\ p \in DOMAIN k.panels}}

ChartsChangeByCharting ==
    [][Started /\ Started' /\ (phase = "saving" => draft.message.kind # "chart") =>
          \A n \in LayoutNames(prefs.workspace), p \in PanelIds :
             LET before == Chart(prefs.workspace, n, p)
                 after == Chart(prefs'.workspace, n, p)
             IN  before # {} /\ after # {} => before = after]_vars

(* The history of a selection is fetched, however many quotes are due: the   *)
(* legacy scheduler does not leave the chart "loading" behind a watchlist.   *)
HistoryIsFetched ==
    (phase = "idle" /\ candles = Loading /\ prefs.selected # None)
        ~> \/ native \/ stopping \/ ~Started
           \/ \E t \in DOMAIN fetch.tasks :
                 fetch.tasks[t].key = History(fetch.generation) /\ fetch.tasks[t].done

(* A stop or a quit ends the worker, with no fetch left running.             *)
StopEnds ==
    (Started /\ stopping) \/ phase = "quitting" ~> ~Started /\ fetch.tasks = <<>>

=============================================================================
