--------------------------- MODULE WorkspaceStore ---------------------------
(* The SQLite worker of the workspace (crates/terminal-storage/src/lib.rs):  *)
(* one thread that owns the connection, serves one request at a time and     *)
(* commits each write in a transaction.  disk survives a crash; the thread,  *)
(* the request it serves and the reply it owes do not.                       *)
EXTENDS WorkspaceDocuments

CONSTANTS
    SeedSymbol          \* the symbol of a new namespace

VARIABLES
    disk,       \* the rows of one namespace: [schema, symbols, lists], whether
                \* its preferences are existing, and their value
    store,      \* closed, opening, ready or refused
    request,    \* the request being served, None when idle
    reply       \* the reply nobody has taken yet, None

storeVars == <<disk, store, request, reply>>

MyWatchlist(symbols) == [id |-> Main, name |-> "My Watchlist", symbols |-> symbols]

StoreInit ==
    /\ disk.schema \in 0..3
    /\ store = "closed"
    /\ request = None
    /\ reply = None

-----------------------------------------------------------------------------
(* Opening: each version step and the seeding are transactions of their own. *)

(* migrate, version 0: the tables of version 1, empty.                       *)
CreateSchema ==
    /\ store = "opening"
    /\ disk.schema = 0
    /\ disk' = [disk EXCEPT !.schema = 1]
    /\ UNCHANGED <<store, request, reply>>

(* migrate, version 1: the symbols become the list "main" of a namespace     *)
(* that has preferences.                                                     *)
NameLists ==
    /\ store = "opening"
    /\ disk.schema = 1
    /\ disk' = [disk EXCEPT !.schema = 2,
                            !.lists = IF disk.existing THEN <<MyWatchlist(disk.symbols)>>
                                      ELSE <<>>]
    /\ UNCHANGED <<store, request, reply>>

(* (mutant) "main" is inserted whenever it is missing.                       *)
SeedMissingMain(lists) ==
    IF Main \in Ids(lists) THEN lists
    ELSE Append(lists, MyWatchlist(IF disk.existing THEN <<>> ELSE <<SeedSymbol>>))

(* Repository::open: a namespace without preferences gets the default ones,  *)
(* and "main" is inserted at position 0 unless that place is taken.          *)
SeedLists(lists) ==
    IF lists # <<>> THEN lists
    ELSE <<MyWatchlist(IF disk.existing THEN <<>> ELSE <<SeedSymbol>>)>>

Seed ==
    /\ store = "opening"
    /\ disk.schema = 2
    /\ disk' = [disk EXCEPT !.value = IF disk.existing THEN @ ELSE DefaultPreferences,
                            !.lists = SeedLists(@), !.existing = TRUE]
    /\ store' = "ready"
    /\ UNCHANGED <<request, reply>>

RefuseNewer ==
    /\ store = "opening"
    /\ disk.schema > 2
    /\ store' = "refused"
    /\ UNCHANGED <<disk, request, reply>>

-----------------------------------------------------------------------------
(* Requests.                                                                 *)

Answer(r) == request' = None /\ reply' = r

Failed == [ok |-> FALSE]

Done == [ok |-> TRUE]

(* save: the preferences alone.                                              *)
Save ==
    /\ store = "ready" /\ request # None /\ request.op = "save"
    /\ \/ /\ ValidPreferences(request.prefs)
          /\ disk' = [disk EXCEPT !.value = request.prefs]
          /\ Answer(Done)
       \/ /\ UNCHANGED disk           \* refused, or SQLite failed: rolled back
          /\ Answer(Failed)
    /\ UNCHANGED store

(* save_lists: lists and preferences in one transaction.                     *)
SaveLists ==
    /\ store = "ready" /\ request # None /\ request.op = "lists"
    /\ \/ /\ ValidPreferences(request.prefs)
          /\ ValidLists(request.lists, request.prefs.active)
          /\ disk' = [disk EXCEPT !.value = request.prefs, !.lists = request.lists]
          /\ Answer(Done)
       \/ /\ UNCHANGED disk
          /\ Answer(Failed)
    /\ UNCHANGED store

(* The ids of the lists that a database has once it is open.                 *)
OpenedIds(d) ==
    IF d.schema < 2 \/ d.lists = <<>> THEN {Main} ELSE Ids(d.lists)

(* Whether an upgrade has to say which list a panel shows: the one there was *)
(* before lists had ids.                                                     *)
Implicit(w) ==
    \E i \in DOMAIN w.layouts :
        LET l == w.layouts[i] IN
        \/ ~(Tabs(l) \subseteq DOMAIN l.panels)
        \/ \E p \in DOMAIN l.panels :
              l.panels[p].kind = "watchlist" /\ l.panels[p].list = None

(* The workspace of preferences written by an older version.                 *)
Upgraded(p) ==
    LET Panel(q) == IF q.kind = "watchlist" /\ q.list = None
                    THEN [q EXCEPT !.list = Main] ELSE q
        Layout(l) == [l EXCEPT !.panels =
                        [q \in DOMAIN l.panels |-> Panel(l.panels[q])]]
        Listed(w) == [w EXCEPT !.layouts =
                        [i \in DOMAIN w.layouts |-> Layout(w.layouts[i])]]
    IN  {q \in {[p EXCEPT !.version = 7, !.workspace = Listed(w)] :
                    w \in MigrateWorkspace(p.workspace)} : ValidPreferences(q)}

(* load: an older document is upgraded and saved, then a legacy desk renamed *)
(* and saved; each is a commit of its own.                                   *)
LoadUpgrade ==
    /\ store = "ready" /\ request # None /\ request.op = "load"
    /\ disk.value.version <= 6
    /\ \/ /\ \E p \in Upgraded(disk.value) : disk' = [disk EXCEPT !.value = p]
          /\ UNCHANGED <<request, reply>>
       \/ UNCHANGED disk /\ Answer(Failed)
    /\ UNCHANGED store

LoadRename ==
    /\ store = "ready" /\ request # None /\ request.op = "load"
    /\ disk.value.version = 7 /\ ValidPreferences(disk.value)
    /\ LegacyDesks \cap LayoutNames(disk.value.workspace) # {}
    /\ \/ /\ disk' = [disk EXCEPT !.value.workspace = RenameLegacyDesk(@)]
          /\ UNCHANGED <<request, reply>>
       \/ UNCHANGED disk /\ Answer(Failed)
    /\ UNCHANGED store

Loadable ==
    /\ ValidPreferences(disk.value)
    /\ ValidLists(disk.lists, disk.value.active)

LoadRead ==
    /\ store = "ready" /\ request # None /\ request.op = "load"
    /\ disk.value.version = 7
    /\ ValidPreferences(disk.value) =>
          LegacyDesks \cap LayoutNames(disk.value.workspace) = {}
    /\ \/ Loadable /\ Answer([ok |-> TRUE, prefs |-> disk.value])
       \/ Answer(Failed)             \* refused, or SQLite failed
    /\ UNCHANGED <<disk, store>>

Lists ==
    /\ store = "ready" /\ request # None /\ request.op = "listing"
    /\ \/ Answer([ok |-> TRUE, lists |-> disk.lists])
       \/ Answer(Failed)
    /\ UNCHANGED <<disk, store>>

StoreNext ==
    \/ CreateSchema \/ NameLists \/ Seed \/ RefuseNewer
    \/ Save \/ SaveLists
    \/ LoadUpgrade \/ LoadRename \/ LoadRead \/ Lists
=============================================================================
