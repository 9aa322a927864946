------------------------- MODULE WorkspaceDocuments -------------------------
(* The documents a terminal workspace is made of, and the edits made to them *)
(* (crates/terminal-core: watchlists, workspace, browser, chart, lib).  An   *)
(* edit is an operator that returns the set of its results: one document, or *)
(* none when the code returns an error.  Texts are names, settings are       *)
(* reduced to the fields whose validation relates two of them.               *)
EXTENDS Integers, Sequences, FiniteSets, SequencesExt

CONSTANTS
    Main,            \* WatchlistId::default()
    NameKey,         \* what a list's name is compared by: trimmed, lower case
    Blank,           \* the key of a name with nothing in it
    None,
    LegacyDesks,     \* the layout name "Moomoo Market Desk", in any case
    DeskNames,       \* "Market Desk", "Market Desk (2)", ... as a sequence
    LegacyPanels,    \* the kind of each panel id that old layouts could name
    MaxLists, MaxInstruments, MaxLayouts, MaxPresets, MaxDrawings, MaxHistory

Operations == {"Up", "Down", "Select", "Command", "NextRange", "Quit"}

Distinct(s) == \A i, j \in DOMAIN s : s[i] = s[j] => i = j

-----------------------------------------------------------------------------
(* Watchlists: a sequence of lists with an id, a name and their symbols.     *)

Ids(lists) == {lists[i].id : i \in DOMAIN lists}

At(lists, id) == {i \in DOMAIN lists : lists[i].id = id}

Held(lists) == UNION {ToSet(lists[i].symbols) : i \in DOMAIN lists}

SymbolsOf(lists, id) == UNION {ToSet(lists[i].symbols) : i \in At(lists, id)}

ValidLists(lists, active) ==
    /\ Len(lists) \in 1..MaxLists
    /\ active \in Ids(lists)
    /\ Distinct([i \in DOMAIN lists |-> lists[i].id])
    /\ Distinct([i \in DOMAIN lists |-> NameKey[lists[i].name]])
    /\ \A i \in DOMAIN lists :
          NameKey[lists[i].name] # Blank /\ Distinct(lists[i].symbols)
    /\ IsFiniteSet(Held(lists)) /\ Cardinality(Held(lists)) <= MaxInstruments

Create(lists, m) ==
    LET sources == IF m.from = None THEN {<<>>}
                   ELSE {lists[i].symbols : i \in At(lists, m.from)}
    IN  {Append(lists, [id |-> m.id, name |-> m.name, symbols |-> s]) :
            s \in sources}

Order(lists, ids) ==
    IF Len(ids) = Len(lists) /\ Distinct(ids) /\ ToSet(ids) = Ids(lists)
    THEN {[k \in DOMAIN ids |-> lists[CHOOSE i \in At(lists, ids[k]) : TRUE]]}
    ELSE {}

AddAll(symbols, added) == symbols \o SelectSeq(added, LAMBDA s : ~Contains(symbols, s))

(* Every edit but the deletion, on the list it names.                        *)
EditedLists(lists, m) ==
    CASE m.edit = "create" -> Create(lists, m)
      [] m.edit = "rename" ->
            {[lists EXCEPT ![i].name = m.name] : i \in At(lists, m.id)}
      [] m.edit = "delete" ->
            {SelectSeq(lists, LAMBDA l : l.id # m.id) : i \in At(lists, m.id)}
      [] m.edit = "order" -> Order(lists, m.ids)
      [] m.edit = "activate" -> {lists}
      [] m.edit = "add" ->
            {[lists EXCEPT ![i].symbols = AddAll(@, m.symbols)] :
                i \in At(lists, m.id)}
      [] m.edit = "remove" ->
            {[lists EXCEPT ![i].symbols = SelectSeq(@, LAMBDA s : s # m.symbol)] :
                i \in At(lists, m.id)}
      [] m.edit = "reorder" ->
            {[lists EXCEPT ![i].symbols = m.symbols] :
                i \in {j \in At(lists, m.id) :
                          /\ Len(m.symbols) = Len(lists[j].symbols)
                          /\ ToSet(m.symbols) = ToSet(lists[j].symbols)}}

NextActive(lists, active, m) ==
    CASE m.edit \in {"create", "activate"} -> m.id
      [] m.edit = "delete" /\ active = m.id /\ lists # <<>> -> lists[1].id
      [] OTHER -> active

ApplyWatchlist(lists, active, m) ==
    {[lists |-> l, active |-> NextActive(l, active, m)] :
        l \in {e \in EditedLists(lists, m) :
                  ValidLists(e, NextActive(e, active, m))}}

-----------------------------------------------------------------------------
(* Browser settings (market tables with their presets) and charts.           *)

DefaultSettings == [columns |-> <<"Instrument", "Price">>, minimum |-> 0]

DefaultBrowser == [markets |-> [u \in {"MY", "US", "crypto"} |-> DefaultSettings],
                   presets |-> <<>>]

SoundSettings(s) ==
    /\ s.columns # <<>>
    /\ Distinct(s.columns)
    /\ Contains(s.columns, "Instrument")
    /\ s.minimum \in Nat

ValidBrowser(b) ==
    /\ \A u \in DOMAIN b.markets : SoundSettings(b.markets[u])
    /\ Len(b.presets) <= MaxPresets
    /\ Distinct([i \in DOMAIN b.presets |-> b.presets[i].name])
    /\ \A i \in DOMAIN b.presets : SoundSettings(b.presets[i].settings)

Preset(presets, name) == {i \in DOMAIN presets : presets[i].name = name}

(* preset_action: the presets and the current settings it leaves.            *)
PresetAction(presets, current, a) ==
    CASE a.preset = "save" ->
            {[presets |-> Append(presets, [name |-> a.name, settings |-> s]),
              current |-> current] :
                s \in IF Len(presets) >= MaxPresets \/ Preset(presets, a.name) # {}
                      THEN {}
                      ELSE IF a.from = None THEN {current}
                      ELSE {presets[i].settings : i \in Preset(presets, a.from)}}
      [] a.preset = "rename" ->
            {[presets |-> [presets EXCEPT ![i].name = a.new], current |-> current] :
                i \in {j \in Preset(presets, a.name) :
                          a.new = a.name \/ Preset(presets, a.new) = {}}}
      [] a.preset = "delete" ->
            {[presets |-> RemoveAt(presets, i), current |-> current] :
                i \in Preset(presets, a.name)}
      [] a.preset = "apply" ->
            {[presets |-> presets, current |-> presets[i].settings] :
                i \in Preset(presets, a.name)}
      [] a.preset = "reset" -> {[presets |-> presets, current |-> DefaultSettings]}

ApplyBrowser(b, m) ==
    LET edited == IF m.edit = "market"
                  THEN {[b EXCEPT !.markets[m.market] = m.settings]}
                  ELSE {[markets |-> [b.markets EXCEPT ![m.market] = r.current],
                         presets |-> r.presets] :
                           r \in PresetAction(b.presets, b.markets[m.market], m)}
    IN  {e \in edited : ValidBrowser(e)}

SoundChart(c) == c.fast \in 2..250 /\ c.slow \in 2..250 /\ c.fast < c.slow

ValidDrawings(d) == Len(d) <= MaxDrawings /\ Distinct(d)

-----------------------------------------------------------------------------
(* Layouts: panels by id, and the dock tree as its nodes in preorder, each   *)
(* with its depth, its tabs when it is a group and its ratio when it splits. *)

Group(id, panel) ==
    [id |-> id, depth |-> 1, split |-> FALSE, ratio |-> 0, tabs |-> <<panel>>,
     front |-> panel]

Split(ratio) ==
    [id |-> "root", depth |-> 0, split |-> TRUE, ratio |-> ratio, tabs |-> <<>>,
     front |-> None]

DefaultPanel(kind) ==
    [kind |-> kind, list |-> IF kind = "chart" THEN None ELSE Main, pin |-> None,
     chart |-> [fast |-> 12, slow |-> 26], drawings |-> <<>>]

(* A watchlist beside a chart; before version 2, a chart beside a watchlist. *)
DefaultWorkspace ==
    LET desk == [name |-> "Market Desk",
                 root |-> <<Split(19), Group("watchlist-group", "watchlist"),
                            Group("chart-group", "chart")>>,
                 panels |-> [p \in {"chart", "watchlist"} |-> DefaultPanel(p)]]
    IN  [view |-> 290, browser |-> DefaultBrowser, active |-> desk.name,
         layouts |-> <<desk>>]

LegacyDefault ==
    [DefaultWorkspace EXCEPT
        !.active = "Market Overview",
        !.layouts[1].name = "Market Overview",
        !.layouts[1].root = <<Split(70), @[3], @[2]>>]

(* What a workspace is read into: structs, with all of their fields.         *)
Shaped(w) ==
    /\ DOMAIN w = {"view", "browser", "active", "layouts"}
    /\ \A i \in DOMAIN w.layouts :
          /\ DOMAIN w.layouts[i] = {"name", "root", "panels"}
          /\ \A p \in DOMAIN w.layouts[i].panels :
                DOMAIN w.layouts[i].panels[p] =
                    {"kind", "list", "pin", "chart", "drawings"}

ValidDock(nodes) ==
    /\ Len(nodes) <= 63
    /\ Distinct([i \in DOMAIN nodes |-> nodes[i].id])
    /\ \A i \in DOMAIN nodes :
          /\ nodes[i].depth <= 8
          /\ IF nodes[i].split
             THEN nodes[i].ratio \in 15..85
             ELSE /\ Len(nodes[i].tabs) \in 1..16
                  /\ Contains(nodes[i].tabs, nodes[i].front)
    /\ Distinct(FlattenSeq([i \in DOMAIN nodes |-> nodes[i].tabs]))

Tabs(layout) == UNION {ToSet(layout.root[i].tabs) : i \in DOMAIN layout.root}

ValidPanel(p) ==
    /\ SoundChart(p.chart)
    /\ \A i \in DOMAIN p.drawings : ValidDrawings(p.drawings[i])

LayoutNames(w) == {w.layouts[i].name : i \in DOMAIN w.layouts}

ValidWorkspace(w) ==
    /\ w.view \in 260..420
    /\ ValidBrowser(w.browser)
    /\ Len(w.layouts) \in 1..MaxLayouts
    /\ Distinct([i \in DOMAIN w.layouts |-> w.layouts[i].name])
    /\ \A i \in DOMAIN w.layouts :
          LET l == w.layouts[i] IN
          /\ \A p \in DOMAIN l.panels : ValidPanel(l.panels[p])
          /\ ValidDock(l.root)
          /\ DOMAIN l.panels # {} /\ Cardinality(DOMAIN l.panels) <= 32
          /\ Tabs(l) \subseteq DOMAIN l.panels
    /\ w.active \in LayoutNames(w)

ApplyChart(w, m) ==
    LET target == {i \in DOMAIN w.layouts :
                      /\ w.layouts[i].name = m.layout
                      /\ m.panel \in DOMAIN w.layouts[i].panels
                      /\ w.layouts[i].panels[m.panel].kind = "chart"}
        Drawn(d) == [s \in (DOMAIN d \cup {m.symbol}) \
                           (IF m.drawings = <<>> THEN {m.symbol} ELSE {}) |->
                        IF s = m.symbol THEN m.drawings ELSE d[s]]
        edited == IF m.edit = "settings"
                  THEN {[w EXCEPT !.layouts[i].panels[m.panel].chart = m.chart] :
                            i \in target}
                  ELSE {[w EXCEPT !.layouts[i].panels[m.panel].drawings = Drawn(@)] :
                            i \in target}
    IN  {e \in edited : ValidWorkspace(e)}

(* Workspace::migrate gives every tab without a panel the panel its id once  *)
(* stood for, and refuses a layout with a tab nobody knows.                  *)
MigrateWorkspace(w) ==
    LET Filled(l) == [l EXCEPT !.panels =
                        [p \in DOMAIN @ \cup Tabs(l) |->
                            IF p \in DOMAIN @ THEN @[p]
                            ELSE [DefaultPanel(LegacyPanels[p]) EXCEPT !.list = Main]]]
        known == \A i \in DOMAIN w.layouts :
                    Tabs(w.layouts[i]) \ DOMAIN w.layouts[i].panels
                        \subseteq DOMAIN LegacyPanels
        filled == [w EXCEPT !.layouts = [i \in DOMAIN @ |-> Filled(@[i])]]
    IN  IF known /\ ValidWorkspace(filled) THEN {filled} ELSE {}

(* rename_legacy_market_desk: layout by layout, each takes the first of the  *)
(* desk names that no layout bears by then, and the active layout follows.   *)
RenameLegacyDesk(w) ==
    LET FreeName(v) == DeskNames[CHOOSE k \in DOMAIN DeskNames :
                          /\ DeskNames[k] \notin LayoutNames(v)
                          /\ \A j \in 1..(k - 1) : DeskNames[j] \in LayoutNames(v)]
        Renamed(v, i) ==
            IF v.layouts[i].name \notin LegacyDesks THEN v
            ELSE [v EXCEPT !.layouts[i].name = FreeName(v),
                           !.active = IF @ = v.layouts[i].name THEN FreeName(v) ELSE @]
        upTo[i \in 0..Len(w.layouts)] ==
            IF i = 0 THEN w ELSE Renamed(upTo[i - 1], i)
    IN  upTo[Len(w.layouts)]

-----------------------------------------------------------------------------
(* Preferences: the document of app_state.                                   *)

(* Every operation has a key, and no key has two.                            *)
ValidKeymap(keys) ==
    /\ Distinct([i \in DOMAIN keys |-> keys[i].key])
    /\ {keys[i].operation : i \in DOMAIN keys} = Operations

DefaultKeymap ==
    LET keys == <<"Up", "Down", "Enter", ":", "t", "Ctrl-c">>
        operations == <<"Up", "Down", "Select", "Command", "NextRange", "Quit">>
    IN  [i \in 1..6 |-> [key |-> keys[i], operation |-> operations[i]]]

DefaultPreferences ==
    [version |-> 7, selected |-> None, range |-> "6M", history |-> <<>>,
     keymap |-> DefaultKeymap, active |-> Main, workspace |-> DefaultWorkspace]

ValidPreferences(p) ==
    /\ ValidKeymap(p.keymap)
    /\ ValidWorkspace(p.workspace)
    /\ p.version \in 1..7
    /\ Len(p.history) <= MaxHistory

(* Whether some panel shows a list with none of the ids given.               *)
Dangling(w, ids) ==
    \E i \in DOMAIN w.layouts : \E p \in DOMAIN w.layouts[i].panels :
        LET shown == w.layouts[i].panels[p].list
        IN  shown # None /\ shown \notin ids

(* The panels whose list is gone show the active list instead.               *)
Repointed(w, lists, active) ==
    LET Shown(id) == IF id # None /\ id \notin Ids(lists) THEN active ELSE id
        Panel(p) == [p EXCEPT !.list = Shown(p.list)]
        Layout(l) == [l EXCEPT !.panels =
                        [p \in DOMAIN l.panels |-> Panel(l.panels[p])]]
    IN  [w EXCEPT !.layouts = [i \in DOMAIN w.layouts |-> Layout(w.layouts[i])]]

(* The instruments that panels are pinned to.                                *)
Pinned(w) ==
    UNION {{w.layouts[i].panels[p].pin : p \in DOMAIN w.layouts[i].panels} :
              i \in DOMAIN w.layouts} \ {None}
=============================================================================
