--------------------------- MODULE MCEngineWorker ---------------------------
(* Two instruments, two lists, one desk of two panels; what the web view     *)
(* sends is edited from what it sees.                                        *)
EXTENDS EngineWorker, TLC

MCNameKey == "My Watchlist" :> "my watchlist" @@ "my watchlist" :> "my watchlist"
             @@ "Other" :> "other" @@ " " :> ""
MCDeskNames == <<"Market Desk", "Market Desk (2)", "Market Desk (3)">>
MCLegacyPanels == "chart" :> "chart" @@ "watchlist" :> "watchlist"

Rebound(k) == [DefaultKeymap EXCEPT ![1].key = k]

List(id, name, symbols) == [id |-> id, name |-> name, symbols |-> symbols]

(* Databases.                                                                *)
Empty == [schema |-> 0, symbols |-> <<>>, lists |-> <<>>,
          existing |-> FALSE, value |-> None]
Fresh2 == [schema |-> 2, symbols |-> <<>>, existing |-> TRUE,
           value |-> DefaultPreferences,
           lists |-> <<List(Main, "My Watchlist", <<"a">>)>>]
TwoLists == [Fresh2 EXCEPT
    !.lists = <<List("other", "Other", <<"b">>), List(Main, "My Watchlist", <<"a">>)>>]
Old(workspace) == [DefaultPreferences EXCEPT !.version = 4, !.workspace = workspace]
Bare(name, panels) == [name |-> name, panels |-> <<>>,
                       root |-> [i \in DOMAIN panels |-> Group(panels[i], panels[i])]]
Layouts(layouts) == [DefaultWorkspace EXCEPT !.layouts = layouts, !.active = layouts[1].name]
Version1 == [schema |-> 1, symbols |-> <<"a", "b">>, lists |-> <<>>, existing |-> TRUE,
             value |-> Old(Layouts(<<Bare("moomoo market desk", <<"chart", "watchlist">>),
                                     Bare("Market Desk", <<"chart">>),
                                     Bare("Moomoo Market Desk", <<"chart">>)>>))]
Overview == [Version1 EXCEPT !.value = Old(LegacyDefault)]
Unknown == [Version1 EXCEPT !.value = Old(Layouts(<<Bare("Market Desk", <<"terminal">>)>>))]
MainDeleted == [Fresh2 EXCEPT
    !.lists = <<List("other", "Other", <<"b">>)>>,
    !.value.active = "other",
    !.value.workspace = Repointed(@, <<List("other", "Other", <<>>)>>, "other")]
Newer == [Fresh2 EXCEPT !.schema = 3]

Market == [name |-> "market", panels |-> "later", restarts |-> 0, messages |-> 1,
           disks |-> {Fresh2}]
Lists1 == [name |-> "lists", panels |-> "first", restarts |-> 1, messages |-> 2,
           disks |-> {TwoLists}]
Databases ==
    [name |-> "databases", panels |-> "first", restarts |-> 2, messages |-> 0,
     disks |-> {Empty, Version1, Overview, Unknown, MainDeleted, Newer}]

MCScenarios ==
    {Lists1, [Lists1 EXCEPT !.name = "desk", !.disks = {Fresh2}], Databases,
     [Market EXCEPT !.name = "selection", !.panels = "never", !.messages = 2,
                    !.disks = {[Fresh2 EXCEPT !.lists[1].symbols = <<"a", "b">>]}]}

LiveScenarios == {Market, [Lists1 EXCEPT !.messages = 1], Databases}

(* Messages.                                                                 *)
W(edit) == [kind |-> "watchlist", edit |-> edit]
Add(id, s) == W("add") @@ [id |-> id, symbols |-> s]
Removed(id, s) == W("remove") @@ [id |-> id, symbol |-> s]
NewList(id, name, from) == W("create") @@ [id |-> id, name |-> name, from |-> from]
Command(words) == [kind |-> "command", words |-> words]

SelectionMessages ==
    {[kind |-> "select", symbol |-> "b"], [kind |-> "range", range |-> "1Y"],
     Add(Main, <<"b">>), Removed(Main, "b")}

ListMessages(docs) ==
    {Add(docs.prefs.active, <<"b", "a">>), Removed(Main, "a"),
     NewList("third", "my watchlist", None), NewList("third", "My Watchlist", "other"),
     W("rename") @@ [id |-> Main, name |-> " "],
     W("delete") @@ [id |-> Main], W("delete") @@ [id |-> "other"],
     W("order") @@ [ids |-> <<Main, "other">>], W("activate") @@ [id |-> "other"],
     W("reorder") @@ [id |-> "other", symbols |-> <<"a", "b">>],
     Command(<<"add", "a">>), Command(<<"del", "b">>), Command(<<"w">>),
     Command(<<"q", "now">>),
     [kind |-> "workspace", workspace |-> docs.prefs.workspace]}

B(edit) == [kind |-> "browser", market |-> "MY", edit |-> edit]
Preset1(a, name) == B("preset") @@ [preset |-> a, name |-> name]
C(edit) == [kind |-> "chart", edit |-> edit, panel |-> "chart"]

DeskMessages(docs) ==
    LET w == docs.prefs.workspace
        name == w.layouts[1].name
    IN  {B("market") @@ [settings |-> [columns |-> <<"Instrument">>, minimum |-> 5]],
         B("market") @@ [settings |-> [columns |-> <<"Price">>, minimum |-> 0]],
         Preset1("save", "p") @@ [from |-> None], Preset1("save", "q") @@ [from |-> "p"],
         Preset1("rename", "p") @@ [new |-> "q"], Preset1("delete", "p"),
         Preset1("apply", "p"), B("preset") @@ [preset |-> "reset"],
         C("settings") @@ [layout |-> name, chart |-> [fast |-> 5, slow |-> 9]],
         C("settings") @@ [layout |-> name, chart |-> [fast |-> 9, slow |-> 5]],
         C("drawings") @@ [layout |-> name, symbol |-> "a", drawings |-> <<"x">>],
         C("drawings") @@ [layout |-> name, symbol |-> "a", drawings |-> <<>>],
         [kind |-> "view", view |-> 340], [kind |-> "view", view |-> 900],
         [kind |-> "keys", keymap |-> Rebound("k")],
         [kind |-> "keys", keymap |-> Rebound("Down")],
         [kind |-> "workspace", workspace |-> [w EXCEPT !.layouts[1].root[1] = Split(40)]],
         [kind |-> "workspace", workspace |-> [w EXCEPT !.layouts[1].root[1] = Split(5)]],
         [kind |-> "workspace",
          workspace |-> [w EXCEPT !.active = "Mine", !.layouts[1].name = "Mine"]]}

MCMessages(s, docs) ==
    CASE s.name = "market" -> SelectionMessages \cup {Command(<<"q">>)}
      [] s.name = "selection" -> SelectionMessages
      [] s.name = "lists" -> ListMessages(docs)
      [] s.name = "desk" -> DeskMessages(docs)
      [] OTHER -> {}
=============================================================================
