----------------------------- MODULE Dashboard -----------------------------
(***************************************************************************)
(* The layout of the dashboard: a page that edits it and saves it whole    *)
(* after every edit, without waiting for the save before, and the daemon   *)
(* that normalises it and writes it to a file.  A save is answered before  *)
(* the page is rendered again, so the user may act on what is out of date. *)
(*                                                                         *)
(* Graphs are numbers: the builtin ones first, then the custom ones.       *)
(* Titles, series and axes of graphs, the summary tiles and the renaming   *)
(* of the old power graphs are left out.                                   *)
(***************************************************************************)
EXTENDS Integers, SequencesExt, Selections

CONSTANTS
  NumBuiltins,   \* graphs the daemon knows
  Catalogs,      \* those whose sensors may have been seen when the page asks
  MaxCopies,     \* bound: custom graphs ever made
  MaxEdits,      \* bound: edits ever made
  MaxSaves       \* bound: saves under way at a time

ASSUME DashboardConstants ==
  /\ NumBuiltins \in Nat \ {0} /\ Catalogs \subseteq SUBSET (1..NumBuiltins) /\ MaxCopies \in Nat
  /\ MaxEdits \in Nat /\ MaxSaves \in Nat \ {0}

Builtins == 1..NumBuiltins
Customs == (NumBuiltins + 1)..(NumBuiltins + MaxCopies)
Ids == Builtins \cup Customs
NoSource == 0

VARIABLES
  file,      \* dashboard.json: "none", "empty", "mixed" of two writes, or "whole" with a layout
  saves,     \* PUTs under way
  page,      \* "up", or "failed" to load
  catalog,   \* builtin graphs the page knows
  layout,    \* the page's layout
  cards,     \* graphs on the dashboard
  drawer,    \* graphs in the drawer
  copies,    \* custom graphs made so far
  edits,     \* edits made so far
  stale,     \* a save failed, so the page was not rendered (for the properties)
  calm       \* the last save began alone and went well (for the properties)

server == <<file>>
shown == <<cards, drawer>>
vars == <<server, saves, page, catalog, layout, shown, copies, edits, stale, calm>>

IdsOf(customs) == [k \in DOMAIN customs |-> customs[k].id]

-----------------------------------------------------------------------------
(* What a layout shows.                                                    *)

(* Builtins with a custom copy, unless the user put them back (in order).  *)
Customized(l) == {g.source : g \in Range(l.customs)} \ ({NoSource} \cup Range(l.order))

Known(l, cat) ==
  Only([b \in Builtins |-> b], cat \ (l.hiddenDefault \cup Customized(l)))
    \o Without(IdsOf(l.customs), l.hiddenCustom)

AllGraphs(l, cat) ==
  LET known == Known(l, cat)
  IN  Only(l.order, Range(known)) \o Without(known, Range(l.order))

Unused(l, cat) == (cat \cup Range(IdsOf(l.customs))) \ Range(AllGraphs(l, cat))

(* normalizeLayout, hideCustomizedDefaults.                                *)
Normalize_HidesRestored(l) ==
  [l EXCEPT !.hiddenDefault = @ \cup ({g.source : g \in Range(l.customs)} \ {NoSource})]

Normalize(l) == [l EXCEPT !.hiddenDefault = @ \cup Customized(l)]

DefaultLayout ==
  [order |-> [b \in Builtins |-> b], hiddenDefault |-> {}, hiddenCustom |-> {}, customs |-> <<>>]

Whole(l) == [kind |-> "whole", layout |-> l]
Broken(kind) == [kind |-> kind, layout |-> DefaultLayout]
Readable == file.kind \in {"none", "whole"}

(* LoadLayout.                                                             *)
Loaded == IF file.kind = "none" THEN DefaultLayout ELSE Normalize(file.layout)

(* renderDashboard; it returns early when there is nothing to show.        *)
Render(l, cat) ==
  /\ cards' = AllGraphs(l, cat)
  /\ drawer' = IF cards' = <<>> THEN drawer ELSE Unused(l, cat)
  /\ stale' = FALSE

Init ==
  /\ file = Broken("none")
  /\ saves = {}
  /\ page = "up"
  /\ catalog \in Catalogs
  /\ layout = DefaultLayout
  /\ cards = AllGraphs(DefaultLayout, catalog)
  /\ drawer = IF cards = <<>> THEN {} ELSE Unused(DefaultLayout, catalog)
  /\ copies = 0 /\ edits = 0
  /\ stale = FALSE /\ calm = TRUE

-----------------------------------------------------------------------------
(* The user.  Every edit is saved; most render the page when that is done. *)

Save(l, then) ==
  /\ page = "up"
  /\ edits < MaxEdits /\ Cardinality(saves) < MaxSaves
  /\ edits' = edits + 1
  /\ layout' = l
  /\ saves' = saves \cup {[n |-> edits', body |-> l, phase |-> "sent", then |-> then,
                           mine |-> TRUE]}
  /\ calm' = (saves = {})
  /\ UNCHANGED <<server, page, catalog, stale>>

Hidden_Only(g) ==              \* forgets what was hidden before
  [layout EXCEPT !.hiddenDefault = IF g \in Builtins THEN {g} ELSE @,
                 !.hiddenCustom = IF g \in Customs THEN {g} ELSE @,
                 !.order = Without(@, {g})]

Hidden(g) ==
  [layout EXCEPT !.hiddenDefault = IF g \in Builtins THEN @ \cup {g} ELSE @,
                 !.hiddenCustom = IF g \in Customs THEN @ \cup {g} ELSE @,
                 !.order = Without(@, {g})]

Hide(g) ==
  /\ g \in Range(cards)
  /\ Save(Hidden(g), TRUE)
  /\ UNCHANGED <<shown, copies>>

(* restoreDefaultGraphAt: the order becomes what is on the dashboard.      *)
Restore(g, place) ==
  LET current == Without(cards, {g})
  IN  /\ g \in drawer /\ place \in 0..Len(current)
      /\ Save([layout EXCEPT !.hiddenDefault = @ \ {g},
                             !.hiddenCustom = @ \ {g},
                             !.order = InsertAt(current, place + 1, g)], TRUE)
      /\ UNCHANGED <<shown, copies>>

(* A copy of a builtin takes its place: saveGraphFromDialog, and the       *)
(* toggles of legend and average.                                          *)
NextCopy == NumBuiltins + copies + 1

Customize(g) ==
  /\ g \in Range(cards) \cap Builtins
  /\ copies < MaxCopies
  /\ copies' = copies + 1
  /\ Save([layout EXCEPT
             !.customs = Append(@, [id |-> NextCopy, source |-> g]),
             !.hiddenDefault = @ \cup {g},
             !.order = [k \in DOMAIN @ |-> IF @[k] = g THEN NextCopy ELSE @[k]]], TRUE)
  /\ UNCHANGED shown

(* A custom graph from the dialog, new or changed.                         *)
Others(g) == {c \in Range(layout.customs) : c.id # g}

Ordered(g) == IF g \in Range(layout.order) THEN layout.order ELSE Append(layout.order, g)

WithCustom(item) ==
  [layout EXCEPT !.customs = Append(Only(@, Others(item.id)), item),
                 !.hiddenCustom = @ \ {item.id},
                 !.order = Ordered(item.id)]

EditCustom(item) ==
  /\ item.id \in Range(cards)
  /\ Save(WithCustom(item), TRUE)
  /\ UNCHANGED <<shown, copies>>

(* Legend and average of a custom graph, the time range: another save.     *)
Toggle ==
  /\ Save(layout, TRUE)
  /\ UNCHANGED <<shown, copies>>

AddCustom ==
  /\ copies < MaxCopies
  /\ copies' = copies + 1
  /\ Save(WithCustom([id |-> NextCopy, source |-> NoSource]), TRUE)
  /\ UNCHANGED shown

(* From the drawer only.                                                   *)
Delete(g) ==
  /\ g \in drawer \cap Customs
  /\ Save([layout EXCEPT !.customs = Only(@, Others(g)),
                         !.hiddenCustom = @ \ {g},
                         !.order = Without(@, {g})], TRUE)
  /\ UNCHANGED <<shown, copies>>

(* onEnd of a drag on the dashboard, which is not rendered afterwards.     *)
Reorder(g, place) ==
  LET moved == InsertAt(Without(cards, {g}), place, g)
  IN  /\ g \in Range(cards) /\ place \in 1..Len(cards)
      /\ Save([layout EXCEPT !.order = moved], FALSE)
      /\ cards' = moved
      /\ UNCHANGED <<drawer, copies>>

OpenDrawer ==
  /\ page = "up"
  /\ drawer' = Unused(layout, catalog)
  /\ UNCHANGED <<server, saves, page, catalog, layout, cards, copies, edits, stale, calm>>

-----------------------------------------------------------------------------
(* SaveLayout in the daemon: os.WriteFile truncates, then writes.          *)
Advance(s, phase) == saves' = (saves \ {s}) \cup {[s EXCEPT !.phase = phase]}

Truncate(s) ==
  /\ s.phase = "sent"
  /\ file' = Broken("empty")
  /\ Advance(s, "writing")
  /\ UNCHANGED <<page, catalog, layout, shown, copies, edits, stale, calm>>

(* What another wrote since shows behind the end of a shorter text.        *)
Write(s) ==
  /\ s.phase = "writing"
  /\ LET whole == Whole(Normalize(s.body))
     IN  file' \in IF file.kind = "empty" \/ file = whole THEN {whole}
                   ELSE {whole, Broken("mixed")}
  /\ Advance(s, "answered")
  /\ UNCHANGED <<page, catalog, layout, shown, copies, edits, stale, calm>>

(* The page has its answer.  It is rendered as it is now, with the edits   *)
(* made since this save was sent.                                          *)
ThenRefresh_AsSent(s) ==
  IF s.then /\ s.mine THEN Render(s.body, catalog) ELSE UNCHANGED <<shown, stale>>

ThenRefresh(s) ==
  IF s.then /\ s.mine THEN Render(layout, catalog) ELSE UNCHANGED <<shown, stale>>

Answered(s) ==
  /\ s.phase = "answered"
  /\ saves' = saves \ {s}
  /\ ThenRefresh(s)
  /\ UNCHANGED <<server, page, catalog, layout, copies, edits, calm>>

(* The request is lost, the daemon dies or the disk is full at the write,  *)
(* or the answer is lost.                                                  *)
SaveFails(s) ==
  /\ saves' = saves \ {s}
  /\ stale' = (stale \/ s.mine)
  /\ calm' = FALSE
  /\ UNCHANGED <<server, page, catalog, layout, shown, copies, edits>>

-----------------------------------------------------------------------------
(* init, when the page is loaded again; saves under way go on without it.  *)
(* The daemon may have been restarted and know fewer graphs.               *)
Reload(cat) ==
  /\ saves' = {[s EXCEPT !.mine = FALSE] : s \in saves}
  /\ catalog' = cat
  /\ IF Readable
     THEN /\ page' = "up"
          /\ layout' = Loaded
          /\ cards' = AllGraphs(Loaded, cat)
          /\ drawer' = IF cards' = <<>> THEN {} ELSE Unused(Loaded, cat)
     ELSE /\ page' = "failed"
          /\ layout' = [DefaultLayout EXCEPT !.order = <<>>]
          /\ cards' = <<>> /\ drawer' = {}
  /\ stale' = FALSE
  /\ calm' = (saves = {})
  /\ UNCHANGED <<server, copies, edits>>

(* refreshCatalogFromServer.  The page takes over what the daemon lists,   *)
(* less than before if it was restarted, and is rendered if a graph listed *)
(* is new or has gained or lost series; not when graphs only went.         *)
Rerender_OfKnown(next) ==      \* looks at the graphs it knew before only
  \/ next \cap catalog # {} /\ Render(layout, next)
  \/ UNCHANGED <<shown, stale>>

Rerender(next) ==
  \/ next # {} /\ Render(layout, next)
  \/ next \subseteq catalog /\ UNCHANGED <<shown, stale>>

RefreshCatalog(next) ==
  /\ page = "up"
  /\ catalog' = next
  /\ Rerender(next)
  /\ UNCHANGED <<server, saves, page, layout, copies, edits, calm>>

-----------------------------------------------------------------------------
Next ==
  \/ \E g \in Ids : Hide(g) \/ Delete(g) \/ Customize(g)
  \/ \E g \in Ids, place \in 0..Cardinality(Ids) : Restore(g, place) \/ Reorder(g, place)
  \/ \E item \in Range(layout.customs) : EditCustom(item)
  \/ AddCustom \/ Toggle
  \/ OpenDrawer
  \/ \E s \in saves : Truncate(s) \/ Write(s) \/ Answered(s) \/ SaveFails(s)
  \/ \E cat \in Catalogs : Reload(cat) \/ RefreshCatalog(cat)

Spec == Init /\ [][Next]_vars

-----------------------------------------------------------------------------
(* Once the saves are done, loading the page again shows the same graphs   *)
(* in the same order: what the daemon makes of a layout agrees with what   *)
(* the page makes of it.  Not if saves overlapped or one of them failed.   *)
ReloadShowsTheSame ==
  page = "up" /\ saves = {} /\ calm =>
    Readable /\ AllGraphs(Loaded, catalog) = AllGraphs(layout, catalog)

(* Once the answers are there the dashboard shows the layout, and the      *)
(* drawer the rest of the graphs, unless the dashboard is empty.  Graphs   *)
(* that the daemon no longer lists may stay among either until the page is *)
(* rendered; they hide, move or double none of the others.                 *)
Forgotten == Builtins \ catalog

PageShowsLayout ==
  page = "up" /\ ~stale /\ ~(\E s \in saves : s.mine /\ s.then) =>
    /\ Without(cards, Forgotten) = AllGraphs(layout, catalog)
    /\ cards # <<>> => drawer \ Forgotten = Unused(layout, catalog)

(* What makes these inductive.  No layout has a graph twice, nor one that  *)
(* was never made; and of a save that began alone and went well the page's *)
(* layout is in the file.                                                  *)
Made == Builtins \cup (NumBuiltins + 1)..(NumBuiltins + copies)

Rows(S) == {s \in Seq(S) : IsInjective(s)}

Items(made) == [id : made \ Builtins, source : Builtins \cup {NoSource}]

LayoutsOf(made) ==
  {l \in [order : Rows(made), hiddenDefault : SUBSET Builtins, hiddenCustom : SUBSET Customs,
          customs : Seq(Items(made))] : IsInjective(IdsOf(l.customs))}

Layouts == LayoutsOf(Made)

TypeOK ==
  /\ file \in [kind : {"none", "empty", "mixed", "whole"}, layout : Layouts]
  /\ saves \subseteq [n : 1..edits, body : Layouts, phase : {"sent", "writing", "answered"},
                      then : BOOLEAN, mine : BOOLEAN]
  /\ page \in {"up", "failed"} /\ catalog \subseteq Builtins /\ layout \in Layouts
  /\ cards \in Rows(Made) /\ drawer \subseteq Made
  /\ copies \in 0..MaxCopies /\ edits \in Nat
  /\ stale \in BOOLEAN /\ calm \in BOOLEAN

Alike(l, m) ==
  /\ l.order = m.order /\ l.customs = m.customs /\ l.hiddenCustom = m.hiddenCustom
  /\ l.hiddenDefault \cup Customized(l) = m.hiddenDefault \cup Customized(m)

SavedInFile ==
  calm /\ page = "up" =>
    /\ saves = {} => Readable /\ Alike(Loaded, layout)
    /\ \A s \in saves : /\ saves = {s} /\ s.body = layout
                        /\ s.phase = "writing" => file.kind = "empty"
                        /\ s.phase = "answered" => file = Whole(Normalize(layout))

IInv == TypeOK /\ SavedInFile /\ PageShowsLayout

(* An edit of a graph leaves the others where they are, shown or not, when *)
(* the user saw the dashboard as it is, or with graphs that the daemon no  *)
(* longer lists among the rest.  A builtin may come back when its copy is  *)
(* deleted.                                                                *)
Sources(g) == {c.source : c \in {x \in Range(layout.customs) : x.id = g}}

Same(S) == Without(AllGraphs(layout', catalog), S) = Without(AllGraphs(layout, catalog), S)

EditKeepsOthers ==
  [][edits' > edits /\ Without(cards, Forgotten) = AllGraphs(layout, catalog) =>
       \A g \in Ids :
         /\ Hide(g) => Same({g})
         /\ Delete(g) => Same({g} \cup Sources(g))
         /\ Customize(g) => Same({g, NextCopy})
         /\ \A place \in 0..Len(cards) : Restore(g, place) => Same({g})]_vars
=============================================================================
