---------------------------- MODULE LayoutRules ----------------------------
(***************************************************************************)
(* What the daemon makes of a layout file of any age (normalizeLayout),    *)
(* each time one is loaded and each time one is saved.  Where there were   *)
(* two power graphs there is one now.                                      *)
(*                                                                         *)
(* Kind, size, legend and average of a graph, given their defaults, and    *)
(* the legends, which are made anew, are left out.                         *)
(***************************************************************************)
EXTENDS Integers, SequencesExt, Selections

CONSTANTS
  Names,             \* ids of graphs and tiles
  Files              \* layouts that may be in the file

OldPower == {"builtin-cpu-power", "builtin-gpu-power"}
Power == "builtin-power"
Builtins == {Power, "builtin-disk"}
Unset == ""
NoTiles == <<"null">>              \* the file has no summary

VARIABLES file, loaded
vars == <<file, loaded>>

DefaultTiles == <<"summary-total-power", "summary-energy">>

Layouts ==
  [order : Seq(Names), hidden : Seq(Names), hiddenCustom : Seq(Names),
   summary : Seq(Names) \cup {NoTiles}, customs : Seq([id : Names, source : Names])]

LayoutRulesConstants ==
  /\ {Unset, Power, "summary-total-power", "summary-energy"} \subseteq Names
  /\ "null" \notin Names /\ Files \subseteq Layouts

(* The first of several, and none that is empty.                           *)
IsFirst(s, k) == s[k] # Unset /\ \A j \in 1..(k - 1) : s[j] # s[k]
NormalizeIDList(s) == Selected(s, {k \in DOMAIN s : IsFirst(s, k)})

NormalizeSummary(tiles) == NormalizeIDList(IF tiles = NoTiles THEN DefaultTiles ELSE tiles)

MigrateDefaultPowerGraph(ids) ==
  LET renamed == [k \in DOMAIN ids |-> IF ids[k] \in OldPower THEN Power ELSE ids[k]]
  IN  Selected(renamed, {k \in DOMAIN renamed : renamed[k] = Power => IsFirst(renamed, k)})

Sources(customs) == [k \in DOMAIN customs |-> customs[k].source]

HideCustomizedDefaults(hidden, customs, order) ==
  NormalizeIDList(hidden \o Without(Sources(customs), Range(order)))

MigratedHidden_Not(l) == l.hidden

MigratedHidden(l) == MigrateDefaultPowerGraph(l.hidden)

Normalize(l) ==
  LET order == MigrateDefaultPowerGraph(l.order)
  IN  [l EXCEPT !.summary = NormalizeSummary(@),
                !.order = order,
                !.hidden = HideCustomizedDefaults(MigratedHidden(l), l.customs, order),
                !.hiddenCustom = NormalizeIDList(@)]

Init == file \in Files /\ loaded = Normalize(file)

(* LoadLayout for a page, SaveLayout of what a page has.                   *)
Load == loaded' = Normalize(file) /\ UNCHANGED file
Save == file' = Normalize(loaded) /\ UNCHANGED loaded

Next == Load \/ Save

-----------------------------------------------------------------------------
(* What a page shows of it, in the order of allGraphs; it hides a source   *)
(* that is not in the order by itself.                                     *)
Visible(l) ==
  LET hidden == Range(l.hidden) \cup (Range(Sources(l.customs)) \ Range(l.order))
      known == (Builtins \ hidden)
                 \cup ({l.customs[k].id : k \in DOMAIN l.customs} \ Range(l.hiddenCustom))
  IN  [order |-> NormalizeIDList(Only(l.order, known)), graphs |-> known,
       tiles |-> l.summary]

HasOldCopy(l) == \E k \in DOMAIN l.customs : l.customs[k].source \in OldPower

(* A layout of any age looks the same however often it is saved and loaded *)
(* again: what the daemon does to it settles the first time.  Not with a   *)
(* copy of an old power graph: it hides its source under the old name, and *)
(* that is renamed, and hides the new graph, only the next time.           *)
LayoutSettles ==
  HasOldCopy(loaded) \/ Visible(Normalize(file)) = Visible(loaded)

(* The one power graph is hidden if one of the old ones was or it has a    *)
(* copy, stands where the first of them stood, and moves no other graph.   *)
PowerGraphsMerge ==
  LET powers == OldPower \cup {Power}
      others(s) == Without(s, powers)
      hides(l) == Range(l.hidden) \cap powers # {}
      copied(l) == Power \in Range(Sources(l.customs)) \ Range(l.order)
      place(s) == {k \in DOMAIN s : s[k] \in powers /\ \A j \in 1..(k - 1) : s[j] \notin powers}
  IN  HasOldCopy(loaded) \/
        /\ others(loaded.order) = others(file.order)
        /\ place(loaded.order) = place(file.order)
        /\ Power \in Range(loaded.hidden) <=> hides(file) \/ copied(loaded)
=============================================================================
