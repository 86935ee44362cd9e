------------------------------ MODULE MCAcrNav ------------------------------
(* A schema of two namespaces and three ctypes for TLC: self references,   *)
(* references across namespaces both ways, a ctype with no field and one   *)
(* with no ssimfile.                                                       *)
EXTENDS AcrNavProps, TLC

CONSTANTS n1, n2, a, b, c, ex, sp

MCNsOf == [i \in Ctype |-> IF i = c THEN n2 ELSE n1]
MCPos  == [i \in Item |-> CASE i = n1 -> 0 [] i = a -> 1 [] i = b -> 2
                             [] i = n2 -> 3 [] i = c -> 4]

(* Some runs use the schema without b. *)
Known(p) == [i \in Ctype |-> SelectSeq(p[i], LAMBDA j : j \in Ctype)]

MCFields   == Known(a :> <<a, c>> @@ b :> <<a>> @@ c :> <<>>)
MCBackRefs == Known(a :> <<a, b>> @@ b :> <<>> @@ c :> <<a>>)

To(item, at) == IF item \in Item THEN {[to |-> item, at |-> at]} ELSE {}

Unlinked(k) == [i \in 1..k |-> {}]

(* Number of lines, and the lines with links, of each view. *)
MCContent ==
    LET view(p) == [i \in Item |-> IF i \in DOMAIN p THEN p[i] ELSE <<>>]
    IN  [preview |-> view(a :> <<To(c, 1), {}>> @@ c :> Unlinked(2)),
         codegen |-> view(a :> Unlinked(1) @@ b :> Unlinked(1) @@ c :> Unlinked(1)),
         graph   |-> view(a :> <<{}, To(c, 0), To(b, 0)>>
                          @@ b :> <<{}, To(a, 0)>> @@ c :> <<{}, To(a, 0)>>),
         inspect |-> view(a :> Unlinked(1) @@ b :> Unlinked(1) @@ c :> Unlinked(1)),
         nsdep   |-> view(n1 :> <<{}, To(n2, 0)>> @@ n2 :> <<{}, To(n1, 0)>>),
         nsdep_detail |-> view(n1 :> <<{}, To(c, 0)>> @@ n2 :> <<To(c, 0)>>)]

MCOverlayRows == [help |-> 3, detail |-> 2]

(* ex is in the names of a and c, two of them in none; a blank is in no name; a  *)
(* field of b mentions both.                                               *)
MCMatches(ct, filter, target) ==
    IF target = "ctype" THEN filter = <<ex>> /\ ct \in {a, c}
    ELSE filter \in {<<ex>>, <<sp>>} /\ ct \in {b, c}

MCFilterArgs == {[text |-> <<ch>>, target |-> "field"] : ch \in Char}

Moves    == {"move_up", "move_down"}
Panels   == {"switch_panel_left", "switch_panel_right"}
Visits   == Moves \cup Panels \cup {"follow_ref", "go_back"}
Overlays == {"show_help", "show_detail", "dismiss_or_clear"}
FilterLine == {"filter_start", "filter_append"} \cup (Keybind["filter"] \ Passive)

BrowseInputs  == {"move_down", "switch_panel_right", "follow_ref", "go_back", "GoBack",
                  "toggle_preview", "filter_start", "filter_append", "filter_accept"}
OverlayInputs == (Visits \ {"go_back"}) \cup Overlays \cup {"go_top", "go_bottom"}
                 \cup {"toggle_graph", "toggle_nsdep_detail", "cycle_viewmode",
                       "quit"}
FilterInputs  == FilterLine \cup {"move_down", "follow_ref", "SetView"}
CommandInputs == (HeadlessCommand \ {"GoBack"}) \cup (FilterLine \ {"filter_append"})
                 \cup {"filter_static", "switch_panel_right",
                       "page_up", "page_down"}
BackInputs    == Visits \cup Overlays \cup {"toggle_xref"}
EmptyInputs   == {"move_down", "switch_panel_right", "follow_ref", "go_back",
                  "filter_start", "filter_append_space"}
CancelInputs  == FilterLine \cup {"move_down", "follow_ref"}
=============================================================================
