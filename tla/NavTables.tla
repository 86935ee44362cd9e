------------------------------ MODULE NavTables ------------------------------
(***************************************************************************)
(* The tables acr_nav is driven by.                                        *)
(*                                                                         *)
(* The dispatch tables (view modes, navigation actions, key bindings and   *)
(* filter targets) are the records of data/acr_navdb, which amc compiles   *)
(* into the program: they are constants of the code and appear here as     *)
(* definitions.  The browsed schema (namespaces, ctypes, fields, ssimfile  *)
(* records) is whatever database the program is started on, so it is a     *)
(* parameter.                                                              *)
(***************************************************************************)
EXTENDS Integers, Sequences, FiniteSets

CONSTANTS
    Null,        \* the NULL pointer
    Ns,          \* the namespaces (dmmeta.ns records)
    EmptyNs,     \* the namespace whose key is "", if it is in Ns
    Ctype,       \* the ctypes with a non-empty name
    NsOf,        \* NsOf[c]: the namespace of ctype c (p_ns)
    Pos,         \* Pos[x]: place of a header or ctype row in the sorted list
    Fields,      \* Fields[c]: the arg of each field of c (c_field)
    BackRefs,    \* BackRefs[c]: the owner of each field whose arg is c (c_field_arg)
    Ssimfile,    \* the ctypes FindSsimfile finds a file for
    Content,     \* Content[v][x]: the links on each line of view v loaded for x
    OverlayRows, \* OverlayRows[v]: number of lines of an overlay
    Char,        \* the printable characters a filter is typed from
    Space,       \* the blank, one of them
    CtypeMatchesFilter(_, _, _) \* the regex match of util.cpp

(* A row of the left panel: a namespace header or a ctype. *)
Item == Ns \cup Ctype

-----------------------------------------------------------------------------
(* data/acr_navdb/viewmode.ssim *)

Viewmode == {"fields", "xref", "preview", "codegen", "graph", "inspect",
             "help", "detail", "nsdep", "nsdep_detail"}

DefaultViewmode == "fields"

HasFields    == {"fields", "xref"}
IsOverlay    == {"help", "detail"}
ScopeNs      == {"nsdep", "nsdep_detail"}
NeedSsimfile == {"preview"}

(* The views whose lines are built on demand and cached under cached_key. *)
ContentView == {"preview", "codegen", "graph", "inspect"} \cup ScopeNs

(* The views DetectNavColumns, LoadGraph or LoadNsDepDetail give columns. *)
NavColView == {"preview", "graph", "nsdep_detail"}

NextViewmode ==
    [fields  |-> "xref",   xref    |-> "preview", preview |-> "codegen",
     codegen |-> "graph",  graph   |-> "fields",  inspect |-> "fields",
     help    |-> "fields", detail  |-> "fields",
     nsdep   |-> "nsdep_detail", nsdep_detail |-> "nsdep"]

-----------------------------------------------------------------------------
(* data/acr_navdb/filtertarget.ssim, navmode.ssim, panel.ssim *)

Filtertarget == {"ctype", "field", "arg", "reftype", "all"}

DefaultFiltertarget == "ctype"

NextFiltertarget ==
    [ctype |-> "field", field |-> "arg", arg |-> "reftype",
     reftype |-> "all", all |-> "ctype"]

Navmode == {"browse", "filter"}

Panel == {"ctype_list", "content"}

-----------------------------------------------------------------------------
(* data/acr_navdb/navaction.ssim and keybind.ssim *)

TargetViewmode ==
    [toggle_codegen |-> "codegen", toggle_fields |-> "fields",
     toggle_graph   |-> "graph",   toggle_nsdep_detail |-> "nsdep_detail",
     toggle_preview |-> "preview", toggle_xref |-> "xref"]

Toggle == DOMAIN TargetViewmode

Passive == {"go_top", "go_bottom", "move_up", "move_down", "page_up",
            "page_down", "switch_panel_left", "switch_panel_right"}

NeedNoOverlay == Toggle \cup {"cycle_viewmode", "filter_start",
                              "filter_static", "follow_ref", "show_detail"}

(* The overlay an action dismisses instead of being blocked by. *)
DismissViewmode == [show_help |-> "help", show_detail |-> "detail"]

(* Some key is bound to the action in that mode; a key is abstracted to    *)
(* the action it is bound to.                                              *)
Keybind ==
    [browse |-> Passive \cup NeedNoOverlay
                \cup {"dismiss_or_clear", "go_back", "show_help", "quit"},
     filter |-> (Passive \ {"go_top", "go_bottom"})
                \cup {"filter_accept", "filter_append_space",
                      "filter_backspace", "filter_cancel", "filter_clear",
                      "filter_cycle_target"}]

Navaction == UNION {Keybind[m] : m \in Navmode}

-----------------------------------------------------------------------------
(* What the loaded schema guarantees.  Every namespace the list shows has  *)
(* a ctype, and a header is listed above the ctypes of its namespace       *)
(* (InsertionSortNsByName, then BuildLeftItems).                           *)

(* A link of a content line: the row it leads to in the left panel, and    *)
(* the line ApplyPendingNavMatch selects in the preview of that ctype.     *)
Link == [to : Item, at : Nat]

ASSUME SchemaAssumption ==
    /\ IsFiniteSet(Ns) /\ IsFiniteSet(Ctype)
    /\ Ns \cap Ctype = {}
    /\ Null \notin Item \cup Viewmode \cup Filtertarget
    /\ NsOf \in [Ctype -> Ns]
    /\ Pos \in [Item -> Nat]
    /\ \A x, y \in Item : Pos[x] = Pos[y] => x = y
    /\ \A c \in Ctype : Pos[NsOf[c]] < Pos[c]
    /\ Ssimfile \subseteq Ctype
    /\ Space \in Char

ASSUME ReferenceAssumption ==
    /\ DOMAIN Fields = Ctype /\ DOMAIN BackRefs = Ctype
    /\ \A c \in Ctype : Fields[c] \in Seq(Ctype) /\ BackRefs[c] \in Seq(Ctype)

ASSUME ContentAssumption ==
    /\ DOMAIN Content = ContentView
    /\ \A v \in ContentView :
          /\ DOMAIN Content[v] = Item
          /\ \A x \in Item :
                /\ Content[v][x] \in Seq(SUBSET Link)
                /\ \A i \in DOMAIN Content[v][x] :
                      \A l \in Content[v][x][i] :
                         l.to \in IF v = "nsdep" THEN Ns ELSE Ctype
    /\ DOMAIN OverlayRows = IsOverlay
    /\ \A v \in IsOverlay : OverlayRows[v] \in Nat
=============================================================================
