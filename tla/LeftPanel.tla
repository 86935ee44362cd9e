------------------------------ MODULE LeftPanel ------------------------------
(***************************************************************************)
(* The left panel of acr_nav: the list of namespaces and ctypes, its       *)
(* selection, the filter and the collapse flags.  Operators take and       *)
(* return the program's database record (acr_nav::_db), here d.            *)
(*                                                                         *)
(* The order of the rows never changes (Pos): the namespaces are sorted by *)
(* name and each is followed by its ctypes, so the array left_item is      *)
(* determined by the set of its rows.                                      *)
(***************************************************************************)
EXTENDS NavTables

Above(items, x) == Cardinality({y \in items : Pos[y] < Pos[x]})

(* The rows of a set of items: row i has exactly i - 1 of them above it. *)
ListOf(items) ==
    [i \in 1..Cardinality(items) |->
        CHOOSE x \in items : Above(items, x) = i - 1]

left_item_N(d) == Len(d.left_item)

Listed(d) == {d.left_item[i] : i \in 1..Len(d.left_item)}

SelectedItem(d) ==
    IF d.left_row < Len(d.left_item) THEN d.left_item[d.left_row + 1] ELSE Null

SelectedCtype(d) == IF SelectedItem(d) \in Ctype THEN SelectedItem(d) ELSE Null

SelectedNs(d) ==
    CASE SelectedItem(d) \in Ctype -> NsOf[SelectedItem(d)]
      [] SelectedItem(d) \in Ns    -> SelectedItem(d)
      [] OTHER                     -> Null

(* Move the cursor to item x, if it is listed. *)
SelectItem(d, x) ==
    IF x \in Listed(d)
    THEN [d EXCEPT !.left_row =
             (CHOOSE i \in 1..Len(d.left_item) : d.left_item[i] = x) - 1]
    ELSE d

-----------------------------------------------------------------------------
Hits(filter, target) ==
    {c \in Ctype : filter = <<>> \/ CtypeMatchesFilter(c, filter, target)}

(* CollectMatchingNamespaces: the namespaces with a matching ctype. *)
MatchingNs(filter, target) == {NsOf[c] : c \in Hits(filter, target)}

(* What BuildLeftItems lists: the matching namespaces, and the matching    *)
(* ctypes of those that are not collapsed.                                 *)
VisibleItems(filter, target, collapsed) ==
    ListOf(MatchingNs(filter, target)
           \cup {c \in Hits(filter, target) : NsOf[c] \notin collapsed})

(* n_match is kept as the set of namespaces whose n_match is positive. *)
BuildLeftItems(d) ==
    [d EXCEPT !.n_match   = MatchingNs(d.filter, d.cur_filtertarget),
              !.left_item = VisibleItems(d.filter, d.cur_filtertarget, d.collapsed)]

BuildLeftItemsReset(d) ==
    [BuildLeftItems(d) EXCEPT !.left_row = 0, !.left_scroll = 0]

RecollapseAutoExpanded(d) ==
    [d EXCEPT !.collapsed = d.collapsed \cup d.auto_expanded,
              !.auto_expanded = {}]

SwitchToBrowse(d) == [d EXCEPT !.cur_mode = "browse"]

-----------------------------------------------------------------------------
(* Reveal a ctype: expand its namespace, drop the filter, select its row. *)
RevealCtype(d, c) ==
    SelectItem(
        BuildLeftItems(SwitchToBrowse(
            [d EXCEPT !.collapsed = d.collapsed \ {NsOf[c]},
                      !.filter = <<>>,
                      !.cur_filtertarget = DefaultFiltertarget])), c)

(* Slip: collapsing by hand forgets that the filter had expanded it. *)
ToggleCollapsedKeepingAuto(d, n) ==
    BuildLeftItems(
        [d EXCEPT !.collapsed = IF n \in @ THEN @ \ {n} ELSE @ \cup {n}])

(* Enter on a namespace header. *)
ToggleCollapsed(d, n) ==
    BuildLeftItems(
        IF n \in d.collapsed
        THEN [d EXCEPT !.collapsed = d.collapsed \ {n}]
        ELSE [d EXCEPT !.collapsed = d.collapsed \cup {n},
                       !.auto_expanded = d.auto_expanded \ {n}])

-----------------------------------------------------------------------------
(* The filter actions: navaction_filter_start and its companions. *)

FilterStart(d) ==
    [BuildLeftItemsReset(
        [d EXCEPT !.pre_filter = [text   |-> d.filter,
                                  target |-> d.cur_filtertarget,
                                  row    |-> d.left_row,
                                  scroll |-> d.left_scroll],
                  !.cur_mode = "filter",
                  !.filter = <<>>,
                  !.cur_filtertarget = DefaultFiltertarget])
     EXCEPT !.cur_panel = "ctype_list"]

(* Slip: the row is restored before the list, whose rebuild resets it. *)
FilterCancelRowFirst(d) ==
    BuildLeftItemsReset(
        [SwitchToBrowse(d) EXCEPT !.filter = d.pre_filter.text,
                                  !.cur_filtertarget = d.pre_filter.target,
                                  !.left_row = d.pre_filter.row])

FilterCancel(d) ==
    [BuildLeftItems(
        [SwitchToBrowse(d) EXCEPT !.filter = d.pre_filter.text,
                                  !.cur_filtertarget = d.pre_filter.target])
     EXCEPT !.left_row = d.pre_filter.row, !.left_scroll = d.pre_filter.scroll]

FilterClear(d) ==
    IF d.filter = <<>> THEN d
    ELSE BuildLeftItemsReset(RecollapseAutoExpanded([d EXCEPT !.filter = <<>>]))

FilterText(d, text) == BuildLeftItemsReset([d EXCEPT !.filter = text])

FilterCycleTarget(d) ==
    BuildLeftItemsReset(
        [d EXCEPT !.cur_filtertarget = NextFiltertarget[d.cur_filtertarget]])

(* Expand the collapsed namespaces the last list build found matches in. *)
ExpandMatching(d) ==
    [d EXCEPT !.auto_expanded = d.auto_expanded \cup (d.n_match \cap d.collapsed),
              !.collapsed = d.collapsed \ d.n_match]

(* Select the first ctype row, skipping the headers. *)
SelectFirstCtype(d) ==
    LET rows == {i \in 1..Len(d.left_item) : d.left_item[i] \in Ctype}
    IN  IF rows = {} THEN d
        ELSE [d EXCEPT !.left_row =
                 (CHOOSE i \in rows : \A j \in rows : i <= j) - 1]

(* Slip: the previous session's namespaces are collapsed after, not before,*)
(* this session's are expanded.                                            *)
FilterAcceptSwapped(d) ==
    SwitchToBrowse(
        IF d.filter = <<>> THEN d
        ELSE SelectFirstCtype(
                BuildLeftItemsReset(RecollapseAutoExpanded(ExpandMatching(d)))))

FilterAccept(d) ==
    SwitchToBrowse(
        IF d.filter = <<>> THEN d
        ELSE SelectFirstCtype(
                BuildLeftItemsReset(ExpandMatching(RecollapseAutoExpanded(d)))))
=============================================================================
