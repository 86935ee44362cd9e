----------------------------- MODULE RightPanel -----------------------------
(***************************************************************************)
(* The right panel of acr_nav: view modes, the overlay stack, the          *)
(* namespace-scoped views that follow the cursor, the content caches, and  *)
(* PostAction, which every handler ends with.                              *)
(***************************************************************************)
EXTENDS LeftPanel

Least(a, b)    == IF a < b THEN a ELSE b
Greatest(a, b) == IF a > b THEN a ELSE b

LastRow(n) == Greatest(0, n - 1)

-----------------------------------------------------------------------------
(* Overlays. *)

PopOverlay(d) ==
    IF d.overlay_stack = <<>> THEN d
    ELSE LET n == Len(d.overlay_stack)
             entry == d.overlay_stack[n]
         IN  [d EXCEPT !.cur_viewmode  = entry.viewmode,
                       !.right_row     = entry.row,
                       !.right_scroll  = entry.scroll,
                       !.overlay_stack = SubSeq(@, 1, n - 1)]

PushOverlay(d, target) ==
    [d EXCEPT !.overlay_stack = Append(@, [viewmode |-> d.cur_viewmode,
                                           row      |-> d.right_row,
                                           scroll   |-> d.right_scroll]),
              !.cur_viewmode = target]

(* The loop of the headless commands: pop until the stack is empty. *)
PopEveryOverlay(d) ==
    IF d.overlay_stack = <<>> THEN d
    ELSE [d EXCEPT !.cur_viewmode  = d.overlay_stack[1].viewmode,
                   !.right_row     = d.overlay_stack[1].row,
                   !.right_scroll  = d.overlay_stack[1].scroll,
                   !.overlay_stack = <<>>]

DismissStartupHelp(d, na) ==
    IF d.startup_help /\ (na \notin Passive \/ d.cur_viewmode # "help")
    THEN LET e == [d EXCEPT !.startup_help = FALSE]
         IN  IF d.cur_viewmode = "help" THEN PopOverlay(e) ELSE e
    ELSE d

-----------------------------------------------------------------------------
(* Lazily loaded content.  shown[v] is the item whose lines view v holds,  *)
(* or Null; cached_key is "" for no content, and also for the namespace    *)
(* whose key is "".                                                        *)

CachedKey(x) == IF x = EmptyNs THEN Null ELSE x

(* Load*: fill the view for item x; both namespace views set p_nsdep_ns,   *)
(* and the preview selects the record a followed link named.               *)
LoadContent(d, v, x) ==
    LET pending == d.preview_nav_pending
        match   == v = "preview" /\ pending # Null
                   /\ pending.to = x /\ pending.at < Len(Content[v][x])
    IN  [d EXCEPT !.shown[v] = x,
                  !.nsdep_ns = IF v \in ScopeNs THEN x ELSE @,
                  !.preview_nav_pending =
                      IF v \in {"preview", "inspect"} THEN Null ELSE @,
                  !.right_row = IF match THEN pending.at ELSE @]

(* Slip: loaded once, whatever for. *)
EnsureContentOnce(d, v, x) ==
    IF v \in ContentView /\ x # Null /\ d.shown[v] = Null
    THEN LoadContent(d, v, x) ELSE d

EnsureContent(d, v, x) ==
    IF v \in ContentView /\ x # Null /\ CachedKey(d.shown[v]) # CachedKey(x)
    THEN LoadContent(d, v, x) ELSE d

(* The item the current view is about, when sel_ct is the selected ctype. *)
Scope(d, sel_ct) ==
    CASE d.cur_viewmode \notin ScopeNs -> sel_ct
      [] d.cur_viewmode \in ScopeNs /\ sel_ct # Null -> NsOf[sel_ct]
      [] d.cur_viewmode \in ScopeNs /\ sel_ct = Null -> SelectedNs(d)

(* The loading that counting the right panel's rows does. *)
EnsureRightPanel(d, sel_ct) == EnsureContent(d, d.cur_viewmode, Scope(d, sel_ct))

Lines(d) ==
    LET x == d.shown[d.cur_viewmode]
    IN  IF x = Null THEN <<>> ELSE Content[d.cur_viewmode][x]

FieldList(d, sel_ct) ==
    IF sel_ct = Null THEN <<>>
    ELSE IF d.cur_viewmode = "xref" THEN BackRefs[sel_ct] ELSE Fields[sel_ct]

RightPanelItemCount(d, sel_ct) ==
    CASE d.cur_viewmode \in HasFields   -> Len(FieldList(d, sel_ct))
      [] d.cur_viewmode \in IsOverlay   -> OverlayRows[d.cur_viewmode]
      [] d.cur_viewmode \in ContentView -> Len(Lines(d))

ClearContentCaches(d) ==
    [d EXCEPT !.shown = [v \in ContentView |->
                            IF d.shown[v] = EmptyNs THEN EmptyNs ELSE Null]]

-----------------------------------------------------------------------------
(* Scrolling. *)

VisibleRows(d) ==
    Greatest(1, d.term_hei - (2 + IF d.navstack = <<>> THEN 0 ELSE 1))

DataRows(d) == VisibleRows(d) - 1

(* Slip: an empty list has a row -1. *)
AdjustedRowUnclamped(row, n) == Least(row, n - 1)

AdjustedRow(row, n) == Greatest(0, Least(row, LastRow(n)))

(* Slip: one row too few. *)
AdjustedScrollShort(row, scroll, n, visible) ==
    LET down == IF row >= scroll + visible THEN row - visible ELSE scroll
        up   == IF row < down THEN row ELSE down
    IN  Least(up, Greatest(0, n - visible))

AdjustedScroll(row, scroll, n, visible) ==
    LET down == IF row >= scroll + visible THEN row - visible + 1 ELSE scroll
        up   == IF row < down THEN row ELSE down
    IN  Least(up, Greatest(0, n - visible))

AdjustLeft(d) ==
    LET row == AdjustedRow(d.left_row, left_item_N(d))
    IN  [d EXCEPT !.left_row = row,
                  !.left_scroll = AdjustedScroll(row, d.left_scroll,
                                                 left_item_N(d), DataRows(d))]

AdjustRight(d, sel_ct) ==
    LET e   == EnsureRightPanel(d, sel_ct)
        n   == RightPanelItemCount(e, sel_ct)
        row == AdjustedRow(e.right_row, n)
    IN  [e EXCEPT !.right_row = row,
                  !.right_scroll = AdjustedScroll(row, e.right_scroll,
                                                  n, DataRows(e))]

-----------------------------------------------------------------------------
(* The namespace views follow the cursor: PopOverlayOnCtypeChange.  Each   *)
(* stage returns the record and whether the namespace context changed.     *)

DeactivateNsdep(d) ==
    [d EXCEPT !.cur_viewmode = IF d.pre_nsdep_viewmode = Null
                               THEN DefaultViewmode ELSE d.pre_nsdep_viewmode,
              !.pre_nsdep_viewmode = Null]

(* Slip: the namespace view is kept on a ctype. *)
LeaveOrReloadNsdepKept(d) ==
    IF d.cur_viewmode \in ScopeNs /\ SelectedNs(d) \notin {Null, d.nsdep_ns}
    THEN [db |-> [EnsureContent(d, d.cur_viewmode, SelectedNs(d))
                  EXCEPT !.nsdep_ns = SelectedNs(d)],
          changed |-> TRUE]
    ELSE [db |-> d, changed |-> FALSE]

LeaveOrReloadNsdep(d) ==
    IF d.cur_viewmode \in ScopeNs /\ SelectedCtype(d) # Null
    THEN [db |-> DeactivateNsdep(d), changed |-> TRUE]
    ELSE IF d.cur_viewmode \in ScopeNs /\ SelectedNs(d) \notin {Null, d.nsdep_ns}
    THEN [db |-> [EnsureContent(d, d.cur_viewmode, SelectedNs(d))
                  EXCEPT !.nsdep_ns = SelectedNs(d)],
          changed |-> TRUE]
    ELSE [db |-> d, changed |-> FALSE]

(* Slip: only a change of namespace counts. *)
RestoreBaseViewNsOnly(r, prev_sel_ct) ==
    IF ~r.changed \/ r.db.overlay_stack = <<>> \/ r.db.startup_help
    THEN r
    ELSE [r EXCEPT !.db = [r.db EXCEPT !.overlay_stack = <<>>,
                                       !.cur_viewmode  = r.db.overlay_stack[1].viewmode,
                                       !.detail_field  = Null]]

RestoreBaseView(r, prev_sel_ct) ==
    LET d      == r.db
        sel_ct == SelectedCtype(d)
        base   == [d EXCEPT !.overlay_stack = <<>>,
                            !.cur_viewmode  = d.overlay_stack[1].viewmode,
                            !.detail_field  = Null]
    IN  IF \/ sel_ct = prev_sel_ct /\ ~r.changed
           \/ d.overlay_stack = <<>>
           \/ d.startup_help
        THEN r
        ELSE IF base.cur_viewmode \in ScopeNs /\ sel_ct # Null
        THEN [db |-> DeactivateNsdep(base), changed |-> TRUE]
        ELSE [r EXCEPT !.db = base]

ActivateNsdep(r) ==
    LET d == r.db
    IN  IF \/ d.cur_viewmode \in ScopeNs \cup IsOverlay
           \/ SelectedCtype(d) # Null
           \/ SelectedNs(d) = Null
        THEN r
        ELSE [db |-> [LoadContent(d, "nsdep", SelectedNs(d))
                      EXCEPT !.startup_help = FALSE,
                             !.pre_nsdep_viewmode = d.cur_viewmode,
                             !.cur_viewmode = "nsdep"],
              changed |-> TRUE]

PopOverlayOnCtypeChange(d, prev_sel_ct) ==
    ActivateNsdep(RestoreBaseView(LeaveOrReloadNsdep(d), prev_sel_ct))

-----------------------------------------------------------------------------
(* The first line of the graph of c that leads to ctype t, or -1. *)
GraphFindCtypeLine(c, t) ==
    LET lines == Content["graph"][c]
        hit   == {i \in DOMAIN lines : \E l \in lines[i] : l.to = t}
    IN  IF hit = {} THEN -1
        ELSE (CHOOSE i \in hit : \A j \in hit : i <= j) - 1

(* Slip: dismissing an overlay counts as a new view. *)
ResetRightOnAny(d, snap, ct_changed) ==
    IF /\ Len(d.navstack) >= Len(snap.navstack)
       /\ d.cur_viewmode # snap.cur_viewmode \/ ct_changed
    THEN [d EXCEPT !.right_row = 0, !.right_scroll = 0] ELSE d

(* A new view or a new ctype is shown from the top; going back and         *)
(* dismissing an overlay keep the line they restored.                      *)
ResetRight(d, snap, ct_changed) ==
    LET vm_changed  == d.cur_viewmode # snap.cur_viewmode
        overlay_pop == vm_changed
                       /\ Len(d.overlay_stack) < Len(snap.overlay_stack)
    IN  IF /\ Len(d.navstack) >= Len(snap.navstack)
           /\ (vm_changed /\ ~overlay_pop) \/ ct_changed
        THEN [d EXCEPT !.right_row = 0, !.right_scroll = 0] ELSE d

(* What every handler does last; snap is the record when it started.  The  *)
(* right panel is counted for the ctype selected before AdjustScroll pulls *)
(* the cursor back into the list.                                          *)
PostAction(d, snap) ==
    LET prev     == SelectedCtype(snap)
        r        == PopOverlayOnCtypeChange(d, prev)
        e        == r.db
        sel_ct   == SelectedCtype(e)
        ct_changed == sel_ct # prev \/ r.changed
        cleared  == IF ct_changed /\ sel_ct = Null
                    THEN ClearContentCaches(e) ELSE e
        top      == ResetRight(cleared, snap, ct_changed)
        line     == IF /\ Len(e.navstack) >= Len(snap.navstack)
                       /\ e.cur_viewmode = "graph"
                       /\ sel_ct # prev /\ sel_ct # Null /\ prev # Null
                    THEN GraphFindCtypeLine(sel_ct, prev) ELSE -1
        placed   == IF line >= 0 THEN [top EXCEPT !.right_row = line] ELSE top
    IN  AdjustRight(AdjustLeft(placed), sel_ct)
=============================================================================
