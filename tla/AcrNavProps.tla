----------------------------- MODULE AcrNavProps -----------------------------
(***************************************************************************)
(* What acr_nav promises between two keys or commands, and what one of     *)
(* them may never do.                                                      *)
(***************************************************************************)
EXTENDS AcrNav

(* The database record has the shape its fields are declared with. *)
TypeOK == db \in State

-----------------------------------------------------------------------------
(* An overlay can always be dismissed: while one is shown the stack is not *)
(* empty, and what lies at its bottom, what an nsdep view gives way to and *)
(* what go_back restores are never overlays.  PopOverlay, DeactivateNsdep  *)
(* and RestoreNavstackState each rely on one of these.                     *)
OverlayReturns ==
    /\ db.cur_viewmode \in IsOverlay => db.overlay_stack # <<>>
    /\ db.overlay_stack # <<>> => db.overlay_stack[1].viewmode \notin IsOverlay
    /\ db.pre_nsdep_viewmode \notin IsOverlay \cup ScopeNs
    /\ \A i \in 1..Len(db.navstack) : db.navstack[i].viewmode \notin IsOverlay

(* The right panel is about what the cursor is on: a namespace view is     *)
(* shown exactly on a header, whatever keys, filters, overlays and go_back *)
(* led there (PopOverlayOnCtypeChange).                                    *)
ContextView ==
    /\ SelectedCtype(db) # Null => db.cur_viewmode \notin ScopeNs
    /\ SelectedCtype(db) = Null /\ SelectedNs(db) # Null
          => db.cur_viewmode \in ScopeNs \cup IsOverlay

(* The list on the screen is the one the filter, its target and the        *)
(* collapse flags call for: no handler changes one of them and returns     *)
(* without BuildLeftItems.                                                 *)
LeftFresh ==
    /\ db.n_match = MatchingNs(db.filter, db.cur_filtertarget)
    /\ db.left_item = VisibleItems(db.filter, db.cur_filtertarget, db.collapsed)

(* A namespace the filter expanded is expanded: RecollapseAutoExpanded     *)
(* never collapses one the user had collapsed and opened by hand since.    *)
AutoExpandedOpen == db.auto_expanded \cap db.collapsed = {}

(* The filter line has the keyboard only with the left panel focused and   *)
(* no overlay up, knows what to restore, and go_back never returns to it.  *)
FilterModeAlone ==
    /\ db.cur_mode = "filter" =>
          /\ db.cur_panel = "ctype_list"
          /\ db.cur_viewmode \notin IsOverlay
          /\ db.pre_filter.target # Null
    /\ \A i \in 1..Len(db.navstack) : db.navstack[i].navmode = "browse"

(* The cursor of each panel is on a row that exists and that is on the     *)
(* screen, after every change of the list, the view, the terminal height   *)
(* and the breadcrumb line (AdjustScroll).                                 *)
InView(row, scroll, n) ==
    /\ row <= LastRow(n)
    /\ scroll <= row
    /\ DataRows(db) > 0 => row < scroll + DataRows(db)
    /\ scroll <= Greatest(0, n - DataRows(db))

SelectionInView ==
    /\ InView(db.left_row, db.left_scroll, left_item_N(db))
    /\ InView(db.right_row, db.right_scroll, RightPanelItemCount(db, SelectedCtype(db)))

(* A content view holds the lines of the item the cursor is on, and the    *)
(* namespace an nsdep view remembers is the selected one (cached_key,      *)
(* p_nsdep_ns).                                                            *)
About(d) == Scope(d, SelectedCtype(d))

ContentCurrent ==
    About(db) # Null /\ db.cur_viewmode \in ContentView =>
        /\ db.shown[db.cur_viewmode] = About(db)
        /\ db.cur_viewmode \in ScopeNs => db.nsdep_ns = About(db)

(* The detail overlay shows a field of the selected ctype: it does not     *)
(* outlive the selection, and p_detail_field is set ("non-null in detail   *)
(* mode", dmmeta.field acr_nav.FDb.p_detail_field).                        *)
DetailOfSelection ==
    db.cur_viewmode = "detail" =>
        db.detail_field # Null /\ db.detail_field = SelectedCtype(db)

(* The startup help is the help overlay over the default view, and lasts   *)
(* only until the first action: nothing can be filtered, expanded, or      *)
(* visited behind it.                                                      *)
StartupHelpFirst ==
    db.startup_help =>
        /\ db.cur_viewmode = "help" /\ Len(db.overlay_stack) = 1
        /\ db.navstack = <<>> /\ db.filter = <<>> /\ db.collapsed = Ns

-----------------------------------------------------------------------------
(* The place a user is at: what the breadcrumb and go_back speak of. *)
Place(d) == [item         |-> SelectedItem(d),
             filter       |-> d.filter,
             filtertarget |-> d.cur_filtertarget]

Visited(place, viewmode, focus, line) ==
    [item |-> place.item, place |-> place, viewmode |-> viewmode,
     focus |-> focus, line |-> line]

(* A navstack entry, as the place it was pushed at. *)
Recorded(entry) ==
    Visited([item         |-> entry.ctype,
             filter       |-> entry.filter,
             filtertarget |-> entry.filtertarget],
            entry.viewmode, entry.focus_panel, entry.right_row)

(* When nothing is listed, a reference is followed from the namespace whose  *)
(* dependencies are shown.                                                 *)
Here(d) == [Place(d) EXCEPT !.item = IF @ = Null THEN d.nsdep_ns ELSE @]

History == INSTANCE NavHistory
    WITH here <- Visited(Here(db), db.cur_viewmode, db.cur_panel, db.right_row),
         past <- [i \in 1..Len(db.navstack) |-> Recorded(db.navstack[i])]

(* The navstack is a history of the places visited: row, filter, target,   *)
(* view, focused panel and right-panel line are all recorded when a        *)
(* reference is followed and all back after go_back, although the          *)
(* namespace may have been collapsed and the list filtered since, and      *)
(* although PostAction runs after both.  With an empty list, go_back puts   *)
(* back the line but not the namespace it is a line of: back_from_empty.   *)
HistoryKept == History!Spec

(* "Restore filter, viewmode, navmode, and filtertarget from a navstack    *)
(* entry" (RestoreNavstackState): whatever is on the screen, go_back shows *)
(* the recorded view.                                                      *)
BackRestoresView ==
    [][GoBack /\ db.navstack # <<>>
       => db'.cur_viewmode = db.navstack[Len(db.navstack)].viewmode]_vars

(* Accepting a filter lists every match, expanding what was collapsed, and *)
(* puts the cursor on one: the counts of the last list build (n_match)     *)
(* decide what is expanded.                                                *)
AcceptShowsMatches ==
    [][AcceptFilter /\ db.filter # <<>> =>
         LET hits == Hits(db.filter, db.cur_filtertarget)
         IN  /\ hits \subseteq Listed(db')
             /\ hits # {} => SelectedItem(db') \in hits]_vars

(* Dismissing an overlay returns to the view and the line it was opened    *)
(* over, if that view still fits the row the cursor is on.                 *)
Under(d) == d.overlay_stack[Len(d.overlay_stack)]

Dismissed ==
    /\ ~db.startup_help
    /\ db.cur_viewmode \in IsOverlay
    /\ Len(db'.overlay_stack) < Len(db.overlay_stack)
    /\ Under(db).viewmode \in ScopeNs <=> About(db') \in Ns
    /\ About(db') \in Ns => About(db') = db.nsdep_ns
    /\ DismissOrClear \/ ShowHelp \/ ShowDetail

DismissReturns ==
    [][Dismissed =>
          /\ db'.cur_viewmode = Under(db).viewmode
          /\ db'.right_row = Under(db).row]_vars
=============================================================================
