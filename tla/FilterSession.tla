--------------------------- MODULE FilterSession ---------------------------
(* acr_nav with a history variable: the place the user was at when the     *)
(* filter line was opened.  It lets us say what cancelling must restore.   *)
(* Ctrl-U in the filter line gives up the promise: it recollapses what an  *)
(* earlier filter expanded.                                                *)
EXTENDS AcrNavProps

VARIABLE before

session == <<db, before>>

SessionInit == Init /\ before = Place(db)

SessionNext ==
    /\ Next
    /\ before' = CASE db.cur_mode = "browse" /\ db'.cur_mode = "filter" -> Place(db)
                   [] db.cur_mode = "filter" /\ ClearFilter -> [before EXCEPT !.item = Null]
                   [] OTHER -> before

SessionSpec == SessionInit /\ [][SessionNext]_session

(* Escape in the filter line, or a view change from outside, puts the      *)
(* cursor back on the row, and the filter on the text and target, it was   *)
(* on when "/" was pressed (pre_filter_sel_row, navaction_filter_cancel).  *)
CancelReturns ==
    [][db.cur_mode = "filter" /\ (CancelFilter \/ HeadlessSetView) =>
         /\ Place(db').filter = before.filter
         /\ Place(db').filtertarget = before.filtertarget
         /\ before.item # Null => SelectedItem(db') = before.item]_session
=============================================================================
