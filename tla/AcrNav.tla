------------------------------- MODULE AcrNav -------------------------------
(***************************************************************************)
(* acr_nav, the schema navigator: one step is one key press or one         *)
(* headless protocol command, run to completion by the single-threaded     *)
(* program.  db is the program's database record, acr_nav::_db.            *)
(*                                                                         *)
(* A key press is ProcessKey: look the key up in the current mode, drop    *)
(* the startup help or refuse an action an overlay blocks, run the         *)
(* navaction, DismissStartupHelp, PostAction.  A headless command has a    *)
(* handler of its own that ends with PostAction too.                       *)
(***************************************************************************)
EXTENDS RightPanel

CONSTANTS
    Inputs,      \* the navactions and headless commands of the environment
    TermHei,     \* the heights a SetTermSize command asks for
    StartHei,    \* the height at startup
    FilterArgs,  \* the texts and targets SetFilter commands are sent with
    ViewArgs,    \* the view modes SetView and Navigate commands ask for
    MaxFilter,   \* bound: characters typed into the filter
    MaxNav,      \* bound: entries of the navstack
    MaxOverlay   \* bound: entries of the overlay stack

HeadlessCommand == {"SetTermSize", "Navigate", "SetFilter", "SetView", "GoBack"}

ASSUME InputAssumption ==
    /\ Inputs \subseteq Navaction \cup HeadlessCommand
                        \cup {"filter_append"}
    /\ TermHei \subseteq Nat \ {0} /\ StartHei \in Nat \ {0}
    /\ FilterArgs \subseteq [text : Seq(Char), target : Filtertarget]
    /\ ViewArgs \subseteq Viewmode
    /\ MaxFilter \in Nat /\ MaxNav \in Nat /\ MaxOverlay \in Nat

VARIABLE db

vars == <<db>>

-----------------------------------------------------------------------------
OverlayEntry == [viewmode : Viewmode, row : Nat, scroll : Nat]

Naventry == [ctype : Item \cup {Null}, filter : Seq(Char), filtertarget : Filtertarget,
             navmode : Navmode, viewmode : Viewmode, left_scroll : Nat,
             right_row : Nat, right_scroll : Nat, focus_panel : Panel]

PreFilter == [text : Seq(Char), target : Filtertarget \cup {Null},
              row : Nat, scroll : Nat]

State ==
    [running            : BOOLEAN,
     cur_mode           : Navmode,
     cur_panel          : Panel,
     filter             : Seq(Char),
     cur_filtertarget   : Filtertarget,
     pre_filter         : PreFilter,
     collapsed          : SUBSET Ns,
     auto_expanded      : SUBSET Ns,
     n_match            : SUBSET Ns,
     left_item          : Seq(Item),
     left_row           : Nat,
     left_scroll        : Nat,
     right_row          : Nat,
     right_scroll       : Nat,
     cur_viewmode       : Viewmode,
     pre_nsdep_viewmode : Viewmode \cup {Null},
     nsdep_ns           : Ns \cup {Null},
     detail_field       : Ctype \cup {Null},
     overlay_stack      : Seq(OverlayEntry),
     navstack           : Seq(Naventry),
     startup_help       : BOOLEAN,
     shown              : [ContentView -> Item \cup {Null}],
     preview_nav_pending : Link \cup {Null},
     term_hei           : Nat]

(* Main builds the list, then InitPanels opens the startup help on the     *)
(* default view.                                                           *)
Init ==
    db = PushOverlay(BuildLeftItems(
        [running            |-> TRUE,
         cur_mode           |-> "browse",
         cur_panel          |-> "ctype_list",
         filter             |-> <<>>,
         cur_filtertarget   |-> DefaultFiltertarget,
         pre_filter         |-> [text |-> <<>>, target |-> Null,
                                 row |-> 0, scroll |-> 0],
         collapsed          |-> Ns,
         auto_expanded      |-> {},
         n_match            |-> {},
         left_item          |-> <<>>,
         left_row           |-> 0,
         left_scroll        |-> 0,
         right_row          |-> 0,
         right_scroll       |-> 0,
         cur_viewmode       |-> DefaultViewmode,
         pre_nsdep_viewmode |-> Null,
         nsdep_ns           |-> Null,
         detail_field       |-> Null,
         overlay_stack      |-> <<>>,
         navstack           |-> <<>>,
         startup_help       |-> TRUE,
         shown              |-> [v \in ContentView |-> Null],
         preview_nav_pending |-> Null,
         term_hei           |-> StartHei]), "help")

-----------------------------------------------------------------------------
(* ProcessKey.  Ready(na): the record the navaction na runs on, after the  *)
(* startup help has given way; Press(na): na is bound and not blocked.     *)

Ready(na) ==
    IF na \in NeedNoOverlay /\ db.cur_viewmode \in IsOverlay /\ db.startup_help
    THEN PopOverlay([db EXCEPT !.startup_help = FALSE])
    ELSE db

Blocked(na) ==
    /\ na \in NeedNoOverlay
    /\ db.cur_viewmode \in IsOverlay
    /\ ~db.startup_help
    /\ ~(na \in DOMAIN DismissViewmode /\ DismissViewmode[na] = db.cur_viewmode)

Press(na) ==
    /\ db.running
    /\ na \in Inputs
    /\ na \in Keybind[db.cur_mode]
    /\ ~Blocked(na)

Finish(na, d) == db' = PostAction(DismissStartupHelp(d, na), db)

-----------------------------------------------------------------------------
(* Movement, in the panel that has the focus. *)

InLeft(d) == d.cur_panel = "ctype_list"

SelRow(d) == IF InLeft(d) THEN d.left_row ELSE d.right_row

SetSelRow(d, row) ==
    IF InLeft(d) THEN [d EXCEPT !.left_row = row] ELSE [d EXCEPT !.right_row = row]

(* PanelItemCount loads the right panel before it counts it. *)
Counted(d) == IF InLeft(d) THEN d ELSE EnsureRightPanel(d, SelectedCtype(d))

LastSel(d) ==
    LastRow(IF InLeft(d) THEN left_item_N(d) ELSE RightPanelItemCount(d, SelectedCtype(d)))

RowUp(d, n)   == SetSelRow(d, Greatest(0, SelRow(d) - n))
RowDown(d, n) == LET e == Counted(d)
                 IN  SetSelRow(e, Least(LastSel(e), SelRow(e) + n))

MoveUp   == Press("move_up")   /\ Finish("move_up", RowUp(db, 1))
MoveDown == Press("move_down") /\ Finish("move_down", RowDown(db, 1))
PageUp   == Press("page_up")   /\ Finish("page_up", RowUp(db, DataRows(db)))
PageDown == Press("page_down") /\ Finish("page_down", RowDown(db, DataRows(db)))
GoTop    == Press("go_top")    /\ Finish("go_top", SetSelRow(db, 0))
GoBottom ==
    /\ Press("go_bottom")
    /\ LET e == Counted(db) IN Finish("go_bottom", SetSelRow(e, LastSel(e)))

(* In the right panel the key first moves over the columns that can be     *)
(* followed.  sel_nav_col itself is abstracted: Stay is the case where it  *)
(* absorbs the key.                                                        *)
HasNavCols(d) == d.cur_viewmode \in NavColView /\ Lines(d) # <<>>

SwitchPanelLeft ==
    /\ Press("switch_panel_left")
    /\ \E stay \in BOOLEAN :
          /\ stay => ~InLeft(db) /\ HasNavCols(db)
          /\ Finish("switch_panel_left",
                    IF stay THEN db ELSE [db EXCEPT !.cur_panel = "ctype_list"])

SwitchPanelRight ==
    /\ Press("switch_panel_right")
    /\ Finish("switch_panel_right",
              IF InLeft(db)
              THEN [SwitchToBrowse(db) EXCEPT !.cur_panel = "content"]
              ELSE db)

-----------------------------------------------------------------------------
(* The navigation stack. *)

PushNaventry(d, x) ==
    [d EXCEPT !.navstack = Append(@,
        [ctype        |-> x,
         filter       |-> d.filter,
         filtertarget |-> d.cur_filtertarget,
         navmode      |-> d.cur_mode,
         viewmode     |-> d.cur_viewmode,
         left_scroll  |-> d.left_scroll,
         right_row    |-> d.right_row,
         right_scroll |-> d.right_scroll,
         focus_panel  |-> d.cur_panel])]

(* Slip: the place is recorded after it has been left. *)
NavigateToTargetLate(d, c, dest) ==
    [PushNaventry(RevealCtype(d, c), SelectedCtype(d)) EXCEPT !.cur_viewmode = dest]

NavigateToTarget(d, c, dest) ==
    [RevealCtype(PushNaventry(d, SelectedCtype(d)), c) EXCEPT !.cur_viewmode = dest]

GoToCtype(d, c, dest) ==
    IF SelectedCtype(d) # Null
    THEN NavigateToTarget(d, c, dest)
    ELSE [RevealCtype(d, c) EXCEPT !.cur_viewmode = dest]

navaction_go_back(d) ==
    IF d.navstack = <<>> THEN d
    ELSE LET n     == Len(d.navstack)
             entry == d.navstack[n]
             e == BuildLeftItems(
                    [d EXCEPT !.filter = entry.filter,
                              !.cur_viewmode = entry.viewmode,
                              !.cur_mode = entry.navmode,
                              !.cur_filtertarget = entry.filtertarget,
                              !.collapsed = IF entry.ctype \in Ctype
                                            THEN @ \ {NsOf[entry.ctype]} ELSE @,
                              !.left_row = 0])
             \* the empty name is read as the header of the unnamed namespace
             target == IF entry.ctype = Null THEN EmptyNs ELSE entry.ctype
         IN  [SelectItem(e, target)
              EXCEPT !.left_scroll  = entry.left_scroll,
                     !.right_row    = entry.right_row,
                     !.right_scroll = entry.right_scroll,
                     !.cur_panel    = entry.focus_panel,
                     !.navstack     = SubSeq(@, 1, n - 1)]

GoBack == Press("go_back") /\ Finish("go_back", navaction_go_back(db))

-----------------------------------------------------------------------------
(* follow_ref: Enter. *)

FollowRefLeftPanel(d) ==
    CASE SelectedItem(d) \in Ns -> ToggleCollapsed(d, SelectedItem(d))
      [] SelectedItem(d) \in Ctype ->
            [IF d.cur_viewmode \in ScopeNs THEN DeactivateNsdep(d) ELSE d
             EXCEPT !.cur_panel = "content"]
      [] OTHER -> d

(* The arg, or in the xref view the owner, of the field on the cursor row. *)
FollowRefFields(d) ==
    LET target == FieldList(d, SelectedCtype(d))[d.right_row + 1]
    IN  IF target = SelectedCtype(d) THEN d
        ELSE NavigateToTarget(d, target, DefaultViewmode)

(* A link of the line under the cursor. *)
FollowLink(d, link) ==
    CASE link.to = SelectedCtype(d) -> d
      [] link.to # SelectedCtype(d) /\ SelectedCtype(d) # Null ->
            NavigateToTarget(
                [d EXCEPT !.preview_nav_pending =
                              IF d.cur_viewmode = "preview" THEN link ELSE @],
                link.to, d.cur_viewmode)
      [] OTHER ->
            GoToCtype(PushNaventry(d, d.nsdep_ns), link.to, DefaultViewmode)

(* Jump to the header of the namespace on the cursor line. *)
FollowRefNsDep(d, n) ==
    SelectItem(
        BuildLeftItems(SwitchToBrowse(
            [PushNaventry(d, IF SelectedCtype(d) # Null THEN SelectedCtype(d)
                             ELSE d.nsdep_ns)
             EXCEPT !.filter = <<>>,
                    !.cur_filtertarget = DefaultFiltertarget])), n)

(* What Enter can find under the cursor of the right panel. *)
OnField(d) == /\ d.cur_viewmode \in HasFields
              /\ SelectedCtype(d) # Null
              /\ d.right_row < Len(FieldList(d, SelectedCtype(d)))

LinksAtCursor(d) ==
    IF /\ d.cur_viewmode \in NavColView \cup {"nsdep"}
       /\ d.right_row < Len(Lines(d))
    THEN Lines(d)[d.right_row + 1] ELSE {}

FollowRefLeft ==
    /\ Press("follow_ref")
    /\ LET d == Ready("follow_ref")
       IN  InLeft(d) /\ Finish("follow_ref", FollowRefLeftPanel(d))

FollowRefField ==
    /\ Press("follow_ref")
    /\ Len(db.navstack) < MaxNav
    /\ LET d == Ready("follow_ref")
       IN  ~InLeft(d) /\ OnField(d) /\ Finish("follow_ref", FollowRefFields(d))

FollowRefLink ==
    /\ Press("follow_ref")
    /\ Len(db.navstack) < MaxNav
    /\ LET d == Ready("follow_ref")
       IN  /\ ~InLeft(d)
           /\ \E link \in LinksAtCursor(d) :
                 Finish("follow_ref", IF d.cur_viewmode = "nsdep"
                                      THEN FollowRefNsDep(d, link.to)
                                      ELSE FollowLink(d, link))

(* Nothing to follow: the key still counts as handled. *)
FollowRefNothing ==
    /\ Press("follow_ref")
    /\ LET d == Ready("follow_ref")
       IN  /\ ~InLeft(d) /\ ~OnField(d)
           /\ d.cur_viewmode = "preview" \/ LinksAtCursor(d) = {}
           /\ Finish("follow_ref", d)

-----------------------------------------------------------------------------
(* View modes and overlays. *)

CycleViewmode ==
    /\ Press("cycle_viewmode")
    /\ LET d == Ready("cycle_viewmode")
       IN  Finish("cycle_viewmode",
                  [d EXCEPT !.cur_viewmode = NextViewmode[@]])

ToggleViewmode(d, target) ==
    LET can_enter == /\ d.cur_viewmode # target
                     /\ target \in NeedSsimfile => SelectedCtype(d) \in Ssimfile
    IN  [d EXCEPT !.cur_viewmode = IF can_enter THEN target ELSE DefaultViewmode]

ToggleView ==
    \E na \in Toggle :
        Press(na) /\ Finish(na, ToggleViewmode(Ready(na), TargetViewmode[na]))

ShowHelp ==
    /\ Press("show_help")
    /\ Finish("show_help",
              IF db.cur_viewmode = "help" THEN PopOverlay(db)
              ELSE PushOverlay(db, "help"))

ShowDetail ==
    /\ Press("show_detail")
    /\ LET d == Ready("show_detail")
       IN  Finish("show_detail",
                  IF d.cur_viewmode = "detail"
                  THEN [PopOverlay(d) EXCEPT !.detail_field = Null]
                  ELSE IF OnField(d)
                  THEN PushOverlay([d EXCEPT !.detail_field = SelectedCtype(d)],
                                   "detail")
                  ELSE d)

DismissOrClear ==
    /\ Press("dismiss_or_clear")
    /\ Finish("dismiss_or_clear",
              IF db.overlay_stack = <<>> THEN FilterClear(db)
              ELSE [PopOverlay(db)
                    EXCEPT !.detail_field =
                        IF db.cur_viewmode = "detail" THEN Null ELSE @])

(* Toggles static pools in connect mode; does nothing otherwise. *)
FilterStatic ==
    Press("filter_static") /\ Finish("filter_static", Ready("filter_static"))

Quit == Press("quit") /\ Finish("quit", [db EXCEPT !.running = FALSE])

-----------------------------------------------------------------------------
(* The filter keys. *)

StartFilter ==
    /\ Press("filter_start")
    /\ Finish("filter_start", FilterStart(Ready("filter_start")))

AcceptFilter ==
    Press("filter_accept") /\ Finish("filter_accept", FilterAccept(db))

CancelFilter ==
    Press("filter_cancel") /\ Finish("filter_cancel", FilterCancel(db))

ClearFilter ==
    Press("filter_clear") /\ Finish("filter_clear", FilterClear(db))

CycleTarget ==
    /\ Press("filter_cycle_target")
    /\ Finish("filter_cycle_target", FilterCycleTarget(db))

FilterBackspace ==
    /\ Press("filter_backspace")
    /\ Finish("filter_backspace",
              IF db.filter = <<>> THEN db
              ELSE FilterText(db, SubSeq(db.filter, 1, Len(db.filter) - 1)))

AppendSpace ==
    /\ Press("filter_append_space")
    /\ Len(db.filter) < MaxFilter
    /\ Finish("filter_append_space", FilterText(db, Append(db.filter, Space)))

(* ProcessKey types a printable character that has no binding, and then    *)
(* passes DismissStartupHelp no keybind, as good as a passive one.         *)
AppendChar ==
    /\ db.running /\ "filter_append" \in Inputs
    /\ db.cur_mode = "filter"
    /\ Len(db.filter) < MaxFilter
    /\ \E c \in Char \ {Space} :
          Finish("move_up", FilterText(db, Append(db.filter, c)))

-----------------------------------------------------------------------------
(* The headless commands.  Each first ends the startup help, leaving the   *)
(* overlay itself to the handler.                                          *)

Command(cmd) == db.running /\ cmd \in Inputs

(* Slip: the startup help is taken for one the user asked for. *)
StartedShown == db

Started == [db EXCEPT !.startup_help = FALSE]

(* Slip: the filter line stays open under what the command shows. *)
LeaveFilterModeNot(d) == d

LeaveFilterMode(d) == IF d.cur_mode = "filter" THEN FilterCancel(d) ELSE d

(* A command that fails validation changes nothing else: an unknown or     *)
(* context-sensitive view, an unknown ctype or target, an empty navstack.  *)
RejectCommand ==
    /\ \E cmd \in {"Navigate", "SetFilter", "SetView", "GoBack"} :
          Command(cmd) /\ (cmd = "GoBack" => db.navstack = <<>>)
    /\ db' = Started

HeadlessGoBack ==
    /\ Command("GoBack")
    /\ db.navstack # <<>>
    /\ db' = PostAction(navaction_go_back(Started), Started)

HeadlessSetView ==
    /\ Command("SetView")
    /\ \E vm \in ViewArgs \ (ScopeNs \cup {"detail"}) :
          LET d == LeaveFilterMode(Started)
          IN  /\ vm \in IsOverlay => Len(d.overlay_stack) < MaxOverlay
              /\ db' = PostAction(
                    IF vm \in IsOverlay THEN PushOverlay(d, vm)
                    ELSE [PopEveryOverlay(d) EXCEPT !.cur_viewmode = vm], d)

Blank(text) == \A i \in DOMAIN text : text[i] = Space

(* Slip: the list is not rebuilt. *)
FilterClearedStale(d) ==
    [d EXCEPT !.filter = <<>>, !.cur_filtertarget = DefaultFiltertarget]

FilterCleared(d) ==
    BuildLeftItemsReset(
        [d EXCEPT !.filter = <<>>, !.cur_filtertarget = DefaultFiltertarget])

HeadlessSetFilter ==
    /\ Command("SetFilter")
    /\ \E arg \in FilterArgs :
          LET d == LeaveFilterMode(Started)
          IN  db' = PostAction(
                IF Blank(arg.text) THEN FilterCleared(d)
                ELSE FilterAccept(BuildLeftItemsReset(
                        [FilterStart(d) EXCEPT !.filter = arg.text,
                                               !.cur_filtertarget = arg.target])), d)

(* The destination view: the one asked for, or the one shown. *)
NavigateView(vm, c) ==
    /\ vm \notin ScopeNs \cup IsOverlay
    /\ vm \in NeedSsimfile => c \in Ssimfile

(* Slip: without a view argument, the overlay shown is the destination. *)
HeadlessNavigateOverlaid ==
    /\ Command("Navigate")
    /\ \E c \in Ctype :
          LET d == PopEveryOverlay(LeaveFilterMode(Started))
          IN  db' = PostAction(GoToCtype(d, c, db.cur_viewmode), d)
    /\ Len(db'.navstack) <= MaxNav

HeadlessNavigate ==
    /\ Command("Navigate")
    /\ \E c \in Ctype :
          \E vm \in {v \in ViewArgs : NavigateView(v, c)} \cup
                   {IF db.cur_viewmode \in IsOverlay THEN DefaultViewmode
                    ELSE db.cur_viewmode} :
             LET d == PopEveryOverlay(LeaveFilterMode(Started))
             IN  db' = PostAction(GoToCtype(d, c, vm), d)
    /\ Len(db'.navstack) <= MaxNav

(* Also the repaint after SIGWINCH, which reads the new height. *)
SetTermSize ==
    /\ Command("SetTermSize")
    /\ \E h \in TermHei :
          db' = AdjustRight(AdjustLeft([db EXCEPT !.term_hei = h]), SelectedCtype(db))

(* After quit the program has left its loop. *)
Exited == ~db.running /\ UNCHANGED db

-----------------------------------------------------------------------------
Key ==
    \/ MoveUp \/ MoveDown \/ PageUp \/ PageDown \/ GoTop \/ GoBottom
    \/ SwitchPanelLeft \/ SwitchPanelRight \/ GoBack
    \/ FollowRefLeft \/ FollowRefField \/ FollowRefLink \/ FollowRefNothing
    \/ CycleViewmode \/ ToggleView \/ ShowHelp \/ ShowDetail
    \/ DismissOrClear \/ FilterStatic \/ Quit
    \/ StartFilter \/ AcceptFilter \/ CancelFilter \/ ClearFilter
    \/ CycleTarget \/ FilterBackspace \/ AppendSpace \/ AppendChar

Headless ==
    \/ RejectCommand \/ HeadlessGoBack \/ HeadlessSetView
    \/ HeadlessSetFilter \/ HeadlessNavigate \/ SetTermSize

Next == Key \/ Headless \/ Exited

Spec == Init /\ [][Next]_vars
=============================================================================
