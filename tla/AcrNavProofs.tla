---------------------------- MODULE AcrNavProofs ----------------------------
(***************************************************************************)
(* What acr_nav promises, for every schema, every bound and every session. *)
(* A handler is the composition of operators and PostAction: first come    *)
(* facts about the operators alone: the row list, the types of what they   *)
(* return, and what the right panel's operations and PostAction leave      *)
(* alone and establish.  Then, for each inductive invariant, lemmas about  *)
(* the operators and one step for each action:                             *)
(*   Sound      the types, the list, the collapse flags                    *)
(*   Steady     Sound, the overlays, the filter line, the startup help and *)
(*              the cursors                                                *)
(*   InContext  the view and its content fit the row under the cursor      *)
(*   InDetail   a detail overlay is of the ctype under the cursor          *)
(*   BeforeKept what Escape in the filter line restores                    *)
(* The last three build on Steady.                                         *)
(***************************************************************************)
EXTENDS AcrNavProps, FilterSession, FiniteSetTheorems, TLAPS

-----------------------------------------------------------------------------
(***************************************************************************)
(* The row list: ListOf puts each item of a set on exactly one row.        *)
(***************************************************************************)


(* How many elements of S have a lower place than u. *)
Rank(S, place, u) == Cardinality({v \in S : place[v] < place[u]})

(* The elements of a finite set, ordered by an injective place, take every *)
(* rank below its size.  (Distinct elements have distinct ranks, and an    *)
(* injection between finite sets of one size is onto.)                     *)
LEMMA RankOnto ==
    ASSUME NEW S, IsFiniteSet(S), NEW place \in [S -> Nat],
           \A u, v \in S : place[u] = place[v] => u = v,
           NEW k \in 0..(Cardinality(S) - 1)
    PROVE  \E u \in S : Rank(S, place, u) = k
<1> DEFINE below(u) == {v \in S : place[v] < place[u]}
           T == 0..(Cardinality(S) - 1)
           rank == [u \in S |-> Cardinality(below(u))]
<1>1. Cardinality(S) \in Nat
  BY FS_CardinalityType
<1>2. ASSUME NEW u \in S
      PROVE  IsFiniteSet(below(u)) /\ Cardinality(below(u)) \in T
  <2>1. /\ below(u) \in SUBSET S
        /\ below(u) # S
    OBVIOUS
  <2>2. /\ IsFiniteSet(below(u))
        /\ Cardinality(below(u)) <= Cardinality(S)
        /\ Cardinality(below(u)) # Cardinality(S)
    BY <2>1, FS_Subset
  <2>3. Cardinality(below(u)) \in Nat
    BY <2>2, FS_CardinalityType
  <2> QED
    BY <1>1, <2>2, <2>3
<1>3. ASSUME NEW u \in S, NEW v \in S, place[u] < place[v]
      PROVE  rank[u] # rank[v]
  <2>1. /\ below(u) \in SUBSET below(v)
        /\ u \in below(v) /\ u \notin below(u)
    BY <1>3
  <2> QED
    BY <1>2, <2>1, FS_Subset
<1>4. rank \in Injection(S, T)
  <2>1. rank \in [S -> T]
    BY <1>2
  <2>2. ASSUME NEW u \in S, NEW v \in S, u # v
        PROVE  rank[u] # rank[v]
    <3>1. place[u] < place[v] \/ place[v] < place[u]
      BY <2>2
    <3> QED
      BY <1>3, <3>1
  <2> QED
    BY <2>1, <2>2 DEF Injection, IsInjective
<1>5. IsFiniteSet(T) /\ Cardinality(T) = Cardinality(S)
  BY <1>1, FS_Interval
<1>6. rank \in Surjection(S, T)
  BY <1>4, <1>5, FS_Injection
<1> QED
  BY <1>6 DEF Surjection, Rank

LEMMA ItemFinite == IsFiniteSet(Item)
  BY SchemaAssumption, FS_Union DEF Item

(* Row i of the list holds the item with i - 1 listed items above it.      *)
LEMMA ListOfRow ==
    ASSUME NEW items \in SUBSET Item, NEW i \in 1..Cardinality(items)
    PROVE  ListOf(items)[i] \in items /\ Above(items, ListOf(items)[i]) = i - 1
<1>1. IsFiniteSet(items) /\ Cardinality(items) \in Nat
  BY ItemFinite, FS_Subset, FS_CardinalityType
<1> DEFINE place == [u \in items |-> Pos[u]]
<1>2. place \in [items -> Nat] /\ \A u, v \in items : place[u] = place[v] => u = v
  BY SchemaAssumption
<1>3. i - 1 \in 0..(Cardinality(items) - 1)
  BY <1>1
<1>4. \A u \in items : Rank(items, place, u) = Above(items, u)
  <2>1. \A u \in items : {v \in items : place[v] < place[u]}
                            = {y \in items : Pos[y] < Pos[u]}
    OBVIOUS
  <2> QED
    BY <2>1 DEF Rank, Above
<1> HIDE DEF place
<1>5. PICK u \in items : Rank(items, place, u) = i - 1
  BY <1>1, <1>2, <1>3, RankOnto
<1>6. Above(items, u) = i - 1
  BY <1>4, <1>5
<1> QED
  BY <1>6 DEF ListOf

(* The list is a sequence of as many rows as there are items.              *)
LEMMA ListOfType ==
    ASSUME NEW items \in SUBSET Item
    PROVE  /\ ListOf(items) \in Seq(Item)
           /\ Len(ListOf(items)) = Cardinality(items)
<1>1. Cardinality(items) \in Nat
  BY ItemFinite, FS_Subset, FS_CardinalityType
<1>2. \A i \in 1..Cardinality(items) : ListOf(items)[i] \in Item
  BY ListOfRow
<1> QED
  BY <1>1, <1>2 DEF ListOf

(* No two items of a set have as many items of it above them.              *)
LEMMA AboveInjective ==
    ASSUME NEW items \in SUBSET Item, NEW u \in items, NEW v \in items,
           Above(items, u) = Above(items, v)
    PROVE  u = v
<1> DEFINE below(x) == {y \in items : Pos[y] < Pos[x]}
<1>1. IsFiniteSet(items)
  BY ItemFinite, FS_Subset
<1>2. ASSUME NEW x \in items, NEW z \in items, Pos[x] < Pos[z]
      PROVE  Above(items, x) # Above(items, z)
  <2>1. \A y \in items : Pos[y] \in Nat
    BY SchemaAssumption
  <2>2. below(x) \in SUBSET below(z) /\ x \in below(z) /\ x \notin below(x)
    BY <1>2, <2>1
  <2>3. IsFiniteSet(below(z))
    BY <1>1, FS_Subset
  <2> QED
    BY <2>2, <2>3, FS_Subset DEF Above
<1>3. ~(Pos[u] < Pos[v]) /\ ~(Pos[v] < Pos[u])
  BY <1>2
<1> QED
  BY <1>3, SchemaAssumption

(* Every item of the set has a row, and only one.                          *)
LEMMA ListOfRows ==
    ASSUME NEW items \in SUBSET Item
    PROVE  /\ \A x \in items : \E i \in 1..Cardinality(items) : ListOf(items)[i] = x
           /\ \A i, j \in 1..Cardinality(items) :
                 ListOf(items)[i] = ListOf(items)[j] => i = j
<1>1. IsFiniteSet(items) /\ Cardinality(items) \in Nat
  BY ItemFinite, FS_Subset, FS_CardinalityType
<1>2. ASSUME NEW x \in items
      PROVE  \E i \in 1..Cardinality(items) : ListOf(items)[i] = x
  <2> DEFINE below == {y \in items : Pos[y] < Pos[x]}
  <2>1. below \in SUBSET items /\ x \notin below
    BY SchemaAssumption
  <2>2. IsFiniteSet(below) /\ Cardinality(below) <= Cardinality(items)
        /\ Cardinality(below) # Cardinality(items) /\ Cardinality(below) \in Nat
    BY <1>1, <2>1, FS_Subset, FS_CardinalityType
  <2>3. Above(items, x) = Cardinality(below)
    BY DEF Above
  <2> HIDE DEF below
  <2>4. Above(items, x) + 1 \in 1..Cardinality(items)
    BY <1>1, <2>2, <2>3
  <2> DEFINE i == Above(items, x) + 1
  <2>5. ListOf(items)[i] \in items /\ Above(items, ListOf(items)[i]) = Above(items, x)
    BY <2>2, <2>3, <2>4, ListOfRow
  <2>6. ListOf(items)[i] = x
    BY <2>5, AboveInjective
  <2> QED
    BY <2>4, <2>6
<1>3. ASSUME NEW i \in 1..Cardinality(items), NEW j \in 1..Cardinality(items),
             ListOf(items)[i] = ListOf(items)[j]
      PROVE  i = j
  <2>1. Above(items, ListOf(items)[i]) = i - 1 /\ Above(items, ListOf(items)[j]) = j - 1
    BY ListOfRow
  <2> QED
    BY <1>3, <2>1
<1> QED
  BY <1>2, <1>3

(* What BuildLeftItems lists is a list of rows of the schema.              *)
LEMMA VisibleItemsType ==
    ASSUME NEW filter, NEW target, NEW collapsed
    PROVE  VisibleItems(filter, target, collapsed) \in Seq(Item)
<1>1. MatchingNs(filter, target) \subseteq Ns /\ Hits(filter, target) \subseteq Ctype
  BY SchemaAssumption DEF MatchingNs, Hits
<1> QED
  BY <1>1, ListOfType DEF VisibleItems, Item

(* The rows BuildLeftItems lists are the matching namespaces and the       *)
(* matches of those that are not collapsed, each once.                     *)
LEMMA VisibleItemsRows ==
    ASSUME NEW filter, NEW target, NEW collapsed
    PROVE  LET rows  == VisibleItems(filter, target, collapsed)
               items == MatchingNs(filter, target)
                        \cup {c \in Hits(filter, target) : NsOf[c] \notin collapsed}
           IN  /\ \A i \in 1..Len(rows) : rows[i] \in items
               /\ \A x \in items : \E i \in 1..Len(rows) : rows[i] = x
               /\ \A i, j \in 1..Len(rows) : rows[i] = rows[j] => i = j
<1> DEFINE items == MatchingNs(filter, target)
                    \cup {c \in Hits(filter, target) : NsOf[c] \notin collapsed}
<1>1. MatchingNs(filter, target) \subseteq Ns /\ Hits(filter, target) \subseteq Ctype
  BY SchemaAssumption DEF MatchingNs, Hits
<1>2. items \in SUBSET Item
  BY <1>1 DEF Item
<1>3. VisibleItems(filter, target, collapsed) = ListOf(items)
  BY DEF VisibleItems
<1> HIDE DEF items
<1>4. Len(ListOf(items)) = Cardinality(items)
  BY <1>2, ListOfType
<1>5. \A i \in 1..Cardinality(items) : ListOf(items)[i] \in items
  BY <1>2, ListOfRow
<1> QED
  BY <1>2, <1>3, <1>4, <1>5, ListOfRows DEF items

(* The smallest of a non-empty set of row numbers exists.                  *)
LEMMA LeastRow ==
    ASSUME NEW n \in Nat, NEW rows \in SUBSET (1..n), rows # {}
    PROVE  \E i \in rows : \A j \in rows : i <= j
<1>1. IsFiniteSet(rows)
  <2>1. IsFiniteSet(1..n)
    BY FS_Interval
  <2> QED
    BY <2>1, FS_Subset
<1>2. Cardinality(rows) \in Nat /\ Cardinality(rows) # 0
  BY <1>1, FS_CardinalityType, FS_EmptySet
<1> DEFINE place == [i \in rows |-> i]
<1>3. place \in [rows -> Nat] /\ \A u, v \in rows : place[u] = place[v] => u = v
  OBVIOUS
<1>4. 0 \in 0..(Cardinality(rows) - 1)
  BY <1>2
<1>5. \A i \in rows : Rank(rows, place, i) = Cardinality({j \in rows : j < i})
  <2>1. \A i \in rows : {j \in rows : place[j] < place[i]} = {j \in rows : j < i}
    OBVIOUS
  <2> QED
    BY <2>1 DEF Rank
<1> HIDE DEF place
<1>6. PICK i \in rows : Rank(rows, place, i) = 0
  BY <1>1, <1>3, <1>4, RankOnto
<1>7. {j \in rows : j < i} = {}
  <2>1. {j \in rows : j < i} \in SUBSET rows
    OBVIOUS
  <2>2. IsFiniteSet({j \in rows : j < i}) /\ Cardinality({j \in rows : j < i}) = 0
    BY <1>1, <1>5, <1>6, <2>1, FS_Subset
  <2> QED
    BY <2>2, FS_EmptySet
<1>8. \A j \in rows : i <= j
  BY <1>7
<1> QED
  BY <1>8

-----------------------------------------------------------------------------
(***************************************************************************)
(* Type correctness of acr_nav for every schema: each operation of the     *)
(* panels takes a database record to a database record, so every handler   *)
(* does.                                                                   *)
(***************************************************************************)


-----------------------------------------------------------------------------
(* What the operators that only look at the record return.                 *)

LEMMA DefaultsType ==
    /\ <<>> \in Seq(Char)
    /\ DefaultFiltertarget \in Filtertarget
    /\ DefaultViewmode \in Viewmode
BY DEF DefaultFiltertarget, Filtertarget, DefaultViewmode, Viewmode

LEMMA SelectionType ==
    ASSUME NEW d \in State
    PROVE  /\ SelectedItem(d) \in Item \cup {Null}
           /\ SelectedCtype(d) \in Ctype \cup {Null}
           /\ SelectedNs(d) \in Ns \cup {Null}
<1>1. d.left_item \in Seq(Item) /\ d.left_row \in Nat
  BY DEF State
<1>2. SelectedItem(d) \in Item \cup {Null}
  BY <1>1 DEF SelectedItem
<1> QED
  BY <1>2, SchemaAssumption DEF SelectedCtype, SelectedNs

LEMMA ScopeType ==
    ASSUME NEW d \in State, NEW sel_ct \in Ctype \cup {Null}
    PROVE  /\ Scope(d, sel_ct) \in Item \cup {Null}
           /\ d.cur_viewmode \in ScopeNs => Scope(d, sel_ct) \in Ns \cup {Null}
BY SelectionType, SchemaAssumption DEF Scope, Item

LEMMA FieldListType ==
    ASSUME NEW d \in State, NEW sel_ct \in Ctype \cup {Null}
    PROVE  FieldList(d, sel_ct) \in Seq(Ctype)
BY SchemaAssumption, ReferenceAssumption DEF FieldList

LEMMA LinesType ==
    ASSUME NEW d \in State, d.cur_viewmode \in ContentView
    PROVE  /\ Lines(d) \in Seq(SUBSET Link)
           /\ \A i \in DOMAIN Lines(d) : \A l \in Lines(d)[i] :
                 l.to \in IF d.cur_viewmode = "nsdep" THEN Ns ELSE Ctype
<1>1. d.shown[d.cur_viewmode] \in Item \cup {Null}
  BY DEF State
<1>2. CASE d.shown[d.cur_viewmode] = Null
  <2>1. Lines(d) = <<>>
    BY <1>2 DEF Lines
  <2> QED
    BY <2>1
<1>3. CASE d.shown[d.cur_viewmode] \in Item /\ d.shown[d.cur_viewmode] # Null
  BY <1>3, ContentAssumption DEF Lines
<1> QED
  BY <1>1, <1>2, <1>3

LEMMA RightPanelItemCountType ==
    ASSUME NEW d \in State, NEW sel_ct \in Ctype \cup {Null}
    PROVE  RightPanelItemCount(d, sel_ct) \in Nat
<1>1. d.cur_viewmode \in HasFields \cup IsOverlay \cup ContentView
  BY DEF State, Viewmode, HasFields, IsOverlay, ContentView, ScopeNs
<1>2. CASE d.cur_viewmode \in HasFields
  <2>1. d.cur_viewmode \notin IsOverlay \cup ContentView
    BY <1>2 DEF HasFields, IsOverlay, ContentView, ScopeNs
  <2>2. Len(FieldList(d, sel_ct)) \in Nat
    BY FieldListType
  <2> QED
    BY <1>2, <2>1, <2>2 DEF RightPanelItemCount
<1>3. CASE d.cur_viewmode \in IsOverlay
  BY <1>3, ContentAssumption
     DEF RightPanelItemCount, HasFields, IsOverlay
<1>4. CASE d.cur_viewmode \in ContentView
  <2>1. d.cur_viewmode \notin HasFields \cup IsOverlay
    BY <1>4 DEF HasFields, IsOverlay, ContentView, ScopeNs
  <2> QED
    BY <1>4, <2>1, LinesType DEF RightPanelItemCount
<1> QED
  BY <1>1, <1>2, <1>3, <1>4

LEMMA RowsType ==
    ASSUME NEW d \in State
    PROVE  VisibleRows(d) \in Nat /\ DataRows(d) \in Nat
BY DEF State, VisibleRows, DataRows, Greatest

LEMMA AdjustedType ==
    ASSUME NEW row \in Nat, NEW scroll \in Nat, NEW n \in Nat, NEW visible \in Nat
    PROVE  /\ AdjustedRow(row, n) \in Nat
           /\ AdjustedScroll(row, scroll, n, visible) \in Nat
BY DEF AdjustedRow, AdjustedScroll, LastRow, Least, Greatest

-----------------------------------------------------------------------------
(* The operations of the left panel. *)

(* Both cursors take any row number. *)
LEMMA CursorType ==
    ASSUME NEW d \in State, NEW row \in Nat, NEW scroll \in Nat
    PROVE  /\ [d EXCEPT !.left_row = row, !.left_scroll = scroll] \in State
           /\ [d EXCEPT !.right_row = row, !.right_scroll = scroll] \in State
<1>1. [d EXCEPT !.left_row = row, !.left_scroll = scroll] \in State
  BY DEF State
<1>2. [d EXCEPT !.right_row = row, !.right_scroll = scroll] \in State
  BY DEF State
<1> QED
  BY <1>1, <1>2

LEMMA SelectItemType ==
    ASSUME NEW d \in State, NEW x
    PROVE  SelectItem(d, x) \in State
<1>1. CASE x \notin Listed(d)
  BY <1>1 DEF SelectItem
<1>2. CASE x \in Listed(d)
  <2>1. d.left_item \in Seq(Item)
    BY DEF State
  <2>2. (CHOOSE i \in 1..Len(d.left_item) : d.left_item[i] = x)
           \in 1..Len(d.left_item)
    BY <1>2 DEF Listed
  <2> DEFINE row == (CHOOSE i \in 1..Len(d.left_item) : d.left_item[i] = x) - 1
  <2>3. row \in Nat
    BY <2>1, <2>2
  <2>4. SelectItem(d, x) = [d EXCEPT !.left_row = row]
    BY <1>2 DEF SelectItem
  <2> HIDE DEF row
  <2> QED
    BY <2>3, <2>4 DEF State
<1> QED
  BY <1>1, <1>2

LEMMA BuildLeftItemsType ==
    ASSUME NEW d \in State
    PROVE  BuildLeftItems(d) \in State /\ BuildLeftItemsReset(d) \in State
<1>1. MatchingNs(d.filter, d.cur_filtertarget) \in SUBSET Ns
  BY SchemaAssumption DEF MatchingNs, Hits
<1>2. VisibleItems(d.filter, d.cur_filtertarget, d.collapsed) \in Seq(Item)
  BY VisibleItemsType
<1>3. BuildLeftItems(d) \in State
  BY <1>1, <1>2 DEF BuildLeftItems, State
<1> QED
  BY <1>3, CursorType DEF BuildLeftItemsReset

LEMMA RecollapseAutoExpandedType ==
    ASSUME NEW d \in State
    PROVE  RecollapseAutoExpanded(d) \in State
BY DEF RecollapseAutoExpanded, State

LEMMA SwitchToBrowseType ==
    ASSUME NEW d \in State
    PROVE  SwitchToBrowse(d) \in State
BY DEF SwitchToBrowse, State, Navmode

LEMMA RevealCtypeType ==
    ASSUME NEW d \in State, NEW c \in Ctype
    PROVE  RevealCtype(d, c) \in State
<1> DEFINE e == [d EXCEPT !.collapsed = d.collapsed \ {NsOf[c]},
                          !.filter = <<>>,
                          !.cur_filtertarget = DefaultFiltertarget]
<1>1. e \in State
  BY DefaultsType DEF State
<1>2. RevealCtype(d, c) = SelectItem(BuildLeftItems(SwitchToBrowse(e)), c)
  BY DEF RevealCtype
<1> HIDE DEF e
<1> QED
  BY <1>1, <1>2, SwitchToBrowseType, BuildLeftItemsType, SelectItemType

LEMMA ToggleCollapsedType ==
    ASSUME NEW d \in State, NEW n \in Ns
    PROVE  ToggleCollapsed(d, n) \in State
<1>1. [d EXCEPT !.collapsed = d.collapsed \ {n}] \in State
  BY DEF State
<1>2. [d EXCEPT !.collapsed = d.collapsed \cup {n},
                !.auto_expanded = d.auto_expanded \ {n}] \in State
  BY DEF State
<1> QED
  BY <1>1, <1>2, BuildLeftItemsType DEF ToggleCollapsed

LEMMA FilterStartType ==
    ASSUME NEW d \in State
    PROVE  FilterStart(d) \in State
<1> DEFINE e == [d EXCEPT !.pre_filter = [text   |-> d.filter,
                                          target |-> d.cur_filtertarget,
                                          row    |-> d.left_row,
                                          scroll |-> d.left_scroll],
                          !.cur_mode = "filter",
                          !.filter = <<>>,
                          !.cur_filtertarget = DefaultFiltertarget]
<1>1. e \in State
  BY DefaultsType DEF State, PreFilter, Navmode
<1>2. FilterStart(d) = [BuildLeftItemsReset(e) EXCEPT !.cur_panel = "ctype_list"]
  BY DEF FilterStart
<1> HIDE DEF e
<1>3. BuildLeftItemsReset(e) \in State
  BY <1>1, BuildLeftItemsType
<1> QED
  BY <1>2, <1>3 DEF State, Panel

(* Escape finds a saved target: the filter line was opened before it.      *)
LEMMA FilterCancelType ==
    ASSUME NEW d \in State, d.pre_filter.target # Null
    PROVE  FilterCancel(d) \in State
<1> DEFINE e == [SwitchToBrowse(d) EXCEPT !.filter = d.pre_filter.text,
                                          !.cur_filtertarget = d.pre_filter.target]
<1>1. SwitchToBrowse(d) \in State
  BY SwitchToBrowseType
<1>2. d.pre_filter.text \in Seq(Char) /\ d.pre_filter.target \in Filtertarget
  BY DEF State, PreFilter
<1>3. e \in State
  BY <1>1, <1>2 DEF State
<1>4. FilterCancel(d) = [BuildLeftItems(e) EXCEPT !.left_row = d.pre_filter.row,
                                                  !.left_scroll = d.pre_filter.scroll]
  BY DEF FilterCancel
<1> HIDE DEF e
<1>5. BuildLeftItems(e) \in State
  BY <1>3, BuildLeftItemsType
<1>6. d.pre_filter.row \in Nat /\ d.pre_filter.scroll \in Nat
  BY DEF State, PreFilter
<1> QED
  BY <1>4, <1>5, <1>6, CursorType

LEMMA FilterClearType ==
    ASSUME NEW d \in State
    PROVE  FilterClear(d) \in State
<1>1. [d EXCEPT !.filter = <<>>] \in State
  BY DefaultsType DEF State
<1> QED
  BY <1>1, RecollapseAutoExpandedType, BuildLeftItemsType DEF FilterClear

LEMMA FilterTextType ==
    ASSUME NEW d \in State, NEW text \in Seq(Char)
    PROVE  FilterText(d, text) \in State
<1>1. [d EXCEPT !.filter = text] \in State
  BY DEF State
<1> QED
  BY <1>1, BuildLeftItemsType DEF FilterText

LEMMA FilterCycleTargetType ==
    ASSUME NEW d \in State
    PROVE  FilterCycleTarget(d) \in State
<1> DEFINE e == [d EXCEPT !.cur_filtertarget = NextFiltertarget[d.cur_filtertarget]]
<1>1. NextFiltertarget[d.cur_filtertarget] \in Filtertarget
  BY DEF State, Filtertarget, NextFiltertarget
<1>2. e \in State
  BY <1>1 DEF State
<1> QED
  BY <1>2, BuildLeftItemsType DEF FilterCycleTarget

LEMMA SelectFirstCtypeType ==
    ASSUME NEW d \in State
    PROVE  SelectFirstCtype(d) \in State
<1> DEFINE rows == {i \in 1..Len(d.left_item) : d.left_item[i] \in Ctype}
<1>1. CASE rows = {}
  BY <1>1 DEF SelectFirstCtype
<1>2. CASE rows # {}
  <2> DEFINE row == CHOOSE i \in rows : \A j \in rows : i <= j
  <2>1. Len(d.left_item) \in Nat
    BY DEF State
  <2>2. \E i \in rows : \A j \in rows : i <= j
    BY <1>2, <2>1, LeastRow
  <2>3. row \in rows
    BY <2>2
  <2>4. row - 1 \in Nat
    BY <2>1, <2>3
  <2>5. SelectFirstCtype(d) = [d EXCEPT !.left_row = row - 1]
    BY <1>2 DEF SelectFirstCtype
  <2> HIDE DEF row
  <2> QED
    BY <2>4, <2>5 DEF State
<1> QED
  BY <1>1, <1>2

LEMMA FilterAcceptType ==
    ASSUME NEW d \in State
    PROVE  FilterAccept(d) \in State
<1>1. ASSUME NEW e \in State
      PROVE  ExpandMatching(e) \in State
  BY DEF ExpandMatching, State
<1>2. SelectFirstCtype(BuildLeftItemsReset(ExpandMatching(RecollapseAutoExpanded(d))))
         \in State
  BY <1>1, SelectFirstCtypeType, RecollapseAutoExpandedType, BuildLeftItemsType
<1> QED
  BY <1>2, SwitchToBrowseType DEF FilterAccept

-----------------------------------------------------------------------------
(* The operations of the right panel. *)

LEMMA OverlayEntryType ==
    ASSUME NEW d \in State, NEW i \in 1..Len(d.overlay_stack)
    PROVE  d.overlay_stack[i] \in OverlayEntry
BY DEF State

LEMMA PopOverlayType ==
    ASSUME NEW d \in State
    PROVE  PopOverlay(d) \in State
<1> DEFINE n == Len(d.overlay_stack)
<1>1. CASE d.overlay_stack = <<>>
  BY <1>1 DEF PopOverlay
<1>2. CASE d.overlay_stack # <<>>
  <2>1. d.overlay_stack \in Seq(OverlayEntry)
    BY DEF State
  <2>2. /\ d.overlay_stack[n] \in OverlayEntry
        /\ SubSeq(d.overlay_stack, 1, n - 1) \in Seq(OverlayEntry)
    BY <1>2, <2>1
  <2> QED
    BY <1>2, <2>2 DEF PopOverlay, State, OverlayEntry
<1> QED
  BY <1>1, <1>2

LEMMA PushOverlayType ==
    ASSUME NEW d \in State, NEW target \in Viewmode
    PROVE  PushOverlay(d, target) \in State
<1> DEFINE entry == [viewmode |-> d.cur_viewmode,
                     row      |-> d.right_row,
                     scroll   |-> d.right_scroll]
<1>1. entry \in OverlayEntry
  BY DEF State, OverlayEntry
<1>2. Append(d.overlay_stack, entry) \in Seq(OverlayEntry)
  BY <1>1 DEF State
<1> HIDE DEF entry
<1>3. [d EXCEPT !.overlay_stack = Append(d.overlay_stack, entry),
                !.cur_viewmode = target] \in State
  BY <1>2 DEF State
<1> QED
  BY <1>3 DEF PushOverlay, entry

(* The view with no overlay over it. *)
LEMMA BaseViewType ==
    ASSUME NEW d \in State, NEW vm \in Viewmode, NEW row \in Nat, NEW scroll \in Nat
    PROVE  [d EXCEPT !.cur_viewmode = vm, !.right_row = row,
                     !.right_scroll = scroll, !.overlay_stack = <<>>] \in State
<1> DEFINE none == <<>>
<1>1. none \in Seq(OverlayEntry)
  OBVIOUS
<1> HIDE DEF none
<1>2. [d EXCEPT !.cur_viewmode = vm, !.right_row = row,
                !.right_scroll = scroll, !.overlay_stack = none] \in State
  BY <1>1 DEF State
<1> QED
  BY <1>2 DEF none

LEMMA PopEveryOverlayType ==
    ASSUME NEW d \in State
    PROVE  PopEveryOverlay(d) \in State
<1>1. CASE d.overlay_stack = <<>>
  BY <1>1 DEF PopEveryOverlay
<1>2. CASE d.overlay_stack # <<>>
  <2> DEFINE entry == d.overlay_stack[1]
  <2>1. entry \in OverlayEntry
    BY <1>2, OverlayEntryType DEF State
  <2>2. entry.viewmode \in Viewmode /\ entry.row \in Nat /\ entry.scroll \in Nat
    BY <2>1 DEF OverlayEntry
  <2>3. PopEveryOverlay(d) = [d EXCEPT !.cur_viewmode  = entry.viewmode,
                                       !.right_row     = entry.row,
                                       !.right_scroll  = entry.scroll,
                                       !.overlay_stack = <<>>]
    BY <1>2 DEF PopEveryOverlay
  <2> HIDE DEF entry
  <2>4. [d EXCEPT !.cur_viewmode = entry.viewmode, !.right_row = entry.row,
                  !.right_scroll = entry.scroll, !.overlay_stack = <<>>] \in State
    BY <2>2, BaseViewType
  <2> QED
    BY <2>3, <2>4
<1> QED
  BY <1>1, <1>2

LEMMA DismissStartupHelpType ==
    ASSUME NEW d \in State, NEW na
    PROVE  DismissStartupHelp(d, na) \in State
<1>1. [d EXCEPT !.startup_help = FALSE] \in State
  BY DEF State
<1> QED
  BY <1>1, PopOverlayType DEF DismissStartupHelp

LEMMA LoadContentType ==
    ASSUME NEW d \in State, NEW v \in ContentView, NEW x \in Item,
           v \in ScopeNs => x \in Ns
    PROVE  LoadContent(d, v, x) \in State
<1> DEFINE pending == d.preview_nav_pending
           match   == /\ v = "preview" /\ pending # Null
                      /\ pending.to = x /\ pending.at < Len(Content[v][x])
           ns      == IF v \in ScopeNs THEN x ELSE d.nsdep_ns
           left    == IF v \in {"preview", "inspect"} THEN Null ELSE pending
           row     == IF match THEN pending.at ELSE d.right_row
           shown   == [d.shown EXCEPT ![v] = x]
<1>1. pending \in Link \cup {Null} /\ d.nsdep_ns \in Ns \cup {Null} /\ d.right_row \in Nat
  BY DEF State
<1>2. ns \in Ns \cup {Null} /\ left \in Link \cup {Null}
  BY <1>1
<1>3. row \in Nat
  <2>1. CASE match
    <3>1. pending \in Link
      BY <1>1, <2>1
    <3> QED
      BY <2>1, <3>1 DEF Link
  <2>2. CASE ~match
    BY <1>1, <2>2
  <2> QED
    BY <2>1, <2>2
<1>4. shown \in [ContentView -> Item \cup {Null}]
  BY DEF State
<1>5. LoadContent(d, v, x) = [d EXCEPT !.shown = shown,
                                       !.nsdep_ns = ns,
                                       !.preview_nav_pending = left,
                                       !.right_row = row]
  BY DEF LoadContent, State
<1> HIDE DEF pending, match, ns, left, row, shown
<1>6. [d EXCEPT !.shown = shown, !.nsdep_ns = ns,
                !.preview_nav_pending = left, !.right_row = row] \in State
  BY <1>2, <1>3, <1>4 DEF State
<1> QED
  BY <1>5, <1>6

LEMMA EnsureContentType ==
    ASSUME NEW d \in State, NEW v \in Viewmode, NEW x \in Item \cup {Null},
           v \in ScopeNs => x \in Ns \cup {Null}
    PROVE  EnsureContent(d, v, x) \in State
BY LoadContentType DEF EnsureContent

LEMMA EnsureRightPanelType ==
    ASSUME NEW d \in State, NEW sel_ct \in Ctype \cup {Null}
    PROVE  EnsureRightPanel(d, sel_ct) \in State
<1>1. d.cur_viewmode \in Viewmode
  BY DEF State
<1> QED
  BY <1>1, ScopeType, EnsureContentType DEF EnsureRightPanel

(* Clearing forgets what the views hold; the unnamed namespace stays.      *)
LEMMA ClearContentCachesType ==
    ASSUME NEW d \in State
    PROVE  ClearContentCaches(d) \in State
<1>1. [v \in ContentView |-> IF d.shown[v] = EmptyNs THEN EmptyNs ELSE Null]
         \in [ContentView -> Item \cup {Null}]
  BY DEF State
<1> QED
  BY <1>1 DEF ClearContentCaches, State

LEMMA AdjustLeftType ==
    ASSUME NEW d \in State
    PROVE  AdjustLeft(d) \in State
<1> DEFINE row    == AdjustedRow(d.left_row, left_item_N(d))
           scroll == AdjustedScroll(row, d.left_scroll, left_item_N(d), DataRows(d))
<1>1. d.left_row \in Nat /\ d.left_scroll \in Nat /\ left_item_N(d) \in Nat
  BY DEF State, left_item_N
<1>2. row \in Nat /\ scroll \in Nat
  BY <1>1, RowsType, AdjustedType
<1>3. AdjustLeft(d) = [d EXCEPT !.left_row = row, !.left_scroll = scroll]
  BY DEF AdjustLeft
<1> HIDE DEF row, scroll
<1> QED
  BY <1>2, <1>3, CursorType

LEMMA AdjustRightType ==
    ASSUME NEW d \in State, NEW sel_ct \in Ctype \cup {Null}
    PROVE  AdjustRight(d, sel_ct) \in State
<1> DEFINE e      == EnsureRightPanel(d, sel_ct)
           n      == RightPanelItemCount(e, sel_ct)
           row    == AdjustedRow(e.right_row, n)
           scroll == AdjustedScroll(row, e.right_scroll, n, DataRows(e))
<1>1. e \in State
  BY EnsureRightPanelType
<1>2. AdjustRight(d, sel_ct) = [e EXCEPT !.right_row = row, !.right_scroll = scroll]
  BY DEF AdjustRight
<1> HIDE DEF e
<1>3. n \in Nat /\ e.right_row \in Nat /\ e.right_scroll \in Nat
  BY <1>1, RightPanelItemCountType DEF State
<1>4. row \in Nat /\ scroll \in Nat
  BY <1>1, <1>3, RowsType, AdjustedType
<1> HIDE DEF n, row, scroll
<1> QED
  <2>1. [e EXCEPT !.right_row = row, !.right_scroll = scroll] \in State
    BY <1>1, <1>4, CursorType
  <2> QED
    BY <1>2, <2>1

LEMMA DeactivateNsdepType ==
    ASSUME NEW d \in State
    PROVE  DeactivateNsdep(d) \in State
BY DefaultsType DEF DeactivateNsdep, State

-----------------------------------------------------------------------------
(* The stages of PopOverlayOnCtypeChange. *)

Stage == [db : State, changed : BOOLEAN]

LEMMA LeaveOrReloadNsdepType ==
    ASSUME NEW d \in State
    PROVE  LeaveOrReloadNsdep(d) \in Stage
<1>1. CASE d.cur_viewmode \in ScopeNs /\ SelectedCtype(d) # Null
  BY <1>1, DeactivateNsdepType DEF LeaveOrReloadNsdep, Stage
<1>2. CASE /\ ~(d.cur_viewmode \in ScopeNs /\ SelectedCtype(d) # Null)
           /\ d.cur_viewmode \in ScopeNs
           /\ SelectedNs(d) \notin {Null, d.nsdep_ns}
  <2> DEFINE e == EnsureContent(d, d.cur_viewmode, SelectedNs(d))
  <2>1. SelectedNs(d) \in Ns
    BY <1>2, SelectionType
  <2>2. e \in State
    BY <2>1, EnsureContentType DEF State, Item
  <2>3. LeaveOrReloadNsdep(d)
          = [db |-> [e EXCEPT !.nsdep_ns = SelectedNs(d)], changed |-> TRUE]
    BY <1>2 DEF LeaveOrReloadNsdep
  <2> HIDE DEF e
  <2>4. [e EXCEPT !.nsdep_ns = SelectedNs(d)] \in State
    BY <2>1, <2>2 DEF State
  <2> QED
    BY <2>3, <2>4 DEF Stage
<1>3. CASE /\ ~(d.cur_viewmode \in ScopeNs /\ SelectedCtype(d) # Null)
           /\ ~(/\ d.cur_viewmode \in ScopeNs
                /\ SelectedNs(d) \notin {Null, d.nsdep_ns})
  BY <1>3 DEF LeaveOrReloadNsdep, Stage
<1> QED
  BY <1>1, <1>2, <1>3

LEMMA RestoreBaseViewType ==
    ASSUME NEW r \in Stage, NEW prev_sel_ct
    PROVE  RestoreBaseView(r, prev_sel_ct) \in Stage
<1> DEFINE base == [r.db EXCEPT !.overlay_stack = <<>>,
                                !.cur_viewmode  = r.db.overlay_stack[1].viewmode,
                                !.detail_field  = Null]
<1>1. r.db \in State
  BY DEF Stage
<1>2. CASE r.db.overlay_stack = <<>>
  BY <1>2 DEF RestoreBaseView
<1>3. CASE r.db.overlay_stack # <<>>
  <2>1. r.db.overlay_stack[1] \in OverlayEntry
    BY <1>1, <1>3, OverlayEntryType DEF State
  <2>2. r.db.overlay_stack[1].viewmode \in Viewmode /\ <<>> \in Seq(OverlayEntry)
    BY <2>1 DEF OverlayEntry
  <2>3. base \in State
    BY <1>1, <2>2 DEF State
  <2> HIDE DEF base
  <2>4. [db |-> DeactivateNsdep(base), changed |-> TRUE] \in Stage
    BY <2>3, DeactivateNsdepType DEF Stage
  <2>5. [r EXCEPT !.db = base] \in Stage
    BY <2>3 DEF Stage
  <2> USE DEF base
  <2> QED
    BY <2>4, <2>5 DEF RestoreBaseView
<1> QED
  BY <1>2, <1>3

LEMMA ActivateNsdepType ==
    ASSUME NEW r \in Stage
    PROVE  ActivateNsdep(r) \in Stage
<1> DEFINE d == r.db
           e == LoadContent(d, "nsdep", SelectedNs(d))
<1>1. d \in State
  BY DEF Stage
<1>2. CASE \/ d.cur_viewmode \in ScopeNs \cup IsOverlay
           \/ SelectedCtype(d) # Null
           \/ SelectedNs(d) = Null
  BY <1>2 DEF ActivateNsdep
<1>3. CASE ~ \/ d.cur_viewmode \in ScopeNs \cup IsOverlay
             \/ SelectedCtype(d) # Null
             \/ SelectedNs(d) = Null
  <2>1. SelectedNs(d) \in Ns
    BY <1>1, <1>3, SelectionType
  <2>2. "nsdep" \in ContentView /\ "nsdep" \in Viewmode
    BY DEF ContentView, ScopeNs, Viewmode
  <2>3. e \in State /\ d.cur_viewmode \in Viewmode
    BY <1>1, <2>1, <2>2, LoadContentType DEF State, Item
  <2>4. ActivateNsdep(r) = [db |-> [e EXCEPT !.startup_help = FALSE,
                                             !.pre_nsdep_viewmode = d.cur_viewmode,
                                             !.cur_viewmode = "nsdep"],
                            changed |-> TRUE]
    BY <1>3 DEF ActivateNsdep
  <2> HIDE DEF d, e
  <2>5. [e EXCEPT !.startup_help = FALSE,
                  !.pre_nsdep_viewmode = d.cur_viewmode,
                  !.cur_viewmode = "nsdep"] \in State
    BY <2>2, <2>3 DEF State
  <2> QED
    BY <2>4, <2>5 DEF Stage
<1> QED
  BY <1>2, <1>3

LEMMA PopOverlayOnCtypeChangeType ==
    ASSUME NEW d \in State, NEW prev_sel_ct
    PROVE  PopOverlayOnCtypeChange(d, prev_sel_ct) \in Stage
BY LeaveOrReloadNsdepType, RestoreBaseViewType, ActivateNsdepType
   DEF PopOverlayOnCtypeChange

LEMMA GraphFindCtypeLineType ==
    ASSUME NEW c \in Ctype, NEW t
    PROVE  GraphFindCtypeLine(c, t) \in Nat \cup {-1}
<1> DEFINE lines == Content["graph"][c]
           hit   == {i \in DOMAIN lines : \E l \in lines[i] : l.to = t}
<1>1. lines \in Seq(SUBSET Link)
  BY ContentAssumption DEF ContentView, Item
<1>2. CASE hit = {}
  BY <1>2 DEF GraphFindCtypeLine
<1>3. CASE hit # {}
  <2>1. DOMAIN lines = 1..Len(lines) /\ Len(lines) \in Nat
    BY <1>1
  <2>2. hit \in SUBSET (1..Len(lines))
    BY <2>1
  <2>3. \E i \in hit : \A j \in hit : i <= j
    BY <1>3, <2>1, <2>2, LeastRow
  <2> DEFINE first == CHOOSE i \in hit : \A j \in hit : i <= j
  <2>4. first \in 1..Len(lines)
    BY <2>2, <2>3
  <2>5. GraphFindCtypeLine(c, t) = first - 1
    BY <1>3 DEF GraphFindCtypeLine
  <2> HIDE DEF first
  <2> QED
    BY <2>1, <2>4, <2>5
<1> QED
  BY <1>2, <1>3

(* What every handler ends with takes a record to a record. *)
LEMMA PostActionType ==
    ASSUME NEW d \in State, NEW snap \in State
    PROVE  PostAction(d, snap) \in State
<1> DEFINE prev    == SelectedCtype(snap)
           r       == PopOverlayOnCtypeChange(d, prev)
           e       == r.db
           sel_ct  == SelectedCtype(e)
           changed == sel_ct # prev \/ r.changed
           cleared == IF changed /\ sel_ct = Null THEN ClearContentCaches(e) ELSE e
           top     == ResetRight(cleared, snap, changed)
           line    == IF /\ Len(e.navstack) >= Len(snap.navstack)
                         /\ e.cur_viewmode = "graph"
                         /\ sel_ct # prev /\ sel_ct # Null /\ prev # Null
                      THEN GraphFindCtypeLine(sel_ct, prev) ELSE -1
           placed  == IF line >= 0 THEN [top EXCEPT !.right_row = line] ELSE top
<1>1. e \in State
  BY PopOverlayOnCtypeChangeType DEF Stage
<1>2. PostAction(d, snap) = AdjustRight(AdjustLeft(placed), sel_ct)
  BY DEF PostAction
<1> HIDE DEF r, e
<1>3. sel_ct \in Ctype \cup {Null}
  BY <1>1, SelectionType
<1>4. cleared \in State
  BY <1>1, ClearContentCachesType
<1> HIDE DEF cleared, changed
<1>5. top \in State
  BY <1>4, CursorType DEF ResetRight
<1>6. line \in Nat \cup {-1}
  BY <1>3, GraphFindCtypeLineType
<1> HIDE DEF top, line, prev, sel_ct
<1>7. placed \in State
  <2>1. CASE line >= 0
    <3>1. line \in Nat
      BY <1>6, <2>1
    <3> QED
      BY <1>5, <2>1, <3>1 DEF State
  <2>2. CASE ~(line >= 0)
    BY <1>5, <2>2
  <2> QED
    BY <2>1, <2>2
<1> HIDE DEF placed
<1> QED
  BY <1>2, <1>3, <1>7, AdjustLeftType, AdjustRightType

LEMMA FinishType ==
    ASSUME NEW na, NEW d \in State, db \in State, Finish(na, d)
    PROVE  db' \in State
BY DismissStartupHelpType, PostActionType DEF Finish

-----------------------------------------------------------------------------
(***************************************************************************)
(* What the invariants of the left panel rest on: every operation of the   *)
(* right panel, PostAction included, leaves alone the list, the filter and *)
(* the history (SameList), so a record that is Sound stays Sound.          *)
(*                                                                         *)
(* TypeOK is not inductive: Escape in the filter line restores the saved   *)
(* filter target, which is NULL until the line is opened once.  Saved says *)
(* that the program cannot be in filter mode, now or by going back, before *)
(* then.                                                                   *)
(***************************************************************************)


Saved(d) ==
    \/ d.pre_filter.target # Null
    \/ /\ d.cur_mode = "browse"
       /\ \A i \in 1..Len(d.navstack) : d.navstack[i].navmode = "browse"

Fresh(d) ==
    /\ d.n_match = MatchingNs(d.filter, d.cur_filtertarget)
    /\ d.left_item = VisibleItems(d.filter, d.cur_filtertarget, d.collapsed)

Open(d) == d.auto_expanded \cap d.collapsed = {}

Sound(d) == d \in State /\ Saved(d) /\ Fresh(d) /\ Open(d)

SameList(d, e) ==
    /\ e.filter = d.filter /\ e.cur_filtertarget = d.cur_filtertarget
    /\ e.collapsed = d.collapsed /\ e.auto_expanded = d.auto_expanded
    /\ e.n_match = d.n_match /\ e.left_item = d.left_item
    /\ e.cur_mode = d.cur_mode /\ e.pre_filter = d.pre_filter
    /\ e.navstack = d.navstack

LEMMA SameListTransitive ==
    ASSUME NEW d, NEW e, NEW f, SameList(d, e), SameList(e, f)
    PROVE  SameList(d, f)
BY DEF SameList

LEMMA SoundCarries ==
    ASSUME NEW d, NEW e, Sound(d), e \in State, SameList(d, e)
    PROVE  Sound(e)
BY DEF Sound, SameList, Saved, Fresh, Open

-----------------------------------------------------------------------------
(* The right panel leaves the list, the filter and the history alone. *)

LEMMA OverlayFrame ==
    ASSUME NEW d \in State, NEW target
    PROVE  /\ SameList(d, PopOverlay(d))
           /\ SameList(d, PushOverlay(d, target))
           /\ SameList(d, PopEveryOverlay(d))
<1>1. SameList(d, PopOverlay(d))
  BY DEF SameList, State, PopOverlay
<1>2. SameList(d, PushOverlay(d, target))
  BY DEF SameList, State, PushOverlay
<1>3. SameList(d, PopEveryOverlay(d))
  BY DEF SameList, State, PopEveryOverlay
<1> QED
  BY <1>1, <1>2, <1>3

LEMMA DismissStartupHelpFrame ==
    ASSUME NEW d \in State, NEW na
    PROVE  SameList(d, DismissStartupHelp(d, na))
<1> DEFINE e == [d EXCEPT !.startup_help = FALSE]
<1>1. e \in State /\ SameList(d, e) /\ SameList(d, d)
  BY DEF State, SameList
<1>2. SameList(d, PopOverlay(e))
  <2> HIDE DEF e
  <2> QED
    BY <1>1, OverlayFrame, SameListTransitive
<1> QED
  BY <1>1, <1>2 DEF DismissStartupHelp

LEMMA ContentFrame ==
    ASSUME NEW d \in State, NEW v, NEW x, NEW sel_ct
    PROVE  /\ SameList(d, LoadContent(d, v, x))
           /\ SameList(d, EnsureContent(d, v, x))
           /\ SameList(d, EnsureRightPanel(d, sel_ct))
           /\ SameList(d, ClearContentCaches(d))
<1>1. \A w, y : SameList(d, LoadContent(d, w, y))
  BY DEF SameList, State, LoadContent
<1>2. SameList(d, d)
  BY DEF SameList
<1>3. \A w, y : SameList(d, EnsureContent(d, w, y))
  BY <1>1, <1>2 DEF EnsureContent
<1>4. SameList(d, ClearContentCaches(d))
  BY DEF SameList, State, ClearContentCaches
<1> QED
  BY <1>1, <1>3, <1>4 DEF EnsureRightPanel

LEMMA AdjustFrame ==
    ASSUME NEW d \in State, NEW sel_ct \in Ctype \cup {Null}
    PROVE  /\ SameList(d, AdjustLeft(d))
           /\ SameList(d, AdjustRight(d, sel_ct))
<1>1. SameList(d, AdjustLeft(d))
  BY DEF SameList, State, AdjustLeft
<1> DEFINE e == EnsureRightPanel(d, sel_ct)
<1>2. e \in State /\ SameList(d, e)
  BY ContentFrame, EnsureRightPanelType
<1>3. SameList(e, AdjustRight(d, sel_ct))
  <2> HIDE DEF e
  <2> QED
    BY <1>2 DEF SameList, State, AdjustRight, e
<1> QED
  BY <1>1, <1>2, <1>3, SameListTransitive

LEMMA PopOverlayOnCtypeChangeFrame ==
    ASSUME NEW d \in State, NEW prev_sel_ct
    PROVE  SameList(d, PopOverlayOnCtypeChange(d, prev_sel_ct).db)
<1>1. ASSUME NEW e \in State PROVE SameList(e, DeactivateNsdep(e))
  BY DEF SameList, State, DeactivateNsdep
<1>2. SameList(d, LeaveOrReloadNsdep(d).db)
  <2> DEFINE e == EnsureContent(d, d.cur_viewmode, SelectedNs(d))
  <2>1. SameList(d, DeactivateNsdep(d)) /\ SameList(d, d)
    BY <1>1 DEF SameList
  <2>2. CASE /\ d.cur_viewmode \in ScopeNs
             /\ SelectedNs(d) \notin {Null, d.nsdep_ns}
    <3>1. SelectedNs(d) \in Ns
      BY <2>2, SelectionType
    <3>2. e \in State /\ SameList(d, e)
      BY <3>1, EnsureContentType, ContentFrame DEF State, Item
    <3>3. SameList(e, [e EXCEPT !.nsdep_ns = SelectedNs(d)])
      <4> HIDE DEF e
      <4> QED
        BY <3>2 DEF State, SameList
    <3>4. SameList(d, [e EXCEPT !.nsdep_ns = SelectedNs(d)])
      BY <3>2, <3>3, SameListTransitive
    <3> QED
      BY <2>1, <2>2, <3>4 DEF LeaveOrReloadNsdep
  <2>3. CASE ~(/\ d.cur_viewmode \in ScopeNs
               /\ SelectedNs(d) \notin {Null, d.nsdep_ns})
    BY <2>1, <2>3 DEF LeaveOrReloadNsdep
  <2> QED
    BY <2>2, <2>3
<1>3. ASSUME NEW r \in Stage
      PROVE  SameList(r.db, RestoreBaseView(r, prev_sel_ct).db)
  <2> DEFINE base == [r.db EXCEPT !.overlay_stack = <<>>,
                                  !.cur_viewmode  = r.db.overlay_stack[1].viewmode,
                                  !.detail_field  = Null]
  <2>1. SameList(r.db, base) /\ SameList(r.db, r.db)
    BY DEF Stage, State, SameList
  <2>2. CASE r.db.overlay_stack = <<>>
    BY <2>1, <2>2 DEF RestoreBaseView
  <2>3. CASE r.db.overlay_stack # <<>>
    <3>1. r.db \in State
      BY DEF Stage
    <3>2. r.db.overlay_stack[1] \in OverlayEntry
      <4> r.db.overlay_stack \in Seq(OverlayEntry)
        BY <3>1 DEF State
      <4> QED
        BY <2>3
    <3>3. r.db.overlay_stack[1].viewmode \in Viewmode /\ <<>> \in Seq(OverlayEntry)
      BY <3>2 DEF OverlayEntry
    <3>4. base \in State
      BY <3>1, <3>3 DEF State
    <3> HIDE DEF base
    <3>5. SameList(r.db, DeactivateNsdep(base))
      BY <1>1, <2>1, <3>4, SameListTransitive
    <3>6. [r EXCEPT !.db = base].db = base
      BY DEF Stage
    <3> USE DEF base
    <3> QED
      BY <2>1, <3>5, <3>6 DEF RestoreBaseView
  <2> QED
    BY <2>2, <2>3
<1>4. ASSUME NEW r \in Stage
      PROVE  SameList(r.db, ActivateNsdep(r).db)
  <2> DEFINE e == LoadContent(r.db, "nsdep", SelectedNs(r.db))
  <2>1. r.db \in State /\ SameList(r.db, r.db)
    BY DEF Stage, SameList
  <2>2. CASE \/ r.db.cur_viewmode \in ScopeNs \cup IsOverlay
             \/ SelectedCtype(r.db) # Null
             \/ SelectedNs(r.db) = Null
    BY <2>1, <2>2 DEF ActivateNsdep
  <2>3. CASE ~ \/ r.db.cur_viewmode \in ScopeNs \cup IsOverlay
               \/ SelectedCtype(r.db) # Null
               \/ SelectedNs(r.db) = Null
    <3>1. SelectedNs(r.db) \in Ns /\ "nsdep" \in ContentView
      BY <2>1, <2>3, SelectionType DEF ContentView, ScopeNs
    <3>2. e \in State /\ SameList(r.db, e)
      BY <2>1, <3>1, LoadContentType, ContentFrame DEF Item
    <3> HIDE DEF e
    <3>3. SameList(e, [e EXCEPT !.startup_help = FALSE,
                                !.pre_nsdep_viewmode = r.db.cur_viewmode,
                                !.cur_viewmode = "nsdep"])
      BY <3>2 DEF State, SameList
    <3> QED
      BY <2>3, <3>2, <3>3, SameListTransitive DEF ActivateNsdep, e
  <2> QED
    BY <2>2, <2>3
<1> DEFINE s == LeaveOrReloadNsdep(d)
           t == RestoreBaseView(s, prev_sel_ct)
<1>5. s \in Stage /\ t \in Stage
  BY LeaveOrReloadNsdepType, RestoreBaseViewType
<1>6. SameList(s.db, t.db) /\ SameList(t.db, ActivateNsdep(t).db)
  BY <1>3, <1>4, <1>5
<1> QED
  BY <1>2, <1>6, SameListTransitive DEF PopOverlayOnCtypeChange

(* What every handler ends with moves cursors and changes views, nothing   *)
(* else.                                                                   *)
LEMMA PostActionFrame ==
    ASSUME NEW d \in State, NEW snap \in State
    PROVE  SameList(d, PostAction(d, snap))
<1> DEFINE prev    == SelectedCtype(snap)
           r       == PopOverlayOnCtypeChange(d, prev)
           e       == r.db
           sel_ct  == SelectedCtype(e)
           changed == sel_ct # prev \/ r.changed
           cleared == IF changed /\ sel_ct = Null THEN ClearContentCaches(e) ELSE e
           top     == ResetRight(cleared, snap, changed)
           line    == IF /\ Len(e.navstack) >= Len(snap.navstack)
                         /\ e.cur_viewmode = "graph"
                         /\ sel_ct # prev /\ sel_ct # Null /\ prev # Null
                      THEN GraphFindCtypeLine(sel_ct, prev) ELSE -1
           placed  == IF line >= 0 THEN [top EXCEPT !.right_row = line] ELSE top
<1>1. e \in State /\ SameList(d, e)
  BY PopOverlayOnCtypeChangeType, PopOverlayOnCtypeChangeFrame DEF Stage
<1>2. PostAction(d, snap) = AdjustRight(AdjustLeft(placed), sel_ct)
  BY DEF PostAction
<1> HIDE DEF r, e
<1>3. sel_ct \in Ctype \cup {Null} /\ prev \in Ctype \cup {Null}
  BY <1>1, SelectionType
<1>4. cleared \in State /\ SameList(e, cleared)
  BY <1>1, ClearContentCachesType, ContentFrame DEF SameList
<1> HIDE DEF cleared, changed
<1>5. top \in State /\ SameList(cleared, top)
  <2>1. top \in State
    BY <1>4, CursorType DEF ResetRight
  <2>2. SameList(cleared, top)
    BY <1>4 DEF ResetRight, State, SameList
  <2> QED
    BY <2>1, <2>2
<1>6. line \in Nat \cup {-1}
  BY <1>3, GraphFindCtypeLineType
<1> HIDE DEF top, line, prev, sel_ct
<1>7. placed \in State /\ SameList(top, placed)
  <2>1. CASE line >= 0
    <3>1. line \in Nat
      BY <1>6, <2>1
    <3> QED
      BY <1>5, <2>1, <3>1 DEF State, SameList
  <2>2. CASE ~(line >= 0)
    BY <1>5, <2>2 DEF SameList
  <2> QED
    BY <2>1, <2>2
<1>8. SameList(d, placed)
  BY <1>1, <1>4, <1>5, <1>7, SameListTransitive
<1> HIDE DEF placed
<1>9. AdjustLeft(placed) \in State
  BY <1>7, AdjustLeftType
<1>10. SameList(placed, AdjustLeft(placed))
  BY <1>3, <1>7, AdjustFrame
<1>11. SameList(AdjustLeft(placed), AdjustRight(AdjustLeft(placed), sel_ct))
  BY <1>3, <1>9, AdjustFrame
<1> QED
  BY <1>2, <1>8, <1>10, <1>11, SameListTransitive

LEMMA PostActionSound ==
    ASSUME NEW d, NEW snap \in State, Sound(d)
    PROVE  Sound(PostAction(d, snap))
<1>1. d \in State
  BY DEF Sound
<1> QED
  BY <1>1, PostActionType, PostActionFrame, SoundCarries

LEMMA FinishSound ==
    ASSUME NEW na, NEW d, Sound(d), db \in State, Finish(na, d)
    PROVE  Sound(db')
<1>1. d \in State
  BY DEF Sound
<1>2. Sound(DismissStartupHelp(d, na))
  BY <1>1, DismissStartupHelpType, DismissStartupHelpFrame, SoundCarries
<1> QED
  BY <1>2, PostActionSound DEF Finish

-----------------------------------------------------------------------------
(***************************************************************************)
(* The views: what the right panel shows can always be left again.         *)
(* Returns says that under every overlay lies a view that is none, and     *)
(* that the view a namespace view gives way to is neither; Settles, that   *)
(* what runs after a handler opens no overlay and leaves the startup help  *)
(* alone.                                                                  *)
(***************************************************************************)

Returns(d) ==
    /\ d.cur_viewmode \in IsOverlay => d.overlay_stack # <<>>
    /\ d.overlay_stack # <<>> => d.overlay_stack[1].viewmode \notin IsOverlay
    /\ d.pre_nsdep_viewmode \notin IsOverlay \cup ScopeNs

Settles(d, e) ==
    /\ e.cur_panel = d.cur_panel
    /\ e.cur_viewmode # d.cur_viewmode => e.cur_viewmode \notin IsOverlay
    /\ e.startup_help => d.startup_help
    /\ d.startup_help /\ d.cur_viewmode = "help" =>
          /\ e.startup_help /\ e.cur_viewmode = "help"
          /\ e.overlay_stack = d.overlay_stack

SameView(d, e) ==
    /\ e.cur_panel = d.cur_panel /\ e.cur_viewmode = d.cur_viewmode
    /\ e.pre_nsdep_viewmode = d.pre_nsdep_viewmode
    /\ e.overlay_stack = d.overlay_stack /\ e.startup_help = d.startup_help
    /\ e.detail_field = d.detail_field

(* Two steps that settle, one after the other. *)
LEMMA SettlesTransitive ==
    ASSUME NEW d, NEW e, NEW f, Settles(d, e), Settles(e, f)
    PROVE  Settles(d, f)
BY DEF Settles

LEMMA SameViewTransitive ==
    ASSUME NEW d, NEW e, NEW f, SameView(d, e), SameView(e, f)
    PROVE  SameView(d, f)
BY DEF SameView

(* What leaves the view alone. *)
LEMMA ViewCarries ==
    ASSUME NEW d, NEW e, SameView(d, e)
    PROVE  Settles(d, e) /\ (Returns(d) => Returns(e))
BY DEF SameView, Settles, Returns

(* Loading, clearing and scrolling show the same view. *)
LEMMA ContentSameView ==
    ASSUME NEW d \in State, NEW v, NEW x, NEW sel_ct
    PROVE  /\ SameView(d, LoadContent(d, v, x))
           /\ SameView(d, EnsureContent(d, v, x))
           /\ SameView(d, EnsureRightPanel(d, sel_ct))
           /\ SameView(d, ClearContentCaches(d))
<1>1. \A w, y : SameView(d, LoadContent(d, w, y))
  BY DEF SameView, State, LoadContent
<1>2. SameView(d, d)
  BY DEF SameView
<1>3. \A w, y : SameView(d, EnsureContent(d, w, y))
  BY <1>1, <1>2 DEF EnsureContent
<1>4. SameView(d, ClearContentCaches(d))
  BY DEF SameView, State, ClearContentCaches
<1> QED
  BY <1>1, <1>3, <1>4 DEF EnsureRightPanel

LEMMA AdjustSameView ==
    ASSUME NEW d \in State, NEW sel_ct \in Ctype \cup {Null}
    PROVE  /\ SameView(d, AdjustLeft(d))
           /\ SameView(d, AdjustRight(d, sel_ct))
<1>1. SameView(d, AdjustLeft(d))
  BY DEF SameView, State, AdjustLeft
<1> DEFINE e == EnsureRightPanel(d, sel_ct)
<1>2. e \in State /\ SameView(d, e)
  BY ContentSameView, EnsureRightPanelType
<1>3. SameView(e, AdjustRight(d, sel_ct))
  <2> HIDE DEF e
  <2> QED
    BY <1>2 DEF SameView, State, AdjustRight, e
<1> QED
  BY <1>1, <1>2, <1>3, SameViewTransitive

(* A namespace view gives way to a view that is neither an overlay nor a   *)
(* namespace view.                                                         *)
LEMMA DeactivateNsdepReturns ==
    ASSUME NEW d \in State, Returns(d)
    PROVE  LET e == DeactivateNsdep(d)
           IN  /\ Returns(e) /\ e.cur_viewmode \notin IsOverlay \cup ScopeNs
               /\ e.cur_panel = d.cur_panel /\ e.startup_help = d.startup_help
               /\ e.overlay_stack = d.overlay_stack
<1> DEFINE vm == IF d.pre_nsdep_viewmode = Null THEN DefaultViewmode
                 ELSE d.pre_nsdep_viewmode
<1>1. Null \notin IsOverlay \cup ScopeNs
  BY SchemaAssumption DEF IsOverlay, ScopeNs, Viewmode
<1>2. vm \notin IsOverlay \cup ScopeNs
  BY DEF Returns, DefaultViewmode, IsOverlay, ScopeNs
<1>3. DeactivateNsdep(d) = [d EXCEPT !.cur_viewmode = vm, !.pre_nsdep_viewmode = Null]
  BY DEF DeactivateNsdep
<1> DEFINE e == [d EXCEPT !.cur_viewmode = vm, !.pre_nsdep_viewmode = Null]
<1>4. /\ e.cur_viewmode = vm /\ e.pre_nsdep_viewmode = Null
      /\ e.cur_panel = d.cur_panel /\ e.startup_help = d.startup_help
      /\ e.overlay_stack = d.overlay_stack
  BY DEF State
<1> HIDE DEF e, vm
<1>5. Returns(e)
  BY <1>1, <1>2, <1>4 DEF Returns
<1> QED
  BY <1>2, <1>3, <1>4, <1>5 DEF e

LEMMA LeaveOrReloadNsdepSettles ==
    ASSUME NEW d \in State, Returns(d)
    PROVE  LET e == LeaveOrReloadNsdep(d).db IN Returns(e) /\ Settles(d, e)
<1> DEFINE loaded == EnsureContent(d, d.cur_viewmode, SelectedNs(d))
           e == [loaded EXCEPT !.nsdep_ns = SelectedNs(d)]
<1>1. CASE /\ d.cur_viewmode \in ScopeNs /\ SelectedCtype(d) # Null
  <2>1. LeaveOrReloadNsdep(d).db = DeactivateNsdep(d)
    BY <1>1 DEF LeaveOrReloadNsdep
  <2>2. d.cur_viewmode # "help"
    BY <1>1 DEF ScopeNs
  <2>3. Settles(d, DeactivateNsdep(d))
    BY <2>2, DeactivateNsdepReturns DEF Settles
  <2> QED
    BY <2>1, <2>3, DeactivateNsdepReturns
<1>2. CASE /\ ~(d.cur_viewmode \in ScopeNs /\ SelectedCtype(d) # Null)
           /\ d.cur_viewmode \in ScopeNs
           /\ SelectedNs(d) \notin {Null, d.nsdep_ns}
  <2>1. LeaveOrReloadNsdep(d).db = e
    BY <1>2 DEF LeaveOrReloadNsdep
  <2>2. SelectedNs(d) \in Ns
    BY <1>2, SelectionType
  <2>3. loaded \in State /\ SameView(d, loaded)
    BY <2>2, EnsureContentType, ContentSameView DEF State, Item
  <2>4. SameView(loaded, e)
    <3> HIDE DEF loaded
    <3> QED
      BY <2>3 DEF SameView, State
  <2> QED
    BY <2>1, <2>3, <2>4, SameViewTransitive, ViewCarries
<1>3. CASE /\ ~(d.cur_viewmode \in ScopeNs /\ SelectedCtype(d) # Null)
           /\ ~(/\ d.cur_viewmode \in ScopeNs
                /\ SelectedNs(d) \notin {Null, d.nsdep_ns})
  <2>1. LeaveOrReloadNsdep(d).db = d
    BY <1>3 DEF LeaveOrReloadNsdep
  <2> QED
    BY <2>1, ViewCarries DEF SameView
<1> QED
  BY <1>1, <1>2, <1>3

(* Giving up the overlays shows what lies under them. *)
LEMMA RestoreBaseViewSettles ==
    ASSUME NEW r \in Stage, NEW prev_sel_ct, Returns(r.db)
    PROVE  LET e == RestoreBaseView(r, prev_sel_ct).db
           IN  Returns(e) /\ Settles(r.db, e)
<1> DEFINE vm   == r.db.overlay_stack[1].viewmode
           base == [r.db EXCEPT !.overlay_stack = <<>>,
                                !.cur_viewmode  = vm,
                                !.detail_field  = Null]
           deact == DeactivateNsdep(base)
<1>1. r.db \in State
  BY DEF Stage
<1>2. Settles(r.db, r.db)
  BY ViewCarries DEF SameView
<1>3. CASE r.db.overlay_stack = <<>> \/ r.db.startup_help
  <2>1. RestoreBaseView(r, prev_sel_ct) = r
    BY <1>3 DEF RestoreBaseView
  <2> QED
    BY <1>2, <2>1
<1>4. CASE r.db.overlay_stack # <<>> /\ ~r.db.startup_help
  <2>1. vm \in Viewmode /\ <<>> \in Seq(OverlayEntry)
    <3>1. r.db.overlay_stack[1] \in OverlayEntry
      BY <1>1, <1>4, OverlayEntryType DEF State
    <3> QED
      BY <3>1 DEF OverlayEntry
  <2>2. vm \notin IsOverlay
    BY <1>4 DEF Returns
  <2>3. /\ base \in State
        /\ base.cur_viewmode = vm /\ base.overlay_stack = <<>>
        /\ base.pre_nsdep_viewmode = r.db.pre_nsdep_viewmode
        /\ base.cur_panel = r.db.cur_panel /\ base.startup_help = r.db.startup_help
    <3> HIDE DEF vm
    <3> QED
      BY <1>1, <2>1 DEF State
  <2>4. RestoreBaseView(r, prev_sel_ct).db \in {r.db, deact, base}
    <3>1. RestoreBaseView(r, prev_sel_ct)
             \in {r, [db |-> deact, changed |-> TRUE], [r EXCEPT !.db = base]}
      BY DEF RestoreBaseView
    <3>2. [r EXCEPT !.db = base].db = base
      BY DEF Stage
    <3> HIDE DEF deact, base
    <3>3. [db |-> deact, changed |-> TRUE].db = deact
      OBVIOUS
    <3> DEFINE q == RestoreBaseView(r, prev_sel_ct)
               fst == [db |-> deact, changed |-> TRUE]
               snd == [r EXCEPT !.db = base]
    <3>4. q \in {r, fst, snd} /\ fst.db = deact /\ snd.db = base
      BY <3>1, <3>2, <3>3
    <3> HIDE DEF q, fst, snd
    <3>5. q.db \in {r.db, deact, base}
      BY <3>4
    <3> QED
      BY <3>5 DEF q
  <2> HIDE DEF base, vm
  <2>5. Returns(base) /\ Settles(r.db, base)
    BY <1>4, <2>2, <2>3 DEF Returns, Settles
  <2>6. Returns(deact) /\ Settles(r.db, deact)
    BY <1>4, <2>3, <2>5, DeactivateNsdepReturns DEF Settles
  <2> QED
    BY <1>2, <2>4, <2>5, <2>6
<1> QED
  BY <1>3, <1>4

(* A namespace view remembers the view it came over, which is neither an   *)
(* overlay nor a namespace view.                                           *)
LEMMA ActivateNsdepSettles ==
    ASSUME NEW r \in Stage, Returns(r.db)
    PROVE  LET e == ActivateNsdep(r).db IN Returns(e) /\ Settles(r.db, e)
<1> DEFINE d == r.db
           loaded == LoadContent(d, "nsdep", SelectedNs(d))
           e == [loaded EXCEPT !.startup_help = FALSE,
                               !.pre_nsdep_viewmode = d.cur_viewmode,
                               !.cur_viewmode = "nsdep"]
<1>1. d \in State
  BY DEF Stage
<1>2. CASE \/ d.cur_viewmode \in ScopeNs \cup IsOverlay
           \/ SelectedCtype(d) # Null
           \/ SelectedNs(d) = Null
  <2>1. ActivateNsdep(r) = r
    BY <1>2 DEF ActivateNsdep
  <2> QED
    BY <2>1, ViewCarries DEF SameView
<1>3. CASE ~ \/ d.cur_viewmode \in ScopeNs \cup IsOverlay
             \/ SelectedCtype(d) # Null
             \/ SelectedNs(d) = Null
  <2>1. ActivateNsdep(r).db = e
    BY <1>3 DEF ActivateNsdep
  <2>2. loaded \in State /\ SameView(d, loaded)
    <3>1. SelectedNs(d) \in Ns /\ "nsdep" \in ContentView
      BY <1>1, <1>3, SelectionType DEF ContentView, ScopeNs
    <3> QED
      BY <1>1, <3>1, LoadContentType, ContentSameView DEF Item
  <2> HIDE DEF d, loaded
  <2>3. /\ e.cur_viewmode = "nsdep" /\ e.pre_nsdep_viewmode = d.cur_viewmode
        /\ e.startup_help = FALSE /\ e.cur_panel = loaded.cur_panel
        /\ e.overlay_stack = loaded.overlay_stack
    BY <2>2 DEF State
  <2> HIDE DEF e
  <2>4. "nsdep" \notin IsOverlay /\ "help" \in IsOverlay
    BY DEF IsOverlay
  <2>5. Returns(d)
    BY DEF d
  <2>6. Returns(e)
    BY <1>3, <2>2, <2>3, <2>4, <2>5 DEF Returns, SameView
  <2>7. Settles(d, e)
    BY <1>3, <2>2, <2>3, <2>4 DEF Settles, SameView
  <2> QED
    BY <2>1, <2>6, <2>7 DEF d
<1> QED
  BY <1>2, <1>3

LEMMA PopOverlayOnCtypeChangeSettles ==
    ASSUME NEW d \in State, NEW prev_sel_ct, Returns(d)
    PROVE  LET e == PopOverlayOnCtypeChange(d, prev_sel_ct).db
           IN  Returns(e) /\ Settles(d, e)
<1> DEFINE s == LeaveOrReloadNsdep(d)
           t == RestoreBaseView(s, prev_sel_ct)
<1>1. s \in Stage /\ t \in Stage
  BY LeaveOrReloadNsdepType, RestoreBaseViewType
<1>2. Returns(s.db) /\ Settles(d, s.db)
  BY LeaveOrReloadNsdepSettles
<1>3. Returns(t.db) /\ Settles(s.db, t.db)
  BY <1>1, <1>2, RestoreBaseViewSettles
<1>4. Returns(ActivateNsdep(t).db) /\ Settles(t.db, ActivateNsdep(t).db)
  BY <1>1, <1>3, ActivateNsdepSettles
<1> HIDE DEF s
<1>5. Settles(d, ActivateNsdep(t).db)
  BY <1>2, <1>3, <1>4, SettlesTransitive
<1> QED
  BY <1>4, <1>5 DEF PopOverlayOnCtypeChange, s

(* The views follow the cursor of the left panel and never move it. *)
LEMMA PopOverlayOnCtypeChangeRow ==
    ASSUME NEW d \in State, NEW prev_sel_ct
    PROVE  PopOverlayOnCtypeChange(d, prev_sel_ct).db.left_row = d.left_row
<1>1. ASSUME NEW e \in State
      PROVE  DeactivateNsdep(e).left_row = e.left_row
  BY DEF DeactivateNsdep, State
<1>2. ASSUME NEW e \in State, NEW v, NEW x
      PROVE  /\ LoadContent(e, v, x).left_row = e.left_row
             /\ EnsureContent(e, v, x).left_row = e.left_row
  BY DEF LoadContent, EnsureContent, State
<1> DEFINE s == LeaveOrReloadNsdep(d)
           t == RestoreBaseView(s, prev_sel_ct)
<1>3. s \in Stage /\ t \in Stage
  BY LeaveOrReloadNsdepType, RestoreBaseViewType
<1>4. s.db.left_row = d.left_row
  <2> DEFINE loaded == EnsureContent(d, d.cur_viewmode, SelectedNs(d))
             e == [loaded EXCEPT !.nsdep_ns = SelectedNs(d)]
  <2>1. \/ s.db = d
        \/ s.db = DeactivateNsdep(d)
        \/ s.db = e /\ SelectedNs(d) # Null /\ d.cur_viewmode \in ScopeNs
    BY DEF LeaveOrReloadNsdep
  <2>2. SelectedNs(d) # Null /\ d.cur_viewmode \in ScopeNs => e.left_row = d.left_row
    <3> SUFFICES ASSUME SelectedNs(d) # Null, d.cur_viewmode \in ScopeNs
                 PROVE  e.left_row = d.left_row
      OBVIOUS
    <3>1. SelectedNs(d) \in Ns
      BY SelectionType
    <3>2. loaded \in State
      BY <3>1, EnsureContentType DEF State, Item
    <3>3. loaded.left_row = d.left_row
      BY <1>2
    <3> HIDE DEF loaded
    <3> QED
      BY <3>2, <3>3 DEF State
  <2> HIDE DEF s, e
  <2> QED
    BY <1>1, <2>1, <2>2
<1> HIDE DEF s
<1>5. t.db.left_row = s.db.left_row
  <2> DEFINE base == [s.db EXCEPT !.overlay_stack = <<>>,
                                  !.cur_viewmode  = s.db.overlay_stack[1].viewmode,
                                  !.detail_field  = Null]
             deact == DeactivateNsdep(base)
  <2>1. s.db \in State
    BY <1>3 DEF Stage
  <2>2. base.left_row = s.db.left_row
    BY <2>1 DEF State
  <2>3. deact.left_row = base.left_row
    <3>1. DOMAIN base = DOMAIN s.db
      OBVIOUS
    <3> HIDE DEF base
    <3> QED
      BY <2>1, <3>1 DEF DeactivateNsdep, State
  <2>4. t.db \in {s.db, deact, base}
    <3> DEFINE fst == [db |-> deact, changed |-> TRUE]
               snd == [s EXCEPT !.db = base]
    <3>1. t \in {s, fst, snd}
      BY DEF RestoreBaseView
    <3>2. snd.db = base
      BY <1>3 DEF Stage
    <3> HIDE DEF deact, base
    <3>3. fst.db = deact
      OBVIOUS
    <3> HIDE DEF t, fst, snd
    <3> QED
      BY <3>1, <3>2, <3>3
  <2> HIDE DEF t, base, deact
  <2> QED
    BY <2>2, <2>3, <2>4
<1> HIDE DEF t
<1>6. ActivateNsdep(t).db.left_row = t.db.left_row
  <2> DEFINE loaded == LoadContent(t.db, "nsdep", SelectedNs(t.db))
             e == [loaded EXCEPT !.startup_help = FALSE,
                                 !.pre_nsdep_viewmode = t.db.cur_viewmode,
                                 !.cur_viewmode = "nsdep"]
  <2>1. t.db \in State
    BY <1>3 DEF Stage
  <2>2. \/ ActivateNsdep(t).db = t.db
        \/ ActivateNsdep(t).db = e /\ SelectedNs(t.db) # Null
    BY DEF ActivateNsdep
  <2>3. SelectedNs(t.db) # Null => e.left_row = t.db.left_row
    <3> SUFFICES ASSUME SelectedNs(t.db) # Null PROVE e.left_row = t.db.left_row
      OBVIOUS
    <3>1. SelectedNs(t.db) \in Ns /\ "nsdep" \in ContentView
      BY <2>1, SelectionType DEF ContentView, ScopeNs
    <3>2. loaded \in State /\ loaded.left_row = t.db.left_row
      BY <1>2, <2>1, <3>1, LoadContentType DEF Item
    <3> HIDE DEF loaded
    <3> QED
      BY <3>2 DEF State
  <2> HIDE DEF e
  <2> QED
    BY <2>2, <2>3
<1> QED
  BY <1>4, <1>5, <1>6 DEF PopOverlayOnCtypeChange, s, t

-----------------------------------------------------------------------------
(***************************************************************************)
(* The last part of PostAction: AdjustScroll of both panels.               *)
(***************************************************************************)

(* Row and scroll offset fit n rows on the screen of record d. *)
Seen(d, row, scroll, n) ==
    /\ row <= LastRow(n)
    /\ scroll <= row
    /\ DataRows(d) > 0 => row < scroll + DataRows(d)
    /\ scroll <= Greatest(0, n - DataRows(d))

BothSeen(d) ==
    /\ Seen(d, d.left_row, d.left_scroll, left_item_N(d))
    /\ Seen(d, d.right_row, d.right_scroll, RightPanelItemCount(d, SelectedCtype(d)))

(* The arithmetic of AdjustScroll, on a screen of no rows too. *)
LEMMA AdjustedSeen ==
    ASSUME NEW row \in Nat, NEW scroll \in Nat, NEW n \in Nat, NEW visible \in Nat
    PROVE  LET r == AdjustedRow(row, n)
               s == AdjustedScroll(r, scroll, n, visible)
           IN  /\ r <= LastRow(n)
               /\ s <= r
               /\ visible > 0 => r < s + visible
               /\ s <= Greatest(0, n - visible)
               /\ row < n => r = row
               /\ n = 0 => r = 0 /\ s = 0
BY DEF AdjustedRow, AdjustedScroll, LastRow, Least, Greatest

(* The selection is what the cursor's row holds. *)
LEMMA SameSelection ==
    ASSUME NEW d, NEW e, e.left_row = d.left_row, e.left_item = d.left_item
    PROVE  SelectedItem(e) = SelectedItem(d) /\ SelectedCtype(e) = SelectedCtype(d)
BY DEF SelectedItem, SelectedCtype

(* A cursor in the list stays where it is; one beyond it selected nothing. *)
LEMMA AdjustLeftSeen ==
    ASSUME NEW d \in State
    PROVE  LET e == AdjustLeft(d)
           IN  /\ Seen(e, e.left_row, e.left_scroll, left_item_N(e))
               /\ SelectedCtype(d) \in {Null, SelectedCtype(e)}
               /\ d.left_row < Len(d.left_item) => e.left_row = d.left_row
<1> DEFINE row    == AdjustedRow(d.left_row, left_item_N(d))
           scroll == AdjustedScroll(row, d.left_scroll, left_item_N(d), DataRows(d))
           e      == [d EXCEPT !.left_row = row, !.left_scroll = scroll]
<1>1. d.left_row \in Nat /\ d.left_scroll \in Nat /\ left_item_N(d) \in Nat
      /\ DataRows(d) \in Nat
  BY RowsType DEF State, left_item_N
<1>2. /\ row <= LastRow(left_item_N(d)) /\ scroll <= row
      /\ DataRows(d) > 0 => row < scroll + DataRows(d)
      /\ scroll <= Greatest(0, left_item_N(d) - DataRows(d))
      /\ d.left_row < left_item_N(d) => row = d.left_row
  BY <1>1, AdjustedSeen
<1>3. AdjustLeft(d) = e
  BY DEF AdjustLeft
<1> HIDE DEF row, scroll
<1>4. /\ e.left_row = row /\ e.left_scroll = scroll /\ e.left_item = d.left_item
      /\ e.term_hei = d.term_hei /\ e.navstack = d.navstack
  BY DEF State
<1> HIDE DEF e
<1>5. left_item_N(e) = left_item_N(d) /\ DataRows(e) = DataRows(d)
  BY <1>4 DEF left_item_N, DataRows, VisibleRows
<1>6. Seen(e, e.left_row, e.left_scroll, left_item_N(e))
  BY <1>2, <1>4, <1>5 DEF Seen
<1>7. CASE d.left_row < Len(d.left_item)
  <2>1. e.left_row = d.left_row
    BY <1>2, <1>4, <1>7 DEF left_item_N
  <2> QED
    BY <1>3, <1>4, <1>6, <2>1, SameSelection
<1>8. CASE ~(d.left_row < Len(d.left_item))
  <2>1. SelectedCtype(d) = Null
    BY <1>8, SchemaAssumption DEF SelectedItem, SelectedCtype, Item
  <2> QED
    BY <1>3, <1>6, <1>8, <2>1
<1> QED
  BY <1>7, <1>8

(* Only the lists of fields depend on the selected ctype, and none is      *)
(* shown without one.                                                      *)
LEMMA CountOfNone ==
    ASSUME NEW d \in State, NEW c \in Ctype
    PROVE  \/ RightPanelItemCount(d, Null) = 0
           \/ RightPanelItemCount(d, Null) = RightPanelItemCount(d, c)
<1>1. CASE d.cur_viewmode \in HasFields
  <2>1. d.cur_viewmode \notin IsOverlay \cup ContentView
    BY <1>1 DEF HasFields, IsOverlay, ContentView, ScopeNs
  <2>2. RightPanelItemCount(d, Null) = Len(FieldList(d, Null))
    BY <1>1, <2>1 DEF RightPanelItemCount
  <2> QED
    BY <2>2 DEF FieldList
<1>2. CASE d.cur_viewmode \in IsOverlay
  <2>1. d.cur_viewmode \notin HasFields \cup ContentView
    BY <1>2 DEF HasFields, IsOverlay, ContentView, ScopeNs
  <2> QED
    BY <1>2, <2>1 DEF RightPanelItemCount
<1>3. CASE d.cur_viewmode \in ContentView
  <2>1. d.cur_viewmode \notin HasFields \cup IsOverlay
    BY <1>3 DEF HasFields, IsOverlay, ContentView, ScopeNs
  <2> QED
    BY <1>3, <2>1 DEF RightPanelItemCount
<1>4. d.cur_viewmode \in HasFields \cup IsOverlay \cup ContentView
  BY DEF State, Viewmode, HasFields, IsOverlay, ContentView, ScopeNs
<1> QED
  BY <1>1, <1>2, <1>3, <1>4

(* The right panel, counted for the ctype that was selected before the     *)
(* cursor of the left panel was pulled back into the list.                 *)
LEMMA AdjustRightSeen ==
    ASSUME NEW d \in State, NEW sel_ct \in {Null, SelectedCtype(d)}
    PROVE  LET f == AdjustRight(d, sel_ct)
           IN  /\ Seen(f, f.right_row, f.right_scroll,
                       RightPanelItemCount(f, SelectedCtype(f)))
               /\ f.left_row = d.left_row /\ f.left_scroll = d.left_scroll
               /\ f.left_item = d.left_item /\ DataRows(f) = DataRows(d)
<1> DEFINE e      == EnsureRightPanel(d, sel_ct)
           n      == RightPanelItemCount(e, sel_ct)
           row    == AdjustedRow(e.right_row, n)
           scroll == AdjustedScroll(row, e.right_scroll, n, DataRows(e))
           f      == [e EXCEPT !.right_row = row, !.right_scroll = scroll]
<1>1. sel_ct \in Ctype \cup {Null} /\ SelectedCtype(d) \in Ctype \cup {Null}
  BY SelectionType
<1>2. e \in State
  BY <1>1, EnsureRightPanelType
<1>3. /\ e.left_row = d.left_row /\ e.left_scroll = d.left_scroll
      /\ e.left_item = d.left_item /\ e.term_hei = d.term_hei
      /\ e.navstack = d.navstack
  BY DEF EnsureRightPanel, EnsureContent, LoadContent, State
<1>4. AdjustRight(d, sel_ct) = f
  BY DEF AdjustRight
<1> HIDE DEF e
<1>5. n \in Nat /\ e.right_row \in Nat /\ e.right_scroll \in Nat /\ DataRows(e) \in Nat
  BY <1>1, <1>2, RightPanelItemCountType, RowsType DEF State
<1>6. /\ row <= LastRow(n) /\ scroll <= row
      /\ DataRows(e) > 0 => row < scroll + DataRows(e)
      /\ scroll <= Greatest(0, n - DataRows(e))
      /\ n = 0 => row = 0 /\ scroll = 0
  <2> HIDE DEF n
  <2> QED
    BY <1>5, AdjustedSeen
<1> HIDE DEF n, row, scroll
<1>7. /\ f.right_row = row /\ f.right_scroll = scroll
      /\ f.left_row = e.left_row /\ f.left_scroll = e.left_scroll
      /\ f.left_item = e.left_item /\ f.term_hei = e.term_hei
      /\ f.navstack = e.navstack /\ f.shown = e.shown
      /\ f.cur_viewmode = e.cur_viewmode
  BY <1>2 DEF State
<1> HIDE DEF f
<1>8. DataRows(f) = DataRows(e) /\ DataRows(f) = DataRows(d)
  BY <1>3, <1>7 DEF DataRows, VisibleRows
<1>9. SelectedCtype(f) = SelectedCtype(d)
  BY <1>3, <1>7, SameSelection
<1>10. \A c : RightPanelItemCount(f, c) = RightPanelItemCount(e, c)
  BY <1>7 DEF RightPanelItemCount, FieldList, Lines
<1>11. CASE RightPanelItemCount(e, SelectedCtype(d)) = n
  BY <1>3, <1>4, <1>6, <1>7, <1>8, <1>9, <1>10, <1>11 DEF Seen
<1>12. CASE RightPanelItemCount(e, SelectedCtype(d)) # n
  <2>1. sel_ct = Null /\ SelectedCtype(d) \in Ctype
    BY <1>1, <1>12 DEF n
  <2>2. n = 0
    BY <1>2, <1>12, <2>1, CountOfNone DEF n
  <2>3. row = 0 /\ scroll = 0
    BY <1>6, <2>2
  <2>4. RightPanelItemCount(e, SelectedCtype(d)) \in Nat
    BY <1>1, <1>2, RightPanelItemCountType
  <2>5. Seen(f, 0, 0, RightPanelItemCount(f, SelectedCtype(f)))
    BY <1>5, <1>8, <1>9, <1>10, <2>4 DEF Seen, LastRow, Greatest
  <2> QED
    BY <1>3, <1>4, <1>7, <1>8, <2>3, <2>5
<1> QED
  BY <1>11, <1>12

LEMMA AdjustBothSeen ==
    ASSUME NEW d \in State
    PROVE  BothSeen(AdjustRight(AdjustLeft(d), SelectedCtype(d)))
<1> DEFINE e == AdjustLeft(d)
           f == AdjustRight(e, SelectedCtype(d))
<1>1. /\ e \in State
      /\ Seen(e, e.left_row, e.left_scroll, left_item_N(e))
      /\ SelectedCtype(d) \in {Null, SelectedCtype(e)}
  BY AdjustLeftType, AdjustLeftSeen
<1> HIDE DEF e
<1>2. /\ Seen(f, f.right_row, f.right_scroll, RightPanelItemCount(f, SelectedCtype(f)))
      /\ f.left_row = e.left_row /\ f.left_scroll = e.left_scroll
      /\ f.left_item = e.left_item /\ DataRows(f) = DataRows(e)
  BY <1>1, AdjustRightSeen
<1> HIDE DEF f
<1>3. Seen(f, f.left_row, f.left_scroll, left_item_N(f))
  BY <1>1, <1>2 DEF Seen, left_item_N
<1> QED
  BY <1>2, <1>3 DEF BothSeen, f, e

(* What every handler ends with settles the view, leaves both cursors on   *)
(* the screen, and moves the left one only if it was beyond the list.      *)
LEMMA PostActionSettles ==
    ASSUME NEW d \in State, NEW snap \in State
    PROVE  LET e == PostAction(d, snap)
           IN  /\ Returns(d) => Returns(e) /\ Settles(d, e)
               /\ BothSeen(e)
               /\ d.left_row < Len(d.left_item) => e.left_row = d.left_row
               /\ SameView(PopOverlayOnCtypeChange(d, SelectedCtype(snap)).db, e)
<1> DEFINE prev    == SelectedCtype(snap)
           r       == PopOverlayOnCtypeChange(d, prev)
           e       == r.db
           sel_ct  == SelectedCtype(e)
           changed == sel_ct # prev \/ r.changed
           cleared == IF changed /\ sel_ct = Null THEN ClearContentCaches(e) ELSE e
           top     == ResetRight(cleared, snap, changed)
           line    == IF /\ Len(e.navstack) >= Len(snap.navstack)
                         /\ e.cur_viewmode = "graph"
                         /\ sel_ct # prev /\ sel_ct # Null /\ prev # Null
                      THEN GraphFindCtypeLine(sel_ct, prev) ELSE -1
           placed  == IF line >= 0 THEN [top EXCEPT !.right_row = line] ELSE top
<1>1. /\ e \in State /\ SameList(d, e)
      /\ Returns(d) => Returns(e) /\ Settles(d, e)
  BY PopOverlayOnCtypeChangeType, PopOverlayOnCtypeChangeFrame,
     PopOverlayOnCtypeChangeSettles DEF Stage
<1>2. e.left_row = d.left_row
  BY PopOverlayOnCtypeChangeRow
<1>3. PostAction(d, snap) = AdjustRight(AdjustLeft(placed), sel_ct)
  BY DEF PostAction
<1> HIDE DEF r, e
<1>4. sel_ct \in Ctype \cup {Null} /\ prev \in Ctype \cup {Null}
  BY <1>1, SelectionType
<1>5. /\ cleared \in State /\ SameView(e, cleared)
      /\ cleared.left_row = e.left_row /\ cleared.left_item = e.left_item
  <2>1. SameView(e, e)
    BY DEF SameView
  <2>2. /\ ClearContentCaches(e).left_row = e.left_row
        /\ ClearContentCaches(e).left_item = e.left_item
    BY <1>1 DEF ClearContentCaches, State
  <2> QED
    BY <1>1, <2>1, <2>2, ClearContentCachesType, ContentSameView
<1> HIDE DEF cleared, changed
<1>6. /\ top \in State /\ SameView(cleared, top)
      /\ top.left_row = cleared.left_row /\ top.left_item = cleared.left_item
  <2>1. top \in State
    BY <1>5, CursorType DEF ResetRight
  <2>2. /\ SameView(cleared, top)
        /\ top.left_row = cleared.left_row /\ top.left_item = cleared.left_item
    BY <1>5 DEF ResetRight, State, SameView
  <2> QED
    BY <2>1, <2>2
<1>7. line \in Nat \cup {-1}
  BY <1>4, GraphFindCtypeLineType
<1>8. sel_ct = SelectedCtype(e)
  OBVIOUS
<1> HIDE DEF top, line, prev, sel_ct
<1>9. /\ placed \in State /\ SameView(top, placed)
      /\ placed.left_row = top.left_row /\ placed.left_item = top.left_item
  <2>1. CASE line >= 0
    <3>1. line \in Nat
      BY <1>7, <2>1
    <3> QED
      BY <1>6, <2>1, <3>1 DEF State, SameView
  <2>2. CASE ~(line >= 0)
    BY <1>6, <2>2 DEF SameView
  <2> QED
    BY <2>1, <2>2
<1> HIDE DEF placed
<1>10. /\ SameView(e, placed)
       /\ placed.left_row = d.left_row /\ placed.left_item = d.left_item
  BY <1>1, <1>2, <1>5, <1>6, <1>9, SameViewTransitive DEF SameList
<1>11. sel_ct = SelectedCtype(placed)
  BY <1>5, <1>6, <1>8, <1>9, SameSelection
<1> DEFINE a == AdjustLeft(placed)
           f == AdjustRight(a, sel_ct)
<1>12. /\ a \in State /\ SameView(placed, a)
       /\ SelectedCtype(placed) \in {Null, SelectedCtype(a)}
       /\ placed.left_row < Len(placed.left_item) => a.left_row = placed.left_row
  BY <1>4, <1>9, AdjustLeftType, AdjustSameView, AdjustLeftSeen
<1>13. BothSeen(f)
  BY <1>9, <1>11, AdjustBothSeen
<1> HIDE DEF a
<1>14. SameView(a, f) /\ f.left_row = a.left_row
  BY <1>4, <1>11, <1>12, AdjustSameView, AdjustRightSeen
<1>15. SameView(e, f)
  BY <1>10, <1>12, <1>14, SameViewTransitive
<1>16. Returns(d) => Returns(f) /\ Settles(d, f)
  BY <1>1, <1>15, ViewCarries, SettlesTransitive
<1>17. d.left_row < Len(d.left_item) => f.left_row = d.left_row
  BY <1>10, <1>12, <1>14
<1> QED
  BY <1>3, <1>13, <1>15, <1>16, <1>17 DEF a, e, r, prev

-----------------------------------------------------------------------------
(***************************************************************************)
(* The view and the row under the cursor (ContextView): PostAction fits    *)
(* the view to the row the handler left, so the two agree if the cursor    *)
(* was in the list and AdjustScroll had not to move it.                    *)
(***************************************************************************)

Fits(d) == d.cur_viewmode \in ScopeNs => SelectedCtype(d) = Null

Contextual(d) ==
    /\ SelectedCtype(d) # Null => d.cur_viewmode \notin ScopeNs
    /\ SelectedCtype(d) = Null /\ SelectedNs(d) # Null
          => d.cur_viewmode \in ScopeNs \cup IsOverlay

InList(d) == d.left_row <= LastRow(Len(d.left_item))

SameCursor(d, e) == e.left_row = d.left_row /\ e.left_item = d.left_item

(* What the cursor is on is determined by the list and the row.            *)
LEMMA CursorSelects ==
    ASSUME NEW d, NEW e, SameCursor(d, e)
    PROVE  /\ SelectedItem(e) = SelectedItem(d)
           /\ SelectedCtype(e) = SelectedCtype(d) /\ SelectedNs(e) = SelectedNs(d)
BY DEF SameCursor, SelectedItem, SelectedCtype, SelectedNs

LEMMA LoadSameCursor ==
    ASSUME NEW d \in State, NEW v, NEW x
    PROVE  /\ SameCursor(d, LoadContent(d, v, x))
           /\ SameCursor(d, EnsureContent(d, v, x))
BY DEF SameCursor, LoadContent, EnsureContent, State

(* Leaving a namespace view shows none.                                    *)
LEMMA DeactivateNsdepFits ==
    ASSUME NEW d \in State, d.pre_nsdep_viewmode \notin ScopeNs
    PROVE  LET e == DeactivateNsdep(d)
           IN  Fits(e) /\ SameCursor(d, e) /\ e.pre_nsdep_viewmode \notin ScopeNs
<1> DEFINE vm == IF d.pre_nsdep_viewmode = Null THEN DefaultViewmode
                 ELSE d.pre_nsdep_viewmode
           e == [d EXCEPT !.cur_viewmode = vm, !.pre_nsdep_viewmode = Null]
<1>1. vm \notin ScopeNs /\ Null \notin ScopeNs
  BY SchemaAssumption DEF DefaultViewmode, ScopeNs, Viewmode
<1>2. DeactivateNsdep(d) = e
  BY DEF DeactivateNsdep
<1>3. e.cur_viewmode = vm /\ e.pre_nsdep_viewmode = Null /\ SameCursor(d, e)
  BY DEF State, SameCursor
<1> HIDE DEF e
<1> QED
  BY <1>1, <1>2, <1>3 DEF Fits

(* A namespace view ends on a ctype.                                       *)
LEMMA LeaveOrReloadNsdepFits ==
    ASSUME NEW d \in State, d.pre_nsdep_viewmode \notin ScopeNs
    PROVE  LET e == LeaveOrReloadNsdep(d).db
           IN  Fits(e) /\ SameCursor(d, e) /\ e.pre_nsdep_viewmode \notin ScopeNs
<1> DEFINE loaded == EnsureContent(d, d.cur_viewmode, SelectedNs(d))
           e == [loaded EXCEPT !.nsdep_ns = SelectedNs(d)]
<1>1. CASE d.cur_viewmode \in ScopeNs /\ SelectedCtype(d) # Null
  <2>1. LeaveOrReloadNsdep(d).db = DeactivateNsdep(d)
    BY <1>1 DEF LeaveOrReloadNsdep
  <2> QED
    BY <2>1, DeactivateNsdepFits
<1>2. CASE /\ ~(d.cur_viewmode \in ScopeNs /\ SelectedCtype(d) # Null)
           /\ d.cur_viewmode \in ScopeNs
           /\ SelectedNs(d) \notin {Null, d.nsdep_ns}
  <2>1. LeaveOrReloadNsdep(d).db = e
    BY <1>2 DEF LeaveOrReloadNsdep
  <2>2. SelectedNs(d) \in Ns
    BY <1>2, SelectionType
  <2>3. loaded \in State /\ SameView(d, loaded) /\ SameCursor(d, loaded)
    BY <2>2, EnsureContentType, ContentSameView, LoadSameCursor DEF State, Item
  <2>4. SameView(loaded, e) /\ SameCursor(loaded, e)
    <3> HIDE DEF loaded
    <3> QED
      BY <2>3 DEF SameView, SameCursor, State
  <2>5. SameCursor(d, e) /\ e.pre_nsdep_viewmode = d.pre_nsdep_viewmode
    BY <2>3, <2>4 DEF SameCursor, SameView
  <2> HIDE DEF e
  <2>6. SelectedCtype(e) = Null
    BY <1>2, <2>5, CursorSelects
  <2> QED
    BY <2>1, <2>5, <2>6 DEF Fits
<1>3. CASE /\ ~(d.cur_viewmode \in ScopeNs /\ SelectedCtype(d) # Null)
           /\ ~(/\ d.cur_viewmode \in ScopeNs
                /\ SelectedNs(d) \notin {Null, d.nsdep_ns})
  <2>1. LeaveOrReloadNsdep(d).db = d
    BY <1>3 DEF LeaveOrReloadNsdep
  <2> QED
    BY <1>3, <2>1 DEF Fits, SameCursor
<1> QED
  BY <1>1, <1>2, <1>3

(* So does one that the overlays were opened over.                         *)
LEMMA RestoreBaseViewFits ==
    ASSUME NEW r \in Stage, NEW prev_sel_ct, Fits(r.db),
           r.db.pre_nsdep_viewmode \notin ScopeNs
    PROVE  LET e == RestoreBaseView(r, prev_sel_ct).db
           IN  Fits(e) /\ SameCursor(r.db, e)
<1> DEFINE d == r.db
           vm == d.overlay_stack[1].viewmode
           base == [d EXCEPT !.overlay_stack = <<>>,
                             !.cur_viewmode  = vm,
                             !.detail_field  = Null]
           fst == [db |-> DeactivateNsdep(base), changed |-> TRUE]
           snd == [r EXCEPT !.db = base]
           q == RestoreBaseView(r, prev_sel_ct)
<1>1. d \in State /\ SameCursor(d, d)
  BY DEF Stage, SameCursor
<1>2. \/ q = r
      \/ d.overlay_stack # <<>> /\ q = fst
      \/ /\ d.overlay_stack # <<>> /\ q = snd
         /\ ~(base.cur_viewmode \in ScopeNs /\ SelectedCtype(d) # Null)
  BY DEF RestoreBaseView
<1>3. ASSUME d.overlay_stack # <<>>
      PROVE  /\ base \in State /\ SameCursor(d, base)
             /\ base.pre_nsdep_viewmode = d.pre_nsdep_viewmode
  <2>1. vm \in Viewmode /\ <<>> \in Seq(OverlayEntry)
    <3>1. d.overlay_stack[1] \in OverlayEntry
      BY <1>1, <1>3, OverlayEntryType DEF State
    <3> QED
      BY <3>1 DEF OverlayEntry
  <2> HIDE DEF vm, d
  <2> QED
    BY <1>1, <2>1 DEF State, SameCursor
<1>4. snd.db = base
  BY DEF Stage
<1>5. CASE q = r
  BY <1>1, <1>5
<1>6. CASE d.overlay_stack # <<>> /\ q = fst
  <2>1. q.db = DeactivateNsdep(base)
    BY <1>6
  <2>2. base \in State /\ SameCursor(d, base) /\ base.pre_nsdep_viewmode \notin ScopeNs
    BY <1>3, <1>6
  <2> HIDE DEF base
  <2>3. Fits(DeactivateNsdep(base)) /\ SameCursor(base, DeactivateNsdep(base))
    BY <2>2, DeactivateNsdepFits
  <2> QED
    BY <2>1, <2>2, <2>3 DEF SameCursor
<1>7. CASE /\ d.overlay_stack # <<>> /\ q = snd
           /\ ~(base.cur_viewmode \in ScopeNs /\ SelectedCtype(d) # Null)
  <2>1. q.db = base /\ SameCursor(d, base)
    BY <1>3, <1>4, <1>7
  <2>2. ~(base.cur_viewmode \in ScopeNs /\ SelectedCtype(d) # Null)
    BY <1>7
  <2> HIDE DEF base, q
  <2>3. Fits(base)
    BY <2>1, <2>2, CursorSelects DEF Fits
  <2> QED
    BY <2>1, <2>3 DEF q
<1> QED
  BY <1>2, <1>5, <1>6, <1>7

(* And on a header one begins, unless an overlay is shown.                 *)
LEMMA ActivateNsdepContextual ==
    ASSUME NEW r \in Stage, Fits(r.db)
    PROVE  LET e == ActivateNsdep(r).db
           IN  Contextual(e) /\ SameCursor(r.db, e)
<1> DEFINE d == r.db
           loaded == LoadContent(d, "nsdep", SelectedNs(d))
           e == [loaded EXCEPT !.startup_help = FALSE,
                               !.pre_nsdep_viewmode = d.cur_viewmode,
                               !.cur_viewmode = "nsdep"]
<1>1. d \in State
  BY DEF Stage
<1>2. CASE \/ d.cur_viewmode \in ScopeNs \cup IsOverlay
           \/ SelectedCtype(d) # Null
           \/ SelectedNs(d) = Null
  <2>1. ActivateNsdep(r) = r
    BY <1>2 DEF ActivateNsdep
  <2> QED
    BY <1>2, <2>1 DEF Contextual, Fits, SameCursor
<1>3. CASE ~ \/ d.cur_viewmode \in ScopeNs \cup IsOverlay
             \/ SelectedCtype(d) # Null
             \/ SelectedNs(d) = Null
  <2>1. ActivateNsdep(r).db = e
    BY <1>3 DEF ActivateNsdep
  <2>2. loaded \in State /\ SameCursor(d, loaded)
    <3>1. SelectedNs(d) \in Ns /\ "nsdep" \in ContentView
      BY <1>1, <1>3, SelectionType DEF ContentView, ScopeNs
    <3> QED
      BY <1>1, <3>1, LoadContentType, LoadSameCursor DEF Item
  <2> HIDE DEF d, loaded
  <2>3. e.cur_viewmode = "nsdep" /\ SameCursor(d, e)
    BY <2>2 DEF State, SameCursor
  <2> HIDE DEF e
  <2>4. SelectedCtype(e) = Null /\ "nsdep" \in ScopeNs
    BY <1>3, <2>3, CursorSelects DEF ScopeNs
  <2> QED
    BY <2>1, <2>3, <2>4 DEF Contextual, d
<1> QED
  BY <1>2, <1>3

(* The three stages together: the view fits the row, and the cursor rests. *)
LEMMA PopOverlayOnCtypeChangeContextual ==
    ASSUME NEW d \in State, NEW prev, d.pre_nsdep_viewmode \notin ScopeNs
    PROVE  LET e == PopOverlayOnCtypeChange(d, prev).db
           IN  Contextual(e) /\ SameCursor(d, e)
<1> DEFINE s == LeaveOrReloadNsdep(d)
           t == RestoreBaseView(s, prev)
           u == PopOverlayOnCtypeChange(d, prev)
<1>1. s \in Stage /\ t \in Stage /\ u = ActivateNsdep(t)
  BY LeaveOrReloadNsdepType, RestoreBaseViewType DEF PopOverlayOnCtypeChange
<1>2. Fits(s.db) /\ SameCursor(d, s.db) /\ s.db.pre_nsdep_viewmode \notin ScopeNs
  BY LeaveOrReloadNsdepFits
<1> HIDE DEF s
<1>3. Fits(t.db) /\ SameCursor(s.db, t.db)
  BY <1>1, <1>2, RestoreBaseViewFits
<1> HIDE DEF t
<1> QED
  BY <1>1, <1>2, <1>3, ActivateNsdepContextual DEF SameCursor

(* A cursor beyond the list is a cursor of an empty list.                  *)
LEMMA NoneInList ==
    ASSUME NEW d \in State, InList(d), ~(d.left_row < Len(d.left_item)),
           NEW e \in State, e.left_item = d.left_item
    PROVE  SelectedCtype(e) = Null /\ SelectedNs(e) = Null
<1>1. Len(d.left_item) \in Nat /\ d.left_row \in Nat /\ e.left_row \in Nat
  BY DEF State
<1>2. Len(e.left_item) = 0
  BY <1>1 DEF InList, LastRow, Greatest
<1>3. SelectedItem(e) = Null
  BY <1>1, <1>2 DEF SelectedItem
<1> QED
  BY <1>3, SchemaAssumption DEF SelectedCtype, SelectedNs, Item

LEMMA PostActionContextual ==
    ASSUME NEW d \in State, NEW snap \in State,
           InList(d), d.pre_nsdep_viewmode \notin ScopeNs
    PROVE  Contextual(PostAction(d, snap))
<1> DEFINE u == PopOverlayOnCtypeChange(d, SelectedCtype(snap))
           e == PostAction(d, snap)
<1>1. Contextual(u.db) /\ SameCursor(d, u.db)
  BY PopOverlayOnCtypeChangeContextual
<1>2. /\ SameView(u.db, e) /\ e.left_item = d.left_item /\ e \in State
      /\ d.left_row < Len(d.left_item) => e.left_row = d.left_row
  BY PostActionSettles, PostActionFrame, PostActionType DEF SameList
<1> HIDE DEF u, e
<1>3. CASE d.left_row < Len(d.left_item)
  <2>1. SameCursor(u.db, e)
    BY <1>1, <1>2, <1>3 DEF SameCursor
  <2>2. SelectedCtype(e) = SelectedCtype(u.db) /\ SelectedNs(e) = SelectedNs(u.db)
    BY <2>1, CursorSelects
  <2> QED
    BY <1>1, <1>2, <2>2 DEF Contextual, SameView, e
<1>4. CASE ~(d.left_row < Len(d.left_item))
  <2>1. SelectedCtype(e) = Null /\ SelectedNs(e) = Null
    BY <1>2, <1>4, NoneInList
  <2> QED
    BY <2>1 DEF Contextual, e
<1> QED
  BY <1>3, <1>4

-----------------------------------------------------------------------------
(***************************************************************************)
(* What a content view shows (ContentCurrent).  AdjustScroll loads the     *)
(* view for the selected row; that nsdep_ns is set too, although nothing   *)
(* is loaded when the view already holds the row, is because a change of   *)
(* context either sets it or empties the caches.                           *)
(***************************************************************************)

Current(d) ==
    About(d) \notin {Null, EmptyNs} /\ d.cur_viewmode \in ContentView =>
        /\ d.shown[d.cur_viewmode] = About(d)
        /\ d.cur_viewmode \in ScopeNs => d.nsdep_ns = About(d)

SameContent(d, e) ==
    /\ SameCursor(d, e) /\ e.cur_viewmode = d.cur_viewmode
    /\ e.shown = d.shown /\ e.nsdep_ns = d.nsdep_ns

LEMMA SameAbout ==
    ASSUME NEW d, NEW e, SameCursor(d, e), e.cur_viewmode = d.cur_viewmode
    PROVE  About(e) = About(d) /\ \A c : Scope(e, c) = Scope(d, c)
BY CursorSelects DEF About, Scope

LEMMA ContentCarries ==
    ASSUME NEW d, NEW e, SameContent(d, e), Current(d)
    PROVE  Current(e)
BY SameAbout DEF SameContent, Current

(* When no context has changed, nsdep_ns was right already.                *)
LEMMA UnchangedNs ==
    ASSUME NEW d \in State, NEW prev, SelectedCtype(d) = prev,
           ~PopOverlayOnCtypeChange(d, prev).changed
    PROVE  /\ PopOverlayOnCtypeChange(d, prev).db = d
           /\ d.cur_viewmode \in ScopeNs => SelectedNs(d) \in {Null, d.nsdep_ns}
<1> DEFINE s == LeaveOrReloadNsdep(d)
           t == RestoreBaseView(s, prev)
           u == ActivateNsdep(t)
<1>1. /\ u = PopOverlayOnCtypeChange(d, prev) /\ s \in Stage /\ t \in Stage
  BY LeaveOrReloadNsdepType, RestoreBaseViewType DEF PopOverlayOnCtypeChange
<1>2. \/ s.changed
      \/ /\ s = [db |-> d, changed |-> FALSE]
         /\ d.cur_viewmode \in ScopeNs => SelectedNs(d) \in {Null, d.nsdep_ns}
  BY DEF LeaveOrReloadNsdep
<1> HIDE DEF s
<1>3. s.changed => t.changed
  BY <1>1 DEF RestoreBaseView, Stage
<1>4. s = [db |-> d, changed |-> FALSE] => t = s
  BY DEF RestoreBaseView
<1> HIDE DEF t
<1>5. u.changed \/ u = t
  BY DEF ActivateNsdep
<1> HIDE DEF u
<1>6. ~u.changed
  BY <1>1
<1>7. t = u /\ ~t.changed /\ ~s.changed
  BY <1>3, <1>5, <1>6
<1> QED
  BY <1>1, <1>2, <1>4, <1>7

(* Counting the right panel's rows loads the view for the row it is about. *)
LEMMA AdjustRightCurrent ==
    ASSUME NEW d \in State, NEW sel_ct \in {SelectedCtype(d)},
           About(d) \notin {Null, EmptyNs}, d.cur_viewmode \in ContentView
    PROVE  LET f == AdjustRight(d, sel_ct)
           IN  /\ SameCursor(d, f) /\ f.cur_viewmode = d.cur_viewmode
               /\ f.shown[f.cur_viewmode] = About(d)
               /\ \/ d.cur_viewmode \in ScopeNs => f.nsdep_ns = About(d)
                  \/ d.shown[d.cur_viewmode] = About(d) /\ f.nsdep_ns = d.nsdep_ns
<1> DEFINE v == d.cur_viewmode
           x == About(d)
           e == EnsureRightPanel(d, sel_ct)
           f == AdjustRight(d, sel_ct)
<1>1. e = EnsureContent(d, v, x) /\ x \in Item
  BY ScopeType, SelectionType DEF EnsureRightPanel, About, Item
<1>2. e \in State /\ SameCursor(d, e)
  BY SelectionType, EnsureRightPanelType, LoadSameCursor DEF EnsureRightPanel
<1>3. /\ e.cur_viewmode = v /\ e.shown[v] = x
      /\ \/ v \in ScopeNs => e.nsdep_ns = x
         \/ d.shown[v] = x /\ e.nsdep_ns = d.nsdep_ns
  <2>1. CASE CachedKey(d.shown[v]) # CachedKey(x)
    <3>1. e = LoadContent(d, v, x)
      BY <1>1, <2>1 DEF EnsureContent
    <3>2. d.shown \in [ContentView -> Item \cup {Null}]
      BY DEF State
    <3> QED
      BY <3>1, <3>2 DEF LoadContent, State
  <2>2. CASE CachedKey(d.shown[v]) = CachedKey(x)
    <3>1. e = d
      BY <1>1, <2>2 DEF EnsureContent
    <3>2. d.shown[v] = x
      BY <2>2 DEF CachedKey
    <3> QED
      BY <3>1, <3>2
  <2> QED
    BY <2>1, <2>2
<1>4. /\ SameCursor(e, f) /\ f.cur_viewmode = e.cur_viewmode
      /\ f.shown = e.shown /\ f.nsdep_ns = e.nsdep_ns
  <2> DEFINE n   == RightPanelItemCount(e, sel_ct)
             row == AdjustedRow(e.right_row, n)
             scroll == AdjustedScroll(row, e.right_scroll, n, DataRows(e))
  <2>1. f = [e EXCEPT !.right_row = row, !.right_scroll = scroll]
    BY DEF AdjustRight
  <2> HIDE DEF e, row, scroll, f
  <2> QED
    BY <1>2, <2>1 DEF SameCursor, State
<1> HIDE DEF e, f
<1> QED
  BY <1>2, <1>3, <1>4 DEF SameCursor, f

(* A view that was current stays so when its rows are counted again.       *)
LEMMA AdjustRightStaysCurrent ==
    ASSUME NEW d \in State, NEW sel_ct \in {SelectedCtype(d)}, Current(d)
    PROVE  Current(AdjustRight(d, sel_ct))
<1> DEFINE f == AdjustRight(d, sel_ct)
<1>1. SameCursor(d, f) /\ f.cur_viewmode = d.cur_viewmode
  <2>1. sel_ct \in Ctype \cup {Null}
    BY SelectionType
  <2> QED
    BY <2>1, AdjustRightSeen, AdjustSameView DEF SameCursor, SameView
<1>2. About(f) = About(d)
  BY <1>1, SameAbout
<1>3. CASE About(d) \notin {Null, EmptyNs} /\ d.cur_viewmode \in ContentView
  <2>1. /\ f.shown[f.cur_viewmode] = About(d)
        /\ \/ d.cur_viewmode \in ScopeNs => f.nsdep_ns = About(d)
           \/ d.shown[d.cur_viewmode] = About(d) /\ f.nsdep_ns = d.nsdep_ns
    BY <1>3, AdjustRightCurrent
  <2> HIDE DEF f
  <2> QED
    BY <1>1, <1>2, <1>3, <2>1 DEF Current, f
<1>4. CASE ~(About(d) \notin {Null, EmptyNs} /\ d.cur_viewmode \in ContentView)
  BY <1>1, <1>2, <1>4 DEF Current
<1> QED
  BY <1>3, <1>4

(* Every handler ends with the view current.                               *)
LEMMA PostActionCurrent ==
    ASSUME NEW d \in State, NEW snap \in State,
           InList(d), d.pre_nsdep_viewmode \notin ScopeNs
    PROVE  Current(PostAction(d, snap))
<1> DEFINE prev    == SelectedCtype(snap)
           r       == PopOverlayOnCtypeChange(d, prev)
           e       == r.db
           sel_ct  == SelectedCtype(e)
           changed == sel_ct # prev \/ r.changed
           cleared == IF changed /\ sel_ct = Null THEN ClearContentCaches(e) ELSE e
           top     == ResetRight(cleared, snap, changed)
           line    == IF /\ Len(e.navstack) >= Len(snap.navstack)
                         /\ e.cur_viewmode = "graph"
                         /\ sel_ct # prev /\ sel_ct # Null /\ prev # Null
                      THEN GraphFindCtypeLine(sel_ct, prev) ELSE -1
           placed  == IF line >= 0 THEN [top EXCEPT !.right_row = line] ELSE top
           l == AdjustLeft(placed)
           f == PostAction(d, snap)
<1>1. /\ e \in State /\ Contextual(e) /\ SameCursor(d, e)
      /\ sel_ct = SelectedCtype(d) /\ SelectedNs(e) = SelectedNs(d)
  BY PopOverlayOnCtypeChangeType, PopOverlayOnCtypeChangeContextual, CursorSelects DEF Stage
<1>2. f = AdjustRight(l, sel_ct)
  BY DEF PostAction
<1>3. r.db = e
  OBVIOUS
<1>4. sel_ct = prev /\ ~r.changed =>
         /\ e = d
         /\ d.cur_viewmode \in ScopeNs => SelectedNs(d) \in {Null, d.nsdep_ns}
  BY <1>1, UnchangedNs
<1> HIDE DEF r, e, f
<1>5. sel_ct \in Ctype \cup {Null} /\ prev \in Ctype \cup {Null}
  BY <1>1, SelectionType
<1>6. /\ cleared \in State /\ SameCursor(e, cleared)
      /\ cleared.cur_viewmode = e.cur_viewmode
      /\ \/ SameContent(e, cleared) /\ ~(changed /\ sel_ct = Null)
         \/ /\ changed /\ sel_ct = Null
            /\ \A v \in ContentView : cleared.shown[v] \in {Null, EmptyNs}
  <2>1. CASE changed /\ sel_ct = Null
    <3>1. cleared = ClearContentCaches(e)
      BY <2>1
    <3>2. \A v \in ContentView : cleared.shown[v] \in {Null, EmptyNs}
      <4> HIDE DEF cleared
      <4> QED
        BY <1>1, <3>1 DEF ClearContentCaches, State
    <3>3. SameCursor(e, cleared) /\ cleared.cur_viewmode = e.cur_viewmode
      <4> HIDE DEF cleared
      <4> QED
        BY <1>1, <3>1 DEF ClearContentCaches, SameCursor, State
    <3>4. cleared \in State
      BY <1>1, <3>1, ClearContentCachesType
    <3> HIDE DEF cleared, changed
    <3> QED
      BY <2>1, <3>2, <3>3, <3>4
  <2>2. CASE ~(changed /\ sel_ct = Null)
    BY <1>1, <2>2 DEF SameContent, SameCursor
  <2> QED
    BY <2>1, <2>2
<1>7. line \in Nat \cup {-1}
  BY <1>5, GraphFindCtypeLineType
<1> HIDE DEF cleared, line
<1>8. top \in State /\ SameContent(cleared, top)
  <2>1. top \in State
    BY <1>6, CursorType DEF ResetRight
  <2>2. SameContent(cleared, top)
    BY <1>6 DEF ResetRight, State, SameContent, SameCursor
  <2> QED
    BY <2>1, <2>2
<1> HIDE DEF top
<1>9. placed \in State /\ SameContent(top, placed)
  <2>1. CASE line >= 0
    <3>1. line \in Nat
      BY <1>7, <2>1
    <3> QED
      BY <1>8, <2>1, <3>1 DEF State, SameContent, SameCursor
  <2>2. CASE ~(line >= 0)
    BY <1>8, <2>2 DEF SameContent, SameCursor
  <2> QED
    BY <2>1, <2>2
<1> HIDE DEF placed
<1>10. /\ l \in State /\ l.left_item = placed.left_item
       /\ l.cur_viewmode = placed.cur_viewmode
       /\ l.shown = placed.shown /\ l.nsdep_ns = placed.nsdep_ns
       /\ placed.left_row < Len(placed.left_item) => l.left_row = placed.left_row
  <2>1. l \in State /\ (placed.left_row < Len(placed.left_item) => l.left_row = placed.left_row)
    BY <1>9, AdjustLeftType, AdjustLeftSeen
  <2> QED
    BY <1>9, <2>1 DEF AdjustLeft, State
<1> HIDE DEF l
<1>11. f \in State /\ f.left_item = d.left_item
  BY PostActionType, PostActionFrame DEF f, SameList
<1>12. CASE ~(d.left_row < Len(d.left_item))
  <2>1. SelectedCtype(f) = Null /\ SelectedNs(f) = Null
    BY <1>11, <1>12, NoneInList
  <2>2. About(f) = Null
    BY <2>1 DEF About, Scope
  <2> QED
    BY <2>2 DEF Current, f
<1>13. CASE d.left_row < Len(d.left_item)
  <2>1. /\ SameCursor(d, l) /\ l.cur_viewmode = e.cur_viewmode
        /\ l.shown = cleared.shown /\ l.nsdep_ns = cleared.nsdep_ns
    BY <1>1, <1>6, <1>8, <1>9, <1>10, <1>13 DEF SameContent, SameCursor
  <2>2. SelectedCtype(l) = sel_ct /\ SelectedNs(l) = SelectedNs(d)
    BY <1>1, <2>1, CursorSelects
  <2> HIDE DEF sel_ct
  <2>3. ASSUME About(l) \notin {Null, EmptyNs}, l.cur_viewmode \in ContentView
        PROVE  Current(f)
    <3> DEFINE v == l.cur_viewmode
    <3>1. /\ SameCursor(l, f) /\ f.cur_viewmode = v /\ f.shown[v] = About(l)
          /\ \/ v \in ScopeNs => f.nsdep_ns = About(l)
             \/ l.shown[v] = About(l) /\ f.nsdep_ns = l.nsdep_ns
      BY <1>2, <1>10, <2>2, <2>3, AdjustRightCurrent
    <3>2. About(f) = About(l)
      BY <3>1, SameAbout
    <3>3. ASSUME v \in ScopeNs, l.shown[v] = About(l)
          PROVE  l.nsdep_ns = About(l)
      <4>1. sel_ct = Null
        BY <1>1, <2>1, <3>3 DEF Contextual, sel_ct
      <4>2. ~changed /\ SameContent(e, cleared)
        BY <1>6, <2>1, <2>3, <3>3, <4>1
      <4>3. About(l) = SelectedNs(d)
        BY <2>2, <3>3, <4>1 DEF About, Scope
      <4>4. e = d /\ d.cur_viewmode \in ScopeNs
        BY <1>4, <2>1, <3>3, <4>2
      <4>5. SelectedNs(d) = d.nsdep_ns
        BY <1>4, <2>3, <4>2, <4>3, <4>4
      <4> QED
        BY <2>1, <4>2, <4>3, <4>4, <4>5 DEF SameContent
    <3> QED
      BY <3>1, <3>2, <3>3 DEF Current
  <2>4. ASSUME About(l) \in {Null, EmptyNs} \/ l.cur_viewmode \notin ContentView
        PROVE  Current(f)
    <3>1. SameCursor(l, f) /\ f.cur_viewmode = l.cur_viewmode
      <4>1. sel_ct \in Ctype \cup {Null} /\ sel_ct \in {Null, SelectedCtype(l)}
        BY <1>5, <2>2
      <4> QED
        BY <1>2, <1>10, <4>1, AdjustRightSeen, AdjustSameView DEF SameCursor, SameView
    <3> QED
      BY <2>4, <3>1, SameAbout DEF Current
  <2> QED
    BY <2>3, <2>4 DEF f
<1> QED
  BY <1>12, <1>13

-----------------------------------------------------------------------------
(***************************************************************************)
(* The detail overlay and the selection (DetailOfSelection).  Overlaid:    *)
(* everything above the base view is an overlay, and the detail overlay is *)
(* only ever opened over the base view.  Veiled: while it is shown, or     *)
(* lies under another overlay, its field is the ctype c.                   *)
(***************************************************************************)

Overlaid(d) ==
    /\ d.overlay_stack # <<>> => d.cur_viewmode \in IsOverlay
    /\ \A i \in 2..Len(d.overlay_stack) : d.overlay_stack[i].viewmode \in IsOverlay
    /\ \A i \in 1..Len(d.overlay_stack) : d.overlay_stack[i].viewmode = "detail" => i = 2
    /\ d.cur_viewmode = "detail" => Len(d.overlay_stack) = 1

HasDetail(d) ==
    \/ d.cur_viewmode = "detail"
    \/ \E i \in 1..Len(d.overlay_stack) : d.overlay_stack[i].viewmode = "detail"

Veiled(d, c) ==
    /\ Overlaid(d)
    /\ HasDetail(d) => d.detail_field # Null /\ d.detail_field = c /\ ~d.startup_help

LEMMA BareVeiled ==
    ASSUME NEW d, d.overlay_stack = <<>>, d.cur_viewmode \notin IsOverlay, NEW c
    PROVE  Veiled(d, c)
BY DEF Veiled, Overlaid, HasDetail, IsOverlay

LEMMA VeiledCarries ==
    ASSUME NEW d, NEW e, NEW c, Veiled(d, c),
           e.cur_viewmode = d.cur_viewmode, e.overlay_stack = d.overlay_stack,
           e.detail_field = d.detail_field, e.startup_help => d.startup_help
    PROVE  Veiled(e, c)
BY DEF Veiled, Overlaid, HasDetail

(* Closing an overlay uncovers what lies under it; the detail overlay lies *)
(* on the base view alone.                                                 *)
LEMMA PopVeiled ==
    ASSUME NEW d \in State, NEW c, Veiled(d, c), Returns(d)
    PROVE  LET e == PopOverlay(d)
           IN  /\ Veiled(e, c)
               /\ d.cur_viewmode = "detail" => ~HasDetail(e)
               /\ Len(d.overlay_stack) = 1 => e.overlay_stack = <<>>
<1> DEFINE n == Len(d.overlay_stack)
           e == PopOverlay(d)
<1>1. CASE d.overlay_stack = <<>>
  BY <1>1 DEF PopOverlay, Veiled, Overlaid
<1>2. CASE d.overlay_stack # <<>>
  <2> DEFINE short == SubSeq(d.overlay_stack, 1, n - 1)
  <2>1. d.overlay_stack \in Seq(OverlayEntry) /\ n \in Nat \ {0}
    BY <1>2 DEF State
  <2>2. /\ e.cur_viewmode = d.overlay_stack[n].viewmode
        /\ e.overlay_stack = short
        /\ e.detail_field = d.detail_field /\ e.startup_help = d.startup_help
    BY <1>2 DEF PopOverlay, State
  <2>3. Len(short) = n - 1 /\ \A i \in 1..n - 1 : short[i] = d.overlay_stack[i]
    <3>1. 1 <= 1 /\ n - 1 <= n /\ n - 1 \in Nat
      <4> HIDE DEF n
      <4> QED
        BY <2>1
    <3> QED
      BY <2>1, <3>1
  <2>4. n = 1 => short = <<>>
    BY <2>1, <2>3
  <2> HIDE DEF short, n, e
  <2>5. HasDetail(e) => HasDetail(d)
    BY <2>1, <2>2, <2>3 DEF HasDetail, n
  <2>6. Overlaid(e)
    <3>0. /\ n # 1 => d.overlay_stack[n].viewmode \in IsOverlay
          /\ d.overlay_stack[n].viewmode = "detail" => n = 2
      <4>1. n \in 1..n /\ (n # 1 => n \in 2..n)
        BY <2>1
      <4>2. n = Len(d.overlay_stack)
        BY DEF n
      <4> QED
        BY <4>1, <4>2 DEF Veiled, Overlaid
    <3>1. e.overlay_stack # <<>> => e.cur_viewmode \in IsOverlay
      BY <2>2, <2>4, <3>0
    <3>2. e.cur_viewmode = "detail" => Len(e.overlay_stack) = 1
      BY <2>2, <2>3, <3>0
    <3>3. /\ \A i \in 2..n - 1 : short[i].viewmode \in IsOverlay
          /\ \A i \in 1..n - 1 : short[i].viewmode = "detail" => i = 2
      BY <2>1, <2>3 DEF Veiled, Overlaid, n
    <3> QED
      BY <2>2, <2>3, <3>1, <3>2, <3>3 DEF Overlaid
  <2>7. ASSUME d.cur_viewmode = "detail" PROVE ~HasDetail(e)
    <3>1. n = 1 /\ short = <<>>
      BY <2>4, <2>7 DEF Veiled, Overlaid, n
    <3>2. e.cur_viewmode \notin IsOverlay
      BY <1>2, <2>2, <3>1 DEF Returns
    <3> QED
      BY <2>2, <3>1, <3>2 DEF HasDetail, IsOverlay
  <2>8. Veiled(e, c)
    BY <2>2, <2>5, <2>6 DEF Veiled
  <2> QED
    BY <2>2, <2>4, <2>7, <2>8 DEF n, e
<1> QED
  BY <1>1, <1>2

LEMMA PushVeiled ==
    ASSUME NEW d \in State, NEW c, Veiled(d, c), Returns(d), NEW target \in IsOverlay,
           target = "detail" => /\ d.overlay_stack = <<>> /\ ~d.startup_help
                                /\ d.detail_field # Null /\ d.detail_field = c
    PROVE  Veiled(PushOverlay(d, target), c)
<1> DEFINE n == Len(d.overlay_stack)
           entry == [viewmode |-> d.cur_viewmode,
                     row      |-> d.right_row,
                     scroll   |-> d.right_scroll]
           long == Append(d.overlay_stack, entry)
           e == PushOverlay(d, target)
<1>1. d.overlay_stack \in Seq(OverlayEntry) /\ n \in Nat /\ entry.viewmode = d.cur_viewmode
  BY DEF State
<1>2. /\ e.cur_viewmode = target /\ e.overlay_stack = long
      /\ e.detail_field = d.detail_field /\ e.startup_help = d.startup_help
  BY DEF PushOverlay, State
<1> HIDE DEF entry, e
<1>3. /\ Len(long) = n + 1 /\ long[n + 1] = entry
      /\ \A i \in 1..n : long[i] = d.overlay_stack[i]
  BY <1>1
<1>4. d.overlay_stack = <<>> <=> n = 0
  BY <1>1
<1> HIDE DEF long
<1>5. d.cur_viewmode \in IsOverlay <=> n # 0
  BY <1>4 DEF Returns, Veiled, Overlaid
<1> HIDE DEF n
<1>6. Overlaid(e)
  <2>1. \A i \in 2..n + 1 : long[i].viewmode \in IsOverlay
    BY <1>1, <1>3, <1>5 DEF Veiled, Overlaid, n
  <2>2. \A i \in 1..n + 1 : long[i].viewmode = "detail" => i = 2
    BY <1>1, <1>3 DEF Veiled, Overlaid, n
  <2>3. target = "detail" => Len(long) = 1
    BY <1>3, <1>4
  <2> QED
    BY <1>2, <1>3, <2>1, <2>2, <2>3 DEF Overlaid
<1>7. HasDetail(e) => target = "detail" \/ HasDetail(d)
  BY <1>1, <1>2, <1>3 DEF HasDetail, n
<1> QED
  BY <1>2, <1>6, <1>7 DEF Veiled, e

(* An overlay survives a handler only on the ctype it was opened on, or as *)
(* the startup help.                                                       *)
LEMMA OverlaySurvives ==
    ASSUME NEW d \in State, NEW prev, Returns(d), Overlaid(d)
    PROVE  LET e == PopOverlayOnCtypeChange(d, prev).db
           IN  \/ e.overlay_stack = <<>> /\ e.cur_viewmode \notin IsOverlay
               \/ e = d /\ (SelectedCtype(d) = prev \/ d.startup_help)
<1> DEFINE s == LeaveOrReloadNsdep(d)
           t == RestoreBaseView(s, prev)
           u == PopOverlayOnCtypeChange(d, prev)
<1>1. s \in Stage /\ t \in Stage /\ u \in Stage /\ u = ActivateNsdep(t)
  BY LeaveOrReloadNsdepType, RestoreBaseViewType, PopOverlayOnCtypeChangeType
     DEF PopOverlayOnCtypeChange
<1>2. Returns(u.db)
  BY PopOverlayOnCtypeChangeSettles
<1>3. ASSUME u.db.overlay_stack = <<>> PROVE u.db.cur_viewmode \notin IsOverlay
  BY <1>2, <1>3 DEF Returns
<1>4. ASSUME NEW v, NEW x, NEW f \in State
      PROVE  /\ LoadContent(f, v, x).overlay_stack = f.overlay_stack
             /\ EnsureContent(f, v, x).overlay_stack = f.overlay_stack
             /\ DeactivateNsdep(f).overlay_stack = f.overlay_stack
  BY <1>4 DEF LoadContent, EnsureContent, DeactivateNsdep, State
<1>5. t.db.overlay_stack = <<>> => u.db.overlay_stack = <<>>
  <2> DEFINE loaded == LoadContent(t.db, "nsdep", SelectedNs(t.db))
             e == [loaded EXCEPT !.startup_help = FALSE,
                                 !.pre_nsdep_viewmode = t.db.cur_viewmode,
                                 !.cur_viewmode = "nsdep"]
  <2>1. \/ u.db = t.db
        \/ u.db = e /\ SelectedNs(t.db) # Null
    BY <1>1 DEF ActivateNsdep
  <2>2. t.db \in State
    BY <1>1 DEF Stage
  <2> HIDE DEF t, u
  <2>3. ASSUME SelectedNs(t.db) # Null
        PROVE  e.overlay_stack = t.db.overlay_stack
    <3>1. SelectedNs(t.db) \in Ns /\ "nsdep" \in ContentView
      BY <2>2, <2>3, SelectionType DEF ContentView, ScopeNs
    <3>2. loaded \in State /\ loaded.overlay_stack = t.db.overlay_stack
      BY <1>4, <2>2, <3>1, LoadContentType DEF Item
    <3> HIDE DEF loaded
    <3> QED
      BY <3>2 DEF State
  <2> QED
    BY <2>1, <2>3
<1>6. CASE d.overlay_stack = <<>>
  <2>1. s.db.overlay_stack = <<>>
    <3> DEFINE loaded == EnsureContent(d, d.cur_viewmode, SelectedNs(d))
               e == [loaded EXCEPT !.nsdep_ns = SelectedNs(d)]
    <3>1. \/ s.db \in {d, DeactivateNsdep(d)}
          \/ s.db = e /\ SelectedNs(d) # Null /\ d.cur_viewmode \in ScopeNs
      BY DEF LeaveOrReloadNsdep
    <3>2. ASSUME SelectedNs(d) # Null
          PROVE  e.overlay_stack = d.overlay_stack
      <4>1. SelectedNs(d) \in Ns /\ d.cur_viewmode \in Viewmode
        BY <3>2, SelectionType DEF State
      <4>2. loaded \in State /\ loaded.overlay_stack = d.overlay_stack
        BY <1>4, <4>1, EnsureContentType DEF Item
      <4> HIDE DEF loaded
      <4> QED
        BY <4>2 DEF State
    <3> QED
      BY <1>4, <1>6, <3>1, <3>2
  <2> HIDE DEF s
  <2>2. t = s
    BY <2>1 DEF RestoreBaseView
  <2> QED
    BY <1>3, <1>5, <2>1, <2>2
<1>7. CASE d.overlay_stack # <<>>
  <2>1. d.cur_viewmode \in IsOverlay /\ d.cur_viewmode \notin ScopeNs
    BY <1>7 DEF Overlaid, IsOverlay, ScopeNs
  <2>2. s = [db |-> d, changed |-> FALSE] /\ s.db = d /\ ~s.changed
    BY <2>1 DEF LeaveOrReloadNsdep
  <2>3. CASE SelectedCtype(d) = prev \/ d.startup_help
    <3>1. t = s
      BY <2>2, <2>3 DEF RestoreBaseView
    <3>2. u = t
      BY <1>1, <2>1, <2>2, <3>1 DEF ActivateNsdep
    <3> QED
      BY <2>2, <2>3, <3>1, <3>2
  <2>4. CASE ~(SelectedCtype(d) = prev \/ d.startup_help)
    <3> DEFINE vm == d.overlay_stack[1].viewmode
               base == [d EXCEPT !.overlay_stack = <<>>,
                                 !.cur_viewmode  = vm,
                                 !.detail_field  = Null]
    <3>1. t.db \in {base, DeactivateNsdep(base)}
      <4>1. \/ t = [db |-> DeactivateNsdep(base), changed |-> TRUE]
            \/ t = [s EXCEPT !.db = base]
        BY <1>7, <2>2, <2>4 DEF RestoreBaseView
      <4> QED
        BY <1>1, <4>1 DEF Stage
    <3>2. base \in State /\ base.overlay_stack = <<>>
      <4>1. vm \in Viewmode /\ <<>> \in Seq(OverlayEntry)
        <5>1. d.overlay_stack[1] \in OverlayEntry
          BY <1>7, OverlayEntryType DEF State
        <5> QED
          BY <5>1 DEF OverlayEntry
      <4> HIDE DEF vm
      <4> QED
        BY <4>1 DEF State
    <3> HIDE DEF base, t
    <3>3. t.db.overlay_stack = <<>>
      BY <1>4, <3>1, <3>2
    <3> QED
      BY <1>3, <1>5, <3>3 DEF t
  <2> QED
    BY <2>3, <2>4
<1> QED
  BY <1>6, <1>7

(* A cursor on a ctype is in the list, and stays there.                    *)
LEMMA SelectedInList ==
    ASSUME NEW d \in State, SelectedCtype(d) # Null
    PROVE  d.left_row < Len(d.left_item)
<1>1. SelectedItem(d) # Null
  BY SchemaAssumption DEF SelectedCtype
<1> QED
  BY <1>1 DEF SelectedItem

LEMMA PostActionVeiled ==
    ASSUME NEW d \in State, NEW snap \in State,
           Returns(d), Veiled(d, SelectedCtype(snap))
    PROVE  Veiled(PostAction(d, snap), SelectedCtype(PostAction(d, snap)))
<1> DEFINE prev == SelectedCtype(snap)
           e == PopOverlayOnCtypeChange(d, prev).db
           f == PostAction(d, snap)
<1>1. \/ e.overlay_stack = <<>> /\ e.cur_viewmode \notin IsOverlay
      \/ e = d /\ (SelectedCtype(d) = prev \/ d.startup_help)
  BY OverlaySurvives DEF Veiled
<1>2. /\ SameView(e, f) /\ SameList(d, f)
      /\ d.left_row < Len(d.left_item) => f.left_row = d.left_row
  BY PostActionSettles, PostActionFrame
<1> HIDE DEF e, f
<1>3. CASE e.overlay_stack = <<>> /\ e.cur_viewmode \notin IsOverlay
  BY <1>2, <1>3, BareVeiled DEF SameView, f
<1>4. CASE e = d /\ (SelectedCtype(d) = prev \/ d.startup_help)
  <2>1. Veiled(f, prev)
    BY <1>2, <1>4, VeiledCarries DEF SameView
  <2>2. ASSUME HasDetail(f) PROVE SelectedCtype(f) = prev
    <3>1. prev # Null /\ ~f.startup_help
      BY <2>1, <2>2 DEF Veiled
    <3>2. SelectedCtype(d) = prev
      BY <1>2, <1>4, <3>1 DEF SameView
    <3>3. SameCursor(d, f)
      BY <1>2, <3>1, <3>2, SelectedInList DEF SameCursor, SameList
    <3> QED
      BY <3>2, <3>3, CursorSelects
  <2>3. Veiled(f, SelectedCtype(f))
    BY <2>1, <2>2 DEF Veiled
  <2> QED
    BY <2>3 DEF f
<1> QED
  BY <1>1, <1>3, <1>4


-----------------------------------------------------------------------------
(* Operators of the left panel keep Sound. *)

LEMMA SoundType ==
    ASSUME NEW d, Sound(d)
    PROVE  d \in State
BY DEF Sound

(* Rebuilding the list makes it fresh, whatever was changed before. *)
LEMMA BuildSound ==
    ASSUME NEW d \in State, Saved(d), Open(d)
    PROVE  Sound(BuildLeftItems(d)) /\ Sound(BuildLeftItemsReset(d))
<1> DEFINE e == BuildLeftItems(d)
<1>1. e \in State /\ BuildLeftItemsReset(d) \in State
  BY BuildLeftItemsType
<1>2. /\ e.filter = d.filter /\ e.cur_filtertarget = d.cur_filtertarget
      /\ e.collapsed = d.collapsed /\ e.auto_expanded = d.auto_expanded
      /\ e.cur_mode = d.cur_mode /\ e.pre_filter = d.pre_filter
      /\ e.navstack = d.navstack
      /\ e.n_match = MatchingNs(d.filter, d.cur_filtertarget)
      /\ e.left_item = VisibleItems(d.filter, d.cur_filtertarget, d.collapsed)
  BY DEF BuildLeftItems, State
<1>3. Sound(e)
  BY <1>1, <1>2 DEF Sound, Saved, Fresh, Open
<1>4. BuildLeftItemsReset(d) = [e EXCEPT !.left_row = 0, !.left_scroll = 0]
  BY DEF BuildLeftItemsReset
<1> HIDE DEF e
<1>5. SameList(e, BuildLeftItemsReset(d))
  BY <1>1, <1>4 DEF SameList, State
<1> QED
  BY <1>1, <1>3, <1>5, SoundCarries DEF e

LEMMA SelectItemSound ==
    ASSUME NEW d, Sound(d), NEW x
    PROVE  Sound(SelectItem(d, x))
<1>1. d \in State
  BY SoundType
<1>2. SameList(d, SelectItem(d, x))
  BY <1>1 DEF SelectItem, SameList, State
<1> QED
  BY <1>1, <1>2, SelectItemType, SoundCarries

LEMMA SwitchToBrowseSound ==
    ASSUME NEW d, Sound(d)
    PROVE  Sound(SwitchToBrowse(d))
<1> DEFINE e == SwitchToBrowse(d)
<1>1. d \in State /\ e \in State
  BY SoundType, SwitchToBrowseType
<1>2. /\ e.filter = d.filter /\ e.cur_filtertarget = d.cur_filtertarget
      /\ e.collapsed = d.collapsed /\ e.auto_expanded = d.auto_expanded
      /\ e.n_match = d.n_match /\ e.left_item = d.left_item
      /\ e.cur_mode = "browse" /\ e.pre_filter = d.pre_filter
      /\ e.navstack = d.navstack
  BY <1>1 DEF SwitchToBrowse, State
<1> HIDE DEF e
<1> QED
  BY <1>1, <1>2 DEF Sound, Saved, Fresh, Open, e

(* A change of the filter, its target or the mode, or one that opens       *)
(* namespaces, followed by a rebuild.                                      *)
LEMMA RebuildSound ==
    ASSUME NEW d, Sound(d), NEW e \in State,
           e.pre_filter.target = Null => e.pre_filter = d.pre_filter,
           e.cur_mode \in {"browse", d.cur_mode} \/ e.pre_filter.target # Null,
           e.navstack = d.navstack,
           Open(e)
    PROVE  Sound(BuildLeftItems(e)) /\ Sound(BuildLeftItemsReset(e))
<1>1. Saved(e)
  BY DEF Sound, Saved
<1> QED
  BY <1>1, BuildSound

LEMMA RevealCtypeSound ==
    ASSUME NEW d, Sound(d), NEW c \in Ctype
    PROVE  Sound(RevealCtype(d, c))
<1> DEFINE e == SwitchToBrowse([d EXCEPT !.collapsed = d.collapsed \ {NsOf[c]},
                                         !.filter = <<>>,
                                         !.cur_filtertarget = DefaultFiltertarget])
<1>1. d \in State /\ Open(d)
  BY DEF Sound
<1>2. e \in State
  <2>1. [d EXCEPT !.collapsed = d.collapsed \ {NsOf[c]},
                  !.filter = <<>>,
                  !.cur_filtertarget = DefaultFiltertarget] \in State
    BY <1>1, DefaultsType DEF State
  <2> QED
    BY <2>1, SwitchToBrowseType
<1>3. /\ e.pre_filter = d.pre_filter /\ e.cur_mode = "browse"
      /\ e.navstack = d.navstack /\ e.auto_expanded = d.auto_expanded
      /\ e.collapsed = d.collapsed \ {NsOf[c]}
  BY <1>1 DEF SwitchToBrowse, State
<1>4. RevealCtype(d, c) = SelectItem(BuildLeftItems(e), c)
  BY DEF RevealCtype
<1> HIDE DEF e
<1>5. Open(e)
  BY <1>1, <1>3 DEF Open
<1>6. Sound(BuildLeftItems(e))
  BY <1>2, <1>3, <1>5, RebuildSound
<1> QED
  BY <1>4, <1>6, SelectItemSound

LEMMA ToggleCollapsedSound ==
    ASSUME NEW d, Sound(d), NEW n \in Ns
    PROVE  Sound(ToggleCollapsed(d, n))
<1> DEFINE opened == [d EXCEPT !.collapsed = d.collapsed \ {n}]
           closed == [d EXCEPT !.collapsed = d.collapsed \cup {n},
                               !.auto_expanded = d.auto_expanded \ {n}]
<1>1. d \in State /\ Open(d)
  BY DEF Sound
<1>2. /\ opened \in State
      /\ opened.pre_filter = d.pre_filter /\ opened.cur_mode = d.cur_mode
      /\ opened.navstack = d.navstack
      /\ opened.auto_expanded = d.auto_expanded
      /\ opened.collapsed = d.collapsed \ {n}
  BY <1>1 DEF State
<1>3. /\ closed \in State
      /\ closed.pre_filter = d.pre_filter /\ closed.cur_mode = d.cur_mode
      /\ closed.navstack = d.navstack
      /\ closed.auto_expanded = d.auto_expanded \ {n}
      /\ closed.collapsed = d.collapsed \cup {n}
  BY <1>1 DEF State
<1>4. ToggleCollapsed(d, n) \in {BuildLeftItems(opened), BuildLeftItems(closed)}
  BY DEF ToggleCollapsed
<1> HIDE DEF opened, closed
<1>5. Open(opened) /\ Open(closed)
  BY <1>1, <1>2, <1>3 DEF Open
<1> QED
  BY <1>2, <1>3, <1>4, <1>5, RebuildSound

-----------------------------------------------------------------------------
(* The filter line. *)

(* Opening the line saves the filter target: Escape has something to       *)
(* restore from then on.                                                   *)
LEMMA FilterStartSound ==
    ASSUME NEW d, Sound(d)
    PROVE  Sound(FilterStart(d)) /\ FilterStart(d).pre_filter.target # Null
<1> DEFINE saved == [text   |-> d.filter, target |-> d.cur_filtertarget,
                     row    |-> d.left_row, scroll |-> d.left_scroll]
           e == [d EXCEPT !.pre_filter = saved,
                          !.cur_mode = "filter",
                          !.filter = <<>>,
                          !.cur_filtertarget = DefaultFiltertarget]
           b == BuildLeftItemsReset(e)
<1>1. d \in State /\ Open(d)
  BY DEF Sound
<1>2. saved.target \in Filtertarget /\ saved \in PreFilter
  BY <1>1 DEF State, PreFilter
<1>3. saved.target # Null
  BY <1>2, SchemaAssumption
<1> HIDE DEF saved
<1>4. /\ e \in State
      /\ e.pre_filter = saved /\ e.navstack = d.navstack
      /\ e.auto_expanded = d.auto_expanded /\ e.collapsed = d.collapsed
  BY <1>1, <1>2, DefaultsType DEF State, Navmode
<1>5. FilterStart(d) = [b EXCEPT !.cur_panel = "ctype_list"]
  BY DEF FilterStart, saved
<1> HIDE DEF e
<1>6. Open(e)
  BY <1>1, <1>4 DEF Open
<1>7. Sound(b)
  BY <1>3, <1>4, <1>6, RebuildSound
<1>8. b.pre_filter = saved
  BY <1>4 DEF BuildLeftItemsReset, BuildLeftItems, State
<1> HIDE DEF b
<1>9. b \in State /\ FilterStart(d) \in State
  BY <1>1, <1>7, SoundType, FilterStartType
<1>10. SameList(b, FilterStart(d))
  BY <1>5, <1>9 DEF SameList, State
<1> QED
  BY <1>3, <1>7, <1>8, <1>9, <1>10, SoundCarries DEF SameList

LEMMA FilterCancelSound ==
    ASSUME NEW d, Sound(d), d.pre_filter.target # Null
    PROVE  Sound(FilterCancel(d))
<1> DEFINE e == [SwitchToBrowse(d) EXCEPT !.filter = d.pre_filter.text,
                                          !.cur_filtertarget = d.pre_filter.target]
           b == BuildLeftItems(e)
<1>1. d \in State /\ Open(d)
  BY DEF Sound
<1>2. SwitchToBrowse(d) \in State
  BY <1>1, SwitchToBrowseType
<1>3. d.pre_filter.text \in Seq(Char) /\ d.pre_filter.target \in Filtertarget
  BY <1>1 DEF State, PreFilter
<1>4. e \in State
  BY <1>2, <1>3 DEF State
<1>5. /\ e.pre_filter = d.pre_filter /\ e.navstack = d.navstack
      /\ e.cur_mode = "browse"
      /\ e.auto_expanded = d.auto_expanded /\ e.collapsed = d.collapsed
  BY <1>1 DEF SwitchToBrowse, State
<1>6. FilterCancel(d) = [b EXCEPT !.left_row = d.pre_filter.row,
                                  !.left_scroll = d.pre_filter.scroll]
  BY DEF FilterCancel
<1> HIDE DEF e
<1>7. Open(e)
  BY <1>1, <1>5 DEF Open
<1>8. Sound(b)
  BY <1>4, <1>5, <1>7, RebuildSound
<1> HIDE DEF b
<1>9. b \in State /\ FilterCancel(d) \in State
  BY <1>1, <1>8, SoundType, FilterCancelType
<1>10. SameList(b, FilterCancel(d))
  BY <1>6, <1>9 DEF SameList, State
<1> QED
  BY <1>8, <1>9, <1>10, SoundCarries

LEMMA FilterClearSound ==
    ASSUME NEW d, Sound(d)
    PROVE  Sound(FilterClear(d))
<1> DEFINE e == RecollapseAutoExpanded([d EXCEPT !.filter = <<>>])
<1>1. d \in State
  BY SoundType
<1>2. e \in State
  <2>1. [d EXCEPT !.filter = <<>>] \in State
    BY <1>1, DefaultsType DEF State
  <2> QED
    BY <2>1, RecollapseAutoExpandedType
<1>3. /\ e.pre_filter = d.pre_filter /\ e.navstack = d.navstack
      /\ e.cur_mode = d.cur_mode /\ e.auto_expanded = {}
  BY <1>1 DEF RecollapseAutoExpanded, State
<1>4. FilterClear(d) \in {d, BuildLeftItemsReset(e)}
  BY DEF FilterClear
<1> HIDE DEF e
<1>5. Open(e)
  BY <1>3 DEF Open
<1> QED
  BY <1>2, <1>3, <1>4, <1>5, RebuildSound

(* The text and the target of the filter, changed from the filter line or  *)
(* by a SetFilter command.                                                 *)
LEMMA SetFilterSound ==
    ASSUME NEW d, Sound(d), NEW text \in Seq(Char), NEW target \in Filtertarget
    PROVE  LET e == [d EXCEPT !.filter = text, !.cur_filtertarget = target]
           IN  Sound(BuildLeftItems(e)) /\ Sound(BuildLeftItemsReset(e))
<1> DEFINE e == [d EXCEPT !.filter = text, !.cur_filtertarget = target]
<1>1. d \in State /\ Open(d)
  BY DEF Sound
<1>2. /\ e \in State
      /\ e.pre_filter = d.pre_filter /\ e.navstack = d.navstack
      /\ e.cur_mode = d.cur_mode
      /\ e.auto_expanded = d.auto_expanded /\ e.collapsed = d.collapsed
  BY <1>1 DEF State
<1> HIDE DEF e
<1>3. Open(e)
  BY <1>1, <1>2 DEF Open
<1>4. Sound(BuildLeftItems(e)) /\ Sound(BuildLeftItemsReset(e))
  BY <1>2, <1>3, RebuildSound
<1> QED
  BY <1>4 DEF e

LEMMA FilterTextSound ==
    ASSUME NEW d, Sound(d), NEW text \in Seq(Char)
    PROVE  Sound(FilterText(d, text))
<1>1. d \in State
  BY SoundType
<1>2. d.cur_filtertarget \in Filtertarget
  BY <1>1 DEF State
<1>3. [d EXCEPT !.filter = text]
        = [d EXCEPT !.filter = text, !.cur_filtertarget = d.cur_filtertarget]
  BY <1>1 DEF State
<1> QED
  BY <1>2, <1>3, SetFilterSound DEF FilterText

LEMMA FilterCycleTargetSound ==
    ASSUME NEW d, Sound(d)
    PROVE  Sound(FilterCycleTarget(d))
<1> DEFINE target == NextFiltertarget[d.cur_filtertarget]
<1>1. d \in State
  BY SoundType
<1>2. target \in Filtertarget /\ d.filter \in Seq(Char)
  BY <1>1 DEF State, Filtertarget, NextFiltertarget
<1>3. FilterCycleTarget(d) = BuildLeftItemsReset([d EXCEPT !.cur_filtertarget = target])
  BY DEF FilterCycleTarget
<1> HIDE DEF target
<1>4. [d EXCEPT !.cur_filtertarget = target]
        = [d EXCEPT !.filter = d.filter, !.cur_filtertarget = target]
  BY <1>1 DEF State
<1>5. Sound(BuildLeftItemsReset([d EXCEPT !.filter = d.filter,
                                          !.cur_filtertarget = target]))
  BY <1>2, SetFilterSound
<1> QED
  BY <1>3, <1>4, <1>5

(* Accepting re-collapses the last session's namespaces first, so what it  *)
(* then expands is all that is marked as expanded.                         *)
LEMMA FilterAcceptSound ==
    ASSUME NEW d, Sound(d)
    PROVE  Sound(FilterAccept(d))
<1> DEFINE r == RecollapseAutoExpanded(d)
           e == ExpandMatching(r)
           b == BuildLeftItemsReset(e)
<1>1. d \in State
  BY SoundType
<1>2. r \in State
  BY <1>1, RecollapseAutoExpandedType
<1>3. /\ r.pre_filter = d.pre_filter /\ r.navstack = d.navstack
      /\ r.cur_mode = d.cur_mode /\ r.auto_expanded = {}
  BY <1>1 DEF RecollapseAutoExpanded, State
<1>4. FilterAccept(d) \in {SwitchToBrowse(d), SwitchToBrowse(SelectFirstCtype(b))}
  BY DEF FilterAccept
<1> HIDE DEF r
<1>5. /\ e \in State
      /\ e.pre_filter = r.pre_filter /\ e.navstack = r.navstack
      /\ e.cur_mode = r.cur_mode
      /\ e.auto_expanded = r.auto_expanded \cup (r.n_match \cap r.collapsed)
      /\ e.collapsed = r.collapsed \ r.n_match
  BY <1>2 DEF ExpandMatching, State
<1> HIDE DEF e
<1>6. Open(e)
  BY <1>3, <1>5 DEF Open
<1>7. Sound(b)
  BY <1>3, <1>5, <1>6, RebuildSound
<1> HIDE DEF b
<1>8. b \in State
  BY <1>7, SoundType
<1>9. SelectFirstCtype(b) \in State
  BY <1>8, SelectFirstCtypeType
<1>10. SameList(b, SelectFirstCtype(b))
  BY <1>8 DEF SelectFirstCtype, SameList, State
<1>11. Sound(SelectFirstCtype(b))
  BY <1>7, <1>9, <1>10, SoundCarries
<1> QED
  BY <1>4, <1>11, SwitchToBrowseSound

-----------------------------------------------------------------------------
(* The navigation stack. *)

LEMMA PushNaventrySound ==
    ASSUME NEW d, Sound(d), NEW x \in Item \cup {Null}
    PROVE  Sound(PushNaventry(d, x))
<1> DEFINE entry == [ctype        |-> x,
                     filter       |-> d.filter,
                     filtertarget |-> d.cur_filtertarget,
                     navmode      |-> d.cur_mode,
                     viewmode     |-> d.cur_viewmode,
                     left_scroll  |-> d.left_scroll,
                     right_row    |-> d.right_row,
                     right_scroll |-> d.right_scroll,
                     focus_panel  |-> d.cur_panel]
           stack == Append(d.navstack, entry)
           e     == [d EXCEPT !.navstack = stack]
<1>1. d \in State
  BY SoundType
<1>2. entry \in Naventry
  BY <1>1 DEF State, Naventry
<1>3. entry.navmode = d.cur_mode
  OBVIOUS
<1>4. PushNaventry(d, x) = e
  BY DEF PushNaventry
<1> HIDE DEF entry
<1>5. d.navstack \in Seq(Naventry)
  BY <1>1 DEF State
<1>6. /\ stack \in Seq(Naventry) /\ Len(stack) = Len(d.navstack) + 1
      /\ \A i \in 1..Len(stack) :
            stack[i] = entry \/ (i \in 1..Len(d.navstack) /\ stack[i] = d.navstack[i])
  BY <1>2, <1>5
<1> HIDE DEF stack
<1>7. /\ e \in State
      /\ e.filter = d.filter /\ e.cur_filtertarget = d.cur_filtertarget
      /\ e.collapsed = d.collapsed /\ e.auto_expanded = d.auto_expanded
      /\ e.n_match = d.n_match /\ e.left_item = d.left_item
      /\ e.cur_mode = d.cur_mode /\ e.pre_filter = d.pre_filter
      /\ e.navstack = stack
  BY <1>1, <1>6 DEF State
<1> HIDE DEF e
<1>8. Saved(e)
  BY <1>3, <1>6, <1>7 DEF Sound, Saved
<1> QED
  BY <1>4, <1>7, <1>8 DEF Sound, Fresh, Open

(* The right panel's view and the pending preview line are free to change. *)
LEMMA ViewChangeSound ==
    ASSUME NEW d, Sound(d), NEW vm \in Viewmode
    PROVE  Sound([d EXCEPT !.cur_viewmode = vm])
<1> DEFINE e == [d EXCEPT !.cur_viewmode = vm]
<1>1. d \in State
  BY SoundType
<1>2. e \in State /\ SameList(d, e)
  BY <1>1 DEF SameList, State
<1> QED
  BY <1>2, SoundCarries

LEMMA GoToCtypeSound ==
    ASSUME NEW d, Sound(d), NEW c \in Ctype, NEW dest \in Viewmode
    PROVE  /\ Sound(NavigateToTarget(d, c, dest))
           /\ Sound(GoToCtype(d, c, dest))
<1>1. SelectedCtype(d) \in Item \cup {Null}
  BY SoundType, SelectionType DEF Item
<1>2. Sound(NavigateToTarget(d, c, dest))
  BY <1>1, PushNaventrySound, RevealCtypeSound, ViewChangeSound DEF NavigateToTarget
<1>3. Sound([RevealCtype(d, c) EXCEPT !.cur_viewmode = dest])
  BY RevealCtypeSound, ViewChangeSound
<1> QED
  BY <1>2, <1>3 DEF GoToCtype

(* Going back never enters a filter line that was not opened before: the   *)
(* entries were pushed in a Saved record.                                  *)
LEMMA GoBackSound ==
    ASSUME NEW d, Sound(d)
    PROVE  Sound(navaction_go_back(d))
<1> DEFINE n     == Len(d.navstack)
           entry == d.navstack[n]
           collapsed == IF entry.ctype \in Ctype
                        THEN d.collapsed \ {NsOf[entry.ctype]} ELSE d.collapsed
           stack == SubSeq(d.navstack, 1, n - 1)
           e == [d EXCEPT !.filter = entry.filter,
                          !.cur_viewmode = entry.viewmode,
                          !.cur_mode = entry.navmode,
                          !.cur_filtertarget = entry.filtertarget,
                          !.collapsed = collapsed,
                          !.left_row = 0]
           target == IF entry.ctype = Null THEN EmptyNs ELSE entry.ctype
           s == SelectItem(BuildLeftItems(e), target)
           t == [s EXCEPT !.left_scroll  = entry.left_scroll,
                          !.right_row    = entry.right_row,
                          !.right_scroll = entry.right_scroll,
                          !.cur_panel    = entry.focus_panel,
                          !.navstack     = stack]
<1>1. d \in State
  BY SoundType
<1>2. d.navstack \in Seq(Naventry) /\ n \in Nat
  BY <1>1 DEF State
<1>3. CASE d.navstack = <<>>
  BY <1>3 DEF navaction_go_back
<1>4. CASE d.navstack # <<>>
  <2>1. entry \in Naventry /\ n \in 1..n
    BY <1>2, <1>4
  <2>2. /\ stack \in Seq(Naventry) /\ Len(stack) = n - 1
        /\ \A i \in 1..Len(stack) : stack[i] = d.navstack[i] /\ i \in 1..n
    BY <1>2, <1>4
  <2>3. /\ entry.filter \in Seq(Char) /\ entry.filtertarget \in Filtertarget
        /\ entry.navmode \in Navmode /\ entry.viewmode \in Viewmode
        /\ entry.left_scroll \in Nat /\ entry.right_row \in Nat
        /\ entry.right_scroll \in Nat /\ entry.focus_panel \in Panel
    BY <2>1 DEF Naventry
  <2>4. collapsed \in SUBSET Ns /\ d.auto_expanded \cap collapsed = {}
    BY <1>1 DEF Sound, Open, State
  <2>5. \/ d.pre_filter.target # Null
        \/ entry.navmode = "browse" /\ \A i \in 1..n : d.navstack[i].navmode = "browse"
    BY <2>1 DEF Sound, Saved
  <2> HIDE DEF entry, collapsed, stack, target, n
  <2>6. navaction_go_back(d) = t
    <3>1. s.navstack = d.navstack
      <4>1. e \in State /\ e.navstack = d.navstack
        BY <1>1, <2>3, <2>4 DEF State
      <4> HIDE DEF e
      <4>2. BuildLeftItems(e) \in State /\ BuildLeftItems(e).navstack = d.navstack
        BY <4>1, BuildLeftItemsType DEF BuildLeftItems, State
      <4> QED
        BY <4>2 DEF SelectItem, State
    <3> QED
      BY <1>4, <3>1 DEF navaction_go_back, entry, collapsed, stack, target, n
  <2>7. /\ e \in State
        /\ e.pre_filter = d.pre_filter /\ e.navstack = d.navstack
        /\ e.cur_mode = entry.navmode
        /\ e.auto_expanded = d.auto_expanded /\ e.collapsed = collapsed
    BY <1>1, <2>3, <2>4 DEF State
  <2> HIDE DEF e
  <2>8. Saved(e) /\ Open(e)
    BY <2>4, <2>5, <2>7 DEF Saved, Open, n
  <2>9. Sound(BuildLeftItems(e))
    BY <2>7, <2>8, BuildSound
  <2>10. Sound(s)
    BY <2>9, SelectItemSound
  <2>11. s \in State /\ s.pre_filter = d.pre_filter /\ s.cur_mode = entry.navmode
    <3>1. LET b == BuildLeftItems(e)
          IN  b \in State /\ b.pre_filter = d.pre_filter /\ b.cur_mode = entry.navmode
      BY <2>7, BuildLeftItemsType DEF BuildLeftItems, State
    <3> QED
      BY <2>10, <3>1, SoundType DEF SelectItem, State
  <2> HIDE DEF s
  <2>12. /\ t \in State
         /\ t.filter = s.filter /\ t.cur_filtertarget = s.cur_filtertarget
         /\ t.collapsed = s.collapsed /\ t.auto_expanded = s.auto_expanded
         /\ t.n_match = s.n_match /\ t.left_item = s.left_item
         /\ t.cur_mode = s.cur_mode /\ t.pre_filter = s.pre_filter
         /\ t.navstack = stack
    BY <2>2, <2>3, <2>11 DEF State
  <2> HIDE DEF t
  <2>13. Saved(t)
    BY <2>2, <2>5, <2>11, <2>12 DEF Saved
  <2>14. Sound(t)
    BY <2>10, <2>12, <2>13 DEF Sound, Fresh, Open
  <2> QED
    BY <2>6, <2>14
<1> QED
  BY <1>3, <1>4

-----------------------------------------------------------------------------
(* Enter. *)

LEMMA FollowRefLeftPanelSound ==
    ASSUME NEW d, Sound(d)
    PROVE  Sound(FollowRefLeftPanel(d))
<1>1. d \in State
  BY SoundType
<1>2. ASSUME NEW e, Sound(e)
      PROVE  Sound([e EXCEPT !.cur_panel = "content"])
  <2>1. e \in State
    BY <1>2, SoundType
  <2>2. /\ [e EXCEPT !.cur_panel = "content"] \in State
        /\ SameList(e, [e EXCEPT !.cur_panel = "content"])
    BY <2>1 DEF SameList, State, Panel
  <2> QED
    BY <1>2, <2>2, SoundCarries
<1>3. Sound(DeactivateNsdep(d))
  <2>1. SameList(d, DeactivateNsdep(d))
    BY <1>1 DEF SameList, State, DeactivateNsdep
  <2> QED
    BY <1>1, <2>1, DeactivateNsdepType, SoundCarries
<1>4. CASE SelectedItem(d) \in Ns
  <2>1. SelectedItem(d) \notin Ctype
    BY <1>4, SchemaAssumption
  <2>2. FollowRefLeftPanel(d) = ToggleCollapsed(d, SelectedItem(d))
    BY <1>4, <2>1 DEF FollowRefLeftPanel
  <2> QED
    BY <1>4, <2>2, ToggleCollapsedSound
<1>5. CASE SelectedItem(d) \in Ctype
  <2>1. SelectedItem(d) \notin Ns
    BY <1>5, SchemaAssumption
  <2>2. FollowRefLeftPanel(d)
           \in {[d EXCEPT !.cur_panel = "content"],
                [DeactivateNsdep(d) EXCEPT !.cur_panel = "content"]}
    BY <1>5, <2>1 DEF FollowRefLeftPanel
  <2> QED
    BY <1>2, <1>3, <2>2
<1>6. CASE SelectedItem(d) \notin Ns \cup Ctype
  BY <1>6 DEF FollowRefLeftPanel
<1> QED
  BY <1>4, <1>5, <1>6

LEMMA FollowRefFieldsSound ==
    ASSUME NEW d, Sound(d), OnField(d)
    PROVE  Sound(FollowRefFields(d))
<1> DEFINE target == FieldList(d, SelectedCtype(d))[d.right_row + 1]
<1>1. d \in State
  BY SoundType
<1>2. FieldList(d, SelectedCtype(d)) \in Seq(Ctype)
  BY <1>1, SelectionType, FieldListType
<1>3. d.right_row + 1 \in 1..Len(FieldList(d, SelectedCtype(d)))
  BY <1>1, <1>2 DEF OnField, State
<1>4. target \in Ctype
  BY <1>2, <1>3
<1> HIDE DEF target
<1> QED
  BY <1>4, DefaultsType, GoToCtypeSound DEF FollowRefFields, target

(* A link leads to a namespace in the nsdep view, to a ctype elsewhere.    *)
LEMMA LinksAtCursorType ==
    ASSUME NEW d \in State, NEW link \in LinksAtCursor(d)
    PROVE  /\ link \in Link
           /\ link.to \in IF d.cur_viewmode = "nsdep" THEN Ns ELSE Ctype
<1>1. d.cur_viewmode \in ContentView
  BY DEF LinksAtCursor, NavColView, ContentView, ScopeNs
<1>2. d.right_row + 1 \in 1..Len(Lines(d)) /\ link \in Lines(d)[d.right_row + 1]
  BY <1>1, LinesType DEF LinksAtCursor, State
<1> QED
  BY <1>1, <1>2, LinesType

LEMMA FollowLinkSound ==
    ASSUME NEW d, Sound(d), NEW link \in Link, link.to \in Ctype
    PROVE  Sound(FollowLink(d, link))
<1> DEFINE pending == IF d.cur_viewmode = "preview" THEN link
                      ELSE d.preview_nav_pending
           e == [d EXCEPT !.preview_nav_pending = pending]
<1>1. d \in State
  BY SoundType
<1>2. d.cur_viewmode \in Viewmode /\ d.nsdep_ns \in Item \cup {Null}
  BY <1>1 DEF State, Item
<1>3. pending \in Link \cup {Null}
  BY <1>1 DEF State
<1>4. FollowLink(d, link) \in {d, NavigateToTarget(e, link.to, d.cur_viewmode),
                               GoToCtype(PushNaventry(d, d.nsdep_ns), link.to,
                                         DefaultViewmode)}
  BY DEF FollowLink
<1> HIDE DEF pending
<1>5. e \in State /\ SameList(d, e)
  BY <1>1, <1>3 DEF SameList, State
<1> HIDE DEF e
<1>6. Sound(e)
  BY <1>5, SoundCarries
<1> QED
  BY <1>2, <1>4, <1>6, DefaultsType, PushNaventrySound, GoToCtypeSound

LEMMA FollowRefNsDepSound ==
    ASSUME NEW d, Sound(d), NEW n \in Ns
    PROVE  Sound(FollowRefNsDep(d, n))
<1> DEFINE from == IF SelectedCtype(d) # Null THEN SelectedCtype(d) ELSE d.nsdep_ns
           p == PushNaventry(d, from)
           e == SwitchToBrowse([p EXCEPT !.filter = <<>>,
                                         !.cur_filtertarget = DefaultFiltertarget])
<1>1. d \in State
  BY SoundType
<1>2. from \in Item \cup {Null}
  BY <1>1, SelectionType DEF State, Item
<1>3. FollowRefNsDep(d, n) = SelectItem(BuildLeftItems(e), n)
  BY DEF FollowRefNsDep
<1> HIDE DEF from
<1>4. Sound(p)
  BY <1>2, PushNaventrySound
<1> HIDE DEF p
<1>5. p \in State /\ Open(p)
  BY <1>4 DEF Sound
<1>6. e \in State
  <2>1. [p EXCEPT !.filter = <<>>, !.cur_filtertarget = DefaultFiltertarget] \in State
    BY <1>5, DefaultsType DEF State
  <2> QED
    BY <2>1, SwitchToBrowseType
<1>7. /\ e.pre_filter = p.pre_filter /\ e.cur_mode = "browse"
      /\ e.navstack = p.navstack
      /\ e.auto_expanded = p.auto_expanded /\ e.collapsed = p.collapsed
  BY <1>5 DEF SwitchToBrowse, State
<1> HIDE DEF e
<1>8. Open(e)
  BY <1>5, <1>7 DEF Open
<1>9. Sound(BuildLeftItems(e))
  BY <1>4, <1>6, <1>7, <1>8, RebuildSound
<1> QED
  BY <1>3, <1>9, SelectItemSound

-----------------------------------------------------------------------------
(* What the handlers start from. *)

LEMMA OverlaySound ==
    ASSUME NEW d, Sound(d), NEW target \in Viewmode
    PROVE  /\ Sound(PopOverlay(d))
           /\ Sound(PushOverlay(d, target))
           /\ Sound(PopEveryOverlay(d))
<1>1. d \in State
  BY SoundType
<1> QED
  BY <1>1, PopOverlayType, PushOverlayType, PopEveryOverlayType, OverlayFrame,
     SoundCarries

LEMMA ReadySound ==
    ASSUME NEW na, Sound(db)
    PROVE  Sound(Ready(na)) /\ Sound(Started)
<1> db \in State
  BY SoundType
<1>1. Started \in State /\ SameList(db, Started)
  BY DEF Started, SameList, State
<1>2. Sound(Started)
  BY <1>1, SoundCarries
<1>3. Sound(PopOverlay(Started))
  BY <1>2, OverlaySound, DefaultsType
<1> QED
  BY <1>2, <1>3 DEF Ready, Started

LEMMA LeaveFilterModeSound ==
    ASSUME NEW d, Sound(d)
    PROVE  Sound(LeaveFilterMode(d))
<1>1. d.cur_mode = "filter" => d.pre_filter.target # Null
  BY DEF Sound, Saved
<1> QED
  BY <1>1, FilterCancelSound DEF LeaveFilterMode

(* Moving the cursor of either panel. *)
LEMMA MoveSound ==
    ASSUME NEW d, Sound(d), NEW row \in Nat
    PROVE  Sound(SetSelRow(d, row))
<1> d \in State
  BY SoundType
<1>1. SetSelRow(d, row) \in State /\ SameList(d, SetSelRow(d, row))
  BY DEF SetSelRow, SameList, State
<1> QED
  BY <1>1, SoundCarries

LEMMA CountedSound ==
    ASSUME NEW d, Sound(d)
    PROVE  /\ Sound(Counted(d))
           /\ SelRow(d) \in Nat /\ LastSel(d) \in Nat
<1>1. d \in State
  BY SoundType
<1>2. Sound(EnsureRightPanel(d, SelectedCtype(d)))
  BY <1>1, SelectionType, EnsureRightPanelType, ContentFrame, SoundCarries
<1>3. left_item_N(d) \in Nat /\ RightPanelItemCount(d, SelectedCtype(d)) \in Nat
  <2>1. left_item_N(d) \in Nat
    BY <1>1 DEF left_item_N, State
  <2> QED
    BY <1>1, <2>1, SelectionType, RightPanelItemCountType
<1>4. SelRow(d) \in Nat
  BY <1>1 DEF SelRow, State
<1>5. LastSel(d) \in Nat
  BY <1>3 DEF LastSel, LastRow, Greatest
<1> QED
  BY <1>2, <1>4, <1>5 DEF Counted

LEMMA RowMoveSound ==
    ASSUME NEW d, Sound(d), NEW n \in Nat
    PROVE  Sound(RowUp(d, n)) /\ Sound(RowDown(d, n))
<1>1. Greatest(0, SelRow(d) - n) \in Nat
  BY CountedSound DEF Greatest
<1> DEFINE e == Counted(d)
<1>2. Sound(e) /\ SelRow(e) \in Nat /\ LastSel(e) \in Nat
  BY CountedSound
<1>3. RowDown(d, n) = SetSelRow(e, Least(LastSel(e), SelRow(e) + n))
  BY DEF RowDown
<1> HIDE DEF e
<1>4. Least(LastSel(e), SelRow(e) + n) \in Nat
  BY <1>2 DEF Least
<1> QED
  BY <1>1, <1>2, <1>3, <1>4, MoveSound DEF RowUp

(* Fields Sound does not speak of. *)
LEMMA FieldSound ==
    ASSUME NEW d, Sound(d), NEW x \in Ctype \cup {Null}, NEW p \in Panel
    PROVE  /\ Sound([d EXCEPT !.detail_field = x])
           /\ Sound([d EXCEPT !.cur_panel = p])
           /\ Sound([d EXCEPT !.running = FALSE])
<1> d \in State
  BY SoundType
<1>1. /\ [d EXCEPT !.detail_field = x] \in State
      /\ SameList(d, [d EXCEPT !.detail_field = x])
  BY DEF SameList, State
<1>2. /\ [d EXCEPT !.cur_panel = p] \in State
      /\ SameList(d, [d EXCEPT !.cur_panel = p])
  BY DEF SameList, State
<1>3. /\ [d EXCEPT !.running = FALSE] \in State
      /\ SameList(d, [d EXCEPT !.running = FALSE])
  BY DEF SameList, State
<1> QED
  BY <1>1, <1>2, <1>3, SoundCarries

-----------------------------------------------------------------------------
(* Every action keeps the invariant. *)

LEMMA InitSound ==
    ASSUME Init
    PROVE  Sound(db)
<1> DEFINE d == [running            |-> TRUE,
                 cur_mode           |-> "browse",
                 cur_panel          |-> "ctype_list",
                 filter             |-> <<>>,
                 cur_filtertarget   |-> DefaultFiltertarget,
                 pre_filter         |-> [text |-> <<>>, target |-> Null,
                                         row |-> 0, scroll |-> 0],
                 collapsed          |-> Ns,
                 auto_expanded      |-> {},
                 n_match            |-> {},
                 left_item          |-> <<>>,
                 left_row           |-> 0,
                 left_scroll        |-> 0,
                 right_row          |-> 0,
                 right_scroll       |-> 0,
                 cur_viewmode       |-> DefaultViewmode,
                 pre_nsdep_viewmode |-> Null,
                 nsdep_ns           |-> Null,
                 detail_field       |-> Null,
                 overlay_stack      |-> <<>>,
                 navstack           |-> <<>>,
                 startup_help       |-> TRUE,
                 shown              |-> [v \in ContentView |-> Null],
                 preview_nav_pending |-> Null,
                 term_hei           |-> StartHei]
<1>1. [text |-> <<>>, target |-> Null, row |-> 0, scroll |-> 0] \in PreFilter
  BY DefaultsType DEF PreFilter
<1>2. [v \in ContentView |-> Null] \in [ContentView -> Item \cup {Null}]
  OBVIOUS
<1>3. /\ "browse" \in Navmode /\ "ctype_list" \in Panel
      /\ <<>> \in Seq(Item) /\ <<>> \in Seq(OverlayEntry) /\ <<>> \in Seq(Naventry)
      /\ StartHei \in Nat
  BY InputAssumption DEF Navmode, Panel
<1>4. d \in State
  BY <1>1, <1>2, <1>3, DefaultsType DEF State
<1>5. Saved(d) /\ Open(d)
  BY DEF Saved, Open
<1>6. db = PushOverlay(BuildLeftItems(d), "help")
  BY DEF Init
<1> HIDE DEF d
<1> QED
  BY <1>4, <1>5, <1>6, BuildSound, OverlaySound DEF Viewmode

LEMMA MoveStep ==
    ASSUME Sound(db),
           \/ MoveUp \/ MoveDown \/ PageUp \/ PageDown \/ GoTop \/ GoBottom
           \/ SwitchPanelLeft \/ SwitchPanelRight
    PROVE  Sound(db')
<1> db \in State
  BY SoundType
<1>1. CASE MoveUp
  BY <1>1, RowMoveSound, FinishSound DEF MoveUp
<1>2. CASE MoveDown
  BY <1>2, RowMoveSound, FinishSound DEF MoveDown
<1>3. CASE PageUp
  BY <1>3, RowsType, RowMoveSound, FinishSound DEF PageUp
<1>4. CASE PageDown
  BY <1>4, RowsType, RowMoveSound, FinishSound DEF PageDown
<1>5. CASE GoTop
  BY <1>5, MoveSound, FinishSound DEF GoTop
<1>6. CASE GoBottom
  BY <1>6, CountedSound, MoveSound, FinishSound DEF GoBottom
<1>7. CASE SwitchPanelLeft
  <2>1. Sound([db EXCEPT !.cur_panel = "ctype_list"])
    BY FieldSound DEF Panel
  <2> QED
    BY <1>7, <2>1, FinishSound DEF SwitchPanelLeft
<1>8. CASE SwitchPanelRight
  <2>1. Sound([SwitchToBrowse(db) EXCEPT !.cur_panel = "content"])
    BY SwitchToBrowseSound, FieldSound DEF Panel
  <2> QED
    BY <1>8, <2>1, FinishSound DEF SwitchPanelRight
<1> QED
  BY <1>1, <1>2, <1>3, <1>4, <1>5, <1>6, <1>7, <1>8

LEMMA FollowStep ==
    ASSUME Sound(db),
           GoBack \/ FollowRefLeft \/ FollowRefField \/ FollowRefLink \/ FollowRefNothing
    PROVE  Sound(db')
<1> DEFINE d == Ready("follow_ref")
<1> db \in State
  BY SoundType
<1>1. Sound(d) /\ d \in State
  BY ReadySound, SoundType
<1>2. CASE GoBack
  BY <1>2, GoBackSound, FinishSound DEF GoBack
<1>3. CASE FollowRefLeft
  BY <1>1, <1>3, FollowRefLeftPanelSound, FinishSound DEF FollowRefLeft
<1>4. CASE FollowRefField
  BY <1>1, <1>4, FollowRefFieldsSound, FinishSound DEF FollowRefField
<1>5. CASE FollowRefLink
  <2>1. PICK link \in LinksAtCursor(d) :
           Finish("follow_ref", IF d.cur_viewmode = "nsdep"
                                THEN FollowRefNsDep(d, link.to)
                                ELSE FollowLink(d, link))
    BY <1>5 DEF FollowRefLink
  <2>2. /\ link \in Link
        /\ link.to \in IF d.cur_viewmode = "nsdep" THEN Ns ELSE Ctype
    BY <1>1, LinksAtCursorType
  <2> HIDE DEF d
  <2>3. CASE d.cur_viewmode = "nsdep"
    BY <1>1, <2>1, <2>2, <2>3, FollowRefNsDepSound, FinishSound
  <2>4. CASE d.cur_viewmode # "nsdep"
    BY <1>1, <2>1, <2>2, <2>4, FollowLinkSound, FinishSound
  <2> QED
    BY <2>3, <2>4
<1>6. CASE FollowRefNothing
  BY <1>1, <1>6, FinishSound DEF FollowRefNothing
<1> QED
  BY <1>2, <1>3, <1>4, <1>5, <1>6

LEMMA ViewStep ==
    ASSUME Sound(db),
           \/ CycleViewmode \/ ToggleView \/ ShowHelp \/ ShowDetail
           \/ DismissOrClear \/ FilterStatic \/ Quit
    PROVE  Sound(db')
<1> db \in State
  BY SoundType
<1>1. CASE CycleViewmode
  <2> DEFINE d == Ready("cycle_viewmode")
  <2>1. Sound(d) /\ d \in State
    BY ReadySound, SoundType
  <2>2. NextViewmode[d.cur_viewmode] \in Viewmode
    <3>1. \A v \in Viewmode : NextViewmode[v] \in Viewmode
      BY DEF Viewmode, NextViewmode
    <3>2. d.cur_viewmode \in Viewmode
      BY <2>1 DEF State
    <3> QED
      BY <3>1, <3>2
  <2>3. Finish("cycle_viewmode", [d EXCEPT !.cur_viewmode = NextViewmode[@]])
    BY <1>1 DEF CycleViewmode
  <2> HIDE DEF d
  <2>4. [d EXCEPT !.cur_viewmode = NextViewmode[@]]
           = [d EXCEPT !.cur_viewmode = NextViewmode[d.cur_viewmode]]
    OBVIOUS
  <2> QED
    BY <2>1, <2>2, <2>3, <2>4, ViewChangeSound, FinishSound
<1>2. CASE ToggleView
  <2>1. PICK na \in Toggle : Finish(na, ToggleViewmode(Ready(na), TargetViewmode[na]))
    BY <1>2 DEF ToggleView
  <2>2. TargetViewmode[na] \in Viewmode
    BY DEF Toggle, TargetViewmode, Viewmode
  <2> DEFINE d == Ready(na)
  <2>3. Sound(d)
    BY ReadySound
  <2>4. Finish(na, ToggleViewmode(d, TargetViewmode[na]))
    BY <2>1
  <2> HIDE DEF d
  <2>5. Sound(ToggleViewmode(d, TargetViewmode[na]))
    BY <2>2, <2>3, DefaultsType, ViewChangeSound DEF ToggleViewmode
  <2> QED
    BY <2>4, <2>5, FinishSound
<1>3. CASE ShowHelp
  <2>1. Sound(PopOverlay(db)) /\ Sound(PushOverlay(db, "help"))
    BY OverlaySound DEF Viewmode
  <2> QED
    BY <1>3, <2>1, FinishSound DEF ShowHelp
<1>4. CASE ShowDetail
  <2> DEFINE d == Ready("show_detail")
             e == IF d.cur_viewmode = "detail"
                  THEN [PopOverlay(d) EXCEPT !.detail_field = Null]
                  ELSE IF OnField(d)
                  THEN PushOverlay([d EXCEPT !.detail_field = SelectedCtype(d)],
                                   "detail")
                  ELSE d
  <2>1. Sound(d) /\ d \in State
    BY ReadySound, SoundType
  <2>2. Finish("show_detail", e)
    BY <1>4 DEF ShowDetail
  <2> HIDE DEF d
  <2>3. Sound([PopOverlay(d) EXCEPT !.detail_field = Null])
    BY <2>1, OverlaySound, DefaultsType, FieldSound DEF Panel
  <2>4. SelectedCtype(d) \in Ctype \cup {Null}
    BY <2>1, SelectionType
  <2>5. Sound([d EXCEPT !.detail_field = SelectedCtype(d)])
    BY <2>1, <2>4, FieldSound DEF Panel
  <2>6. Sound(PushOverlay([d EXCEPT !.detail_field = SelectedCtype(d)], "detail"))
    BY <2>5, OverlaySound DEF Viewmode
  <2>7. Sound(e)
    BY <2>1, <2>3, <2>6
  <2> QED
    BY <2>2, <2>7, FinishSound
<1>5. CASE DismissOrClear
  <2> DEFINE field == IF db.cur_viewmode = "detail" THEN Null
                      ELSE PopOverlay(db).detail_field
  <2>1. Sound(PopOverlay(db))
    BY OverlaySound, DefaultsType
  <2>2. field \in Ctype \cup {Null}
    BY <2>1, SoundType DEF State
  <2>3. Finish("dismiss_or_clear",
               IF db.overlay_stack = <<>> THEN FilterClear(db)
               ELSE [PopOverlay(db) EXCEPT !.detail_field = field])
    BY <1>5 DEF DismissOrClear
  <2> HIDE DEF field
  <2>4. Sound([PopOverlay(db) EXCEPT !.detail_field = field])
    BY <2>1, <2>2, FieldSound DEF Panel
  <2> QED
    BY <2>3, <2>4, FilterClearSound, FinishSound
<1>6. CASE FilterStatic
  BY <1>6, ReadySound, FinishSound DEF FilterStatic
<1>7. CASE Quit
  <2>1. Sound([db EXCEPT !.running = FALSE])
    BY FieldSound DEF Panel
  <2> QED
    BY <1>7, <2>1, FinishSound DEF Quit
<1> QED
  BY <1>1, <1>2, <1>3, <1>4, <1>5, <1>6, <1>7

LEMMA FilterStep ==
    ASSUME Sound(db),
           \/ StartFilter \/ AcceptFilter \/ CancelFilter \/ ClearFilter
           \/ CycleTarget \/ FilterBackspace \/ AppendSpace \/ AppendChar
    PROVE  Sound(db')
<1> db \in State
  BY SoundType
<1> db.filter \in Seq(Char)
  BY DEF State
<1>1. CASE StartFilter
  BY <1>1, ReadySound, FilterStartSound, FinishSound DEF StartFilter
<1>2. CASE AcceptFilter
  BY <1>2, FilterAcceptSound, FinishSound DEF AcceptFilter
<1>3. CASE CancelFilter
  (* Escape cancels in the filter line only: in a Saved record the target  *)
  (* to restore is there.                                                  *)
  <2>1. "filter_cancel" \in Keybind[db.cur_mode]
    BY <1>3 DEF CancelFilter, Press
  <2>2. db.cur_mode = "filter"
    <3>1. db.cur_mode \in {"browse", "filter"}
      BY DEF State, Navmode
    <3>2. "filter_cancel" \notin Keybind["browse"]
      BY DEF Keybind, Passive, NeedNoOverlay, Toggle, TargetViewmode
    <3> QED
      BY <2>1, <3>1, <3>2
  <2>3. db.pre_filter.target # Null
    BY <2>2 DEF Sound, Saved
  <2> QED
    BY <1>3, <2>3, FilterCancelSound, FinishSound DEF CancelFilter
<1>4. CASE ClearFilter
  BY <1>4, FilterClearSound, FinishSound DEF ClearFilter
<1>5. CASE CycleTarget
  BY <1>5, FilterCycleTargetSound, FinishSound DEF CycleTarget
<1>6. CASE FilterBackspace
  <2>1. CASE db.filter = <<>>
    BY <1>6, <2>1, FinishSound DEF FilterBackspace
  <2>2. CASE db.filter # <<>>
    <3>1. SubSeq(db.filter, 1, Len(db.filter) - 1) \in Seq(Char)
      BY <2>2
    <3>2. Sound(FilterText(db, SubSeq(db.filter, 1, Len(db.filter) - 1)))
      BY <3>1, FilterTextSound
    <3> QED
      BY <1>6, <2>2, <3>2, FinishSound DEF FilterBackspace
  <2> QED
    BY <2>1, <2>2
<1>7. CASE AppendSpace
  <2>1. Append(db.filter, Space) \in Seq(Char)
    BY SchemaAssumption
  <2> QED
    BY <1>7, <2>1, FilterTextSound, FinishSound DEF AppendSpace
<1>8. CASE AppendChar
  <2>1. PICK c \in Char : Finish("move_up", FilterText(db, Append(db.filter, c)))
    BY <1>8 DEF AppendChar
  <2>2. Append(db.filter, c) \in Seq(Char)
    OBVIOUS
  <2> QED
    BY <2>1, <2>2, FilterTextSound, FinishSound
<1> QED
  BY <1>1, <1>2, <1>3, <1>4, <1>5, <1>6, <1>7, <1>8

LEMMA HeadlessStep ==
    ASSUME Sound(db), Headless
    PROVE  Sound(db')
<1> db \in State
  BY SoundType
<1> DEFINE d == LeaveFilterMode(Started)
<1>1. Sound(Started) /\ Started \in State
  BY ReadySound, SoundType
<1>2. Sound(d) /\ d \in State
  BY <1>1, LeaveFilterModeSound, SoundType
<1>3. CASE RejectCommand
  BY <1>1, <1>3 DEF RejectCommand
<1>4. CASE HeadlessGoBack
  BY <1>1, <1>4, GoBackSound, PostActionSound DEF HeadlessGoBack
<1>5. CASE HeadlessSetView
  <2>1. PICK vm \in Viewmode :
           db' = PostAction(IF vm \in IsOverlay THEN PushOverlay(d, vm)
                            ELSE [PopEveryOverlay(d) EXCEPT !.cur_viewmode = vm], d)
    BY <1>5, InputAssumption DEF HeadlessSetView
  <2> HIDE DEF d
  <2>2. /\ Sound(PushOverlay(d, vm))
        /\ Sound([PopEveryOverlay(d) EXCEPT !.cur_viewmode = vm])
    BY <1>2, OverlaySound, ViewChangeSound
  <2> QED
    BY <1>2, <2>1, <2>2, PostActionSound
<1>6. CASE HeadlessSetFilter
  <2>1. PICK arg \in [text : Seq(Char), target : Filtertarget] :
           db' = PostAction(
                IF Blank(arg.text) THEN FilterCleared(d)
                ELSE FilterAccept(BuildLeftItemsReset(
                        [FilterStart(d) EXCEPT !.filter = arg.text,
                                               !.cur_filtertarget = arg.target])), d)
    BY <1>6, InputAssumption DEF HeadlessSetFilter
  <2> HIDE DEF d
  <2>2. Sound(FilterCleared(d))
    BY <1>2, DefaultsType, SetFilterSound DEF FilterCleared
  <2>3. Sound(BuildLeftItemsReset([FilterStart(d) EXCEPT !.filter = arg.text,
                                                !.cur_filtertarget = arg.target]))
    BY <1>2, FilterStartSound, SetFilterSound
  <2> QED
    BY <1>2, <2>1, <2>2, <2>3, FilterAcceptSound, PostActionSound
<1>7. CASE HeadlessNavigate
  <2> DEFINE e == PopEveryOverlay(d)
  <2>1. PICK c \in Ctype, vm \in Viewmode : db' = PostAction(GoToCtype(e, c, vm), e)
    BY <1>7, InputAssumption, DefaultsType DEF HeadlessNavigate, State
  <2> HIDE DEF d
  <2>2. Sound(e) /\ e \in State
    BY <1>2, OverlaySound, DefaultsType, SoundType
  <2> HIDE DEF e
  <2> QED
    BY <2>1, <2>2, GoToCtypeSound, PostActionSound
<1>8. CASE SetTermSize
  <2>1. PICK h \in Nat :
           db' = AdjustRight(AdjustLeft([db EXCEPT !.term_hei = h]), SelectedCtype(db))
    BY <1>8, InputAssumption DEF SetTermSize
  <2> DEFINE r == [db EXCEPT !.term_hei = h]
  <2>2. r \in State /\ SameList(db, r)
    BY DEF SameList, State
  <2>3. db' = AdjustRight(AdjustLeft(r), SelectedCtype(db))
    BY <2>1
  <2> HIDE DEF r
  <2>4. SelectedCtype(db) \in Ctype \cup {Null}
    BY SelectionType
  <2>5. AdjustLeft(r) \in State /\ SameList(r, AdjustLeft(r))
    BY <2>2, <2>4, AdjustLeftType, AdjustFrame
  <2>6. db' \in State /\ SameList(AdjustLeft(r), db')
    BY <2>3, <2>4, <2>5, AdjustRightType, AdjustFrame
  <2>7. SameList(db, db')
    BY <2>2, <2>5, <2>6, SameListTransitive
  <2> QED
    BY <2>6, <2>7, SoundCarries
<1> QED
  BY <1>3, <1>4, <1>5, <1>6, <1>7, <1>8 DEF Headless

(* Sound is inductive. *)
LEMMA NextSound ==
    ASSUME Sound(db), [Next]_vars
    PROVE  Sound(db')
<1>1. CASE Key
  BY <1>1, MoveStep, FollowStep, ViewStep, FilterStep DEF Key
<1>2. CASE Headless
  BY <1>2, HeadlessStep
<1>3. CASE Exited \/ UNCHANGED vars
  BY <1>3 DEF Exited, vars
<1> QED
  BY <1>1, <1>2, <1>3 DEF Next

(* Whatever keys and commands come, in any schema: the record has its      *)
(* shape, Escape has a filter target to restore, the list is the one the   *)
(* filter calls for, and what the filter expanded is open.                 *)
THEOREM SoundInvariant == Spec => []Sound(db)
<1>1. Init => Sound(db)
  BY InitSound
<1>2. Sound(db) /\ [Next]_vars => Sound(db)'
  BY NextSound
<1> QED
  BY <1>1, <1>2, PTL DEF Spec

(* Every reachable record has the declared shape, whatever schema is       *)
(* browsed and however long the session: among other things, Escape never  *)
(* restores a NULL filter target, and the entry a pop or go_back reads is  *)
(* there.                                                                  *)
THEOREM TypeCorrect == Spec => []TypeOK
<1>1. Sound(db) => TypeOK
  BY DEF Sound, TypeOK
<1> QED
  BY <1>1, SoundInvariant, PTL

(* The rows on the screen are always the ones the filter, its target and   *)
(* the collapse flags call for: no key or command leaves the list stale.   *)
THEOREM ListIsFresh == Spec => []LeftFresh
<1>1. Sound(db) => LeftFresh
  BY DEF Sound, Fresh, LeftFresh
<1> QED
  BY <1>1, SoundInvariant, PTL

(* RecollapseAutoExpanded collapses only namespaces the filter expanded    *)
(* and the user has left open.                                             *)
THEOREM AutoExpandedStaysOpen == Spec => []AutoExpandedOpen
<1>1. Sound(db) => AutoExpandedOpen
  BY DEF Sound, Open, AutoExpandedOpen
<1> QED
  BY <1>1, SoundInvariant, PTL

-----------------------------------------------------------------------------
(***************************************************************************)
(* The views and the filter line.  None of OverlayReturns, FilterModeAlone *)
(* and StartupHelpFirst is inductive by itself: an overlay is left for     *)
(* good only if it is not typed over, the filter line opens only where no  *)
(* overlay is, and the startup help gives way to both.  Placed is all      *)
(* three, of a Sound record.                                               *)
(***************************************************************************)

Backs(d) ==
    \A i \in 1..Len(d.navstack) :
        d.navstack[i].viewmode \notin IsOverlay /\ d.navstack[i].navmode = "browse"

Alone(d) ==
    d.cur_mode = "filter" =>
        /\ d.cur_panel = "ctype_list"
        /\ d.cur_viewmode \notin IsOverlay
        /\ d.pre_filter.target # Null

HelpFirst(d) ==
    d.startup_help =>
        /\ d.cur_viewmode = "help" /\ Len(d.overlay_stack) = 1
        /\ d.navstack = <<>> /\ d.filter = <<>> /\ d.collapsed = Ns

Left(d) == Sound(d) /\ Returns(d) /\ Backs(d) /\ Alone(d)

Placed(d) == Left(d) /\ HelpFirst(d)

(* And both cursors are on the screen (SelectionInView).                   *)
Steady(d) == Placed(d) /\ BothSeen(d)

(* PostAction after a handler. *)
LEMMA PostActionPlaced ==
    ASSUME NEW d, NEW snap \in State, Placed(d)
    PROVE  Steady(PostAction(d, snap))
<1> DEFINE e == PostAction(d, snap)
<1>1. d \in State
  BY SoundType DEF Placed, Left
<1>2. Sound(e) /\ SameList(d, e) /\ Returns(e) /\ Settles(d, e) /\ BothSeen(e)
  BY <1>1, PostActionSound, PostActionFrame, PostActionSettles DEF Placed, Left
<1> HIDE DEF e
<1>3. Backs(e)
  BY <1>2 DEF Placed, Left, Backs, SameList
<1>4. Alone(e)
  BY <1>2 DEF Placed, Left, Alone, SameList, Settles
<1>5. HelpFirst(e)
  BY <1>2 DEF Placed, HelpFirst, SameList, Settles
<1> QED
  BY <1>2, <1>3, <1>4, <1>5 DEF Steady, Placed, Left, e

(* What takes the list, the view and the history of a record to another.   *)
LEMMA LeftCarries ==
    ASSUME NEW d, NEW e, Left(d), Sound(e), SameList(d, e), SameView(d, e)
    PROVE  Left(e) /\ (HelpFirst(d) => HelpFirst(e))
BY DEF Left, Backs, Alone, HelpFirst, SameList, SameView, Returns

(* An overlay popped or pushed, and the loop that pops every one of them.  *)
LEMMA OverlayLeft ==
    ASSUME NEW d, Sound(d), Returns(d), Backs(d), d.cur_mode = "browse"
    PROVE  /\ Left(PopOverlay(d)) /\ Left(PopEveryOverlay(d))
           /\ PopEveryOverlay(d).cur_viewmode \notin IsOverlay
           /\ Len(d.overlay_stack) = 1 => PopOverlay(d).cur_viewmode \notin IsOverlay
           /\ PopOverlay(d).startup_help = d.startup_help
           /\ PopEveryOverlay(d).startup_help = d.startup_help
           /\ \A target \in IsOverlay : Left(PushOverlay(d, target))
<1> DEFINE n == Len(d.overlay_stack)
           e == PopOverlay(d)
           b == PopEveryOverlay(d)
<1>1. d \in State
  BY SoundType
<1>2. d.overlay_stack \in Seq(OverlayEntry) /\ n \in Nat
  BY <1>1 DEF State
<1>3. Sound(e) /\ Sound(b) /\ SameList(d, e) /\ SameList(d, b)
  BY <1>1, OverlaySound, OverlayFrame, DefaultsType
<1>4. /\ Returns(e) /\ e.startup_help = d.startup_help
      /\ n = 1 => e.cur_viewmode \notin IsOverlay
  <2>1. CASE d.overlay_stack = <<>>
    BY <2>1 DEF PopOverlay
  <2>2. CASE d.overlay_stack # <<>>
    <3>1. /\ e.cur_viewmode = d.overlay_stack[n].viewmode
          /\ e.overlay_stack = SubSeq(d.overlay_stack, 1, n - 1)
          /\ e.pre_nsdep_viewmode = d.pre_nsdep_viewmode
          /\ e.startup_help = d.startup_help
      BY <1>1, <2>2 DEF PopOverlay, State
    <3>2. n \in Nat \ {0}
      BY <1>2, <2>2
    <3>3. CASE n = 1
      <4>1. e.overlay_stack = <<>>
        BY <1>2, <3>1, <3>3
      <4> QED
        BY <2>2, <3>1, <3>3, <4>1 DEF Returns
    <3>4. CASE n # 1
      <4>1. e.overlay_stack # <<>> /\ e.overlay_stack[1] = d.overlay_stack[1]
        <5> DEFINE short == SubSeq(d.overlay_stack, 1, n - 1)
        <5>1. n - 1 \in Nat /\ 1 <= n - 1 /\ n - 1 <= n
          <6> HIDE DEF n
          <6> QED
            BY <3>2, <3>4
        <5>2. Len(short) = n - 1 /\ short[1] = d.overlay_stack[1]
          BY <1>2, <5>1
        <5>3. short # <<>>
          <6>1. Len(short) # 0
            <7> HIDE DEF n, short
            <7> QED
              BY <5>1, <5>2
          <6> HIDE DEF short
          <6> QED
            BY <6>1
        <5> QED
          BY <3>1, <5>2, <5>3
      <4> QED
        BY <2>2, <3>1, <3>4, <4>1 DEF Returns
    <3> QED
      BY <3>3, <3>4
  <2> QED
    BY <2>1, <2>2
<1>5. /\ Returns(b) /\ b.startup_help = d.startup_help
      /\ b.cur_viewmode \notin IsOverlay
  <2>1. CASE d.overlay_stack = <<>>
    BY <2>1 DEF PopEveryOverlay, Returns
  <2>2. CASE d.overlay_stack # <<>>
    <3>1. /\ b.cur_viewmode = d.overlay_stack[1].viewmode
          /\ b.overlay_stack = <<>>
          /\ b.pre_nsdep_viewmode = d.pre_nsdep_viewmode
          /\ b.startup_help = d.startup_help
      BY <1>1, <2>2 DEF PopEveryOverlay, State
    <3> QED
      BY <2>2, <3>1 DEF Returns
  <2> QED
    BY <2>1, <2>2
<1>6. ASSUME NEW target \in IsOverlay
      PROVE  Left(PushOverlay(d, target))
  <2> DEFINE entry == [viewmode |-> d.cur_viewmode,
                       row      |-> d.right_row,
                       scroll   |-> d.right_scroll]
             p == PushOverlay(d, target)
  <2>1. target \in Viewmode
    BY DEF IsOverlay, Viewmode
  <2>2. Sound(p) /\ SameList(d, p)
    BY <1>1, <2>1, OverlaySound, OverlayFrame
  <2>3. /\ p.cur_viewmode = target /\ p.overlay_stack = Append(d.overlay_stack, entry)
        /\ p.pre_nsdep_viewmode = d.pre_nsdep_viewmode
    BY <1>1 DEF PushOverlay, State
  <2>4. entry.viewmode = d.cur_viewmode
    OBVIOUS
  <2> HIDE DEF entry, p
  <2>5. p.overlay_stack # <<>>
    BY <1>2, <2>3
  <2>6. p.overlay_stack[1].viewmode \notin IsOverlay
    <3>1. CASE d.overlay_stack = <<>>
      <4>1. p.overlay_stack[1] = entry
        BY <2>3, <3>1
      <4> QED
        BY <2>4, <3>1, <4>1 DEF Returns
    <3>2. CASE d.overlay_stack # <<>>
      <4>1. p.overlay_stack[1] = d.overlay_stack[1]
        BY <1>2, <2>3, <3>2
      <4> QED
        BY <3>2, <4>1 DEF Returns
    <3> QED
      BY <3>1, <3>2
  <2>7. Returns(p)
    BY <2>3, <2>5, <2>6 DEF Returns
  <2>8. Left(p)
    BY <2>2, <2>7 DEF Left, Backs, Alone, SameList
  <2> QED
    BY <2>8 DEF p
<1> HIDE DEF e, b
<1>7. Left(e) /\ Left(b)
  BY <1>3, <1>4, <1>5 DEF Left, Backs, Alone, SameList
<1> QED
  BY <1>4, <1>5, <1>6, <1>7 DEF e, b

(* The handler of an action, then DismissStartupHelp and PostAction. *)
LEMMA FinishPlaced ==
    ASSUME NEW na, NEW d, Left(d), na \in Passive => HelpFirst(d),
           db \in State, Finish(na, d)
    PROVE  Steady(db')
<1> DEFINE e == [d EXCEPT !.startup_help = FALSE]
           f == DismissStartupHelp(d, na)
<1>1. d \in State
  BY SoundType DEF Left
<1>2. e \in State /\ SameList(d, e)
  <2>1. e \in State
    BY <1>1 DEF State
  <2>2. SameList(d, e)
    BY <1>1 DEF State, SameList
  <2> QED
    BY <2>1, <2>2
<1>3. /\ e.cur_panel = d.cur_panel /\ e.cur_viewmode = d.cur_viewmode
      /\ e.pre_nsdep_viewmode = d.pre_nsdep_viewmode
      /\ e.overlay_stack = d.overlay_stack /\ e.startup_help = FALSE
  BY <1>1 DEF State
<1> HIDE DEF e
<1>4. Left(e)
  <2>1. Sound(e)
    BY <1>2, SoundCarries DEF Left
  <2> QED
    BY <1>2, <1>3, <2>1 DEF Left, Returns, Backs, Alone, SameList
<1>5. CASE d.startup_help /\ (na \notin Passive \/ d.cur_viewmode # "help")
  <2>1. ASSUME d.cur_viewmode = "help" PROVE Placed(f)
    <3>1. f = PopOverlay(e)
      BY <1>5, <2>1 DEF DismissStartupHelp, e
    <3>2. e.cur_mode = "browse"
      <4>1. e.cur_mode \in {"browse", "filter"}
        BY <1>2 DEF State, Navmode
      <4> QED
        BY <1>3, <1>4, <2>1, <4>1 DEF Left, Alone, IsOverlay
    <3>3. Left(f) /\ f.startup_help = FALSE
      BY <1>3, <1>4, <3>1, <3>2, OverlayLeft DEF Left
    <3> QED
      BY <3>3 DEF Placed, HelpFirst
  <2>2. ASSUME d.cur_viewmode # "help" PROVE Placed(f)
    <3>1. f = e
      BY <1>5, <2>2 DEF DismissStartupHelp, e
    <3> QED
      BY <1>3, <1>4, <3>1 DEF Placed, HelpFirst
  <2>3. Placed(f)
    BY <2>1, <2>2
  <2> QED
    BY <2>3, PostActionPlaced DEF Finish
<1>6. CASE ~(d.startup_help /\ (na \notin Passive \/ d.cur_viewmode # "help"))
  <2>1. f = d
    BY <1>6 DEF DismissStartupHelp
  <2>2. Placed(d)
    BY <1>6 DEF Placed, HelpFirst
  <2> QED
    BY <2>1, <2>2, PostActionPlaced DEF Finish
<1> QED
  BY <1>5, <1>6

-----------------------------------------------------------------------------
(* The operations of the left panel show the same view. *)

SameShown(d, e) ==
    /\ e.cur_viewmode = d.cur_viewmode
    /\ e.pre_nsdep_viewmode = d.pre_nsdep_viewmode
    /\ e.overlay_stack = d.overlay_stack /\ e.startup_help = d.startup_help
    /\ e.navstack = d.navstack /\ e.detail_field = d.detail_field

SameLine(d, e) ==
    /\ e.cur_mode = d.cur_mode /\ e.cur_panel = d.cur_panel
    /\ e.pre_filter = d.pre_filter

LEMMA ShownLeft ==
    ASSUME NEW d, NEW e, Returns(d), Backs(d), Sound(e), SameShown(d, e),
           \/ e.cur_mode = "browse"
           \/ Alone(d) /\ SameLine(d, e)
           \/ Alone(e)
    PROVE  Left(e)
BY DEF Left, Returns, Backs, Alone, SameShown, SameLine

LEMMA LineLeft ==
    ASSUME NEW d, NEW e, Left(d), Sound(e), SameShown(d, e), SameLine(d, e)
    PROVE  Left(e)
BY ShownLeft DEF Left

LEMMA SameTransitive ==
    ASSUME NEW d, NEW e, NEW f, SameShown(d, e), SameShown(e, f)
    PROVE  SameShown(d, f) /\ (SameLine(d, e) /\ SameLine(e, f) => SameLine(d, f))
BY DEF SameShown, SameLine

LEMMA ListShown ==
    ASSUME NEW d \in State, NEW x
    PROVE  /\ SameShown(d, BuildLeftItems(d)) /\ SameLine(d, BuildLeftItems(d))
           /\ SameShown(d, BuildLeftItemsReset(d)) /\ SameLine(d, BuildLeftItemsReset(d))
           /\ SameShown(d, SelectItem(d, x)) /\ SameLine(d, SelectItem(d, x))
           /\ SameShown(d, SelectFirstCtype(d)) /\ SameLine(d, SelectFirstCtype(d))
           /\ SameShown(d, RecollapseAutoExpanded(d))
           /\ SameLine(d, RecollapseAutoExpanded(d))
           /\ SameShown(d, ExpandMatching(d)) /\ SameLine(d, ExpandMatching(d))
           /\ SameShown(d, SwitchToBrowse(d)) /\ SwitchToBrowse(d).cur_mode = "browse"
<1>1. SameShown(d, BuildLeftItems(d)) /\ SameLine(d, BuildLeftItems(d))
  BY DEF SameShown, SameLine, BuildLeftItems, State
<1>2. SameShown(d, BuildLeftItemsReset(d)) /\ SameLine(d, BuildLeftItemsReset(d))
  <2> DEFINE e == BuildLeftItems(d)
  <2>1. e \in State
    BY BuildLeftItemsType
  <2>2. BuildLeftItemsReset(d) = [e EXCEPT !.left_row = 0, !.left_scroll = 0]
    BY DEF BuildLeftItemsReset
  <2> HIDE DEF e
  <2>3. SameShown(e, BuildLeftItemsReset(d)) /\ SameLine(e, BuildLeftItemsReset(d))
    BY <2>1, <2>2 DEF SameShown, SameLine, State
  <2> QED
    BY <1>1, <2>3, SameTransitive DEF e
<1>3. SameShown(d, SelectItem(d, x)) /\ SameLine(d, SelectItem(d, x))
  BY DEF SameShown, SameLine, SelectItem, State
<1>4. SameShown(d, SelectFirstCtype(d)) /\ SameLine(d, SelectFirstCtype(d))
  BY DEF SameShown, SameLine, SelectFirstCtype, State
<1>5. /\ SameShown(d, RecollapseAutoExpanded(d))
      /\ SameLine(d, RecollapseAutoExpanded(d))
  BY DEF SameShown, SameLine, RecollapseAutoExpanded, State
<1>6. SameShown(d, ExpandMatching(d)) /\ SameLine(d, ExpandMatching(d))
  BY DEF SameShown, SameLine, ExpandMatching, State
<1>7. SameShown(d, SwitchToBrowse(d)) /\ SwitchToBrowse(d).cur_mode = "browse"
  BY DEF SameShown, SwitchToBrowse, State
<1> QED
  BY <1>1, <1>2, <1>3, <1>4, <1>5, <1>6, <1>7

LEMMA RevealCtypeShown ==
    ASSUME NEW d \in State, NEW c \in Ctype
    PROVE  SameShown(d, RevealCtype(d, c)) /\ RevealCtype(d, c).cur_mode = "browse"
<1> DEFINE e == [d EXCEPT !.collapsed = d.collapsed \ {NsOf[c]},
                          !.filter = <<>>,
                          !.cur_filtertarget = DefaultFiltertarget]
           s == SwitchToBrowse(e)
           b == BuildLeftItems(s)
<1>1. e \in State /\ SameShown(d, e)
  BY DefaultsType DEF State, SameShown
<1>2. RevealCtype(d, c) = SelectItem(b, c)
  BY DEF RevealCtype
<1> HIDE DEF e
<1>3. s \in State /\ SameShown(e, s) /\ s.cur_mode = "browse"
  BY <1>1, SwitchToBrowseType, ListShown
<1> HIDE DEF s
<1>4. b \in State /\ SameShown(s, b) /\ SameLine(s, b)
  BY <1>3, BuildLeftItemsType, ListShown
<1> HIDE DEF b
<1>5. SameShown(b, RevealCtype(d, c)) /\ SameLine(b, RevealCtype(d, c))
  BY <1>2, <1>4, ListShown
<1> QED
  BY <1>1, <1>3, <1>4, <1>5, SameTransitive DEF SameLine

LEMMA ToggleCollapsedShown ==
    ASSUME NEW d \in State, NEW n \in Ns
    PROVE  SameShown(d, ToggleCollapsed(d, n)) /\ SameLine(d, ToggleCollapsed(d, n))
<1> DEFINE opened == [d EXCEPT !.collapsed = d.collapsed \ {n}]
           closed == [d EXCEPT !.collapsed = d.collapsed \cup {n},
                               !.auto_expanded = d.auto_expanded \ {n}]
<1>1. /\ opened \in State /\ closed \in State
      /\ SameShown(d, opened) /\ SameLine(d, opened)
      /\ SameShown(d, closed) /\ SameLine(d, closed)
  BY DEF State, SameShown, SameLine
<1>2. ToggleCollapsed(d, n) \in {BuildLeftItems(opened), BuildLeftItems(closed)}
  BY DEF ToggleCollapsed
<1> HIDE DEF opened, closed
<1> QED
  BY <1>1, <1>2, ListShown, SameTransitive

(* Opening the filter line is the one way into it. *)
LEMMA FilterStartShown ==
    ASSUME NEW d \in State
    PROVE  /\ SameShown(d, FilterStart(d))
           /\ FilterStart(d).cur_panel = "ctype_list"
<1> DEFINE saved == [text   |-> d.filter, target |-> d.cur_filtertarget,
                     row    |-> d.left_row, scroll |-> d.left_scroll]
           e == [d EXCEPT !.pre_filter = saved,
                          !.cur_mode = "filter",
                          !.filter = <<>>,
                          !.cur_filtertarget = DefaultFiltertarget]
           b == BuildLeftItemsReset(e)
<1>1. saved \in PreFilter
  BY DEF State, PreFilter
<1>2. FilterStart(d) = [b EXCEPT !.cur_panel = "ctype_list"]
  BY DEF FilterStart
<1> HIDE DEF saved
<1>3. e \in State /\ SameShown(d, e)
  BY <1>1, DefaultsType DEF State, Navmode, SameShown
<1> HIDE DEF e
<1>4. b \in State /\ SameShown(e, b)
  BY <1>3, BuildLeftItemsType, ListShown
<1> HIDE DEF b
<1>5. /\ SameShown(b, FilterStart(d))
      /\ FilterStart(d).cur_panel = "ctype_list"
  BY <1>2, <1>4 DEF State, SameShown
<1> QED
  BY <1>3, <1>4, <1>5, SameTransitive

LEMMA FilterCancelShown ==
    ASSUME NEW d \in State, d.pre_filter.target # Null
    PROVE  SameShown(d, FilterCancel(d)) /\ FilterCancel(d).cur_mode = "browse"
<1> DEFINE s == SwitchToBrowse(d)
           e == [s EXCEPT !.filter = d.pre_filter.text,
                          !.cur_filtertarget = d.pre_filter.target]
           b == BuildLeftItems(e)
<1>1. s \in State /\ SameShown(d, s) /\ s.cur_mode = "browse"
  BY SwitchToBrowseType, ListShown
<1>2. d.pre_filter.text \in Seq(Char) /\ d.pre_filter.target \in Filtertarget
  BY DEF State, PreFilter
<1>3. FilterCancel(d) = [b EXCEPT !.left_row = d.pre_filter.row,
                                  !.left_scroll = d.pre_filter.scroll]
  BY DEF FilterCancel
<1> HIDE DEF s
<1>4. e \in State /\ SameShown(s, e) /\ SameLine(s, e)
  BY <1>1, <1>2 DEF State, SameShown, SameLine
<1> HIDE DEF e
<1>5. b \in State /\ SameShown(e, b) /\ SameLine(e, b)
  BY <1>4, BuildLeftItemsType, ListShown
<1> HIDE DEF b
<1>6. SameShown(b, FilterCancel(d)) /\ SameLine(b, FilterCancel(d))
  BY <1>3, <1>5 DEF State, SameShown, SameLine
<1> QED
  BY <1>1, <1>4, <1>5, <1>6, SameTransitive DEF SameLine

LEMMA FilterClearShown ==
    ASSUME NEW d \in State
    PROVE  SameShown(d, FilterClear(d)) /\ SameLine(d, FilterClear(d))
<1> DEFINE e == [d EXCEPT !.filter = <<>>]
           r == RecollapseAutoExpanded(e)
<1>1. e \in State /\ SameShown(d, e) /\ SameLine(d, e)
  BY DefaultsType DEF State, SameShown, SameLine
<1>2. FilterClear(d) \in {d, BuildLeftItemsReset(r)}
  BY DEF FilterClear
<1>3. SameShown(d, d) /\ SameLine(d, d)
  BY DEF SameShown, SameLine
<1> HIDE DEF e
<1>4. r \in State /\ SameShown(e, r) /\ SameLine(e, r)
  BY <1>1, RecollapseAutoExpandedType, ListShown
<1> HIDE DEF r
<1>5. /\ SameShown(r, BuildLeftItemsReset(r))
      /\ SameLine(r, BuildLeftItemsReset(r))
  BY <1>4, ListShown
<1> QED
  BY <1>1, <1>2, <1>3, <1>4, <1>5, SameTransitive

LEMMA FilterEditShown ==
    ASSUME NEW d \in State, NEW text \in Seq(Char)
    PROVE  /\ SameShown(d, FilterText(d, text)) /\ SameLine(d, FilterText(d, text))
           /\ SameShown(d, FilterCycleTarget(d)) /\ SameLine(d, FilterCycleTarget(d))
<1> DEFINE e == [d EXCEPT !.filter = text]
           t == NextFiltertarget[d.cur_filtertarget]
           f == [d EXCEPT !.cur_filtertarget = t]
<1>1. e \in State /\ SameShown(d, e) /\ SameLine(d, e)
  BY DEF State, SameShown, SameLine
<1>2. t \in Filtertarget
  BY DEF State, Filtertarget, NextFiltertarget
<1>3. FilterText(d, text) = BuildLeftItemsReset(e)
      /\ FilterCycleTarget(d) = BuildLeftItemsReset(f)
  BY DEF FilterText, FilterCycleTarget
<1> HIDE DEF e, t
<1>4. f \in State /\ SameShown(d, f) /\ SameLine(d, f)
  BY <1>2 DEF State, SameShown, SameLine
<1> HIDE DEF f
<1> QED
  BY <1>1, <1>3, <1>4, ListShown, SameTransitive

LEMMA FilterAcceptShown ==
    ASSUME NEW d \in State
    PROVE  SameShown(d, FilterAccept(d)) /\ FilterAccept(d).cur_mode = "browse"
<1> DEFINE r == RecollapseAutoExpanded(d)
           e == ExpandMatching(r)
           b == BuildLeftItemsReset(e)
           f == SelectFirstCtype(b)
<1>1. r \in State /\ SameShown(d, r)
  BY RecollapseAutoExpandedType, ListShown
<1>2. FilterAccept(d) \in {SwitchToBrowse(d), SwitchToBrowse(f)}
  BY DEF FilterAccept
<1> HIDE DEF r
<1>3. e \in State /\ SameShown(r, e)
  <2>1. e \in State
    BY <1>1 DEF ExpandMatching, State
  <2> QED
    BY <1>1, <2>1, ListShown
<1> HIDE DEF e
<1>4. b \in State /\ SameShown(e, b)
  BY <1>3, BuildLeftItemsType, ListShown
<1> HIDE DEF b
<1>5. f \in State /\ SameShown(b, f)
  BY <1>4, SelectFirstCtypeType, ListShown
<1> HIDE DEF f
<1>6. SameShown(d, f)
  BY <1>1, <1>3, <1>4, <1>5, SameTransitive
<1> QED
  BY <1>2, <1>5, <1>6, ListShown, SameTransitive

-----------------------------------------------------------------------------
(* The navigation stack: followed from where no overlay is and the filter  *)
(* line is closed.                                                         *)

Bare(d) ==
    /\ Sound(d) /\ Returns(d) /\ Backs(d)
    /\ d.cur_mode = "browse" /\ d.cur_viewmode \notin IsOverlay

LEMMA BareLeft ==
    ASSUME NEW d, Bare(d)
    PROVE  Left(d)
BY DEF Bare, Left, Alone

LEMMA BareCarries ==
    ASSUME NEW d, NEW e, Bare(d), Sound(e), SameShown(d, e),
           e.cur_mode = "browse" \/ SameLine(d, e)
    PROVE  Bare(e)
BY DEF Bare, SameShown, SameLine, Returns, Backs

(* The place pushed has no overlay either: go_back cannot restore one. *)
LEMMA PushNaventryBare ==
    ASSUME NEW d, Bare(d), NEW x \in Item \cup {Null}
    PROVE  Bare(PushNaventry(d, x)) /\ PushNaventry(d, x).cur_viewmode = d.cur_viewmode
<1> DEFINE entry == [ctype        |-> x,
                     filter       |-> d.filter,
                     filtertarget |-> d.cur_filtertarget,
                     navmode      |-> d.cur_mode,
                     viewmode     |-> d.cur_viewmode,
                     left_scroll  |-> d.left_scroll,
                     right_row    |-> d.right_row,
                     right_scroll |-> d.right_scroll,
                     focus_panel  |-> d.cur_panel]
           stack == Append(d.navstack, entry)
           e     == PushNaventry(d, x)
<1>1. d \in State
  BY SoundType DEF Bare
<1>2. d.navstack \in Seq(Naventry)
  BY <1>1 DEF State
<1>3. entry.navmode = "browse" /\ entry.viewmode = d.cur_viewmode
  BY DEF Bare
<1>4. /\ e.navstack = stack /\ e.cur_viewmode = d.cur_viewmode
      /\ e.pre_nsdep_viewmode = d.pre_nsdep_viewmode
      /\ e.overlay_stack = d.overlay_stack /\ e.cur_mode = d.cur_mode
  BY <1>1 DEF PushNaventry, State
<1> HIDE DEF entry, e
<1>5. \A i \in 1..Len(stack) :
        stack[i] = entry \/ (i \in 1..Len(d.navstack) /\ stack[i] = d.navstack[i])
  BY <1>2
<1> HIDE DEF stack
<1>6. Backs(e)
  BY <1>3, <1>4, <1>5 DEF Bare, Backs
<1>7. Sound(e)
  BY PushNaventrySound DEF Bare, e
<1>8. Bare(e)
  BY <1>4, <1>6, <1>7 DEF Bare, Returns
<1> QED
  BY <1>4, <1>8 DEF e

LEMMA ViewChangeBare ==
    ASSUME NEW d, Bare(d), NEW vm \in Viewmode \ IsOverlay
    PROVE  Bare([d EXCEPT !.cur_viewmode = vm])
<1> DEFINE e == [d EXCEPT !.cur_viewmode = vm]
<1>1. d \in State
  BY SoundType DEF Bare
<1>2. Sound(e)
  BY ViewChangeSound DEF Bare
<1>3. /\ e.cur_viewmode = vm /\ e.pre_nsdep_viewmode = d.pre_nsdep_viewmode
      /\ e.overlay_stack = d.overlay_stack /\ e.cur_mode = d.cur_mode
      /\ e.navstack = d.navstack
  BY <1>1 DEF State
<1> HIDE DEF e
<1>4. Bare(e)
  BY <1>2, <1>3 DEF Bare, Returns, Backs
<1> QED
  BY <1>4 DEF e

LEMMA GoToCtypeBare ==
    ASSUME NEW d, Bare(d), NEW c \in Ctype, NEW dest \in Viewmode \ IsOverlay
    PROVE  Bare(NavigateToTarget(d, c, dest)) /\ Bare(GoToCtype(d, c, dest))
<1>1. SelectedCtype(d) \in Item \cup {Null}
  BY SoundType, SelectionType DEF Item, Bare
<1>2. ASSUME NEW e, Bare(e) PROVE Bare([RevealCtype(e, c) EXCEPT !.cur_viewmode = dest])
  <2>1. e \in State /\ Sound(RevealCtype(e, c))
    BY <1>2, SoundType, RevealCtypeSound DEF Bare
  <2>2. Bare(RevealCtype(e, c))
    BY <1>2, <2>1, RevealCtypeShown, BareCarries
  <2> QED
    BY <2>2, ViewChangeBare
<1>3. Bare(PushNaventry(d, SelectedCtype(d)))
  BY <1>1, PushNaventryBare
<1> QED
  BY <1>2, <1>3 DEF GoToCtype, NavigateToTarget

(* The default view, like every view a toggle asks for, is no overlay.     *)
LEMMA ViewsBare ==
    /\ DefaultViewmode \in Viewmode \ IsOverlay
    /\ \A v \in Viewmode : NextViewmode[v] \in Viewmode \ IsOverlay
    /\ \A na \in Toggle : TargetViewmode[na] \in Viewmode \ IsOverlay
BY DEF DefaultViewmode, Viewmode, IsOverlay, NextViewmode, Toggle, TargetViewmode

(* Navigation leaves the overlays, and with them the startup help, alone. *)
SameOverlays(d, e) ==
    e.startup_help = d.startup_help /\ e.overlay_stack = d.overlay_stack

LEMMA NavigationOverlays ==
    ASSUME NEW d, Sound(d), NEW c \in Ctype, NEW dest \in Viewmode
    PROVE  /\ SameOverlays(d, GoToCtype(d, c, dest))
           /\ SameOverlays(d, NavigateToTarget(d, c, dest))
<1>1. d \in State
  BY SoundType
<1>2. ASSUME NEW e \in State
      PROVE  SameOverlays(e, [RevealCtype(e, c) EXCEPT !.cur_viewmode = dest])
  <2>1. RevealCtype(e, c) \in State /\ SameShown(e, RevealCtype(e, c))
    BY <1>2, RevealCtypeType, RevealCtypeShown
  <2> QED
    BY <2>1 DEF SameShown, SameOverlays, State
<1> DEFINE p == PushNaventry(d, SelectedCtype(d))
<1>3. p \in State /\ SameOverlays(d, p)
  <2>1. SelectedCtype(d) \in Item \cup {Null}
    BY <1>1, SelectionType DEF Item
  <2>2. p \in State
    BY <2>1, PushNaventrySound, SoundType
  <2>3. SameOverlays(d, p)
    BY <1>1 DEF PushNaventry, SameOverlays, State
  <2> QED
    BY <2>2, <2>3
<1>4. NavigateToTarget(d, c, dest) = [RevealCtype(p, c) EXCEPT !.cur_viewmode = dest]
  BY DEF NavigateToTarget
<1> HIDE DEF p
<1>5. SameOverlays(d, NavigateToTarget(d, c, dest))
  BY <1>2, <1>3, <1>4 DEF SameOverlays
<1>6. GoToCtype(d, c, dest) \in {NavigateToTarget(d, c, dest),
                                 [RevealCtype(d, c) EXCEPT !.cur_viewmode = dest]}
  BY DEF GoToCtype
<1> QED
  BY <1>1, <1>2, <1>5, <1>6

LEMMA PushNaventryOverlays ==
    ASSUME NEW d \in State, NEW x
    PROVE  SameOverlays(d, PushNaventry(d, x))
BY DEF PushNaventry, SameOverlays, State

LEMMA ShownOverlays ==
    ASSUME NEW d, NEW e, SameShown(d, e)
    PROVE  SameOverlays(d, e)
BY DEF SameShown, SameOverlays

LEMMA FollowRefBare ==
    ASSUME NEW d, Bare(d)
    PROVE  /\ OnField(d) => /\ Bare(FollowRefFields(d))
                            /\ SameOverlays(d, FollowRefFields(d))
           /\ \A link \in LinksAtCursor(d) :
                 LET e == IF d.cur_viewmode = "nsdep" THEN FollowRefNsDep(d, link.to)
                          ELSE FollowLink(d, link)
                 IN  Bare(e) /\ SameOverlays(d, e)
           /\ Bare(FollowRefLeftPanel(d)) /\ SameOverlays(d, FollowRefLeftPanel(d))
<1>1. d \in State /\ Sound(d)
  BY SoundType DEF Bare
<1>2. d.cur_viewmode \in Viewmode \ IsOverlay
  BY <1>1 DEF State, Bare
<1>3. ASSUME OnField(d)
      PROVE  Bare(FollowRefFields(d)) /\ SameOverlays(d, FollowRefFields(d))
  <2> DEFINE target == FieldList(d, SelectedCtype(d))[d.right_row + 1]
  <2>1. FieldList(d, SelectedCtype(d)) \in Seq(Ctype)
    BY <1>1, SelectionType, FieldListType
  <2>2. d.right_row + 1 \in 1..Len(FieldList(d, SelectedCtype(d)))
    BY <1>1, <1>3, <2>1 DEF OnField, State
  <2>3. target \in Ctype
    BY <2>1, <2>2
  <2> HIDE DEF target
  <2> QED
    BY <1>1, <2>3, ViewsBare, GoToCtypeBare, NavigationOverlays
       DEF FollowRefFields, SameOverlays, target
<1>4. ASSUME NEW link \in LinksAtCursor(d), d.cur_viewmode # "nsdep"
      PROVE  Bare(FollowLink(d, link)) /\ SameOverlays(d, FollowLink(d, link))
  <2> DEFINE pending == IF d.cur_viewmode = "preview" THEN link
                        ELSE d.preview_nav_pending
             e == [d EXCEPT !.preview_nav_pending = pending]
  <2>1. link \in Link /\ link.to \in Ctype
    BY <1>1, <1>4, LinksAtCursorType
  <2>2. pending \in Link \cup {Null} /\ d.nsdep_ns \in Item \cup {Null}
    BY <1>1, <2>1 DEF State, Item
  <2>3. FollowLink(d, link) \in {d, NavigateToTarget(e, link.to, d.cur_viewmode),
                                 GoToCtype(PushNaventry(d, d.nsdep_ns), link.to,
                                           DefaultViewmode)}
    BY DEF FollowLink
  <2> HIDE DEF pending
  <2>4. e \in State /\ SameList(d, e) /\ SameShown(d, e) /\ SameLine(d, e)
    BY <1>1, <2>2 DEF SameList, SameShown, SameLine, State
  <2> HIDE DEF e
  <2>5. Bare(e)
    BY <1>1, <2>4, SoundCarries, BareCarries
  <2>6. /\ Bare(NavigateToTarget(e, link.to, d.cur_viewmode))
        /\ SameOverlays(e, NavigateToTarget(e, link.to, d.cur_viewmode))
    BY <1>2, <2>1, <2>5, GoToCtypeBare, NavigationOverlays DEF Bare
  <2> DEFINE p == PushNaventry(d, d.nsdep_ns)
  <2>7. Bare(p) /\ SameOverlays(d, p)
    BY <1>1, <2>2, PushNaventryBare, PushNaventryOverlays
  <2> HIDE DEF p
  <2>8. /\ Bare(GoToCtype(p, link.to, DefaultViewmode))
        /\ SameOverlays(p, GoToCtype(p, link.to, DefaultViewmode))
    BY <2>1, <2>7, ViewsBare, GoToCtypeBare, NavigationOverlays DEF Bare
  <2>9. SameOverlays(d, e) /\ SameOverlays(d, d)
    BY <2>4, ShownOverlays DEF SameOverlays
  <2> QED
    BY <2>3, <2>6, <2>7, <2>8, <2>9 DEF SameOverlays, p
<1>5. ASSUME NEW link \in LinksAtCursor(d), d.cur_viewmode = "nsdep"
      PROVE  Bare(FollowRefNsDep(d, link.to)) /\ SameOverlays(d, FollowRefNsDep(d, link.to))
  <2> DEFINE from == IF SelectedCtype(d) # Null THEN SelectedCtype(d) ELSE d.nsdep_ns
             p == PushNaventry(d, from)
             q == [p EXCEPT !.filter = <<>>, !.cur_filtertarget = DefaultFiltertarget]
             s == SwitchToBrowse(q)
             b == BuildLeftItems(s)
  <2>1. link.to \in Ns
    BY <1>1, <1>5, LinksAtCursorType
  <2>2. from \in Item \cup {Null}
    BY <1>1, SelectionType DEF State, Item
  <2>3. FollowRefNsDep(d, link.to) = SelectItem(b, link.to)
    BY DEF FollowRefNsDep
  <2> HIDE DEF from
  <2>4. Bare(p) /\ p \in State /\ SameOverlays(d, p)
    BY <1>1, <2>2, PushNaventryBare, PushNaventryOverlays, SoundType DEF Bare
  <2> HIDE DEF p
  <2>5. q \in State /\ SameShown(p, q)
    BY <2>4, DefaultsType DEF SameShown, State
  <2> HIDE DEF q
  <2>6. s \in State /\ SameShown(q, s) /\ s.cur_mode = "browse"
    BY <2>5, SwitchToBrowseType, ListShown
  <2> HIDE DEF s
  <2>7. b \in State /\ SameShown(s, b) /\ SameLine(s, b)
    BY <2>6, BuildLeftItemsType, ListShown
  <2> HIDE DEF b
  <2>8. SameShown(b, SelectItem(b, link.to)) /\ SameLine(b, SelectItem(b, link.to))
    BY <2>7, ListShown
  <2>9. /\ SameShown(p, SelectItem(b, link.to))
        /\ SelectItem(b, link.to).cur_mode = "browse"
    BY <2>5, <2>6, <2>7, <2>8, SameTransitive DEF SameLine
  <2>10. Sound(SelectItem(b, link.to))
    BY <1>1, <2>1, <2>3, FollowRefNsDepSound
  <2> QED
    BY <2>3, <2>4, <2>9, <2>10, BareCarries, ShownOverlays DEF SameOverlays
<1>6. Bare(FollowRefLeftPanel(d)) /\ SameOverlays(d, FollowRefLeftPanel(d))
  <2>1. Sound(FollowRefLeftPanel(d))
    BY <1>1, FollowRefLeftPanelSound
  <2>2. CASE SelectedItem(d) \in Ns
    <3>1. SelectedItem(d) \notin Ctype
      BY <2>2, SchemaAssumption
    <3>2. FollowRefLeftPanel(d) = ToggleCollapsed(d, SelectedItem(d))
      BY <2>2, <3>1 DEF FollowRefLeftPanel
    <3> QED
      BY <1>1, <2>1, <2>2, <3>2, ToggleCollapsedShown, ShownOverlays, BareCarries
  <2>3. CASE SelectedItem(d) \in Ctype
    <3> DEFINE e == IF d.cur_viewmode \in ScopeNs THEN DeactivateNsdep(d) ELSE d
    <3>1. SelectedItem(d) \notin Ns
      BY <2>3, SchemaAssumption
    <3>2. FollowRefLeftPanel(d) = [e EXCEPT !.cur_panel = "content"]
      BY <2>3, <3>1 DEF FollowRefLeftPanel
    <3>3. DeactivateNsdep(d) \in State /\ SameList(d, DeactivateNsdep(d))
      BY <1>1, DeactivateNsdepType DEF SameList, State, DeactivateNsdep
    <3>4. /\ e \in State /\ SameList(d, e) /\ Returns(e)
          /\ e.cur_viewmode \notin IsOverlay /\ SameOverlays(d, e)
      BY <1>1, <3>3, DeactivateNsdepReturns DEF Bare, SameList, SameOverlays
    <3> HIDE DEF e
    <3> DEFINE f == [e EXCEPT !.cur_panel = "content"]
    <3>5. /\ f.cur_mode = e.cur_mode /\ f.cur_viewmode = e.cur_viewmode
          /\ f.pre_nsdep_viewmode = e.pre_nsdep_viewmode
          /\ f.overlay_stack = e.overlay_stack /\ f.navstack = e.navstack
          /\ f.startup_help = e.startup_help
      BY <3>4 DEF State
    <3>6. Sound(f)
      BY <2>1, <3>2
    <3> HIDE DEF f
    <3>7. Bare(f)
      BY <3>4, <3>5, <3>6 DEF Bare, Returns, Backs, SameList
    <3> QED
      BY <3>2, <3>4, <3>5, <3>7 DEF f, SameOverlays
  <2>4. CASE SelectedItem(d) \notin Ns \cup Ctype
    BY <2>4 DEF FollowRefLeftPanel, SameOverlays
  <2> QED
    BY <2>2, <2>3, <2>4
<1> QED
  BY <1>3, <1>4, <1>5, <1>6

(* go_back shows a recorded view, which is no overlay, in browse mode. *)
LEMMA GoBackLeft ==
    ASSUME NEW d, Left(d)
    PROVE  /\ Left(navaction_go_back(d))
           /\ navaction_go_back(d) = d \/ navaction_go_back(d).cur_mode = "browse"
<1> DEFINE n     == Len(d.navstack)
           entry == d.navstack[n]
           collapsed == IF entry.ctype \in Ctype
                        THEN d.collapsed \ {NsOf[entry.ctype]} ELSE d.collapsed
           stack == SubSeq(d.navstack, 1, n - 1)
           e == [d EXCEPT !.filter = entry.filter,
                          !.cur_viewmode = entry.viewmode,
                          !.cur_mode = entry.navmode,
                          !.cur_filtertarget = entry.filtertarget,
                          !.collapsed = collapsed,
                          !.left_row = 0]
           b == BuildLeftItems(e)
           target == IF entry.ctype = Null THEN EmptyNs ELSE entry.ctype
           s == SelectItem(b, target)
           t == navaction_go_back(d)
<1>1. d \in State /\ Sound(d) /\ Sound(t)
  BY SoundType, GoBackSound DEF Left
<1>2. d.navstack \in Seq(Naventry) /\ n \in Nat
  BY <1>1 DEF State
<1>3. CASE d.navstack = <<>>
  BY <1>3 DEF navaction_go_back
<1>4. CASE d.navstack # <<>>
  <2>1. entry \in Naventry /\ n \in 1..n
    BY <1>2, <1>4
  <2>2. /\ Len(stack) = n - 1
        /\ \A i \in 1..Len(stack) : stack[i] = d.navstack[i] /\ i \in 1..n
    BY <1>2, <1>4
  <2>3. /\ entry.filter \in Seq(Char) /\ entry.filtertarget \in Filtertarget
        /\ entry.navmode \in Navmode /\ entry.viewmode \in Viewmode
    BY <2>1 DEF Naventry
  <2>4. collapsed \in SUBSET Ns
    BY <1>1 DEF State
  <2>5. entry.viewmode \notin IsOverlay /\ entry.navmode = "browse"
    BY <2>1 DEF Left, Backs
  <2>6. t = [s EXCEPT !.left_scroll  = entry.left_scroll,
                      !.right_row    = entry.right_row,
                      !.right_scroll = entry.right_scroll,
                      !.cur_panel    = entry.focus_panel,
                      !.navstack     = SubSeq(@, 1, n - 1)]
    BY <1>4 DEF navaction_go_back
  <2> HIDE DEF entry, collapsed, target, t
  <2>7. /\ e \in State /\ e.navstack = d.navstack
        /\ e.cur_mode = entry.navmode /\ e.cur_viewmode = entry.viewmode
        /\ e.pre_nsdep_viewmode = d.pre_nsdep_viewmode
        /\ e.overlay_stack = d.overlay_stack
    BY <1>1, <2>3, <2>4 DEF State
  <2> HIDE DEF e
  <2>8. b \in State /\ SameShown(e, b) /\ SameLine(e, b)
    BY <2>7, BuildLeftItemsType, ListShown
  <2> HIDE DEF b
  <2>9. s \in State /\ SameShown(b, s) /\ SameLine(b, s)
    <3>1. SameShown(b, s) /\ SameLine(b, s)
      BY <2>8, ListShown
    <3> QED
      BY <2>8, <3>1, SelectItemType
  <2> HIDE DEF s, n
  <2>10. /\ t.navstack = SubSeq(s.navstack, 1, n - 1)
         /\ t.cur_viewmode = s.cur_viewmode /\ t.cur_mode = s.cur_mode
         /\ t.pre_nsdep_viewmode = s.pre_nsdep_viewmode
         /\ t.overlay_stack = s.overlay_stack
    BY <2>6, <2>9 DEF State
  <2>11. /\ t.navstack = stack
         /\ t.cur_viewmode = entry.viewmode /\ t.cur_mode = "browse"
         /\ t.pre_nsdep_viewmode = d.pre_nsdep_viewmode
         /\ t.overlay_stack = d.overlay_stack
    BY <2>5, <2>7, <2>8, <2>9, <2>10 DEF SameShown, SameLine
  <2> HIDE DEF stack
  <2>12. Backs(t)
    BY <2>2, <2>11 DEF Left, Backs, n
  <2>13. Returns(t)
    BY <2>5, <2>11 DEF Left, Returns
  <2>14. Alone(t)
    BY <2>11 DEF Alone
  <2>15. Left(t)
    BY <1>1, <2>12, <2>13, <2>14 DEF Left
  <2> QED
    BY <2>11, <2>15 DEF t
<1> QED
  BY <1>3, <1>4

-----------------------------------------------------------------------------
(* Every action keeps the record Steady. *)

LEMMA KeybindOf ==
    ASSUME NEW m \in Navmode
    PROVE  /\ \A na \in NeedNoOverlay \cup {"filter_start", "follow_ref", "go_back",
                                            "dismiss_or_clear", "show_help", "quit"} :
                 na \in Keybind[m] => m = "browse"
           /\ \A na \in {"filter_accept", "filter_append_space", "filter_backspace",
                         "filter_cancel", "filter_clear", "filter_cycle_target"} :
                 na \in Keybind[m] => m = "filter"
BY DEF Navmode, Keybind, Passive, NeedNoOverlay, Toggle, TargetViewmode

(* An action that needs no overlay runs on a record without one: it is     *)
(* blocked, or the startup help has given way.                             *)
LEMMA ReadyBare ==
    ASSUME Placed(db), NEW na \in NeedNoOverlay, Press(na)
    PROVE  /\ Ready(na).startup_help = FALSE /\ Left(Ready(na))
           /\ Ready(na).cur_mode = "browse"
           /\ na # "show_detail" => Bare(Ready(na))
           /\ Ready(na).cur_viewmode \in IsOverlay =>
                 na = "show_detail" /\ Ready(na).cur_viewmode = "detail"
<1> DEFINE e == [db EXCEPT !.startup_help = FALSE]
           d == Ready(na)
<1>1. db \in State /\ Sound(db) /\ Returns(db) /\ Backs(db)
  BY SoundType DEF Placed, Left
<1>2. db.cur_mode = "browse"
  <2>1. db.cur_mode \in Navmode /\ na \in Keybind[db.cur_mode]
    BY <1>1 DEF State, Press
  <2> QED
    BY <2>1, KeybindOf
<1>3. /\ e.cur_viewmode = db.cur_viewmode /\ e.pre_nsdep_viewmode = db.pre_nsdep_viewmode
      /\ e.overlay_stack = db.overlay_stack /\ e.navstack = db.navstack
      /\ e.cur_mode = db.cur_mode /\ e.startup_help = FALSE
  BY <1>1 DEF State
<1>4. Sound(e)
  BY <1>1, ReadySound DEF Started
<1> HIDE DEF e
<1>5. Returns(e) /\ Backs(e)
  BY <1>1, <1>3 DEF Returns, Backs
<1>6. CASE db.startup_help
  <2>1. db.cur_viewmode = "help" /\ Len(db.overlay_stack) = 1
    BY <1>6 DEF Placed, HelpFirst
  <2>2. d = PopOverlay(e)
    BY <1>6, <2>1 DEF Ready, e, IsOverlay
  <2>3. e.cur_mode = "browse"
    BY <1>2, <1>3
  <2>4. /\ Left(d) /\ d.startup_help = FALSE
        /\ d.cur_viewmode \notin IsOverlay
    BY <1>3, <1>4, <1>5, <2>1, <2>2, <2>3, OverlayLeft
  <2>5. d.cur_mode = "browse"
    <3>1. e \in State
      BY <1>4, SoundType
    <3> QED
      BY <2>2, <2>3, <3>1, OverlayFrame DEF SameList
  <2> QED
    BY <2>4, <2>5 DEF Bare, Left
<1>7. CASE ~db.startup_help
  <2>1. d = db
    BY <1>7 DEF Ready
  <2>2. d.startup_help = FALSE
    BY <1>1, <1>7, <2>1 DEF State
  <2>3. d.cur_viewmode \in IsOverlay =>
           na = "show_detail" /\ d.cur_viewmode = "detail"
    <3> SUFFICES ASSUME db.cur_viewmode \in IsOverlay
                 PROVE  na = "show_detail" /\ db.cur_viewmode = "detail"
      BY <2>1
    <3>1. na \in DOMAIN DismissViewmode /\ DismissViewmode[na] = db.cur_viewmode
      BY <1>7 DEF Press, Blocked
    <3>2. na = "show_help" \/ na = "show_detail"
      BY <3>1 DEF DismissViewmode
    <3>3. na # "show_help"
      BY DEF NeedNoOverlay, Toggle, TargetViewmode
    <3> QED
      BY <3>1, <3>2, <3>3 DEF DismissViewmode
  <2> QED
    BY <1>1, <1>2, <2>1, <2>2, <2>3 DEF Bare, Placed, Left
<1> QED
  BY <1>6, <1>7

(* The cursor keys, under the startup help too, change no view. *)
LEMMA RowMoveSame ==
    ASSUME NEW d \in State, NEW n \in Nat
    PROVE  /\ SameList(d, RowUp(d, n)) /\ SameView(d, RowUp(d, n))
           /\ SameList(d, RowDown(d, n)) /\ SameView(d, RowDown(d, n))
           /\ \A row \in Nat : SameList(d, SetSelRow(d, row)) /\ SameView(d, SetSelRow(d, row))
           /\ LET e == Counted(d)
              IN  /\ SameList(d, SetSelRow(e, LastSel(e)))
                  /\ SameView(d, SetSelRow(e, LastSel(e)))
<1>1. \A e \in State : \A row : SameList(e, SetSelRow(e, row)) /\ SameView(e, SetSelRow(e, row))
  BY DEF SetSelRow, SameList, SameView, State
<1>2. Counted(d) \in State /\ SameList(d, Counted(d)) /\ SameView(d, Counted(d))
  <2>1. SelectedCtype(d) \in Ctype \cup {Null}
    BY SelectionType
  <2>2. SameList(d, d) /\ SameView(d, d)
    BY DEF SameList, SameView
  <2> QED
    BY <2>1, <2>2, EnsureRightPanelType, ContentFrame, ContentSameView DEF Counted
<1> DEFINE e == Counted(d)
<1> HIDE DEF e
<1>3. \A row : SameList(e, SetSelRow(e, row)) /\ SameView(e, SetSelRow(e, row))
  BY <1>1, <1>2 DEF e
<1>4. \A row : SameList(d, SetSelRow(e, row)) /\ SameView(d, SetSelRow(e, row))
  BY <1>2, <1>3, SameListTransitive, SameViewTransitive DEF e
<1> QED
  BY <1>1, <1>4 DEF RowUp, RowDown, e

LEMMA MovePlaced ==
    ASSUME Placed(db),
           \/ MoveUp \/ MoveDown \/ PageUp \/ PageDown \/ GoTop \/ GoBottom
           \/ SwitchPanelLeft \/ SwitchPanelRight
    PROVE  Steady(db')
<1>1. db \in State /\ Sound(db) /\ Left(db) /\ HelpFirst(db)
  BY SoundType DEF Placed, Left
<1>2. ASSUME NEW na, NEW d, Sound(d), SameList(db, d), SameView(db, d), Finish(na, d)
      PROVE  Steady(db')
  BY <1>1, <1>2, LeftCarries, FinishPlaced
<1>3. CASE MoveUp
  BY <1>1, <1>2, <1>3, RowMoveSound, RowMoveSame DEF MoveUp
<1>4. CASE MoveDown
  BY <1>1, <1>2, <1>4, RowMoveSound, RowMoveSame DEF MoveDown
<1>5. CASE PageUp
  BY <1>1, <1>2, <1>5, RowsType, RowMoveSound, RowMoveSame DEF PageUp
<1>6. CASE PageDown
  BY <1>1, <1>2, <1>6, RowsType, RowMoveSound, RowMoveSame DEF PageDown
<1>7. CASE GoTop
  BY <1>1, <1>2, <1>7, MoveSound, RowMoveSame DEF GoTop
<1>8. CASE GoBottom
  <2> DEFINE e == Counted(db)
  <2>1. Finish("go_bottom", SetSelRow(e, LastSel(e)))
    BY <1>8 DEF GoBottom
  <2>2. Sound(SetSelRow(e, LastSel(e)))
    BY <1>1, CountedSound, MoveSound
  <2>3. SameList(db, SetSelRow(e, LastSel(e))) /\ SameView(db, SetSelRow(e, LastSel(e)))
    BY <1>1, RowMoveSame
  <2> HIDE DEF e
  <2> QED
    BY <1>2, <2>1, <2>2, <2>3
<1>9. CASE SwitchPanelLeft
  <2> DEFINE f == [db EXCEPT !.cur_panel = "ctype_list"]
  <2>1. Finish("switch_panel_left", db) \/ Finish("switch_panel_left", f)
    BY <1>9 DEF SwitchPanelLeft
  <2>2. Sound(f)
    BY <1>1, FieldSound DEF Panel
  <2>3. SameList(db, f) /\ SameShown(db, f) /\ f.cur_panel = "ctype_list"
    BY <1>1 DEF SameList, SameShown, State
  <2> HIDE DEF f
  <2>4. Left(f) /\ HelpFirst(f)
    BY <1>1, <2>2, <2>3 DEF Left, Returns, Backs, Alone, HelpFirst, SameList, SameShown
  <2> QED
    BY <1>1, <2>1, <2>4, FinishPlaced
<1>10. CASE SwitchPanelRight
  <2> DEFINE s == SwitchToBrowse(db)
             f == [s EXCEPT !.cur_panel = "content"]
  <2>1. Finish("switch_panel_right", db) \/ Finish("switch_panel_right", f)
    BY <1>10 DEF SwitchPanelRight
  <2>2. Sound(s) /\ Sound(f) /\ s \in State
    BY <1>1, SwitchToBrowseSound, SwitchToBrowseType, FieldSound DEF Panel
  <2>3. /\ SameShown(db, s) /\ s.cur_mode = "browse"
        /\ s.filter = db.filter /\ s.collapsed = db.collapsed
    BY <1>1, ListShown DEF SwitchToBrowse, State
  <2> HIDE DEF s
  <2>4. /\ SameShown(s, f) /\ f.cur_mode = "browse"
        /\ f.filter = s.filter /\ f.collapsed = s.collapsed
    BY <2>2, <2>3 DEF SameShown, State
  <2> HIDE DEF f
  <2>5. Left(f) /\ HelpFirst(f)
    BY <1>1, <2>2, <2>3, <2>4 DEF Left, Returns, Backs, Alone, HelpFirst, SameShown
  <2> QED
    BY <1>1, <2>1, <2>5, FinishPlaced
<1> QED
  BY <1>3, <1>4, <1>5, <1>6, <1>7, <1>8, <1>9, <1>10

(* Actions that are not passive end the startup help. *)
LEMMA ActivePlaced ==
    ASSUME NEW na, na \notin Passive, NEW d, Left(d), db \in State, Finish(na, d)
    PROVE  Steady(db')
BY FinishPlaced

LEMMA FollowPlaced ==
    ASSUME Placed(db),
           GoBack \/ FollowRefLeft \/ FollowRefField \/ FollowRefLink \/ FollowRefNothing
    PROVE  Steady(db')
<1> DEFINE d == Ready("follow_ref")
<1>1. db \in State /\ Left(db)
  BY SoundType DEF Placed, Left
<1>2. "follow_ref" \in NeedNoOverlay /\ "follow_ref" \notin Passive /\ "go_back" \notin Passive
  BY DEF NeedNoOverlay, Passive
<1>3. Press("follow_ref") => Bare(d)
  BY <1>2, ReadyBare
<1>4. CASE GoBack
  BY <1>1, <1>2, <1>4, GoBackLeft, ActivePlaced DEF GoBack
<1>5. CASE FollowRefLeft
  BY <1>1, <1>2, <1>3, <1>5, FollowRefBare, BareLeft, ActivePlaced DEF FollowRefLeft
<1>6. CASE FollowRefField
  <2>1. Bare(d) /\ OnField(d) /\ Finish("follow_ref", FollowRefFields(d))
    BY <1>3, <1>6 DEF FollowRefField
  <2> HIDE DEF d
  <2> QED
    BY <1>1, <1>2, <2>1, FollowRefBare, BareLeft, ActivePlaced
<1>7. CASE FollowRefLink
  <2>1. /\ Bare(d)
        /\ \E link \in LinksAtCursor(d) :
              Finish("follow_ref", IF d.cur_viewmode = "nsdep"
                                   THEN FollowRefNsDep(d, link.to)
                                   ELSE FollowLink(d, link))
    BY <1>3, <1>7 DEF FollowRefLink
  <2> HIDE DEF d
  <2>2. PICK link \in LinksAtCursor(d) :
              Finish("follow_ref", IF d.cur_viewmode = "nsdep"
                                   THEN FollowRefNsDep(d, link.to)
                                   ELSE FollowLink(d, link))
    BY <2>1
  <2>3. Left(IF d.cur_viewmode = "nsdep" THEN FollowRefNsDep(d, link.to)
             ELSE FollowLink(d, link))
    BY <2>1, FollowRefBare, BareLeft
  <2> QED
    BY <1>1, <1>2, <2>2, <2>3, ActivePlaced
<1>8. CASE FollowRefNothing
  BY <1>1, <1>2, <1>3, <1>8, BareLeft, ActivePlaced DEF FollowRefNothing
<1> QED
  BY <1>4, <1>5, <1>6, <1>7, <1>8

(* What clears or sets the field of the detail overlay. *)
LEMMA DetailLeft ==
    ASSUME NEW d, Left(d), NEW x \in Ctype \cup {Null}
    PROVE  LET e == [d EXCEPT !.detail_field = x]
           IN  /\ Left(e) /\ e.cur_viewmode = d.cur_viewmode
               /\ e.cur_mode = d.cur_mode
<1> DEFINE e == [d EXCEPT !.detail_field = x]
<1>1. d \in State
  BY SoundType DEF Left
<1>2. Sound(e)
  BY FieldSound DEF Left, Panel
<1>3. /\ e.cur_viewmode = d.cur_viewmode /\ e.overlay_stack = d.overlay_stack
      /\ e.pre_nsdep_viewmode = d.pre_nsdep_viewmode /\ e.navstack = d.navstack
      /\ SameLine(d, e)
  BY <1>1 DEF SameLine, State
<1> HIDE DEF e
<1>4. Left(e)
  BY <1>2, <1>3 DEF Left, Returns, Backs, Alone, SameLine
<1> QED
  BY <1>3, <1>4 DEF e, SameLine

LEMMA ViewPlaced ==
    ASSUME Placed(db),
           \/ CycleViewmode \/ ToggleView \/ ShowHelp \/ ShowDetail
           \/ DismissOrClear \/ FilterStatic \/ Quit
    PROVE  Steady(db')
<1>1. db \in State /\ Sound(db) /\ Returns(db) /\ Backs(db) /\ Left(db)
  BY SoundType DEF Placed, Left
<1>2. \A na : Press(na) /\ na \in {"show_help", "dismiss_or_clear", "quit"}
                => db.cur_mode = "browse"
  BY <1>1, KeybindOf DEF Press, State
<1>3. Passive \cap ({"cycle_viewmode", "show_help", "show_detail", "dismiss_or_clear",
                     "filter_static", "quit"} \cup Toggle) = {}
  BY DEF Passive, Toggle, TargetViewmode
<1>4. CASE CycleViewmode
  <2> DEFINE d == Ready("cycle_viewmode")
             vm == NextViewmode[d.cur_viewmode]
  <2>1. Bare(d) /\ Finish("cycle_viewmode", [d EXCEPT !.cur_viewmode = NextViewmode[@]])
    BY <1>4, ReadyBare DEF CycleViewmode, NeedNoOverlay
  <2> HIDE DEF d
  <2>2. vm \in Viewmode \ IsOverlay
    <3>1. d.cur_viewmode \in Viewmode
      BY <2>1, SoundType DEF State, Bare
    <3> QED
      BY <3>1, ViewsBare
  <2>3. Finish("cycle_viewmode", [d EXCEPT !.cur_viewmode = vm])
    BY <2>1
  <2> HIDE DEF vm
  <2> QED
    BY <1>1, <1>3, <2>1, <2>2, <2>3, ViewChangeBare, BareLeft, ActivePlaced
<1>5. CASE ToggleView
  <2>1. PICK na \in Toggle :
           Press(na) /\ Finish(na, ToggleViewmode(Ready(na), TargetViewmode[na]))
    BY <1>5 DEF ToggleView
  <2> DEFINE d == Ready(na)
  <2>2. Bare(d)
    <3>1. "show_detail" \notin Toggle
      BY DEF Toggle, TargetViewmode
    <3> QED
      BY <2>1, <3>1, ReadyBare DEF NeedNoOverlay
  <2>3. Finish(na, ToggleViewmode(d, TargetViewmode[na]))
    BY <2>1
  <2> HIDE DEF d
  <2>4. Bare(ToggleViewmode(d, TargetViewmode[na]))
    BY <2>2, ViewsBare, ViewChangeBare DEF ToggleViewmode
  <2> QED
    BY <1>1, <1>3, <2>1, <2>3, <2>4, BareLeft, ActivePlaced
<1>6. CASE ShowHelp
  <2>1. db.cur_mode = "browse"
    BY <1>2, <1>6 DEF ShowHelp
  <2>2. Left(PopOverlay(db)) /\ Left(PushOverlay(db, "help"))
    BY <1>1, <2>1, OverlayLeft DEF IsOverlay
  <2> QED
    BY <1>1, <1>3, <1>6, <2>2, ActivePlaced DEF ShowHelp
<1>7. CASE ShowDetail
  <2> DEFINE d == Ready("show_detail")
             e == IF d.cur_viewmode = "detail"
                  THEN [PopOverlay(d) EXCEPT !.detail_field = Null]
                  ELSE IF OnField(d)
                  THEN PushOverlay([d EXCEPT !.detail_field = SelectedCtype(d)],
                                   "detail")
                  ELSE d
  <2>1. Left(d) /\ d.cur_mode = "browse" /\ Finish("show_detail", e)
    BY <1>7, ReadyBare DEF ShowDetail, NeedNoOverlay
  <2> HIDE DEF d
  <2>2. Left([PopOverlay(d) EXCEPT !.detail_field = Null])
    BY <2>1, OverlayLeft, DetailLeft DEF Left
  <2>3. Left(PushOverlay([d EXCEPT !.detail_field = SelectedCtype(d)], "detail"))
    <3>1. SelectedCtype(d) \in Ctype \cup {Null}
      BY <2>1, SoundType, SelectionType DEF Left
    <3> DEFINE f == [d EXCEPT !.detail_field = SelectedCtype(d)]
    <3>2. Left(f) /\ f.cur_mode = "browse"
      BY <2>1, <3>1, DetailLeft
    <3> HIDE DEF f
    <3>3. Left(PushOverlay(f, "detail"))
      BY <3>2, OverlayLeft DEF IsOverlay, Left
    <3> QED
      BY <3>3 DEF f
  <2>4. Left(e)
    BY <2>1, <2>2, <2>3
  <2> HIDE DEF e
  <2> QED
    BY <1>1, <1>3, <2>1, <2>4, ActivePlaced
<1>8. CASE DismissOrClear
  <2> DEFINE p == PopOverlay(db)
             field == IF db.cur_viewmode = "detail" THEN Null ELSE p.detail_field
  <2>1. db.cur_mode = "browse"
    BY <1>2, <1>8 DEF DismissOrClear
  <2>2. Left(p) /\ p \in State
    BY <1>1, <2>1, OverlayLeft, SoundType DEF Left
  <2>3. Finish("dismiss_or_clear", IF db.overlay_stack = <<>> THEN FilterClear(db)
                                   ELSE [p EXCEPT !.detail_field = field])
    BY <1>8 DEF DismissOrClear
  <2> HIDE DEF p
  <2>4. field \in Ctype \cup {Null}
    BY <2>2 DEF State
  <2> HIDE DEF field
  <2>5. Left([p EXCEPT !.detail_field = field])
    BY <2>2, <2>4, DetailLeft
  <2>6. Left(FilterClear(db))
    BY <1>1, FilterClearSound, FilterClearShown, LineLeft
  <2> QED
    BY <1>1, <1>3, <2>3, <2>5, <2>6, ActivePlaced
<1>9. CASE FilterStatic
  <2>1. Bare(Ready("filter_static")) /\ Finish("filter_static", Ready("filter_static"))
    BY <1>9, ReadyBare DEF FilterStatic, NeedNoOverlay
  <2> QED
    BY <1>1, <1>3, <2>1, BareLeft, ActivePlaced
<1>10. CASE Quit
  <2> DEFINE e == [db EXCEPT !.running = FALSE]
  <2>1. Finish("quit", e)
    BY <1>10 DEF Quit
  <2>2. Sound(e) /\ SameShown(db, e) /\ SameLine(db, e)
    <3>1. Sound(e)
      BY <1>1, FieldSound DEF Panel
    <3>2. SameShown(db, e) /\ SameLine(db, e)
      BY <1>1 DEF SameShown, SameLine, State
    <3> QED
      BY <3>1, <3>2
  <2> HIDE DEF e
  <2>3. Left(e)
    BY <1>1, <2>2, LineLeft
  <2> QED
    BY <1>1, <1>3, <2>1, <2>3, ActivePlaced
<1> QED
  BY <1>4, <1>5, <1>6, <1>7, <1>8, <1>9, <1>10

LEMMA FilterPlaced ==
    ASSUME Placed(db),
           \/ StartFilter \/ AcceptFilter \/ CancelFilter \/ ClearFilter
           \/ CycleTarget \/ FilterBackspace \/ AppendSpace \/ AppendChar
    PROVE  Steady(db')
<1>1. db \in State /\ Sound(db) /\ Returns(db) /\ Backs(db) /\ Left(db)
      /\ db.filter \in Seq(Char) /\ db.cur_mode \in Navmode
  BY SoundType DEF Placed, Left, State
<1>2. Passive \cap {"filter_start", "filter_accept", "filter_append_space",
                    "filter_backspace", "filter_cancel", "filter_clear",
                    "filter_cycle_target"} = {}
  BY DEF Passive
<1>3. ASSUME NEW text \in Seq(Char)
      PROVE  Left(FilterText(db, text)) /\ Left(FilterCycleTarget(db))
  BY <1>1, <1>3, FilterTextSound, FilterCycleTargetSound, FilterEditShown, LineLeft
<1>4. CASE StartFilter
  <2> DEFINE d == Ready("filter_start")
  <2>1. Bare(d) /\ Finish("filter_start", FilterStart(d))
    BY <1>4, ReadyBare DEF StartFilter, NeedNoOverlay
  <2> HIDE DEF d
  <2>2. /\ Sound(FilterStart(d)) /\ FilterStart(d).pre_filter.target # Null
        /\ SameShown(d, FilterStart(d)) /\ FilterStart(d).cur_panel = "ctype_list"
    BY <2>1, SoundType, FilterStartSound, FilterStartShown DEF Bare
  <2>3. Left(FilterStart(d))
    BY <2>1, <2>2 DEF Bare, Left, Returns, Backs, Alone, SameShown
  <2> QED
    BY <1>1, <1>2, <2>1, <2>3, ActivePlaced
<1>5. CASE AcceptFilter
  <2>1. Left(FilterAccept(db))
    BY <1>1, FilterAcceptSound, FilterAcceptShown, ShownLeft
  <2> QED
    BY <1>1, <1>2, <1>5, <2>1, ActivePlaced DEF AcceptFilter
<1>6. CASE CancelFilter
  <2>1. "filter_cancel" \in Keybind[db.cur_mode]
    BY <1>6 DEF CancelFilter, Press
  <2>2. db.cur_mode = "filter"
    BY <1>1, <2>1, KeybindOf
  <2>3. db.pre_filter.target # Null
    BY <1>1, <2>2 DEF Left, Alone
  <2>4. Left(FilterCancel(db))
    BY <1>1, <2>3, FilterCancelSound, FilterCancelShown, ShownLeft
  <2> QED
    BY <1>1, <1>2, <1>6, <2>4, ActivePlaced DEF CancelFilter
<1>7. CASE ClearFilter
  <2>1. Left(FilterClear(db))
    BY <1>1, FilterClearSound, FilterClearShown, LineLeft
  <2> QED
    BY <1>1, <1>2, <1>7, <2>1, ActivePlaced DEF ClearFilter
<1>8. CASE CycleTarget
  BY <1>1, <1>2, <1>3, <1>8, ActivePlaced DEF CycleTarget
<1>9. CASE FilterBackspace
  <2>1. CASE db.filter = <<>>
    BY <1>1, <1>2, <1>9, <2>1, ActivePlaced DEF FilterBackspace
  <2>2. CASE db.filter # <<>>
    <3>1. SubSeq(db.filter, 1, Len(db.filter) - 1) \in Seq(Char)
      BY <1>1, <2>2
    <3>2. Left(FilterText(db, SubSeq(db.filter, 1, Len(db.filter) - 1)))
      BY <1>3, <3>1
    <3> QED
      BY <1>1, <1>2, <1>9, <2>2, <3>2, ActivePlaced DEF FilterBackspace
  <2> QED
    BY <2>1, <2>2
<1>10. CASE AppendSpace
  <2>1. Append(db.filter, Space) \in Seq(Char)
    BY <1>1, SchemaAssumption
  <2> QED
    BY <1>1, <1>2, <1>3, <1>10, <2>1, ActivePlaced DEF AppendSpace
<1>11. CASE AppendChar
  (* No keybind counts as a passive one; but the startup help is over.     *)
  <2>1. PICK c \in Char : Finish("move_up", FilterText(db, Append(db.filter, c)))
    BY <1>11 DEF AppendChar
  <2>2. Append(db.filter, c) \in Seq(Char)
    BY <1>1
  <2>3. db.cur_mode = "filter" /\ ~db.startup_help
    BY <1>1, <1>11 DEF AppendChar, Placed, Left, Alone, HelpFirst, IsOverlay
  <2> DEFINE d == FilterText(db, Append(db.filter, c))
  <2>4. Left(d) /\ SameShown(db, d)
    BY <1>1, <1>3, <2>2, FilterEditShown
  <2>5. HelpFirst(d)
    BY <2>3, <2>4 DEF HelpFirst, SameShown
  <2> HIDE DEF d
  <2>6. Steady(db')
    BY <1>1, <2>1, <2>4, <2>5, FinishPlaced DEF d
  <2> QED
    BY <2>6
<1> QED
  BY <1>4, <1>5, <1>6, <1>7, <1>8, <1>9, <1>10, <1>11

LEMMA GoBackOverlays ==
    ASSUME NEW d, Left(d)
    PROVE  SameOverlays(d, navaction_go_back(d))
<1>0. d \in State /\ Sound(d)
  BY SoundType DEF Left
<1> DEFINE n     == Len(d.navstack)
           entry == d.navstack[n]
           collapsed == IF entry.ctype \in Ctype
                        THEN d.collapsed \ {NsOf[entry.ctype]} ELSE d.collapsed
           e == [d EXCEPT !.filter = entry.filter,
                          !.cur_viewmode = entry.viewmode,
                          !.cur_mode = entry.navmode,
                          !.cur_filtertarget = entry.filtertarget,
                          !.collapsed = collapsed,
                          !.left_row = 0]
           b == BuildLeftItems(e)
           target == IF entry.ctype = Null THEN EmptyNs ELSE entry.ctype
           s == SelectItem(b, target)
           t == navaction_go_back(d)
<1>1. CASE d.navstack = <<>>
  BY <1>1 DEF navaction_go_back, SameOverlays
<1>2. CASE d.navstack # <<>>
  <2>1. /\ entry.filter \in Seq(Char) /\ entry.filtertarget \in Filtertarget
        /\ entry.navmode \in Navmode /\ entry.viewmode \in Viewmode
    <3>1. d.navstack \in Seq(Naventry)
      BY <1>0 DEF State
    <3>2. entry \in Naventry
      BY <1>2, <3>1
    <3> QED
      BY <3>2 DEF Naventry
  <2>2. collapsed \in SUBSET Ns
    BY <1>0 DEF State
  <2>3. t = [s EXCEPT !.left_scroll  = entry.left_scroll,
                      !.right_row    = entry.right_row,
                      !.right_scroll = entry.right_scroll,
                      !.cur_panel    = entry.focus_panel,
                      !.navstack     = SubSeq(@, 1, n - 1)]
    BY <1>2 DEF navaction_go_back
  <2> HIDE DEF entry, collapsed, target, t
  <2>4. e \in State /\ SameOverlays(d, e)
    BY <1>0, <2>1, <2>2 DEF State, SameOverlays
  <2> HIDE DEF e
  <2>5. b \in State /\ SameShown(e, b)
    BY <2>4, BuildLeftItemsType, ListShown
  <2> HIDE DEF b
  <2>6. s \in State /\ SameShown(b, s)
    <3>1. SameShown(b, s)
      BY <2>5, ListShown
    <3> QED
      BY <2>5, <3>1, SelectItemType
  <2> HIDE DEF s, n
  <2>7. SameOverlays(s, t)
    BY <2>3, <2>6 DEF State, SameOverlays
  <2> QED
    BY <2>4, <2>5, <2>6, <2>7 DEF SameShown, SameOverlays, t
<1> QED
  BY <1>1, <1>2

(* A headless command keeps it too: it first ends the startup help and the *)
(* filter line.                                                            *)
LEMMA HeadlessPlaced ==
    ASSUME Steady(db), Headless
    PROVE  Steady(db')
<1> DEFINE d == LeaveFilterMode(Started)
<1>1. db \in State /\ Placed(db) /\ Left(db)
  BY SoundType DEF Steady, Placed, Left
<1>2. /\ Left(Started) /\ Started \in State /\ Started.startup_help = FALSE
      /\ SameList(db, Started)
  <2>1. Sound(Started) /\ SameList(db, Started)
    BY <1>1, ReadySound DEF Left, Started, SameList, State
  <2>2. /\ Started.cur_viewmode = db.cur_viewmode
        /\ Started.pre_nsdep_viewmode = db.pre_nsdep_viewmode
        /\ Started.overlay_stack = db.overlay_stack
        /\ Started.cur_panel = db.cur_panel /\ Started.startup_help = FALSE
    BY <1>1 DEF Started, State
  <2>3. Left(Started)
    BY <1>1, <2>1, <2>2 DEF Left, Returns, Backs, Alone, SameList
  <2> QED
    BY <2>1, <2>2, <2>3, SoundType
<1>3. /\ Left(d) /\ d \in State /\ d.cur_mode = "browse" /\ d.startup_help = FALSE
  <2>1. Started.cur_mode \in Navmode
    BY <1>2 DEF State
  <2>2. CASE Started.cur_mode = "filter"
    <3>1. Started.pre_filter.target # Null
      BY <1>2, <2>2 DEF Left, Alone
    <3>2. d = FilterCancel(Started)
      BY <2>2 DEF LeaveFilterMode
    <3>3. Sound(d) /\ SameShown(Started, d) /\ d.cur_mode = "browse"
      BY <1>2, <3>1, <3>2, FilterCancelSound, FilterCancelShown DEF Left
    <3> HIDE DEF d
    <3>4. Left(d)
      BY <1>2, <3>3, ShownLeft DEF Left
    <3> QED
      BY <1>2, <3>3, <3>4, SoundType DEF SameShown
  <2>3. CASE Started.cur_mode # "filter"
    BY <1>2, <2>1, <2>3 DEF LeaveFilterMode, Navmode
  <2> QED
    BY <2>2, <2>3
<1>4. ASSUME NEW e, NEW snap \in State, Left(e), e.startup_help = FALSE,
             db' = PostAction(e, snap)
      PROVE  Steady(db')
  BY <1>4, PostActionPlaced DEF Placed, HelpFirst
<1>5. CASE RejectCommand
  <2>1. db' = Started
    BY <1>5 DEF RejectCommand
  <2>2. /\ Started.left_row = db.left_row /\ Started.left_scroll = db.left_scroll
        /\ Started.right_row = db.right_row /\ Started.right_scroll = db.right_scroll
        /\ Started.left_item = db.left_item /\ Started.term_hei = db.term_hei
        /\ Started.navstack = db.navstack /\ Started.cur_viewmode = db.cur_viewmode
        /\ Started.shown = db.shown
    BY <1>1 DEF Started, State
  <2>3. /\ left_item_N(Started) = left_item_N(db) /\ DataRows(Started) = DataRows(db)
        /\ \A c : RightPanelItemCount(Started, c) = RightPanelItemCount(db, c)
    BY <2>2 DEF left_item_N, DataRows, VisibleRows, RightPanelItemCount, FieldList, Lines
  <2>4. SelectedCtype(Started) = SelectedCtype(db)
    BY <2>2, SameSelection
  <2>5. BothSeen(Started)
    BY <2>2, <2>3, <2>4 DEF Steady, BothSeen, Seen
  <2> QED
    BY <1>2, <2>1, <2>5 DEF Steady, Placed, HelpFirst
<1>6. CASE HeadlessGoBack
  <2> DEFINE e == navaction_go_back(Started)
  <2>1. db' = PostAction(e, Started)
    BY <1>6 DEF HeadlessGoBack
  <2>2. Left(e) /\ e.startup_help = FALSE
    BY <1>2, GoBackLeft, GoBackOverlays DEF SameOverlays
  <2> HIDE DEF e
  <2> QED
    BY <1>2, <1>4, <2>1, <2>2
<1>7. CASE HeadlessSetView
  <2>1. PICK vm \in Viewmode :
           db' = PostAction(IF vm \in IsOverlay THEN PushOverlay(d, vm)
                            ELSE [PopEveryOverlay(d) EXCEPT !.cur_viewmode = vm], d)
    BY <1>7, InputAssumption DEF HeadlessSetView
  <2> HIDE DEF d
  <2>2. CASE vm \in IsOverlay
    <3>1. Left(PushOverlay(d, vm))
      BY <1>3, <2>2, OverlayLeft DEF Left
    <3>2. PushOverlay(d, vm).startup_help = FALSE
      BY <1>3 DEF PushOverlay, State
    <3> QED
      BY <1>3, <1>4, <2>1, <2>2, <3>1, <3>2
  <2>3. CASE vm \notin IsOverlay
    <3> DEFINE p == PopEveryOverlay(d)
               e == [p EXCEPT !.cur_viewmode = vm]
    <3>1. /\ Left(p) /\ p.cur_viewmode \notin IsOverlay /\ p.startup_help = FALSE
          /\ SameList(d, p) /\ p \in State
      BY <1>3, OverlayLeft, OverlayFrame, PopEveryOverlayType DEF Left
    <3>2. Bare(p)
      BY <1>3, <3>1 DEF Bare, Left, SameList
    <3>3. db' = PostAction(e, d)
      BY <2>1, <2>3
    <3> HIDE DEF p
    <3>4. Left(e)
      BY <2>3, <3>2, ViewChangeBare, BareLeft
    <3>5. e.startup_help = FALSE
      BY <3>1 DEF State
    <3> HIDE DEF e
    <3> QED
      BY <1>3, <1>4, <3>3, <3>4, <3>5
  <2> QED
    BY <2>2, <2>3
<1>8. CASE HeadlessSetFilter
  <2>1. PICK arg \in [text : Seq(Char), target : Filtertarget] :
           db' = PostAction(
                IF Blank(arg.text) THEN FilterCleared(d)
                ELSE FilterAccept(BuildLeftItemsReset(
                        [FilterStart(d) EXCEPT !.filter = arg.text,
                                               !.cur_filtertarget = arg.target])), d)
    BY <1>8, InputAssumption DEF HeadlessSetFilter
  <2> HIDE DEF d
  <2>2. Left(FilterCleared(d)) /\ FilterCleared(d).startup_help = FALSE
    <3> DEFINE e == [d EXCEPT !.filter = <<>>, !.cur_filtertarget = DefaultFiltertarget]
    <3>1. Sound(FilterCleared(d))
      BY <1>3, DefaultsType, SetFilterSound DEF FilterCleared, Left
    <3>2. FilterCleared(d) = BuildLeftItemsReset(e)
      BY DEF FilterCleared
    <3>3. e \in State /\ SameShown(d, e) /\ SameLine(d, e)
      BY <1>3, DefaultsType DEF State, SameShown, SameLine
    <3> HIDE DEF e
    <3>4. SameShown(d, FilterCleared(d)) /\ SameLine(d, FilterCleared(d))
      BY <3>2, <3>3, ListShown, SameTransitive
    <3> QED
      BY <1>3, <3>1, <3>4, LineLeft DEF SameShown
  <2> DEFINE f == FilterStart(d)
             e == [f EXCEPT !.filter = arg.text, !.cur_filtertarget = arg.target]
             b == BuildLeftItemsReset(e)
             a == FilterAccept(b)
  <2>3. Left(a) /\ a.startup_help = FALSE
    <3>1. f \in State /\ Sound(f) /\ SameShown(d, f)
      BY <1>3, FilterStartSound, FilterStartShown, SoundType DEF Left
    <3> HIDE DEF f
    <3>2. Sound(b) /\ b \in State
      BY <3>1, SetFilterSound, SoundType
    <3>3. e \in State /\ SameShown(f, e)
      BY <3>1 DEF State, SameShown
    <3> HIDE DEF e
    <3>4. SameShown(e, b)
      BY <3>3, ListShown
    <3> HIDE DEF b
    <3>5. Sound(a) /\ SameShown(b, a) /\ a.cur_mode = "browse"
      BY <3>2, FilterAcceptSound, FilterAcceptShown
    <3> HIDE DEF a
    <3>6. SameShown(d, a)
      BY <3>1, <3>3, <3>4, <3>5, SameTransitive
    <3>7. Left(a)
      BY <1>3, <3>5, <3>6, ShownLeft DEF Left
    <3> QED
      BY <1>3, <3>6, <3>7 DEF SameShown
  <2>4. db' = PostAction(IF Blank(arg.text) THEN FilterCleared(d) ELSE a, d)
    BY <2>1
  <2> HIDE DEF a
  <2> QED
    BY <1>3, <1>4, <2>2, <2>3, <2>4
<1>9. CASE HeadlessNavigate
  <2> DEFINE e == PopEveryOverlay(d)
  <2>1. PICK c \in Ctype, vm \in Viewmode \ IsOverlay :
           db' = PostAction(GoToCtype(e, c, vm), e)
    <3>1. PICK c \in Ctype :
             \E vm \in {v \in ViewArgs : NavigateView(v, c)} \cup
                   {IF db.cur_viewmode \in IsOverlay THEN DefaultViewmode
                    ELSE db.cur_viewmode} :
                db' = PostAction(GoToCtype(e, c, vm), e)
      BY <1>9 DEF HeadlessNavigate
    <3>2. {v \in ViewArgs : NavigateView(v, c)} \subseteq Viewmode \ IsOverlay
      BY InputAssumption DEF NavigateView
    <3>3. (IF db.cur_viewmode \in IsOverlay THEN DefaultViewmode
           ELSE db.cur_viewmode) \in Viewmode \ IsOverlay
      BY <1>1, ViewsBare DEF State
    <3> HIDE DEF e
    <3> QED
      BY <3>1, <3>2, <3>3
  <2>2. /\ Left(e) /\ e.cur_viewmode \notin IsOverlay /\ e.startup_help = FALSE
        /\ SameList(d, e) /\ e \in State
    BY <1>3, OverlayLeft, OverlayFrame, PopEveryOverlayType DEF Left
  <2>3. Bare(e)
    BY <1>3, <2>2 DEF Bare, Left, SameList
  <2> HIDE DEF e
  <2>4. Left(GoToCtype(e, c, vm)) /\ GoToCtype(e, c, vm).startup_help = FALSE
    BY <2>2, <2>3, GoToCtypeBare, BareLeft, NavigationOverlays DEF Left, SameOverlays
  <2> QED
    BY <1>4, <2>1, <2>2, <2>4
<1>10. CASE SetTermSize
  <2>1. PICK h \in Nat :
           db' = AdjustRight(AdjustLeft([db EXCEPT !.term_hei = h]), SelectedCtype(db))
    BY <1>10, InputAssumption DEF SetTermSize
  <2> DEFINE r == [db EXCEPT !.term_hei = h]
             l == AdjustLeft(r)
             f == AdjustRight(l, SelectedCtype(db))
  <2>2. /\ r \in State /\ SameList(db, r) /\ SameView(db, r)
        /\ r.left_row = db.left_row /\ r.left_item = db.left_item
    BY <1>1 DEF SameList, SameView, State
  <2>3. db' = f
    BY <2>1
  <2> HIDE DEF r
  <2>4. SelectedCtype(db) \in Ctype \cup {Null} /\ SelectedCtype(db) = SelectedCtype(r)
    BY <1>1, <2>2, SelectionType, SameSelection
  <2>5. BothSeen(f)
    BY <2>2, <2>4, AdjustBothSeen
  <2>6. l \in State /\ SameList(r, l) /\ SameView(r, l)
    BY <2>2, <2>4, AdjustLeftType, AdjustFrame, AdjustSameView
  <2> HIDE DEF l
  <2>7. f \in State /\ SameList(l, f) /\ SameView(l, f)
    BY <2>4, <2>6, AdjustRightType, AdjustFrame, AdjustSameView
  <2> HIDE DEF f
  <2>8. SameList(db, f) /\ SameView(db, f)
    BY <2>2, <2>6, <2>7, SameListTransitive, SameViewTransitive
  <2>9. Sound(f)
    BY <1>1, <2>7, <2>8, SoundCarries DEF Left
  <2>10. Placed(f)
    BY <1>1, <2>8, <2>9, LeftCarries DEF Placed
  <2> QED
    BY <2>3, <2>5, <2>10 DEF Steady
<1> QED
  BY <1>5, <1>6, <1>7, <1>8, <1>9, <1>10 DEF Headless

(* Main opens the startup help over the default view, on the first rows. *)
LEMMA InitSteady ==
    ASSUME Init
    PROVE  Steady(db)
<1>1. Sound(db) /\ db \in State
  BY InitSound, SoundType
<1>2. /\ db.cur_viewmode = "help" /\ db.cur_mode = "browse"
      /\ db.navstack = <<>> /\ db.filter = <<>> /\ db.collapsed = Ns
      /\ db.pre_nsdep_viewmode = Null
      /\ db.left_row = 0 /\ db.left_scroll = 0
      /\ db.right_row = 0 /\ db.right_scroll = 0
  BY DEF Init, PushOverlay, BuildLeftItems
<1>3. db.overlay_stack = <<[viewmode |-> DefaultViewmode, row |-> 0, scroll |-> 0]>>
  BY DEF Init, PushOverlay, BuildLeftItems
<1>4. Len(db.overlay_stack) = 1 /\ db.overlay_stack[1].viewmode = DefaultViewmode
  BY <1>3
<1>5. Placed(db)
  <2>1. DefaultViewmode \notin IsOverlay /\ Null \notin IsOverlay \cup ScopeNs
    BY SchemaAssumption DEF DefaultViewmode, IsOverlay, ScopeNs, Viewmode
  <2>2. Returns(db) /\ Backs(db) /\ Alone(db) /\ HelpFirst(db)
    BY <1>2, <1>3, <1>4, <2>1 DEF Returns, Backs, Alone, HelpFirst
  <2> QED
    BY <1>1, <2>2 DEF Placed, Left
<1>6. BothSeen(db)
  <2>1. ASSUME NEW n \in Nat
        PROVE  Seen(db, 0, 0, n)
    BY <1>1, RowsType DEF Seen, LastRow, Greatest
  <2>2. left_item_N(db) \in Nat /\ RightPanelItemCount(db, SelectedCtype(db)) \in Nat
    BY <1>1, RightPanelItemCountType, SelectionType DEF left_item_N, State
  <2> QED
    BY <1>2, <2>1, <2>2 DEF BothSeen
<1> QED
  BY <1>5, <1>6 DEF Steady

LEMMA NextSteady ==
    ASSUME Steady(db), [Next]_vars
    PROVE  Steady(db')
<1>1. CASE Key
  BY <1>1, MovePlaced, FollowPlaced, ViewPlaced, FilterPlaced DEF Key, Steady
<1>2. CASE Headless
  BY <1>2, HeadlessPlaced
<1>3. CASE Exited \/ UNCHANGED vars
  BY <1>3 DEF Exited, vars
<1> QED
  BY <1>1, <1>2, <1>3 DEF Next

(* And: overlays have a view under them to return to, go_back returns to   *)
(* browse mode and to no overlay, the filter line is alone on the screen,  *)
(* the startup help comes before everything else, and both cursors are on  *)
(* rows that are shown.                                                    *)
THEOREM SteadyInvariant == Spec => []Steady(db)
<1>1. Init => Steady(db)
  BY InitSteady
<1>2. Steady(db) /\ [Next]_vars => Steady(db)'
  BY NextSteady
<1> QED
  BY <1>1, <1>2, PTL DEF Spec

(* Every overlay can be dismissed, and what lies under the overlays, what  *)
(* an nsdep view gives way to and what go_back restores are never          *)
(* overlays: for every schema, keyboard and length of session.             *)
THEOREM OverlayReturnsHolds == Spec => []OverlayReturns
<1>1. Steady(db) => OverlayReturns
  BY DEF Steady, Placed, Left, Returns, Backs, OverlayReturns
<1> QED
  BY <1>1, SteadyInvariant, PTL

(* The filter line never has the keyboard under an overlay or with the     *)
(* content panel focused, and Escape always knows what to restore.         *)
THEOREM FilterModeAloneHolds == Spec => []FilterModeAlone
<1>1. Steady(db) => FilterModeAlone
  BY DEF Steady, Placed, Left, Alone, Backs, FilterModeAlone
<1> QED
  BY <1>1, SteadyInvariant, PTL

(* Nothing has been filtered, expanded or visited while the startup help   *)
(* is still up: every key and command ends it first.                       *)
THEOREM StartupHelpFirstHolds == Spec => []StartupHelpFirst
<1>1. Steady(db) => StartupHelpFirst
  BY DEF Steady, Placed, HelpFirst, StartupHelpFirst
<1> QED
  BY <1>1, SteadyInvariant, PTL

(* The cursors of both panels are on existing rows that the screen shows,  *)
(* for every list, view, terminal height and history.                      *)
THEOREM SelectionInViewHolds == Spec => []SelectionInView
<1>1. Steady(db) => SelectionInView
  BY DEF Steady, BothSeen, Seen, SelectionInView, InView
<1> QED
  BY <1>1, SteadyInvariant, PTL

-----------------------------------------------------------------------------
(***************************************************************************)
(* Accepting a filter.  ExpandMatching expands the namespaces that had     *)
(* matches when the list was last built: that these are the ones that have *)
(* matches now is what Sound (n_match is fresh) is for.                    *)
(***************************************************************************)

(* After FilterAccept every match is listed and the cursor is on one. *)
LEMMA AcceptLists ==
    ASSUME NEW d, Sound(d), d.filter # <<>>
    PROVE  LET f    == FilterAccept(d)
               hits == Hits(d.filter, d.cur_filtertarget)
           IN  /\ hits \subseteq Listed(f)
               /\ hits # {} => f.left_row < Len(f.left_item) /\ SelectedItem(f) \in hits
<1> DEFINE r == RecollapseAutoExpanded(d)
           e == ExpandMatching(r)
           b == BuildLeftItemsReset(e)
           g == SelectFirstCtype(b)
           f == FilterAccept(d)
           hits == Hits(d.filter, d.cur_filtertarget)
           items == MatchingNs(d.filter, d.cur_filtertarget)
                    \cup {c \in hits : NsOf[c] \notin e.collapsed}
           rows == {i \in 1..Len(b.left_item) : b.left_item[i] \in Ctype}
<1>1. d \in State /\ d.n_match = MatchingNs(d.filter, d.cur_filtertarget)
  BY SoundType DEF Sound, Fresh
<1>2. f = SwitchToBrowse(g)
  BY DEF FilterAccept
<1>3. /\ r \in State /\ r.n_match = d.n_match
      /\ r.filter = d.filter /\ r.cur_filtertarget = d.cur_filtertarget
  BY <1>1, RecollapseAutoExpandedType DEF RecollapseAutoExpanded, State
<1> HIDE DEF r, f
<1>4. /\ e \in State /\ e.collapsed = r.collapsed \ d.n_match
      /\ e.filter = d.filter /\ e.cur_filtertarget = d.cur_filtertarget
  BY <1>3 DEF ExpandMatching, State
<1> HIDE DEF e
<1>5. /\ b \in State
      /\ b.left_item = VisibleItems(d.filter, d.cur_filtertarget, e.collapsed)
  BY <1>4, BuildLeftItemsType DEF BuildLeftItemsReset, BuildLeftItems, State
<1>6. /\ \A i \in 1..Len(b.left_item) : b.left_item[i] \in items
      /\ \A x \in items : \E i \in 1..Len(b.left_item) : b.left_item[i] = x
  BY <1>5, VisibleItemsRows
<1> HIDE DEF b
<1>7. hits \subseteq items
  BY <1>1, <1>4 DEF MatchingNs
<1>8. ASSUME NEW x \in items, x \in Ctype
      PROVE  x \in hits
  BY <1>8, SchemaAssumption DEF MatchingNs, Hits
<1> HIDE DEF hits, items
<1>9. g \in State /\ g.left_item = b.left_item
  BY <1>5, SelectFirstCtypeType DEF SelectFirstCtype, State
<1>10. f.left_item = b.left_item /\ f.left_row = g.left_row
  BY <1>2, <1>9 DEF SwitchToBrowse, State
<1>11. hits \subseteq Listed(f)
  BY <1>6, <1>7, <1>10 DEF Listed
<1>12. ASSUME hits # {}
       PROVE  f.left_row < Len(f.left_item) /\ SelectedItem(f) \in hits
  <2> DEFINE row == CHOOSE i \in rows : \A j \in rows : i <= j
  <2>1. Len(b.left_item) \in Nat
    BY <1>5 DEF State
  <2>2. rows # {}
    <3>1. hits \subseteq Ctype
      BY DEF hits, Hits
    <3> QED
      BY <1>6, <1>7, <1>12, <3>1
  <2>3. \E i \in rows : \A j \in rows : i <= j
    BY <2>1, <2>2, LeastRow
  <2>4. row \in rows
    BY <2>3
  <2>5. g = [b EXCEPT !.left_row = row - 1]
    BY <2>2 DEF SelectFirstCtype, g
  <2> HIDE DEF row, g
  <2>6. row \in 1..Len(b.left_item) /\ b.left_item[row] \in Ctype
    BY <2>4
  <2>7. f.left_row = row - 1
    BY <1>5, <1>10, <2>5 DEF State
  <2>8. f.left_row < Len(f.left_item) /\ f.left_row + 1 = row
    BY <1>10, <2>1, <2>6, <2>7
  <2>9. SelectedItem(f) = b.left_item[row]
    BY <1>10, <2>8 DEF SelectedItem
  <2> QED
    BY <1>6, <1>8, <2>6, <2>8, <2>9
<1> QED
  BY <1>11, <1>12 DEF f, hits

(* Whatever is typed, accepting the filter line lists every match, also of *)
(* the namespaces that were collapsed, and puts the cursor on a match: for *)
(* every schema, filter and set of collapsed namespaces.                   *)
THEOREM AcceptShowsMatchesHolds == Spec => AcceptShowsMatches
<1> DEFINE hits == Hits(db.filter, db.cur_filtertarget)
           Shows == AcceptFilter /\ db.filter # <<>> =>
                       LET h == Hits(db.filter, db.cur_filtertarget)
                       IN  /\ h \subseteq Listed(db')
                           /\ h # {} => SelectedItem(db') \in h
<1>1. Sound(db) /\ [Next]_vars => [Shows]_vars
  <2> SUFFICES ASSUME Sound(db), AcceptFilter, db.filter # <<>>
               PROVE  /\ hits \subseteq Listed(db')
                      /\ hits # {} => SelectedItem(db') \in hits
    OBVIOUS
  <2> DEFINE f == FilterAccept(db)
             g == DismissStartupHelp(f, "filter_accept")
  <2>1. db' = PostAction(g, db)
    BY DEF AcceptFilter, Finish
  <2>2. db \in State /\ f \in State
    BY FilterAcceptSound, SoundType
  <2>3. hits \subseteq Listed(f)
        /\ (hits # {} => f.left_row < Len(f.left_item) /\ SelectedItem(f) \in hits)
    BY AcceptLists
  <2> HIDE DEF f, hits
  <2>4. g \in State /\ g.left_item = f.left_item /\ g.left_row = f.left_row
    <3>1. g \in State /\ SameList(f, g)
      BY <2>2, DismissStartupHelpType, DismissStartupHelpFrame
    <3>2. g.left_row = f.left_row
      BY <2>2 DEF DismissStartupHelp, PopOverlay, State
    <3> QED
      BY <3>1, <3>2 DEF SameList
  <2> HIDE DEF g
  <2>5. db'.left_item = g.left_item
        /\ (g.left_row < Len(g.left_item) => db'.left_row = g.left_row)
    BY <2>1, <2>2, <2>4, PostActionFrame, PostActionSettles DEF SameList
  <2>6. hits \subseteq Listed(db')
    BY <2>3, <2>4, <2>5 DEF Listed
  <2>7. ASSUME hits # {} PROVE SelectedItem(db') \in hits
    <3>1. db'.left_row = f.left_row /\ db'.left_item = f.left_item
      BY <2>3, <2>4, <2>5, <2>7
    <3> QED
      BY <2>3, <2>7, <3>1, SameSelection
  <2> QED
    BY <2>6, <2>7
<1>2. Spec => [][Shows]_vars
  BY <1>1, SoundInvariant, PTL DEF Spec
<1> QED
  BY <1>2 DEF AcceptShowsMatches

-----------------------------------------------------------------------------
(***************************************************************************)
(* The view and the row under the cursor, for sessions without Ctrl-U in   *)
(* the filter line (cancel_cleared shows why: it shortens the list that    *)
(* Escape is to restore a row of).  Kept: the row Escape restores is a row *)
(* of the list it restores.                                                *)
(***************************************************************************)

Kept(d) ==
    d.cur_mode = "filter" =>
        d.pre_filter.row <= LastRow(Len(VisibleItems(d.pre_filter.text,
                                                     d.pre_filter.target, d.collapsed)))

Tidy(d) == InList(d) /\ Kept(d) /\ d.pre_nsdep_viewmode \notin ScopeNs

(* What leaves the list, its cursor and the saved view alone.              *)
LEMMA TidyCarries ==
    ASSUME NEW d, NEW e, Tidy(d), SameList(d, e), e.left_row = d.left_row,
           e.pre_nsdep_viewmode = d.pre_nsdep_viewmode
    PROVE  Tidy(e)
BY DEF Tidy, InList, Kept, SameList

LEMMA ShownTidy ==
    ASSUME NEW d, NEW e, d.pre_nsdep_viewmode \notin ScopeNs, SameShown(d, e),
           InList(e), e.cur_mode = "browse" \/ Kept(e)
    PROVE  Tidy(e)
BY DEF Tidy, Kept, SameShown

(* A handler that leaves the cursor in the list leaves the view to PostAction. *)
LEMMA PostActionTidy ==
    ASSUME NEW d \in State, NEW snap \in State, Tidy(d), db' = PostAction(d, snap)
    PROVE  Contextual(db') /\ Current(db') /\ Kept(db')
<1>1. Contextual(db') /\ Current(db')
  BY PostActionContextual, PostActionCurrent DEF Tidy
<1>2. SameList(d, db')
  BY PostActionFrame
<1> QED
  BY <1>1, <1>2 DEF Tidy, Kept, SameList

LEMMA FinishTidy ==
    ASSUME NEW na, NEW d, Sound(d), Tidy(d), db \in State, Finish(na, d)
    PROVE  Contextual(db') /\ Current(db') /\ Kept(db')
<1> DEFINE e == [d EXCEPT !.startup_help = FALSE]
           f == DismissStartupHelp(d, na)
<1>1. d \in State
  BY SoundType
<1>2. f \in State /\ SameList(d, f)
  BY <1>1, DismissStartupHelpType, DismissStartupHelpFrame
<1>3. f.left_row = d.left_row /\ f.pre_nsdep_viewmode = d.pre_nsdep_viewmode
  BY <1>1 DEF DismissStartupHelp, PopOverlay, State
<1>4. Tidy(f)
  BY <1>2, <1>3, TidyCarries
<1>5. db' = PostAction(f, db)
  BY DEF Finish
<1> HIDE DEF f
<1> QED
  BY <1>2, <1>4, <1>5, PostActionTidy

(* The top of the list is in it. *)
LEMMA ResetInList ==
    ASSUME NEW d \in State
    PROVE  InList(BuildLeftItemsReset(d))
<1> DEFINE b == BuildLeftItems(d)
           e == [b EXCEPT !.left_row = 0, !.left_scroll = 0]
<1>1. b \in State
  BY BuildLeftItemsType
<1>2. BuildLeftItemsReset(d) = e
  BY DEF BuildLeftItemsReset
<1> HIDE DEF b
<1>3. e.left_row = 0 /\ Len(e.left_item) \in Nat
  BY <1>1 DEF State
<1> HIDE DEF e
<1> QED
  BY <1>2, <1>3 DEF InList, LastRow, Greatest

(* SelectItem finds the row of what is listed, and moves for nothing else. *)
LEMMA SelectInList ==
    ASSUME NEW d \in State, NEW x, x \in Listed(d) \/ InList(d)
    PROVE  InList(SelectItem(d, x))
<1>1. CASE x \in Listed(d)
  <2> DEFINE row == CHOOSE i \in 1..Len(d.left_item) : d.left_item[i] = x
  <2>1. \E i \in 1..Len(d.left_item) : d.left_item[i] = x
    BY <1>1 DEF Listed
  <2>2. row \in 1..Len(d.left_item)
    BY <2>1
  <2>3. SelectItem(d, x) = [d EXCEPT !.left_row = row - 1]
    BY <1>1 DEF SelectItem
  <2> HIDE DEF row
  <2>4. SelectItem(d, x).left_row = row - 1 /\ SelectItem(d, x).left_item = d.left_item
    BY <2>3 DEF State
  <2>5. Len(d.left_item) \in Nat
    BY DEF State
  <2> QED
    BY <2>2, <2>4, <2>5 DEF InList, LastRow, Greatest
<1>2. CASE x \notin Listed(d)
  BY <1>2 DEF SelectItem
<1> QED
  BY <1>1, <1>2

(* Without a filter every ctype of an expanded namespace is listed.        *)
LEMMA RevealCtypeTidy ==
    ASSUME NEW d \in State, NEW c \in Ctype, d.pre_nsdep_viewmode \notin ScopeNs
    PROVE  Tidy(RevealCtype(d, c)) /\ RevealCtype(d, c) \in State
<1> DEFINE e == [d EXCEPT !.collapsed = d.collapsed \ {NsOf[c]},
                          !.filter = <<>>,
                          !.cur_filtertarget = DefaultFiltertarget]
           s == SwitchToBrowse(e)
           b == BuildLeftItems(s)
<1>1. e \in State /\ e.filter = <<>> /\ NsOf[c] \notin e.collapsed
  BY DefaultsType DEF State
<1>2. RevealCtype(d, c) = SelectItem(b, c)
  BY DEF RevealCtype
<1> HIDE DEF e
<1>3. s \in State /\ s.filter = <<>> /\ NsOf[c] \notin s.collapsed
  BY <1>1 DEF SwitchToBrowse, State, Navmode
<1> HIDE DEF s
<1>4. /\ b \in State
      /\ b.left_item = VisibleItems(s.filter, s.cur_filtertarget, s.collapsed)
  BY <1>3, BuildLeftItemsType DEF BuildLeftItems, State
<1>5. c \in Hits(s.filter, s.cur_filtertarget)
  BY <1>3 DEF Hits
<1>6. c \in Listed(b)
  BY <1>3, <1>4, <1>5, VisibleItemsRows DEF Listed
<1> HIDE DEF b
<1>7. InList(RevealCtype(d, c))
  BY <1>2, <1>4, <1>6, SelectInList
<1> QED
  BY <1>7, RevealCtypeShown, RevealCtypeType, ShownTidy

LEMMA GoToCtypeTidy ==
    ASSUME NEW d, Sound(d), d.pre_nsdep_viewmode \notin ScopeNs,
           NEW c \in Ctype, NEW dest \in Viewmode
    PROVE  Tidy(GoToCtype(d, c, dest)) /\ Tidy(NavigateToTarget(d, c, dest))
<1>1. d \in State
  BY SoundType
<1>2. ASSUME NEW e \in State, e.pre_nsdep_viewmode \notin ScopeNs
      PROVE  Tidy([RevealCtype(e, c) EXCEPT !.cur_viewmode = dest])
  <2> DEFINE r == RevealCtype(e, c)
             f == [r EXCEPT !.cur_viewmode = dest]
  <2>1. r \in State /\ Tidy(r)
    BY <1>2, RevealCtypeTidy
  <2> HIDE DEF r
  <2>2. SameList(r, f) /\ f.left_row = r.left_row
        /\ f.pre_nsdep_viewmode = r.pre_nsdep_viewmode
    BY <2>1 DEF SameList, State
  <2> HIDE DEF f
  <2>3. Tidy(f)
    BY <2>1, <2>2, TidyCarries
  <2> QED
    BY <2>3 DEF f, r
<1> DEFINE p == PushNaventry(d, SelectedCtype(d))
<1>3. p \in State /\ p.pre_nsdep_viewmode = d.pre_nsdep_viewmode
  <2>1. SelectedCtype(d) \in Item \cup {Null}
    BY <1>1, SelectionType DEF Item
  <2>2. p \in State
    BY <2>1, PushNaventrySound, SoundType
  <2> QED
    BY <1>1, <2>2 DEF PushNaventry, State
<1>4. NavigateToTarget(d, c, dest) = [RevealCtype(p, c) EXCEPT !.cur_viewmode = dest]
  BY DEF NavigateToTarget
<1>5. GoToCtype(d, c, dest) \in {NavigateToTarget(d, c, dest),
                                 [RevealCtype(d, c) EXCEPT !.cur_viewmode = dest]}
  BY DEF GoToCtype
<1> HIDE DEF p
<1> QED
  BY <1>1, <1>2, <1>3, <1>4, <1>5

(* Dropping the filter only makes the list longer.                         *)
LEMMA UnfilteredLonger ==
    ASSUME NEW filter, NEW target, NEW other, NEW collapsed
    PROVE  Len(VisibleItems(filter, target, collapsed))
              <= Len(VisibleItems(<<>>, other, collapsed))
<1> DEFINE items(f, t) == MatchingNs(f, t)
                          \cup {c \in Hits(f, t) : NsOf[c] \notin collapsed}
           few  == items(filter, target)
           many == items(<<>>, other)
<1>1. Hits(filter, target) \subseteq Hits(<<>>, other)
  BY DEF Hits
<1>2. few \in SUBSET many
  BY <1>1 DEF MatchingNs
<1>3. few \in SUBSET Item /\ many \in SUBSET Item
  BY SchemaAssumption DEF MatchingNs, Hits, Item
<1>4. /\ VisibleItems(filter, target, collapsed) = ListOf(few)
      /\ VisibleItems(<<>>, other, collapsed) = ListOf(many)
  BY DEF VisibleItems
<1> HIDE DEF few, many
<1>5. IsFiniteSet(many)
  BY <1>3, ItemFinite, FS_Subset
<1>6. Cardinality(few) <= Cardinality(many)
  BY <1>2, <1>5, FS_Subset
<1> QED
  BY <1>3, <1>4, <1>6, ListOfType

(* Fields the list does not depend on.                                     *)
LEMMA FieldTidy ==
    ASSUME NEW d \in State, Tidy(d), NEW x
    PROVE  /\ Tidy([d EXCEPT !.startup_help = x])
           /\ Tidy([d EXCEPT !.detail_field = x])
           /\ Tidy([d EXCEPT !.cur_viewmode = x])
           /\ Tidy([d EXCEPT !.running = x])
           /\ Tidy([d EXCEPT !.cur_panel = x])
           /\ Tidy([d EXCEPT !.preview_nav_pending = x])
           /\ Tidy(SwitchToBrowse(d))
           /\ Tidy(PushNaventry(d, x))
<1>1. d.cur_mode \in Navmode
  BY DEF State
<1>2. /\ Tidy([d EXCEPT !.startup_help = x])
      /\ Tidy([d EXCEPT !.detail_field = x])
      /\ Tidy([d EXCEPT !.cur_viewmode = x])
  BY DEF Tidy, InList, Kept, State
<1>3. /\ Tidy([d EXCEPT !.running = x])
      /\ Tidy([d EXCEPT !.cur_panel = x])
      /\ Tidy([d EXCEPT !.preview_nav_pending = x])
  BY DEF Tidy, InList, Kept, State
<1>4. Tidy(SwitchToBrowse(d)) /\ Tidy(PushNaventry(d, x))
  BY DEF SwitchToBrowse, PushNaventry, Tidy, InList, Kept, State
<1> QED
  BY <1>2, <1>3, <1>4

LEMMA OverlayTidy ==
    ASSUME NEW d \in State, Tidy(d), NEW vm
    PROVE  Tidy(PopOverlay(d)) /\ Tidy(PushOverlay(d, vm)) /\ Tidy(PopEveryOverlay(d))
<1>1. PopOverlay(d).left_row = d.left_row
      /\ PopOverlay(d).pre_nsdep_viewmode = d.pre_nsdep_viewmode
  BY DEF PopOverlay, State
<1>2. PushOverlay(d, vm).left_row = d.left_row
      /\ PushOverlay(d, vm).pre_nsdep_viewmode = d.pre_nsdep_viewmode
  BY DEF PushOverlay, State
<1>3. PopEveryOverlay(d).left_row = d.left_row
      /\ PopEveryOverlay(d).pre_nsdep_viewmode = d.pre_nsdep_viewmode
  BY DEF PopEveryOverlay, State
<1> QED
  BY <1>1, <1>2, <1>3, OverlayFrame, TidyCarries

(* The cursor keys stay in the list.                                       *)
LEMMA RowMoveTidy ==
    ASSUME NEW d \in State, Tidy(d), NEW n \in Nat
    PROVE  /\ Tidy(RowUp(d, n)) /\ Tidy(RowDown(d, n)) /\ Tidy(SetSelRow(d, 0))
           /\ LET e == Counted(d) IN Tidy(SetSelRow(e, LastSel(e)))
<1>1. ASSUME NEW e \in State, Tidy(e), NEW row,
             InLeft(e) => row <= LastRow(Len(e.left_item))
      PROVE  Tidy(SetSelRow(e, row))
  <2>1. CASE InLeft(e)
    <3> DEFINE f == [e EXCEPT !.left_row = row]
    <3>1. /\ f.left_row = row /\ f.left_item = e.left_item /\ f.cur_mode = e.cur_mode
          /\ f.pre_filter = e.pre_filter /\ f.collapsed = e.collapsed
          /\ f.pre_nsdep_viewmode = e.pre_nsdep_viewmode
      BY <1>1 DEF State
    <3>2. SetSelRow(e, row) = f
      BY <2>1 DEF SetSelRow
    <3> HIDE DEF f
    <3> QED
      BY <1>1, <2>1, <3>1, <3>2 DEF Tidy, InList, Kept
  <2>2. CASE ~InLeft(e)
    BY <1>1, <2>2 DEF SetSelRow, Tidy, InList, Kept, State
  <2> QED
    BY <2>1, <2>2
<1> DEFINE e == Counted(d)
<1>2. e \in State /\ Tidy(e)
  <2>1. SelectedCtype(d) \in Ctype \cup {Null}
    BY SelectionType
  <2>2. SameCursor(d, EnsureRightPanel(d, SelectedCtype(d)))
    BY LoadSameCursor DEF EnsureRightPanel
  <2>3. EnsureRightPanel(d, SelectedCtype(d)) \in State
        /\ SameList(d, EnsureRightPanel(d, SelectedCtype(d)))
        /\ SameView(d, EnsureRightPanel(d, SelectedCtype(d)))
    BY <2>1, EnsureRightPanelType, ContentFrame, ContentSameView
  <2>4. Tidy(EnsureRightPanel(d, SelectedCtype(d)))
    BY <2>2, <2>3, TidyCarries DEF SameCursor, SameView
  <2> QED
    BY <2>3, <2>4 DEF Counted
<1> HIDE DEF e
<1>3. ASSUME NEW f \in State, Tidy(f), InLeft(f)
      PROVE  /\ LastRow(Len(f.left_item)) \in Nat /\ f.left_row \in Nat
             /\ f.left_row <= LastRow(Len(f.left_item))
  BY <1>3 DEF Tidy, InList, LastRow, Greatest, State
<1>4. Tidy(RowUp(d, n))
  <2>1. InLeft(d) => Greatest(0, d.left_row - n) <= LastRow(Len(d.left_item))
    BY <1>3 DEF Greatest
  <2> QED
    BY <1>1, <2>1 DEF RowUp, SelRow
<1>5. Tidy(RowDown(d, n))
  <2>1. InLeft(e) => Least(LastSel(e), e.left_row + n) <= LastRow(Len(e.left_item))
    BY <1>2, <1>3 DEF Least, LastSel, left_item_N
  <2>2. RowDown(d, n) = SetSelRow(e, Least(LastSel(e), SelRow(e) + n))
    BY DEF RowDown, e
  <2> QED
    BY <1>1, <1>2, <2>1, <2>2 DEF SelRow
<1>6. Tidy(SetSelRow(d, 0))
  BY <1>1, <1>3
<1>7. Tidy(SetSelRow(e, LastSel(e)))
  <2>1. InLeft(e) => LastSel(e) <= LastRow(Len(e.left_item))
    BY <1>2, <1>3 DEF LastSel, left_item_N
  <2> QED
    BY <1>1, <1>2, <2>1
<1> QED
  BY <1>4, <1>5, <1>6, <1>7 DEF e

(* The filter keys.  Kept is what opening the line records and what its    *)
(* keys leave alone; Escape gives it back as InList.                       *)
LEMMA FilterStartTidy ==
    ASSUME NEW d, Sound(d), Tidy(d)
    PROVE  Tidy(FilterStart(d))
<1> DEFINE saved == [text   |-> d.filter, target |-> d.cur_filtertarget,
                     row    |-> d.left_row, scroll |-> d.left_scroll]
           e == [d EXCEPT !.pre_filter = saved,
                          !.cur_mode = "filter",
                          !.filter = <<>>,
                          !.cur_filtertarget = DefaultFiltertarget]
           b == BuildLeftItemsReset(e)
           f == [b EXCEPT !.cur_panel = "ctype_list"]
<1>1. d \in State
  BY SoundType
<1>2. saved \in PreFilter
  BY <1>1 DEF State, PreFilter
<1>3. d.left_row <= LastRow(Len(VisibleItems(saved.text, saved.target, d.collapsed)))
  BY DEF Sound, Fresh, Tidy, InList
<1>4. saved.row = d.left_row
  OBVIOUS
<1> HIDE DEF saved
<1>5. /\ e \in State /\ e.pre_filter = saved /\ e.collapsed = d.collapsed
      /\ e.pre_nsdep_viewmode = d.pre_nsdep_viewmode
  BY <1>1, <1>2, DefaultsType DEF State, Navmode
<1> HIDE DEF e
<1>6. b \in State /\ InList(b) /\ SameShown(e, b) /\ SameLine(e, b)
  BY <1>5, BuildLeftItemsType, ResetInList, ListShown
<1>7. b.collapsed = e.collapsed
  BY <1>5 DEF BuildLeftItemsReset, BuildLeftItems, State
<1> HIDE DEF b
<1>8. Tidy(b)
  BY <1>3, <1>4, <1>5, <1>6, <1>7 DEF Tidy, Kept, SameShown, SameLine
<1>9. Tidy(f)
  BY <1>6, <1>8, FieldTidy
<1>10. FilterStart(d) = f
  BY DEF FilterStart, b, e, saved
<1> QED
  BY <1>9, <1>10

LEMMA FilterCancelTidy ==
    ASSUME NEW d \in State, d.pre_filter.target # Null, d.cur_mode = "filter", Tidy(d)
    PROVE  Tidy(FilterCancel(d))
<1> DEFINE s == SwitchToBrowse(d)
           e == [s EXCEPT !.filter = d.pre_filter.text,
                          !.cur_filtertarget = d.pre_filter.target]
           b == BuildLeftItems(e)
<1>1. s \in State /\ s.collapsed = d.collapsed
  BY SwitchToBrowseType DEF SwitchToBrowse, State
<1>2. d.pre_filter.text \in Seq(Char) /\ d.pre_filter.target \in Filtertarget
  BY DEF State, PreFilter
<1>3. FilterCancel(d) = [b EXCEPT !.left_row = d.pre_filter.row,
                                  !.left_scroll = d.pre_filter.scroll]
  BY DEF FilterCancel
<1> HIDE DEF s
<1>4. /\ e \in State /\ e.filter = d.pre_filter.text
      /\ e.cur_filtertarget = d.pre_filter.target /\ e.collapsed = d.collapsed
  BY <1>1, <1>2 DEF State
<1> HIDE DEF e
<1>5. /\ b \in State
      /\ b.left_item = VisibleItems(d.pre_filter.text, d.pre_filter.target, d.collapsed)
  BY <1>4, BuildLeftItemsType DEF BuildLeftItems, State
<1> HIDE DEF b
<1>6. FilterCancel(d).left_row = d.pre_filter.row
      /\ FilterCancel(d).left_item = b.left_item
  BY <1>3, <1>5 DEF State
<1>7. InList(FilterCancel(d))
  BY <1>5, <1>6 DEF InList, Tidy, Kept
<1> QED
  BY <1>7, FilterCancelShown, ShownTidy DEF Tidy

(* A rebuild from the top keeps the line's promise with the collapse flags.*)
LEMMA ResetTidy ==
    ASSUME NEW d \in State, Tidy(d)
    PROVE  Tidy(BuildLeftItemsReset(d))
<1> DEFINE b == BuildLeftItemsReset(d)
<1>1. InList(b) /\ SameShown(d, b) /\ SameLine(d, b)
  BY ResetInList, ListShown
<1>2. b.collapsed = d.collapsed
  BY DEF BuildLeftItemsReset, BuildLeftItems, State
<1> HIDE DEF b
<1>3. Tidy(b)
  BY <1>1, <1>2 DEF Tidy, Kept, SameShown, SameLine
<1> QED
  BY <1>3 DEF b

LEMMA FilterEditTidy ==
    ASSUME NEW d \in State, Tidy(d), NEW text \in Seq(Char), NEW target \in Filtertarget
    PROVE  LET e == [d EXCEPT !.filter = text]
               f == [d EXCEPT !.filter = text, !.cur_filtertarget = target]
           IN  /\ Tidy(FilterText(d, text)) /\ Tidy(FilterCycleTarget(d))
               /\ Tidy(BuildLeftItemsReset(e)) /\ Tidy(BuildLeftItemsReset(f))
<1> DEFINE t == NextFiltertarget[d.cur_filtertarget]
           e == [d EXCEPT !.filter = text]
           f == [d EXCEPT !.filter = text, !.cur_filtertarget = target]
           g == [d EXCEPT !.cur_filtertarget = t]
<1>1. t \in Filtertarget
  BY DEF State, Filtertarget, NextFiltertarget
<1>2. FilterText(d, text) = BuildLeftItemsReset(e)
      /\ FilterCycleTarget(d) = BuildLeftItemsReset(g)
  BY DEF FilterText, FilterCycleTarget
<1> HIDE DEF t
<1>3. e \in State /\ f \in State /\ g \in State
  BY <1>1 DEF State
<1>4. Tidy(e) /\ Tidy(f) /\ Tidy(g)
  <2>1. ASSUME NEW x, x.left_row = d.left_row, x.left_item = d.left_item,
               x.cur_mode = d.cur_mode, x.pre_filter = d.pre_filter,
               x.collapsed = d.collapsed, x.pre_nsdep_viewmode = d.pre_nsdep_viewmode
        PROVE  Tidy(x)
    BY <2>1 DEF Tidy, InList, Kept
  <2> QED
    BY <2>1 DEF State
<1> HIDE DEF e, f, g
<1>5. Tidy(FilterText(d, text)) /\ Tidy(FilterCycleTarget(d))
      /\ Tidy(BuildLeftItemsReset(e)) /\ Tidy(BuildLeftItemsReset(f))
  BY <1>2, <1>3, <1>4, ResetTidy
<1> QED
  BY <1>5 DEF e, f

(* Clearing the filter in browse mode, and accepting it.                   *)
LEMMA FilterClearTidy ==
    ASSUME NEW d \in State, Tidy(d), d.cur_mode = "browse"
    PROVE  Tidy(FilterClear(d))
<1> DEFINE e == [d EXCEPT !.filter = <<>>]
           r == RecollapseAutoExpanded(e)
<1>1. e \in State
  BY DefaultsType DEF State
<1>2. FilterClear(d) \in {d, BuildLeftItemsReset(r)}
  BY DEF FilterClear
<1> HIDE DEF e
<1>3. r \in State
  BY <1>1, RecollapseAutoExpandedType
<1> HIDE DEF r
<1>4. InList(FilterClear(d))
  BY <1>2, <1>3, ResetInList DEF Tidy
<1>5. SameShown(d, FilterClear(d)) /\ FilterClear(d).cur_mode = "browse"
  BY FilterClearShown DEF SameLine
<1> QED
  BY <1>4, <1>5, ShownTidy DEF Tidy

LEMMA FilterAcceptTidy ==
    ASSUME NEW d \in State, Tidy(d)
    PROVE  Tidy(FilterAccept(d))
<1> DEFINE r == RecollapseAutoExpanded(d)
           e == ExpandMatching(r)
           b == BuildLeftItemsReset(e)
           rows == {i \in 1..Len(b.left_item) : b.left_item[i] \in Ctype}
           row == CHOOSE i \in rows : \A j \in rows : i <= j
           f == SelectFirstCtype(b)
<1>1. r \in State
  BY RecollapseAutoExpandedType
<1>2. FilterAccept(d) \in {SwitchToBrowse(d), SwitchToBrowse(f)}
  BY DEF FilterAccept
<1> HIDE DEF r
<1>3. e \in State
  BY <1>1 DEF ExpandMatching, State
<1> HIDE DEF e
<1>4. b \in State /\ InList(b)
  BY <1>3, BuildLeftItemsType, ResetInList
<1> HIDE DEF b
<1>5. f \in State /\ InList(f)
  <2>1. f \in State
    BY <1>4, SelectFirstCtypeType
  <2>2. Len(b.left_item) \in Nat
    BY <1>4 DEF State
  <2>3. CASE rows = {}
    BY <1>4, <2>3 DEF SelectFirstCtype
  <2>4. CASE rows # {}
    <3>1. rows \in SUBSET (1..Len(b.left_item))
      OBVIOUS
    <3>2. f = [b EXCEPT !.left_row = row - 1]
      BY <2>4 DEF SelectFirstCtype
    <3> HIDE DEF rows
    <3>3. row \in rows
      BY <2>2, <2>4, <3>1, LeastRow
    <3> HIDE DEF row, f
    <3>4. f.left_row = row - 1 /\ f.left_item = b.left_item
      BY <1>4, <3>2 DEF State
    <3> QED
      BY <2>1, <2>2, <3>1, <3>3, <3>4 DEF InList, LastRow, Greatest
  <2> QED
    BY <2>1, <2>3, <2>4
<1> HIDE DEF f
<1>6. InList(SwitchToBrowse(d)) /\ InList(SwitchToBrowse(f))
  BY <1>5 DEF Tidy, InList, SwitchToBrowse, State
<1>7. InList(FilterAccept(d))
  BY <1>2, <1>6
<1> QED
  BY <1>7, FilterAcceptShown, ShownTidy DEF Tidy

-----------------------------------------------------------------------------
(* The rows above a header are not its ctypes, so folding or unfolding it  *)
(* leaves the cursor on it.                                                *)
LEMMA FoldedAbove ==
    ASSUME NEW many \in SUBSET Item, NEW few \in SUBSET many, NEW n \in few,
           \A y \in many \ few : Pos[n] < Pos[y]
    PROVE  Above(many, n) = Above(few, n) /\ Above(few, n) < Cardinality(few)
<1>1. n \in Item /\ few \in SUBSET Item
  OBVIOUS
<1>2. \A y \in many : Pos[y] \in Nat /\ Pos[n] \in Nat
  BY <1>1, SchemaAssumption
<1>3. {y \in many : Pos[y] < Pos[n]} = {y \in few : Pos[y] < Pos[n]}
  BY <1>2
<1> DEFINE below == {y \in few : Pos[y] < Pos[n]}
<1>4. below \in SUBSET few /\ n \notin below
  BY <1>2
<1>5. IsFiniteSet(few)
  BY <1>1, ItemFinite, FS_Subset
<1>6. Above(few, n) = Cardinality(below)
  BY DEF Above
<1> HIDE DEF below
<1>7. Cardinality(below) < Cardinality(few)
  <2>1. Cardinality(few) \in Nat /\ IsFiniteSet(below) /\ Cardinality(below) \in Nat
    BY <1>4, <1>5, FS_Subset, FS_CardinalityType
  <2>2. Cardinality(below) <= Cardinality(few) /\ Cardinality(below) # Cardinality(few)
    BY <1>4, <1>5, FS_Subset
  <2> QED
    BY <2>1, <2>2
<1> QED
  BY <1>3, <1>6, <1>7 DEF Above

LEMMA ToggleCollapsedTidy ==
    ASSUME NEW d, Sound(d), InList(d), d.cur_mode = "browse",
           d.pre_nsdep_viewmode \notin ScopeNs,
           NEW n \in Ns, SelectedItem(d) = n
    PROVE  Tidy(ToggleCollapsed(d, n))
<1> DEFINE items(collapsed) ==
               MatchingNs(d.filter, d.cur_filtertarget)
               \cup {c \in Hits(d.filter, d.cur_filtertarget) : NsOf[c] \notin collapsed}
           opened == [d EXCEPT !.collapsed = d.collapsed \ {n}]
           closed == [d EXCEPT !.collapsed = d.collapsed \cup {n},
                               !.auto_expanded = d.auto_expanded \ {n}]
           f == ToggleCollapsed(d, n)
           old == items(d.collapsed)
           new == items(f.collapsed)
<1>1. d \in State
  BY SoundType
<1>2. \A collapsed : /\ items(collapsed) \in SUBSET Item
                     /\ VisibleItems(d.filter, d.cur_filtertarget, collapsed)
                           = ListOf(items(collapsed))
  BY SchemaAssumption DEF VisibleItems, MatchingNs, Hits, Item
<1>3. /\ f.left_row = d.left_row
      /\ f.left_item = VisibleItems(d.filter, d.cur_filtertarget, f.collapsed)
      /\ f.collapsed \in {d.collapsed \ {n}, d.collapsed \cup {n}}
  <2>1. /\ opened \in State /\ closed \in State
        /\ opened.left_row = d.left_row /\ closed.left_row = d.left_row
        /\ opened.filter = d.filter /\ closed.filter = d.filter
        /\ opened.cur_filtertarget = d.cur_filtertarget
        /\ closed.cur_filtertarget = d.cur_filtertarget
        /\ opened.collapsed = d.collapsed \ {n} /\ closed.collapsed = d.collapsed \cup {n}
    BY <1>1 DEF State
  <2>2. f \in {BuildLeftItems(opened), BuildLeftItems(closed)}
    BY DEF ToggleCollapsed
  <2>3. ASSUME NEW e \in State
        PROVE  LET b == BuildLeftItems(e)
               IN  /\ b.left_row = e.left_row /\ b.collapsed = e.collapsed
                   /\ b.left_item = VisibleItems(e.filter, e.cur_filtertarget, e.collapsed)
    BY DEF BuildLeftItems, State
  <2> HIDE DEF opened, closed, f
  <2> QED
    BY <2>1, <2>2, <2>3
<1>4. SameShown(d, f) /\ f.cur_mode = "browse"
  BY <1>1, ToggleCollapsedShown DEF SameLine
<1> HIDE DEF f
<1>5. d.left_item = ListOf(old) /\ old \in SUBSET Item
  BY <1>2 DEF Sound, Fresh
<1>6. f.left_item = ListOf(new) /\ new \in SUBSET Item
  BY <1>2, <1>3
<1>7. d.left_row + 1 \in 1..Cardinality(old) /\ ListOf(old)[d.left_row + 1] = n
  <2>1. SelectedItem(d) # Null
    BY SchemaAssumption DEF Item
  <2>2. d.left_row < Len(d.left_item) /\ d.left_item[d.left_row + 1] = n
    BY <2>1 DEF SelectedItem
  <2>3. Len(d.left_item) = Cardinality(old) /\ d.left_row \in Nat /\ Len(d.left_item) \in Nat
    BY <1>1, <1>5, ListOfType DEF State
  <2> HIDE DEF old
  <2> QED
    BY <1>5, <2>2, <2>3
<1>8. n \in old /\ Above(old, n) = d.left_row
  <2>1. d.left_row \in Nat
    BY <1>1 DEF State
  <2> HIDE DEF old
  <2> QED
    BY <1>5, <1>7, <2>1, ListOfRow
<1>9. \A c \in Hits(d.filter, d.cur_filtertarget) :
         c \in Ctype /\ NsOf[c] \in MatchingNs(d.filter, d.cur_filtertarget)
  BY DEF Hits, MatchingNs
<1>10. n \in MatchingNs(d.filter, d.cur_filtertarget)
  BY <1>8, SchemaAssumption DEF Hits
<1>11. /\ n \in new
       /\ old \subseteq new \/ new \subseteq old
       /\ \A y \in (old \ new) \cup (new \ old) : y \in Ctype /\ NsOf[y] = n
  BY <1>3, <1>9, <1>10
<1>12. \A y \in (old \ new) \cup (new \ old) : Pos[n] < Pos[y]
  BY <1>11, SchemaAssumption
<1> HIDE DEF old, new
<1>13. Above(new, n) = Above(old, n) /\ Above(new, n) < Cardinality(new)
  <2>1. CASE old \subseteq new
    <3>1. Above(new, n) = Above(old, n) /\ Above(old, n) < Cardinality(old)
      BY <1>6, <1>8, <1>12, <2>1, FoldedAbove
    <3>2. Cardinality(old) <= Cardinality(new)
      BY <1>6, <2>1, ItemFinite, FS_Subset
    <3>3. Cardinality(old) \in Nat /\ Cardinality(new) \in Nat /\ Above(old, n) \in Nat
      BY <1>1, <1>5, <1>6, <1>8, ItemFinite, FS_Subset, FS_CardinalityType DEF State
    <3> QED
      BY <3>1, <3>2, <3>3
  <2>2. CASE new \subseteq old
    BY <1>5, <1>11, <1>12, <2>2, FoldedAbove
  <2> QED
    BY <1>11, <2>1, <2>2
<1>14. InList(f)
  <2>1. Len(f.left_item) = Cardinality(new) /\ Len(f.left_item) \in Nat
    BY <1>6, ListOfType, ItemFinite, FS_Subset, FS_CardinalityType
  <2>2. f.left_row < Len(f.left_item) /\ f.left_row \in Nat
    BY <1>1, <1>3, <1>8, <1>13, <2>1 DEF State
  <2> QED
    BY <2>1, <2>2 DEF InList, LastRow, Greatest
<1>15. Tidy(f)
  BY <1>4, <1>14, ShownTidy
<1> QED
  BY <1>15 DEF f

(* Enter, in either panel, and going back leave the cursor in the list.    *)
LEMMA FollowRefNsDepTidy ==
    ASSUME NEW d, Sound(d), Tidy(d), NEW n \in Ns
    PROVE  Tidy(FollowRefNsDep(d, n))
<1> DEFINE from == IF SelectedCtype(d) # Null THEN SelectedCtype(d) ELSE d.nsdep_ns
           p == PushNaventry(d, from)
           q == [p EXCEPT !.filter = <<>>, !.cur_filtertarget = DefaultFiltertarget]
           s == SwitchToBrowse(q)
           b == BuildLeftItems(s)
           f == SelectItem(b, n)
<1>1. d \in State
  BY SoundType
<1>2. from \in Item \cup {Null}
  BY <1>1, SelectionType DEF State, Item
<1>3. FollowRefNsDep(d, n) = f
  BY DEF FollowRefNsDep
<1> HIDE DEF from
<1>4. p \in State
  BY <1>2, PushNaventrySound, SoundType
<1>5. /\ p.left_row = d.left_row /\ p.collapsed = d.collapsed
      /\ p.pre_nsdep_viewmode = d.pre_nsdep_viewmode
  BY <1>1 DEF PushNaventry, State
<1> HIDE DEF p
<1>6. /\ q \in State /\ q.left_row = d.left_row /\ q.collapsed = d.collapsed
      /\ q.filter = <<>> /\ q.pre_nsdep_viewmode = d.pre_nsdep_viewmode
  BY <1>4, <1>5, DefaultsType DEF State
<1> HIDE DEF q
<1>7. /\ s \in State /\ s.left_row = d.left_row /\ s.collapsed = d.collapsed
      /\ s.filter = <<>> /\ s.pre_nsdep_viewmode = d.pre_nsdep_viewmode
      /\ s.cur_mode = "browse"
  BY <1>6, SwitchToBrowseType DEF SwitchToBrowse, State
<1> HIDE DEF s
<1>8. /\ b \in State /\ b.left_row = d.left_row
      /\ b.left_item = VisibleItems(<<>>, s.cur_filtertarget, d.collapsed)
      /\ b.pre_nsdep_viewmode = d.pre_nsdep_viewmode /\ b.cur_mode = "browse"
  BY <1>7, BuildLeftItemsType DEF BuildLeftItems, State
<1> HIDE DEF b
<1>9. InList(b)
  <2>1. d.left_item = VisibleItems(d.filter, d.cur_filtertarget, d.collapsed)
    BY DEF Sound, Fresh
  <2>2. Len(d.left_item) <= Len(b.left_item)
    BY <1>8, <2>1, UnfilteredLonger
  <2>3. Len(d.left_item) \in Nat /\ Len(b.left_item) \in Nat /\ d.left_row \in Nat
    BY <1>1, <1>8 DEF State
  <2> QED
    BY <1>8, <2>2, <2>3 DEF Tidy, InList, LastRow, Greatest
<1>10. InList(f)
  BY <1>8, <1>9, SelectInList
<1>11. SameShown(b, f) /\ SameLine(b, f)
  BY <1>8, ListShown
<1> HIDE DEF f
<1>12. Tidy(f)
  BY <1>8, <1>10, <1>11 DEF Tidy, Kept, SameShown, SameLine
<1> QED
  BY <1>3, <1>12

LEMMA FollowRefTidy ==
    ASSUME NEW d, Bare(d), Tidy(d)
    PROVE  /\ OnField(d) => Tidy(FollowRefFields(d))
           /\ \A link \in LinksAtCursor(d) :
                 Tidy(IF d.cur_viewmode = "nsdep" THEN FollowRefNsDep(d, link.to)
                      ELSE FollowLink(d, link))
           /\ Tidy(FollowRefLeftPanel(d))
<1>1. d \in State /\ Sound(d) /\ d.pre_nsdep_viewmode \notin ScopeNs /\ d.cur_mode = "browse"
  BY SoundType DEF Bare, Tidy
<1>2. d.cur_viewmode \in Viewmode /\ DefaultViewmode \in Viewmode
  BY <1>1, DefaultsType DEF State
<1>3. ASSUME OnField(d) PROVE Tidy(FollowRefFields(d))
  <2> DEFINE target == FieldList(d, SelectedCtype(d))[d.right_row + 1]
  <2>1. FieldList(d, SelectedCtype(d)) \in Seq(Ctype)
    BY <1>1, SelectionType, FieldListType
  <2>2. d.right_row + 1 \in 1..Len(FieldList(d, SelectedCtype(d)))
    BY <1>1, <1>3, <2>1 DEF OnField, State
  <2>3. target \in Ctype
    BY <2>1, <2>2
  <2> HIDE DEF target
  <2> QED
    BY <1>1, <1>2, <2>3, GoToCtypeTidy DEF FollowRefFields, target
<1>4. ASSUME NEW link \in LinksAtCursor(d), d.cur_viewmode # "nsdep"
      PROVE  Tidy(FollowLink(d, link))
  <2> DEFINE pending == IF d.cur_viewmode = "preview" THEN link
                        ELSE d.preview_nav_pending
             e == [d EXCEPT !.preview_nav_pending = pending]
             p == PushNaventry(d, d.nsdep_ns)
  <2>1. link \in Link /\ link.to \in Ctype
    BY <1>1, <1>4, LinksAtCursorType
  <2>2. pending \in Link \cup {Null} /\ d.nsdep_ns \in Item \cup {Null}
    BY <1>1, <2>1 DEF State, Item
  <2>3. FollowLink(d, link) \in {d, NavigateToTarget(e, link.to, d.cur_viewmode),
                                 GoToCtype(p, link.to, DefaultViewmode)}
    BY DEF FollowLink
  <2> HIDE DEF pending
  <2>4. /\ e \in State /\ SameList(d, e)
        /\ e.pre_nsdep_viewmode = d.pre_nsdep_viewmode
    BY <1>1, <2>2 DEF SameList, State
  <2> HIDE DEF e
  <2>5. Tidy(NavigateToTarget(e, link.to, d.cur_viewmode))
    BY <1>1, <1>2, <2>1, <2>4, SoundCarries, GoToCtypeTidy
  <2>6. Sound(p)
    BY <1>1, <2>2, PushNaventrySound
  <2>7. p.pre_nsdep_viewmode = d.pre_nsdep_viewmode
    BY <1>1 DEF PushNaventry, State
  <2> HIDE DEF p
  <2>8. Tidy(GoToCtype(p, link.to, DefaultViewmode))
    BY <1>1, <1>2, <2>1, <2>6, <2>7, GoToCtypeTidy
  <2> QED
    BY <2>3, <2>5, <2>8
<1>5. ASSUME NEW link \in LinksAtCursor(d), d.cur_viewmode = "nsdep"
      PROVE  Tidy(FollowRefNsDep(d, link.to))
  <2>1. link.to \in Ns
    BY <1>1, <1>5, LinksAtCursorType
  <2> QED
    BY <1>1, <2>1, FollowRefNsDepTidy
<1>6. Tidy(FollowRefLeftPanel(d))
  <2>1. CASE SelectedItem(d) \in Ns
    <3>1. SelectedItem(d) \notin Ctype
      BY <2>1, SchemaAssumption
    <3>2. FollowRefLeftPanel(d) = ToggleCollapsed(d, SelectedItem(d))
      BY <2>1, <3>1 DEF FollowRefLeftPanel
    <3> QED
      BY <1>1, <2>1, <3>2, ToggleCollapsedTidy DEF Tidy
  <2>2. CASE SelectedItem(d) \in Ctype
    <3> DEFINE e == IF d.cur_viewmode \in ScopeNs THEN DeactivateNsdep(d) ELSE d
    <3>1. SelectedItem(d) \notin Ns
      BY <2>2, SchemaAssumption
    <3>2. FollowRefLeftPanel(d) = [e EXCEPT !.cur_panel = "content"]
      BY <2>2, <3>1 DEF FollowRefLeftPanel
    <3>3. /\ DeactivateNsdep(d) \in State /\ SameList(d, DeactivateNsdep(d))
          /\ DeactivateNsdep(d).left_row = d.left_row
          /\ DeactivateNsdep(d).pre_nsdep_viewmode = Null
      BY <1>1, DeactivateNsdepType DEF SameList, State, DeactivateNsdep
    <3>4. Null \notin ScopeNs
      BY SchemaAssumption DEF ScopeNs, Viewmode
    <3>5. e \in State /\ Tidy(e)
      BY <1>1, <3>3, <3>4 DEF Tidy, InList, Kept, SameList
    <3> HIDE DEF e
    <3>6. Tidy([e EXCEPT !.cur_panel = "content"])
      BY <3>5, FieldTidy
    <3> QED
      BY <3>2, <3>6
  <2>3. CASE SelectedItem(d) \notin Ns \cup Ctype
    BY <2>3 DEF FollowRefLeftPanel
  <2> QED
    BY <2>1, <2>2, <2>3
<1> QED
  BY <1>3, <1>4, <1>5, <1>6

LEMMA GoBackTidy ==
    ASSUME NEW d, Left(d), Tidy(d)
    PROVE  Tidy(navaction_go_back(d))
<1> DEFINE n     == Len(d.navstack)
           entry == d.navstack[n]
           collapsed == IF entry.ctype \in Ctype
                        THEN d.collapsed \ {NsOf[entry.ctype]} ELSE d.collapsed
           e == [d EXCEPT !.filter = entry.filter,
                          !.cur_viewmode = entry.viewmode,
                          !.cur_mode = entry.navmode,
                          !.cur_filtertarget = entry.filtertarget,
                          !.collapsed = collapsed,
                          !.left_row = 0]
           b == BuildLeftItems(e)
           target == IF entry.ctype = Null THEN EmptyNs ELSE entry.ctype
           s == SelectItem(b, target)
           t == navaction_go_back(d)
<1>1. d \in State /\ Sound(d)
  BY SoundType DEF Left
<1>2. CASE d.navstack = <<>>
  BY <1>2 DEF navaction_go_back
<1>3. CASE d.navstack # <<>>
  <2>1. d.navstack \in Seq(Naventry) /\ n \in Nat
    BY <1>1 DEF State
  <2>2. entry \in Naventry /\ n \in 1..n
    BY <1>3, <2>1
  <2>3. /\ entry.filter \in Seq(Char) /\ entry.filtertarget \in Filtertarget
        /\ entry.navmode \in Navmode /\ entry.viewmode \in Viewmode
    BY <2>2 DEF Naventry
  <2>4. collapsed \in SUBSET Ns
    BY <1>1 DEF State
  <2>5. entry.navmode = "browse"
    BY <2>2 DEF Left, Backs
  <2>6. t = [s EXCEPT !.left_scroll  = entry.left_scroll,
                      !.right_row    = entry.right_row,
                      !.right_scroll = entry.right_scroll,
                      !.cur_panel    = entry.focus_panel,
                      !.navstack     = SubSeq(@, 1, n - 1)]
    BY <1>3 DEF navaction_go_back
  <2> HIDE DEF entry, collapsed, target, t
  <2>7. /\ e \in State /\ e.left_row = 0 /\ e.cur_mode = "browse"
        /\ e.pre_nsdep_viewmode = d.pre_nsdep_viewmode
    BY <1>1, <2>3, <2>4, <2>5 DEF State
  <2> HIDE DEF e
  <2>8. b \in State /\ SameShown(e, b) /\ SameLine(e, b) /\ b.left_row = 0
    BY <2>7, BuildLeftItemsType, ListShown DEF BuildLeftItems, State
  <2> HIDE DEF b
  <2>9. InList(b)
    BY <2>8 DEF InList, LastRow, Greatest, State
  <2>10. s \in State /\ InList(s) /\ SameShown(b, s) /\ SameLine(b, s)
    <3>1. SameShown(b, s) /\ SameLine(b, s) /\ InList(s)
      BY <2>8, <2>9, ListShown, SelectInList
    <3> QED
      BY <2>8, <3>1, SelectItemType
  <2> HIDE DEF s, n
  <2>11. /\ t.left_row = s.left_row /\ t.left_item = s.left_item
         /\ t.cur_mode = s.cur_mode /\ t.pre_nsdep_viewmode = s.pre_nsdep_viewmode
    BY <2>6, <2>10 DEF State
  <2>12. Tidy(t)
    BY <2>7, <2>8, <2>10, <2>11 DEF Tidy, InList, Kept, SameShown, SameLine
  <2> QED
    BY <2>12 DEF t
<1> QED
  BY <1>2, <1>3

-----------------------------------------------------------------------------
(* Every action but Ctrl-U keeps the view right for the row. *)

InContext(d) == Contextual(d) /\ Current(d) /\ Kept(d)

LEMMA SteadyTidy ==
    ASSUME NEW d, Steady(d), Kept(d)
    PROVE  Tidy(d)
BY DEF Steady, Placed, Left, Returns, BothSeen, Seen, Tidy, InList, left_item_N

LEMMA ReadyTidy ==
    ASSUME db \in State, Tidy(db), NEW na
    PROVE  Tidy(Ready(na))
<1> DEFINE e == [db EXCEPT !.startup_help = FALSE]
<1>1. e \in State
  BY DEF State
<1>2. Tidy(e)
  BY FieldTidy
<1>3. Ready(na) \in {db, PopOverlay(e)}
  BY DEF Ready
<1> HIDE DEF e
<1>4. Tidy(PopOverlay(e))
  BY <1>1, <1>2, OverlayTidy
<1> QED
  BY <1>3, <1>4

LEMMA MoveContext ==
    ASSUME Placed(db), Tidy(db),
           \/ MoveUp \/ MoveDown \/ PageUp \/ PageDown \/ GoTop \/ GoBottom
           \/ SwitchPanelLeft \/ SwitchPanelRight
    PROVE  InContext(db')
<1>1. db \in State /\ Sound(db)
  BY SoundType DEF Placed, Left
<1>2. ASSUME NEW na, NEW d, Sound(d), Tidy(d), Finish(na, d)
      PROVE  InContext(db')
  BY <1>1, <1>2, FinishTidy DEF InContext
<1>3. CASE MoveUp
  BY <1>1, <1>2, <1>3, RowMoveSound, RowMoveTidy DEF MoveUp
<1>4. CASE MoveDown
  BY <1>1, <1>2, <1>4, RowMoveSound, RowMoveTidy DEF MoveDown
<1>5. CASE PageUp
  BY <1>1, <1>2, <1>5, RowsType, RowMoveSound, RowMoveTidy DEF PageUp
<1>6. CASE PageDown
  BY <1>1, <1>2, <1>6, RowsType, RowMoveSound, RowMoveTidy DEF PageDown
<1>7. CASE GoTop
  <2>1. Sound(SetSelRow(db, 0))
    BY <1>1, MoveSound
  <2>2. Tidy(SetSelRow(db, 0))
    BY <1>1, RowMoveTidy
  <2> QED
    BY <1>2, <1>7, <2>1, <2>2 DEF GoTop
<1>8. CASE GoBottom
  <2> DEFINE e == Counted(db)
  <2>1. Finish("go_bottom", SetSelRow(e, LastSel(e)))
    BY <1>8 DEF GoBottom
  <2>2. Sound(SetSelRow(e, LastSel(e)))
    BY <1>1, CountedSound, MoveSound
  <2>3. Tidy(SetSelRow(e, LastSel(e)))
    BY <1>1, RowMoveTidy
  <2> HIDE DEF e
  <2> QED
    BY <1>2, <2>1, <2>2, <2>3
<1>9. CASE SwitchPanelLeft
  <2> DEFINE f == [db EXCEPT !.cur_panel = "ctype_list"]
  <2>1. Finish("switch_panel_left", db) \/ Finish("switch_panel_left", f)
    BY <1>9 DEF SwitchPanelLeft
  <2>2. Sound(f)
    BY <1>1, FieldSound DEF Panel
  <2>3. Tidy(f)
    BY <1>1, FieldTidy
  <2> HIDE DEF f
  <2> QED
    BY <1>1, <1>2, <2>1, <2>2, <2>3
<1>10. CASE SwitchPanelRight
  <2> DEFINE s == SwitchToBrowse(db)
             f == [s EXCEPT !.cur_panel = "content"]
  <2>1. Finish("switch_panel_right", db) \/ Finish("switch_panel_right", f)
    BY <1>10 DEF SwitchPanelRight
  <2>2. Sound(s) /\ Sound(f) /\ s \in State
    BY <1>1, SwitchToBrowseSound, SwitchToBrowseType, FieldSound DEF Panel
  <2>3. Tidy(s)
    BY <1>1, FieldTidy
  <2> HIDE DEF s
  <2>4. Tidy(f)
    BY <2>2, <2>3, FieldTidy
  <2> HIDE DEF f
  <2> QED
    BY <1>1, <1>2, <2>1, <2>2, <2>4
<1> QED
  BY <1>3, <1>4, <1>5, <1>6, <1>7, <1>8, <1>9, <1>10

LEMMA FollowContext ==
    ASSUME Placed(db), Tidy(db),
           GoBack \/ FollowRefLeft \/ FollowRefField \/ FollowRefLink \/ FollowRefNothing
    PROVE  InContext(db')
<1> DEFINE d == Ready("follow_ref")
<1>1. db \in State /\ Left(db)
  BY SoundType DEF Placed, Left
<1>2. "follow_ref" \in NeedNoOverlay
  BY DEF NeedNoOverlay
<1>3. Press("follow_ref") => Bare(d) /\ Tidy(d)
  BY <1>1, <1>2, ReadyBare, ReadyTidy
<1>4. ASSUME NEW na, NEW e, Left(e), Tidy(e), Finish(na, e)
      PROVE  InContext(db')
  BY <1>1, <1>4, FinishTidy DEF InContext, Left
<1> HIDE DEF d
<1>5. CASE GoBack
  <2>1. Left(navaction_go_back(db)) /\ Tidy(navaction_go_back(db))
    BY <1>1, GoBackLeft, GoBackTidy
  <2> QED
    BY <1>4, <1>5, <2>1 DEF GoBack
<1>6. CASE FollowRefLeft
  <2>1. Bare(d) /\ Tidy(d) /\ Finish("follow_ref", FollowRefLeftPanel(d))
    BY <1>3, <1>6 DEF FollowRefLeft, d
  <2>2. Left(FollowRefLeftPanel(d)) /\ Tidy(FollowRefLeftPanel(d))
    BY <2>1, FollowRefBare, FollowRefTidy, BareLeft
  <2> QED
    BY <1>4, <2>1, <2>2
<1>7. CASE FollowRefField
  <2>1. /\ Bare(d) /\ Tidy(d) /\ OnField(d)
        /\ Finish("follow_ref", FollowRefFields(d))
    BY <1>3, <1>7 DEF FollowRefField, d
  <2>2. Left(FollowRefFields(d)) /\ Tidy(FollowRefFields(d))
    BY <2>1, FollowRefBare, FollowRefTidy, BareLeft
  <2> QED
    BY <1>4, <2>1, <2>2
<1>8. CASE FollowRefLink
  <2>1. /\ Bare(d) /\ Tidy(d)
        /\ \E link \in LinksAtCursor(d) :
              Finish("follow_ref", IF d.cur_viewmode = "nsdep"
                                   THEN FollowRefNsDep(d, link.to)
                                   ELSE FollowLink(d, link))
    BY <1>3, <1>8 DEF FollowRefLink, d
  <2>2. PICK link \in LinksAtCursor(d) :
              Finish("follow_ref", IF d.cur_viewmode = "nsdep"
                                   THEN FollowRefNsDep(d, link.to)
                                   ELSE FollowLink(d, link))
    BY <2>1
  <2> DEFINE e == IF d.cur_viewmode = "nsdep" THEN FollowRefNsDep(d, link.to)
                  ELSE FollowLink(d, link)
  <2>3. Left(e) /\ Tidy(e)
    BY <2>1, FollowRefBare, FollowRefTidy, BareLeft
  <2>4. Finish("follow_ref", e)
    BY <2>2
  <2> HIDE DEF e
  <2> QED
    BY <1>4, <2>3, <2>4
<1>9. CASE FollowRefNothing
  BY <1>3, <1>4, <1>9, BareLeft DEF FollowRefNothing, d
<1> QED
  BY <1>5, <1>6, <1>7, <1>8, <1>9

LEMMA ViewContext ==
    ASSUME Placed(db), Tidy(db),
           \/ CycleViewmode \/ ToggleView \/ ShowHelp \/ ShowDetail
           \/ DismissOrClear \/ FilterStatic \/ Quit
    PROVE  InContext(db')
<1>1. db \in State /\ Sound(db) /\ Left(db)
  BY SoundType DEF Placed, Left
<1>2. ASSUME NEW na, NEW e, Left(e), Tidy(e), Finish(na, e)
      PROVE  InContext(db')
  BY <1>1, <1>2, FinishTidy DEF InContext, Left
<1>3. \A na : Press(na) /\ na \in {"show_help", "dismiss_or_clear", "quit"}
                => db.cur_mode = "browse"
  BY <1>1, KeybindOf DEF Press, State
<1>4. ASSUME NEW na \in NeedNoOverlay, Press(na)
      PROVE  /\ Left(Ready(na)) /\ Tidy(Ready(na)) /\ Ready(na) \in State
             /\ Ready(na).cur_mode = "browse"
             /\ na # "show_detail" => Bare(Ready(na))
  BY <1>1, <1>4, ReadyBare, ReadyTidy, SoundType DEF Left
<1>5. CASE CycleViewmode
  <2> DEFINE d == Ready("cycle_viewmode")
             vm == NextViewmode[d.cur_viewmode]
  <2>1. /\ Bare(d) /\ Tidy(d) /\ d \in State
        /\ Finish("cycle_viewmode", [d EXCEPT !.cur_viewmode = NextViewmode[@]])
    BY <1>4, <1>5 DEF CycleViewmode, NeedNoOverlay
  <2> HIDE DEF d
  <2>2. vm \in Viewmode \ IsOverlay
    BY <2>1, ViewsBare DEF State
  <2>3. Finish("cycle_viewmode", [d EXCEPT !.cur_viewmode = vm])
    BY <2>1
  <2> HIDE DEF vm
  <2>4. Left([d EXCEPT !.cur_viewmode = vm]) /\ Tidy([d EXCEPT !.cur_viewmode = vm])
    BY <2>1, <2>2, ViewChangeBare, BareLeft, FieldTidy
  <2> QED
    BY <1>2, <2>3, <2>4
<1>6. CASE ToggleView
  <2>1. PICK na \in Toggle :
           Press(na) /\ Finish(na, ToggleViewmode(Ready(na), TargetViewmode[na]))
    BY <1>6 DEF ToggleView
  <2> DEFINE d == Ready(na)
             e == ToggleViewmode(d, TargetViewmode[na])
  <2>2. Bare(d) /\ Tidy(d) /\ d \in State
    <3>1. "show_detail" \notin Toggle
      BY DEF Toggle, TargetViewmode
    <3> QED
      BY <1>4, <2>1, <3>1 DEF NeedNoOverlay
  <2>3. Finish(na, e)
    BY <2>1
  <2> HIDE DEF d
  <2>4. \E vm \in Viewmode \ IsOverlay : e = [d EXCEPT !.cur_viewmode = vm]
    BY ViewsBare DEF ToggleViewmode
  <2> HIDE DEF e
  <2>5. Left(e) /\ Tidy(e)
    <3>1. PICK vm \in Viewmode \ IsOverlay : e = [d EXCEPT !.cur_viewmode = vm]
      BY <2>4
    <3>2. Bare([d EXCEPT !.cur_viewmode = vm]) /\ Tidy([d EXCEPT !.cur_viewmode = vm])
      BY <2>2, ViewChangeBare, FieldTidy
    <3> QED
      BY <3>1, <3>2, BareLeft
  <2> QED
    BY <1>2, <2>3, <2>5
<1>7. CASE ShowHelp
  <2>1. db.cur_mode = "browse"
    BY <1>3, <1>7 DEF ShowHelp
  <2>2. Left(PopOverlay(db)) /\ Left(PushOverlay(db, "help"))
    BY <1>1, <2>1, OverlayLeft DEF IsOverlay, Left
  <2>3. Tidy(PopOverlay(db)) /\ Tidy(PushOverlay(db, "help"))
    BY <1>1, OverlayTidy
  <2> QED
    BY <1>2, <1>7, <2>2, <2>3 DEF ShowHelp
<1>8. CASE ShowDetail
  <2> DEFINE d == Ready("show_detail")
             e == IF d.cur_viewmode = "detail"
                  THEN [PopOverlay(d) EXCEPT !.detail_field = Null]
                  ELSE IF OnField(d)
                  THEN PushOverlay([d EXCEPT !.detail_field = SelectedCtype(d)],
                                   "detail")
                  ELSE d
  <2>1. /\ Left(d) /\ Tidy(d) /\ d \in State /\ d.cur_mode = "browse"
        /\ Finish("show_detail", e)
    BY <1>4, <1>8 DEF ShowDetail, NeedNoOverlay
  <2> HIDE DEF d
  <2>2. /\ Left([PopOverlay(d) EXCEPT !.detail_field = Null])
        /\ Tidy([PopOverlay(d) EXCEPT !.detail_field = Null])
    <3>1. Left(PopOverlay(d)) /\ Tidy(PopOverlay(d)) /\ PopOverlay(d) \in State
      BY <2>1, OverlayLeft, OverlayTidy, SoundType DEF Left
    <3> QED
      BY <3>1, DetailLeft, FieldTidy
  <2>3. /\ Left(PushOverlay([d EXCEPT !.detail_field = SelectedCtype(d)], "detail"))
        /\ Tidy(PushOverlay([d EXCEPT !.detail_field = SelectedCtype(d)], "detail"))
    <3>1. SelectedCtype(d) \in Ctype \cup {Null}
      BY <2>1, SelectionType
    <3> DEFINE f == [d EXCEPT !.detail_field = SelectedCtype(d)]
    <3>2. Left(f) /\ f.cur_mode = "browse" /\ Tidy(f)
      BY <2>1, <3>1, DetailLeft, FieldTidy
    <3> HIDE DEF f
    <3>3. Left(PushOverlay(f, "detail")) /\ Tidy(PushOverlay(f, "detail"))
      BY <3>2, OverlayLeft, OverlayTidy, SoundType DEF IsOverlay, Left
    <3> QED
      BY <3>3 DEF f
  <2>4. Left(e) /\ Tidy(e)
    BY <2>1, <2>2, <2>3
  <2> HIDE DEF e
  <2> QED
    BY <1>2, <2>1, <2>4
<1>9. CASE DismissOrClear
  <2> DEFINE p == PopOverlay(db)
             field == IF db.cur_viewmode = "detail" THEN Null ELSE p.detail_field
  <2>1. db.cur_mode = "browse"
    BY <1>3, <1>9 DEF DismissOrClear
  <2>2. Left(p) /\ p \in State /\ Tidy(p)
    BY <1>1, <2>1, OverlayLeft, OverlayTidy, SoundType DEF Left
  <2>3. Finish("dismiss_or_clear", IF db.overlay_stack = <<>> THEN FilterClear(db)
                                   ELSE [p EXCEPT !.detail_field = field])
    BY <1>9 DEF DismissOrClear
  <2> HIDE DEF p
  <2>4. field \in Ctype \cup {Null}
    BY <2>2 DEF State
  <2> HIDE DEF field
  <2>5. Left([p EXCEPT !.detail_field = field]) /\ Tidy([p EXCEPT !.detail_field = field])
    BY <2>2, <2>4, DetailLeft, FieldTidy
  <2>6. Left(FilterClear(db)) /\ Tidy(FilterClear(db))
    BY <1>1, <2>1, FilterClearSound, FilterClearShown, LineLeft, FilterClearTidy
  <2> QED
    BY <1>2, <2>3, <2>5, <2>6
<1>10. CASE FilterStatic
  BY <1>2, <1>4, <1>10 DEF FilterStatic, NeedNoOverlay
<1>11. CASE Quit
  <2> DEFINE e == [db EXCEPT !.running = FALSE]
  <2>1. Finish("quit", e)
    BY <1>11 DEF Quit
  <2>2. Sound(e) /\ SameShown(db, e) /\ SameLine(db, e)
    <3>1. Sound(e)
      BY <1>1, FieldSound DEF Panel
    <3>2. SameShown(db, e) /\ SameLine(db, e)
      BY <1>1 DEF SameShown, SameLine, State
    <3> QED
      BY <3>1, <3>2
  <2>3. Tidy(e)
    BY <1>1, FieldTidy
  <2> HIDE DEF e
  <2>4. Left(e)
    BY <1>1, <2>2, LineLeft
  <2> QED
    BY <1>2, <2>1, <2>3, <2>4
<1> QED
  BY <1>5, <1>6, <1>7, <1>8, <1>9, <1>10, <1>11

(* Ctrl-U in the filter line folds again what an earlier filter had        *)
(* unfolded: the one step after which Escape restores a row beyond the list.*)
Refolds == ClearFilter /\ db'.collapsed # db.collapsed

(* Clearing the filter line without that keeps its promise.                *)
LEMMA UnfoldedClearTidy ==
    ASSUME NEW d \in State, Tidy(d), FilterClear(d).collapsed = d.collapsed
    PROVE  Tidy(FilterClear(d))
<1> DEFINE e == [d EXCEPT !.filter = <<>>]
           r == RecollapseAutoExpanded(e)
           f == FilterClear(d)
<1>1. e \in State
  BY DefaultsType DEF State
<1>2. f \in {d, BuildLeftItemsReset(r)}
  BY DEF FilterClear
<1>3. SameShown(d, f) /\ SameLine(d, f) /\ f.collapsed = d.collapsed
  BY FilterClearShown
<1> HIDE DEF e, f
<1>4. r \in State
  BY <1>1, RecollapseAutoExpandedType
<1> HIDE DEF r
<1>5. InList(f)
  BY <1>2, <1>4, ResetInList DEF Tidy
<1>6. Tidy(f)
  BY <1>3, <1>5 DEF Tidy, Kept, SameShown, SameLine
<1> QED
  BY <1>6 DEF f

LEMMA FilterContext ==
    ASSUME Placed(db), Tidy(db), ~Refolds,
           \/ StartFilter \/ AcceptFilter \/ CancelFilter \/ ClearFilter
           \/ CycleTarget \/ FilterBackspace \/ AppendSpace \/ AppendChar
    PROVE  InContext(db')
<1>1. db \in State /\ Sound(db) /\ Left(db)
      /\ db.filter \in Seq(Char) /\ db.cur_mode \in Navmode
  BY SoundType DEF Placed, Left, State
<1>2. ASSUME NEW na, NEW e, Sound(e), Tidy(e), Finish(na, e)
      PROVE  InContext(db')
  BY <1>1, <1>2, FinishTidy DEF InContext
<1>3. ASSUME NEW text \in Seq(Char)
      PROVE  /\ Sound(FilterText(db, text)) /\ Tidy(FilterText(db, text))
             /\ Sound(FilterCycleTarget(db)) /\ Tidy(FilterCycleTarget(db))
  BY <1>1, <1>3, FilterTextSound, FilterCycleTargetSound, FilterEditTidy, DefaultsType
<1>4. CASE StartFilter
  <2> DEFINE d == Ready("filter_start")
  <2>1. Bare(d) /\ Tidy(d) /\ Finish("filter_start", FilterStart(d))
    BY <1>1, <1>4, ReadyBare, ReadyTidy DEF StartFilter, NeedNoOverlay
  <2> HIDE DEF d
  <2>2. Sound(FilterStart(d)) /\ Tidy(FilterStart(d))
    BY <2>1, SoundType, FilterStartSound, FilterStartTidy DEF Bare
  <2> QED
    BY <1>2, <2>1, <2>2
<1>5. CASE AcceptFilter
  <2>1. Sound(FilterAccept(db)) /\ Tidy(FilterAccept(db))
    BY <1>1, FilterAcceptSound, FilterAcceptTidy
  <2> QED
    BY <1>2, <1>5, <2>1 DEF AcceptFilter
<1>6. CASE CancelFilter
  <2>1. "filter_cancel" \in Keybind[db.cur_mode]
    BY <1>6 DEF CancelFilter, Press
  <2>2. db.cur_mode = "filter"
    BY <1>1, <2>1, KeybindOf
  <2>3. db.pre_filter.target # Null
    BY <1>1, <2>2 DEF Left, Alone
  <2>4. Sound(FilterCancel(db)) /\ Tidy(FilterCancel(db))
    BY <1>1, <2>2, <2>3, FilterCancelSound, FilterCancelTidy
  <2> QED
    BY <1>2, <1>6, <2>4 DEF CancelFilter
<1>7. CASE ClearFilter
  <2> DEFINE f == FilterClear(db)
             g == DismissStartupHelp(f, "filter_clear")
  <2>1. Finish("filter_clear", f) /\ db'.collapsed = db.collapsed
    BY <1>7 DEF ClearFilter, Refolds
  <2>2. Sound(f) /\ f \in State
    BY <1>1, FilterClearSound, SoundType
  <2> HIDE DEF f
  <2>3. g \in State /\ SameList(f, g)
    BY <2>2, DismissStartupHelpType, DismissStartupHelpFrame
  <2>4. db' = PostAction(g, db)
    BY <2>1 DEF Finish
  <2> HIDE DEF g
  <2>5. f.collapsed = db.collapsed
    BY <1>1, <2>1, <2>3, <2>4, PostActionFrame DEF SameList
  <2>6. Tidy(f)
    BY <1>1, <2>5, UnfoldedClearTidy DEF f
  <2> QED
    BY <1>2, <2>1, <2>2, <2>6
<1>8. CASE CycleTarget
  BY <1>1, <1>2, <1>3, <1>8 DEF CycleTarget
<1>9. CASE FilterBackspace
  <2>1. CASE db.filter = <<>>
    BY <1>1, <1>2, <1>9, <2>1 DEF FilterBackspace
  <2>2. CASE db.filter # <<>>
    <3>1. SubSeq(db.filter, 1, Len(db.filter) - 1) \in Seq(Char)
      BY <1>1, <2>2
    <3>2. /\ Sound(FilterText(db, SubSeq(db.filter, 1, Len(db.filter) - 1)))
          /\ Tidy(FilterText(db, SubSeq(db.filter, 1, Len(db.filter) - 1)))
      BY <1>3, <3>1
    <3> QED
      BY <1>2, <1>9, <2>2, <3>2 DEF FilterBackspace
  <2> QED
    BY <2>1, <2>2
<1>10. CASE AppendSpace
  <2>1. Append(db.filter, Space) \in Seq(Char)
    BY <1>1, SchemaAssumption
  <2> QED
    BY <1>2, <1>3, <1>10, <2>1 DEF AppendSpace
<1>11. CASE AppendChar
  <2>1. PICK c \in Char : Finish("move_up", FilterText(db, Append(db.filter, c)))
    BY <1>11 DEF AppendChar
  <2>2. Append(db.filter, c) \in Seq(Char)
    BY <1>1
  <2> QED
    BY <1>2, <1>3, <2>1, <2>2
<1> QED
  BY <1>4, <1>5, <1>6, <1>7, <1>8, <1>9, <1>10, <1>11

LEMMA HeadlessContext ==
    ASSUME Steady(db), Contextual(db), Current(db), Tidy(db), Headless
    PROVE  InContext(db')
<1> DEFINE d == LeaveFilterMode(Started)
<1>1. db \in State /\ Placed(db) /\ Left(db)
  BY SoundType DEF Steady, Placed, Left
<1>2. /\ Left(Started) /\ Started \in State /\ SameList(db, Started) /\ Tidy(Started)
      /\ SameCursor(db, Started) /\ Started.cur_viewmode = db.cur_viewmode
      /\ SameContent(db, Started)
  <2>1. Sound(Started) /\ SameList(db, Started) /\ Started \in State
    BY <1>1, ReadySound, SoundType DEF Left, Started, SameList, State
  <2>2. /\ Started.cur_viewmode = db.cur_viewmode
        /\ Started.pre_nsdep_viewmode = db.pre_nsdep_viewmode
        /\ Started.overlay_stack = db.overlay_stack
        /\ Started.cur_panel = db.cur_panel /\ SameCursor(db, Started)
        /\ SameContent(db, Started)
    BY <1>1 DEF Started, State, SameCursor, SameContent
  <2>3. Left(Started)
    BY <1>1, <2>1, <2>2 DEF Left, Returns, Backs, Alone, SameList
  <2>4. Tidy(Started)
    BY <1>1, FieldTidy DEF Started
  <2> QED
    BY <2>1, <2>2, <2>3, <2>4
<1>3. d \in State /\ Sound(d) /\ Left(d) /\ Tidy(d) /\ d.cur_mode = "browse"
  <2>1. Started.cur_mode \in Navmode
    BY <1>2 DEF State
  <2>2. CASE Started.cur_mode = "filter"
    <3>1. Started.pre_filter.target # Null
      BY <1>2, <2>2 DEF Left, Alone
    <3>2. d = FilterCancel(Started)
      BY <2>2 DEF LeaveFilterMode
    <3>3. /\ Sound(d) /\ Tidy(d) /\ SameShown(Started, d) /\ d.cur_mode = "browse"
      BY <1>2, <2>2, <3>1, <3>2, FilterCancelSound, FilterCancelTidy,
         FilterCancelShown DEF Left
    <3> HIDE DEF d
    <3>4. Left(d)
      BY <1>2, <3>3, ShownLeft DEF Left
    <3> QED
      BY <3>3, <3>4, SoundType
  <2>3. CASE Started.cur_mode # "filter"
    BY <1>2, <2>1, <2>3 DEF LeaveFilterMode, Navmode, Left
  <2> QED
    BY <2>2, <2>3
<1>4. ASSUME NEW e \in State, NEW snap \in State, Tidy(e), db' = PostAction(e, snap)
      PROVE  InContext(db')
  BY <1>4, PostActionTidy DEF InContext
<1>5. CASE RejectCommand
  <2>1. db' = Started
    BY <1>5 DEF RejectCommand
  <2>2. Contextual(Started) /\ Current(Started)
    BY <1>2, CursorSelects, ContentCarries DEF Contextual
  <2> QED
    BY <1>2, <2>1, <2>2 DEF Tidy, InContext
<1>6. CASE HeadlessGoBack
  <2> DEFINE e == navaction_go_back(Started)
  <2>1. db' = PostAction(e, Started)
    BY <1>6 DEF HeadlessGoBack
  <2>2. e \in State /\ Tidy(e)
    BY <1>2, GoBackLeft, GoBackTidy, SoundType DEF Left
  <2> HIDE DEF e
  <2> QED
    BY <1>2, <1>4, <2>1, <2>2
<1>7. CASE HeadlessSetView
  <2>1. PICK vm \in Viewmode :
           db' = PostAction(IF vm \in IsOverlay THEN PushOverlay(d, vm)
                            ELSE [PopEveryOverlay(d) EXCEPT !.cur_viewmode = vm], d)
    BY <1>7, InputAssumption DEF HeadlessSetView
  <2> HIDE DEF d
  <2> DEFINE p == PopEveryOverlay(d)
             e == [p EXCEPT !.cur_viewmode = vm]
  <2>2. p \in State /\ Tidy(p)
    BY <1>3, OverlayTidy, PopEveryOverlayType
  <2>3. db' = PostAction(IF vm \in IsOverlay THEN PushOverlay(d, vm) ELSE e, d)
    BY <2>1
  <2> HIDE DEF p
  <2>4. e \in State /\ Tidy(e)
    <3>1. e \in State
      BY <2>2 DEF State
    <3> QED
      BY <2>2, <3>1, FieldTidy
  <2> HIDE DEF e
  <2>5. PushOverlay(d, vm) \in State /\ Tidy(PushOverlay(d, vm))
    BY <1>3, OverlayTidy, PushOverlayType
  <2> QED
    BY <1>3, <1>4, <2>3, <2>4, <2>5
<1>8. CASE HeadlessSetFilter
  <2>1. PICK arg \in [text : Seq(Char), target : Filtertarget] :
           db' = PostAction(
                IF Blank(arg.text) THEN FilterCleared(d)
                ELSE FilterAccept(BuildLeftItemsReset(
                        [FilterStart(d) EXCEPT !.filter = arg.text,
                                               !.cur_filtertarget = arg.target])), d)
    BY <1>8, InputAssumption DEF HeadlessSetFilter
  <2> HIDE DEF d
  <2>2. arg.text \in Seq(Char) /\ arg.target \in Filtertarget
        /\ <<>> \in Seq(Char) /\ DefaultFiltertarget \in Filtertarget
    BY DefaultsType
  <2>3. FilterCleared(d) \in State /\ Tidy(FilterCleared(d))
    <3>1. Sound(FilterCleared(d))
      BY <1>3, DefaultsType, SetFilterSound DEF FilterCleared
    <3>2. Tidy(FilterCleared(d))
      BY <1>3, <2>2, FilterEditTidy DEF FilterCleared
    <3> QED
      BY <3>1, <3>2, SoundType
  <2> DEFINE f == FilterStart(d)
             e == [f EXCEPT !.filter = arg.text, !.cur_filtertarget = arg.target]
             b == BuildLeftItemsReset(e)
             a == FilterAccept(b)
  <2>4. a \in State /\ Tidy(a)
    <3>1. f \in State /\ Sound(f) /\ Tidy(f)
      BY <1>3, FilterStartSound, FilterStartTidy, SoundType
    <3> HIDE DEF f
    <3>2. Sound(b) /\ b \in State
      BY <2>2, <3>1, SetFilterSound, SoundType
    <3>3. Tidy(b)
      BY <2>2, <3>1, FilterEditTidy
    <3> HIDE DEF b
    <3>4. Sound(a) /\ Tidy(a)
      BY <3>2, <3>3, FilterAcceptSound, FilterAcceptTidy
    <3> QED
      BY <3>4, SoundType
  <2>5. db' = PostAction(IF Blank(arg.text) THEN FilterCleared(d) ELSE a, d)
    BY <2>1
  <2> HIDE DEF a
  <2> QED
    BY <1>3, <1>4, <2>3, <2>4, <2>5
<1>9. CASE HeadlessNavigate
  <2> DEFINE e == PopEveryOverlay(d)
  <2>1. PICK c \in Ctype, vm \in Viewmode :
           db' = PostAction(GoToCtype(e, c, vm), e)
    <3>1. PICK c \in Ctype :
             \E vm \in {v \in ViewArgs : NavigateView(v, c)} \cup
                   {IF db.cur_viewmode \in IsOverlay THEN DefaultViewmode
                    ELSE db.cur_viewmode} :
                db' = PostAction(GoToCtype(e, c, vm), e)
      BY <1>9 DEF HeadlessNavigate
    <3>2. (IF db.cur_viewmode \in IsOverlay THEN DefaultViewmode
           ELSE db.cur_viewmode) \in Viewmode
      BY <1>1, ViewsBare DEF State
    <3> HIDE DEF e
    <3> QED
      BY <3>1, <3>2, InputAssumption
  <2>2. e \in State /\ SameList(d, e) /\ Tidy(e)
    BY <1>3, OverlayFrame, OverlayTidy, PopEveryOverlayType
  <2> HIDE DEF e, d
  <2>3. Sound(e) /\ e.pre_nsdep_viewmode \notin ScopeNs
    BY <1>3, <2>2, SoundCarries DEF Tidy
  <2>4. GoToCtype(e, c, vm) \in State /\ Tidy(GoToCtype(e, c, vm))
    BY <2>3, GoToCtypeSound, GoToCtypeTidy, SoundType
  <2> QED
    BY <1>4, <2>1, <2>2, <2>4
<1>10. CASE SetTermSize
  <2>1. PICK h \in Nat :
           db' = AdjustRight(AdjustLeft([db EXCEPT !.term_hei = h]), SelectedCtype(db))
    BY <1>10, InputAssumption DEF SetTermSize
  <2> DEFINE r == [db EXCEPT !.term_hei = h]
             l == AdjustLeft(r)
             f == AdjustRight(l, SelectedCtype(db))
  <2>2. /\ r \in State /\ SameList(db, r) /\ SameView(db, r)
        /\ r.left_row = db.left_row /\ r.left_item = db.left_item
    BY <1>1 DEF SameList, SameView, State
  <2>3. db' = f
    BY <2>1
  <2> HIDE DEF r
  <2>4. SelectedCtype(db) \in Ctype \cup {Null} /\ SelectedCtype(db) = SelectedCtype(r)
    BY <1>1, <2>2, SelectionType, SameSelection
  <2>5. /\ l \in State /\ SameList(r, l) /\ SameView(r, l)
        /\ SelectedCtype(r) \in {Null, SelectedCtype(l)}
        /\ r.left_row < Len(r.left_item) => l.left_row = r.left_row
    BY <2>2, AdjustLeftType, AdjustFrame, AdjustSameView, AdjustLeftSeen
  <2> HIDE DEF l
  <2>6. /\ f \in State /\ SameList(l, f) /\ SameView(l, f)
        /\ f.left_row = l.left_row /\ f.left_item = l.left_item
    BY <2>4, <2>5, AdjustRightType, AdjustFrame, AdjustSameView, AdjustRightSeen
  <2> HIDE DEF f
  <2>7. SameList(db, f) /\ SameView(db, f)
    BY <2>2, <2>5, <2>6, SameListTransitive, SameViewTransitive
  <2>8. Kept(f)
    BY <2>7 DEF Tidy, Kept, SameList
  <2>9. CASE db.left_row < Len(db.left_item)
    <3>1. SameCursor(db, l) /\ SameCursor(db, f)
      BY <2>2, <2>5, <2>6, <2>7, <2>9 DEF SameCursor, SameList
    <3>2. Contextual(f)
      BY <2>7, <3>1, CursorSelects DEF Contextual, SameView
    <3>3. SelectedCtype(l) = SelectedCtype(db)
      BY <3>1, CursorSelects
    <3>4. SameContent(db, l)
      <4>1. r.shown = db.shown /\ r.nsdep_ns = db.nsdep_ns /\ r.cur_viewmode = db.cur_viewmode
        BY <1>1 DEF r, State
      <4>2. l.shown = r.shown /\ l.nsdep_ns = r.nsdep_ns /\ l.cur_viewmode = r.cur_viewmode
        BY <2>2 DEF l, AdjustLeft, State
      <4> QED
        BY <3>1, <4>1, <4>2 DEF SameContent
    <3>5. Current(f)
      BY <2>5, <3>3, <3>4, ContentCarries, AdjustRightStaysCurrent DEF f
    <3> QED
      BY <2>3, <2>8, <3>2, <3>5 DEF InContext
  <2>10. CASE ~(db.left_row < Len(db.left_item))
    <3>1. SelectedCtype(f) = Null /\ SelectedNs(f) = Null
      BY <1>1, <2>6, <2>7, <2>10, NoneInList DEF Tidy, SameList
    <3>2. Contextual(f) /\ Current(f)
      BY <3>1 DEF Contextual, Current, About, Scope
    <3> QED
      BY <2>3, <2>8, <3>2 DEF InContext
  <2> QED
    BY <2>9, <2>10
<1> QED
  BY <1>5, <1>6, <1>7, <1>8, <1>9, <1>10 DEF Headless

LEMMA NextContext ==
    ASSUME Steady(db), InContext(db), [Next]_vars, [~Refolds]_vars
    PROVE  InContext(db')
<1>1. Placed(db) /\ Tidy(db) /\ Contextual(db) /\ Current(db)
  BY SteadyTidy DEF Steady, InContext
<1>2. CASE UNCHANGED vars
  BY <1>2 DEF vars
<1>3. CASE ~Refolds /\ Key
  BY <1>1, <1>3, MoveContext, FollowContext, ViewContext, FilterContext DEF Key
<1>4. CASE Headless
  BY <1>1, <1>4, HeadlessContext
<1>5. CASE Exited
  BY <1>5 DEF Exited
<1> QED
  BY <1>2, <1>3, <1>4, <1>5 DEF Next

(* The program starts under the startup help, which fits any row.          *)
LEMMA InitContext ==
    ASSUME Init
    PROVE  InContext(db)
<1>1. db.cur_viewmode = "help" /\ db.cur_mode = "browse"
  BY DEF Init, PushOverlay, BuildLeftItems
<1> QED
  BY <1>1 DEF InContext, Contextual, Current, Kept, IsOverlay, ScopeNs, ContentView

(* Wherever keys, headless commands, overlays and go_back lead, a          *)
(* namespace view is shown exactly on a header: for every schema, in every *)
(* session without a Ctrl-U in the filter line that folds namespaces, which*)
(* takes the row Escape restores out of the list (cancel_cleared).         *)
THEOREM ContextViewHolds ==
    Spec /\ [][~Refolds]_vars => []ContextView
<1>1. Init => InContext(db)
  BY InitContext
<1>2. Steady(db) /\ InContext(db) /\ [Next]_vars /\ [~Refolds]_vars => InContext(db)'
  BY NextContext
<1>3. InContext(db) => ContextView
  BY DEF InContext, Contextual, ContextView
<1> QED
  BY <1>1, <1>2, <1>3, SteadyInvariant, PTL DEF Spec

(* And a view that is shown holds the lines of the row under the cursor,   *)
(* and a namespace view remembers that row: in the same sessions, on every *)
(* row but the header of an unnamed namespace, whose key is the key of     *)
(* an empty cache (unnamed_ns).                                            *)
THEOREM ContentCurrentHolds ==
    Spec /\ [][~Refolds]_vars => [](About(db) # EmptyNs => ContentCurrent)
<1>1. Init => InContext(db)
  BY InitContext
<1>2. Steady(db) /\ InContext(db) /\ [Next]_vars /\ [~Refolds]_vars => InContext(db)'
  BY NextContext
<1>3. InContext(db) => (About(db) # EmptyNs => ContentCurrent)
  BY DEF InContext, Current, ContentCurrent
<1> QED
  BY <1>1, <1>2, <1>3, SteadyInvariant, PTL DEF Spec

-----------------------------------------------------------------------------
(***************************************************************************)
(* The detail overlay, for sessions that go back only when no overlay is   *)
(* shown: going back under one leaves it on the stack below a new view,    *)
(* where a second detail overlay can empty its field (detail_kept).        *)
(***************************************************************************)

BackUnder ==
    /\ GoBack \/ HeadlessGoBack
    /\ db.overlay_stack # <<>> /\ db.navstack # <<>>

InDetail(d) == Veiled(d, SelectedCtype(d))

(* A handler is done right by if what it leaves on the stack is of the     *)
(* ctype the command found.                                                *)
LEMMA FinishDetail ==
    ASSUME NEW na, NEW d, Left(d), Veiled(d, SelectedCtype(db)), db \in State,
           Finish(na, d)
    PROVE  InDetail(db')
<1> DEFINE c == SelectedCtype(db)
           e == [d EXCEPT !.startup_help = FALSE]
           f == DismissStartupHelp(d, na)
<1>1. d \in State
  BY SoundType DEF Left
<1>2. /\ e.cur_viewmode = d.cur_viewmode /\ e.overlay_stack = d.overlay_stack
      /\ e.pre_nsdep_viewmode = d.pre_nsdep_viewmode
      /\ e.detail_field = d.detail_field /\ e.startup_help = FALSE /\ e \in State
  BY <1>1 DEF State
<1>3. /\ \/ f \in {d, e}
         \/ f = PopOverlay(e) /\ d.cur_viewmode = "help"
      /\ f \in State
  BY <1>1, DismissStartupHelpType DEF DismissStartupHelp
<1>4. db' = PostAction(f, db)
  BY DEF Finish
<1> HIDE DEF c, e, f
<1>5. Veiled(e, c) /\ Returns(e)
  BY <1>2, VeiledCarries DEF Left, Returns, c
<1>6. Veiled(PopOverlay(e), c)
  BY <1>2, <1>5, PopVeiled
<1>7. ASSUME d.cur_viewmode = "help" PROVE Returns(PopOverlay(e))
  <2>1. d.cur_mode = "browse" /\ e.cur_mode = d.cur_mode /\ Sound(e) /\ Backs(e)
    <3>1. d.cur_mode = "browse"
      BY <1>1, <1>7 DEF Left, Alone, IsOverlay, State, Navmode
    <3>2. SameList(d, e) /\ e.navstack = d.navstack
      BY <1>1 DEF e, SameList, State
    <3>3. Sound(e)
      BY <1>2, <3>2, SoundCarries DEF Left
    <3> QED
      BY <3>1, <3>2, <3>3 DEF Left, Backs, SameList
  <2> QED
    BY <1>5, <2>1, OverlayLeft DEF Left
<1>8. Veiled(f, c) /\ Returns(f)
  BY <1>3, <1>5, <1>6, <1>7 DEF Left, c
<1> QED
  BY <1>3, <1>4, <1>8, PostActionVeiled DEF InDetail, c

LEMMA ShownDetail ==
    ASSUME NEW d, NEW e, NEW c, Veiled(d, c), SameShown(d, e)
    PROVE  Veiled(e, c)
BY VeiledCarries DEF SameShown

(* Without an overlay there is no detail. *)
LEMMA ClearDetail ==
    ASSUME NEW d, Left(d), d.overlay_stack = <<>>, NEW c
    PROVE  Veiled(d, c)
BY BareVeiled DEF Left, Returns

(* A record no overlay covers has none on the stack either. *)
LEMMA BareClear ==
    ASSUME NEW d, NEW c, Veiled(d, c), d.cur_viewmode \notin IsOverlay
    PROVE  d.overlay_stack = <<>>
BY DEF Veiled, Overlaid

LEMMA ReadyDetail ==
    ASSUME Placed(db), InDetail(db), NEW na \in NeedNoOverlay, Press(na)
    PROVE  /\ Veiled(Ready(na), SelectedCtype(db))
           /\ SelectedCtype(Ready(na)) = SelectedCtype(db)
           /\ Ready(na).cur_viewmode \notin IsOverlay => Ready(na).overlay_stack = <<>>
           /\ na # "show_detail" => Bare(Ready(na)) /\ Ready(na).overlay_stack = <<>>
<1> DEFINE e == [db EXCEPT !.startup_help = FALSE]
           d == Ready(na)
<1>1. db \in State /\ Returns(db)
  BY SoundType DEF Placed, Left
<1>2. /\ e.cur_viewmode = db.cur_viewmode /\ e.overlay_stack = db.overlay_stack
      /\ e.pre_nsdep_viewmode = db.pre_nsdep_viewmode
      /\ e.detail_field = db.detail_field /\ e.startup_help = FALSE /\ e \in State
      /\ e.left_row = db.left_row /\ e.left_item = db.left_item
  BY <1>1 DEF State
<1>3. d \in {db, PopOverlay(e)}
  BY DEF Ready
<1> HIDE DEF e, d
<1>4. Veiled(e, SelectedCtype(db)) /\ Returns(e)
  BY <1>1, <1>2, VeiledCarries DEF Returns, InDetail
<1>5. Veiled(d, SelectedCtype(db))
  BY <1>2, <1>3, <1>4, PopVeiled DEF InDetail
<1>6. d.left_row = db.left_row /\ d.left_item = db.left_item
  <2>1. PopOverlay(e).left_row = e.left_row /\ PopOverlay(e).left_item = e.left_item
    BY <1>2 DEF PopOverlay, State
  <2> QED
    BY <1>2, <1>3, <2>1
<1>7. d.cur_viewmode \notin IsOverlay => d.overlay_stack = <<>>
  BY <1>5, BareClear
<1>8. na # "show_detail" => Bare(d)
  BY ReadyBare DEF d
<1> QED
  BY <1>5, <1>6, <1>7, <1>8, SameSelection DEF Bare, d

LEMMA MoveDetail ==
    ASSUME Placed(db), InDetail(db),
           \/ MoveUp \/ MoveDown \/ PageUp \/ PageDown \/ GoTop \/ GoBottom
           \/ SwitchPanelLeft \/ SwitchPanelRight
    PROVE  InDetail(db')
<1>1. db \in State /\ Sound(db) /\ Left(db)
  BY SoundType DEF Placed, Left
<1>2. ASSUME NEW na, NEW d, Sound(d), SameList(db, d), SameView(db, d), Finish(na, d)
      PROVE  InDetail(db')
  <2>1. Veiled(d, SelectedCtype(db))
    BY <1>2, VeiledCarries DEF SameView, InDetail
  <2> QED
    BY <1>1, <1>2, <2>1, LeftCarries, FinishDetail
<1>3. CASE MoveUp
  BY <1>1, <1>2, <1>3, RowMoveSound, RowMoveSame DEF MoveUp
<1>4. CASE MoveDown
  BY <1>1, <1>2, <1>4, RowMoveSound, RowMoveSame DEF MoveDown
<1>5. CASE PageUp
  BY <1>1, <1>2, <1>5, RowsType, RowMoveSound, RowMoveSame DEF PageUp
<1>6. CASE PageDown
  BY <1>1, <1>2, <1>6, RowsType, RowMoveSound, RowMoveSame DEF PageDown
<1>7. CASE GoTop
  BY <1>1, <1>2, <1>7, MoveSound, RowMoveSame DEF GoTop
<1>8. CASE GoBottom
  <2> DEFINE e == Counted(db)
  <2>1. Finish("go_bottom", SetSelRow(e, LastSel(e)))
    BY <1>8 DEF GoBottom
  <2>2. Sound(SetSelRow(e, LastSel(e)))
    BY <1>1, CountedSound, MoveSound
  <2>3. SameList(db, SetSelRow(e, LastSel(e))) /\ SameView(db, SetSelRow(e, LastSel(e)))
    BY <1>1, RowMoveSame
  <2> HIDE DEF e
  <2> QED
    BY <1>2, <2>1, <2>2, <2>3
<1>9. CASE SwitchPanelLeft
  <2> DEFINE f == [db EXCEPT !.cur_panel = "ctype_list"]
  <2>1. Finish("switch_panel_left", db) \/ Finish("switch_panel_left", f)
    BY <1>9 DEF SwitchPanelLeft
  <2>2. Sound(f)
    BY <1>1, FieldSound DEF Panel
  <2>3. SameList(db, f) /\ SameShown(db, f) /\ f.cur_panel = "ctype_list"
    BY <1>1 DEF SameList, SameShown, State
  <2> HIDE DEF f
  <2>4. Left(f)
    BY <1>1, <2>2, <2>3 DEF Left, Returns, Backs, Alone, SameList, SameShown
  <2> QED
    BY <1>1, <2>1, <2>3, <2>4, ShownDetail, FinishDetail DEF InDetail
<1>10. CASE SwitchPanelRight
  <2> DEFINE s == SwitchToBrowse(db)
             f == [s EXCEPT !.cur_panel = "content"]
  <2>1. Finish("switch_panel_right", db) \/ Finish("switch_panel_right", f)
    BY <1>10 DEF SwitchPanelRight
  <2>2. Sound(s) /\ Sound(f) /\ s \in State
    BY <1>1, SwitchToBrowseSound, SwitchToBrowseType, FieldSound DEF Panel
  <2>3. SameShown(db, s) /\ s.cur_mode = "browse"
    BY <1>1, ListShown
  <2> HIDE DEF s
  <2>4. SameShown(s, f) /\ f.cur_mode = "browse"
    BY <2>2, <2>3 DEF SameShown, State
  <2> HIDE DEF f
  <2>5. SameShown(db, f) /\ Left(f)
    BY <1>1, <2>2, <2>3, <2>4, SameTransitive, ShownLeft DEF Left
  <2> QED
    BY <1>1, <2>1, <2>5, ShownDetail, FinishDetail DEF InDetail
<1> QED
  BY <1>3, <1>4, <1>5, <1>6, <1>7, <1>8, <1>9, <1>10

LEMMA FollowDetail ==
    ASSUME Placed(db), InDetail(db), ~BackUnder,
           GoBack \/ FollowRefLeft \/ FollowRefField \/ FollowRefLink \/ FollowRefNothing
    PROVE  InDetail(db')
<1> DEFINE d == Ready("follow_ref")
<1>1. db \in State /\ Left(db)
  BY SoundType DEF Placed, Left
<1>2. Press("follow_ref") => Bare(d) /\ d.overlay_stack = <<>>
  BY ReadyDetail DEF NeedNoOverlay
<1> HIDE DEF d
<1>3. ASSUME NEW na, NEW e, Left(e), SameOverlays(d, e), d.overlay_stack = <<>>,
             Finish(na, e)
      PROVE  InDetail(db')
  BY <1>1, <1>3, ClearDetail, FinishDetail DEF SameOverlays
<1>4. CASE GoBack
  <2> DEFINE e == navaction_go_back(db)
  <2>1. Finish("go_back", e)
    BY <1>4 DEF GoBack
  <2>2. Left(e) /\ SameOverlays(db, e)
    BY <1>1, GoBackLeft, GoBackOverlays
  <2>3. e = db \/ db.overlay_stack = <<>>
    BY <1>4 DEF BackUnder, navaction_go_back
  <2> HIDE DEF e
  <2>4. Veiled(e, SelectedCtype(db))
    BY <2>2, <2>3, ClearDetail DEF SameOverlays, InDetail
  <2> QED
    BY <1>1, <2>1, <2>2, <2>4, FinishDetail
<1>5. CASE FollowRefLeft
  <2>1. /\ Bare(d) /\ d.overlay_stack = <<>>
        /\ Finish("follow_ref", FollowRefLeftPanel(d))
    BY <1>2, <1>5 DEF FollowRefLeft, d
  <2> QED
    BY <1>3, <2>1, FollowRefBare, BareLeft
<1>6. CASE FollowRefField
  <2>1. /\ Bare(d) /\ d.overlay_stack = <<>> /\ OnField(d)
        /\ Finish("follow_ref", FollowRefFields(d))
    BY <1>2, <1>6 DEF FollowRefField, d
  <2> QED
    BY <1>3, <2>1, FollowRefBare, BareLeft
<1>7. CASE FollowRefLink
  <2>1. /\ Bare(d) /\ d.overlay_stack = <<>>
        /\ \E link \in LinksAtCursor(d) :
              Finish("follow_ref", IF d.cur_viewmode = "nsdep"
                                   THEN FollowRefNsDep(d, link.to)
                                   ELSE FollowLink(d, link))
    BY <1>2, <1>7 DEF FollowRefLink, d
  <2>2. PICK link \in LinksAtCursor(d) :
              Finish("follow_ref", IF d.cur_viewmode = "nsdep"
                                   THEN FollowRefNsDep(d, link.to)
                                   ELSE FollowLink(d, link))
    BY <2>1
  <2> DEFINE e == IF d.cur_viewmode = "nsdep" THEN FollowRefNsDep(d, link.to)
                  ELSE FollowLink(d, link)
  <2>3. Left(e) /\ SameOverlays(d, e)
    BY <2>1, FollowRefBare, BareLeft
  <2>4. Finish("follow_ref", e)
    BY <2>2
  <2> HIDE DEF e
  <2> QED
    BY <1>3, <2>1, <2>3, <2>4
<1>8. CASE FollowRefNothing
  <2>1. Bare(d) /\ d.overlay_stack = <<>> /\ Finish("follow_ref", d)
    BY <1>2, <1>8 DEF FollowRefNothing, d
  <2> QED
    BY <1>3, <2>1, BareLeft DEF SameOverlays
<1> QED
  BY <1>4, <1>5, <1>6, <1>7, <1>8

LEMMA ViewDetail ==
    ASSUME Placed(db), InDetail(db),
           \/ CycleViewmode \/ ToggleView \/ ShowHelp \/ ShowDetail
           \/ DismissOrClear \/ FilterStatic \/ Quit
    PROVE  InDetail(db')
<1> DEFINE c == SelectedCtype(db)
<1>1. db \in State /\ Sound(db) /\ Left(db) /\ Returns(db) /\ Veiled(db, c)
  BY SoundType DEF Placed, Left, InDetail
<1>2. ASSUME NEW na, NEW e, Left(e), Veiled(e, c), Finish(na, e)
      PROVE  InDetail(db')
  BY <1>1, <1>2, FinishDetail
<1>3. \A na : Press(na) /\ na \in {"show_help", "dismiss_or_clear", "quit"}
                => db.cur_mode = "browse"
  BY <1>1, KeybindOf DEF Press, State
<1>4. ASSUME NEW na \in NeedNoOverlay, na # "show_detail", Press(na)
      PROVE  /\ Bare(Ready(na)) /\ Ready(na) \in State
             /\ Ready(na).overlay_stack = <<>>
  BY <1>4, ReadyDetail, SoundType DEF Bare
<1>5. ASSUME NEW na, NEW d, Bare(d), d.overlay_stack = <<>>,
             NEW vm \in Viewmode \ IsOverlay, Finish(na, [d EXCEPT !.cur_viewmode = vm])
      PROVE  InDetail(db')
  <2> DEFINE e == [d EXCEPT !.cur_viewmode = vm]
  <2>1. Bare(e)
    BY <1>5, ViewChangeBare
  <2>2. e.overlay_stack = <<>>
    BY <1>5, SoundType DEF Bare, State
  <2> HIDE DEF e
  <2>3. Left(e) /\ Veiled(e, c)
    BY <2>1, <2>2, BareLeft, ClearDetail
  <2> QED
    BY <1>2, <1>5, <2>3 DEF e
<1> HIDE DEF c
<1>6. CASE CycleViewmode
  <2> DEFINE d == Ready("cycle_viewmode")
             vm == NextViewmode[d.cur_viewmode]
  <2>1. /\ Bare(d) /\ d \in State /\ d.overlay_stack = <<>>
        /\ Finish("cycle_viewmode", [d EXCEPT !.cur_viewmode = NextViewmode[@]])
    BY <1>4, <1>6 DEF CycleViewmode, NeedNoOverlay
  <2> HIDE DEF d
  <2>2. vm \in Viewmode \ IsOverlay
    BY <2>1, ViewsBare DEF State
  <2>3. Finish("cycle_viewmode", [d EXCEPT !.cur_viewmode = vm])
    BY <2>1
  <2> HIDE DEF vm
  <2> QED
    BY <1>5, <2>1, <2>2, <2>3
<1>7. CASE ToggleView
  <2>1. PICK na \in Toggle :
           Press(na) /\ Finish(na, ToggleViewmode(Ready(na), TargetViewmode[na]))
    BY <1>7 DEF ToggleView
  <2> DEFINE d == Ready(na)
             e == ToggleViewmode(d, TargetViewmode[na])
  <2>2. Bare(d) /\ d.overlay_stack = <<>>
    <3>1. "show_detail" \notin Toggle
      BY DEF Toggle, TargetViewmode
    <3> QED
      BY <1>4, <2>1, <3>1 DEF NeedNoOverlay
  <2>3. Finish(na, e)
    BY <2>1
  <2> HIDE DEF d
  <2>4. \E vm \in Viewmode \ IsOverlay : e = [d EXCEPT !.cur_viewmode = vm]
    BY ViewsBare DEF ToggleViewmode
  <2> HIDE DEF e
  <2> QED
    BY <1>5, <2>2, <2>3, <2>4
<1>8. CASE ShowHelp
  <2>1. db.cur_mode = "browse"
    BY <1>3, <1>8 DEF ShowHelp
  <2>2. Left(PopOverlay(db)) /\ Left(PushOverlay(db, "help"))
    BY <1>1, <2>1, OverlayLeft DEF IsOverlay, Left
  <2>3. Veiled(PopOverlay(db), c) /\ Veiled(PushOverlay(db, "help"), c)
    BY <1>1, PopVeiled, PushVeiled DEF IsOverlay
  <2> QED
    BY <1>2, <1>8, <2>2, <2>3 DEF ShowHelp
<1>9. CASE ShowDetail
  <2> DEFINE d == Ready("show_detail")
             e == IF d.cur_viewmode = "detail"
                  THEN [PopOverlay(d) EXCEPT !.detail_field = Null]
                  ELSE IF OnField(d)
                  THEN PushOverlay([d EXCEPT !.detail_field = SelectedCtype(d)],
                                   "detail")
                  ELSE d
  <2>1. /\ Left(d) /\ d \in State /\ d.cur_mode = "browse" /\ d.startup_help = FALSE
        /\ Finish("show_detail", e)
        /\ d.cur_viewmode \in IsOverlay => d.cur_viewmode = "detail"
        /\ Veiled(d, c) /\ SelectedCtype(d) = c
        /\ d.cur_viewmode \notin IsOverlay => d.overlay_stack = <<>>
    BY <1>9, ReadyBare, ReadyDetail, SoundType DEF ShowDetail, NeedNoOverlay, Left, c
  <2>2. SelectedCtype(d) \in Ctype \cup {Null}
    BY <2>1, SelectionType
  <2> HIDE DEF d
  <2>3. CASE d.cur_viewmode = "detail"
    <3> DEFINE p == PopOverlay(d)
               q == [p EXCEPT !.detail_field = Null]
    <3>1. Left(p) /\ p \in State
      BY <2>1, OverlayLeft, SoundType DEF Left
    <3>2. Veiled(p, c) /\ ~HasDetail(p)
      BY <2>1, <2>3, PopVeiled DEF Left
    <3> HIDE DEF p
    <3>3. Left(q)
      BY <3>1, DetailLeft
    <3>4. Veiled(q, c)
      <4>1. q.cur_viewmode = p.cur_viewmode /\ q.overlay_stack = p.overlay_stack
        BY <3>1 DEF State
      <4> HIDE DEF q
      <4> QED
        BY <3>2, <4>1 DEF Veiled, Overlaid, HasDetail
    <3> QED
      BY <1>2, <2>1, <2>3, <3>3, <3>4 DEF p
  <2>4. CASE d.cur_viewmode # "detail" /\ OnField(d)
    <3> DEFINE f == [d EXCEPT !.detail_field = SelectedCtype(d)]
    <3>1. /\ f.cur_viewmode = d.cur_viewmode /\ f.overlay_stack = d.overlay_stack
          /\ f.startup_help = d.startup_help /\ f.detail_field = c /\ f.cur_mode = d.cur_mode
      BY <2>1 DEF State
    <3>2. Left(f)
      BY <2>1, <2>2, DetailLeft
    <3> HIDE DEF f
    <3>3. f.overlay_stack = <<>> /\ c # Null
      BY <2>1, <2>4, <3>1 DEF OnField
    <3>4. Veiled(f, c)
      BY <3>2, <3>3, ClearDetail
    <3>5. Left(PushOverlay(f, "detail"))
      BY <2>1, <3>1, <3>2, OverlayLeft DEF IsOverlay, Left
    <3>6. Veiled(PushOverlay(f, "detail"), c)
      BY <2>1, <3>1, <3>2, <3>3, <3>4, PushVeiled, SoundType DEF IsOverlay, Left
    <3> QED
      BY <1>2, <2>1, <2>4, <3>5, <3>6 DEF f
  <2>5. CASE d.cur_viewmode # "detail" /\ ~OnField(d)
    BY <1>2, <2>1, <2>5
  <2> QED
    BY <2>3, <2>4, <2>5
<1>10. CASE DismissOrClear
  <2> DEFINE p == PopOverlay(db)
             field == IF db.cur_viewmode = "detail" THEN Null ELSE p.detail_field
             q == [p EXCEPT !.detail_field = field]
  <2>1. db.cur_mode = "browse"
    BY <1>3, <1>10 DEF DismissOrClear
  <2>2. Left(p) /\ p \in State
    BY <1>1, <2>1, OverlayLeft, SoundType DEF Left
  <2>3. Veiled(p, c) /\ (db.cur_viewmode = "detail" => ~HasDetail(p))
    BY <1>1, PopVeiled
  <2>4. Finish("dismiss_or_clear", IF db.overlay_stack = <<>> THEN FilterClear(db) ELSE q)
    BY <1>10 DEF DismissOrClear
  <2> HIDE DEF p
  <2>5. field \in Ctype \cup {Null}
    BY <2>2 DEF State
  <2>6. field = p.detail_field \/ db.cur_viewmode = "detail"
    OBVIOUS
  <2> HIDE DEF field
  <2>7. Left(q)
    BY <2>2, <2>5, DetailLeft
  <2>8. Veiled(q, c)
    <3>1. /\ q.cur_viewmode = p.cur_viewmode /\ q.overlay_stack = p.overlay_stack
          /\ q.detail_field = field /\ q.startup_help = p.startup_help
      BY <2>2 DEF State
    <3> HIDE DEF q
    <3> QED
      BY <2>3, <2>6, <3>1 DEF Veiled, Overlaid, HasDetail
  <2>9. Left(FilterClear(db)) /\ Veiled(FilterClear(db), c)
    BY <1>1, FilterClearSound, FilterClearShown, LineLeft, ShownDetail
  <2> HIDE DEF q
  <2> QED
    BY <1>2, <2>4, <2>7, <2>8, <2>9
<1>11. CASE FilterStatic
  <2>1. /\ Bare(Ready("filter_static")) /\ Ready("filter_static").overlay_stack = <<>>
        /\ Finish("filter_static", Ready("filter_static"))
    BY <1>4, <1>11 DEF FilterStatic, NeedNoOverlay
  <2> QED
    BY <1>2, <2>1, BareLeft, ClearDetail
<1>12. CASE Quit
  <2> DEFINE e == [db EXCEPT !.running = FALSE]
  <2>1. Finish("quit", e)
    BY <1>12 DEF Quit
  <2>2. Sound(e)
    BY <1>1, FieldSound DEF Panel
  <2>3. SameShown(db, e) /\ SameLine(db, e)
    BY <1>1 DEF SameShown, SameLine, State
  <2> HIDE DEF e
  <2>4. Left(e) /\ Veiled(e, c)
    BY <1>1, <2>2, <2>3, LineLeft, ShownDetail
  <2> QED
    BY <1>2, <2>1, <2>4
<1> QED
  BY <1>6, <1>7, <1>8, <1>9, <1>10, <1>11, <1>12

LEMMA FilterDetail ==
    ASSUME Placed(db), InDetail(db),
           \/ StartFilter \/ AcceptFilter \/ CancelFilter \/ ClearFilter
           \/ CycleTarget \/ FilterBackspace \/ AppendSpace \/ AppendChar
    PROVE  InDetail(db')
<1>1. db \in State /\ Sound(db) /\ Returns(db) /\ Backs(db) /\ Left(db)
      /\ db.filter \in Seq(Char) /\ db.cur_mode \in Navmode
  BY SoundType DEF Placed, Left, State
<1>2. ASSUME NEW na, NEW d, Left(d), SameShown(db, d), Finish(na, d)
      PROVE  InDetail(db')
  BY <1>1, <1>2, ShownDetail, FinishDetail DEF InDetail
<1>3. ASSUME NEW text \in Seq(Char)
      PROVE  /\ Left(FilterText(db, text)) /\ SameShown(db, FilterText(db, text))
             /\ Left(FilterCycleTarget(db)) /\ SameShown(db, FilterCycleTarget(db))
  BY <1>1, <1>3, FilterTextSound, FilterCycleTargetSound, FilterEditShown, LineLeft
<1>4. CASE StartFilter
  <2> DEFINE d == Ready("filter_start")
  <2>1. /\ Bare(d) /\ d.overlay_stack = <<>>
        /\ Finish("filter_start", FilterStart(d))
    BY <1>4, ReadyDetail DEF StartFilter, NeedNoOverlay
  <2> HIDE DEF d
  <2>2. /\ Sound(FilterStart(d)) /\ FilterStart(d).pre_filter.target # Null
        /\ SameShown(d, FilterStart(d)) /\ FilterStart(d).cur_panel = "ctype_list"
    BY <2>1, SoundType, FilterStartSound, FilterStartShown DEF Bare
  <2>3. Left(FilterStart(d)) /\ FilterStart(d).overlay_stack = <<>>
    BY <2>1, <2>2 DEF Bare, Left, Returns, Backs, Alone, SameShown
  <2> QED
    BY <1>1, <2>1, <2>3, ClearDetail, FinishDetail
<1>5. CASE AcceptFilter
  <2>1. Left(FilterAccept(db)) /\ SameShown(db, FilterAccept(db))
    BY <1>1, FilterAcceptSound, FilterAcceptShown, ShownLeft
  <2> QED
    BY <1>2, <1>5, <2>1 DEF AcceptFilter
<1>6. CASE CancelFilter
  <2>1. "filter_cancel" \in Keybind[db.cur_mode]
    BY <1>6 DEF CancelFilter, Press
  <2>2. db.cur_mode = "filter"
    BY <1>1, <2>1, KeybindOf
  <2>3. db.pre_filter.target # Null
    BY <1>1, <2>2 DEF Left, Alone
  <2>4. Left(FilterCancel(db)) /\ SameShown(db, FilterCancel(db))
    BY <1>1, <2>3, FilterCancelSound, FilterCancelShown, ShownLeft
  <2> QED
    BY <1>2, <1>6, <2>4 DEF CancelFilter
<1>7. CASE ClearFilter
  <2>1. Left(FilterClear(db)) /\ SameShown(db, FilterClear(db))
    BY <1>1, FilterClearSound, FilterClearShown, LineLeft
  <2> QED
    BY <1>2, <1>7, <2>1 DEF ClearFilter
<1>8. CASE CycleTarget
  BY <1>1, <1>2, <1>3, <1>8 DEF CycleTarget
<1>9. CASE FilterBackspace
  <2>1. CASE db.filter = <<>>
    BY <1>1, <1>2, <1>9, <2>1 DEF FilterBackspace, SameShown
  <2>2. CASE db.filter # <<>>
    <3>1. SubSeq(db.filter, 1, Len(db.filter) - 1) \in Seq(Char)
      BY <1>1, <2>2
    <3> QED
      BY <1>2, <1>3, <1>9, <2>2, <3>1 DEF FilterBackspace
  <2> QED
    BY <2>1, <2>2
<1>10. CASE AppendSpace
  <2>1. Append(db.filter, Space) \in Seq(Char)
    BY <1>1, SchemaAssumption
  <2> QED
    BY <1>2, <1>3, <1>10, <2>1 DEF AppendSpace
<1>11. CASE AppendChar
  <2>1. PICK c \in Char : Finish("move_up", FilterText(db, Append(db.filter, c)))
    BY <1>11 DEF AppendChar
  <2>2. Append(db.filter, c) \in Seq(Char)
    BY <1>1
  <2> QED
    BY <1>2, <1>3, <2>1, <2>2
<1> QED
  BY <1>4, <1>5, <1>6, <1>7, <1>8, <1>9, <1>10, <1>11

LEMMA HeadlessDetail ==
    ASSUME Placed(db), InDetail(db), ~BackUnder, Headless
    PROVE  InDetail(db')
<1> DEFINE d == LeaveFilterMode(Started)
<1>1. db \in State /\ Left(db) /\ Sound(db)
  BY SoundType DEF Placed, Left
<1>2. /\ Left(Started) /\ Started \in State /\ Veiled(Started, SelectedCtype(Started))
      /\ Started.overlay_stack = db.overlay_stack
  <2>1. Sound(Started) /\ SameList(db, Started)
    BY <1>1, ReadySound DEF Started, SameList, State
  <2>2. /\ Started.cur_viewmode = db.cur_viewmode
        /\ Started.pre_nsdep_viewmode = db.pre_nsdep_viewmode
        /\ Started.overlay_stack = db.overlay_stack
        /\ Started.detail_field = db.detail_field
        /\ Started.left_row = db.left_row /\ Started.left_item = db.left_item
        /\ Started.cur_panel = db.cur_panel /\ Started.startup_help = FALSE
    BY <1>1 DEF Started, State
  <2>3. Left(Started)
    BY <1>1, <2>1, <2>2 DEF Left, Returns, Backs, Alone, SameList
  <2>4. SelectedCtype(Started) = SelectedCtype(db)
    BY <2>2, SameSelection
  <2>5. Veiled(Started, SelectedCtype(db))
    BY <2>2, VeiledCarries DEF InDetail
  <2> QED
    BY <2>2, <2>3, <2>4, <2>5, SoundType DEF Left
<1>3. /\ Left(d) /\ d \in State /\ d.cur_mode = "browse"
      /\ Veiled(d, SelectedCtype(d))
  <2>1. Started.cur_mode \in Navmode
    BY <1>2 DEF State
  <2>2. CASE Started.cur_mode = "filter"
    <3>1. /\ Started.pre_filter.target # Null
          /\ Started.cur_viewmode \notin IsOverlay
      BY <1>2, <2>2 DEF Left, Alone
    <3>2. Started.overlay_stack = <<>>
      BY <1>2, <3>1, BareClear
    <3>3. d = FilterCancel(Started)
      BY <2>2 DEF LeaveFilterMode
    <3>4. Sound(d) /\ SameShown(Started, d) /\ d.cur_mode = "browse"
      BY <1>2, <3>1, <3>3, FilterCancelSound, FilterCancelShown DEF Left
    <3> HIDE DEF d
    <3>5. Left(d) /\ d.overlay_stack = <<>>
      BY <1>2, <3>2, <3>4, ShownLeft DEF Left, SameShown
    <3> QED
      BY <3>4, <3>5, ClearDetail, SoundType
  <2>3. CASE Started.cur_mode # "filter"
    BY <1>2, <2>1, <2>3 DEF LeaveFilterMode, Navmode
  <2> QED
    BY <2>2, <2>3
<1>4. ASSUME NEW e, NEW snap \in State, Left(e), Veiled(e, SelectedCtype(snap)),
             db' = PostAction(e, snap)
      PROVE  InDetail(db')
  <2>1. e \in State /\ Returns(e)
    BY <1>4, SoundType DEF Left
  <2> QED
    BY <1>4, <2>1, PostActionVeiled DEF InDetail
<1>5. CASE RejectCommand
  BY <1>2, <1>5 DEF RejectCommand, InDetail
<1>6. CASE HeadlessGoBack
  <2> DEFINE e == navaction_go_back(Started)
  <2>1. db' = PostAction(e, Started) /\ db.navstack # <<>>
    BY <1>6 DEF HeadlessGoBack
  <2>2. Started.overlay_stack = <<>>
    BY <1>2, <1>6, <2>1 DEF BackUnder
  <2>3. Left(e) /\ e.overlay_stack = <<>>
    BY <1>2, <2>2, GoBackLeft, GoBackOverlays DEF SameOverlays
  <2> HIDE DEF e
  <2> QED
    BY <1>2, <1>4, <2>1, <2>3, ClearDetail
<1>7. CASE HeadlessSetView
  <2>1. PICK vm \in Viewmode \ {"detail"} :
           db' = PostAction(IF vm \in IsOverlay THEN PushOverlay(d, vm)
                            ELSE [PopEveryOverlay(d) EXCEPT !.cur_viewmode = vm], d)
    BY <1>7, InputAssumption DEF HeadlessSetView
  <2> HIDE DEF d
  <2>2. CASE vm \in IsOverlay
    <3>1. Left(PushOverlay(d, vm))
      BY <1>3, <2>2, OverlayLeft DEF Left
    <3>2. Veiled(PushOverlay(d, vm), SelectedCtype(d))
      BY <1>3, <2>2, PushVeiled DEF Left
    <3> QED
      BY <1>3, <1>4, <2>1, <2>2, <3>1, <3>2
  <2>3. CASE vm \notin IsOverlay
    <3> DEFINE p == PopEveryOverlay(d)
               e == [p EXCEPT !.cur_viewmode = vm]
    <3>1. /\ Left(p) /\ p.cur_viewmode \notin IsOverlay
          /\ SameList(d, p) /\ p \in State
      BY <1>3, OverlayLeft, OverlayFrame, PopEveryOverlayType DEF Left
    <3>2. Bare(p)
      BY <1>3, <3>1 DEF Bare, Left, SameList
    <3>3. p.overlay_stack = <<>>
      BY <1>3 DEF PopEveryOverlay, State
    <3>4. db' = PostAction(e, d)
      BY <2>1, <2>3
    <3> HIDE DEF p
    <3>5. Left(e)
      BY <2>3, <3>2, ViewChangeBare, BareLeft
    <3>6. e.overlay_stack = <<>>
      BY <3>1, <3>3 DEF State
    <3> HIDE DEF e
    <3> QED
      BY <1>3, <1>4, <3>4, <3>5, <3>6, ClearDetail
  <2> QED
    BY <2>2, <2>3
<1>8. CASE HeadlessSetFilter
  <2>1. PICK arg \in [text : Seq(Char), target : Filtertarget] :
           db' = PostAction(
                IF Blank(arg.text) THEN FilterCleared(d)
                ELSE FilterAccept(BuildLeftItemsReset(
                        [FilterStart(d) EXCEPT !.filter = arg.text,
                                               !.cur_filtertarget = arg.target])), d)
    BY <1>8, InputAssumption DEF HeadlessSetFilter
  <2> HIDE DEF d
  <2>2. /\ Left(FilterCleared(d)) /\ Veiled(FilterCleared(d), SelectedCtype(d))
    <3> DEFINE e == [d EXCEPT !.filter = <<>>, !.cur_filtertarget = DefaultFiltertarget]
    <3>1. Sound(FilterCleared(d))
      BY <1>3, DefaultsType, SetFilterSound DEF FilterCleared, Left
    <3>2. FilterCleared(d) = BuildLeftItemsReset(e)
      BY DEF FilterCleared
    <3>3. e \in State /\ SameShown(d, e) /\ SameLine(d, e)
      BY <1>3, DefaultsType DEF State, SameShown, SameLine
    <3> HIDE DEF e
    <3>4. SameShown(d, FilterCleared(d)) /\ SameLine(d, FilterCleared(d))
      BY <3>2, <3>3, ListShown, SameTransitive
    <3> QED
      BY <1>3, <3>1, <3>4, LineLeft, ShownDetail
  <2> DEFINE f == FilterStart(d)
             e == [f EXCEPT !.filter = arg.text, !.cur_filtertarget = arg.target]
             b == BuildLeftItemsReset(e)
             a == FilterAccept(b)
  <2>3. Left(a) /\ Veiled(a, SelectedCtype(d))
    <3>1. f \in State /\ Sound(f) /\ SameShown(d, f)
      BY <1>3, FilterStartSound, FilterStartShown, SoundType DEF Left
    <3> HIDE DEF f
    <3>2. Sound(b) /\ b \in State
      BY <3>1, SetFilterSound, SoundType
    <3>3. e \in State /\ SameShown(f, e)
      BY <3>1 DEF State, SameShown
    <3> HIDE DEF e
    <3>4. SameShown(e, b)
      BY <3>3, ListShown
    <3> HIDE DEF b
    <3>5. Sound(a) /\ SameShown(b, a) /\ a.cur_mode = "browse"
      BY <3>2, FilterAcceptSound, FilterAcceptShown
    <3> HIDE DEF a
    <3>6. SameShown(d, a)
      BY <3>1, <3>3, <3>4, <3>5, SameTransitive
    <3>7. Left(a)
      BY <1>3, <3>5, <3>6, ShownLeft DEF Left
    <3> QED
      BY <1>3, <3>6, <3>7, ShownDetail
  <2>4. db' = PostAction(IF Blank(arg.text) THEN FilterCleared(d) ELSE a, d)
    BY <2>1
  <2> HIDE DEF a
  <2> QED
    BY <1>3, <1>4, <2>2, <2>3, <2>4
<1>9. CASE HeadlessNavigate
  <2> DEFINE e == PopEveryOverlay(d)
  <2>1. PICK c \in Ctype, vm \in Viewmode \ IsOverlay :
           db' = PostAction(GoToCtype(e, c, vm), e)
    <3>1. PICK c \in Ctype :
             \E vm \in {v \in ViewArgs : NavigateView(v, c)} \cup
                   {IF db.cur_viewmode \in IsOverlay THEN DefaultViewmode
                    ELSE db.cur_viewmode} :
                db' = PostAction(GoToCtype(e, c, vm), e)
      BY <1>9 DEF HeadlessNavigate
    <3>2. {v \in ViewArgs : NavigateView(v, c)} \subseteq Viewmode \ IsOverlay
      BY InputAssumption DEF NavigateView
    <3>3. (IF db.cur_viewmode \in IsOverlay THEN DefaultViewmode
           ELSE db.cur_viewmode) \in Viewmode \ IsOverlay
      BY <1>1, ViewsBare DEF State
    <3> HIDE DEF e
    <3> QED
      BY <3>1, <3>2, <3>3
  <2>2. /\ Left(e) /\ e.cur_viewmode \notin IsOverlay
        /\ SameList(d, e) /\ e \in State
    BY <1>3, OverlayLeft, OverlayFrame, PopEveryOverlayType DEF Left
  <2>3. Bare(e)
    BY <1>3, <2>2 DEF Bare, Left, SameList
  <2>4. e.overlay_stack = <<>>
    BY <1>3 DEF PopEveryOverlay, State
  <2> HIDE DEF e
  <2>5. Left(GoToCtype(e, c, vm)) /\ GoToCtype(e, c, vm).overlay_stack = <<>>
    BY <2>2, <2>3, <2>4, GoToCtypeBare, BareLeft, NavigationOverlays
       DEF Left, SameOverlays
  <2> QED
    BY <1>4, <2>1, <2>2, <2>5, ClearDetail
<1>10. CASE SetTermSize
  <2>1. PICK h \in Nat :
           db' = AdjustRight(AdjustLeft([db EXCEPT !.term_hei = h]), SelectedCtype(db))
    BY <1>10, InputAssumption DEF SetTermSize
  <2> DEFINE c == SelectedCtype(db)
             r == [db EXCEPT !.term_hei = h]
             l == AdjustLeft(r)
             f == AdjustRight(l, c)
  <2>2. /\ r \in State /\ SameView(db, r)
        /\ r.left_row = db.left_row /\ r.left_item = db.left_item
    BY <1>1 DEF SameView, State
  <2>3. db' = f
    BY <2>1
  <2>4. c \in Ctype \cup {Null} /\ c = SelectedCtype(r)
    <3>1. SelectedCtype(r) = c
      <4> HIDE DEF r
      <4> QED
        BY <2>2, SameSelection
    <3> QED
      BY <1>1, <3>1, SelectionType
  <2> HIDE DEF r, c
  <2>5. /\ l \in State /\ SameView(r, l) /\ SameList(r, l)
        /\ c \in {Null, SelectedCtype(l)}
    BY <2>2, <2>4, AdjustLeftType, AdjustFrame, AdjustSameView, AdjustLeftSeen
  <2> HIDE DEF l
  <2>6. SameView(l, f) /\ SelectedCtype(f) = SelectedCtype(l)
    <3>1. SameView(l, f) /\ f.left_item = l.left_item /\ f.left_row = l.left_row
      BY <2>4, <2>5, AdjustSameView, AdjustRightSeen
    <3> HIDE DEF f
    <3> QED
      BY <3>1, SameSelection
  <2> HIDE DEF f
  <2>7. SameView(db, f)
    BY <2>2, <2>5, <2>6, SameViewTransitive
  <2>8. Veiled(f, c)
    BY <2>7, VeiledCarries DEF SameView, InDetail, c
  <2>9. HasDetail(f) => SelectedCtype(f) = c
    BY <2>5, <2>6, <2>8 DEF Veiled
  <2> QED
    BY <2>3, <2>8, <2>9 DEF InDetail, Veiled
<1> QED
  BY <1>5, <1>6, <1>7, <1>8, <1>9, <1>10 DEF Headless

LEMMA InitDetail ==
    ASSUME Init
    PROVE  InDetail(db)
<1>1. db.cur_viewmode = "help"
  BY DEF Init, PushOverlay, BuildLeftItems
<1>2. db.overlay_stack = <<[viewmode |-> DefaultViewmode, row |-> 0, scroll |-> 0]>>
  BY DEF Init, PushOverlay, BuildLeftItems
<1>3. Len(db.overlay_stack) = 1 /\ db.overlay_stack[1].viewmode = DefaultViewmode
  BY <1>2
<1>4. DefaultViewmode # "detail"
  BY DEF DefaultViewmode
<1> QED
  BY <1>1, <1>3, <1>4 DEF InDetail, Veiled, Overlaid, HasDetail, IsOverlay

LEMMA NextDetail ==
    ASSUME Steady(db), InDetail(db), [Next]_vars, [~BackUnder]_vars
    PROVE  InDetail(db')
<1>1. CASE UNCHANGED vars
  BY <1>1 DEF vars
<1>2. CASE ~UNCHANGED vars
  <2>1. Placed(db) /\ ~BackUnder /\ Next
    BY <1>2 DEF Steady
  <2>2. CASE Key
    BY <2>1, <2>2, MoveDetail, FollowDetail, ViewDetail, FilterDetail DEF Key
  <2>3. CASE Headless
    BY <2>1, <2>3, HeadlessDetail
  <2>4. CASE Exited
    BY <2>4 DEF Exited
  <2> QED
    BY <2>1, <2>2, <2>3, <2>4 DEF Next
<1> QED
  BY <1>1, <1>2

(* In every session that goes back only when no overlay is shown, the      *)
(* detail overlay is of the ctype the cursor is on, through filters,       *)
(* headless commands and overlays opened over it (p_detail_field, cleared  *)
(* by PopOverlayOnCtypeChange).  A GoBack under an overlay is left out     *)
(* because the property fails after one (run overlays has none either).    *)
THEOREM DetailOfSelectionHolds ==
    Spec /\ [][~BackUnder]_vars => []DetailOfSelection
<1>1. Init => InDetail(db)
  BY InitDetail
<1>2. Steady(db) /\ InDetail(db) /\ [Next]_vars /\ [~BackUnder]_vars => InDetail(db)'
  BY NextDetail
<1>3. InDetail(db) => DetailOfSelection
  BY DEF InDetail, Veiled, HasDetail, DetailOfSelection
<1> QED
  BY <1>1, <1>2, <1>3, SteadyInvariant, PTL DEF Spec

-----------------------------------------------------------------------------
(***************************************************************************)
(* Escape in the filter line.  While the line is open nothing but Ctrl-U   *)
(* touches the collapse flags or what was saved when it was opened, so the *)
(* row that was saved is still the row of the same item.                   *)
(***************************************************************************)

(* If e is in the filter line, it is the line d was in, and over the same  *)
(* list.                                                                   *)
SameSession(d, e) ==
    e.cur_mode = "filter" =>
        /\ d.cur_mode = "filter" /\ e.pre_filter = d.pre_filter
        /\ e.collapsed = d.collapsed

LEMMA SameListSession ==
    ASSUME NEW d, NEW e, SameList(d, e)
    PROVE  SameSession(d, e)
BY DEF SameSession, SameList

LEMMA BrowseSession ==
    ASSUME NEW d, NEW e, e.cur_mode = "browse"
    PROVE  SameSession(d, e)
BY DEF SameSession

LEMMA SessionTransitive ==
    ASSUME NEW d, NEW e, NEW f, SameSession(d, e), SameSession(e, f)
    PROVE  SameSession(d, f)
BY DEF SameSession

(* What ProcessKey does after a handler leaves the list and its line alone, *)
(* and the cursor too if it is on a row.                                   *)
LEMMA FinishSameList ==
    ASSUME NEW na, NEW d \in State, db \in State, Finish(na, d)
    PROVE  /\ SameList(d, db')
           /\ d.left_row < Len(d.left_item) => db'.left_row = d.left_row
<1> DEFINE e == DismissStartupHelp(d, na)
<1>1. e \in State /\ SameList(d, e)
  BY DismissStartupHelpType, DismissStartupHelpFrame
<1>2. e.left_row = d.left_row
  BY DEF DismissStartupHelp, PopOverlay, State
<1>3. db' = PostAction(e, db)
  BY DEF Finish
<1> HIDE DEF e
<1>4. SameList(e, db') /\ (e.left_row < Len(e.left_item) => db'.left_row = e.left_row)
  BY <1>1, <1>3, PostActionFrame, PostActionSettles
<1> QED
  BY <1>1, <1>2, <1>4, SameListTransitive DEF SameList

LEMMA FinishSession ==
    ASSUME NEW na, NEW d, Sound(d), db \in State, SameSession(db, d), Finish(na, d)
    PROVE  SameSession(db, db')
<1>1. d \in State
  BY SoundType
<1> QED
  BY <1>1, FinishSameList, SameListSession, SessionTransitive

LEMMA MoveSession ==
    ASSUME Sound(db),
           \/ MoveUp \/ MoveDown \/ PageUp \/ PageDown \/ GoTop \/ GoBottom
           \/ SwitchPanelLeft \/ SwitchPanelRight
    PROVE  SameSession(db, db')
<1>1. db \in State
  BY SoundType
<1>2. ASSUME NEW na, NEW d, Sound(d), SameList(db, d), Finish(na, d)
      PROVE  SameSession(db, db')
  BY <1>1, <1>2, SameListSession, FinishSession
<1>3. CASE MoveUp
  BY <1>1, <1>2, <1>3, RowMoveSound, RowMoveSame DEF MoveUp
<1>4. CASE MoveDown
  BY <1>1, <1>2, <1>4, RowMoveSound, RowMoveSame DEF MoveDown
<1>5. CASE PageUp
  BY <1>1, <1>2, <1>5, RowsType, RowMoveSound, RowMoveSame DEF PageUp
<1>6. CASE PageDown
  BY <1>1, <1>2, <1>6, RowsType, RowMoveSound, RowMoveSame DEF PageDown
<1>7. CASE GoTop
  BY <1>1, <1>2, <1>7, MoveSound, RowMoveSame DEF GoTop
<1>8. CASE GoBottom
  <2> DEFINE e == Counted(db)
  <2>1. Finish("go_bottom", SetSelRow(e, LastSel(e)))
    BY <1>8 DEF GoBottom
  <2>2. Sound(SetSelRow(e, LastSel(e)))
    BY <1>1, CountedSound, MoveSound
  <2>3. SameList(db, SetSelRow(e, LastSel(e)))
    BY <1>1, RowMoveSame
  <2> HIDE DEF e
  <2> QED
    BY <1>2, <2>1, <2>2, <2>3
<1>9. CASE SwitchPanelLeft
  <2> DEFINE f == [db EXCEPT !.cur_panel = "ctype_list"]
  <2>1. Finish("switch_panel_left", db) \/ Finish("switch_panel_left", f)
    BY <1>9 DEF SwitchPanelLeft
  <2>2. Sound(f)
    BY <1>1, FieldSound DEF Panel
  <2>3. SameList(db, f) /\ SameList(db, db)
    BY <1>1 DEF SameList, State
  <2> HIDE DEF f
  <2> QED
    BY <1>2, <2>1, <2>2, <2>3
<1>10. CASE SwitchPanelRight
  <2> DEFINE s == SwitchToBrowse(db)
             f == [s EXCEPT !.cur_panel = "content"]
  <2>1. Finish("switch_panel_right", db) \/ Finish("switch_panel_right", f)
    BY <1>10 DEF SwitchPanelRight
  <2>2. Sound(f) /\ s \in State
    BY <1>1, SwitchToBrowseSound, SwitchToBrowseType, FieldSound DEF Panel
  <2>3. s.cur_mode = "browse"
    BY <1>1, ListShown
  <2> HIDE DEF s
  <2>4. f.cur_mode = "browse" /\ SameList(db, db)
    BY <2>2, <2>3 DEF State, SameList
  <2> HIDE DEF f
  <2> QED
    BY <1>1, <1>2, <2>1, <2>2, <2>4, BrowseSession, FinishSession
<1> QED
  BY <1>3, <1>4, <1>5, <1>6, <1>7, <1>8, <1>9, <1>10

LEMMA FollowSession ==
    ASSUME Placed(db),
           GoBack \/ FollowRefLeft \/ FollowRefField \/ FollowRefLink \/ FollowRefNothing
    PROVE  SameSession(db, db')
<1> DEFINE d == Ready("follow_ref")
<1>1. db \in State /\ Left(db)
  BY SoundType DEF Placed, Left
<1>2. Press("follow_ref") => Bare(d)
  BY ReadyBare DEF NeedNoOverlay
<1> HIDE DEF d
<1>3. ASSUME NEW na, NEW e, Bare(e), Finish(na, e)
      PROVE  SameSession(db, db')
  BY <1>1, <1>3, BrowseSession, FinishSession DEF Bare
<1>4. CASE GoBack
  <2> DEFINE e == navaction_go_back(db)
  <2>1. Finish("go_back", e)
    BY <1>4 DEF GoBack
  <2>2. Left(e) /\ (e = db \/ e.cur_mode = "browse")
    BY <1>1, GoBackLeft
  <2> HIDE DEF e
  <2>3. SameSession(db, e)
    BY <2>2 DEF SameSession
  <2> QED
    BY <1>1, <2>1, <2>2, <2>3, FinishSession DEF Left
<1>5. CASE FollowRefLeft
  <2>1. Bare(d) /\ Finish("follow_ref", FollowRefLeftPanel(d))
    BY <1>2, <1>5 DEF FollowRefLeft, d
  <2> QED
    BY <1>3, <2>1, FollowRefBare
<1>6. CASE FollowRefField
  <2>1. Bare(d) /\ OnField(d) /\ Finish("follow_ref", FollowRefFields(d))
    BY <1>2, <1>6 DEF FollowRefField, d
  <2> QED
    BY <1>3, <2>1, FollowRefBare
<1>7. CASE FollowRefLink
  <2>1. /\ Bare(d)
        /\ \E link \in LinksAtCursor(d) :
              Finish("follow_ref", IF d.cur_viewmode = "nsdep"
                                   THEN FollowRefNsDep(d, link.to)
                                   ELSE FollowLink(d, link))
    BY <1>2, <1>7 DEF FollowRefLink, d
  <2>2. PICK link \in LinksAtCursor(d) :
              Finish("follow_ref", IF d.cur_viewmode = "nsdep"
                                   THEN FollowRefNsDep(d, link.to)
                                   ELSE FollowLink(d, link))
    BY <2>1
  <2> DEFINE e == IF d.cur_viewmode = "nsdep" THEN FollowRefNsDep(d, link.to)
                  ELSE FollowLink(d, link)
  <2>3. Bare(e)
    BY <2>1, FollowRefBare
  <2>4. Finish("follow_ref", e)
    BY <2>2
  <2> HIDE DEF e
  <2> QED
    BY <1>3, <2>3, <2>4
<1>8. CASE FollowRefNothing
  BY <1>2, <1>3, <1>8 DEF FollowRefNothing, d
<1> QED
  BY <1>4, <1>5, <1>6, <1>7, <1>8

(* Views and overlays are the business of browse mode.                     *)
LEMMA ViewSession ==
    ASSUME Placed(db),
           \/ CycleViewmode \/ ToggleView \/ ShowHelp \/ ShowDetail
           \/ DismissOrClear \/ FilterStatic \/ Quit
    PROVE  SameSession(db, db')
<1>1. db \in State
  BY SoundType DEF Placed, Left
<1>2. ASSUME NEW na, NEW e \in State, e.cur_mode = "browse", Finish(na, e)
      PROVE  SameSession(db, db')
  BY <1>1, <1>2, FinishSameList, BrowseSession DEF SameList
<1>3. \A na : Press(na) /\ na \in {"show_help", "dismiss_or_clear", "quit"}
                => db.cur_mode = "browse"
  BY <1>1, KeybindOf DEF Press, State
<1>4. ASSUME NEW na \in NeedNoOverlay, Press(na)
      PROVE  Ready(na) \in State /\ Ready(na).cur_mode = "browse"
  BY <1>4, ReadyBare, SoundType DEF Left
<1>5. ASSUME NEW d \in State, d.cur_mode = "browse", NEW vm
      PROVE  /\ [d EXCEPT !.cur_viewmode = vm].cur_mode = "browse"
             /\ vm \in Viewmode => [d EXCEPT !.cur_viewmode = vm] \in State
  BY <1>5 DEF State
<1>6. ASSUME NEW d \in State, d.cur_mode = "browse"
      PROVE  /\ PopOverlay(d) \in State /\ PopOverlay(d).cur_mode = "browse"
             /\ \A vm \in Viewmode : /\ PushOverlay(d, vm) \in State
                                     /\ PushOverlay(d, vm).cur_mode = "browse"
             /\ \A c \in Ctype \cup {Null} :
                   /\ [d EXCEPT !.detail_field = c] \in State
                   /\ [d EXCEPT !.detail_field = c].cur_mode = "browse"
  <2>1. \A c \in Ctype \cup {Null} :
                   /\ [d EXCEPT !.detail_field = c] \in State
                   /\ [d EXCEPT !.detail_field = c].cur_mode = "browse"
    BY <1>6 DEF State
  <2>2. PopOverlay(d) \in State /\ PopOverlay(d).cur_mode = "browse"
    <3>1. SameList(d, PopOverlay(d))
      BY <1>6, OverlayFrame
    <3> QED
      BY <1>6, <3>1, PopOverlayType DEF SameList
  <2>3. ASSUME NEW vm \in Viewmode
        PROVE  PushOverlay(d, vm) \in State /\ PushOverlay(d, vm).cur_mode = "browse"
    <3>1. SameList(d, PushOverlay(d, vm))
      BY <1>6, OverlayFrame
    <3> QED
      BY <1>6, <3>1, PushOverlayType DEF SameList
  <2> QED
    BY <2>1, <2>2, <2>3
<1>7. CASE CycleViewmode
  <2> DEFINE d == Ready("cycle_viewmode")
             vm == NextViewmode[d.cur_viewmode]
  <2>1. /\ d \in State /\ d.cur_mode = "browse"
        /\ Finish("cycle_viewmode", [d EXCEPT !.cur_viewmode = NextViewmode[@]])
    BY <1>4, <1>7 DEF CycleViewmode, NeedNoOverlay
  <2> HIDE DEF d
  <2>2. vm \in Viewmode
    BY <2>1, ViewsBare DEF State
  <2>3. Finish("cycle_viewmode", [d EXCEPT !.cur_viewmode = vm])
    BY <2>1
  <2> HIDE DEF vm
  <2> QED
    BY <1>2, <1>5, <2>1, <2>2, <2>3
<1>8. CASE ToggleView
  <2>1. PICK na \in Toggle :
           Press(na) /\ Finish(na, ToggleViewmode(Ready(na), TargetViewmode[na]))
    BY <1>8 DEF ToggleView
  <2> DEFINE d == Ready(na)
             e == ToggleViewmode(d, TargetViewmode[na])
  <2>2. d \in State /\ d.cur_mode = "browse"
    BY <1>4, <2>1 DEF NeedNoOverlay
  <2>3. Finish(na, e)
    BY <2>1
  <2> HIDE DEF d
  <2>4. \E vm \in Viewmode : e = [d EXCEPT !.cur_viewmode = vm]
    BY ViewsBare DEF ToggleViewmode
  <2> HIDE DEF e
  <2> QED
    BY <1>2, <1>5, <2>2, <2>3, <2>4
<1>9. CASE ShowHelp
  BY <1>1, <1>2, <1>3, <1>6, <1>9 DEF ShowHelp, Viewmode
<1>10. CASE ShowDetail
  <2> DEFINE d == Ready("show_detail")
             p == PopOverlay(d)
             q == [p EXCEPT !.detail_field = Null]
             c == SelectedCtype(d)
             f == [d EXCEPT !.detail_field = c]
  <2>1. d \in State /\ d.cur_mode = "browse"
    BY <1>4, <1>10 DEF ShowDetail, NeedNoOverlay
  <2>2. \/ Finish("show_detail", q) \/ Finish("show_detail", PushOverlay(f, "detail"))
        \/ Finish("show_detail", d)
    BY <1>10 DEF ShowDetail
  <2>3. c \in Ctype \cup {Null}
    BY <2>1, SelectionType
  <2> HIDE DEF d, c
  <2>4. f \in State /\ f.cur_mode = "browse" /\ p \in State /\ p.cur_mode = "browse"
    BY <1>6, <2>1, <2>3
  <2> HIDE DEF f, p
  <2>5. q \in State /\ q.cur_mode = "browse"
    BY <1>6, <2>4
  <2>6. PushOverlay(f, "detail") \in State /\ PushOverlay(f, "detail").cur_mode = "browse"
    BY <1>6, <2>4 DEF Viewmode
  <2> HIDE DEF q
  <2> QED
    BY <1>2, <2>1, <2>2, <2>5, <2>6
<1>11. CASE DismissOrClear
  <2> DEFINE p == PopOverlay(db)
             field == IF db.cur_viewmode = "detail" THEN Null ELSE p.detail_field
             q == [p EXCEPT !.detail_field = field]
  <2>1. db.cur_mode = "browse"
    BY <1>3, <1>11 DEF DismissOrClear
  <2>2. p \in State /\ p.cur_mode = "browse"
    BY <1>1, <1>6, <2>1
  <2>3. Finish("dismiss_or_clear", IF db.overlay_stack = <<>> THEN FilterClear(db) ELSE q)
    BY <1>11 DEF DismissOrClear
  <2> HIDE DEF p
  <2>4. field \in Ctype \cup {Null}
    BY <2>2 DEF State
  <2> HIDE DEF field
  <2>5. q \in State /\ q.cur_mode = "browse"
    BY <1>6, <2>2, <2>4
  <2>6. FilterClear(db) \in State /\ FilterClear(db).cur_mode = "browse"
    BY <1>1, <2>1, FilterClearSound, FilterClearShown, SoundType
       DEF Placed, Left, SameLine
  <2> HIDE DEF q
  <2> QED
    BY <1>2, <2>3, <2>5, <2>6
<1>12. CASE FilterStatic
  BY <1>2, <1>4, <1>12 DEF FilterStatic, NeedNoOverlay
<1>13. CASE Quit
  <2> DEFINE e == [db EXCEPT !.running = FALSE]
  <2>1. Finish("quit", e) /\ db.cur_mode = "browse"
    BY <1>3, <1>13 DEF Quit
  <2>2. e \in State /\ e.cur_mode = "browse"
    BY <1>1, <2>1 DEF State
  <2> HIDE DEF e
  <2> QED
    BY <1>2, <2>1, <2>2
<1> QED
  BY <1>7, <1>8, <1>9, <1>10, <1>11, <1>12, <1>13

(* A rebuild of the list leaves the collapse flags alone. *)
LEMMA ResetCollapsed ==
    ASSUME NEW d \in State
    PROVE  /\ BuildLeftItemsReset(d).collapsed = d.collapsed
           /\ \A text \in Seq(Char) : FilterText(d, text).collapsed = d.collapsed
           /\ FilterCycleTarget(d).collapsed = d.collapsed
<1>1. ASSUME NEW e \in State
      PROVE  BuildLeftItemsReset(e).collapsed = e.collapsed
  BY <1>1 DEF BuildLeftItemsReset, BuildLeftItems, State
<1>2. ASSUME NEW text \in Seq(Char)
      PROVE  FilterText(d, text).collapsed = d.collapsed
  <2> DEFINE e == [d EXCEPT !.filter = text]
  <2>1. e \in State /\ e.collapsed = d.collapsed
    BY <1>2 DEF State
  <2> HIDE DEF e
  <2>2. BuildLeftItemsReset(e).collapsed = d.collapsed
    BY <1>1, <2>1
  <2> QED
    BY <2>2 DEF FilterText, e
<1>3. FilterCycleTarget(d).collapsed = d.collapsed
  <2> DEFINE t == NextFiltertarget[d.cur_filtertarget]
             e == [d EXCEPT !.cur_filtertarget = t]
  <2>1. t \in Filtertarget
    BY DEF State, Filtertarget, NextFiltertarget
  <2> HIDE DEF t
  <2>2. e \in State /\ e.collapsed = d.collapsed
    BY <2>1 DEF State
  <2> HIDE DEF e
  <2>3. BuildLeftItemsReset(e).collapsed = d.collapsed
    BY <1>1, <2>2
  <2> QED
    BY <2>3 DEF FilterCycleTarget, e, t
<1> QED
  BY <1>1, <1>2, <1>3

(* The keys of the filter line other than "/" and Ctrl-U.                  *)
LEMMA FilterKeySession ==
    ASSUME Placed(db),
           \/ AcceptFilter \/ CancelFilter
           \/ CycleTarget \/ FilterBackspace \/ AppendSpace \/ AppendChar
    PROVE  SameSession(db, db')
<1>1. db \in State /\ Sound(db) /\ db.filter \in Seq(Char) /\ db.cur_mode \in Navmode
  BY SoundType DEF Placed, Left, State
<1>2. ASSUME NEW na, NEW e, Sound(e), SameSession(db, e), Finish(na, e)
      PROVE  SameSession(db, db')
  BY <1>1, <1>2, FinishSession
<1>3. ASSUME NEW text \in Seq(Char)
      PROVE  /\ Sound(FilterText(db, text)) /\ SameSession(db, FilterText(db, text))
             /\ Sound(FilterCycleTarget(db)) /\ SameSession(db, FilterCycleTarget(db))
  <2>1. Sound(FilterText(db, text)) /\ Sound(FilterCycleTarget(db))
    BY <1>1, <1>3, FilterTextSound, FilterCycleTargetSound
  <2>2. SameLine(db, FilterText(db, text)) /\ SameLine(db, FilterCycleTarget(db))
    BY <1>1, <1>3, FilterEditShown
  <2> QED
    BY <1>1, <1>3, <2>1, <2>2, ResetCollapsed DEF SameSession, SameLine
<1>4. CASE AcceptFilter
  <2>1. Sound(FilterAccept(db)) /\ FilterAccept(db).cur_mode = "browse"
    BY <1>1, FilterAcceptSound, FilterAcceptShown
  <2> QED
    BY <1>2, <1>4, <2>1, BrowseSession DEF AcceptFilter
<1>5. CASE CancelFilter
  <2>1. db.pre_filter.target # Null
    BY <1>1, <1>5, KeybindOf DEF CancelFilter, Press, Placed, Left, Alone
  <2>2. Sound(FilterCancel(db)) /\ FilterCancel(db).cur_mode = "browse"
    BY <1>1, <2>1, FilterCancelSound, FilterCancelShown
  <2> QED
    BY <1>2, <1>5, <2>2, BrowseSession DEF CancelFilter
<1>6. CASE CycleTarget
  BY <1>1, <1>2, <1>3, <1>6 DEF CycleTarget
<1>7. CASE FilterBackspace
  <2>1. CASE db.filter = <<>>
    BY <1>1, <1>2, <1>7, <2>1 DEF FilterBackspace, SameSession
  <2>2. CASE db.filter # <<>>
    <3>1. SubSeq(db.filter, 1, Len(db.filter) - 1) \in Seq(Char)
      BY <1>1, <2>2
    <3> QED
      BY <1>2, <1>3, <1>7, <2>2, <3>1 DEF FilterBackspace
  <2> QED
    BY <2>1, <2>2
<1>8. CASE AppendSpace
  <2>1. Append(db.filter, Space) \in Seq(Char)
    BY <1>1, SchemaAssumption
  <2> QED
    BY <1>2, <1>3, <1>8, <2>1 DEF AppendSpace
<1>9. CASE AppendChar
  <2>1. PICK c \in Char : Finish("move_up", FilterText(db, Append(db.filter, c)))
    BY <1>9 DEF AppendChar
  <2>2. Append(db.filter, c) \in Seq(Char)
    BY <1>1
  <2> QED
    BY <1>2, <1>3, <2>1, <2>2
<1> QED
  BY <1>4, <1>5, <1>6, <1>7, <1>8, <1>9

(* A headless command closes the line, or only touches the screen.         *)
LEMMA HeadlessSession ==
    ASSUME Placed(db), Headless
    PROVE  SameSession(db, db')
<1> DEFINE d == LeaveFilterMode(Started)
<1>1. db \in State /\ Sound(db) /\ Left(db)
  BY SoundType DEF Placed, Left
<1>2. /\ Started \in State /\ SameList(db, Started) /\ Sound(Started) /\ Left(Started)
  <2>1. Sound(Started) /\ SameList(db, Started)
    BY <1>1, ReadySound DEF Started, SameList, State
  <2>2. /\ Started.cur_viewmode = db.cur_viewmode
        /\ Started.pre_nsdep_viewmode = db.pre_nsdep_viewmode
        /\ Started.overlay_stack = db.overlay_stack
        /\ Started.cur_panel = db.cur_panel
    BY <1>1 DEF Started, State
  <2>3. Left(Started)
    BY <1>1, <2>1, <2>2 DEF Left, Returns, Backs, Alone, SameList
  <2> QED
    BY <2>1, <2>3, SoundType
<1>3. Left(d) /\ Sound(d) /\ d \in State /\ d.cur_mode = "browse"
  <2>1. Started.cur_mode \in Navmode
    BY <1>2 DEF State
  <2>2. CASE Started.cur_mode = "filter"
    <3>1. Started.pre_filter.target # Null /\ d = FilterCancel(Started)
      BY <1>2, <2>2 DEF Left, Alone, LeaveFilterMode
    <3> HIDE DEF d
    <3>2. Sound(d) /\ SameShown(Started, d) /\ d.cur_mode = "browse"
      BY <1>2, <3>1, FilterCancelSound, FilterCancelShown
    <3>3. Left(d)
      BY <1>2, <3>2, ShownLeft DEF Left
    <3> QED
      BY <3>2, <3>3, SoundType
  <2>3. CASE Started.cur_mode # "filter"
    BY <1>2, <2>1, <2>3 DEF LeaveFilterMode, Navmode
  <2> QED
    BY <2>2, <2>3
<1> HIDE DEF d
<1>4. ASSUME NEW e \in State, NEW snap \in State, e.cur_mode = "browse",
             db' = PostAction(e, snap)
      PROVE  SameSession(db, db')
  BY <1>4, PostActionFrame, BrowseSession DEF SameList
<1>5. CASE RejectCommand
  BY <1>2, <1>5, SameListSession DEF RejectCommand
<1>6. CASE HeadlessGoBack
  <2> DEFINE e == navaction_go_back(Started)
  <2>1. db' = PostAction(e, Started)
    BY <1>6 DEF HeadlessGoBack
  <2>2. e \in State /\ (e = Started \/ e.cur_mode = "browse")
    BY <1>2, GoBackLeft, SoundType DEF Left
  <2> HIDE DEF e
  <2>3. CASE e = Started
    <3>1. SameList(Started, db')
      BY <1>2, <2>1, <2>3, PostActionFrame
    <3> QED
      BY <1>2, <3>1, SameListTransitive, SameListSession
  <2>4. CASE e.cur_mode = "browse"
    BY <1>2, <1>4, <2>1, <2>2, <2>4
  <2> QED
    BY <2>2, <2>3, <2>4
<1>7. CASE HeadlessSetView
  <2>1. PICK vm \in Viewmode :
           db' = PostAction(IF vm \in IsOverlay THEN PushOverlay(d, vm)
                            ELSE [PopEveryOverlay(d) EXCEPT !.cur_viewmode = vm], d)
    BY <1>7, InputAssumption DEF HeadlessSetView, d
  <2> DEFINE p == PopEveryOverlay(d)
             e == [p EXCEPT !.cur_viewmode = vm]
             o == PushOverlay(d, vm)
  <2>2. SameList(d, p) /\ SameList(d, o)
    BY <1>3, OverlayFrame
  <2>3. p \in State /\ o \in State /\ p.cur_mode = "browse" /\ o.cur_mode = "browse"
    BY <1>3, <2>2, PushOverlayType, PopEveryOverlayType DEF SameList
  <2>4. db' = PostAction(IF vm \in IsOverlay THEN o ELSE e, d)
    BY <2>1
  <2> HIDE DEF p, o
  <2>5. e \in State /\ e.cur_mode = "browse"
    BY <2>3 DEF State
  <2> HIDE DEF e
  <2> QED
    BY <1>3, <1>4, <2>3, <2>4, <2>5
<1>8. CASE HeadlessSetFilter
  <2>1. PICK arg \in [text : Seq(Char), target : Filtertarget] :
           db' = PostAction(
                IF Blank(arg.text) THEN FilterCleared(d)
                ELSE FilterAccept(BuildLeftItemsReset(
                        [FilterStart(d) EXCEPT !.filter = arg.text,
                                               !.cur_filtertarget = arg.target])), d)
    BY <1>8, InputAssumption DEF HeadlessSetFilter, d
  <2>2. FilterCleared(d) \in State /\ FilterCleared(d).cur_mode = "browse"
    <3> DEFINE e == [d EXCEPT !.filter = <<>>, !.cur_filtertarget = DefaultFiltertarget]
    <3>1. Sound(FilterCleared(d))
      BY <1>3, DefaultsType, SetFilterSound DEF FilterCleared
    <3>2. FilterCleared(d) = BuildLeftItemsReset(e)
      BY DEF FilterCleared
    <3>3. e \in State /\ e.cur_mode = "browse"
      BY <1>3, DefaultsType DEF State
    <3> HIDE DEF e
    <3> QED
      BY <3>1, <3>2, <3>3, ListShown, SoundType DEF SameLine
  <2> DEFINE f == FilterStart(d)
             b == BuildLeftItemsReset([f EXCEPT !.filter = arg.text,
                                                !.cur_filtertarget = arg.target])
             a == FilterAccept(b)
  <2>3. a \in State /\ a.cur_mode = "browse"
    <3>1. Sound(f)
      BY <1>3, FilterStartSound
    <3> HIDE DEF f
    <3>2. Sound(b)
      BY <3>1, SetFilterSound
    <3> HIDE DEF b
    <3> QED
      BY <3>2, FilterAcceptSound, FilterAcceptShown, SoundType
  <2>4. db' = PostAction(IF Blank(arg.text) THEN FilterCleared(d) ELSE a, d)
    BY <2>1
  <2> HIDE DEF a
  <2> QED
    BY <1>3, <1>4, <2>2, <2>3, <2>4
<1>9. CASE HeadlessNavigate
  <2> DEFINE e == PopEveryOverlay(d)
  <2>1. PICK c \in Ctype, vm \in Viewmode \ IsOverlay :
           db' = PostAction(GoToCtype(e, c, vm), e)
    <3>1. PICK c \in Ctype :
             \E vm \in {v \in ViewArgs : NavigateView(v, c)} \cup
                   {IF db.cur_viewmode \in IsOverlay THEN DefaultViewmode
                    ELSE db.cur_viewmode} :
                db' = PostAction(GoToCtype(e, c, vm), e)
      BY <1>9 DEF HeadlessNavigate, d
    <3>2. {v \in ViewArgs : NavigateView(v, c)} \subseteq Viewmode \ IsOverlay
      BY InputAssumption DEF NavigateView
    <3>3. (IF db.cur_viewmode \in IsOverlay THEN DefaultViewmode
           ELSE db.cur_viewmode) \in Viewmode \ IsOverlay
      BY <1>1, ViewsBare DEF State
    <3> HIDE DEF e
    <3> QED
      BY <3>1, <3>2, <3>3
  <2>2. /\ Left(e) /\ e.cur_viewmode \notin IsOverlay /\ SameList(d, e) /\ e \in State
    BY <1>3, OverlayLeft, OverlayFrame, PopEveryOverlayType DEF Left
  <2>3. Bare(e)
    BY <1>3, <2>2 DEF Bare, Left, SameList
  <2> HIDE DEF e
  <2>4. GoToCtype(e, c, vm) \in State /\ GoToCtype(e, c, vm).cur_mode = "browse"
    BY <2>3, GoToCtypeBare, SoundType DEF Bare
  <2> QED
    BY <1>4, <2>1, <2>2, <2>4
<1>10. CASE SetTermSize
  <2>1. PICK h \in Nat :
           db' = AdjustRight(AdjustLeft([db EXCEPT !.term_hei = h]), SelectedCtype(db))
    BY <1>10, InputAssumption DEF SetTermSize
  <2> DEFINE r == [db EXCEPT !.term_hei = h]
             l == AdjustLeft(r)
             f == AdjustRight(l, SelectedCtype(db))
  <2>2. r \in State /\ SameList(db, r) /\ SelectedCtype(db) \in Ctype \cup {Null}
    BY <1>1, SelectionType DEF SameList, State
  <2>3. db' = f
    BY <2>1
  <2> HIDE DEF r
  <2>4. l \in State /\ SameList(r, l)
    BY <2>2, AdjustLeftType, AdjustFrame
  <2> HIDE DEF l
  <2>5. SameList(l, f)
    BY <2>2, <2>4, AdjustFrame
  <2> HIDE DEF f
  <2> QED
    BY <2>2, <2>3, <2>4, <2>5, SameListTransitive, SameListSession
<1> QED
  BY <1>5, <1>6, <1>7, <1>8, <1>9, <1>10 DEF Headless

-----------------------------------------------------------------------------
(* What was saved when the line was opened is the place b, and its row is  *)
(* still the row of its item.                                              *)
Saves(d, b) ==
    d.cur_mode = "filter" =>
        /\ b.filter = d.pre_filter.text /\ b.filtertarget = d.pre_filter.target
        /\ b.item # Null =>
              LET rows == VisibleItems(d.pre_filter.text, d.pre_filter.target, d.collapsed)
              IN  /\ d.pre_filter.row < Len(rows)
                  /\ rows[d.pre_filter.row + 1] = b.item

Places == [item : Item \cup {Null}, filter : Seq(Char), filtertarget : Filtertarget]

BeforeKept == before \in Places /\ Saves(db, before)

LEMMA PlaceType ==
    ASSUME NEW d \in State
    PROVE  Place(d) \in Places
BY SelectionType DEF Place, Places, State

LEMMA SessionSaves ==
    ASSUME NEW d, NEW e, NEW b, SameSession(d, e), Saves(d, b)
    PROVE  Saves(e, b)
BY DEF SameSession, Saves

(* "/" saves the place it is pressed at. *)
LEMMA StartSaves ==
    ASSUME Placed(db), StartFilter
    PROVE  db.cur_mode = "browse" /\ db'.cur_mode = "filter" /\ Saves(db', Place(db))
<1> DEFINE r == Ready("filter_start")
           saved == [text   |-> r.filter, target |-> r.cur_filtertarget,
                     row    |-> r.left_row, scroll |-> r.left_scroll]
           e == [r EXCEPT !.pre_filter = saved,
                          !.cur_mode = "filter",
                          !.filter = <<>>,
                          !.cur_filtertarget = DefaultFiltertarget]
           b == BuildLeftItemsReset(e)
           f == FilterStart(r)
<1>1. db \in State /\ Sound(db)
  BY SoundType DEF Placed, Left
<1>2. Finish("filter_start", f) /\ "filter_start" \in Keybind[db.cur_mode]
  BY DEF StartFilter, Press
<1>3. db.cur_mode = "browse"
  BY <1>1, <1>2, KeybindOf DEF State
<1>4. r \in State /\ SameList(db, r) /\ r.left_row = db.left_row
  <2> DEFINE g == [db EXCEPT !.startup_help = FALSE]
  <2>1. g \in State /\ SameList(db, g) /\ g.left_row = db.left_row
    BY <1>1 DEF State, SameList
  <2>2. r \in {db, PopOverlay(g)} /\ SameList(db, db)
    BY DEF Ready, SameList
  <2> HIDE DEF g, r
  <2>3. PopOverlay(g) \in State /\ SameList(g, PopOverlay(g))
    BY <2>1, PopOverlayType, OverlayFrame
  <2>4. PopOverlay(g).left_row = g.left_row
    BY <2>1 DEF PopOverlay, State
  <2> QED
    BY <1>1, <2>1, <2>2, <2>3, <2>4, SameListTransitive
<1>5. saved \in PreFilter
  BY <1>4 DEF State, PreFilter
<1>6. f = [b EXCEPT !.cur_panel = "ctype_list"]
  BY DEF FilterStart
<1>7. /\ saved.text = r.filter /\ saved.target = r.cur_filtertarget
      /\ saved.row = r.left_row
  OBVIOUS
<1> HIDE DEF r, saved
<1>8. /\ e \in State /\ e.pre_filter = saved /\ e.cur_mode = "filter"
      /\ e.collapsed = r.collapsed
  BY <1>4, <1>5, DefaultsType DEF State, Navmode
<1> HIDE DEF e
<1>9. /\ b \in State /\ b.pre_filter = saved /\ b.cur_mode = "filter"
      /\ b.collapsed = r.collapsed
  BY <1>8, BuildLeftItemsType, ListShown, ResetCollapsed DEF SameLine
<1> HIDE DEF b
<1>10. /\ f \in State /\ f.pre_filter = saved /\ f.cur_mode = "filter"
       /\ f.collapsed = r.collapsed
  BY <1>6, <1>9 DEF State, Panel
<1> HIDE DEF f
<1>11. SameList(f, db')
  BY <1>1, <1>2, <1>10, FinishSameList
<1>12. /\ db'.cur_mode = "filter" /\ db'.collapsed = db.collapsed
       /\ db'.pre_filter.text = db.filter
       /\ db'.pre_filter.target = db.cur_filtertarget
       /\ db'.pre_filter.row = db.left_row
  BY <1>4, <1>7, <1>10, <1>11 DEF SameList
<1>13. Null \notin Item
  BY SchemaAssumption DEF Item
<1>14. db.left_item = VisibleItems(db.filter, db.cur_filtertarget, db.collapsed)
  BY <1>1 DEF Sound, Fresh
<1>15. Saves(db', Place(db))
  BY <1>12, <1>14 DEF Saves, Place, SelectedItem
<1> QED
  BY <1>3, <1>12, <1>15

(* Ctrl-U touches the collapse flags, and not what was saved. *)
LEMMA ClearSaves ==
    ASSUME Placed(db), ClearFilter
    PROVE  db.cur_mode = "filter" /\ db'.pre_filter = db.pre_filter
<1>1. db \in State /\ Sound(db)
  BY SoundType DEF Placed, Left
<1>2. db.cur_mode = "filter"
  BY <1>1, KeybindOf DEF ClearFilter, Press, State
<1>3. FilterClear(db) \in State /\ SameLine(db, FilterClear(db))
  BY <1>1, FilterClearSound, FilterClearShown, SoundType
<1>4. SameList(FilterClear(db), db')
  BY <1>1, <1>3, FinishSameList DEF ClearFilter
<1> QED
  BY <1>2, <1>3, <1>4 DEF SameLine, SameList

LEMMA NextSession ==
    ASSUME Steady(db), Next, ~StartFilter, ~ClearFilter
    PROVE  SameSession(db, db')
<1>1. Placed(db) /\ Sound(db)
  BY DEF Steady, Placed, Left
<1>2. CASE Key
  BY <1>1, <1>2, MoveSession, FollowSession, ViewSession, FilterKeySession DEF Key
<1>3. CASE Headless
  BY <1>1, <1>3, HeadlessSession
<1>4. CASE Exited
  BY <1>4 DEF Exited, SameSession
<1> QED
  BY <1>2, <1>3, <1>4 DEF Next

LEMMA SessionStep ==
    ASSUME Steady(db), BeforeKept, [SessionNext]_session
    PROVE  BeforeKept'
<1>1. db \in State /\ Placed(db)
  BY SoundType DEF Steady, Placed, Left
<1>2. CASE UNCHANGED session
  BY <1>2 DEF session, BeforeKept
<1>3. CASE SessionNext
  <2>1. /\ Next
        /\ before' = CASE db.cur_mode = "browse" /\ db'.cur_mode = "filter" -> Place(db)
                       [] db.cur_mode = "filter" /\ ClearFilter -> [before EXCEPT !.item = Null]
                       [] OTHER -> before
    BY <1>3 DEF SessionNext
  <2>2. CASE StartFilter
    <3>1. db.cur_mode = "browse" /\ db'.cur_mode = "filter" /\ Saves(db', Place(db))
      BY <1>1, <2>2, StartSaves
    <3>2. before' = Place(db)
      BY <2>1, <3>1
    <3> QED
      BY <1>1, <3>1, <3>2, PlaceType DEF BeforeKept
  <2>3. CASE ClearFilter
    <3>1. db.cur_mode = "filter" /\ db'.pre_filter = db.pre_filter
      BY <1>1, <2>3, ClearSaves
    <3>2. before' = [before EXCEPT !.item = Null]
      BY <2>1, <2>3, <3>1
    <3>3. /\ before' \in Places /\ before'.item = Null
          /\ before'.filter = before.filter /\ before'.filtertarget = before.filtertarget
      BY <3>2 DEF BeforeKept, Places
    <3>4. Saves(db', before')
      BY <3>1, <3>3 DEF Saves, BeforeKept
    <3> QED
      BY <3>3, <3>4 DEF BeforeKept
  <2>4. CASE ~StartFilter /\ ~ClearFilter
    <3>1. SameSession(db, db')
      BY <2>1, <2>4, NextSession
    <3>2. before' = before
      BY <2>1, <2>4, <3>1 DEF SameSession
    <3> QED
      BY <3>1, <3>2, SessionSaves DEF BeforeKept
  <2> QED
    BY <2>2, <2>3, <2>4
<1> QED
  BY <1>2, <1>3

(* Leaving the line puts back what was saved. *)
LEMMA CancelPlace ==
    ASSUME NEW d, Sound(d), d.cur_mode = "filter", NEW b, Saves(d, b)
    PROVE  LET f == FilterCancel(d)
           IN  /\ f \in State /\ f.filter = b.filter
               /\ f.cur_filtertarget = b.filtertarget
               /\ b.item # Null =>
                     f.left_row < Len(f.left_item) /\ SelectedItem(f) = b.item
<1> DEFINE s == SwitchToBrowse(d)
           e == [s EXCEPT !.filter = d.pre_filter.text,
                          !.cur_filtertarget = d.pre_filter.target]
           c == BuildLeftItems(e)
           f == FilterCancel(d)
           rows == VisibleItems(d.pre_filter.text, d.pre_filter.target, d.collapsed)
<1>1. d \in State /\ d.pre_filter.target # Null
  BY SoundType DEF Sound, Saved
<1>2. /\ d.pre_filter.text \in Seq(Char) /\ d.pre_filter.target \in Filtertarget
      /\ d.pre_filter.row \in Nat
  BY <1>1 DEF State, PreFilter
<1>3. s \in State /\ s.collapsed = d.collapsed
  BY <1>1, SwitchToBrowseType DEF SwitchToBrowse, State
<1>4. f = [c EXCEPT !.left_row = d.pre_filter.row,
                    !.left_scroll = d.pre_filter.scroll]
  BY DEF FilterCancel
<1>5. f \in State
  BY <1>1, FilterCancelType
<1> HIDE DEF s, f
<1>6. /\ e \in State /\ e.filter = d.pre_filter.text
      /\ e.cur_filtertarget = d.pre_filter.target /\ e.collapsed = d.collapsed
  BY <1>2, <1>3 DEF State
<1> HIDE DEF e
<1>7. /\ c \in State /\ c.filter = e.filter
      /\ c.cur_filtertarget = e.cur_filtertarget /\ c.left_item = rows
  <2>1. c \in State
    BY <1>6, BuildLeftItemsType
  <2> QED
    BY <1>6, <2>1 DEF BuildLeftItems, State
<1> HIDE DEF c
<1>8. /\ f.filter = c.filter /\ f.cur_filtertarget = c.cur_filtertarget
      /\ f.left_item = rows /\ f.left_row = d.pre_filter.row
  BY <1>4, <1>7 DEF State
<1>9. b.item # Null => f.left_row < Len(f.left_item) /\ SelectedItem(f) = b.item
  BY <1>8 DEF Saves, SelectedItem
<1> QED
  BY <1>5, <1>6, <1>7, <1>8, <1>9 DEF Saves, f

LEMMA CancelStep ==
    ASSUME Steady(db), BeforeKept, db.cur_mode = "filter",
           CancelFilter \/ HeadlessSetView
    PROVE  /\ Place(db').filter = before.filter
           /\ Place(db').filtertarget = before.filtertarget
           /\ before.item # Null => SelectedItem(db') = before.item
<1>1. db \in State /\ Sound(db) /\ Saves(db, before)
  BY SoundType DEF Steady, Placed, Left, BeforeKept
<1>2. ASSUME NEW e, e.filter = before.filter,
             e.cur_filtertarget = before.filtertarget,
             before.item # Null =>
                 e.left_row < Len(e.left_item) /\ SelectedItem(e) = before.item,
             SameList(e, db'),
             e.left_row < Len(e.left_item) => db'.left_row = e.left_row
      PROVE  /\ Place(db').filter = before.filter
             /\ Place(db').filtertarget = before.filtertarget
             /\ before.item # Null => SelectedItem(db') = before.item
  BY <1>2 DEF SameList, Place, SelectedItem
<1>3. CASE CancelFilter
  <2> DEFINE f == FilterCancel(db)
  <2>1. Finish("filter_cancel", f)
    BY <1>3 DEF CancelFilter
  <2>2. /\ f \in State /\ f.filter = before.filter
        /\ f.cur_filtertarget = before.filtertarget
        /\ before.item # Null =>
              f.left_row < Len(f.left_item) /\ SelectedItem(f) = before.item
    BY <1>1, CancelPlace
  <2> HIDE DEF f
  <2>3. SameList(f, db') /\ (f.left_row < Len(f.left_item) => db'.left_row = f.left_row)
    BY <1>1, <2>1, <2>2, FinishSameList
  <2> QED
    BY <1>2, <2>2, <2>3
<1>4. CASE HeadlessSetView
  <2> DEFINE f == FilterCancel(Started)
  <2>1. Started \in State /\ Sound(Started) /\ SameList(db, Started)
    BY <1>1, ReadySound, SoundType DEF Started, SameList, State
  <2>2. Started.cur_mode = "filter" /\ Saves(Started, before)
    BY <1>1, <2>1, SameListSession, SessionSaves DEF SameList
  <2>3. PICK vm \in Viewmode :
           db' = PostAction(IF vm \in IsOverlay THEN PushOverlay(f, vm)
                            ELSE [PopEveryOverlay(f) EXCEPT !.cur_viewmode = vm], f)
    BY <1>4, <2>2, InputAssumption DEF HeadlessSetView, LeaveFilterMode
  <2>4. /\ f \in State /\ f.filter = before.filter
        /\ f.cur_filtertarget = before.filtertarget
        /\ before.item # Null =>
              f.left_row < Len(f.left_item) /\ SelectedItem(f) = before.item
    BY <2>1, <2>2, CancelPlace
  <2> HIDE DEF f
  <2> DEFINE p == PopEveryOverlay(f)
             q == [p EXCEPT !.cur_viewmode = vm]
             o == PushOverlay(f, vm)
  <2>5. SameList(f, p) /\ p \in State /\ p.left_row = f.left_row
    BY <2>4, OverlayFrame, PopEveryOverlayType DEF PopEveryOverlay, State
  <2>6. SameList(f, o) /\ o \in State /\ o.left_row = f.left_row
    <3>1. o.left_row = f.left_row
      BY <2>4 DEF PushOverlay, State
    <3> QED
      BY <2>4, <3>1, OverlayFrame, PushOverlayType
  <2>7. db' = PostAction(IF vm \in IsOverlay THEN o ELSE q, f)
    BY <2>3
  <2> HIDE DEF p, o
  <2>8. SameList(p, q) /\ q \in State /\ q.left_row = p.left_row
    BY <2>5 DEF State, SameList
  <2> HIDE DEF q
  <2>9. \E e \in {o, q} : /\ SameList(f, e) /\ e \in State /\ e.left_row = f.left_row
                          /\ db' = PostAction(e, f)
    BY <2>5, <2>6, <2>7, <2>8, SameListTransitive
  <2>10. PICK e \in {o, q} : /\ SameList(f, e) /\ e \in State /\ e.left_row = f.left_row
                             /\ db' = PostAction(e, f)
    BY <2>9
  <2>11. SameList(e, db') /\ (e.left_row < Len(e.left_item) => db'.left_row = e.left_row)
    BY <2>4, <2>10, PostActionFrame, PostActionSettles
  <2>12. SameList(f, db') /\ (f.left_row < Len(f.left_item) => db'.left_row = f.left_row)
    BY <2>10, <2>11, SameListTransitive DEF SameList
  <2> QED
    BY <1>2, <2>4, <2>12
<1> QED
  BY <1>3, <1>4

(* Escape in the filter line, or a view change from outside, restores the  *)
(* filter and the target of the place the line was opened at, and, unless  *)
(* Ctrl-U was pressed in between, the cursor's item.                       *)
THEOREM CancelReturnsHolds == SessionSpec => CancelReturns
<1> DEFINE Leaves == db.cur_mode = "filter" /\ (CancelFilter \/ HeadlessSetView) =>
                        /\ Place(db').filter = before.filter
                        /\ Place(db').filtertarget = before.filtertarget
                        /\ before.item # Null => SelectedItem(db') = before.item
<1>1. SessionInit => Init /\ BeforeKept
  <2> SUFFICES ASSUME SessionInit
               PROVE  Init /\ BeforeKept
    OBVIOUS
  <2>1. Init /\ before = Place(db)
    BY DEF SessionInit
  <2>2. db \in State
    BY <2>1, InitSound, SoundType
  <2>3. db.cur_mode = "browse"
    BY <2>1 DEF Init, PushOverlay, BuildLeftItems
  <2> QED
    BY <2>1, <2>2, <2>3, PlaceType DEF BeforeKept, Saves
<1>2. [SessionNext]_session => [Next]_vars
  BY DEF SessionNext, session, vars
<1>3. Steady(db) /\ BeforeKept /\ [SessionNext]_session => BeforeKept'
  BY SessionStep
<1>4. Steady(db) /\ BeforeKept => [Leaves]_session
  BY CancelStep
<1>5. SessionSpec => Spec
  BY <1>1, <1>2, PTL DEF SessionSpec, Spec
<1>6. SessionSpec => []BeforeKept
  BY <1>1, <1>3, <1>5, SteadyInvariant, PTL DEF SessionSpec
<1>7. SessionSpec => [][Leaves]_session
  BY <1>4, <1>5, <1>6, SteadyInvariant, PTL
<1> QED
  BY <1>7 DEF CancelReturns
=============================================================================
