----------------------------- MODULE NavHistory -----------------------------
(***************************************************************************)
(* What the breadcrumb trail of acr_nav promises, whatever panels, views,  *)
(* filters and namespaces lie behind it: following a reference remembers   *)
(* the place it was followed from, and going back returns there.           *)
(***************************************************************************)
EXTENDS Naturals, Sequences

VARIABLES
    here, \* the place the user is at
    past  \* the places a reference was followed from, oldest first

history == <<here, past>>

Init == past = <<>>

(* Browsing leaves the trail alone. *)
Browse == here' # here /\ UNCHANGED past

(* A reference leads from one row of the schema to another. *)
Follow == /\ past' = Append(past, here)
          /\ here'.item # here.item

Back == /\ past # <<>>
        /\ here' = past[Len(past)]
        /\ past' = SubSeq(past, 1, Len(past) - 1)

Next == Browse \/ Follow \/ Back

Spec == Init /\ [][Next]_history
=============================================================================
