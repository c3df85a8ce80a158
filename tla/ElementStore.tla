---------------------------- MODULE ElementStore ----------------------------
(***************************************************************************)
(* What a pool of elements promises to those who take and give back: an    *)
(* element is somebody's or spare, and the store becomes larger only when  *)
(* every element of it is somebody's.  Chunks, links and locks are not     *)
(* mentioned.                                                              *)
(***************************************************************************)
CONSTANT Elements

VARIABLES
  made,  \* the elements the store has
  used   \* those that are somebody's

Init == made = {} /\ used = {}

Enlarge ==
  /\ used = made
  /\ \E chunk \in SUBSET (Elements \ made) : chunk # {} /\ made' = made \cup chunk
  /\ UNCHANGED used

Take == \E e \in made \ used : used' = used \cup {e} /\ UNCHANGED made

GiveBack == \E e \in used : used' = used \ {e} /\ UNCHANGED made

Next == Enlarge \/ Take \/ GiveBack

Spec == Init /\ [][Next]_<<made, used>>
=============================================================================
