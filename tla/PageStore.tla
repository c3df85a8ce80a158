----------------------------- MODULE PageStore -----------------------------
(***************************************************************************)
(* What a packet manager promises to those who hold references to packets: *)
(* the pages behind a reference are an aligned run of them, shared by the  *)
(* references that were made from one another and by nobody else, until    *)
(* the reference is given up.  Packets, reference counts, free nodes and   *)
(* locks are not mentioned.                                                *)
(***************************************************************************)
EXTENDS Integers

CONSTANTS
  PageCount, \* pages of the store
  Levels,    \* a run of level i has 2^i pages
  Handles    \* references callers can hold

VARIABLE view  \* the pages each reference gives access to

Pages == 0 .. PageCount - 1

\* The n-th aligned run of 2^i pages.
Run(i, n) == {p \in Pages : p \div 2^i = n}

Init == view = [h \in Handles |-> {}]

Unused(S) == \A h \in Handles : view[h] \cap S = {}

Grant(h) ==
  /\ view[h] = {}
  /\ \E i \in Levels, n \in Pages :
       Unused(Run(i, n)) /\ view' = [view EXCEPT ![h] = Run(i, n)]

Share(h, g) == view[g] = {} /\ view' = [view EXCEPT ![g] = view[h]]

Drop(h) == view' = [view EXCEPT ![h] = {}]

Next == \E h \in Handles : \/ Grant(h) \/ Drop(h)
                           \/ \E g \in Handles : Share(h, g)

Spec == Init /\ [][Next]_view
=============================================================================
