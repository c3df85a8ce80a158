------------------------------ MODULE EZSignal ------------------------------
(***************************************************************************)
(* A TSignal (EZSignal.h): a vector of slots that observers are attached   *)
(* to and detached from under m_CMutex, and that operator() walks without  *)
(* it, calling whoever it finds.                                           *)
(*                                                                         *)
(* Under the mutex the only writes the walk can see are those to a slot's  *)
(* three fields, and each is a step; they become visible in program order. *)
(* Attach and Detach may be called by any thread, one at a time; a single  *)
(* thread calls the signal, as in every program of the repository.         *)
(***************************************************************************)
EXTENDS Integers, FiniteSets

CONSTANTS
  Objs,       \* pObj of the observers
  Procs,      \* pProc: the methods that are attached
  MaxSlots,   \* the constructor's argument
  MayRepeat,  \* whether an observer may be attached while it is
  NULL

ASSUME SignalAssumption ==
  /\ MaxSlots \in Nat /\ MayRepeat \in BOOLEAN
  /\ NULL \notin Objs \cup Procs

m_nMaxSlots == IF MaxSlots < 4 THEN 4 ELSE MaxSlots
Slots == 0 .. m_nMaxSlots - 1
Observers == Objs \X Procs

VARIABLES
  pObj, pProc, Status, \* the fields of the slots
  attaching,           \* NULL when m_CMutex is free; else the Attach that is
                       \* writing its slot, and the field it wrote last
  epc,                 \* where the emission stands
  ei,                  \* its i
  eObj,                \* the m_pObj it has read
  stayed,              \* the observers attached since it began
  allowed,             \* those attached at some moment of it, or about to be
  heard                \* those it has called

slots    == <<pObj, pProc, Status, attaching>>
emission == <<epc, ei, eObj, stayed, allowed, heard>>
vars     == <<slots, emission>>

Node(i) == <<pObj[i], pProc[i]>>
Normal(i) == Status[i] = "NORMAL"
calcSize == Cardinality({i \in Slots : Normal(i)})
IsAttached(o) == \E i \in Slots : Normal(i) /\ Node(i) = o
AttachedNow == {Node(i) : i \in {j \in Slots : Normal(j)}}

Init ==
  /\ pObj = [i \in Slots |-> NULL] /\ pProc = [i \in Slots |-> NULL]
  /\ Status = [i \in Slots |-> "EMPTY"]
  /\ attaching = NULL
  /\ epc = "idle" /\ ei = 0 /\ eObj = NULL
  /\ stayed = {} /\ allowed = {} /\ heard = {}

-----------------------------------------------------------------------------
(* Attach *)

\* The loop of Attach ends at the first slot that is free or already o's.
EndsAttach(i, o) == ~Normal(i) \/ Node(i) = o
FirstFor(i, o) == /\ EndsAttach(i, o)
                  /\ \A j \in Slots : j < i => ~EndsAttach(j, o)

MayAttach(o) == attaching = NULL /\ (MayRepeat \/ ~IsAttached(o))

\* -1, no slot is left, or -2, o has this one.
AttachFails(o) ==
  /\ MayAttach(o)
  /\ \A i \in Slots : FirstFor(i, o) => Normal(i)
  /\ UNCHANGED vars

\* Mutation: the slot is marked before its other fields are written.
AttachStatusFirst(o) ==
  /\ MayAttach(o)
  /\ \E i \in Slots :
       /\ FirstFor(i, o) /\ ~Normal(i)
       /\ Status' = [Status EXCEPT ![i] = "NORMAL"]
       /\ pObj' = [pObj EXCEPT ![i] = o[1]]
       /\ attaching' = [slot |-> i, obs |-> o, wrote |-> "obj"]
  /\ allowed' = IF epc = "idle" THEN allowed ELSE allowed \cup {o}
  /\ UNCHANGED <<pProc, epc, ei, eObj, stayed, heard>>

AttachObj(o) ==
  /\ MayAttach(o)
  /\ \E i \in Slots :
       /\ FirstFor(i, o) /\ ~Normal(i)
       /\ pObj' = [pObj EXCEPT ![i] = o[1]]
       /\ attaching' = [slot |-> i, obs |-> o, wrote |-> "obj"]
  /\ allowed' = IF epc = "idle" THEN allowed ELSE allowed \cup {o}
  /\ UNCHANGED <<pProc, Status, epc, ei, eObj, stayed, heard>>

AttachProc ==
  /\ attaching # NULL /\ attaching.wrote = "obj"
  /\ pProc' = [pProc EXCEPT ![attaching.slot] = attaching.obs[2]]
  /\ attaching' = [slot |-> attaching.slot, obs |-> attaching.obs, wrote |-> "proc"]
  /\ UNCHANGED <<pObj, Status, emission>>

\* m_Status, and the end of the critical section.
AttachStatus ==
  /\ attaching # NULL /\ attaching.wrote = "proc"
  /\ Status' = [Status EXCEPT ![attaching.slot] = "NORMAL"]
  /\ attaching' = NULL
  /\ UNCHANGED <<pObj, pProc, emission>>

-----------------------------------------------------------------------------
(* Detach, which does not look at m_Status *)

FirstOf(i, o) == Node(i) = o /\ \A j \in Slots : j < i => Node(j) # o

DetachFails(o) ==
  /\ attaching = NULL
  /\ \A i \in Slots : Node(i) # o
  /\ UNCHANGED vars

\* Mutation: the search runs from the last slot down.
DetachLast(o) ==
  /\ attaching = NULL
  /\ \E i \in Slots :
       /\ Node(i) = o /\ \A j \in Slots : j > i => Node(j) # o
       /\ Status' = [Status EXCEPT ![i] = "EMPTY"]
  /\ UNCHANGED <<pObj, pProc, attaching, epc, ei, eObj, allowed, heard>>
  /\ stayed' = stayed \cap AttachedNow'

Detach(o) ==
  /\ attaching = NULL
  /\ \E i \in Slots :
       /\ FirstOf(i, o)
       /\ Status' = [Status EXCEPT ![i] = "EMPTY"]
  /\ UNCHANGED <<pObj, pProc, attaching, epc, ei, eObj, allowed, heard>>
  /\ stayed' = stayed \cap AttachedNow'

-----------------------------------------------------------------------------
(* operator() *)

Emit ==
  /\ epc = "idle"
  /\ epc' = "test" /\ ei' = 0
  /\ stayed' = AttachedNow
  /\ allowed' = AttachedNow \cup
                (IF attaching = NULL THEN {} ELSE {attaching.obs})
  /\ UNCHANGED <<slots, eObj, heard>>

\* Mutation: the walk leaves the last slot out.
TestSlotShort ==
  /\ epc = "test" /\ ei < m_nMaxSlots
  /\ \/ Normal(ei) /\ ei < m_nMaxSlots - 1 /\ epc' = "obj" /\ UNCHANGED ei
     \/ (~Normal(ei) \/ ei = m_nMaxSlots - 1) /\ ei' = ei + 1 /\ UNCHANGED epc
  /\ UNCHANGED <<slots, eObj, stayed, allowed, heard>>

TestSlot ==
  /\ epc = "test" /\ ei < m_nMaxSlots
  /\ \/ Normal(ei) /\ epc' = "obj" /\ UNCHANGED ei
     \/ ~Normal(ei) /\ ei' = ei + 1 /\ UNCHANGED epc
  /\ UNCHANGED <<slots, eObj, stayed, allowed, heard>>

ReadObj ==
  /\ epc = "obj"
  /\ eObj' = pObj[ei] /\ epc' = "proc"
  /\ UNCHANGED <<slots, ei, stayed, allowed, heard>>

\* (m_pObj->*m_pProc)(...) with the m_pProc of now.
CallBack ==
  /\ epc = "proc"
  /\ heard' = heard \cup {<<eObj, pProc[ei]>>}
  /\ eObj' = NULL /\ ei' = ei + 1 /\ epc' = "test"
  /\ UNCHANGED <<slots, stayed, allowed>>

EndEmission ==
  /\ epc = "test" /\ ei = m_nMaxSlots
  /\ epc' = "idle" /\ ei' = 0
  /\ stayed' = {} /\ allowed' = {} /\ heard' = {}
  /\ UNCHANGED <<slots, eObj>>

EmissionStep == TestSlot \/ ReadObj \/ CallBack \/ EndEmission

Next ==
  \/ \E o \in Observers :
       AttachFails(o) \/ AttachObj(o) \/ DetachFails(o) \/ Detach(o)
  \/ AttachProc \/ AttachStatus
  \/ Emit \/ EmissionStep

Spec == Init /\ [][Next]_vars

-----------------------------------------------------------------------------
(* Properties *)

\* Every variable holds a value of its kind.
TypeOK ==
  /\ pObj \in [Slots -> Objs \cup {NULL}]
  /\ pProc \in [Slots -> Procs \cup {NULL}]
  /\ Status \in [Slots -> {"EMPTY", "NORMAL"}]
  /\ attaching \in {NULL} \cup
                   [slot : Slots, obs : Observers, wrote : {"obj", "proc"}]
  /\ epc \in {"idle", "test", "obj", "proc"} /\ ei \in 0 .. m_nMaxSlots
  /\ eObj \in Objs \cup {NULL}
  /\ stayed \subseteq Observers /\ allowed \subseteq Observers
  /\ heard \subseteq (Objs \cup {NULL}) \X (Procs \cup {NULL})

\* EZSignal.h:178-188 walks the slots while others attach and detach: whoever
\* is attached from its beginning to its end is called, even when an observer
\* has been attached a second time, moved to an earlier slot, or shares its
\* slots with others that come and go.
AttachedIsCalled ==
  epc = "test" /\ ei = m_nMaxSlots => stayed \subseteq heard

\* Nobody else is called: neither a slot half written nor an observer that was
\* detached before the emission began, although slots keep m_pObj and m_pProc
\* when they are emptied and the walk tests, then reads, without the mutex.
OnlyAttachedCalled == heard \subseteq allowed

\* Slot i will still give o its call: the walk has not passed it, or stands at
\* it and has read nothing of an earlier tenant.
Due(i, o) ==
  /\ Normal(i) /\ Node(i) = o
  /\ i > ei \/ (i = ei /\ epc # "proc") \/ (i = ei /\ eObj = o[1])

WalkInside == /\ epc \in {"obj", "proc"} => ei \in Slots
              /\ epc = "idle" => heard = {}

StayedAreDue == \A o \in stayed \ heard : \E i \in Slots : Due(i, o)

\* The Attach under way has written what it says to a slot still free.
AttachUnderWay ==
  attaching # NULL =>
    /\ ~Normal(attaching.slot)
    /\ pObj[attaching.slot] = attaching.obs[1]
    /\ attaching.wrote = "proc" => Node(attaching.slot) = attaching.obs

TenantsAreObservers == \A i \in Slots : Normal(i) => Node(i) \in Observers

\* What the emission may still call is allowed.
TenantsAllowed ==
  epc # "idle" =>
    /\ \A i \in Slots : Normal(i) => Node(i) \in allowed
    /\ attaching # NULL => attaching.obs \in allowed

ReadAllowed ==
  /\ epc \in {"obj", "proc"} => pProc[ei] \in Procs
  /\ epc = "obj" => {pObj[ei]} \X Procs \subseteq allowed
  /\ epc = "proc" => {eObj} \X Procs \subseteq allowed

\* The inductive invariant behind AttachedIsCalled.
CalledInv == /\ TypeOK /\ WalkInside /\ StayedAreDue
             /\ AttachUnderWay /\ TenantsAreObservers

\* The one behind OnlyAttachedCalled, when a single method is attached.
SignalInv == CalledInv /\ TenantsAllowed /\ ReadAllowed /\ OnlyAttachedCalled
=============================================================================
