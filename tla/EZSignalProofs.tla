--------------------------- MODULE EZSignalProofs ---------------------------
(***************************************************************************)
(* Proofs about EZSignal, for any observers and any number of slots: who   *)
(* is attached throughout an emission is called, and, when all observers   *)
(* attach the same method, nobody else is.                                 *)
(***************************************************************************)
EXTENDS EZSignal, TLAPS

\* There is a slot, and the last index of the walk is one past the last.
LEMMA SlotsFact ==
  /\ m_nMaxSlots \in Nat /\ m_nMaxSlots >= 4
  /\ Slots \subseteq Nat
  /\ \A i \in Slots : i + 1 \in 0 .. m_nMaxSlots
  /\ \A i \in 0 .. m_nMaxSlots : i < m_nMaxSlots => i \in Slots
  /\ \A i \in Slots : i < m_nMaxSlots
BY SignalAssumption DEF m_nMaxSlots, Slots

\* An observer is the pair of its object and its method.
LEMMA ObserverFact ==
  \A o \in Observers : o = <<o[1], o[2]>> /\ o[1] \in Objs /\ o[2] \in Procs
BY DEF Observers

LEMMA InitCalled == Init => CalledInv
<1> SUFFICES ASSUME Init PROVE CalledInv
  OBVIOUS
<1>1. TypeOK
  BY SlotsFact DEF Init, TypeOK
<1> QED
  BY <1>1 DEF Init, CalledInv, WalkInside, StayedAreDue, AttachUnderWay,
              TenantsAreObservers, Normal

\* Attach writes to a slot that nobody occupies.
LEMMA AttachObjCalled ==
  ASSUME CalledInv, NEW o \in Observers, AttachObj(o)
  PROVE  CalledInv'
<1> USE DEF CalledInv, MayAttach
<1>1. PICK i \in Slots : /\ ~Normal(i)
                         /\ pObj' = [pObj EXCEPT ![i] = o[1]]
                         /\ attaching' = [slot |-> i, obs |-> o, wrote |-> "obj"]
  BY DEF AttachObj
<1>2. UNCHANGED <<pProc, Status, epc, ei, eObj, stayed, heard>>
  BY DEF AttachObj
<1>3. \A j \in Slots : Normal(j) => Normal(j)' /\ Node(j)' = Node(j)
  BY <1>1, <1>2 DEF Normal, Node, TypeOK
<1>4. \A j \in Slots : Normal(j)' => Normal(j)
  BY <1>2 DEF Normal
<1>5. TypeOK'
  BY <1>1, <1>2, ObserverFact, SMTT(30) DEF AttachObj, TypeOK
<1>6. StayedAreDue'
  BY <1>2, <1>3 DEF StayedAreDue, Due
<1>7. AttachUnderWay'
  BY <1>1, <1>2 DEF AttachUnderWay, Normal, TypeOK
<1>8. TenantsAreObservers'
  BY <1>3, <1>4 DEF TenantsAreObservers
<1> QED
  BY <1>2, <1>5, <1>6, <1>7, <1>8 DEF WalkInside

LEMMA AttachProcCalled ==
  ASSUME CalledInv, AttachProc
  PROVE  CalledInv'
<1> USE DEF CalledInv
<1> DEFINE i == attaching.slot
<1>1. /\ attaching # NULL /\ attaching.wrote = "obj"
      /\ attaching \in [slot : Slots, obs : Observers, wrote : {"obj", "proc"}]
      /\ i \in Slots /\ attaching.obs \in Observers
      /\ ~Normal(i) /\ pObj[i] = attaching.obs[1]
  BY DEF AttachProc, TypeOK, AttachUnderWay
<1>2. /\ pProc' = [pProc EXCEPT ![i] = attaching.obs[2]]
      /\ attaching' = [slot |-> i, obs |-> attaching.obs, wrote |-> "proc"]
      /\ UNCHANGED <<pObj, Status, epc, ei, eObj, stayed, allowed, heard>>
  BY DEF AttachProc, emission
<1>3. \A j \in Slots : Normal(j) => Normal(j)' /\ Node(j)' = Node(j)
  BY <1>1, <1>2 DEF Normal, Node, TypeOK
<1>4. \A j \in Slots : Normal(j)' => Normal(j)
  BY <1>2 DEF Normal
<1>5. attaching' \in [slot : Slots, obs : Observers, wrote : {"obj", "proc"}]
  BY <1>1, <1>2
<1>6. TypeOK'
  BY <1>1, <1>2, <1>5, ObserverFact DEF TypeOK
<1>7. StayedAreDue'
  BY <1>2, <1>3 DEF StayedAreDue, Due
<1>8. AttachUnderWay'
  <2>1. attaching'.slot = i /\ attaching'.obs = attaching.obs
    BY <1>1, <1>2
  <2>2. ~Normal(i)' /\ Node(i)' = <<attaching.obs[1], attaching.obs[2]>>
    BY <1>1, <1>2 DEF Normal, Node, TypeOK
  <2>3. pObj'[i] = attaching.obs[1]
    BY <1>1, <1>2
  <2>4. attaching.obs = <<attaching.obs[1], attaching.obs[2]>>
    BY <1>1, ObserverFact
  <2> QED
    BY <2>1, <2>2, <2>3, <2>4 DEF AttachUnderWay, Normal, Node
<1>9. TenantsAreObservers'
  BY <1>3, <1>4 DEF TenantsAreObservers
<1> QED
  BY <1>2, <1>6, <1>7, <1>8, <1>9 DEF WalkInside

LEMMA AttachStatusCalled ==
  ASSUME CalledInv, AttachStatus
  PROVE  CalledInv'
<1> USE DEF CalledInv
<1> DEFINE i == attaching.slot
<1>1. i \in Slots /\ attaching.obs \in Observers /\ Node(i) = attaching.obs
  BY DEF AttachStatus, TypeOK, AttachUnderWay
<1>2. /\ Status' = [Status EXCEPT ![i] = "NORMAL"]
      /\ attaching' = NULL
      /\ UNCHANGED <<pObj, pProc, epc, ei, eObj, stayed, allowed, heard>>
  BY DEF AttachStatus, emission
<1>3. \A j \in Slots : Node(j)' = Node(j) /\ (Normal(j) => Normal(j)')
  BY <1>1, <1>2 DEF Normal, Node, TypeOK
<1>4. \A j \in Slots : Normal(j)' => Normal(j) \/ j = i
  BY <1>1, <1>2 DEF Normal, TypeOK
<1>5. TypeOK'
  BY <1>1, <1>2 DEF TypeOK
<1>6. StayedAreDue'
  BY <1>2, <1>3 DEF StayedAreDue, Due
<1>7. AttachUnderWay'
  BY <1>2 DEF AttachUnderWay
<1>8. TenantsAreObservers'
  BY <1>1, <1>3, <1>4 DEF TenantsAreObservers
<1> QED
  BY <1>2, <1>5, <1>6, <1>7, <1>8 DEF WalkInside

\* Detach empties o's first slot, so if o stays attached it is at a later one.
LEMMA DetachCalled ==
  ASSUME CalledInv, NEW o \in Observers, Detach(o)
  PROVE  CalledInv'
<1> USE DEF CalledInv
<1>1. PICK i \in Slots : /\ FirstOf(i, o)
                         /\ Status' = [Status EXCEPT ![i] = "EMPTY"]
  BY DEF Detach
<1>2. /\ UNCHANGED <<pObj, pProc, attaching, epc, ei, eObj, allowed, heard>>
      /\ stayed' = stayed \cap AttachedNow'
      /\ attaching = NULL
  BY DEF Detach
<1>3. \A j \in Slots : /\ Node(j)' = Node(j)
                       /\ Normal(j)' <=> Normal(j) /\ j # i
  BY <1>1, <1>2 DEF Normal, Node, TypeOK
<1>4. TypeOK'
  BY <1>1, <1>2 DEF TypeOK
<1>5. StayedAreDue'
  <2> SUFFICES ASSUME NEW u \in (stayed \ heard)'
               PROVE  \E j \in Slots : Due(j, u)'
    BY DEF StayedAreDue
  <2>1. PICK k \in Slots : Due(k, u)
    BY <1>2 DEF StayedAreDue
  <2>2. CASE k # i
    BY <1>2, <1>3, <2>1, <2>2 DEF Due
  <2>3. CASE k = i
    <3>1. PICK j \in Slots : Normal(j)' /\ Node(j)' = u
      BY <1>2 DEF AttachedNow
    <3>2. Node(i) = u /\ u = o /\ i >= ei
      BY <1>1, <2>1, <2>3, SlotsFact DEF Due, FirstOf, TypeOK
    <3>3. j # i /\ j > i
      BY <1>1, <1>3, <3>1, <3>2, SlotsFact DEF FirstOf
    <3>4. j > ei
      BY <3>2, <3>3, SlotsFact DEF TypeOK
    <3> QED
      BY <1>2, <3>1, <3>4 DEF Due
  <2> QED
    BY <2>2, <2>3
<1>6. AttachUnderWay'
  BY <1>2 DEF AttachUnderWay
<1>7. TenantsAreObservers'
  BY <1>3 DEF TenantsAreObservers
<1> QED
  BY <1>2, <1>4, <1>5, <1>6, <1>7 DEF WalkInside

\* The slots do not change while the emission takes a step.
LEMMA SlotsKept ==
  ASSUME CalledInv, UNCHANGED slots
  PROVE  /\ AttachUnderWay' /\ TenantsAreObservers'
         /\ \A i \in Slots : Normal(i)' = Normal(i) /\ Node(i)' = Node(i)
BY DEF CalledInv, slots, AttachUnderWay, TenantsAreObservers, Normal, Node

LEMMA EmitCalled ==
  ASSUME CalledInv, Emit
  PROVE  CalledInv'
<1> USE DEF CalledInv
<1>1. /\ UNCHANGED slots /\ UNCHANGED <<eObj, heard>>
      /\ epc' = "test" /\ ei' = 0 /\ stayed' = AttachedNow
  BY DEF Emit
<1>2. AttachedNow \subseteq Observers
  BY DEF AttachedNow, TenantsAreObservers
<1>3. allowed' \subseteq Observers
  BY <1>2 DEF Emit, TypeOK
<1>4. TypeOK'
  BY <1>1, <1>2, <1>3, SlotsFact DEF slots, TypeOK
<1>5. StayedAreDue'
  <2> SUFFICES ASSUME NEW u \in AttachedNow
               PROVE  \E j \in Slots : Due(j, u)'
    BY <1>1 DEF StayedAreDue
  <2>1. PICK j \in Slots : Normal(j) /\ Node(j) = u
    BY DEF AttachedNow
  <2>2. j > 0 \/ j = 0
    BY SlotsFact
  <2> QED
    BY <1>1, <2>1, <2>2, SlotsKept DEF Due
<1> QED
  BY <1>1, <1>4, <1>5, SlotsKept DEF WalkInside

LEMMA TestSlotCalled ==
  ASSUME CalledInv, TestSlot
  PROVE  CalledInv'
<1> USE DEF CalledInv
<1>1. /\ UNCHANGED slots /\ UNCHANGED <<eObj, stayed, allowed, heard>>
      /\ epc = "test" /\ ei < m_nMaxSlots
  BY DEF TestSlot
<1>2. ei \in Slots
  BY <1>1, SlotsFact DEF TypeOK
<1>3. \/ Normal(ei) /\ epc' = "obj" /\ ei' = ei
      \/ ~Normal(ei) /\ epc' = "test" /\ ei' = ei + 1
  BY <1>1 DEF TestSlot
<1>4. TypeOK'
  BY <1>1, <1>2, <1>3, SlotsFact DEF slots, TypeOK
<1>5. StayedAreDue'
  <2> SUFFICES ASSUME NEW u \in stayed \ heard
               PROVE  \E j \in Slots : Due(j, u)'
    BY <1>1 DEF StayedAreDue
  <2>1. PICK j \in Slots : Due(j, u)
    BY DEF StayedAreDue
  <2>2. ~Normal(ei) => j > ei
    BY <2>1 DEF Due
  <2>3. j > ei => j > ei + 1 \/ j = ei + 1
    BY <1>2, SlotsFact
  <2> QED
    BY <1>1, <1>3, <2>1, <2>2, <2>3, SlotsKept DEF Due
<1> QED
  BY <1>1, <1>2, <1>3, <1>4, <1>5, SlotsKept DEF WalkInside

LEMMA ReadObjCalled ==
  ASSUME CalledInv, ReadObj
  PROVE  CalledInv'
<1> USE DEF CalledInv
<1>1. /\ UNCHANGED slots /\ UNCHANGED <<ei, stayed, allowed, heard>>
      /\ eObj' = pObj[ei] /\ epc' = "proc" /\ ei \in Slots
  BY DEF ReadObj, WalkInside
<1>2. TypeOK'
  BY <1>1 DEF slots, TypeOK
<1>3. StayedAreDue'
  <2> SUFFICES ASSUME NEW u \in stayed \ heard
               PROVE  \E j \in Slots : Due(j, u)'
    BY <1>1 DEF StayedAreDue
  <2>1. PICK j \in Slots : Due(j, u)
    BY DEF StayedAreDue
  <2>2. Node(j) = u => pObj[j] = u[1]
    BY DEF Node
  <2> QED
    BY <1>1, <2>1, <2>2, SlotsKept DEF Due
<1> QED
  BY <1>1, <1>2, <1>3, SlotsKept DEF WalkInside

\* The observer that slot ei is due to call is the one that is called.
LEMMA CallBackCalled ==
  ASSUME CalledInv, CallBack
  PROVE  CalledInv'
<1> USE DEF CalledInv
<1>1. /\ UNCHANGED slots /\ UNCHANGED <<stayed, allowed>>
      /\ heard' = heard \cup {<<eObj, pProc[ei]>>}
      /\ eObj' = NULL /\ ei' = ei + 1 /\ epc' = "test"
      /\ epc = "proc" /\ ei \in Slots
  BY DEF CallBack, WalkInside
<1>2. TypeOK'
  <2>1. <<eObj, pProc[ei]>> \in (Objs \cup {NULL}) \X (Procs \cup {NULL})
    BY <1>1 DEF TypeOK
  <2> QED
    BY <1>1, <2>1, SlotsFact DEF slots, TypeOK
<1>3. StayedAreDue'
  <2> SUFFICES ASSUME NEW u \in stayed \ heard, u # <<eObj, pProc[ei]>>
               PROVE  \E j \in Slots : Due(j, u)'
    BY <1>1 DEF StayedAreDue
  <2>1. PICK j \in Slots : Due(j, u)
    BY DEF StayedAreDue
  <2>2. u = <<u[1], u[2]>>
    BY ObserverFact DEF TypeOK
  <2>3. Node(j) = u => pProc[j] = u[2]
    BY DEF Node
  <2>4. j # ei
    <3>1. j = ei => eObj = u[1] /\ pProc[ei] = u[2]
      <4>1. j = ei => ~(j > ei) /\ Node(j) = u
        BY <1>1, <2>1, SlotsFact DEF Due
      <4>2. j = ei => eObj = u[1]
        BY <1>1, <2>1, <4>1 DEF Due
      <4> QED
        BY <2>3, <4>1, <4>2
    <3> QED
      BY <3>1, <2>2
  <2>5. j > ei
    BY <1>1, <2>1, <2>4 DEF Due
  <2>6. j > ei + 1 \/ j = ei + 1
    BY <1>1, <2>5, SlotsFact
  <2> QED
    BY <1>1, <2>1, <2>6, SlotsKept DEF Due
<1> QED
  BY <1>1, <1>2, <1>3, SlotsKept DEF WalkInside

LEMMA EndEmissionCalled ==
  ASSUME CalledInv, EndEmission
  PROVE  CalledInv'
<1> USE DEF CalledInv
<1>1. /\ UNCHANGED slots /\ eObj' = eObj
      /\ epc' = "idle" /\ ei' = 0
      /\ stayed' = {} /\ allowed' = {} /\ heard' = {}
  BY DEF EndEmission
<1>2. TypeOK'
  BY <1>1, SlotsFact DEF slots, TypeOK
<1>3. StayedAreDue'
  BY <1>1 DEF StayedAreDue
<1> QED
  BY <1>1, <1>2, <1>3, SlotsKept DEF WalkInside

LEMMA StutterCalled ==
  ASSUME CalledInv, UNCHANGED vars
  PROVE  CalledInv'
<1>1. UNCHANGED slots /\ UNCHANGED emission
  BY DEF vars
<1>2. TypeOK' /\ WalkInside'
  BY <1>1 DEF CalledInv, slots, emission, TypeOK, WalkInside
<1>3. StayedAreDue'
  BY <1>1, SlotsKept DEF CalledInv, StayedAreDue, Due, emission
<1> QED
  BY <1>1, <1>2, <1>3, SlotsKept DEF CalledInv

LEMMA NextCalled ==
  ASSUME CalledInv, [Next]_vars
  PROVE  CalledInv'
<1>1. ASSUME NEW o \in Observers, AttachFails(o) \/ DetachFails(o)
      PROVE  CalledInv'
  BY <1>1, StutterCalled DEF AttachFails, DetachFails
<1>2. ASSUME NEW o \in Observers, AttachObj(o) PROVE CalledInv'
  BY <1>2, AttachObjCalled
<1>3. ASSUME NEW o \in Observers, Detach(o) PROVE CalledInv'
  BY <1>3, DetachCalled
<1>4. CASE AttachProc
  BY <1>4, AttachProcCalled
<1>5. CASE AttachStatus
  BY <1>5, AttachStatusCalled
<1>6. CASE Emit
  BY <1>6, EmitCalled
<1>7. CASE EmissionStep
  BY <1>7, TestSlotCalled, ReadObjCalled, CallBackCalled, EndEmissionCalled
     DEF EmissionStep
<1>8. CASE UNCHANGED vars
  BY <1>8, StutterCalled
<1> QED
  BY <1>1, <1>2, <1>3, <1>4, <1>5, <1>6, <1>7, <1>8 DEF Next

-----------------------------------------------------------------------------
\* The inductive invariant holds of every behaviour of a signal.
THEOREM Invariance == Spec => []CalledInv
<1>1. Init => CalledInv
  BY InitCalled
<1>2. CalledInv /\ [Next]_vars => CalledInv'
  BY NextCalled
<1> QED
  BY <1>1, <1>2, PTL DEF Spec

\* When an emission has passed the last slot nobody can still be due, so it has
\* called everybody who was attached throughout (EZSignal.h:178-188).
LEMMA NobodyDue == CalledInv => AttachedIsCalled
<1> SUFFICES ASSUME CalledInv, epc = "test", ei = m_nMaxSlots
             PROVE  stayed \subseteq heard
  BY DEF AttachedIsCalled
<1>1. \A i \in Slots : ~(i > ei) /\ i # ei
  BY SlotsFact
<1> QED
  BY <1>1 DEF CalledInv, StayedAreDue, Due

\* For any slots, observers and methods, repeated attachments included, an
\* emission calls everybody who is attached from its beginning to its end.
THEOREM EverybodyIsCalled == Spec => []AttachedIsCalled
BY Invariance, NobodyDue, PTL

-----------------------------------------------------------------------------
\* Every program of the repository attaches one method only.
OneMethod == \E p : Procs = {p}

AllowedInv == TenantsAllowed /\ ReadAllowed /\ OnlyAttachedCalled

\* Tenants of slots and the Attach under way are as before, and the emission
\* stands where it stood: what it may call is what it might.
LEMMA AllowedKept ==
  ASSUME AllowedInv, UNCHANGED <<epc, ei, eObj, heard>>, allowed \subseteq allowed',
         epc # "idle" => \A i \in Slots : Normal(i)' => Node(i)' \in allowed',
         epc # "idle" => (attaching' # NULL => attaching'.obs \in allowed'),
         epc \in {"obj", "proc"} => pProc'[ei] \in Procs,
         epc = "obj" => {pObj'[ei]} \X Procs \subseteq allowed'
  PROVE  AllowedInv'
<1>1. TenantsAllowed'
  BY DEF TenantsAllowed
<1>2. ReadAllowed'
  BY DEF AllowedInv, ReadAllowed
<1>3. OnlyAttachedCalled'
  BY DEF AllowedInv, OnlyAttachedCalled
<1> QED
  BY <1>1, <1>2, <1>3 DEF AllowedInv

LEMMA AttachObjAllowed ==
  ASSUME OneMethod, CalledInv, AllowedInv, NEW o \in Observers, AttachObj(o)
  PROVE  AllowedInv'
<1>1. PICK i \in Slots : /\ ~Normal(i)
                         /\ pObj' = [pObj EXCEPT ![i] = o[1]]
                         /\ attaching' = [slot |-> i, obs |-> o, wrote |-> "obj"]
  BY DEF AttachObj
<1>2. UNCHANGED <<pProc, Status, epc, ei, eObj, stayed, heard>>
  BY DEF AttachObj
<1>3. allowed \subseteq allowed' /\ (epc # "idle" => o \in allowed')
  BY DEF AttachObj
<1>4. epc # "idle" => \A j \in Slots : Normal(j)' => Node(j)' \in allowed'
  BY <1>1, <1>2, <1>3
     DEF AllowedInv, TenantsAllowed, Normal, Node, CalledInv, TypeOK
<1>5. epc \in {"obj", "proc"} => pProc'[ei] \in Procs
  BY <1>2 DEF AllowedInv, ReadAllowed
<1>6. ASSUME epc = "obj" PROVE {pObj'[ei]} \X Procs \subseteq allowed'
  <2>1. ei \in Slots
    BY <1>6 DEF CalledInv, WalkInside
  <2>2. pObj'[ei] = pObj[ei] \/ pObj'[ei] = o[1]
    BY <1>1, <2>1 DEF CalledInv, TypeOK
  <2>3. {o[1]} \X Procs = {o}
    BY ObserverFact DEF OneMethod
  <2> QED
    BY <1>3, <1>6, <2>2, <2>3 DEF AllowedInv, ReadAllowed
<1> QED
  BY <1>1, <1>2, <1>3, <1>4, <1>5, <1>6, AllowedKept

LEMMA AttachProcAllowed ==
  ASSUME CalledInv, AllowedInv, AttachProc
  PROVE  AllowedInv'
<1> DEFINE i == attaching.slot
<1>1. i \in Slots /\ attaching.obs \in Observers /\ attaching # NULL /\ ~Normal(i)
  BY DEF AttachProc, CalledInv, TypeOK, AttachUnderWay
<1>2. /\ pProc' = [pProc EXCEPT ![i] = attaching.obs[2]]
      /\ attaching' = [slot |-> i, obs |-> attaching.obs, wrote |-> "proc"]
      /\ UNCHANGED <<pObj, Status, epc, ei, eObj, stayed, allowed, heard>>
  BY DEF AttachProc, emission
<1>3. epc # "idle" => \A j \in Slots : Normal(j)' => Node(j)' \in allowed'
  BY <1>1, <1>2 DEF AllowedInv, TenantsAllowed, Normal, Node, CalledInv, TypeOK
<1>4. attaching'.obs = attaching.obs
  BY <1>2
<1>5. epc # "idle" => attaching'.obs \in allowed'
  BY <1>1, <1>2, <1>4 DEF AllowedInv, TenantsAllowed
<1>6. attaching.obs[2] \in Procs
  BY <1>1, ObserverFact
<1>7. ASSUME epc \in {"obj", "proc"} PROVE pProc'[ei] \in Procs
  BY <1>2, <1>6, <1>7
     DEF AllowedInv, ReadAllowed, CalledInv, WalkInside, TypeOK
<1>8. epc = "obj" => {pObj'[ei]} \X Procs \subseteq allowed'
  BY <1>2 DEF AllowedInv, ReadAllowed
<1> QED
  BY <1>2, <1>3, <1>5, <1>7, <1>8, AllowedKept

LEMMA AttachStatusAllowed ==
  ASSUME CalledInv, AllowedInv, AttachStatus
  PROVE  AllowedInv'
<1> DEFINE i == attaching.slot
<1>1. /\ i \in Slots /\ attaching.obs \in Observers /\ attaching # NULL
      /\ Node(i) = attaching.obs
  BY DEF AttachStatus, CalledInv, TypeOK, AttachUnderWay
<1>2. /\ Status' = [Status EXCEPT ![i] = "NORMAL"]
      /\ attaching' = NULL
      /\ UNCHANGED <<pObj, pProc, epc, ei, eObj, stayed, allowed, heard>>
  BY DEF AttachStatus, emission
<1>3. epc # "idle" => \A j \in Slots : Normal(j)' => Node(j)' \in allowed'
  BY <1>1, <1>2 DEF AllowedInv, TenantsAllowed, Normal, Node, CalledInv, TypeOK
<1>4. /\ epc \in {"obj", "proc"} => pProc'[ei] \in Procs
      /\ epc = "obj" => {pObj'[ei]} \X Procs \subseteq allowed'
  BY <1>2 DEF AllowedInv, ReadAllowed
<1> QED
  BY <1>2, <1>3, <1>4, AllowedKept

LEMMA DetachAllowed ==
  ASSUME CalledInv, AllowedInv, NEW o \in Observers, Detach(o)
  PROVE  AllowedInv'
<1>1. PICK i \in Slots : Status' = [Status EXCEPT ![i] = "EMPTY"]
  BY DEF Detach
<1>2. /\ UNCHANGED <<pObj, pProc, attaching, epc, ei, eObj, allowed, heard>>
      /\ attaching = NULL
  BY DEF Detach
<1>3. epc # "idle" => \A j \in Slots : Normal(j)' => Node(j)' \in allowed'
  BY <1>1, <1>2 DEF AllowedInv, TenantsAllowed, Normal, Node, CalledInv, TypeOK
<1>4. /\ epc \in {"obj", "proc"} => pProc'[ei] \in Procs
      /\ epc = "obj" => {pObj'[ei]} \X Procs \subseteq allowed'
  BY <1>2 DEF AllowedInv, ReadAllowed
<1> QED
  BY <1>2, <1>3, <1>4, AllowedKept

LEMMA EmitAllowed ==
  ASSUME CalledInv, AllowedInv, Emit
  PROVE  AllowedInv'
<1>1. /\ UNCHANGED slots /\ heard' = heard /\ epc = "idle" /\ epc' = "test"
      /\ allowed' = AttachedNow \cup
                    (IF attaching = NULL THEN {} ELSE {attaching.obs})
  BY DEF Emit
<1> QED
  BY <1>1 DEF AllowedInv, TenantsAllowed, ReadAllowed, OnlyAttachedCalled,
              AttachedNow, slots, Normal, Node, CalledInv, WalkInside

\* The slot that passes the test holds somebody who is allowed.
LEMMA TestSlotAllowed ==
  ASSUME OneMethod, CalledInv, AllowedInv, TestSlot
  PROVE  AllowedInv'
<1>1. /\ UNCHANGED slots /\ UNCHANGED <<eObj, stayed, allowed, heard>>
      /\ epc = "test" /\ epc' # "idle" /\ epc' # "proc"
  BY DEF TestSlot
<1>2. TenantsAllowed' /\ OnlyAttachedCalled'
  BY <1>1 DEF AllowedInv, TenantsAllowed, OnlyAttachedCalled, slots, Normal, Node
<1>3. ASSUME epc' = "obj" PROVE ei' = ei /\ ei \in Slots /\ Normal(ei)
  <2>1. epc' # epc
    BY <1>1, <1>3
  <2> QED
    BY <2>1, SlotsFact DEF TestSlot, CalledInv, TypeOK
<1>4. ASSUME epc' = "obj"
      PROVE  pProc[ei] \in Procs /\ {pObj[ei]} \X Procs \subseteq allowed
  <2>1. <<pObj[ei], pProc[ei]>> \in allowed /\ pProc[ei] \in Procs
    BY <1>1, <1>3, <1>4 DEF AllowedInv, TenantsAllowed, Node, CalledInv,
                            TenantsAreObservers, Observers
  <2> QED
    BY <2>1 DEF OneMethod
<1>5. ReadAllowed'
  BY <1>1, <1>3, <1>4 DEF ReadAllowed, slots
<1> QED
  BY <1>2, <1>5 DEF AllowedInv

LEMMA ReadObjAllowed ==
  ASSUME AllowedInv, ReadObj
  PROVE  AllowedInv'
BY DEF ReadObj, AllowedInv, TenantsAllowed, ReadAllowed, OnlyAttachedCalled,
       slots, Normal, Node

LEMMA CallBackAllowed ==
  ASSUME AllowedInv, CallBack
  PROVE  AllowedInv'
<1>1. <<eObj, pProc[ei]>> \in {eObj} \X Procs
  BY DEF CallBack, AllowedInv, ReadAllowed
<1>2. <<eObj, pProc[ei]>> \in allowed
  BY <1>1 DEF CallBack, AllowedInv, ReadAllowed
<1> QED
  BY <1>2 DEF CallBack, AllowedInv, TenantsAllowed, ReadAllowed,
              OnlyAttachedCalled, slots, Normal, Node

LEMMA EndEmissionAllowed ==
  ASSUME AllowedInv, EndEmission
  PROVE  AllowedInv'
BY DEF EndEmission, AllowedInv, TenantsAllowed, ReadAllowed, OnlyAttachedCalled

LEMMA StutterAllowed ==
  ASSUME AllowedInv, UNCHANGED vars
  PROVE  AllowedInv'
BY DEF vars, slots, emission, AllowedInv, TenantsAllowed, ReadAllowed,
       OnlyAttachedCalled, Normal, Node

LEMMA NextAllowed ==
  ASSUME OneMethod, CalledInv, AllowedInv, [Next]_vars
  PROVE  AllowedInv'
<1>1. ASSUME NEW o \in Observers, AttachFails(o) \/ DetachFails(o)
      PROVE  AllowedInv'
  BY <1>1, StutterAllowed DEF AttachFails, DetachFails
<1>2. ASSUME NEW o \in Observers, AttachObj(o) PROVE AllowedInv'
  BY <1>2, AttachObjAllowed
<1>3. ASSUME NEW o \in Observers, Detach(o) PROVE AllowedInv'
  BY <1>3, DetachAllowed
<1>4. CASE AttachProc \/ AttachStatus
  BY <1>4, AttachProcAllowed, AttachStatusAllowed
<1>5. CASE Emit
  BY <1>5, EmitAllowed
<1>6. CASE EmissionStep
  BY <1>6, TestSlotAllowed, ReadObjAllowed, CallBackAllowed, EndEmissionAllowed
     DEF EmissionStep
<1>7. CASE UNCHANGED vars
  BY <1>7, StutterAllowed
<1> QED
  BY <1>1, <1>2, <1>3, <1>4, <1>5, <1>6, <1>7 DEF Next

\* The whole invariant of a signal with one method: who is still owed a call,
\* the Attach under way, and what the emission has read or may read is allowed
\* to be called (EZSignal.h:97-188).
THEOREM SignalInvariance ==
  ASSUME OneMethod
  PROVE  Spec => []SignalInv
<1>1. Init => SignalInv
  BY InitCalled, SlotsFact
     DEF Init, SignalInv, TenantsAllowed, ReadAllowed, OnlyAttachedCalled
<1>2. SignalInv /\ [Next]_vars => SignalInv'
  BY NextCalled, NextAllowed DEF SignalInv, AllowedInv
<1> QED
  BY <1>1, <1>2, PTL DEF Spec

\* Where one method is attached, an emission calls only observers that were
\* attached at some moment of it or were being attached, however its steps fall
\* between the writes of Attach and Detach.
THEOREM NobodyElseIsCalled ==
  ASSUME OneMethod
  PROVE  Spec => []OnlyAttachedCalled
<1>1. SignalInv => OnlyAttachedCalled
  BY DEF SignalInv
<1> QED
  BY <1>1, SignalInvariance, PTL
=============================================================================
