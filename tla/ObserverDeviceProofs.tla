------------------------ MODULE ObserverDeviceProofs ------------------------
(***************************************************************************)
(* Proofs about ObserverDevice, for any observers and any number of slots: *)
(* m_iUser counts the observers that are attached, each of which has one   *)
(* slot, and when the last of them has left nobody is called any more.     *)
(*                                                                         *)
(* DeviceInv has a part for the slots, one for the calls and their count,  *)
(* and one for the thread; each is inductive given the ones before it.     *)
(***************************************************************************)
EXTENDS ObserverDevice, FiniteSetTheorems, TLAPS

Slots == Signal!Slots
Normal(i) == Status[i] = "NORMAL"
Node(i) == <<pObj[i], pProc[i]>>
Occupied == {i \in Slots : Normal(i)}

\* Start has attached its observer and has still to count it.
Joining == cpc \in {"users", "cwait", "spawn"}

SlotTypes ==
  /\ pObj \in [Slots -> Objs \cup {NULL}]
  /\ pProc \in [Slots -> Procs \cup {NULL}]
  /\ Status \in [Slots -> {"EMPTY", "NORMAL"}]
  /\ attaching \in {NULL} \cup
                   [slot : Slots, obs : Observers, wrote : {"obj", "proc"}]

\* An occupied slot is the first that names its observer, though slots that
\* were emptied keep their names and Detach takes the first that fits: all
\* slots before it were occupied, by others, when Attach chose it.
FirstNamed ==
  \A i, j \in Slots :
    Normal(i) /\ j < i /\ Node(j) = Node(i) => attaching # NULL /\ attaching.slot = j

AttachUnderWay ==
  attaching # NULL =>
    /\ ~Normal(attaching.slot)
    /\ pObj[attaching.slot] = attaching.obs[1]
    /\ attaching.wrote = "proc" => Node(attaching.slot) = attaching.obs
    /\ \A j \in Slots : j < attaching.slot => Normal(j)
    /\ \A j \in Slots : Normal(j) => Node(j) # attaching.obs

SlotInv == SlotTypes /\ FirstNamed /\ AttachUnderWay

CallTypes ==
  /\ m_iUser \in Nat /\ started \subseteq Observers
  /\ cpc \in CallPCs

AttachCall ==
  /\ cpc = "attach" <=> attaching # NULL
  /\ cpc = "attach" => cobs = attaching.obs
  /\ cpc = "attach" \/ Joining => cobs \in Observers \ started

Members ==
  \A o \in Observers :
    (\E i \in Slots : Normal(i) /\ Node(i) = o)
      <=> (o \in started \/ (Joining /\ o = cobs))

Counted ==
  /\ Cardinality(Occupied) = IF Joining THEN m_iUser + 1 ELSE m_iUser
  /\ IsFiniteSet(Occupied)

CountInv == SlotInv /\ CallTypes /\ AttachCall /\ Members /\ Counted

ThreadTypes ==
  /\ loop \in BOOLEAN /\ waitExit \in BOOLEAN
  /\ cSem \in {0, 1} /\ desSem \in {0, 1}
  /\ bpc \in BodyPCs

\* m_bLoop is set for as long as there are users, and m_cCEZSemaphore is taken
\* for as long as there is a thread.
Flags ==
  /\ loop <=> (m_iUser > 0 \/ cpc \in {"spawn", "dcall"})
  /\ cpc \in {"cwait", "spawn", "dcall", "dflag", "dsem"} => m_iUser = 0
  /\ bpc # "none" \/ cpc = "spawn" => cSem = 0
  /\ cpc = "spawn" => bpc = "none"

\* A thread that has been told to end is waited for until it has posted
\* m_desCEZSemaphore.
Ending ==
  /\ bpc \in {"new", "loop"} => loop \/ cpc \in {"dflag", "dsem"}
  /\ bpc \in {"check", "despost"} => cpc \in {"dflag", "dsem"}
  /\ desSem = 1 => cpc \in {"dflag", "dsem"} /\ bpc \in {"cpost", "none"}
  /\ epc # "idle" => bpc = "loop"

ThreadInv == ThreadTypes /\ Flags /\ Ending

DeviceInv == CountInv /\ ThreadInv

USE DEF Slots, Normal, Node

LEMMA SlotsFact == Slots \subseteq Nat /\ IsFiniteSet(Slots)
<1>1. Signal!m_nMaxSlots \in Nat
  BY DeviceAssumption DEF Signal!m_nMaxSlots
<1>2. Slots = 0 .. Signal!m_nMaxSlots - 1
  BY DEF Signal!Slots
<1> QED
  BY <1>1, <1>2, FS_Interval

LEMMA ObserverFact ==
  \A o \in Observers : o = <<o[1], o[2]>> /\ o[1] \in Objs /\ o[2] \in Procs
BY DEF Observers

LEMMA OccupiedFinite == IsFiniteSet(Occupied)
BY SlotsFact, FS_Subset DEF Occupied

-----------------------------------------------------------------------------
(* The slots *)

LEMMA AttachObjSlots ==
  ASSUME SlotInv, NEW o \in Observers, Signal!AttachObj(o)
  PROVE  /\ SlotInv' /\ attaching = NULL /\ attaching' # NULL /\ attaching'.obs = o
         /\ Occupied' = Occupied
         /\ \A i \in Slots : Normal(i)' <=> Normal(i)
         /\ \A i \in Slots : Normal(i) => Node(i)' = Node(i)
<1>1. attaching = NULL /\ ~Signal!IsAttached(o)
  BY DEF Signal!AttachObj, Signal!MayAttach
<1>2. PICK i \in Slots :
        /\ Signal!FirstFor(i, o) /\ ~Normal(i)
        /\ pObj' = [pObj EXCEPT ![i] = o[1]]
        /\ attaching' = [slot |-> i, obs |-> o, wrote |-> "obj"]
  BY DEF Signal!AttachObj, Signal!Normal
<1>3. pProc' = pProc /\ Status' = Status
  BY DEF Signal!AttachObj
<1>4. \A j \in Slots : j < i => Normal(j) /\ Node(j) # o
  BY <1>2 DEF Signal!FirstFor, Signal!EndsAttach, Signal!Normal, Signal!Node
<1>5. \A j \in Slots : Normal(j) => Node(j) # o
  BY <1>1 DEF Signal!IsAttached, Signal!Normal, Signal!Node
<1>6. \A j \in Slots : j # i => Node(j)' = Node(j)
  BY <1>2, <1>3 DEF SlotInv, SlotTypes
<1>7. \A j \in Slots : Normal(j)' <=> Normal(j)
  BY <1>3
<1>8. attaching' # NULL /\ attaching'.slot = i /\ attaching'.obs = o /\ attaching'.wrote = "obj"
  <2>1. attaching' \in [slot : Slots, obs : Observers, wrote : {"obj", "proc"}]
    BY <1>2 DEF Observers
  <2> QED
    BY <1>2, <2>1, DeviceAssumption
<1>9. SlotTypes'
  BY <1>2, <1>3, <1>8, ObserverFact DEF SlotInv, SlotTypes
<1>10. FirstNamed'
  <2> SUFFICES ASSUME NEW j \in Slots, NEW k \in Slots,
                      Normal(j)', k < j, Node(k)' = Node(j)'
               PROVE  k = i
    BY <1>8 DEF FirstNamed
  <2>1. Normal(j) /\ j # i /\ Node(j)' = Node(j)
    BY <1>2, <1>6, <1>7
  <2>2. ASSUME k # i PROVE FALSE
    <3>1. Node(k) = Node(j)
      BY <2>1, <2>2, <1>6
    <3> QED
      BY <3>1, <2>1, <1>1 DEF SlotInv, FirstNamed
  <2> QED
    BY <2>2
<1>11. AttachUnderWay'
  <2>1. pObj'[i] = o[1] /\ ~Normal(i)'
    BY <1>2, <1>3 DEF SlotInv, SlotTypes
  <2>2. \A j \in Slots : j < i => Normal(j)'
    BY <1>4, <1>7
  <2>3. \A j \in Slots : Normal(j)' => Node(j)' # o
    BY <1>2, <1>5, <1>6, <1>7
  <2> QED
    BY <2>1, <2>2, <2>3, <1>8 DEF AttachUnderWay
<1>12. Occupied' = Occupied
  BY <1>7 DEF Occupied
<1> QED
  BY <1>1, <1>2, <1>6, <1>7, <1>8, <1>9, <1>10, <1>11, <1>12 DEF SlotInv

LEMMA AttachProcSlots ==
  ASSUME SlotInv, Signal!AttachProc
  PROVE  /\ SlotInv' /\ attaching # NULL /\ attaching' # NULL
         /\ attaching'.obs = attaching.obs
         /\ Occupied' = Occupied
         /\ \A i \in Slots : Normal(i)' <=> Normal(i)
         /\ \A i \in Slots : Normal(i) => Node(i)' = Node(i)
<1>0. PICK i, o : i = attaching.slot /\ o = attaching.obs
  OBVIOUS
<1>1. /\ attaching # NULL /\ i \in Slots /\ o \in Observers
      /\ ~Normal(i) /\ pObj[i] = o[1]
      /\ \A j \in Slots : j < i => Normal(j)
      /\ \A j \in Slots : Normal(j) => Node(j) # o
  BY <1>0 DEF Signal!AttachProc, SlotInv, SlotTypes, AttachUnderWay
<1>2. /\ pProc' = [pProc EXCEPT ![i] = o[2]]
      /\ attaching' = [slot |-> i, obs |-> o, wrote |-> "proc"]
      /\ pObj' = pObj /\ Status' = Status
  BY <1>0 DEF Signal!AttachProc
<1>3. /\ attaching' \in [slot : Slots, obs : Observers, wrote : {"obj", "proc"}]
      /\ attaching'.slot = i /\ attaching'.obs = o /\ attaching'.wrote = "proc"
  BY <1>1, <1>2
<1>4. attaching' # NULL
  BY <1>3, DeviceAssumption
<1>5. \A j \in Slots : j # i => Node(j)' = Node(j)
  BY <1>1, <1>2 DEF SlotInv, SlotTypes
<1>6. \A j \in Slots : Normal(j)' <=> Normal(j)
  BY <1>2
<1>7. SlotTypes'
  BY <1>1, <1>2, <1>3, ObserverFact DEF SlotInv, SlotTypes
<1>8. FirstNamed'
  <2> SUFFICES ASSUME NEW j \in Slots, NEW k \in Slots,
                      Normal(j)', k < j, Node(k)' = Node(j)'
               PROVE  k = i
    BY <1>3, <1>4 DEF FirstNamed
  <2>1. Normal(j) /\ j # i /\ Node(j)' = Node(j)
    BY <1>1, <1>5, <1>6
  <2>2. ASSUME k # i PROVE FALSE
    <3>1. Node(k) = Node(j)
      BY <2>1, <2>2, <1>5
    <3> QED
      BY <3>1, <2>1, <2>2, <1>0 DEF SlotInv, FirstNamed
  <2> QED
    BY <2>2
<1>9. AttachUnderWay'
  <2>1. Node(i)' = o /\ pObj'[i] = o[1] /\ ~Normal(i)'
    BY <1>1, <1>2, ObserverFact DEF SlotInv, SlotTypes
  <2>2. \A j \in Slots : j < i => Normal(j)'
    BY <1>1, <1>6
  <2>3. \A j \in Slots : Normal(j)' => Node(j)' # o
    BY <1>1, <1>5, <1>6
  <2> QED
    BY <2>1, <2>2, <2>3, <1>3 DEF AttachUnderWay
<1>10. Occupied' = Occupied
  BY <1>6 DEF Occupied
<1> QED
  BY <1>0, <1>1, <1>3, <1>4, <1>5, <1>6, <1>7, <1>8, <1>9, <1>10 DEF SlotInv

\* The slot that has been written becomes occupied, one more than before.
LEMMA AttachStatusSlots ==
  ASSUME SlotInv, Signal!AttachStatus
  PROVE  /\ SlotInv' /\ attaching # NULL /\ attaching' = NULL
         /\ attaching.obs \in Observers
         /\ Cardinality(Occupied') = Cardinality(Occupied) + 1
         /\ \A o \in Observers :
              (\E i \in Slots : Normal(i)' /\ Node(i)' = o)
                <=> (o = attaching.obs \/ \E i \in Slots : Normal(i) /\ Node(i) = o)
<1>0. PICK i, u : i = attaching.slot /\ u = attaching.obs
  OBVIOUS
<1>1. /\ attaching # NULL /\ i \in Slots /\ u \in Observers
      /\ ~Normal(i) /\ Node(i) = u
      /\ \A j \in Slots : j < i => Normal(j)
      /\ \A j \in Slots : Normal(j) => Node(j) # u
  BY <1>0 DEF Signal!AttachStatus, SlotInv, SlotTypes, AttachUnderWay
<1>2. /\ Status' = [Status EXCEPT ![i] = "NORMAL"]
      /\ attaching' = NULL /\ pObj' = pObj /\ pProc' = pProc
  BY <1>0 DEF Signal!AttachStatus
<1>3. \A j \in Slots : /\ Node(j)' = Node(j)
                       /\ Normal(j)' <=> (j = i \/ Normal(j))
  BY <1>1, <1>2 DEF SlotInv, SlotTypes
<1>4. SlotTypes' /\ AttachUnderWay'
  BY <1>1, <1>2 DEF SlotInv, SlotTypes, AttachUnderWay
<1>5. FirstNamed'
  <2> SUFFICES ASSUME NEW j \in Slots, NEW k \in Slots,
                      Normal(j)', k < j, Node(k)' = Node(j)'
               PROVE  FALSE
    BY DEF FirstNamed
  <2>1. Node(k) = Node(j)
    BY <1>3
  <2>2. CASE j = i
    BY <2>1, <2>2, <1>1
  <2>3. CASE j # i
    <3>1. Normal(j) /\ k = i
      BY <2>1, <2>3, <1>0, <1>3 DEF SlotInv, FirstNamed
    <3> QED
      BY <3>1, <2>1, <1>1
  <2> QED
    BY <2>2, <2>3
<1>6. i \notin Occupied /\ Occupied' = Occupied \cup {i}
  BY <1>1, <1>3 DEF Occupied
<1>7. Cardinality(Occupied \cup {i}) = Cardinality(Occupied) + 1
  BY <1>6, OccupiedFinite, FS_AddElement
<1>8. ASSUME NEW o \in Observers
      PROVE  (\E j \in Slots : Normal(j)' /\ Node(j)' = o)
               <=> (o = u \/ \E j \in Slots : Normal(j) /\ Node(j) = o)
  BY <1>1, <1>3
<1> QED
  BY <1>0, <1>1, <1>2, <1>4, <1>5, <1>6, <1>7, <1>8 DEF SlotInv

\* Detach empties the slot of its observer, although it does not ask whether
\* the slot it finds is occupied.
LEMMA DetachSlots ==
  ASSUME SlotInv, NEW o \in Observers, Signal!Detach(o),
         \E i \in Slots : Normal(i) /\ Node(i) = o
  PROVE  /\ SlotInv' /\ attaching = NULL /\ attaching' = NULL
         /\ Cardinality(Occupied') = Cardinality(Occupied) - 1
         /\ Cardinality(Occupied) # 0
         /\ \A u \in Observers :
              (\E i \in Slots : Normal(i)' /\ Node(i)' = u)
                <=> (u # o /\ \E i \in Slots : Normal(i) /\ Node(i) = u)
<1>1. PICK i \in Slots : Signal!FirstOf(i, o) /\ Status' = [Status EXCEPT ![i] = "EMPTY"]
  BY DEF Signal!Detach
<1>2. attaching = NULL /\ attaching' = NULL /\ pObj' = pObj /\ pProc' = pProc
  BY DEF Signal!Detach
<1>3. Node(i) = o /\ \A j \in Slots : j < i => Node(j) # o
  BY <1>1 DEF Signal!FirstOf, Signal!Node
<1>4. \A j, k \in Slots : Normal(j) /\ k < j => Node(k) # Node(j)
  BY <1>2 DEF SlotInv, FirstNamed
<1>5. Normal(i) /\ \A j \in Slots : Normal(j) /\ Node(j) = o => j = i
  <2>1. \A j \in Slots : Normal(j) /\ Node(j) = o => j = i
    BY <1>3, <1>4, SlotsFact
  <2> QED
    BY <2>1
<1>6. \A j \in Slots : /\ Node(j)' = Node(j)
                       /\ Normal(j)' <=> (j # i /\ Normal(j))
  BY <1>1, <1>2 DEF SlotInv, SlotTypes
<1>7. SlotTypes' /\ AttachUnderWay'
  BY <1>1, <1>2 DEF SlotInv, SlotTypes, AttachUnderWay
<1>8. FirstNamed'
  BY <1>4, <1>6 DEF FirstNamed
<1>9. i \in Occupied /\ Occupied' = Occupied \ {i}
  BY <1>5, <1>6 DEF Occupied
<1>10. Cardinality(Occupied \ {i}) = Cardinality(Occupied) - 1
  BY <1>9, OccupiedFinite, FS_RemoveElement
<1>11. Cardinality(Occupied) # 0
  BY <1>9, OccupiedFinite, FS_EmptySet
<1>12. ASSUME NEW u \in Observers
       PROVE  (\E j \in Slots : Normal(j)' /\ Node(j)' = u)
                <=> (u # o /\ \E j \in Slots : Normal(j) /\ Node(j) = u)
  BY <1>3, <1>5, <1>6
<1> QED
  BY <1>2, <1>7, <1>8, <1>9, <1>10, <1>11, <1>12 DEF SlotInv

-----------------------------------------------------------------------------
(* The count *)

\* Steps that leave the slots, the users and the place of the call's observer.
LEMMA QuietCount ==
  ASSUME CountInv, UNCHANGED <<pObj, pProc, Status, attaching, users, cobs>>,
         cpc' \in CallPCs, Joining' <=> Joining, cpc' = "attach" <=> cpc = "attach"
  PROVE  CountInv'
<1>1. SlotInv'
  BY DEF CountInv, SlotInv, SlotTypes, FirstNamed, AttachUnderWay
<1>2. CallTypes' /\ AttachCall'
  BY DEF CountInv, CallTypes, AttachCall, users
<1>3. Members'
  BY DEF CountInv, Members, users
<1>4. Occupied' = Occupied
  BY DEF Occupied
<1>5. Counted'
  BY <1>4 DEF CountInv, Counted, users
<1> QED
  BY <1>1, <1>2, <1>3, <1>5 DEF CountInv

\* Start ends with its observer counted.
LEMMA StartedCount ==
  ASSUME CountInv, Joining, Started, UNCHANGED <<pObj, pProc, Status, attaching>>
  PROVE  CountInv'
<1>1. /\ m_iUser' = m_iUser + 1 /\ started' = started \cup {cobs}
      /\ cpc' = "idle" /\ ~Joining' /\ cpc # "attach"
  BY DEF Started, Joining
<1>2. SlotInv'
  BY DEF CountInv, SlotInv, SlotTypes, FirstNamed, AttachUnderWay
<1>3. CallTypes' /\ AttachCall'
  BY <1>1 DEF CountInv, CallTypes, AttachCall, CallPCs
<1>4. Members'
  BY <1>1 DEF CountInv, Members
<1>5. Occupied' = Occupied
  BY DEF Occupied
<1>6. Counted'
  BY <1>1, <1>5 DEF CountInv, Counted
<1> QED
  BY <1>2, <1>3, <1>4, <1>6 DEF CountInv

LEMMA StartCount ==
  ASSUME CountInv, NEW o \in Observers, Start(o)
  PROVE  CountInv'
<1>1. /\ cpc = "idle" /\ o \notin started /\ Signal!AttachObj(o)
      /\ cpc' = "attach" /\ cobs' = o /\ UNCHANGED users
      /\ ~Joining /\ ~Joining'
  BY DEF Start, Joining
<1>2. /\ SlotInv' /\ attaching = NULL /\ attaching' # NULL /\ attaching'.obs = o
      /\ Occupied' = Occupied
      /\ \A i \in Slots : Normal(i)' <=> Normal(i)
      /\ \A i \in Slots : Normal(i) => Node(i)' = Node(i)
  BY <1>1, AttachObjSlots DEF CountInv
<1>3. CallTypes' /\ AttachCall'
  BY <1>1, <1>2 DEF CountInv, CallTypes, AttachCall, CallPCs, users
<1>4. Members'
  BY <1>1, <1>2 DEF CountInv, Members, users
<1>5. Counted'
  BY <1>1, <1>2 DEF CountInv, Counted, users
<1> QED
  BY <1>2, <1>3, <1>4, <1>5 DEF CountInv

LEMMA AttachOnCount ==
  ASSUME CountInv, AttachOn
  PROVE  CountInv'
<1>1. /\ cpc = "attach" /\ cobs' = cobs /\ UNCHANGED users /\ ~Joining
      /\ cpc' = IF attaching' = NULL THEN "users" ELSE "attach"
  BY DEF AttachOn, Joining
<1>2. cobs = attaching.obs /\ cobs \in Observers \ started
  BY <1>1 DEF CountInv, AttachCall
<1>3. CASE Signal!AttachProc
  <2>1. /\ SlotInv' /\ attaching' # NULL /\ attaching'.obs = attaching.obs
        /\ Occupied' = Occupied
        /\ \A i \in Slots : Normal(i)' <=> Normal(i)
        /\ \A i \in Slots : Normal(i) => Node(i)' = Node(i)
    BY <1>3, AttachProcSlots DEF CountInv
  <2>2. cpc' = "attach" /\ ~Joining'
    BY <1>1, <2>1 DEF Joining
  <2>3. CallTypes' /\ AttachCall'
    BY <1>1, <1>2, <2>1, <2>2 DEF CountInv, CallTypes, AttachCall, CallPCs, users
  <2>4. Members'
    BY <1>1, <2>1, <2>2 DEF CountInv, Members, users
  <2>5. Counted'
    BY <1>1, <2>1, <2>2 DEF CountInv, Counted, users
  <2> QED
    BY <2>1, <2>3, <2>4, <2>5 DEF CountInv
<1>4. CASE Signal!AttachStatus
  <2>1. /\ SlotInv' /\ attaching' = NULL
        /\ Cardinality(Occupied') = Cardinality(Occupied) + 1
        /\ \A o \in Observers :
             (\E i \in Slots : Normal(i)' /\ Node(i)' = o)
               <=> (o = cobs \/ \E i \in Slots : Normal(i) /\ Node(i) = o)
    BY <1>2, <1>4, AttachStatusSlots DEF CountInv
  <2>2. cpc' = "users" /\ Joining'
    BY <1>1, <2>1 DEF Joining
  <2>3. CallTypes' /\ AttachCall'
    BY <1>1, <1>2, <2>1, <2>2 DEF CountInv, CallTypes, AttachCall, CallPCs, users
  <2>4. Members'
    BY <1>1, <2>1, <2>2 DEF CountInv, Members, users
  <2>5. IsFiniteSet(Occupied')
    BY SlotsFact, FS_Subset DEF Occupied
  <2>6. Counted'
    BY <1>1, <2>1, <2>2, <2>5 DEF CountInv, CallTypes, Counted, users
  <2> QED
    BY <2>1, <2>3, <2>4, <2>6 DEF CountInv
<1> QED
  BY <1>3, <1>4 DEF AttachOn

\* Stop: an observer that was started has a slot, and a user has been counted.
LEMMA StopCount ==
  ASSUME CountInv, NEW o \in Observers, Stop(o)
  PROVE  CountInv' /\ m_iUser > 0 /\ m_iUser' = m_iUser - 1
<1>1. /\ cpc = "idle" /\ o \in started /\ Signal!Detach(o)
      /\ m_iUser' = IF m_iUser > 0 THEN m_iUser - 1 ELSE m_iUser
      /\ started' = started \ {o} /\ cobs' = cobs
      /\ cpc' = IF m_iUser' = 0 THEN "dcall" ELSE "idle"
  BY DEF Stop
<1>2. cpc' \in {"idle", "dcall"} /\ ~Joining /\ ~Joining'
  BY <1>1 DEF Joining
<1>3. \E i \in Slots : Normal(i) /\ Node(i) = o
  BY <1>1 DEF CountInv, Members
<1>4. /\ SlotInv' /\ attaching' = NULL
      /\ Cardinality(Occupied') = Cardinality(Occupied) - 1
      /\ Cardinality(Occupied) # 0
      /\ \A u \in Observers :
           (\E i \in Slots : Normal(i)' /\ Node(i)' = u)
             <=> (u # o /\ \E i \in Slots : Normal(i) /\ Node(i) = u)
  BY <1>1, <1>3, DetachSlots DEF CountInv
<1>5. m_iUser > 0 /\ m_iUser' = m_iUser - 1
  BY <1>1, <1>2, <1>4 DEF CountInv, Counted, CallTypes
<1>6. CallTypes' /\ AttachCall'
  BY <1>1, <1>2, <1>4, <1>5 DEF CountInv, CallTypes, AttachCall, CallPCs
<1>7. Members'
  BY <1>1, <1>2, <1>4 DEF CountInv, Members
<1>8. IsFiniteSet(Occupied')
  BY SlotsFact, FS_Subset DEF Occupied
<1>9. Counted'
  BY <1>2, <1>4, <1>5, <1>8 DEF CountInv, CallTypes, Counted
<1> QED
  BY <1>4, <1>5, <1>6, <1>7, <1>9 DEF CountInv

LEMMA CallStepCount ==
  ASSUME CountInv, CallStep
  PROVE  CountInv'
<1>1. CASE AttachOn
  BY <1>1, AttachOnCount
<1>2. CASE StartUser
  <2>1. cpc = "users" /\ UNCHANGED <<pObj, pProc, Status, attaching>>
    BY <1>2 DEF StartUser, signal
  <2>2. CASE cpc' = "cwait" /\ UNCHANGED <<cobs, users>>
    BY <2>1, <2>2, QuietCount DEF Joining, CallPCs
  <2>3. CASE Started
    BY <2>1, <2>3, StartedCount DEF Joining
  <2> QED
    BY <1>2, <2>2, <2>3 DEF StartUser
<1>3. CASE TakeCreator
  BY <1>3, QuietCount DEF TakeCreator, signal, Joining, CallPCs
<1>4. CASE Spawn
  BY <1>4, StartedCount DEF Spawn, signal, Joining
<1>5. CASE DestroyThread
  <2>1. cpc = "dcall" /\ cpc' \in {"dflag", "idle"}
    BY <1>5 DEF DestroyThread
  <2> QED
    BY <1>5, <2>1, QuietCount DEF DestroyThread, signal, Joining, CallPCs
<1>6. CASE DestroyFlag
  BY <1>6, QuietCount DEF DestroyFlag, signal, Joining, CallPCs
<1>7. CASE DestroySem
  BY <1>7, QuietCount DEF DestroySem, signal, Joining, CallPCs
<1> QED
  BY <1>1, <1>2, <1>3, <1>4, <1>5, <1>6, <1>7 DEF CallStep

LEMMA BodyStepCount ==
  ASSUME CountInv, BodyStep
  PROVE  CountInv'
<1>1. UNCHANGED <<pObj, pProc, Status, attaching, users, cpc, cobs>>
  BY DEF BodyStep, StartBody, CallSignal, Calling, LeaveLoop, CheckWait,
         PostDestroyer, PostCreator, signal, call, Signal!Emit,
         Signal!EmissionStep, Signal!TestSlot, Signal!ReadObj, Signal!CallBack,
         Signal!EndEmission, Signal!slots
<1>2. cpc' \in CallPCs /\ (Joining' <=> Joining)
  BY <1>1 DEF CountInv, CallTypes, Joining
<1> QED
  BY <1>1, <1>2, QuietCount

-----------------------------------------------------------------------------
(* The thread *)

LEMMA StartThread ==
  ASSUME ThreadInv, NEW o \in Observers, Start(o)
  PROVE  ThreadInv'
<1>1. /\ cpc = "idle" /\ cpc' = "attach" /\ epc' = epc
      /\ UNCHANGED <<m_iUser, loop, waitExit, cSem, desSem, bpc>>
  BY DEF Start, Signal!AttachObj, users, flags, sems
<1> QED
  BY <1>1 DEF ThreadInv, ThreadTypes, Flags, Ending

\* The last Stop finds m_bLoop set.
LEMMA StopThread ==
  ASSUME ThreadInv, CallTypes, NEW o \in Observers, Stop(o),
         m_iUser > 0, m_iUser' = m_iUser - 1
  PROVE  ThreadInv'
<1>1. /\ cpc = "idle" /\ epc' = epc
      /\ cpc' = IF m_iUser' = 0 THEN "dcall" ELSE "idle"
      /\ UNCHANGED <<loop, waitExit, cSem, desSem, bpc>>
  BY DEF Stop, Signal!Detach, flags, sems
<1>2. m_iUser \in Nat /\ (m_iUser' = 0 \/ m_iUser' > 0)
  BY DEF CallTypes
<1> QED
  BY <1>1, <1>2 DEF ThreadInv, ThreadTypes, Flags, Ending

LEMMA CallStepThread ==
  ASSUME ThreadInv, CallTypes, CallStep
  PROVE  ThreadInv'
<1> USE DEF ThreadInv, ThreadTypes, Flags, Ending
<1>1. CASE AttachOn
  <2>1. /\ cpc = "attach" /\ cpc' \in {"users", "attach"} /\ epc' = epc
        /\ UNCHANGED <<m_iUser, loop, waitExit, cSem, desSem, bpc>>
    BY <1>1 DEF AttachOn, Signal!AttachProc, Signal!AttachStatus,
                Signal!emission, users, flags, sems
  <2> QED
    BY <2>1
<1>2. CASE StartUser
  <2>1. /\ cpc = "users" /\ epc' = epc
        /\ UNCHANGED <<loop, waitExit, cSem, desSem, bpc>>
        /\ \/ m_iUser = 0 /\ cpc' = "cwait" /\ m_iUser' = m_iUser
           \/ m_iUser # 0 /\ cpc' = "idle" /\ m_iUser' = m_iUser + 1
    BY <1>2 DEF StartUser, Started, signal, users, flags, sems
  <2> QED
    BY <2>1 DEF CallTypes
<1>3. CASE TakeCreator
  <2>1. /\ cpc = "cwait" /\ cpc' = "spawn" /\ cSem > 0 /\ cSem' = cSem - 1
        /\ loop' = TRUE /\ epc' = epc
        /\ UNCHANGED <<m_iUser, waitExit, desSem, bpc>>
    BY <1>3 DEF TakeCreator, signal, users
  <2>2. cSem = 1 /\ cSem' = 0 /\ bpc = "none" /\ desSem = 0
    BY <2>1
  <2> QED
    BY <2>1, <2>2
<1>4. CASE Spawn
  <2>1. /\ cpc = "spawn" /\ cpc' = "idle" /\ bpc' \in {"new", "none"}
        /\ m_iUser' = m_iUser + 1 /\ epc' = epc
        /\ UNCHANGED <<loop, waitExit, cSem, desSem>>
    BY <1>4 DEF Spawn, Started, signal, flags, sems
  <2>2. loop /\ m_iUser' > 0 /\ desSem = 0 /\ cSem = 0 /\ epc = "idle"
    BY <2>1 DEF CallTypes
  <2> QED
    BY <2>1, <2>2 DEF BodyPCs
<1>5. CASE DestroyThread
  <2>1. /\ cpc = "dcall" /\ loop' = FALSE /\ epc' = epc
        /\ cpc' = IF loop THEN "dflag" ELSE "idle"
        /\ UNCHANGED <<m_iUser, waitExit, cSem, desSem, bpc>>
    BY <1>5 DEF DestroyThread, signal, users, sems
  <2>2. /\ cpc' = "dflag" /\ m_iUser' = 0 /\ ~loop' /\ desSem' = 0
        /\ bpc' \notin {"check", "despost"}
    BY <2>1
  <2>3. ThreadTypes'
    BY <2>1, <2>2
  <2>4. ~(m_iUser' > 0)
    BY <2>2
  <2>5. Flags'
    BY <2>1, <2>2, <2>4
  <2>6. Ending'
    BY <2>1, <2>2
  <2> QED
    BY <2>3, <2>5, <2>6
<1>6. CASE DestroyFlag
  <2>1. /\ cpc = "dflag" /\ cpc' = "dsem" /\ waitExit' = TRUE /\ epc' = epc
        /\ UNCHANGED <<m_iUser, loop, cSem, desSem, bpc>>
    BY <1>6 DEF DestroyFlag, signal, users, sems
  <2> QED
    BY <2>1
<1>7. CASE DestroySem
  <2>1. /\ cpc = "dsem" /\ cpc' = "idle" /\ desSem > 0 /\ desSem' = desSem - 1
        /\ epc' = epc
        /\ UNCHANGED <<m_iUser, loop, waitExit, cSem, bpc>>
    BY <1>7 DEF DestroySem, signal, users, flags
  <2>2. desSem = 1 /\ desSem' = 0 /\ bpc \in {"cpost", "none"}
    BY <2>1
  <2> QED
    BY <2>1, <2>2
<1> QED
  BY <1>1, <1>2, <1>3, <1>4, <1>5, <1>6, <1>7 DEF CallStep

LEMMA BodyStepThread ==
  ASSUME ThreadInv, BodyStep
  PROVE  ThreadInv'
<1> USE DEF ThreadInv, ThreadTypes, Flags, Ending, BodyPCs
<1>1. CASE StartBody
  <2>1. /\ bpc = "new" /\ bpc' = "loop" /\ epc' = epc
        /\ UNCHANGED <<cpc, m_iUser, loop, waitExit, cSem, desSem>>
    BY <1>1 DEF StartBody, signal, call, users, flags, sems
  <2> QED
    BY <2>1
<1>2. CASE CallSignal \/ Calling
  <2>1. /\ bpc = "loop"
        /\ UNCHANGED <<cpc, m_iUser, loop, waitExit, cSem, desSem, bpc>>
    BY <1>2 DEF CallSignal, Calling, call, users, flags, sems
  <2> QED
    BY <2>1
<1>3. CASE LeaveLoop
  <2>1. /\ bpc = "loop" /\ bpc' = "check" /\ ~loop /\ epc = "idle" /\ epc' = epc
        /\ UNCHANGED <<cpc, m_iUser, loop, waitExit, cSem, desSem>>
    BY <1>3 DEF LeaveLoop, signal, call, users, flags, sems
  <2> QED
    BY <2>1
<1>4. CASE CheckWait
  <2>1. /\ bpc = "check" /\ bpc' \in {"despost", "cpost"} /\ epc' = epc
        /\ UNCHANGED <<cpc, m_iUser, loop, waitExit, cSem, desSem>>
    BY <1>4 DEF CheckWait, signal, call, users, flags, sems
  <2> QED
    BY <2>1
<1>5. CASE PostDestroyer
  <2>1. /\ bpc = "despost" /\ bpc' = "cpost" /\ desSem' = desSem + 1 /\ epc' = epc
        /\ UNCHANGED <<cpc, m_iUser, loop, waitExit, cSem>>
    BY <1>5 DEF PostDestroyer, signal, call, users, flags
  <2>2. desSem = 0 /\ desSem' = 1
    BY <2>1
  <2> QED
    BY <2>1, <2>2
<1>6. CASE PostCreator
  <2>1. /\ bpc = "cpost" /\ bpc' = "none" /\ cSem' = cSem + 1 /\ epc' = epc
        /\ UNCHANGED <<cpc, m_iUser, loop, waitExit, desSem>>
    BY <1>6 DEF PostCreator, signal, call, users, flags
  <2>2. cSem = 0 /\ cSem' = 1 /\ cpc # "spawn"
    BY <2>1
  <2> QED
    BY <2>1, <2>2
<1> QED
  BY <1>1, <1>2, <1>3, <1>4, <1>5, <1>6 DEF BodyStep

-----------------------------------------------------------------------------
(* The invariant *)

LEMMA InitDevice == Init => DeviceInv
<1> SUFFICES ASSUME Init PROVE DeviceInv
  OBVIOUS
<1>1. /\ Status = [i \in Slots |-> "EMPTY"] /\ pObj = [i \in Slots |-> NULL]
      /\ pProc = [i \in Slots |-> NULL] /\ attaching = NULL /\ epc = "idle"
  BY DEF Init, Signal!Init
<1>2. Occupied = {}
  BY <1>1 DEF Occupied
<1>3. SlotInv
  BY <1>1 DEF SlotInv, SlotTypes, FirstNamed, AttachUnderWay
<1>4. CallTypes /\ AttachCall /\ Members
  BY <1>1 DEF Init, CallTypes, CallPCs, AttachCall, Joining, Members
<1>5. Counted
  BY <1>2, FS_EmptySet DEF Init, Counted, Joining
<1>6. ThreadInv
  <2>1. ThreadTypes
    BY DEF Init, ThreadTypes, BodyPCs
  <2>2. Flags
    BY DEF Init, Flags
  <2>3. Ending
    BY <1>1 DEF Init, Ending
  <2> QED
    BY <2>1, <2>2, <2>3 DEF ThreadInv
<1> QED
  BY <1>3, <1>4, <1>5, <1>6 DEF DeviceInv, CountInv

LEMMA NextDevice == DeviceInv /\ [Next]_vars => DeviceInv'
<1> SUFFICES ASSUME DeviceInv, [Next]_vars PROVE DeviceInv'
  OBVIOUS
<1> USE DEF DeviceInv
<1>1. CallTypes
  BY DEF CountInv
<1>2. CASE UNCHANGED vars
  <2>1. UNCHANGED <<pObj, pProc, Status, attaching, users, cobs, cpc, epc, m_iUser,
                    loop, waitExit, cSem, desSem, bpc>>
    BY <1>2 DEF vars, signal, call, users, flags, sems
  <2>2. CountInv'
    BY <1>1, <2>1, QuietCount DEF CallTypes, Joining
  <2>3. ThreadInv'
    BY <2>1 DEF ThreadInv, ThreadTypes, Flags, Ending
  <2> QED
    BY <2>2, <2>3
<1>3. ASSUME NEW o \in Observers, Start(o)
      PROVE  DeviceInv'
  BY <1>3, StartCount, StartThread
<1>4. ASSUME NEW o \in Observers, Stop(o)
      PROVE  DeviceInv'
  BY <1>1, <1>4, StopCount, StopThread
<1>5. CASE CallStep
  BY <1>1, <1>5, CallStepCount, CallStepThread
<1>6. CASE BodyStep
  BY <1>6, BodyStepCount, BodyStepThread
<1> QED
  BY <1>2, <1>3, <1>4, <1>5, <1>6 DEF Next

\* DeviceInv holds in every reachable state of the device: slots, count, call
\* and thread fit together at every step of Start, Stop, Attach, Detach, the
\* emission and ThreadBody.
THEOREM DeviceInvariance == Spec => []DeviceInv
BY InitDevice, NextDevice, PTL DEF Spec

\* When no Start or Stop is under way m_iUser is the number of occupied slots,
\* the observers attached are those that were started, and m_bLoop is set as
\* long as there is one (DevUsbStorageKey.cpp:49).
THEOREM UsersAreCounted == Spec => []UsersCounted
<1>1. DeviceInv => UsersCounted
  <2> SUFFICES ASSUME DeviceInv, cpc = "idle"
               PROVE  /\ m_iUser = Signal!calcSize
                      /\ \A o \in Observers : o \in started <=> Signal!IsAttached(o)
                      /\ m_iUser > 0 => loop
    BY DEF UsersCounted
  <2>1. Cardinality(Occupied) = m_iUser
    BY DEF DeviceInv, CountInv, Counted, Joining
  <2>2. Signal!calcSize = m_iUser
    BY <2>1 DEF Signal!calcSize, Signal!Normal, Occupied, Signal!Cardinality,
               Signal!IsFiniteSet, Cardinality, IsFiniteSet
  <2>3. \A o \in Observers : o \in started <=> Signal!IsAttached(o)
    BY DEF DeviceInv, CountInv, Members, Joining, Signal!IsAttached,
           Signal!Normal, Signal!Node
  <2> QED
    BY <2>2, <2>3 DEF DeviceInv, ThreadInv, Flags
<1> QED
  BY <1>1, DeviceInvariance, PTL

\* Once the Stop of the last user has returned no callback is running and none
\* will start before the next Start, though Detach may come while the thread
\* is between reading a slot and calling it.
THEOREM LastStopLeavesSilence == Spec => []LastStopSilences
<1>1. DeviceInv => LastStopSilences
  BY DEF DeviceInv, CountInv, CallTypes, ThreadInv, ThreadTypes, Flags, Ending,
         LastStopSilences
<1> QED
  BY <1>1, DeviceInvariance, PTL
=============================================================================
