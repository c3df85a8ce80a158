--------------------------- MODULE ObserverDevice ---------------------------
(***************************************************************************)
(* CDevUsbStorageKey of the tutorial Observer.signal: a thread that calls  *)
(* a signal in its loop, started with its first user and stopped with its  *)
(* last.  Start and Stop hold m_MutexSigBuffer from beginning to end, even *)
(* while DestroyThread(TRUE) waits for the thread; so at most one call is  *)
(* under way, and the mutex is free exactly when cpc is "idle".            *)
(*                                                                         *)
(* The signal is EZSignal's.  Of CEZThread there is what this object meets *)
(* (EZThread models the whole): it has no message queue, and its callbacks *)
(* only print, so the thread itself calls neither Start nor Stop.          *)
(***************************************************************************)
EXTENDS Integers

CONSTANTS
  Objs, Procs, MaxSlots, NULL  \* as in EZSignal

VARIABLES
  pObj, pProc, Status, attaching,          \* m_SigBuffer
  epc, ei, eObj, stayed, allowed, heard,   \* the thread in m_SigBuffer(...)
  m_iUser,
  cpc, cobs,     \* the call that holds m_MutexSigBuffer, and its observer
  loop,          \* m_bLoop
  waitExit,      \* m_bWaitThreadExit
  cSem, desSem,  \* m_cCEZSemaphore, m_desCEZSemaphore
  bpc,           \* where the thread stands
  started        \* observers whose Start returned TRUE and who have not stopped

\* Users call Start and Stop in pairs, as DevUsbStorageKey.cpp:123 asks them to.
Signal == INSTANCE EZSignal WITH MayRepeat <- FALSE
Observers == Objs \X Procs

\* NULL is none of the values it is told apart from.
ASSUME DeviceAssumption ==
  /\ MaxSlots \in Nat
  /\ NULL \notin Objs \cup Procs
  /\ NULL \notin [slot : Signal!Slots, obs : Observers, wrote : {"obj", "proc"}]

signal == <<pObj, pProc, Status, attaching, epc, ei, eObj, stayed, allowed, heard>>
call   == <<cpc, cobs>>
users  == <<m_iUser, started>>
flags  == <<loop, waitExit>>
sems   == <<cSem, desSem>>
vars   == <<signal, call, users, flags, sems, bpc>>

CallPCs == {"idle", "attach", "users", "cwait", "spawn", "dcall", "dflag", "dsem"}
BodyPCs == {"none", "new", "loop", "check", "despost", "cpost"}

Init ==
  /\ Signal!Init
  /\ m_iUser = 0 /\ started = {}
  /\ cpc = "idle" /\ cobs = NULL
  /\ loop = FALSE /\ waitExit = FALSE
  /\ cSem = 1 /\ desSem = 0
  /\ bpc = "none"

-----------------------------------------------------------------------------
(* Start(pObj, pProc); when Attach refuses it ends with nothing changed *)

Start(o) ==
  /\ cpc = "idle" /\ o \notin started
  /\ Signal!AttachObj(o)
  /\ cpc' = "attach" /\ cobs' = o
  /\ UNCHANGED <<users, flags, sems, bpc>>

AttachOn ==
  /\ cpc = "attach"
  /\ Signal!AttachProc \/ Signal!AttachStatus
  /\ cpc' = IF attaching' = NULL THEN "users" ELSE "attach"
  /\ UNCHANGED <<cobs, users, flags, sems, bpc>>

Started ==
  /\ m_iUser' = m_iUser + 1
  /\ started' = started \cup {cobs}
  /\ cpc' = "idle" /\ cobs' = NULL

\* if (m_iUser == 0)
StartUser ==
  /\ cpc = "users"
  /\ \/ m_iUser = 0 /\ cpc' = "cwait" /\ UNCHANGED <<cobs, users>>
     \/ m_iUser # 0 /\ Started
  /\ UNCHANGED <<signal, flags, sems, bpc>>

\* Mutation: m_bLoop stays as the last DestroyThread left it.
TakeCreatorOnly ==
  /\ cpc = "cwait" /\ cSem > 0
  /\ cSem' = cSem - 1 /\ cpc' = "spawn"
  /\ UNCHANGED <<signal, cobs, users, flags, desSem, bpc>>

\* CreateThread: m_cCEZSemaphore.Wait and m_bLoop = TRUE.
TakeCreator ==
  /\ cpc = "cwait" /\ cSem > 0
  /\ cSem' = cSem - 1 /\ loop' = TRUE /\ cpc' = "spawn"
  /\ UNCHANGED <<signal, cobs, users, waitExit, desSem, bpc>>

\* ThreadCreate, which may fail; Start does not look at the result.
Spawn ==
  /\ cpc = "spawn"
  /\ \E made \in {"new", "none"} : bpc' = made
  /\ Started
  /\ UNCHANGED <<signal, flags, sems>>

-----------------------------------------------------------------------------
(* Stop(pObj, pProc) *)

\* Mutation: the count is left alone when others remain attached.
StopUncounted(o) ==
  /\ cpc = "idle" /\ o \in started
  /\ Signal!Detach(o)
  /\ m_iUser' = IF Signal!calcSize' = 0 THEN 0 ELSE m_iUser
  /\ started' = started \ {o}
  /\ cpc' = IF m_iUser' = 0 THEN "dcall" ELSE "idle"
  /\ UNCHANGED <<cobs, flags, sems, bpc>>

\* m_iUser--, and Detach, whose result only decides what Stop returns: an
\* observer that was started is still in a slot, so it does not fail.
Stop(o) ==
  /\ cpc = "idle" /\ o \in started
  /\ Signal!Detach(o)
  /\ m_iUser' = IF m_iUser > 0 THEN m_iUser - 1 ELSE m_iUser
  /\ started' = started \ {o}
  /\ cpc' = IF m_iUser' = 0 THEN "dcall" ELSE "idle"
  /\ UNCHANGED <<cobs, flags, sems, bpc>>

\* DestroyThread(TRUE): if (!IsStoped()) m_bLoop = FALSE; no queue takes XM_QUIT.
DestroyThread ==
  /\ cpc = "dcall"
  /\ loop' = FALSE
  /\ cpc' = IF loop THEN "dflag" ELSE "idle"
  /\ UNCHANGED <<signal, cobs, users, waitExit, sems, bpc>>

DestroyFlag ==
  /\ cpc = "dflag"
  /\ waitExit' = TRUE
  /\ cpc' = "dsem"
  /\ UNCHANGED <<signal, cobs, users, loop, sems, bpc>>

\* Mutation: Stop does not wait for the thread.
DestroyAtOnce ==
  /\ cpc = "dsem"
  /\ cpc' = "idle"
  /\ UNCHANGED <<signal, cobs, users, flags, sems, bpc>>

DestroySem ==
  /\ cpc = "dsem" /\ desSem > 0
  /\ desSem' = desSem - 1
  /\ cpc' = "idle"
  /\ UNCHANGED <<signal, cobs, users, flags, cSem, bpc>>

-----------------------------------------------------------------------------
(* ThreadBody and ThreadProc *)

StartBody ==
  /\ bpc = "new"
  /\ bpc' = "loop"
  /\ UNCHANGED <<signal, call, users, flags, sems>>

\* Mutation: the loop does not look at m_bLoop.
CallAlways ==
  /\ bpc = "loop"
  /\ Signal!Emit
  /\ UNCHANGED <<call, users, flags, sems, bpc>>

\* A round of while (m_bLoop): m_SigBuffer(...).
CallSignal ==
  /\ bpc = "loop" /\ loop
  /\ Signal!Emit
  /\ UNCHANGED <<call, users, flags, sems, bpc>>

Calling ==
  /\ bpc = "loop"
  /\ Signal!EmissionStep
  /\ UNCHANGED <<call, users, flags, sems, bpc>>

LeaveLoop ==
  /\ bpc = "loop" /\ epc = "idle" /\ ~loop
  /\ bpc' = "check"
  /\ UNCHANGED <<signal, call, users, flags, sems>>

CheckWait ==
  /\ bpc = "check"
  /\ bpc' = IF waitExit THEN "despost" ELSE "cpost"
  /\ UNCHANGED <<signal, call, users, flags, sems>>

\* Mutation: the destroyer is not told.
PostNobody ==
  /\ bpc = "despost"
  /\ bpc' = "cpost"
  /\ UNCHANGED <<signal, call, users, flags, sems>>

PostDestroyer ==
  /\ bpc = "despost"
  /\ desSem' = desSem + 1 /\ bpc' = "cpost"
  /\ UNCHANGED <<signal, call, users, flags, cSem>>

PostCreator ==
  /\ bpc = "cpost"
  /\ cSem' = cSem + 1 /\ bpc' = "none"
  /\ UNCHANGED <<signal, call, users, flags, desSem>>

-----------------------------------------------------------------------------
BodyStep ==
  \/ StartBody \/ CallSignal \/ Calling \/ LeaveLoop
  \/ CheckWait \/ PostDestroyer \/ PostCreator

CallStep ==
  \/ AttachOn \/ StartUser \/ TakeCreator \/ Spawn
  \/ DestroyThread \/ DestroyFlag \/ DestroySem

Next == (\E o \in Observers : Start(o) \/ Stop(o)) \/ CallStep \/ BodyStep

Spec == Init /\ [][Next]_vars

\* The thread runs and a call that has the mutex goes on; nobody has to call.
FairSpec == Spec /\ WF_vars(BodyStep) /\ WF_vars(CallStep)

-----------------------------------------------------------------------------
(* Properties *)

\* Every variable holds a value of its kind.
TypeOK ==
  /\ Signal!TypeOK
  /\ m_iUser \in Nat /\ started \subseteq Observers
  /\ cpc \in CallPCs /\ cobs \in Observers \cup {NULL}
  /\ loop \in BOOLEAN /\ waitExit \in BOOLEAN
  /\ cSem \in {0, 1} /\ desSem \in {0, 1}
  /\ bpc \in BodyPCs

\* DevUsbStorageKey.cpp:49: m_iUser counts the users.  Each has exactly
\* one slot, whatever gaps those before it have left, and m_bLoop tells the
\* thread to run for as long as there are any.
UsersCounted ==
  cpc = "idle" =>
    /\ m_iUser = Signal!calcSize
    /\ \A o \in Observers : o \in started <=> Signal!IsAttached(o)
    /\ m_iUser > 0 => loop

\* When the Stop of the last user has returned, no callback is running and none
\* will start before the next Start: an observer that was the last to stop may
\* be destroyed, although the thread walks the signal without any lock.
LastStopSilences ==
  cpc = "idle" /\ m_iUser = 0 => bpc \notin {"new", "loop"} /\ epc = "idle"

\* A user that was started is called, or stops before that, through every
\* restart of the thread, unless the thread could not be created.
StartedIsCalled ==
  \A o \in Observers :
    (cpc = "idle" /\ o \in started /\ bpc # "none")
      ~> (o \in heard \/ o \notin started)

\* DevUsbStorageKey.cpp:122: the last Stop ends the thread.
LastStopEndsThread == (cpc = "dcall") ~> (bpc = "none")

\* A Stop that waits while the thread has still to look at m_bWaitThreadExit
\* returns, and the mutex that every other call needs is free again.
StopReturns ==
  (cpc = "dsem" /\ bpc \in {"new", "loop", "check"}) ~> (cpc = "idle")
=============================================================================
