------------------------------ MODULE EZThread ------------------------------
(***************************************************************************)
(* The life of CEZThread objects (EZThread.cpp): clients call CreateThread *)
(* and DestroyThread, each successful creation gives the object a pthread  *)
(* that runs ThreadBody, and CEZThreadManager keeps the running objects in *)
(* a doubly linked list.                                                   *)
(*                                                                         *)
(* The flags m_bLoop, m_bWaitThreadExit and m_ID are written and read      *)
(* without a lock, so every access is a step of its own.  The list changes *)
(* under m_CMutex, so AddThread and RemoveThread are single steps.  The    *)
(* object's message queue is the bounded FIFO that EZMsgQue implements, of *)
(* which only the number of messages matters here: the loops of the        *)
(* repository's threads look at m_bLoop, never at the message.             *)
(***************************************************************************)
EXTENDS Integers, FiniteSets

CONSTANTS
  Objects,     \* CEZThread objects
  Consumers,   \* those whose ThreadProc is while(m_bLoop) RecvMessage(&msg, TRUE)
               \* (CConsumers in test/testThreadMsg.cpp); the others have no queue
               \* and loop on m_bLoop alone (CProducers)
  Clients,     \* threads that start and stop them
  Bodies,      \* pthreads ThreadCreate can make use of
  Ops,         \* what clients do: a subset of AllOps
  QueueSize,   \* nMsgQueSize of the consumers
  SemMax,      \* a semaphore's largest value: it ignores a post beyond that
               \* (1 on Win32; on POSIX a bound that keeps the model finite)
  NULL

AllOps == {"create",      \* CreateThread, on an object that has no handle yet
           "restart",     \* CreateThread, on one that has
           "fail",        \* ThreadCreate may fail
           "return",      \* a ThreadProc may return although m_bLoop is TRUE
           "self",        \* a ThreadProc may call DestroyThread on itself
           "destroy",     \* DestroyThread(FALSE)
           "destroywait", \* DestroyThread(TRUE)
           "stop",        \* Stop() of test/testThreadMsg.cpp:151-159
           "data",        \* SendMessage to a consumer
           "quitmsg"}     \* QuitMessage on a consumer

ASSUME ThreadAssumption ==
  /\ Consumers \subseteq Objects /\ Ops \subseteq AllOps
  /\ IsFiniteSet(Objects)
  /\ NULL \notin Objects \cup Bodies \cup Clients
  /\ Bodies \cap Clients = {}
  /\ QueueSize \in Nat \ {0} /\ SemMax \in Nat \ {0}

VARIABLES
  loop,        \* m_bLoop
  waitExit,    \* m_bWaitThreadExit
  hThread,     \* m_hThread # NULL
  id,          \* m_ID: the body that stored its thread id last
  cSem,        \* m_cCEZSemaphore
  desSem,      \* m_desCEZSemaphore
  msgs,        \* messages in the object's queue
  flg,         \* the queue's m_bMsgFlg
  head,        \* the manager's m_pHead
  pPrev,       \* m_pPrev (undefined, here NULL, until AddThread)
  pNext,       \* m_pNext
  bpc,         \* where each body stands
  bobj,        \* pdat: the object a body runs
  cpc,         \* where each client stands
  cobj,        \* the object of the client's call
  cwait        \* bWaited of the client's DestroyThread

flags    == <<loop, waitExit, hThread, id>>
sems     == <<cSem, desSem>>
mailbox  == <<msgs, flg>>
registry == <<head, pPrev, pNext>>
body     == <<bpc, bobj>>
client   == <<cpc, cobj, cwait>>
vars     == <<flags, sems, mailbox, registry, body, client>>

BodyPCs == {"free", "new", "add", "loop", "recv", "sset", "ssend", "sask",
            "selfwait", "clear", "check", "despost", "cpost", "remove"}
ClientPCs == {"idle", "cwait", "spawn", "dcall", "dset", "dsend", "dflag",
              "dread", "dsem"}

Init ==
  /\ loop = [o \in Objects |-> FALSE] /\ waitExit = [o \in Objects |-> FALSE]
  /\ hThread = [o \in Objects |-> FALSE] /\ id = [o \in Objects |-> NULL]
  /\ cSem = [o \in Objects |-> 1] /\ desSem = [o \in Objects |-> 0]
  /\ msgs = [o \in Objects |-> 0] /\ flg = [o \in Objects |-> TRUE]
  /\ head = NULL
  /\ pPrev = [o \in Objects |-> NULL] /\ pNext = [o \in Objects |-> NULL]
  /\ bpc = [b \in Bodies |-> "free"] /\ bobj = [b \in Bodies |-> NULL]
  /\ cpc = [c \in Clients |-> "idle"] /\ cobj = [c \in Clients |-> NULL]
  /\ cwait = [c \in Clients |-> FALSE]

-----------------------------------------------------------------------------
(* Semaphores and messages *)

\* CEZSemaphore::Post on o's semaphore.
Posted(s, o) == [s EXCEPT ![o] = IF @ < SemMax THEN @ + 1 ELSE @]

CanSend(o) == o \in Consumers /\ flg[o] /\ msgs[o] < QueueSize

\* CEZThread::SendMessage, the refusals included.
SendMessage(o) ==
  msgs' = IF CanSend(o) THEN [msgs EXCEPT ![o] = @ + 1] ELSE msgs

-----------------------------------------------------------------------------
(* CEZThreadManager's list *)

AddThread(o) ==
  /\ pPrev' = [p \in Objects |-> IF p = head THEN o
                                 ELSE IF p = o THEN NULL ELSE pPrev[p]]
  /\ pNext' = [pNext EXCEPT ![o] = head]
  /\ head' = o

UnlinkHead(o) ==
  /\ head' = pNext[o]
  /\ pPrev' = [p \in Objects |-> IF p = pNext[o] THEN NULL ELSE pPrev[p]]
  /\ UNCHANGED pNext

\* Mutation: the successor keeps its m_pPrev.
UnlinkOneWay(o) ==
  /\ pNext' = [pNext EXCEPT ![pPrev[o]] = pNext[o]]
  /\ UNCHANGED <<head, pPrev>>

UnlinkInner(o) ==
  /\ pNext' = [pNext EXCEPT ![pPrev[o]] = pNext[o]]
  /\ pPrev' = [p \in Objects |-> IF p = pNext'[o] THEN pPrev[o] ELSE pPrev[p]]
  /\ UNCHANGED head

RemoveThread(o) == IF pPrev[o] = NULL THEN UnlinkHead(o) ELSE UnlinkInner(o)

\* The n-th node a walk from m_pHead meets (DumpThreads, HasThread), or NULL.
Walk[n \in Nat] == IF n = 0 THEN head
                   ELSE IF Walk[n - 1] = NULL THEN NULL ELSE pNext[Walk[n - 1]]

Listed == {Walk[n] : n \in 0 .. Cardinality(Objects)} \ {NULL}
HasThread(o) == o \in Listed
WalkEnds == Walk[Cardinality(Objects)] = NULL

-----------------------------------------------------------------------------
(* ThreadBody *)

BodyAt(b, label) == bpc[b] = label
BodyGoes(b, label) == bpc' = [bpc EXCEPT ![b] = label]

\* Mutation: m_ID is left as the previous thread had it.
StoreNoID(b) ==
  /\ BodyAt(b, "new")
  /\ BodyGoes(b, "add")
  /\ UNCHANGED <<flags, sems, mailbox, registry, bobj, client>>

StoreID(b) ==
  /\ BodyAt(b, "new")
  /\ id' = [id EXCEPT ![bobj[b]] = b]
  /\ BodyGoes(b, "add")
  /\ UNCHANGED <<loop, waitExit, hThread, sems, mailbox, registry, bobj, client>>

Register(b) ==
  /\ BodyAt(b, "add")
  /\ AddThread(bobj[b])
  /\ BodyGoes(b, "loop")
  /\ UNCHANGED <<flags, sems, mailbox, bobj, client>>

\* The head of ThreadProc's while(m_bLoop); a worker's round changes nothing.
LoopTop(b) ==
  /\ BodyAt(b, "loop")
  /\ \/ ~loop[bobj[b]] /\ BodyGoes(b, "clear")
     \/ loop[bobj[b]] /\ bobj[b] \in Consumers /\ BodyGoes(b, "recv")
  /\ UNCHANGED <<flags, sems, mailbox, registry, bobj, client>>

\* A ThreadProc that is done although nobody told it to stop.
ProcReturns(b) ==
  /\ BodyAt(b, "loop") /\ "return" \in Ops
  /\ BodyGoes(b, "clear")
  /\ UNCHANGED <<flags, sems, mailbox, registry, bobj, client>>

Recv(b) ==
  /\ BodyAt(b, "recv") /\ msgs[bobj[b]] > 0
  /\ msgs' = [msgs EXCEPT ![bobj[b]] = @ - 1]
  /\ BodyGoes(b, "loop")
  /\ UNCHANGED <<flags, sems, flg, registry, bobj, client>>

\* DestroyThread from the object's own ThreadProc, which a client's may meet at
\* every step: if (!IsStoped())
SelfDestroy(b) ==
  /\ BodyAt(b, "loop") /\ "self" \in Ops /\ loop[bobj[b]]
  /\ BodyGoes(b, "sset")
  /\ UNCHANGED <<flags, sems, mailbox, registry, bobj, client>>

SelfSet(b) ==
  /\ BodyAt(b, "sset")
  /\ loop' = [loop EXCEPT ![bobj[b]] = FALSE]
  /\ BodyGoes(b, "ssend")
  /\ UNCHANGED <<waitExit, hThread, id, sems, mailbox, registry, bobj, client>>

SelfSend(b) ==
  /\ BodyAt(b, "ssend")
  /\ SendMessage(bobj[b])
  /\ BodyGoes(b, "sask")
  /\ UNCHANGED <<flags, sems, flg, registry, bobj, client>>

\* if (m_ID != ThreadGetID()): a thread that did not know itself would set the
\* flag to its argument w and wait for its own end (BodyKnowsItself: it never
\* does, so these accesses are not taken apart).
SelfAsk(b, w) ==
  LET known == id[bobj[b]] = b IN
  /\ BodyAt(b, "sask")
  /\ waitExit' = IF known THEN waitExit ELSE [waitExit EXCEPT ![bobj[b]] = w]
  /\ BodyGoes(b, IF ~known /\ w THEN "selfwait" ELSE "loop")
  /\ UNCHANGED <<loop, hThread, id, sems, mailbox, registry, bobj, client>>

ClearMessage(b) ==
  /\ BodyAt(b, "clear")
  /\ msgs' = [msgs EXCEPT ![bobj[b]] = 0]
  /\ BodyGoes(b, "check")
  /\ UNCHANGED <<flags, sems, flg, registry, bobj, client>>

\* Mutation: the body never posts the destroyer.
CheckNoWait(b) ==
  /\ BodyAt(b, "check")
  /\ BodyGoes(b, "cpost")
  /\ UNCHANGED <<flags, sems, mailbox, registry, bobj, client>>

CheckWait(b) ==
  /\ BodyAt(b, "check")
  /\ BodyGoes(b, IF waitExit[bobj[b]] THEN "despost" ELSE "cpost")
  /\ UNCHANGED <<flags, sems, mailbox, registry, bobj, client>>

PostDestroyer(b) ==
  /\ BodyAt(b, "despost")
  /\ desSem' = Posted(desSem, bobj[b])
  /\ BodyGoes(b, "cpost")
  /\ UNCHANGED <<flags, cSem, mailbox, registry, bobj, client>>

\* Mutation: the creation semaphore is never given back.
PostNoCreator(b) ==
  /\ BodyAt(b, "cpost")
  /\ BodyGoes(b, "remove")
  /\ UNCHANGED <<flags, sems, mailbox, registry, bobj, client>>

PostCreator(b) ==
  /\ BodyAt(b, "cpost")
  /\ cSem' = Posted(cSem, bobj[b])
  /\ BodyGoes(b, "remove")
  /\ UNCHANGED <<flags, desSem, mailbox, registry, bobj, client>>

\* RemoveThread, and ThreadExit: the pthread is gone and may be reused.
Leave(b) ==
  /\ BodyAt(b, "remove")
  /\ RemoveThread(bobj[b])
  /\ BodyGoes(b, "free")
  /\ bobj' = [bobj EXCEPT ![b] = NULL]
  /\ UNCHANGED <<flags, sems, mailbox, client>>

-----------------------------------------------------------------------------
(* CreateThread *)

ClientAt(c, label) == cpc[c] = label
ClientGoes(c, label) == cpc' = [cpc EXCEPT ![c] = label]

Call(c, o, label) ==
  /\ ClientAt(c, "idle")
  /\ ClientGoes(c, label)
  /\ cobj' = [cobj EXCEPT ![c] = o]

Return(c) ==
  /\ ClientGoes(c, "idle")
  /\ cobj' = [cobj EXCEPT ![c] = NULL]
  /\ cwait' = [cwait EXCEPT ![c] = FALSE]

CreateThread(c, o) ==
  /\ IF hThread[o] THEN "restart" \in Ops ELSE "create" \in Ops
  /\ Call(c, o, "cwait")
  /\ UNCHANGED <<flags, sems, mailbox, registry, body, cwait>>

\* Mutation: CreateThread does not wait for the creation semaphore.
CreateAtOnce(c) ==
  /\ ClientAt(c, "cwait")
  /\ loop' = [loop EXCEPT ![cobj[c]] = TRUE]
  /\ ClientGoes(c, "spawn")
  /\ UNCHANGED <<waitExit, hThread, id, sems, mailbox, registry, body,
                 cobj, cwait>>

TakeCreator(c) ==
  /\ ClientAt(c, "cwait") /\ cSem[cobj[c]] > 0
  /\ cSem' = [cSem EXCEPT ![cobj[c]] = @ - 1]
  /\ loop' = [loop EXCEPT ![cobj[c]] = TRUE]
  /\ ClientGoes(c, "spawn")
  /\ UNCHANGED <<waitExit, hThread, id, desSem, mailbox, registry, body,
                 cobj, cwait>>

\* ThreadCreate: pthread_create fails and nothing else happens; or it works
\* and the body runs (whatever is returned when pthread_detach fails).
Spawn(c) ==
  /\ ClientAt(c, "spawn")
  /\ \/ "fail" \in Ops /\ UNCHANGED <<hThread, body>>
     \/ \E b \in Bodies :
          /\ BodyAt(b, "free")
          /\ hThread' = [hThread EXCEPT ![cobj[c]] = TRUE]
          /\ BodyGoes(b, "new")
          /\ bobj' = [bobj EXCEPT ![b] = cobj[c]]
  /\ Return(c)
  /\ UNCHANGED <<loop, waitExit, id, sems, mailbox, registry>>

-----------------------------------------------------------------------------
(* DestroyThread *)

DestroyThread(c, o, w) ==
  /\ (IF w THEN "destroywait" ELSE "destroy") \in Ops
  /\ Call(c, o, "dcall")
  /\ cwait' = [cwait EXCEPT ![c] = w]
  /\ UNCHANGED <<flags, sems, mailbox, registry, body>>

\* Stop() of the test program: clears m_bLoop itself, then DestroyThread().
Stop(c, o) ==
  /\ "stop" \in Ops /\ loop[o]
  /\ Call(c, o, "dcall")
  /\ loop' = [loop EXCEPT ![o] = FALSE]
  /\ UNCHANGED <<waitExit, hThread, id, sems, mailbox, registry, body, cwait>>

\* if (!IsStoped())
DestroyCheck(c) ==
  /\ ClientAt(c, "dcall")
  /\ \/ ~loop[cobj[c]] /\ Return(c)
     \/ loop[cobj[c]] /\ ClientGoes(c, "dset") /\ UNCHANGED <<cobj, cwait>>
  /\ UNCHANGED <<flags, sems, mailbox, registry, body>>

DestroySet(c) ==
  /\ ClientAt(c, "dset")
  /\ loop' = [loop EXCEPT ![cobj[c]] = FALSE]
  /\ ClientGoes(c, "dsend")
  /\ UNCHANGED <<waitExit, hThread, id, sems, mailbox, registry, body, cobj, cwait>>

\* Mutation: DestroyThread sends no XM_QUIT.
DestroyWithoutQuit(c) ==
  /\ ClientAt(c, "dsend")
  /\ ClientGoes(c, "dflag")
  /\ UNCHANGED <<flags, sems, mailbox, registry, body, cobj, cwait>>

\* SendMessage(XM_QUIT), whose result is ignored.
DestroySend(c) ==
  /\ ClientAt(c, "dsend")
  /\ SendMessage(cobj[c])
  /\ ClientGoes(c, "dflag")
  /\ UNCHANGED <<flags, sems, flg, registry, body, cobj, cwait>>

\* m_bWaitThreadExit = bWaited: a client is never the body itself.
DestroyFlag(c) ==
  /\ ClientAt(c, "dflag")
  /\ waitExit' = [waitExit EXCEPT ![cobj[c]] = cwait[c]]
  /\ ClientGoes(c, "dread")
  /\ UNCHANGED <<loop, hThread, id, sems, mailbox, registry, body, cobj, cwait>>

\* if (m_bWaitThreadExit), which another destroyer may have changed.
DestroyRead(c) ==
  /\ ClientAt(c, "dread")
  /\ \/ ~waitExit[cobj[c]] /\ Return(c)
     \/ waitExit[cobj[c]] /\ ClientGoes(c, "dsem") /\ UNCHANGED <<cobj, cwait>>
  /\ UNCHANGED <<flags, sems, mailbox, registry, body>>

DestroySem(c) ==
  /\ ClientAt(c, "dsem") /\ desSem[cobj[c]] > 0
  /\ desSem' = [desSem EXCEPT ![cobj[c]] = @ - 1]
  /\ Return(c)
  /\ UNCHANGED <<flags, cSem, mailbox, registry, body>>

-----------------------------------------------------------------------------
(* Calls of any other thread: a producer sends at any time *)

SendData(o) ==
  /\ "data" \in Ops /\ o \in Consumers
  /\ SendMessage(o)
  /\ UNCHANGED <<flags, sems, flg, registry, body, client>>

QuitMessage(o) ==
  /\ "quitmsg" \in Ops /\ o \in Consumers
  /\ flg' = [flg EXCEPT ![o] = FALSE]
  /\ UNCHANGED <<flags, sems, msgs, registry, body, client>>

BodyStep(b) ==
  \/ StoreID(b) \/ Register(b) \/ LoopTop(b) \/ Recv(b)
  \/ SelfSet(b) \/ SelfSend(b) \/ \E w \in BOOLEAN : SelfAsk(b, w)
  \/ ClearMessage(b) \/ CheckWait(b) \/ PostDestroyer(b) \/ PostCreator(b)
  \/ Leave(b)

ClientStep(c) ==
  \/ TakeCreator(c) \/ Spawn(c)
  \/ DestroyCheck(c) \/ DestroySet(c) \/ DestroySend(c)
  \/ DestroyFlag(c) \/ DestroyRead(c) \/ DestroySem(c)

ClientCall(c) ==
  \E o \in Objects :
     \/ CreateThread(c, o)
     \/ \E w \in BOOLEAN : DestroyThread(c, o, w)
     \/ Stop(c, o)

BodyChoice(b) == ProcReturns(b) \/ SelfDestroy(b)

Next == \/ \E b \in Bodies : BodyStep(b) \/ BodyChoice(b)
        \/ \E c \in Clients : ClientStep(c) \/ ClientCall(c)
        \/ \E o \in Objects : SendData(o) \/ QuitMessage(o)

Spec == Init /\ [][Next]_vars

\* Bodies run, and a client inside a call is scheduled; nobody has to call.
Fairness == /\ \A b \in Bodies : WF_vars(BodyStep(b))
            /\ \A c \in Clients : WF_vars(ClientStep(c))

FairSpec == Spec /\ Fairness

-----------------------------------------------------------------------------
(* Properties *)

\* Every variable holds a value of its kind.
TypeOK ==
  /\ loop \in [Objects -> BOOLEAN] /\ waitExit \in [Objects -> BOOLEAN]
  /\ hThread \in [Objects -> BOOLEAN] /\ id \in [Objects -> Bodies \cup {NULL}]
  /\ cSem \in [Objects -> Nat] /\ desSem \in [Objects -> Nat]
  /\ msgs \in [Objects -> Nat] /\ flg \in [Objects -> BOOLEAN]
  /\ head \in Objects \cup {NULL}
  /\ pPrev \in [Objects -> Objects \cup {NULL}]
  /\ pNext \in [Objects -> Objects \cup {NULL}]
  /\ bpc \in [Bodies -> BodyPCs] /\ bobj \in [Bodies -> Objects \cup {NULL}]
  /\ cpc \in [Clients -> ClientPCs] /\ cobj \in [Clients -> Objects \cup {NULL}]
  /\ cwait \in [Clients -> BOOLEAN]

\* The bodies of o that have not given m_cCEZSemaphore back, and the clients
\* that hold it on the way to a new body.
Running(b) == bpc[b] \notin {"free", "remove"}
Runners(o) == {b \in Bodies : Running(b) /\ bobj[b] = o}
Creators(o) == {c \in Clients : cpc[c] = "spawn" /\ cobj[c] = o}

\* EZThread.h:76: m_cCEZSemaphore keeps one object from being given several
\* threads at a time.  It is never above 1, and whoever creates or runs o's
\* thread is alone with it, although creator and body hand the semaphore
\* from one thread to another and clients restart objects at any time.
OneThreadPerObject ==
  \A o \in Objects :
    /\ cSem[o] \in {0, 1}
    /\ cSem[o] = 1 => Runners(o) = {} /\ Creators(o) = {}
    /\ Runners(o) = {} \/ Creators(o) = {}
    /\ \A b1, b2 \in Runners(o) : b1 = b2
    /\ \A c1, c2 \in Creators(o) : c1 = c2

\* m_ID is the id of the thread that runs the object for as long as it runs,
\* so the comparison at EZThread.cpp:170 never takes a thread that destroys
\* itself for another one, whatever was restarted in between.
BodyKnowsItself ==
  \A b \in Bodies : Running(b) /\ bpc[b] # "new" => id[bobj[b]] = b

\* A thread has an object exactly while it runs it or is in a call on it.
Assigned ==
  /\ \A b \in Bodies : bobj[b] # NULL <=> bpc[b] # "free"
  /\ \A c \in Clients : cobj[c] # NULL <=> cpc[c] # "idle"

\* The inductive invariant behind OneThreadPerObject and BodyKnowsItself.
ThreadInv == TypeOK /\ Assigned /\ OneThreadPerObject /\ BodyKnowsItself

Registered == {bobj[b] : b \in {x \in Bodies :
                                   bpc[x] \notin {"free", "new", "add"}}}

\* While no object is started twice, a walk of the manager's list ends and
\* meets exactly the objects between their AddThread and RemoveThread, and
\* m_pPrev undoes m_pNext, whatever order the threads come and go in.
RegistryExact ==
  /\ WalkEnds
  /\ Listed = Registered
  /\ \A o \in Listed : /\ pPrev[o] = NULL <=> o = head
                       /\ pNext[o] # NULL => pPrev[pNext[o]] = o

\* Once m_bLoop is FALSE the thread leaves its loop and ends (EZThread.cpp:162
\* and :167): XM_QUIT, or a queue with messages in it, wakes a consumer.
StopEndsThread ==
  \A b \in Bodies :
    (bpc[b] \in {"loop", "recv", "ssend", "sask"} /\ ~loop[bobj[b]])
      ~> bpc[b] = "free"

\* A DestroyThread(TRUE) that waits on m_desCEZSemaphore is released, if it
\* set m_bWaitThreadExit before the body looked at it (EZThread.cpp:60); one
\* that comes later waits for good.
WaiterReleased ==
  \A c \in Clients, b \in Bodies :
    (/\ cpc[c] = "dsem" /\ bobj[b] = cobj[c]
     /\ bpc[b] \in {"new", "add", "loop", "recv", "sset", "ssend", "sask",
                    "clear", "check", "despost"})
      ~> cpc[c] = "idle"

\* CreateThread on an object that was told to stop waits for the old thread
\* and then returns.  After a creation that failed nobody has the semaphore
\* nor is it free, and every later CreateThread waits for good
\* (EZThread.cpp:151-155).
RestartReturns ==
  \A c \in Clients :
    (/\ cpc[c] = "cwait" /\ ~loop[cobj[c]]
     /\ Runners(cobj[c]) # {} \/ cSem[cobj[c]] > 0) ~> cpc[c] = "idle"

\* EZThread.cpp:50-51: the thread leaves the manager's list before it
\* releases its semaphore, so whoever that lets start a thread never adds an
\* object that is still listed.
AddedWhenUnlisted ==
  \A b \in Bodies : bpc[b] = "add" => ~HasThread(bobj[b])
=============================================================================
