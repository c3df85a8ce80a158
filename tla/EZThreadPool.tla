---------------------------- MODULE EZThreadPool ----------------------------
(***************************************************************************)
(* CEZThreadlet, CEZPooledThread and the free list of CEZThreadManager     *)
(* (EZThread.cpp): a threadlet's run borrows a thread from the pool, or    *)
(* adds one to it, and hands it a callback; the thread calls it, breaks    *)
(* the link with the threadlet and goes back to the free list.             *)
(*                                                                         *)
(* run, the destructor and the breaking of the link each happen under      *)
(* CEZThreadlet::m_mutex and block on nothing, so each is one action; the  *)
(* wait for work, the call and ReleasePooledThread (under the manager's    *)
(* m_CMutex) are steps of their own.  Who calls run does not matter: any   *)
(* thread may, a callback and the timer manager included.                  *)
(***************************************************************************)
EXTENDS Integers, Sequences, Functions

CONSTANTS
  Threadlets,    \* places a CEZThreadlet can be constructed at
  PooledThreads, \* CEZPooledThreads the program can make: a bound of the model
  Jobs,          \* obj, asynProc and param of a run
  NULL

ASSUME PoolAssumption ==
  NULL \notin Threadlets \cup PooledThreads \cup Jobs

VARIABLES
  alive,   \* the threadlets that are constructed
  thread,  \* CEZThreadlet::m_thread
  caller,  \* CEZPooledThread::m_caller (undefined, here NULL, before a run)
  job,     \* CEZPooledThread's m_obj, m_asynFunc and m_param
  sem,     \* CEZPooledThread::m_semaphore
  free,    \* the list from m_headPooled on
  pc       \* where each pooled thread stands

vars == <<alive, thread, caller, job, sem, free, pc>>

PCs == {"none",    \* not made yet
        "dead",    \* made, but CreateThread failed
        "wait",    \* before or in m_semaphore.Wait
        "call",    \* in the callback
        "unlink",  \* after it, before CEZThreadlet::m_mutex.Lock
        "release"} \* before ReleasePooledThread

Init ==
  /\ alive = {} /\ free = <<>>
  /\ thread = [t \in Threadlets |-> NULL]
  /\ caller = [p \in PooledThreads |-> NULL]
  /\ job = [p \in PooledThreads |-> NULL]
  /\ sem = [p \in PooledThreads |-> 0]
  /\ pc = [p \in PooledThreads |-> "none"]

-----------------------------------------------------------------------------
Construct(t) ==
  /\ t \notin alive
  /\ alive' = alive \cup {t}
  /\ thread' = [thread EXCEPT ![t] = NULL]
  /\ UNCHANGED <<caller, job, sem, free, pc>>

\* Mutation: the destructor leaves the thread's m_caller alone.
DestructUnnoticed(t) ==
  /\ t \in alive
  /\ alive' = alive \ {t}
  /\ UNCHANGED <<thread, caller, job, sem, free, pc>>

Destruct(t) ==
  /\ t \in alive
  /\ alive' = alive \ {t}
  /\ caller' = IF thread[t] = NULL THEN caller
               ELSE [caller EXCEPT ![thread[t]] = NULL]
  /\ UNCHANGED <<thread, job, sem, free, pc>>

\* Mutation: the head of the free list is used but stays on it.
PopPooledKeep(p) ==
  /\ free # <<>> /\ p = Head(free)
  /\ UNCHANGED <<free, pc>>

PopPooled(p) ==
  /\ free # <<>> /\ p = Head(free)
  /\ free' = Tail(free)
  /\ UNCHANGED pc

\* A new pooled thread, whose CreateThread may fail unnoticed.
NewPooled(p) ==
  /\ free = <<>> /\ pc[p] = "none"
  /\ \E made \in {"wait", "dead"} : pc' = [pc EXCEPT ![p] = made]
  /\ UNCHANGED free

GetPooledThread(p) == PopPooled(p) \/ NewPooled(p)

Idle(t) == t \in alive /\ thread[t] = NULL

\* CEZThreadlet::run; on a busy threadlet it returns FALSE and does nothing.
Run(t, p, j) ==
  /\ Idle(t)
  /\ GetPooledThread(p)
  /\ thread' = [thread EXCEPT ![t] = p]
  /\ caller' = [caller EXCEPT ![p] = t]
  /\ job' = [job EXCEPT ![p] = j]
  /\ sem' = [sem EXCEPT ![p] = @ + 1]
  /\ UNCHANGED alive

-----------------------------------------------------------------------------
(* CEZPooledThread::ThreadProc; nothing in the library ends its loop *)

Wait(p) ==
  /\ pc[p] = "wait" /\ sem[p] > 0
  /\ sem' = [sem EXCEPT ![p] = @ - 1]
  /\ pc' = [pc EXCEPT ![p] = "call"]
  /\ UNCHANGED <<alive, thread, caller, job, free>>

\* The callback returns.
Called(p) ==
  /\ pc[p] = "call"
  /\ pc' = [pc EXCEPT ![p] = "unlink"]
  /\ UNCHANGED <<alive, thread, caller, job, sem, free>>

\* Mutation: the threadlet is never told.
UnlinkSilently(p) ==
  /\ pc[p] = "unlink"
  /\ pc' = [pc EXCEPT ![p] = "release"]
  /\ caller' = [caller EXCEPT ![p] = NULL]
  /\ UNCHANGED <<alive, thread, job, sem, free>>

Unlink(p) ==
  /\ pc[p] = "unlink"
  /\ pc' = [pc EXCEPT ![p] = "release"]
  /\ thread' = IF caller[p] = NULL THEN thread
               ELSE [thread EXCEPT ![caller[p]] = NULL]
  /\ caller' = [caller EXCEPT ![p] = NULL]
  /\ UNCHANGED <<alive, job, sem, free>>

ReleasePooledThread(p) ==
  /\ pc[p] = "release"
  /\ free' = <<p>> \o free
  /\ pc' = [pc EXCEPT ![p] = "wait"]
  /\ UNCHANGED <<alive, thread, caller, job, sem>>

ThreadStep(p) == Wait(p) \/ Called(p) \/ Unlink(p) \/ ReleasePooledThread(p)

Next ==
  \/ \E t \in Threadlets :
        \/ Construct(t) \/ Destruct(t)
        \/ \E p \in PooledThreads, j \in Jobs : Run(t, p, j)
  \/ \E p \in PooledThreads : ThreadStep(p)

Spec == Init /\ [][Next]_vars

\* Pooled threads are scheduled and callbacks return; nobody has to call run.
FairSpec == Spec /\ \A p \in PooledThreads : WF_vars(ThreadStep(p))

-----------------------------------------------------------------------------
(* Properties *)

\* Every variable holds a value of its kind.
TypeOK ==
  /\ alive \subseteq Threadlets
  /\ thread \in [Threadlets -> PooledThreads \cup {NULL}]
  /\ caller \in [PooledThreads -> Threadlets \cup {NULL}]
  /\ job \in [PooledThreads -> Jobs \cup {NULL}]
  /\ sem \in [PooledThreads -> Nat]
  /\ free \in Seq(PooledThreads)
  /\ pc \in [PooledThreads -> PCs]

\* EZThread.h:115, "keeps the association of Threadlet and PooledThread": the
\* two ends of the link agree, so a pooled thread never writes through
\* m_caller to a threadlet that was destroyed or has moved on to another
\* thread, and a threadlet that says it is running has a thread that is.
LinkExact ==
  /\ \A p \in PooledThreads :
       caller[p] # NULL => caller[p] \in alive /\ thread[caller[p]] = p
  /\ \A t \in alive : thread[t] # NULL => caller[thread[t]] = t

\* The threads with a job they have still to do or to finish.
Busy(p) == sem[p] > 0 \/ pc[p] \in {"call", "unlink"}

\* A pooled thread is on the free list exactly when it has nothing to do: no
\* thread is lent twice and none is lost.
FreeListExact ==
  /\ IsInjective(free)
  /\ \A p \in PooledThreads :
       /\ (\E i \in DOMAIN free : free[i] = p) <=> pc[p] = "wait" /\ sem[p] = 0
       /\ sem[p] <= 1
       /\ sem[p] = 1 => pc[p] \in {"wait", "dead"}
       /\ caller[p] # NULL => Busy(p)

\* The invariant of the pool.
PoolInv == TypeOK /\ LinkExact /\ FreeListExact

\* A thread's job is not replaced between the run that posts it and the end
\* of the callback, although nothing but the free list protects m_obj,
\* m_asynFunc and m_param.
JobKept == [][\A p \in PooledThreads : Busy(p) => job'[p] = job[p]]_vars

\* An accepted run is carried out, and when the callback is over the
\* threadlet can run again, unless the thread could not be created.
RunCarriedOut ==
  \A t \in Threadlets, p \in PooledThreads :
    (t \in alive /\ thread[t] = p /\ pc[p] # "dead")
      ~> (pc[p] = "release" /\ (t \in alive => thread[t] # p))
=============================================================================
