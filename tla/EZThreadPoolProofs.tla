------------------------- MODULE EZThreadPoolProofs -------------------------
(***************************************************************************)
(* Proofs about EZThreadPool, for any threadlets, pooled threads and jobs: *)
(* links and free list stay exact, and no job is replaced before it is     *)
(* done.                                                                   *)
(***************************************************************************)
EXTENDS EZThreadPool, TLAPS

\* The threads on the free list.
OnList(p) == \E i \in DOMAIN free : free[i] = p

LEMMA InitPool == Init => PoolInv
BY DEF Init, PoolInv, TypeOK, LinkExact, FreeListExact, IsInjective, Busy, PCs

LEMMA ConstructPool ==
  ASSUME PoolInv, NEW t \in Threadlets, Construct(t)
  PROVE  PoolInv'
<1> USE DEF PoolInv
<1>1. TypeOK'
  BY DEF TypeOK, Construct
<1>2. LinkExact'
  BY PoolAssumption DEF LinkExact, Construct, TypeOK
<1>3. FreeListExact'
  BY DEF FreeListExact, Construct, IsInjective, Busy
<1> QED
  BY <1>1, <1>2, <1>3

LEMMA DestructPool ==
  ASSUME PoolInv, NEW t \in Threadlets, Destruct(t)
  PROVE  PoolInv'
<1> USE DEF PoolInv
<1>1. TypeOK'
  BY DEF TypeOK, Destruct
<1>2. LinkExact'
  BY PoolAssumption DEF LinkExact, Destruct, TypeOK
<1>3. FreeListExact'
  BY PoolAssumption DEF FreeListExact, Destruct, IsInjective, Busy, TypeOK
<1> QED
  BY <1>1, <1>2, <1>3

\* What is left of the free list when its head is lent.
LEMMA TailFact ==
  ASSUME TypeOK, IsInjective(free), free # <<>>
  PROVE  /\ Tail(free) \in Seq(PooledThreads) /\ IsInjective(Tail(free))
         /\ Head(free) \in PooledThreads
         /\ \A p \in PooledThreads :
              (\E i \in DOMAIN Tail(free) : Tail(free)[i] = p)
                <=> OnList(p) /\ p # Head(free)
         /\ OnList(Head(free))
<1> DEFINE rest == Tail(free)
<1>1. /\ Len(free) \in Nat \ {0} /\ DOMAIN free = 1 .. Len(free)
      /\ Head(free) = free[1] /\ Head(free) \in PooledThreads
  BY DEF TypeOK
<1>2. /\ rest \in Seq(PooledThreads) /\ DOMAIN rest = 1 .. Len(free) - 1
      /\ \A i \in 1 .. Len(free) - 1 : rest[i] = free[i + 1]
  BY DEF TypeOK
<1> HIDE DEF rest
<1>3. IsInjective(rest)
  <2> SUFFICES ASSUME NEW i \in DOMAIN rest, NEW j \in DOMAIN rest, rest[i] = rest[j]
               PROVE  i = j
    BY DEF IsInjective
  <2>1. i + 1 \in DOMAIN free /\ j + 1 \in DOMAIN free /\ free[i + 1] = free[j + 1]
    BY <1>1, <1>2
  <2> QED
    BY <1>2, <2>1 DEF IsInjective
<1>4. ASSUME NEW p \in PooledThreads
      PROVE  (\E i \in DOMAIN rest : rest[i] = p) <=> OnList(p) /\ p # Head(free)
  <2>1. ASSUME NEW i \in DOMAIN rest, rest[i] = p PROVE OnList(p) /\ p # Head(free)
    <3>1. i + 1 \in DOMAIN free /\ free[i + 1] = p /\ i + 1 # 1 /\ 1 \in DOMAIN free
      BY <1>1, <1>2, <2>1
    <3> QED
      BY <1>1, <3>1 DEF OnList, IsInjective
  <2>2. ASSUME NEW i \in DOMAIN free, free[i] = p, p # Head(free)
        PROVE  \E k \in DOMAIN rest : rest[k] = p
    <3>1. i - 1 \in DOMAIN rest /\ rest[i - 1] = p
      BY <1>1, <1>2, <2>2
    <3> QED
      BY <3>1
  <2> QED
    BY <2>1, <2>2 DEF OnList
<1>5. OnList(Head(free))
  BY <1>1 DEF OnList
<1> QED
  BY <1>1, <1>2, <1>3, <1>4, <1>5 DEF rest

\* The thread that run gets is not busy, so no threadlet is linked to it.
LEMMA LentFact ==
  ASSUME PoolInv, NEW p \in PooledThreads, GetPooledThread(p)
  PROVE  /\ sem[p] = 0 /\ ~Busy(p) /\ caller[p] = NULL /\ pc[p] \in {"wait", "none"}
         /\ free' \in Seq(PooledThreads) /\ IsInjective(free')
         /\ pc' \in [PooledThreads -> PCs] /\ pc'[p] \in {"wait", "dead"}
         /\ \A q \in PooledThreads : q # p => pc'[q] = pc[q]
         /\ \A q \in PooledThreads : OnList(q)' <=> OnList(q) /\ q # p
<1> USE DEF PoolInv
<1>1. CASE PopPooled(p)
  <2>1. free # <<>> /\ p = Head(free) /\ free' = Tail(free) /\ pc' = pc
    BY <1>1 DEF PopPooled
  <2>2. OnList(p) /\ IsInjective(free)
    BY <2>1, TailFact DEF FreeListExact
  <2>3. pc[p] = "wait" /\ sem[p] = 0
    BY <2>2 DEF FreeListExact, OnList
  <2> QED
    BY <2>1, <2>2, <2>3, TailFact DEF FreeListExact, Busy, TypeOK, OnList
<1>2. CASE NewPooled(p)
  <2>1. free = <<>> /\ free' = free /\ pc[p] = "none" /\ sem[p] = 0
    BY <1>2 DEF NewPooled, FreeListExact, TypeOK
  <2>2. pc' \in [PooledThreads -> PCs] /\ pc'[p] \in {"wait", "dead"}
        /\ \A q \in PooledThreads : q # p => pc'[q] = pc[q]
    BY <1>2 DEF NewPooled, TypeOK, PCs
  <2> QED
    BY <2>1, <2>2 DEF FreeListExact, Busy, TypeOK, OnList, IsInjective
<1> QED
  BY <1>1, <1>2 DEF GetPooledThread

LEMMA RunPool ==
  ASSUME PoolInv, NEW t \in Threadlets, NEW p \in PooledThreads, NEW j \in Jobs,
         Run(t, p, j)
  PROVE  PoolInv'
<1> USE DEF PoolInv
<1>1. t \in alive /\ thread[t] = NULL /\ alive' = alive
  BY DEF Run, Idle
<1>2. TypeOK'
  BY LentFact DEF TypeOK, Run
<1>3. LinkExact'
  BY <1>1, LentFact, PoolAssumption DEF LinkExact, Run, TypeOK
<1>4. FreeListExact'
  <2>1. sem' = [sem EXCEPT ![p] = 1]
    <3>1. sem[p] = 0 /\ sem' = [sem EXCEPT ![p] = @ + 1]
      BY LentFact DEF Run
    <3> QED
      BY <3>1
  <2>2. \A q \in PooledThreads :
          /\ OnList(q)' <=> pc'[q] = "wait" /\ sem'[q] = 0
          /\ sem'[q] <= 1
          /\ sem'[q] = 1 => pc'[q] \in {"wait", "dead"}
    BY <2>1, LentFact DEF FreeListExact, OnList, Run, TypeOK
  <2>3. \A q \in PooledThreads : caller'[q] # NULL => Busy(q)'
    BY <2>1, LentFact DEF FreeListExact, Busy, Run, TypeOK
  <2> QED
    BY <2>2, <2>3, LentFact DEF FreeListExact, OnList, Run
<1> QED
  BY <1>2, <1>3, <1>4

LEMMA WaitPool ==
  ASSUME PoolInv, NEW p \in PooledThreads, Wait(p)
  PROVE  PoolInv'
<1> USE DEF PoolInv
<1>1. TypeOK'
  BY DEF TypeOK, Wait, FreeListExact, PCs
<1>2. LinkExact'
  BY DEF LinkExact, Wait
<1>3. FreeListExact'
  BY DEF FreeListExact, Wait, IsInjective, Busy, TypeOK
<1> QED
  BY <1>1, <1>2, <1>3

LEMMA CalledPool ==
  ASSUME PoolInv, NEW p \in PooledThreads, Called(p)
  PROVE  PoolInv'
<1> USE DEF PoolInv
<1>1. TypeOK'
  BY DEF TypeOK, Called, PCs
<1>2. LinkExact'
  BY DEF LinkExact, Called
<1>3. FreeListExact'
  BY DEF FreeListExact, Called, IsInjective, Busy, TypeOK
<1> QED
  BY <1>1, <1>2, <1>3

LEMMA UnlinkPool ==
  ASSUME PoolInv, NEW p \in PooledThreads, Unlink(p)
  PROVE  PoolInv'
<1> USE DEF PoolInv
<1>1. TypeOK'
  BY DEF TypeOK, Unlink, PCs
<1>2. LinkExact'
  BY PoolAssumption DEF LinkExact, Unlink, TypeOK
<1>3. FreeListExact'
  BY DEF FreeListExact, Unlink, IsInjective, Busy, TypeOK
<1> QED
  BY <1>1, <1>2, <1>3

\* A thread goes back to the front of a list it is not on.
LEMMA ReleasePool ==
  ASSUME PoolInv, NEW p \in PooledThreads, ReleasePooledThread(p)
  PROVE  PoolInv'
<1> USE DEF PoolInv
<1>1. /\ pc[p] = "release" /\ free' = <<p>> \o free
      /\ pc' = [pc EXCEPT ![p] = "wait"]
      /\ sem[p] = 0 /\ caller[p] = NULL /\ ~OnList(p)
  <2>1. /\ pc[p] = "release" /\ free' = <<p>> \o free
        /\ pc' = [pc EXCEPT ![p] = "wait"]
    BY DEF ReleasePooledThread
  <2>2. sem[p] \in Nat /\ sem[p] <= 1 /\ sem[p] # 1
    BY <2>1 DEF FreeListExact, TypeOK
  <2>3. sem[p] = 0
    BY <2>2
  <2>4. ~Busy(p) /\ ~OnList(p)
    BY <2>1, <2>3 DEF FreeListExact, Busy, OnList
  <2>5. caller[p] = NULL
    BY <2>4 DEF FreeListExact
  <2> QED
    BY <2>1, <2>3, <2>4, <2>5
<1>2. /\ free' \in Seq(PooledThreads) /\ IsInjective(free')
      /\ \A q \in PooledThreads : OnList(q)' <=> OnList(q) \/ q = p
  <2>1. Len(free') = Len(free) + 1 /\ free' \in Seq(PooledThreads)
    BY <1>1 DEF TypeOK
  <2>2. \A i \in 1 .. Len(free) + 1 : free'[i] = IF i = 1 THEN p ELSE free[i - 1]
    BY <1>1 DEF TypeOK
  <2>3. DOMAIN free' = 1 .. Len(free) + 1 /\ DOMAIN free = 1 .. Len(free)
        /\ Len(free) \in Nat
    BY <2>1 DEF TypeOK
  <2>4. IsInjective(free')
    BY <1>1, <2>2, <2>3 DEF IsInjective, OnList, FreeListExact
  <2>5. \A q \in PooledThreads : OnList(q)' <=> OnList(q) \/ q = p
    <3> TAKE q \in PooledThreads
    <3>1. ASSUME OnList(q) PROVE OnList(q)'
      <4>1. PICK i \in DOMAIN free : free[i] = q
        BY <3>1 DEF OnList
      <4>2. i + 1 \in DOMAIN free' /\ free'[i + 1] = q
        BY <2>2, <2>3, <4>1
      <4> QED
        BY <4>2 DEF OnList
    <3>2. OnList(p)'
      BY <2>2, <2>3 DEF OnList
    <3>3. ASSUME OnList(q)' PROVE OnList(q) \/ q = p
      BY <2>2, <2>3, <3>3 DEF OnList
    <3> QED
      BY <3>1, <3>2, <3>3
  <2> QED
    BY <2>1, <2>4, <2>5
<1>3. TypeOK'
  BY <1>2 DEF TypeOK, ReleasePooledThread, PCs
<1>4. LinkExact'
  BY DEF LinkExact, ReleasePooledThread
<1>5. FreeListExact'
  <2>1. \A q \in PooledThreads : OnList(q)' <=> pc'[q] = "wait" /\ sem'[q] = 0
    BY <1>1, <1>2 DEF FreeListExact, OnList, ReleasePooledThread, TypeOK
  <2> QED
    BY <1>1, <1>2, <2>1 DEF FreeListExact, OnList, Busy, ReleasePooledThread, TypeOK
<1> QED
  BY <1>3, <1>4, <1>5

LEMMA NextPool == PoolInv /\ [Next]_vars => PoolInv'
<1> SUFFICES ASSUME PoolInv, [Next]_vars PROVE PoolInv'
  OBVIOUS
<1>1. CASE UNCHANGED vars
  BY <1>1 DEF vars, PoolInv, TypeOK, LinkExact, FreeListExact, IsInjective, Busy
<1>2. ASSUME NEW t \in Threadlets, Construct(t) \/ Destruct(t) PROVE PoolInv'
  BY <1>2, ConstructPool, DestructPool
<1>3. ASSUME NEW t \in Threadlets, NEW p \in PooledThreads, NEW j \in Jobs, Run(t, p, j)
      PROVE  PoolInv'
  BY <1>3, RunPool
<1>4. ASSUME NEW p \in PooledThreads, ThreadStep(p) PROVE PoolInv'
  BY <1>4, WaitPool, CalledPool, UnlinkPool, ReleasePool DEF ThreadStep
<1> QED
  BY <1>1, <1>2, <1>3, <1>4 DEF Next

\* EZThread.h:115: the two ends of the link between a threadlet and its thread
\* agree, and the free list holds the threads that have nothing to do, once each.
THEOREM PoolExact == Spec => []PoolInv
<1> QED
  BY InitPool, NextPool, PTL DEF Spec

\* Only run replaces a job, and only that of a thread that is not busy.
LEMMA NextJobKept ==
  ASSUME PoolInv, [Next]_vars
  PROVE  [\A p \in PooledThreads : Busy(p) => job'[p] = job[p]]_vars
<1>1. ASSUME NEW t \in Threadlets, NEW q \in PooledThreads, NEW j \in Jobs, Run(t, q, j),
             NEW p \in PooledThreads, Busy(p)
      PROVE  job'[p] = job[p]
  <2>1. ~Busy(q)
    BY <1>1, LentFact DEF Run
  <2>2. job' = [job EXCEPT ![q] = j] /\ p # q
    BY <1>1, <2>1 DEF Run
  <2> QED
    BY <2>2 DEF PoolInv, TypeOK
<1>2. ASSUME NEW t \in Threadlets, Construct(t) \/ Destruct(t) PROVE job' = job
  BY <1>2 DEF Construct, Destruct
<1>3. ASSUME NEW q \in PooledThreads, ThreadStep(q) PROVE job' = job
  BY <1>3 DEF ThreadStep, Wait, Called, Unlink, ReleasePooledThread
<1> QED
  BY <1>1, <1>2, <1>3 DEF Next

\* m_obj, m_asynFunc and m_param stay what run made them until the callback is over.
THEOREM NoJobReplaced == Spec => JobKept
<1> QED
  BY PoolExact, NextJobKept, PTL DEF Spec, JobKept
=============================================================================
