--------------------------- MODULE EZThreadProofs ---------------------------
(***************************************************************************)
(* Theorems about EZThread for any number of objects, clients and bodies:  *)
(* an object is never given two threads at a time, m_ID names the one it   *)
(* has, and the manager's list holds exactly the objects that are          *)
(* registered, as long as none is added while it is listed.                *)
(***************************************************************************)
EXTENDS EZThread, FiniteSetTheorems, WellFoundedInduction, TLAPS

LEMMA InitThreadInv == ASSUME Init PROVE ThreadInv
<1> USE DEF Init
<1>1. TypeOK
  BY ThreadAssumption DEF TypeOK, BodyPCs, ClientPCs
<1>2. Assigned
  BY DEF Assigned
<1>3. OneThreadPerObject
  BY DEF OneThreadPerObject, Runners, Creators, Running
<1>4. BodyKnowsItself
  BY DEF BodyKnowsItself, Running
<1> QED BY <1>1, <1>2, <1>3, <1>4 DEF ThreadInv

\* A body that has got past its first statement, and does not end, moves on.
LEMMA BodyMoves ==
  ASSUME ThreadInv, NEW b \in Bodies, NEW to \in BodyPCs \ {"free", "new", "remove"},
         bpc[b] \notin {"free", "new", "remove"}, BodyGoes(b, to),
         UNCHANGED <<id, cSem, bobj, cpc, cobj>>
  PROVE  Assigned' /\ OneThreadPerObject' /\ BodyKnowsItself'
<1>1. /\ bpc' = [bpc EXCEPT ![b] = to] /\ bpc \in [Bodies -> BodyPCs]
      /\ UNCHANGED <<id, cSem, bobj, cpc, cobj>>
  BY DEF ThreadInv, TypeOK, BodyGoes
<1>2. \A x \in Bodies : Running(x)' <=> Running(x)
  BY <1>1 DEF Running
<1>3. \A o \in Objects : Runners(o)' = Runners(o) /\ Creators(o)' = Creators(o)
  BY <1>1, <1>2 DEF Runners, Creators
<1>4. Assigned'
  BY <1>1 DEF ThreadInv, Assigned
<1>5. OneThreadPerObject'
  BY <1>1, <1>3 DEF ThreadInv, OneThreadPerObject
<1>6. BodyKnowsItself'
  BY <1>1, <1>2 DEF ThreadInv, BodyKnowsItself
<1> QED BY <1>4, <1>5, <1>6

\* A client that is not about to create a thread calls, moves on or returns.
LEMMA ClientMoves ==
  ASSUME ThreadInv, NEW c \in Clients, NEW to \in ClientPCs \ {"spawn"},
         NEW o \in Objects \cup {NULL}, o # NULL <=> to # "idle",
         cpc[c] # "spawn", ClientGoes(c, to),
         cobj' = [cobj EXCEPT ![c] = o],
         UNCHANGED <<id, cSem, bpc, bobj>>
  PROVE  Assigned' /\ OneThreadPerObject' /\ BodyKnowsItself'
<1>1. /\ cpc' = [cpc EXCEPT ![c] = to] /\ cpc \in [Clients -> ClientPCs]
      /\ cobj' = [cobj EXCEPT ![c] = o]
      /\ cobj \in [Clients -> Objects \cup {NULL}]
      /\ UNCHANGED <<id, cSem, bpc, bobj>>
  BY DEF ThreadInv, TypeOK, ClientGoes
<1>2. \A p \in Objects : Creators(p)' = Creators(p)
  BY <1>1 DEF Creators
<1>3. \A p \in Objects : Runners(p)' = Runners(p)
  BY <1>1 DEF Runners, Running
<1>4. Assigned'
  BY <1>1 DEF ThreadInv, Assigned
<1>5. OneThreadPerObject'
  BY <1>1, <1>2, <1>3 DEF ThreadInv, OneThreadPerObject
<1>6. BodyKnowsItself'
  BY <1>1 DEF ThreadInv, BodyKnowsItself, Running
<1> QED BY <1>4, <1>5, <1>6

\* A client's step inside a call, which keeps its object.
LEMMA ClientStays ==
  ASSUME ThreadInv, NEW c \in Clients, NEW to \in ClientPCs \ {"idle", "spawn"},
         cpc[c] \notin {"idle", "spawn"}, ClientGoes(c, to),
         UNCHANGED <<id, cSem, bpc, bobj, cobj>>
  PROVE  Assigned' /\ OneThreadPerObject' /\ BodyKnowsItself'
<1>1. cobj[c] \in Objects \cup {NULL} /\ cobj[c] # NULL
  BY DEF ThreadInv, TypeOK, Assigned
<1>2. cobj' = [cobj EXCEPT ![c] = cobj[c]]
  BY DEF ThreadInv, TypeOK
<1> QED BY <1>1, <1>2, ClientMoves

\* A client's return from a call that created no thread.
LEMMA ClientReturns ==
  ASSUME ThreadInv, NEW c \in Clients, cpc[c] # "spawn", Return(c),
         UNCHANGED <<id, cSem, bpc, bobj>>
  PROVE  Assigned' /\ OneThreadPerObject' /\ BodyKnowsItself'
BY ClientMoves DEF Return, ClientPCs

\* A step that moves no thread and touches neither m_ID nor the semaphore.
LEMMA NobodyMoves ==
  ASSUME ThreadInv, UNCHANGED <<id, cSem, bpc, bobj, cpc, cobj>>
  PROVE  Assigned' /\ OneThreadPerObject' /\ BodyKnowsItself'
BY DEF ThreadInv, Assigned, OneThreadPerObject, BodyKnowsItself, Runners,
       Creators, Running

-----------------------------------------------------------------------------
(* The steps that hand the creation semaphore over. *)

\* m_ID = ThreadGetID(): no other thread runs the object, so no other thread's
\* m_ID is overwritten.
LEMMA StoreIDPreserves ==
  ASSUME ThreadInv, NEW b \in Bodies, StoreID(b)
  PROVE  Assigned' /\ OneThreadPerObject' /\ BodyKnowsItself'
<1>1. /\ bpc' = [bpc EXCEPT ![b] = "add"] /\ bpc \in [Bodies -> BodyPCs]
      /\ bpc[b] = "new"
      /\ id' = [id EXCEPT ![bobj[b]] = b] /\ id \in [Objects -> Bodies \cup {NULL}]
      /\ bobj[b] \in Objects /\ bobj \in [Bodies -> Objects \cup {NULL}]
      /\ UNCHANGED <<cSem, bobj, cpc, cobj>>
  BY DEF ThreadInv, TypeOK, Assigned, StoreID, BodyGoes, BodyAt, sems, client
<1>2. \A x \in Bodies : Running(x)' <=> Running(x)
  BY <1>1 DEF Running
<1>3. \A o \in Objects : Runners(o)' = Runners(o) /\ Creators(o)' = Creators(o)
  BY <1>1, <1>2 DEF Runners, Creators
<1>4. Assigned'
  BY <1>1 DEF ThreadInv, Assigned
<1>5. OneThreadPerObject'
  BY <1>1, <1>3 DEF ThreadInv, OneThreadPerObject
<1>6. ASSUME NEW x \in Bodies, Running(x)', bpc'[x] # "new"
      PROVE  id'[bobj'[x]] = x
  <2>1. CASE x = b
    BY <1>1, <2>1
  <2>2. CASE x # b
    <3>1. Running(x) /\ bpc[x] # "new" /\ bobj[x] \in Objects
      BY <1>1, <1>2, <1>6, <2>2 DEF ThreadInv, TypeOK, Assigned, Running
    <3>2. bobj[x] # bobj[b]
      BY <1>1, <2>2, <3>1 DEF ThreadInv, OneThreadPerObject, Runners, Running
    <3> QED BY <1>1, <3>1, <3>2 DEF ThreadInv, BodyKnowsItself
  <2> QED BY <2>1, <2>2
<1>7. BodyKnowsItself'
  BY <1>6 DEF BodyKnowsItself
<1> QED BY <1>4, <1>5, <1>7

\* The body gives m_cCEZSemaphore back: it was the only one to run the object.
LEMMA PostCreatorPreserves ==
  ASSUME ThreadInv, NEW b \in Bodies, PostCreator(b)
  PROVE  Assigned' /\ OneThreadPerObject' /\ BodyKnowsItself'
<1> DEFINE o == bobj[b]
<1>1. /\ bpc' = [bpc EXCEPT ![b] = "remove"] /\ bpc \in [Bodies -> BodyPCs]
      /\ bpc[b] = "cpost" /\ o \in Objects
      /\ cSem \in [Objects -> Nat] /\ cSem' = Posted(cSem, o)
      /\ UNCHANGED <<id, bobj, cpc, cobj>>
  BY DEF ThreadInv, TypeOK, Assigned, PostCreator, BodyGoes, BodyAt, flags, client
<1>2. /\ b \in Runners(o) /\ \A x \in Runners(o) : x = b
      /\ Creators(o) = {} /\ cSem[o] = 0
  <2>1. b \in Runners(o)
    BY <1>1 DEF Runners, Running
  <2> QED BY <1>1, <2>1 DEF ThreadInv, OneThreadPerObject
<1>3. /\ cSem'[o] = 1
      /\ \A p \in Objects \ {o} : cSem'[p] = cSem[p]
  BY <1>1, <1>2, ThreadAssumption DEF Posted
<1>4. /\ \A p \in Objects : Creators(p)' = Creators(p)
      /\ Runners(o)' = {}
      /\ \A p \in Objects \ {o} : Runners(p)' = Runners(p)
  BY <1>1, <1>2 DEF Runners, Creators, Running
<1>5. Assigned'
  BY <1>1 DEF ThreadInv, Assigned
<1>6. OneThreadPerObject'
  <2> SUFFICES ASSUME NEW p \in Objects
               PROVE  /\ cSem'[p] \in {0, 1}
                      /\ cSem'[p] = 1 => Runners(p)' = {} /\ Creators(p)' = {}
                      /\ Runners(p)' = {} \/ Creators(p)' = {}
                      /\ \A b1, b2 \in Runners(p)' : b1 = b2
                      /\ \A c1, c2 \in Creators(p)' : c1 = c2
    BY DEF OneThreadPerObject
  <2>1. CASE p = o
    BY <1>1, <1>2, <1>3, <1>4, <2>1
  <2>2. CASE p # o
    BY <1>3, <1>4, <2>2 DEF ThreadInv, OneThreadPerObject
  <2> QED BY <2>1, <2>2
<1>7. BodyKnowsItself'
  BY <1>1 DEF ThreadInv, BodyKnowsItself, Running
<1> QED BY <1>5, <1>6, <1>7

\* A body that has given the semaphore back leaves the list and ends.
LEMMA LeavePreserves ==
  ASSUME ThreadInv, NEW b \in Bodies, Leave(b)
  PROVE  Assigned' /\ OneThreadPerObject' /\ BodyKnowsItself'
<1>1. /\ bpc' = [bpc EXCEPT ![b] = "free"] /\ bpc \in [Bodies -> BodyPCs]
      /\ bobj' = [bobj EXCEPT ![b] = NULL]
      /\ bobj \in [Bodies -> Objects \cup {NULL}]
      /\ bpc[b] = "remove"
      /\ UNCHANGED <<id, cSem, cpc, cobj>>
  BY DEF ThreadInv, TypeOK, Leave, BodyGoes, BodyAt, flags, sems, client
<1>2. \A p \in Objects : Runners(p)' = Runners(p) /\ Creators(p)' = Creators(p)
  BY <1>1 DEF Runners, Creators, Running
<1>3. Assigned'
  BY <1>1 DEF ThreadInv, Assigned
<1>4. OneThreadPerObject'
  BY <1>1, <1>2 DEF ThreadInv, OneThreadPerObject
<1>5. BodyKnowsItself'
  BY <1>1 DEF ThreadInv, BodyKnowsItself, Running
<1> QED BY <1>3, <1>4, <1>5

\* A client takes the creation semaphore: nobody else had it.
LEMMA TakeCreatorPreserves ==
  ASSUME ThreadInv, NEW c \in Clients, TakeCreator(c)
  PROVE  Assigned' /\ OneThreadPerObject' /\ BodyKnowsItself'
<1> DEFINE o == cobj[c]
<1>1. /\ cpc' = [cpc EXCEPT ![c] = "spawn"] /\ cpc \in [Clients -> ClientPCs]
      /\ cpc[c] = "cwait" /\ o \in Objects
      /\ cSem \in [Objects -> Nat] /\ cSem[o] > 0
      /\ cSem' = [cSem EXCEPT ![o] = @ - 1]
      /\ UNCHANGED <<id, bpc, bobj, cobj>>
  BY DEF ThreadInv, TypeOK, Assigned, TakeCreator, ClientGoes, ClientAt, body
<1>2. cSem[o] = 1 /\ Runners(o) = {} /\ Creators(o) = {}
  BY <1>1 DEF ThreadInv, OneThreadPerObject
<1>3. /\ cSem'[o] = 0
      /\ \A p \in Objects \ {o} : cSem'[p] = cSem[p]
  BY <1>1, <1>2
<1>4. /\ \A p \in Objects : Runners(p)' = Runners(p)
      /\ Creators(o)' = {c}
      /\ \A p \in Objects \ {o} : Creators(p)' = Creators(p)
  BY <1>1, <1>2 DEF Runners, Creators, Running
<1>5. Assigned'
  BY <1>1 DEF ThreadInv, Assigned
<1>6. OneThreadPerObject'
  <2> SUFFICES ASSUME NEW p \in Objects
               PROVE  /\ cSem'[p] \in {0, 1}
                      /\ cSem'[p] = 1 => Runners(p)' = {} /\ Creators(p)' = {}
                      /\ Runners(p)' = {} \/ Creators(p)' = {}
                      /\ \A b1, b2 \in Runners(p)' : b1 = b2
                      /\ \A c1, c2 \in Creators(p)' : c1 = c2
    BY DEF OneThreadPerObject
  <2>1. CASE p = o
    BY <1>1, <1>2, <1>3, <1>4, <2>1
  <2>2. CASE p # o
    BY <1>3, <1>4, <2>2 DEF ThreadInv, OneThreadPerObject
  <2> QED BY <2>1, <2>2
<1>7. BodyKnowsItself'
  BY <1>1 DEF ThreadInv, BodyKnowsItself, Running
<1> QED BY <1>5, <1>6, <1>7

\* A failed ThreadCreate keeps the semaphore for good; a successful one hands
\* it to the new body.
LEMMA SpawnPreserves ==
  ASSUME ThreadInv, NEW c \in Clients, Spawn(c)
  PROVE  Assigned' /\ OneThreadPerObject' /\ BodyKnowsItself'
<1>0. PICK o \in Objects : cobj[c] = o
  BY DEF ThreadInv, TypeOK, Assigned, Spawn, ClientAt
<1>1. /\ cpc' = [cpc EXCEPT ![c] = "idle"] /\ cpc \in [Clients -> ClientPCs]
      /\ cobj' = [cobj EXCEPT ![c] = NULL]
      /\ cobj \in [Clients -> Objects \cup {NULL}]
      /\ cpc[c] = "spawn" /\ cobj[c] = o
      /\ UNCHANGED <<id, cSem>>
  BY <1>0 DEF ThreadInv, TypeOK, Assigned, Spawn, Return, ClientGoes, ClientAt, sems
<1>2. /\ c \in Creators(o) /\ \A x \in Creators(o) : x = c
      /\ Runners(o) = {} /\ cSem[o] = 0
  <2>1. c \in Creators(o)
    BY <1>1 DEF Creators
  <2> QED BY <1>1, <2>1 DEF ThreadInv, OneThreadPerObject, TypeOK
<1>3. /\ Creators(o)' = {}
      /\ \A p \in Objects \ {o} : Creators(p)' = Creators(p)
  <2>1. \A x \in Clients \ {c} : cpc'[x] = cpc[x] /\ cobj'[x] = cobj[x]
    BY <1>1
  <2>2. cpc'[c] = "idle" /\ cpc[c] = "spawn"
    BY <1>1
  <2>3. \A p \in Objects : Creators(p)' = Creators(p) \ {c}
    BY <2>1, <2>2 DEF Creators
  <2>4. \A p \in Objects \ {o} : c \notin Creators(p)
    BY <1>1 DEF Creators
  <2>5. Creators(o)' = {}
    BY <1>0, <1>2, <2>3
  <2>6. \A p \in Objects \ {o} : Creators(p) \ {c} = Creators(p)
    BY <2>4
  <2> QED BY <2>3, <2>5, <2>6
<1>4. CASE UNCHANGED <<bpc, bobj>>
  <2>1. \A p \in Objects : Runners(p)' = Runners(p)
    BY <1>4 DEF Runners, Running
  <2>2. Assigned'
    BY <1>1, <1>4 DEF ThreadInv, Assigned
  <2>3. OneThreadPerObject'
    <3> SUFFICES ASSUME NEW p \in Objects
                 PROVE  /\ cSem'[p] \in {0, 1}
                        /\ cSem'[p] = 1 => Runners(p)' = {} /\ Creators(p)' = {}
                        /\ Runners(p)' = {} \/ Creators(p)' = {}
                        /\ \A b1, b2 \in Runners(p)' : b1 = b2
                        /\ \A c1, c2 \in Creators(p)' : c1 = c2
      BY DEF OneThreadPerObject
    <3>1. CASE p = o
      BY <1>1, <1>2, <1>3, <2>1, <3>1
    <3>2. CASE p # o
      <4>1. /\ cSem[p] \in {0, 1}
            /\ cSem[p] = 1 => Runners(p) = {} /\ Creators(p) = {}
            /\ Runners(p) = {} \/ Creators(p) = {}
            /\ \A b1, b2 \in Runners(p) : b1 = b2
            /\ \A c1, c2 \in Creators(p) : c1 = c2
        BY DEF ThreadInv, OneThreadPerObject
      <4>2. Creators(p)' = Creators(p) /\ Runners(p)' = Runners(p) /\ cSem' = cSem
        BY <1>1, <1>3, <2>1, <3>2
      <4> QED BY <4>1, <4>2
    <3> QED BY <3>1, <3>2
  <2>4. BodyKnowsItself'
    BY <1>1, <1>4 DEF ThreadInv, BodyKnowsItself, Running
  <2> QED BY <2>2, <2>3, <2>4
<1>5. ASSUME NEW b \in Bodies, BodyAt(b, "free"), BodyGoes(b, "new"),
             bobj' = [bobj EXCEPT ![b] = cobj[c]]
      PROVE  Assigned' /\ OneThreadPerObject' /\ BodyKnowsItself'
  <2>1. /\ bpc' = [bpc EXCEPT ![b] = "new"] /\ bpc \in [Bodies -> BodyPCs]
        /\ bpc[b] = "free" /\ bobj' = [bobj EXCEPT ![b] = o]
        /\ bobj \in [Bodies -> Objects \cup {NULL}]
    BY <1>0, <1>5 DEF ThreadInv, TypeOK, BodyAt, BodyGoes
  <2>2. /\ Runners(o)' = {b}
        /\ \A p \in Objects \ {o} : Runners(p)' = Runners(p)
    <3>1. \A x \in Bodies \ {b} : bpc'[x] = bpc[x] /\ bobj'[x] = bobj[x]
      BY <2>1
    <3>2. bpc'[b] = "new" /\ bobj'[b] = o
      BY <2>1
    <3>3. \A p \in Objects \ {o} : Runners(p)' = Runners(p)
      BY <2>1, <3>1, <3>2 DEF Runners, Running
    <3>4. Runners(o)' = Runners(o) \cup {b}
      BY <2>1, <3>1, <3>2 DEF Runners, Running
    <3> QED BY <1>2, <3>3, <3>4
  <2>3. Assigned'
    BY <1>1, <2>1, ThreadAssumption DEF ThreadInv, Assigned
  <2>4. OneThreadPerObject'
    <3> SUFFICES ASSUME NEW p \in Objects
                 PROVE  /\ cSem'[p] \in {0, 1}
                        /\ cSem'[p] = 1 => Runners(p)' = {} /\ Creators(p)' = {}
                        /\ Runners(p)' = {} \/ Creators(p)' = {}
                        /\ \A b1, b2 \in Runners(p)' : b1 = b2
                        /\ \A c1, c2 \in Creators(p)' : c1 = c2
      BY DEF OneThreadPerObject
    <3>1. CASE p = o
      BY <1>1, <1>2, <1>3, <2>2, <3>1
    <3>2. CASE p # o
      <4>1. /\ cSem[p] \in {0, 1}
            /\ cSem[p] = 1 => Runners(p) = {} /\ Creators(p) = {}
            /\ Runners(p) = {} \/ Creators(p) = {}
            /\ \A b1, b2 \in Runners(p) : b1 = b2
            /\ \A c1, c2 \in Creators(p) : c1 = c2
        BY DEF ThreadInv, OneThreadPerObject
      <4>2. Creators(p)' = Creators(p) /\ Runners(p)' = Runners(p) /\ cSem' = cSem
        BY <1>1, <1>3, <2>2, <3>2
      <4> QED BY <4>1, <4>2
    <3> QED BY <3>1, <3>2
  <2>5. BodyKnowsItself'
    BY <1>1, <2>1 DEF ThreadInv, BodyKnowsItself, Running
  <2> QED BY <2>3, <2>4, <2>5
<1> QED BY <1>4, <1>5 DEF Spawn, body

-----------------------------------------------------------------------------
(* Types *)

\* The list operations keep the list's fields in their sets.
LEMMA ListTypes ==
  ASSUME TypeOK, NEW o \in Objects, AddThread(o) \/ RemoveThread(o)
  PROVE  /\ head' \in Objects \cup {NULL}
         /\ pPrev' \in [Objects -> Objects \cup {NULL}]
         /\ pNext' \in [Objects -> Objects \cup {NULL}]
<1>1. CASE AddThread(o)
  BY <1>1 DEF TypeOK, AddThread
<1>2. CASE RemoveThread(o) /\ pPrev[o] = NULL
  BY <1>2 DEF TypeOK, RemoveThread, UnlinkHead
<1>3. CASE RemoveThread(o) /\ pPrev[o] # NULL
  <2>1. UnlinkInner(o)
    BY <1>3 DEF RemoveThread
  <2>2. pNext' \in [Objects -> Objects \cup {NULL}]
    BY <2>1 DEF TypeOK, UnlinkInner
  <2>3. pPrev' \in [Objects -> Objects \cup {NULL}]
    BY <2>1 DEF TypeOK, UnlinkInner
  <2> QED BY <2>1, <2>2, <2>3 DEF TypeOK, UnlinkInner
<1> QED BY <1>1, <1>2, <1>3

LEMMA BodyTypes ==
  ASSUME ThreadInv, NEW b \in Bodies, BodyStep(b) \/ BodyChoice(b)
  PROVE  TypeOK'
<1> USE DEF BodyAt, BodyGoes, BodyPCs, flags, sems, mailbox, registry, client,
            TypeOK
<1>0. TypeOK /\ (bpc[b] # "free" => bobj[b] \in Objects)
  BY DEF ThreadInv, Assigned
<1>1. CASE StoreID(b)
  BY <1>0, <1>1 DEF StoreID
<1>2. CASE Register(b)
  BY <1>0, <1>2, ListTypes DEF Register
<1>3. CASE LoopTop(b) \/ ProcReturns(b) \/ CheckWait(b)
  BY <1>0, <1>3 DEF LoopTop, ProcReturns, CheckWait
<1>4. CASE Recv(b) \/ ClearMessage(b)
  BY <1>0, <1>4 DEF Recv, ClearMessage
<1>5. CASE PostDestroyer(b) \/ PostCreator(b)
  BY <1>0, <1>5 DEF PostDestroyer, PostCreator, Posted
<1>6. CASE Leave(b)
  BY <1>0, <1>6, ListTypes DEF Leave
<1>7. CASE SelfDestroy(b) \/ SelfSet(b) \/ SelfSend(b)
  <2>1. CASE SelfDestroy(b)
    BY <1>0, <2>1 DEF SelfDestroy
  <2>2. CASE SelfSet(b)
    BY <1>0, <2>2 DEF SelfSet
  <2>3. CASE SelfSend(b)
    BY <1>0, <2>3 DEF SelfSend, SendMessage
  <2> QED BY <1>7, <2>1, <2>2, <2>3
<1>8. ASSUME NEW w \in BOOLEAN, SelfAsk(b, w)
      PROVE  TypeOK'
  BY <1>0, <1>8 DEF SelfAsk
<1> QED BY <1>1, <1>2, <1>3, <1>4, <1>5, <1>6, <1>7, <1>8 DEF BodyStep, BodyChoice

LEMMA ClientTypes ==
  ASSUME ThreadInv, NEW c \in Clients, ClientStep(c) \/ ClientCall(c)
  PROVE  TypeOK'
<1> USE DEF ClientAt, ClientGoes, ClientPCs, flags, sems, mailbox, registry,
            body, client, TypeOK, Return, Call
<1>0. TypeOK /\ (cpc[c] # "idle" => cobj[c] \in Objects)
  BY DEF ThreadInv, Assigned
<1>1. CASE TakeCreator(c)
  BY <1>0, <1>1 DEF TakeCreator
<1>2. CASE Spawn(c)
  BY <1>0, <1>2 DEF Spawn, BodyAt, BodyGoes, BodyPCs
<1>3. CASE DestroyCheck(c)
  BY <1>0, <1>3 DEF DestroyCheck
<1>4. CASE DestroySet(c)
  BY <1>0, <1>4 DEF DestroySet
<1>5. CASE DestroySend(c)
  BY <1>0, <1>5 DEF DestroySend, SendMessage
<1>6. CASE DestroyFlag(c)
  BY <1>0, <1>6 DEF DestroyFlag
<1>7. CASE DestroyRead(c)
  BY <1>0, <1>7 DEF DestroyRead
<1>8. CASE DestroySem(c)
  BY <1>0, <1>8 DEF DestroySem
<1>9. ASSUME NEW o \in Objects, CreateThread(c, o) \/ Stop(c, o)
      PROVE  TypeOK'
  <2>1. CASE CreateThread(c, o)
    <3>1. /\ cpc' = [cpc EXCEPT ![c] = "cwait"] /\ cobj' = [cobj EXCEPT ![c] = o]
          /\ UNCHANGED <<flags, sems, mailbox, registry, body, cwait>>
      BY <2>1 DEF CreateThread
    <3> QED BY <1>0, <3>1
  <2>2. CASE Stop(c, o)
    BY <1>0, <2>2 DEF Stop
  <2> QED BY <1>9, <2>1, <2>2
<1>10. ASSUME NEW o \in Objects, NEW w \in BOOLEAN, DestroyThread(c, o, w)
       PROVE  TypeOK'
  <2>1. /\ cpc' = [cpc EXCEPT ![c] = "dcall"] /\ cobj' = [cobj EXCEPT ![c] = o]
        /\ cwait' = [cwait EXCEPT ![c] = w]
        /\ UNCHANGED <<flags, sems, mailbox, registry, body>>
    BY <1>10 DEF DestroyThread
  <2> QED BY <1>0, <2>1
<1> QED BY <1>1, <1>2, <1>3, <1>4, <1>5, <1>6, <1>7, <1>8, <1>9, <1>10
        DEF ClientStep, ClientCall

-----------------------------------------------------------------------------
\* Every step of a body keeps the invariant.
LEMMA BodyPreserves ==
  ASSUME ThreadInv, NEW b \in Bodies, BodyStep(b) \/ BodyChoice(b)
  PROVE  ThreadInv'
<1> USE DEF BodyAt, flags, sems, client
<1>1. CASE StoreID(b)
  BY <1>1, StoreIDPreserves, BodyTypes DEF ThreadInv
<1>2. CASE Register(b)
  BY <1>2, BodyMoves, BodyTypes DEF ThreadInv, Register, BodyPCs
<1>3. CASE LoopTop(b) \/ ProcReturns(b)
  BY <1>3, BodyMoves, BodyTypes DEF ThreadInv, LoopTop, ProcReturns, BodyPCs
<1>4. CASE Recv(b) \/ ClearMessage(b)
  BY <1>4, BodyMoves, BodyTypes DEF ThreadInv, Recv, ClearMessage, BodyPCs
<1>5. CASE CheckWait(b) \/ PostDestroyer(b)
  BY <1>5, BodyMoves, BodyTypes DEF ThreadInv, CheckWait, PostDestroyer, BodyPCs
<1>6. CASE PostCreator(b)
  BY <1>6, PostCreatorPreserves, BodyTypes DEF ThreadInv
<1>7. CASE Leave(b)
  BY <1>7, LeavePreserves, BodyTypes DEF ThreadInv
<1>8. CASE SelfDestroy(b) \/ SelfSet(b) \/ SelfSend(b)
  BY <1>8, BodyMoves, BodyTypes
     DEF ThreadInv, SelfDestroy, SelfSet, SelfSend, BodyPCs
<1>9. ASSUME NEW w \in BOOLEAN, SelfAsk(b, w)
      PROVE  ThreadInv'
  <2>1. PICK to \in {"loop", "selfwait"} : BodyGoes(b, to)
    BY <1>9 DEF SelfAsk
  <2> QED BY <1>9, <2>1, BodyMoves, BodyTypes
          DEF ThreadInv, SelfAsk, BodyPCs, BodyStep
<1> QED BY <1>1, <1>2, <1>3, <1>4, <1>5, <1>6, <1>7, <1>8, <1>9
        DEF BodyStep, BodyChoice

\* Every step of a client keeps the invariant.
LEMMA ClientPreserves ==
  ASSUME ThreadInv, NEW c \in Clients, ClientStep(c) \/ ClientCall(c)
  PROVE  ThreadInv'
<1> USE DEF ClientAt, flags, sems, body, client
<1>0. TypeOK'
  BY ClientTypes
<1>1. CASE TakeCreator(c)
  BY <1>0, <1>1, TakeCreatorPreserves DEF ThreadInv
<1>2. CASE Spawn(c)
  BY <1>0, <1>2, SpawnPreserves DEF ThreadInv
<1>3. CASE DestroyCheck(c)
  BY <1>0, <1>3, ClientStays, ClientReturns DEF ThreadInv, DestroyCheck, ClientPCs
<1>4. CASE DestroySet(c) \/ DestroySend(c) \/ DestroyFlag(c)
  BY <1>0, <1>4, ClientStays
     DEF ThreadInv, DestroySet, DestroySend, DestroyFlag, ClientPCs
<1>5. CASE DestroyRead(c)
  BY <1>0, <1>5, ClientStays, ClientReturns DEF ThreadInv, DestroyRead, ClientPCs
<1>6. CASE DestroySem(c)
  BY <1>0, <1>6, ClientReturns DEF ThreadInv, DestroySem
<1>7. ASSUME NEW o \in Objects, NEW to \in {"cwait", "dcall"}, Call(c, o, to),
             UNCHANGED <<id, cSem, body>>
      PROVE  ThreadInv'
  <2>1. o # NULL
    BY ThreadAssumption
  <2> QED BY <1>0, <1>7, <2>1, ClientMoves DEF ThreadInv, Call, ClientPCs
<1>8. ASSUME NEW o \in Objects,
             \/ CreateThread(c, o) \/ Stop(c, o)
             \/ \E w \in BOOLEAN : DestroyThread(c, o, w)
      PROVE  ThreadInv'
  BY <1>7, <1>8 DEF CreateThread, Stop, DestroyThread
<1> QED BY <1>1, <1>2, <1>3, <1>4, <1>5, <1>6, <1>8 DEF ClientStep, ClientCall

\* A message or QuitMessage from any thread touches the queue only.
LEMMA SenderPreserves ==
  ASSUME ThreadInv, NEW o \in Objects, SendData(o) \/ QuitMessage(o)
  PROVE  ThreadInv'
<1> USE DEF flags, sems, mailbox, registry, body, client
<1>1. CASE SendData(o)
  <2>1. TypeOK'
    BY <1>1 DEF ThreadInv, TypeOK, SendData, SendMessage
  <2> QED BY <1>1, <2>1, NobodyMoves DEF ThreadInv, SendData
<1>2. CASE QuitMessage(o)
  <2>1. TypeOK'
    BY <1>2 DEF ThreadInv, TypeOK, QuitMessage
  <2> QED BY <1>2, <2>1, NobodyMoves DEF ThreadInv, QuitMessage
<1> QED BY <1>1, <1>2

\* A step that changes nothing keeps the invariant.
LEMMA StutterPreserves == ASSUME ThreadInv, UNCHANGED vars PROVE ThreadInv'
<1>1. TypeOK'
  BY DEF ThreadInv, TypeOK, vars, flags, sems, mailbox, registry, body, client
<1> QED BY <1>1, NobodyMoves DEF ThreadInv, vars, flags, sems, body, client

\* The invariant holds in every state, restarts, failed creations, concurrent
\* destroyers and threads that stop by themselves included.
THEOREM Invariance == Spec => []ThreadInv
<1>1. Init => ThreadInv
  BY InitThreadInv
<1>2. ThreadInv /\ [Next]_vars => ThreadInv'
  BY BodyPreserves, ClientPreserves, SenderPreserves, StutterPreserves DEF Next
<1> QED BY <1>1, <1>2, PTL DEF Spec

\* An object never has two threads, and m_cCEZSemaphore is never above 1: the
\* promise of EZThread.h:76 up to the point where the body gives it back.
THEOREM OneThread == Spec => []OneThreadPerObject
<1>1. ThreadInv => OneThreadPerObject
  BY DEF ThreadInv
<1> QED BY <1>1, Invariance, PTL

\* A thread that runs an object finds its own id in m_ID, so it never waits
\* for its own end at EZThread.cpp:170-176.
THEOREM NoSelfWait == Spec => []BodyKnowsItself
<1>1. ThreadInv => BodyKnowsItself
  BY DEF ThreadInv
<1> QED BY <1>1, Invariance, PTL

-----------------------------------------------------------------------------
(* Induction over the numbers *)

\* The least-number principle, for sets.
LEMMA LeastElement ==
  ASSUME NEW T \in SUBSET Nat, T # {}
  PROVE  \E k \in T : \A l \in T : k =< l
<1>1. \A l, k \in Nat : l < k => <<l, k>> \in OpToRel(<, Nat)
  BY Zenon DEF OpToRel
<1>2. \E R : IsWellFoundedOn(R, Nat) /\ \A l, k \in Nat : l < k => <<l, k>> \in R
  BY <1>1, NatLessThanWellFounded, Zenon
<1>3. PICK R : IsWellFoundedOn(R, Nat) /\ \A l, k \in Nat : l < k => <<l, k>> \in R
  BY <1>2
<1>4. T \subseteq Nat /\ T # {}
  OBVIOUS
<1>5. IsWellFoundedOn(R, Nat)
  BY <1>3
<1>6. PICK k \in T : \A l \in T : ~(<<l, k>> \in R)
  BY ONLY <1>4, <1>5, WFMin, Zenon
<1>7. \A l \in T : ~(l < k)
  BY <1>3, <1>4, <1>6, Zenon
<1> QED
  BY <1>7

\* Induction, for sets.
LEMMA AllNumbers ==
  ASSUME NEW K \in SUBSET Nat, 0 \in K, \A k \in K : k + 1 \in K
  PROVE  K = Nat
<1> SUFFICES ASSUME Nat \ K # {} PROVE FALSE
  OBVIOUS
<1>1. PICK k \in Nat \ K : \A l \in Nat \ K : k =< l
  BY LeastElement
<1>2. k # 0 /\ k - 1 \in Nat /\ (k - 1) + 1 = k
  OBVIOUS
<1>3. k - 1 \in K
  BY <1>1, <1>2
<1> QED
  BY <1>2, <1>3

-----------------------------------------------------------------------------
(* The manager's list *)

\* s[1], ..., s[n] are the nodes of the list, from m_pHead on.
Chained(n, s) ==
  /\ n \in Nat /\ s \in [1 .. n -> Objects]
  /\ \A j, k \in 1 .. n : s[j] = s[k] => j = k
  /\ head = IF n = 0 THEN NULL ELSE s[1]
  /\ \A k \in 1 .. n : /\ pNext[s[k]] = IF k = n THEN NULL ELSE s[k + 1]
                       /\ pPrev[s[k]] = IF k = 1 THEN NULL ELSE s[k - 1]

\* NULL, which ends m_pPrev and m_pNext, is no object.
LEMMA NoObject == NULL \notin Objects
BY ThreadAssumption

\* A walk visits the nodes of the list in their order and then ends.
LEMMA ChainWalk ==
  ASSUME NEW n, NEW s, Chained(n, s)
  PROVE  \A m \in Nat : Walk[m] = IF m < n THEN s[m + 1] ELSE NULL
<1> DEFINE g == [i \in Nat |-> IF i < n THEN s[i + 1] ELSE NULL]
           Walks(w) == w = [i \in Nat |-> IF i = 0 THEN head
                                         ELSE IF w[i - 1] = NULL THEN NULL
                                         ELSE pNext[w[i - 1]]]
           w == CHOOSE w : Walks(w)
           K == {m \in Nat : w[m] = g[m]}
<1>1. /\ n \in Nat /\ s \in [1 .. n -> Objects]
      /\ head = IF n = 0 THEN NULL ELSE s[1]
      /\ \A k \in 1 .. n : pNext[s[k]] = IF k = n THEN NULL ELSE s[k + 1]
  BY DEF Chained
<1>2. g[0] = head
  BY <1>1
<1>3. ASSUME NEW i \in Nat
      PROVE  g[i + 1] = IF g[i] = NULL THEN NULL ELSE pNext[g[i]]
  <2>1. CASE i < n
    <3>1. i + 1 \in 1 .. n /\ g[i] = s[i + 1] /\ g[i] # NULL
      BY <1>1, <2>1, NoObject
    <3>2. pNext[g[i]] = IF i + 1 = n THEN NULL ELSE s[(i + 1) + 1]
      BY <1>1, <3>1
    <3> QED
      BY <1>1, <2>1, <3>1, <3>2
  <2>2. CASE ~(i < n)
    BY <1>1, <2>2
  <2> QED
    BY <2>1, <2>2
<1>4. Walks(g)
  <2>1. \A i \in Nat : g[i] = IF i = 0 THEN head
                              ELSE IF g[i - 1] = NULL THEN NULL ELSE pNext[g[i - 1]]
    <3> SUFFICES ASSUME NEW i \in Nat, i # 0
                 PROVE  g[i] = IF g[i - 1] = NULL THEN NULL ELSE pNext[g[i - 1]]
      BY <1>2
    <3>1. i - 1 \in Nat /\ (i - 1) + 1 = i
      OBVIOUS
    <3> HIDE DEF g
    <3> QED
      BY <1>3, <3>1
  <2> QED
    BY <2>1
<1>5. Walks(w)
  <2> HIDE DEF Walks
  <2> QED
    BY <1>4
<1>6. Walk = w
  BY DEF Walk
<1> HIDE DEF w
<1>7. \A i \in Nat : w[i] = IF i = 0 THEN head
                            ELSE IF w[i - 1] = NULL THEN NULL ELSE pNext[w[i - 1]]
  BY <1>5
<1>8. 0 \in K
  BY <1>2, <1>7
<1>9. ASSUME NEW m \in K PROVE m + 1 \in K
  <2>1. m + 1 \in Nat /\ m + 1 # 0 /\ (m + 1) - 1 = m /\ w[m] = g[m]
    OBVIOUS
  <2>2. w[m + 1] = IF w[m] = NULL THEN NULL ELSE pNext[w[m]]
    BY <1>7, <2>1
  <2> HIDE DEF g
  <2> QED
    BY <1>3, <2>1, <2>2
<1> HIDE DEF K
<1>10. K = Nat
  <2>1. K \in SUBSET Nat
    BY DEF K
  <2> QED
    BY <1>8, <1>9, <2>1, AllNumbers
<1> QED
  BY <1>6, <1>10 DEF K

\* A walk of as many steps as there are objects meets every node and ends.
LEMMA ChainListed ==
  ASSUME NEW n, NEW s, Chained(n, s)
  PROVE  WalkEnds /\ Listed = {s[k] : k \in 1 .. n}
<1>1. /\ n \in Nat /\ s \in [1 .. n -> Objects]
      /\ \A j, k \in 1 .. n : s[j] = s[k] => j = k
  BY DEF Chained
<1>2. IsFiniteSet(Objects) /\ Cardinality(Objects) \in Nat
  BY ThreadAssumption, FS_CardinalityType
<1>3. n =< Cardinality(Objects)
  <2>1. IsFiniteSet(1 .. n) /\ Cardinality(1 .. n) = n
    BY <1>1, FS_Interval
  <2>2. ASSUME n > Cardinality(Objects) PROVE FALSE
    <3>1. \E x, y \in 1 .. n : x # y /\ s[x] = s[y]
      BY <1>1, <1>2, <2>1, <2>2, FS_PigeonHole
    <3> QED
      BY <1>1, <3>1
  <2> QED
    BY <1>1, <1>2, <2>2
<1>4. \A m \in Nat : Walk[m] = IF m < n THEN s[m + 1] ELSE NULL
  BY ChainWalk
<1>5. WalkEnds
  BY <1>1, <1>2, <1>3, <1>4 DEF WalkEnds
<1>6. ASSUME NEW o \in Listed
      PROVE  \E k \in 1 .. n : o = s[k]
  <2>1. PICK m \in 0 .. Cardinality(Objects) : o = Walk[m] /\ o # NULL
    BY DEF Listed
  <2>2. m < n /\ o = s[m + 1]
    BY <1>2, <1>4, <2>1
  <2>3. m + 1 \in 1 .. n
    BY <1>1, <1>2, <2>1, <2>2
  <2> QED
    BY <2>2, <2>3
<1>7. ASSUME NEW k \in 1 .. n
      PROVE  s[k] \in Listed
  <2>1. k - 1 \in 0 .. Cardinality(Objects) /\ k - 1 < n /\ (k - 1) + 1 = k
    BY <1>1, <1>2, <1>3
  <2>2. Walk[k - 1] = s[k]
    BY <1>2, <1>4, <2>1
  <2>3. s[k] # NULL
    BY <1>1, NoObject
  <2> QED
    BY <2>1, <2>2, <2>3 DEF Listed
<1> QED
  BY <1>5, <1>6, <1>7

\* The list holds the objects of A.
Holds(A) == \E n, s : Chained(n, s) /\ A = {s[k] : k \in 1 .. n}

\* AddThread puts an object in front that is not listed (EZThread.cpp:400-415).
LEMMA Adds ==
  ASSUME TypeOK, NEW A, Holds(A), NEW o \in Objects \ A, AddThread(o)
  PROVE  Holds(A \cup {o})'
<1>1. PICK n, s : Chained(n, s) /\ A = {s[k] : k \in 1 .. n}
  BY DEF Holds
<1>2. /\ n \in Nat /\ s \in [1 .. n -> Objects]
      /\ \A i, j \in 1 .. n : s[i] = s[j] => i = j
      /\ head = IF n = 0 THEN NULL ELSE s[1]
      /\ \A j \in 1 .. n : /\ pNext[s[j]] = IF j = n THEN NULL ELSE s[j + 1]
                           /\ pPrev[s[j]] = IF j = 1 THEN NULL ELSE s[j - 1]
  BY <1>1 DEF Chained
<1>3. /\ pPrev' = [p \in Objects |-> IF p = head THEN o
                                     ELSE IF p = o THEN NULL ELSE pPrev[p]]
      /\ pNext' = [pNext EXCEPT ![o] = head] /\ head' = o
      /\ pNext \in [Objects -> Objects \cup {NULL}]
  BY DEF AddThread, TypeOK
<1>4. \A j \in 1 .. n : s[j] # o /\ s[j] \in Objects
  BY <1>1, <1>2
<1>5. PICK e : e = [j \in 1 .. n + 1 |-> IF j = 1 THEN o ELSE s[j - 1]]
  OBVIOUS
<1>6. n + 1 \in Nat /\ e \in [1 .. n + 1 -> Objects]
  BY <1>2, <1>5
<1>7. \A i, j \in 1 .. n + 1 : e[i] = e[j] => i = j
  BY <1>2, <1>4, <1>5
<1>8. head' = IF n + 1 = 0 THEN NULL ELSE e[1]
  BY <1>2, <1>3, <1>5
<1>9. ASSUME NEW j \in 1 .. n + 1
      PROVE  /\ pNext'[e[j]] = IF j = n + 1 THEN NULL ELSE e[j + 1]
             /\ pPrev'[e[j]] = IF j = 1 THEN NULL ELSE e[j - 1]
  <2>1. CASE j = 1
    <3>1. e[j] = o /\ pNext'[o] = head /\ o # head
      BY <1>2, <1>3, <1>4, <1>5, <2>1, NoObject
    <3>2. pPrev'[o] = NULL
      BY <1>3, <3>1
    <3>3. n # 0 => 2 \in 1 .. n + 1 /\ e[2] = s[1]
      BY <1>2, <1>5
    <3> QED
      BY <1>2, <2>1, <3>1, <3>2, <3>3
  <2>2. CASE j # 1
    <3>1. j - 1 \in 1 .. n /\ (j - 1) + 1 = j /\ e[j] = s[j - 1]
      BY <1>2, <1>5, <2>2
    <3>2. pNext'[e[j]] = pNext[s[j - 1]]
      BY <1>3, <1>4, <3>1
    <3>3. pNext[s[j - 1]] = IF j - 1 = n THEN NULL ELSE s[j]
      BY <1>2, <3>1
    <3>4. j # n + 1 => e[j + 1] = s[j]
      <4>1. (j + 1) - 1 = j
        OBVIOUS
      <4> QED
        BY <1>2, <1>5, <2>2, <4>1
    <3>5. pPrev'[e[j]] = IF j = 2 THEN o ELSE pPrev[s[j - 1]]
      <4>1. s[j - 1] = head <=> j = 2
        <5>1. n # 0 /\ head = s[1] /\ 1 \in 1 .. n
          BY <1>2, <3>1
        <5> QED
          BY <1>2, <3>1, <5>1
      <4> QED
        BY <1>3, <1>4, <3>1, <4>1
    <3>6. j # 2 => pPrev[s[j - 1]] = s[j - 2] /\ e[j - 1] = s[j - 2]
      <4>1. (j - 1) - 1 = j - 2
        OBVIOUS
      <4> QED
        BY <1>2, <1>5, <2>2, <3>1, <4>1
    <3>7. j = 2 => e[j - 1] = o
      BY <1>2, <1>5
    <3> QED
      BY <1>2, <2>2, <3>2, <3>3, <3>4, <3>5, <3>6, <3>7
  <2> QED
    BY <2>1, <2>2
<1>10. Chained(n + 1, e)'
  BY <1>6, <1>7, <1>8, <1>9 DEF Chained
<1>11. A \cup {o} = {e[j] : j \in 1 .. n + 1}
  <2>1. ASSUME NEW j \in 1 .. n + 1
        PROVE  e[j] \in A \cup {o}
    BY <1>1, <1>2, <1>5
  <2>2. ASSUME NEW u \in A
        PROVE  \E j \in 1 .. n + 1 : u = e[j]
    <3>1. PICK i \in 1 .. n : u = s[i]
      BY <1>1
    <3>2. i + 1 \in 1 .. n + 1 /\ e[i + 1] = s[i]
      BY <1>2, <1>5
    <3> QED
      BY <3>1, <3>2
  <2>3. o = e[1] /\ 1 \in 1 .. n + 1
    BY <1>2, <1>5
  <2> QED
    BY <2>1, <2>2, <2>3
<1> QED
  BY <1>10, <1>11 DEF Holds

\* RemoveThread takes a listed object out, wherever it is (EZThread.cpp:417-437).
LEMMA Removes ==
  ASSUME TypeOK, NEW A, Holds(A), NEW o \in A, RemoveThread(o)
  PROVE  Holds(A \ {o})'
<1>1. PICK n, s : Chained(n, s) /\ A = {s[k] : k \in 1 .. n}
  BY DEF Holds
<1>2. /\ n \in Nat /\ s \in [1 .. n -> Objects]
      /\ \A i, j \in 1 .. n : s[i] = s[j] => i = j
      /\ head = IF n = 0 THEN NULL ELSE s[1]
      /\ \A j \in 1 .. n : /\ pNext[s[j]] = IF j = n THEN NULL ELSE s[j + 1]
                           /\ pPrev[s[j]] = IF j = 1 THEN NULL ELSE s[j - 1]
  BY <1>1 DEF Chained
<1>3. PICK k \in 1 .. n : o = s[k]
  BY <1>1
<1>4. PICK pp : pp = pPrev[o]
  OBVIOUS
<1>5. PICK pn : pn = pNext[o]
  OBVIOUS
<1>6. /\ pp = IF k = 1 THEN NULL ELSE s[k - 1]
      /\ pn = IF k = n THEN NULL ELSE s[k + 1]
      /\ o \in Objects /\ NULL \notin Objects /\ pn # o /\ pp # o
  <2>1. k # n => k + 1 \in 1 .. n /\ s[k + 1] # s[k]
    BY <1>2
  <2>2. k # 1 => k - 1 \in 1 .. n /\ s[k - 1] # s[k]
    BY <1>2
  <2> QED
    BY <1>2, <1>3, <1>4, <1>5, <2>1, <2>2, NoObject
<1>7. pPrev \in [Objects -> Objects \cup {NULL}] /\ pNext \in [Objects -> Objects \cup {NULL}]
  BY DEF TypeOK
<1>8. /\ head' = IF pp = NULL THEN pn ELSE head
      /\ pPrev' = [p \in Objects |-> IF p = pn THEN pp ELSE pPrev[p]]
      /\ \A p \in Objects : pNext'[p] = IF p = pp THEN pn ELSE pNext[p]
  <2>1. CASE pp = NULL
    <3>1. UnlinkHead(o)
      BY <1>4, <2>1 DEF RemoveThread
    <3> QED
      BY <1>5, <1>6, <2>1, <3>1 DEF UnlinkHead
  <2>2. CASE pp # NULL
    <3>1. UnlinkInner(o)
      BY <1>4, <2>2 DEF RemoveThread
    <3>2. pp \in Objects
      BY <1>2, <1>6, <2>2
    <3>3. pNext' = [pNext EXCEPT ![pp] = pn] /\ head' = head
      BY <1>4, <1>5, <3>1 DEF UnlinkInner
    <3>4. pNext'[o] = pn
      BY <1>5, <1>6, <1>7, <3>3
    <3>5. pPrev' = [p \in Objects |-> IF p = pNext'[o] THEN pPrev[o] ELSE pPrev[p]]
      BY <3>1 DEF UnlinkInner
    <3> QED
      BY <1>4, <1>7, <2>2, <3>2, <3>3, <3>4, <3>5
  <2> QED
    BY <2>1, <2>2
<1>9. PICK e : e = [j \in 1 .. n - 1 |-> IF j < k THEN s[j] ELSE s[j + 1]]
  OBVIOUS
<1>10. n - 1 \in Nat /\ e \in [1 .. n - 1 -> Objects]
  BY <1>2, <1>9
<1>11. \A i, j \in 1 .. n - 1 : e[i] = e[j] => i = j
  BY <1>2, <1>9
<1>12. head' = IF n - 1 = 0 THEN NULL ELSE e[1]
  BY <1>2, <1>6, <1>8, <1>9
<1>13. ASSUME NEW j \in 1 .. n - 1
       PROVE  /\ pNext'[e[j]] = IF j = n - 1 THEN NULL ELSE e[j + 1]
              /\ pPrev'[e[j]] = IF j = 1 THEN NULL ELSE e[j - 1]
  <2>0. j \in Int /\ k \in Int /\ j \in 1 .. n /\ j + 1 \in 1 .. n
    BY <1>2
  <2>1. CASE j < k - 1
    <3>1. e[j] = s[j] /\ e[j + 1] = s[j + 1] /\ j # n - 1 /\ s[j] \in Objects
      BY <2>0, <2>1, <1>2, <1>9
    <3>2. s[j] # pp /\ s[j] # pn
      <4>1. k - 1 \in 1 .. n /\ k # 1 /\ j # k - 1
        BY <1>2, <2>0, <2>1
      <4>2. k # n => k + 1 \in 1 .. n /\ j # k + 1
        BY <1>2, <2>0, <2>1
      <4>3. s[j] # s[k - 1] /\ (k # n => s[j] # s[k + 1])
        BY <1>2, <2>0, <4>1, <4>2
      <4> QED
        BY <1>6, <3>1, <4>1, <4>3
    <3>3. pNext'[e[j]] = pNext[s[j]] /\ pPrev'[e[j]] = pPrev[s[j]]
      BY <3>1, <3>2, <1>8
    <3>4. j # 1 => e[j - 1] = s[j - 1]
      BY <2>0, <2>1, <1>2, <1>9
    <3>5. pNext[s[j]] = s[j + 1] /\ pPrev[s[j]] = IF j = 1 THEN NULL ELSE s[j - 1]
      BY <2>0, <2>1, <1>2
    <3> QED
      BY <3>1, <3>3, <3>4, <3>5
  <2>2. CASE j = k - 1
    BY <2>2, <1>2, <1>6, <1>8, <1>9
  <2>3. CASE j = k
    BY <2>3, <1>2, <1>6, <1>8, <1>9
  <2>4. CASE j > k
    <3>1. j + 1 \in 1 .. n /\ j \in 1 .. n /\ e[j] = s[j + 1]
      BY <2>4, <1>2, <1>9
    <3>2. s[j + 1] \in Objects /\ s[j + 1] # pp /\ s[j + 1] # pn
      BY <2>4, <3>1, <1>2, <1>6
    <3>3. pNext'[e[j]] = pNext[s[j + 1]] /\ pPrev'[e[j]] = pPrev[s[j + 1]]
      BY <3>1, <3>2, <1>8
    <3>4. pPrev[s[j + 1]] = s[j] /\ e[j - 1] = s[j]
      BY <2>4, <3>1, <1>2, <1>9
    <3>5. pNext[s[j + 1]] = IF j + 1 = n THEN NULL ELSE s[j + 2]
      <4>1. (j + 1) + 1 = j + 2
        OBVIOUS
      <4> QED
        BY <4>1, <3>1, <1>2
    <3>6. j # n - 1 => e[j + 1] = s[j + 2]
      BY <2>4, <3>1, <1>2, <1>9
    <3> QED
      BY <2>4, <3>3, <3>4, <3>5, <3>6, <1>2
  <2>5. j < k - 1 \/ j = k - 1 \/ j = k \/ j > k
    BY <2>0
  <2> QED
    BY <2>1, <2>2, <2>3, <2>4, <2>5
<1>14. Chained(n - 1, e)'
  BY <1>10, <1>11, <1>12, <1>13 DEF Chained
<1>15. A \ {o} = {e[j] : j \in 1 .. n - 1}
  <2>1. ASSUME NEW j \in 1 .. n - 1
        PROVE  e[j] \in A \ {o}
    BY <1>1, <1>2, <1>3, <1>9
  <2>2. ASSUME NEW u \in A \ {o}
        PROVE  \E j \in 1 .. n - 1 : u = e[j]
    <3>1. PICK i \in 1 .. n : u = s[i]
      BY <1>1
    <3>2. i # k
      BY <1>3, <3>1
    <3>3. CASE i < k
      BY <3>1, <3>3, <1>2, <1>9
    <3>4. CASE i > k
      <4>1. i - 1 \in 1 .. n - 1 /\ e[i - 1] = s[i]
        BY <3>4, <1>2, <1>9
      <4> QED
        BY <3>1, <4>1
    <3> QED
      BY <3>2, <3>3, <3>4, <1>2
  <2> QED
    BY <2>1, <2>2
<1> QED
  BY <1>14, <1>15 DEF Holds

-----------------------------------------------------------------------------
(* Who is in the list *)

\* Between its AddThread and its RemoveThread.
InList(b) == bpc[b] \notin {"free", "new", "add"}

\* The inductive invariant of the list: it holds the registered objects, each
\* registered by one body.
RegistryInv ==
  /\ Holds(Registered)
  /\ \A b1, b2 \in Bodies :
       InList(b1) /\ InList(b2) /\ bobj[b1] = bobj[b2] => b1 = b2

\* A walk finds the objects the list holds.
LEMMA HoldsListed ==
  ASSUME NEW A, Holds(A)
  PROVE  Listed = A /\ WalkEnds
BY ChainListed DEF Holds

\* An object that is added is registered from then on.
LEMMA RegisterRegistry ==
  ASSUME ThreadInv, RegistryInv, AddedWhenUnlisted, NEW b \in Bodies, Register(b)
  PROVE  RegistryInv'
<1>1. /\ bpc[b] = "add" /\ bpc' = [bpc EXCEPT ![b] = "loop"]
      /\ bpc \in [Bodies -> BodyPCs] /\ bobj' = bobj
      /\ AddThread(bobj[b]) /\ bobj[b] \in Objects
  BY DEF ThreadInv, TypeOK, Assigned, Register, BodyAt, BodyGoes
<1>2. bobj[b] \notin Registered
  BY <1>1, HoldsListed DEF RegistryInv, AddedWhenUnlisted, HasThread
<1>3. \A x \in Bodies : InList(x)' <=> InList(x) \/ x = b
  BY <1>1 DEF InList
<1>4. Registered' = Registered \cup {bobj[b]}
  BY <1>1, <1>3 DEF Registered, InList
<1>5. PICK A : A = Registered
  OBVIOUS
<1>6. PICK o : o = bobj[b]
  OBVIOUS
<1>7. Holds(A \cup {o})'
  BY <1>1, <1>2, <1>5, <1>6, Adds DEF RegistryInv, ThreadInv
<1>8. \A x \in Bodies : InList(x) => bobj[x] # bobj[b]
  BY <1>2 DEF Registered, InList
<1> QED
  BY <1>1, <1>3, <1>4, <1>5, <1>6, <1>7, <1>8 DEF RegistryInv

\* An object that is removed is registered no longer.
LEMMA LeaveRegistry ==
  ASSUME ThreadInv, RegistryInv, NEW b \in Bodies, Leave(b)
  PROVE  RegistryInv'
<1>1. /\ bpc[b] = "remove" /\ bpc' = [bpc EXCEPT ![b] = "free"]
      /\ bpc \in [Bodies -> BodyPCs] /\ bobj' = [bobj EXCEPT ![b] = NULL]
      /\ bobj \in [Bodies -> Objects \cup {NULL}] /\ RemoveThread(bobj[b])
  BY DEF ThreadInv, TypeOK, Leave, BodyAt, BodyGoes
<1>2. \A x \in Bodies : InList(x)' <=> InList(x) /\ x # b
  BY <1>1 DEF InList
<1>3. InList(b) /\ bobj[b] \in Registered
  BY <1>1 DEF Registered, InList
<1>4. Registered' = Registered \ {bobj[b]}
  <2>1. \A x \in Bodies : x # b => bobj'[x] = bobj[x]
    BY <1>1
  <2>2. \A x \in Bodies : x # b /\ InList(x) => bobj[x] # bobj[b]
    BY <1>3 DEF RegistryInv
  <2>3. Registered = {bobj[x] : x \in {y \in Bodies : InList(y)}}
    BY DEF Registered, InList
  <2>4. Registered' = {bobj'[x] : x \in {y \in Bodies : InList(y)'}}
    BY DEF Registered, InList
  <2> QED
    BY <1>2, <2>1, <2>2, <2>3, <2>4
<1>5. PICK A : A = Registered
  OBVIOUS
<1>6. PICK o : o = bobj[b]
  OBVIOUS
<1>7. Holds(A \ {o})'
  BY <1>1, <1>3, <1>5, <1>6, Removes DEF RegistryInv, ThreadInv
<1> QED
  BY <1>1, <1>2, <1>4, <1>5, <1>6, <1>7 DEF RegistryInv

\* Every other step of a body or a client leaves the list and who is in it.
LEMMA SameRegistry ==
  ASSUME RegistryInv, UNCHANGED registry,
         \A b \in Bodies : InList(b)' <=> InList(b),
         \A b \in Bodies : InList(b) => bobj'[b] = bobj[b]
  PROVE  RegistryInv'
<1>1. Registered' = Registered
  BY DEF Registered, InList
<1>2. PICK A : A = Registered
  OBVIOUS
<1>3. Holds(A)'
  <2>1. PICK n, s : Chained(n, s) /\ A = {s[k] : k \in 1 .. n}
    BY <1>2 DEF RegistryInv, Holds
  <2>2. Chained(n, s)'
    BY <2>1 DEF Chained, registry
  <2> QED
    BY <2>1, <2>2 DEF Holds
<1> QED
  BY <1>1, <1>2, <1>3 DEF RegistryInv

\* Every step keeps it as long as no object is added that is listed.
LEMMA NextRegistry ==
  ASSUME ThreadInv, RegistryInv, AddedWhenUnlisted, [Next]_vars
  PROVE  RegistryInv'
<1> USE DEF registry, body, client
<1>0. bpc \in [Bodies -> BodyPCs]
  BY DEF ThreadInv, TypeOK
<1>1. ASSUME NEW b \in Bodies, Register(b) \/ Leave(b)
      PROVE  RegistryInv'
  BY <1>1, RegisterRegistry, LeaveRegistry
<1>2. ASSUME NEW b \in Bodies, NEW to \in BodyPCs, BodyGoes(b, to),
             \/ bpc[b] = "new" /\ to = "add"
             \/ InList(b) /\ to \notin {"free", "new", "add"},
             UNCHANGED <<registry, bobj>>
      PROVE  RegistryInv'
  <2>1. \A x \in Bodies : InList(x)' <=> InList(x)
    <3>1. bpc' = [bpc EXCEPT ![b] = to]
      BY <1>2 DEF BodyGoes
    <3>2. \A x \in Bodies : x # b => bpc'[x] = bpc[x]
      BY <1>0, <3>1
    <3>3. bpc'[b] = to
      BY <1>0, <3>1
    <3> QED
      BY <1>2, <3>2, <3>3 DEF InList
  <2> QED
    BY <1>2, <2>1, SameRegistry
<1>3. ASSUME NEW b \in Bodies, BodyStep(b) \/ BodyChoice(b), ~Register(b), ~Leave(b)
      PROVE  RegistryInv'
  <2> USE DEF BodyPCs, BodyAt, InList
  <2>1. CASE StoreID(b)
    <3>1. bpc[b] = "new" /\ BodyGoes(b, "add") /\ UNCHANGED <<registry, bobj>>
      BY <2>1 DEF StoreID
    <3>2. "add" \in BodyPCs
      OBVIOUS
    <3> HIDE DEF BodyPCs
    <3> QED
      BY <3>1, <3>2, <1>2
  <2>2. CASE LoopTop(b) \/ ProcReturns(b)
    BY <2>2, <1>2 DEF LoopTop, ProcReturns
  <2>3. CASE Recv(b) \/ ClearMessage(b)
    BY <2>3, <1>2 DEF Recv, ClearMessage
  <2>4. CASE CheckWait(b) \/ PostDestroyer(b) \/ PostCreator(b)
    BY <2>4, <1>2 DEF CheckWait, PostDestroyer, PostCreator
  <2>5. CASE SelfDestroy(b) \/ SelfSet(b) \/ SelfSend(b)
    BY <2>5, <1>2 DEF SelfDestroy, SelfSet, SelfSend
  <2>6. ASSUME NEW w \in BOOLEAN, SelfAsk(b, w)
        PROVE  RegistryInv'
    BY <2>6, <1>2 DEF SelfAsk
  <2> QED
    BY <1>3, <2>1, <2>2, <2>3, <2>4, <2>5, <2>6 DEF BodyStep, BodyChoice
<1>4. ASSUME UNCHANGED <<registry, body>>
      PROVE  RegistryInv'
  BY <1>4, SameRegistry DEF InList
<1>5. ASSUME NEW c \in Clients, ClientStep(c) \/ ClientCall(c)
      PROVE  RegistryInv'
  <2>1. CASE Spawn(c)
    <3>1. CASE UNCHANGED body
      BY <2>1, <3>1, <1>4 DEF Spawn
    <3>2. ASSUME NEW b \in Bodies, BodyAt(b, "free"), BodyGoes(b, "new"),
                 bobj' = [bobj EXCEPT ![b] = cobj[c]]
          PROVE  RegistryInv'
      <4>1. \A x \in Bodies : InList(x)' <=> InList(x)
        BY <1>0, <3>2 DEF InList, BodyGoes, BodyAt
      <4>2. \A x \in Bodies : InList(x) => bobj'[x] = bobj[x]
        BY <3>2 DEF InList, BodyAt, ThreadInv, TypeOK
      <4>3. UNCHANGED registry
        BY <2>1 DEF Spawn
      <4> QED
        BY <4>1, <4>2, <4>3, SameRegistry
    <3> QED
      BY <2>1, <3>1, <3>2 DEF Spawn
  <2>2. CASE ~Spawn(c)
    BY <1>5, <2>2, <1>4 DEF ClientStep, ClientCall, TakeCreator, DestroyCheck,
       DestroySet, DestroySend, DestroyFlag, DestroyRead, DestroySem,
       CreateThread, DestroyThread, Stop
  <2> QED
    BY <2>1, <2>2
<1>6. ASSUME NEW o \in Objects, SendData(o) \/ QuitMessage(o)
      PROVE  RegistryInv'
  BY <1>6, <1>4 DEF SendData, QuitMessage
<1>7. CASE UNCHANGED vars
  BY <1>7, <1>4 DEF vars
<1> QED
  BY <1>1, <1>3, <1>5, <1>6, <1>7 DEF Next

\* Nothing is registered at first.
LEMMA InitRegistry == Init => RegistryInv
<1> SUFFICES ASSUME Init PROVE RegistryInv
  OBVIOUS
<1>1. Registered = {} /\ \A b \in Bodies : ~InList(b)
  BY DEF Init, Registered, InList
<1>2. PICK s : s = [k \in 1 .. 0 |-> CHOOSE o \in Objects : TRUE]
  OBVIOUS
<1>3. Chained(0, s)
  BY <1>2 DEF Init, Chained
<1>4. Holds({})
  <2>1. {} = {s[k] : k \in 1 .. 0}
    OBVIOUS
  <2> QED
    BY <1>3, <2>1 DEF Holds
<1> QED
  BY <1>1, <1>4 DEF RegistryInv

\* What the invariant says of a walk.
LEMMA RegistryHolds ==
  ASSUME RegistryInv
  PROVE  RegistryExact
<1>1. PICK n, s : Chained(n, s) /\ Registered = {s[k] : k \in 1 .. n}
  BY DEF RegistryInv, Holds
<1>2. Listed = {s[k] : k \in 1 .. n} /\ WalkEnds
  BY <1>1, ChainListed
<1>3. ASSUME NEW o \in Listed
      PROVE  /\ pPrev[o] = NULL <=> o = head
             /\ pNext[o] # NULL => pPrev[pNext[o]] = o
  <2>1. PICK k \in 1 .. n : o = s[k]
    BY <1>2
  <2>2. /\ n \in Nat /\ s \in [1 .. n -> Objects]
        /\ \A i, j \in 1 .. n : s[i] = s[j] => i = j
        /\ head = IF n = 0 THEN NULL ELSE s[1]
        /\ \A j \in 1 .. n : /\ pNext[s[j]] = IF j = n THEN NULL ELSE s[j + 1]
                             /\ pPrev[s[j]] = IF j = 1 THEN NULL ELSE s[j - 1]
    BY <1>1 DEF Chained
  <2>3. pPrev[o] = NULL <=> o = head
    <3>1. CASE k = 1
      BY <2>1, <2>2, <3>1
    <3>2. CASE k # 1
      <4>1. k - 1 \in 1 .. n /\ 1 \in 1 .. n /\ n # 0
        BY <2>2, <3>2
      <4> QED
        BY <2>1, <2>2, <3>2, <4>1, NoObject
    <3> QED
      BY <3>1, <3>2
  <2>4. ASSUME pNext[o] # NULL
        PROVE  pPrev[pNext[o]] = o
    <3>1. k # n /\ pNext[o] = s[k + 1]
      BY <2>1, <2>2, <2>4
    <3>2. k + 1 \in 1 .. n /\ k + 1 # 1 /\ (k + 1) - 1 = k
      BY <2>2, <3>1
    <3> QED
      BY <2>1, <2>2, <3>1, <3>2
  <2> QED
    BY <2>3, <2>4
<1> QED
  BY <1>1, <1>2, <1>3 DEF RegistryExact

\* As long as no object is added that is still listed, which is what the order
\* of EZThread.cpp:50-51 is for, the list is exact: a walk ends and meets the
\* objects between their AddThread and RemoveThread, forward and backward,
\* however many threads come and go in whatever order.
THEOREM RegistryIsExact == Spec /\ []AddedWhenUnlisted => []RegistryExact
<1>1. Init => RegistryInv
  BY InitRegistry
<1>2. ThreadInv /\ RegistryInv /\ AddedWhenUnlisted /\ [Next]_vars => RegistryInv'
  BY NextRegistry
<1>3. RegistryInv => RegistryExact
  BY RegistryHolds
<1> QED
  BY <1>1, <1>2, <1>3, Invariance, PTL DEF Spec

-----------------------------------------------------------------------------
(* Objects that are started once *)

\* A single client, which never starts an object again.
StartedOnce == "restart" \notin Ops /\ \A c, d \in Clients : c = d

\* An object has m_hThread set before it has a body, and never a second body.
FirstStart ==
  /\ \A b \in Bodies : bobj[b] # NULL => hThread[bobj[b]]
  /\ \A c \in Clients : cpc[c] \in {"cwait", "spawn"} => ~hThread[cobj[c]]
  /\ \A b1, b2 \in Bodies : bobj[b1] # NULL /\ bobj[b1] = bobj[b2] => b1 = b2

\* Then an object that is about to be added is not listed: the body that would
\* have listed it is the one that adds it.
LEMMA FirstStartUnlisted ==
  ASSUME ThreadInv, RegistryInv, FirstStart
  PROVE  AddedWhenUnlisted
<1> SUFFICES ASSUME NEW b \in Bodies, bpc[b] = "add", HasThread(bobj[b])
             PROVE  FALSE
  BY DEF AddedWhenUnlisted
<1>1. bobj[b] \in Registered
  BY HoldsListed DEF RegistryInv, HasThread
<1>2. PICK x \in Bodies : InList(x) /\ bobj[x] = bobj[b]
  BY <1>1 DEF Registered, InList
<1>3. bobj[b] # NULL
  BY DEF ThreadInv, Assigned
<1>4. x = b
  BY <1>2, <1>3 DEF FirstStart
<1> QED
  BY <1>2, <1>4 DEF InList

\* Steps that move no client into CreateThread and give no object a body.
LEMMA KeepsFirstStart ==
  ASSUME FirstStart, UNCHANGED hThread,
         \A b \in Bodies : bobj'[b] # NULL => bobj'[b] = bobj[b],
         \A c \in Clients : cpc'[c] \in {"cwait", "spawn"} =>
           cpc[c] \in {"cwait", "spawn"} /\ cobj'[c] = cobj[c]
  PROVE  FirstStart'
BY DEF FirstStart

\* Every step keeps it: CreateThread finds m_hThread unset, nobody else sets it
\* in between, and so the object it starts has no body.
LEMMA NextFirstStart ==
  ASSUME StartedOnce, ThreadInv, FirstStart, [Next]_vars
  PROVE  FirstStart'
<1> USE DEF flags, sems, mailbox, registry, body, client
<1>0. /\ bpc \in [Bodies -> BodyPCs] /\ bobj \in [Bodies -> Objects \cup {NULL}]
      /\ cpc \in [Clients -> ClientPCs] /\ cobj \in [Clients -> Objects \cup {NULL}]
      /\ hThread \in [Objects -> BOOLEAN]
      /\ \A c \in Clients : cobj[c] # NULL <=> cpc[c] # "idle"
  BY DEF ThreadInv, TypeOK, Assigned
<1>1. ASSUME UNCHANGED <<hThread, client>>,
             \A b \in Bodies : bobj'[b] # NULL => bobj'[b] = bobj[b]
      PROVE  FirstStart'
  BY <1>1, KeepsFirstStart
<1>2. ASSUME NEW b \in Bodies, BodyStep(b) \/ BodyChoice(b)
      PROVE  FirstStart'
  <2>1. CASE Leave(b)
    <3>1. bobj' = [bobj EXCEPT ![b] = NULL] /\ UNCHANGED <<hThread, client>>
      BY <2>1 DEF Leave
    <3>2. \A x \in Bodies : bobj'[x] # NULL => bobj'[x] = bobj[x]
      BY <1>0, <3>1
    <3> QED
      BY <1>1, <3>1, <3>2
  <2>2. CASE ~Leave(b)
    <3>1. UNCHANGED <<hThread, client, bobj>>
      BY <1>2, <2>2 DEF BodyStep, BodyChoice, StoreID, Register, LoopTop, Recv,
         ClearMessage, CheckWait, PostDestroyer, PostCreator, ProcReturns, SelfDestroy,
         SelfSet, SelfSend, SelfAsk
    <3> QED
      BY <1>1, <3>1
  <2> QED
    BY <2>1, <2>2
<1>3. ASSUME NEW c \in Clients, NEW to \in ClientPCs \ {"cwait"}, ClientGoes(c, to),
             to = "spawn" => cpc[c] = "cwait" /\ UNCHANGED cobj,
             to # "spawn" => \A d \in Clients : d # c => cobj'[d] = cobj[d],
             UNCHANGED <<hThread, body>>
      PROVE  FirstStart'
  <2>1. \A d \in Clients : cpc'[d] \in {"cwait", "spawn"} =>
           cpc[d] \in {"cwait", "spawn"} /\ cobj'[d] = cobj[d]
    BY <1>0, <1>3 DEF ClientGoes
  <2> QED
    BY <1>3, <2>1, KeepsFirstStart
<1>4. ASSUME NEW c \in Clients, ClientStep(c)
      PROVE  FirstStart'
  <2> USE DEF ClientAt, ClientPCs, Return
  <2>1. CASE TakeCreator(c)
    BY <2>1, <1>3 DEF TakeCreator
  <2>2. CASE Spawn(c)
    <3>1. /\ cpc[c] = "spawn" /\ cobj[c] \in Objects /\ ~hThread[cobj[c]]
          /\ cpc' = [cpc EXCEPT ![c] = "idle"]
      BY <1>0, <2>2 DEF Spawn, ClientGoes, FirstStart
    <3>2. \A d \in Clients : cpc'[d] = "idle"
      BY <1>0, <3>1 DEF StartedOnce
    <3>3. CASE UNCHANGED <<hThread, body>>
      BY <3>2, <3>3, KeepsFirstStart
    <3>4. ASSUME NEW b \in Bodies, BodyAt(b, "free"),
                 hThread' = [hThread EXCEPT ![cobj[c]] = TRUE],
                 bobj' = [bobj EXCEPT ![b] = cobj[c]]
          PROVE  FirstStart'
      <4>1. \A x \in Bodies : bobj[x] # cobj[c]
        BY <3>1, NoObject DEF FirstStart
      <4>2. \A x \in Bodies : bobj'[x] = IF x = b THEN cobj[c] ELSE bobj[x]
        BY <1>0, <3>4
      <4>3. \A o \in Objects : hThread'[o] <=> hThread[o] \/ o = cobj[c]
        BY <1>0, <3>4
      <4>4. \A x \in Bodies : bobj'[x] # NULL => hThread'[bobj'[x]]
        BY <1>0, <3>1, <4>2, <4>3 DEF FirstStart
      <4>5. \A x, y \in Bodies : bobj'[x] # NULL /\ bobj'[x] = bobj'[y] => x = y
        BY <4>1, <4>2 DEF FirstStart
      <4> QED
        BY <3>2, <4>4, <4>5 DEF FirstStart
    <3> QED
      BY <2>2, <3>3, <3>4 DEF Spawn
  <2>3. CASE DestroyCheck(c)
    BY <1>0, <2>3, <1>3 DEF DestroyCheck
  <2>4. CASE DestroySet(c) \/ DestroySend(c) \/ DestroyFlag(c)
    BY <2>4, <1>3 DEF DestroySet, DestroySend, DestroyFlag
  <2>5. CASE DestroyRead(c)
    BY <1>0, <2>5, <1>3 DEF DestroyRead
  <2>6. CASE DestroySem(c)
    BY <1>0, <2>6, <1>3 DEF DestroySem
  <2> QED
    BY <1>4, <2>1, <2>2, <2>3, <2>4, <2>5, <2>6 DEF ClientStep
<1>5. ASSUME NEW c \in Clients, ClientCall(c)
      PROVE  FirstStart'
  <2>1. ASSUME NEW o \in Objects, CreateThread(c, o)
        PROVE  FirstStart'
    <3>1. /\ ~hThread[o] /\ cpc' = [cpc EXCEPT ![c] = "cwait"]
          /\ cobj' = [cobj EXCEPT ![c] = o] /\ UNCHANGED <<hThread, body>>
      BY <2>1 DEF CreateThread, Call, ClientGoes, StartedOnce
    <3>2. \A d \in Clients : d = c
      BY DEF StartedOnce
    <3>3. \A d \in Clients : cobj'[d] = o
      BY <1>0, <3>1, <3>2
    <3> QED
      BY <3>1, <3>3 DEF FirstStart
  <2>2. ASSUME NEW o \in Objects, NEW w \in BOOLEAN,
               DestroyThread(c, o, w) \/ Stop(c, o)
        PROVE  FirstStart'
    BY <1>0, <2>2, <1>3 DEF DestroyThread, Stop, Call, ClientPCs
  <2> QED
    BY <1>5, <2>1, <2>2 DEF ClientCall
<1>6. ASSUME NEW o \in Objects, SendData(o) \/ QuitMessage(o)
      PROVE  FirstStart'
  BY <1>6, <1>1 DEF SendData, QuitMessage
<1>7. CASE UNCHANGED vars
  BY <1>7, <1>1 DEF vars
<1> QED
  BY <1>2, <1>4, <1>5, <1>6, <1>7 DEF Next

\* Where one client starts each object once, no object is added that is listed
\* (EZThread.cpp:50-51), and so the list is exact.
THEOREM RegistryOfFirstStarts ==
  ASSUME StartedOnce
  PROVE  Spec => [](AddedWhenUnlisted /\ RegistryExact)
<1>1. Init => RegistryInv /\ FirstStart
  <2>1. Init => FirstStart
    BY DEF Init, FirstStart
  <2> QED
    BY <2>1, InitRegistry
<1>2. ThreadInv /\ RegistryInv /\ FirstStart => AddedWhenUnlisted /\ RegistryExact
  BY FirstStartUnlisted, RegistryHolds
<1>3. ThreadInv /\ RegistryInv /\ FirstStart /\ [Next]_vars => RegistryInv' /\ FirstStart'
  BY FirstStartUnlisted, NextRegistry, NextFirstStart
<1> QED
  BY <1>1, <1>2, <1>3, Invariance, PTL DEF Spec
=============================================================================
