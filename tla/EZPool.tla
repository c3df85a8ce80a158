------------------------------- MODULE EZPool -------------------------------
(***************************************************************************)
(* CEZPool (EZPoolAllocator.h, .cpp): elements of one size, cut from chunks*)
(* that are never given back, with the free ones linked through their own  *)
(* memory.  The lists of all message queues draw their nodes from one such *)
(* pool (EZMsgQue.h:50), each under its own queue's mutex, so it is the    *)
(* pool's mutex alone that keeps the threads apart.                        *)
(*                                                                         *)
(* Every step of alloc, grow and free is an action, with the pool's mutex  *)
(* taken and given back where the code does.  An element is named by its   *)
(* chunk and its place in it.                                              *)
(***************************************************************************)
EXTENDS Integers, FiniteSets

CONSTANTS
  Threads,
  MaxChunks,   \* chunks the program can make: a bound of the model
  MaxSize,     \* elements of the largest chunk: a bound of the model
  ChunkSizes,  \* values ecount can have (setec; EZPoolAllocator.cpp:17-18
               \* asks callers to set it once, and 0 is not a chunk)
  NULL

ASSUME PoolAssumption ==
  /\ MaxChunks \in Nat \ {0} /\ MaxSize \in Nat \ {0}
  /\ ChunkSizes \subseteq 1 .. MaxSize
  /\ NULL \notin Threads \cup ((1 .. MaxChunks) \X (1 .. MaxSize))

VARIABLES
  ecount,  \* elements of the next chunk
  chunks,  \* the size of each chunk made so far, 0 for the others
  head,    \* first free element
  next,    \* Link::next of the elements; NULL in those a user has
  mutex,   \* who holds the mutex
  pc,      \* where each thread stands
  elem,    \* p in alloc, b in free
  used     \* the elements that are allocated

vars == <<ecount, chunks, head, next, mutex, pc, elem, used>>

Elements == (1 .. MaxChunks) \X (1 .. MaxSize)
Cut == {e \in Elements : e[2] <= chunks[e[1]]}

Init ==
  /\ ecount \in ChunkSizes
  /\ chunks = [c \in 1 .. MaxChunks |-> 0]
  /\ head = NULL
  /\ next = [e \in Elements |-> NULL]
  /\ mutex = NULL
  /\ pc = [t \in Threads |-> "idle"]
  /\ elem = [t \in Threads |-> NULL]
  /\ used = {}

At(t, label) == pc[t] = label
Goto(t, label) == pc' = [pc EXCEPT ![t] = label]

-----------------------------------------------------------------------------
(* alloc and grow *)

\* Bound of the model: there is a chunk left to make, or a free element.
RoomToGrow == head # NULL \/ chunks[MaxChunks] = 0

Alloc(t) ==
  /\ At(t, "idle") /\ mutex = NULL /\ RoomToGrow
  /\ mutex' = t
  /\ Goto(t, "alloc")
  /\ UNCHANGED <<ecount, chunks, head, next, elem, used>>

\* Mutation: the last element of a chunk links to the place after it.
SuccessorPastEnd(c, j) == <<c, IF j < MaxSize THEN j + 1 ELSE 1>>

\* The link grow writes into the j-th element of the new chunk c.
Successor(c, j) == IF j < ecount THEN <<c, j + 1>> ELSE NULL

\* if (head == 0) grow(): the next chunk becomes the free list.
Grow(t, c) ==
  /\ At(t, "alloc") /\ head = NULL
  /\ chunks[c] = 0 /\ \A b \in 1 .. c - 1 : chunks[b] # 0
  /\ chunks' = [chunks EXCEPT ![c] = ecount]
  /\ next' = [e \in Elements |-> IF e[1] = c /\ e[2] <= ecount
                                 THEN Successor(c, e[2]) ELSE next[e]]
  /\ head' = <<c, 1>>
  /\ Goto(t, "take")
  /\ UNCHANGED <<ecount, mutex, elem, used>>

NoGrow(t) ==
  /\ At(t, "alloc") /\ head # NULL
  /\ Goto(t, "take")
  /\ UNCHANGED <<ecount, chunks, head, next, mutex, elem, used>>

\* Link *p = head
TakeHead(t) ==
  /\ At(t, "take")
  /\ elem' = [elem EXCEPT ![t] = head]
  /\ Goto(t, "pop")
  /\ UNCHANGED <<ecount, chunks, head, next, mutex, used>>

Returns(t) ==
  /\ Goto(t, "idle")
  /\ elem' = [elem EXCEPT ![t] = NULL]
  /\ mutex' = NULL

\* head = p->next, and the user gets p, whose link it overwrites.
PopHead(t) ==
  /\ At(t, "pop")
  /\ head' = next[elem[t]]
  /\ next' = [next EXCEPT ![elem[t]] = NULL]
  /\ used' = used \cup {elem[t]}
  /\ Returns(t)
  /\ UNCHANGED <<ecount, chunks>>

-----------------------------------------------------------------------------
(* free, for any element that is allocated: nodes go from thread to thread *)

\* Mutation: free does not lock the mutex, which it may even find locked.
FreeUnlocked(t, e) ==
  /\ At(t, "idle") /\ e \in used
  /\ used' = used \ {e}
  /\ elem' = [elem EXCEPT ![t] = e]
  /\ Goto(t, "link")
  /\ UNCHANGED <<ecount, chunks, head, next, mutex>>

FreeElement(t, e) ==
  /\ At(t, "idle") /\ mutex = NULL /\ e \in used
  /\ used' = used \ {e}
  /\ elem' = [elem EXCEPT ![t] = e]
  /\ mutex' = t
  /\ Goto(t, "link")
  /\ UNCHANGED <<ecount, chunks, head, next>>

\* p->next = head
LinkElement(t) ==
  /\ At(t, "link")
  /\ next' = [next EXCEPT ![elem[t]] = head]
  /\ Goto(t, "push")
  /\ UNCHANGED <<ecount, chunks, head, mutex, elem, used>>

\* Mutation: the new first element is not stored.
PushNothing(t) ==
  /\ At(t, "push")
  /\ Returns(t)
  /\ UNCHANGED <<ecount, chunks, head, next, used>>

\* head = p
Push(t) ==
  /\ At(t, "push")
  /\ head' = elem[t]
  /\ Returns(t)
  /\ UNCHANGED <<ecount, chunks, next, used>>

setec(n) ==
  /\ mutex = NULL
  /\ ecount' = n
  /\ UNCHANGED <<chunks, head, next, mutex, pc, elem, used>>

-----------------------------------------------------------------------------
Step(t) == \/ NoGrow(t) \/ TakeHead(t) \/ PopHead(t)
           \/ LinkElement(t) \/ Push(t)
           \/ \E c \in 1 .. MaxChunks : Grow(t, c)

Next == \/ \E t \in Threads : \/ Alloc(t) \/ Step(t)
                              \/ \E e \in used : FreeElement(t, e)
        \/ \E n \in ChunkSizes : setec(n)

Spec == Init /\ [][Next]_vars

-----------------------------------------------------------------------------
(* Properties *)

\* Every variable holds a value of its kind.
TypeOK ==
  /\ ecount \in ChunkSizes
  /\ chunks \in [1 .. MaxChunks -> ChunkSizes \cup {0}]
  /\ head \in Cut \cup {NULL}
  /\ next \in [Elements -> Elements \cup {NULL}]
  /\ mutex \in Threads \cup {NULL}
  /\ pc \in [Threads -> {"idle", "alloc", "take", "pop", "link", "push"}]
  /\ elem \in [Threads -> Cut \cup {NULL}]
  /\ used \subseteq Cut

\* The element a thread is giving back, and those nobody has.
Returned == {elem[t] : t \in {u \in Threads : pc[u] \in {"link", "push"}}}
Spare == Cut \ (used \cup Returned)

\* An element is allocated to one user at a time ("thread safe",
\* EZPoolAllocator.cpp:22): what alloc will hand out next, and whatever
\* follows it, is nobody's, each place of the free list once.
HandedOutOnce ==
  /\ head # NULL => head \in Spare
  /\ \A e \in Spare : next[e] # NULL => next[e] \in Spare /\ next[e] # head
  /\ \A e, f \in Spare : next[e] = next[f] /\ next[e] # NULL => e = f

\* s is the free list, from head on.
FreeList(n, s) ==
  /\ \A e \in Spare : \E i \in 1 .. n : s[i] = e
  /\ head = IF n = 0 THEN NULL ELSE s[1]
  /\ \A i \in 1 .. n : next[s[i]] = IF i = n THEN NULL ELSE s[i + 1]

\* No element is lost: the free list ends, and holds each element that nobody
\* has.
NothingLeaks ==
  LET n == Cardinality(Spare) IN \E s \in [1 .. n -> Spare] : FreeList(n, s)

Store == INSTANCE ElementStore WITH made <- Cut

\* The pool is a store of elements: alloc takes one that nobody has, free gives
\* one back, and a chunk is made only when every element so far is somebody's,
\* however the calls of several threads overlap (EZPoolAllocator.cpp:20:
\* memory is never given back, so a chunk made needlessly would stay).
ImplementsElementStore == Store!Spec
=============================================================================
