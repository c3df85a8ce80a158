------------------------------ MODULE EZPacket ------------------------------
(***************************************************************************)
(* CPacketManager and CPacket (tutorial ezPacket): a buddy allocator over  *)
(* a fixed number of pages, and packets that are shared by reference count *)
(* and go back to it when their last reference is released.                *)
(*                                                                         *)
(* GetPacket and PutPacket run under CPacketManager::m_Mutex; the rounds   *)
(* of their loops are steps of their own here, with the node they are at   *)
(* in hand.  AddRef and the counting part of Release run under the         *)
(* packet's m_Mutex and are single steps, which interleave with them;      *)
(* Release calls PutPacket after it has unlocked the packet.  GetPacket    *)
(* rounds a request up to a power of two of pages (Packet.cpp:514), so the *)
(* branches for other sizes (:542-563, :605-645) are never taken.          *)
(***************************************************************************)
EXTENDS Integers, FiniteSets

CONSTANTS
  PageCount, \* m_nPages
  PageSize,  \* PKT_PAGE_SIZE
  Requests,  \* sizes in bytes callers ask for
  Threads,
  Handles,   \* references callers can hold (HANDLE of MEMORY_BLOCK)
  Packets,   \* CPacket objects the program can make: a bound of the model
  NALL,      \* how many of them AllocPacket makes at a time
  NULL

\* 4096 is PKT_KILOS_DEFAULT, the largest store the file knows; no larger level
\* than 13 is needed for a request.
ASSUME PacketAssumption ==
  /\ PageCount \in 1 .. 4096
  /\ PageSize \in Nat \ {0} /\ NALL \in Nat \ {0, 1}
  /\ Requests \subseteq 0 .. 8192 * PageSize
  /\ IsFiniteSet(Handles)
  /\ NULL \notin Threads \cup Handles \cup Packets \cup Nat \cup (Nat \X Nat)

VARIABLES
  header,   \* pHeader of each level's free ring
  next,     \* pNext of each node; NULL unless the node is in the ring
  prev,     \* pPrev of each node; NULL outside the rings
  made,     \* CPacket objects that exist
  shells,   \* the list from m_pFreeList on, in no order
  size,     \* m_Size in pages
  buffer,   \* m_pBuffer as a page number
  ref,      \* m_RefCount
  handle,   \* the packet behind each reference a caller holds
  mutex,    \* who holds CPacketManager::m_Mutex
  pc,       \* where each thread stands
  cur,      \* the packet of a thread's call
  ret,      \* the reference its GetPacket will return
  type,     \* the level GetPacket needs (of the thread that holds the mutex)
  hand      \* the node <<i, index>> its loop is at

ring   == <<header, next, prev>>
packet == <<made, shells, size, buffer, ref>>
thread == <<mutex, pc, cur, ret, type, hand>>
vars   == <<ring, packet, handle, thread>>

-----------------------------------------------------------------------------
(* The nodes *)

MaxLevel == 12
Levels == {i \in 0 .. MaxLevel : 2^i <= PageCount}
IsTop(i) == i + 1 \notin Levels

\* nCount: as many nodes as cover all the pages, and an even number of them.
Count(i) == 2 * ((PageCount + 2^(i + 1) - 1) \div 2^(i + 1))
Nodes == {x \in Levels \X (0 .. PageCount) : x[2] < Count(x[1])}

Buddy(x) == <<x[1], IF x[2] % 2 = 1 THEN x[2] - 1 ELSE x[2] + 1>>

Parent(x) == <<x[1] + 1, x[2] \div 2>>
LeftChild(x) == <<x[1] - 1, 2 * x[2]>>

\* Mutation: the half that is kept goes to the free ring as well.
SameHalf(x) == <<x[1] - 1, 2 * x[2]>>

RightChild(x) == <<x[1] - 1, 2 * x[2] + 1>>

\* One node for each bit that is set in m_nPages.
InitialNodes == {<<i, PageCount \div 2^i - 1>> :
                   i \in {j \in Levels : (PageCount \div 2^j) % 2 = 1}}

InitialHeader(i) ==
  LET x == <<i, PageCount \div 2^i - 1>>
  IN IF x \in InitialNodes THEN x ELSE NULL

Init ==
  /\ header = [i \in Levels |-> InitialHeader(i)]
  /\ next = [x \in Nodes |-> IF x \in InitialNodes THEN x ELSE NULL]
  /\ prev = [x \in Nodes |-> IF x \in InitialNodes THEN x ELSE NULL]
  /\ made = {} /\ shells = {}
  /\ size = [p \in Packets |-> 0] /\ buffer = [p \in Packets |-> NULL]
  /\ ref = [p \in Packets |-> 0]
  /\ handle = [h \in Handles |-> NULL]
  /\ mutex = NULL
  /\ pc = [t \in Threads |-> "idle"] /\ cur = [t \in Threads |-> NULL]
  /\ ret = [t \in Threads |-> NULL]
  /\ type = 0 /\ hand = NULL

-----------------------------------------------------------------------------
(* The free rings *)

Free == {x \in Nodes : next[x] # NULL}

InsertFree(x) ==
  LET first == header[x[1]]
      last  == prev[first]
  IN /\ header' = [header EXCEPT ![x[1]] = x]
     /\ \/ /\ first # NULL
           /\ next' = [next EXCEPT ![last] = x, ![x] = first]
           /\ prev' = [prev EXCEPT ![x] = last, ![first] = x]
        \/ /\ first = NULL
           /\ next' = [next EXCEPT ![x] = x]
           /\ prev' = [prev EXCEPT ![x] = x]

\* Mutation: the successor keeps its pPrev.
RemoveOneWay(x) ==
  /\ header' = IF header[x[1]] # x THEN header
               ELSE [header EXCEPT ![x[1]] = IF next[x] = x THEN NULL ELSE next[x]]
  /\ next' = [next EXCEPT ![prev[x]] = next[x], ![x] = NULL]
  /\ prev' = [prev EXCEPT ![x] = NULL]

\* The only node of a ring leaves no header.  The pPrev of a node outside the
\* rings is never read: it is forgotten.
RemoveFree(x) ==
  /\ header' = IF header[x[1]] # x THEN header
               ELSE [header EXCEPT ![x[1]] = IF next[x] = x THEN NULL ELSE next[x]]
  /\ next' = [next EXCEPT ![prev[x]] = next[x], ![x] = NULL]
  /\ prev' = [prev EXCEPT ![next[x]] = prev[x], ![x] = NULL]

-----------------------------------------------------------------------------
(* Packet shells and references *)

\* AllocPacket and Init: a free shell, or the first of a new chunk of NALL.
AllocPacket(p) ==
  /\ \/ shells # {} /\ p \in shells /\ shells' = shells \ {p} /\ UNCHANGED made
     \/ /\ shells = {}
        /\ \E chunk \in SUBSET (Packets \ made) :
             /\ Cardinality(chunk) = NALL /\ p \in chunk
             /\ made' = made \cup chunk
             /\ shells' = chunk \ {p}
  /\ ref' = [ref EXCEPT ![p] = 1]
  /\ size' = [size EXCEPT ![p] = 0]
  /\ buffer' = [buffer EXCEPT ![p] = NULL]

\* What is left in the fields of a free shell means nothing, as Init sets them
\* all: they are forgotten here.
FreePacket(p) ==
  /\ shells' = shells \cup {p}
  /\ size' = [size EXCEPT ![p] = 0]
  /\ buffer' = [buffer EXCEPT ![p] = NULL]
  /\ ref' = [ref EXCEPT ![p] = 0]

Unclaimed(h) == handle[h] = NULL /\ \A t \in Threads : ret[t] # h

\* Mutation: the new reference is not counted.
AddNoRef(t, h, g) ==
  /\ pc[t] = "idle" /\ handle[h] # NULL /\ Unclaimed(g)
  /\ handle' = [handle EXCEPT ![g] = handle[h]]
  /\ UNCHANGED <<ring, packet, thread>>

\* AddRef: whoever holds a reference makes another one, for anybody.
AddRef(t, h, g) ==
  /\ pc[t] = "idle" /\ handle[h] # NULL /\ Unclaimed(g)
  /\ ref' = [ref EXCEPT ![handle[h]] = @ + 1]
  /\ handle' = [handle EXCEPT ![g] = handle[h]]
  /\ UNCHANGED <<ring, made, shells, size, buffer, thread>>

\* Mutation: the packet is recycled while a reference is left.
ReleaseEarly(t, h) ==
  LET p == handle[h] IN
  /\ pc[t] = "idle" /\ p # NULL
  /\ handle' = [handle EXCEPT ![h] = NULL]
  /\ ref' = [ref EXCEPT ![p] = @ - 1]
  /\ \/ ref[p] \in {1, 2} /\ pc' = [pc EXCEPT ![t] = "put"]
                          /\ cur' = [cur EXCEPT ![t] = p]
     \/ ref[p] > 2 /\ UNCHANGED <<pc, cur>>
  /\ UNCHANGED <<ring, made, shells, size, buffer, mutex, ret, type, hand>>

\* Release up to its Unlock; the last one goes on to PutPacket.
Release(t, h) ==
  LET p == handle[h] IN
  /\ pc[t] = "idle" /\ p # NULL
  /\ handle' = [handle EXCEPT ![h] = NULL]
  /\ ref' = [ref EXCEPT ![p] = @ - 1]
  /\ \/ ref[p] = 1 /\ pc' = [pc EXCEPT ![t] = "put"]
                   /\ cur' = [cur EXCEPT ![t] = p]
     \/ ref[p] > 1 /\ UNCHANGED <<pc, cur>>
  /\ UNCHANGED <<ring, made, shells, size, buffer, mutex, ret, type, hand>>

-----------------------------------------------------------------------------
(* GetPacket *)

\* The smallest level whose nodes hold the bytes.
NeedsLevel(bytes, k) ==
  LET pages == (bytes + PageSize - 1) \div PageSize
  IN 2^k >= pages /\ (k > 0 => 2^(k - 1) < pages)

\* A packet without a buffer.
GetHeaderOnly(t, h) ==
  /\ pc[t] = "idle" /\ mutex = NULL /\ Unclaimed(h) /\ 0 \in Requests
  /\ \E p \in Packets : AllocPacket(p) /\ handle' = [handle EXCEPT ![h] = p]
  /\ UNCHANGED <<ring, thread>>

GetPacket(t, h, bytes) ==
  /\ pc[t] = "idle" /\ mutex = NULL /\ Unclaimed(h) /\ bytes > 0
  /\ \E p \in Packets : AllocPacket(p) /\ cur' = [cur EXCEPT ![t] = p]
  /\ \E k \in 0 .. MaxLevel + 1 : NeedsLevel(bytes, k) /\ type' = k
  /\ mutex' = t
  /\ pc' = [pc EXCEPT ![t] = "search"]
  /\ ret' = [ret EXCEPT ![t] = h]
  /\ UNCHANGED <<ring, handle, hand>>

Ends(t) ==
  /\ mutex' = NULL
  /\ pc' = [pc EXCEPT ![t] = "idle"]
  /\ cur' = [cur EXCEPT ![t] = NULL]
  /\ ret' = [ret EXCEPT ![t] = NULL]
  /\ type' = 0 /\ hand' = NULL

\* Mutation: only the level that fits is looked at.
FirstFreeExact(i) == i \in Levels /\ i = type /\ header[i] # NULL

\* The level the search stops at.
FirstFree(i) ==
  /\ i \in Levels /\ i >= type /\ header[i] # NULL
  /\ \A j \in Levels : type <= j /\ j < i => header[j] = NULL

Take(t) ==
  /\ pc[t] = "search"
  /\ \E i \in Levels :
       /\ FirstFree(i)
       /\ RemoveFree(header[i])
       /\ size' = [size EXCEPT ![cur[t]] = 2^type]
       /\ buffer' = [buffer EXCEPT ![cur[t]] = header[i][2] * 2^i]
       /\ hand' = header[i]
  /\ pc' = [pc EXCEPT ![t] = "split"]
  /\ UNCHANGED <<made, shells, ref, handle, mutex, cur, ret, type>>

\* GetPacket returns NULL.
Refuse(t) ==
  /\ pc[t] = "search"
  /\ \A i \in Levels : ~FirstFree(i)
  /\ FreePacket(cur[t])
  /\ Ends(t)
  /\ UNCHANGED <<ring, made, handle>>

\* The node is larger than needed: its right half becomes free.
Split(t) ==
  /\ pc[t] = "split" /\ hand[1] > type
  /\ InsertFree(RightChild(hand))
  /\ hand' = LeftChild(hand)
  /\ UNCHANGED <<packet, handle, mutex, pc, cur, ret, type>>

GetReturns(t) ==
  /\ pc[t] = "split" /\ hand[1] <= type
  /\ handle' = [handle EXCEPT ![ret[t]] = cur[t]]
  /\ Ends(t)
  /\ UNCHANGED <<ring, packet>>

-----------------------------------------------------------------------------
(* PutPacket *)

PutHeaderOnly(t) ==
  /\ pc[t] = "put" /\ mutex = NULL
  /\ size[cur[t]] = 0 \/ buffer[cur[t]] = NULL
  /\ FreePacket(cur[t])
  /\ Ends(t)
  /\ UNCHANGED <<ring, made, handle>>

\* Level and index of the node are computed from m_Size and m_pBuffer.
PutPacket(t) ==
  LET p == cur[t] IN
  /\ pc[t] = "put" /\ mutex = NULL
  /\ size[p] # 0 /\ buffer[p] # NULL
  /\ \E i \in Levels : 2^i = size[p] /\ hand' = <<i, buffer[p] \div size[p]>>
  /\ mutex' = t
  /\ pc' = [pc EXCEPT ![t] = "merge"]
  /\ UNCHANGED <<ring, packet, handle, cur, ret, type>>

\* Mutation: the loop ends one level too early.
CanMergeBelowTop(x) == ~IsTop(x[1]) /\ ~IsTop(x[1] + 1) /\ next[Buddy(x)] # NULL

CanMerge(x) == ~IsTop(x[1]) /\ next[Buddy(x)] # NULL

\* Mutation: the loop does not go up a level.
MergeForever(t) ==
  /\ pc[t] = "merge" /\ CanMerge(hand)
  /\ UNCHANGED vars

Merge(t) ==
  /\ pc[t] = "merge" /\ CanMerge(hand)
  /\ RemoveFree(Buddy(hand))
  /\ hand' = Parent(hand)
  /\ UNCHANGED <<packet, handle, mutex, pc, cur, ret, type>>

PutReturns(t) ==
  /\ pc[t] = "merge" /\ ~CanMerge(hand)
  /\ InsertFree(hand)
  /\ FreePacket(cur[t])
  /\ Ends(t)
  /\ UNCHANGED <<made, handle>>

-----------------------------------------------------------------------------
Call(t) ==
  \E h \in Handles :
    \/ GetHeaderOnly(t, h)
    \/ \E bytes \in Requests : GetPacket(t, h, bytes)
    \/ \E g \in Handles : AddRef(t, h, g)
    \/ Release(t, h)

\* A thread that has the mutex goes on; one that wants it gets it in the end.
GoOn(t) == \/ Take(t) \/ Refuse(t) \/ Split(t) \/ GetReturns(t)
           \/ Merge(t) \/ PutReturns(t)
Lock(t) == PutHeaderOnly(t) \/ PutPacket(t)

Next == \E t \in Threads : Call(t) \/ GoOn(t) \/ Lock(t)

Spec == Init /\ [][Next]_vars

FairSpec == Spec /\ \A t \in Threads : WF_vars(GoOn(t)) /\ SF_vars(Lock(t))

-----------------------------------------------------------------------------
(* Properties *)

\* Every variable holds a value of its kind.
TypeOK ==
  /\ header \in [Levels -> Nodes \cup {NULL}]
  /\ next \in [Nodes -> Nodes \cup {NULL}]
  /\ prev \in [Nodes -> Nodes \cup {NULL}]
  /\ made \subseteq Packets /\ shells \subseteq made
  /\ size \in [Packets -> {0} \cup {2^i : i \in Levels}]
  /\ buffer \in [Packets -> 0 .. PageCount - 1 \cup {NULL}]
  /\ ref \in [Packets -> Nat]
  /\ handle \in [Handles -> made \cup {NULL}]
  /\ mutex \in Threads \cup {NULL}
  /\ pc \in [Threads -> {"idle", "search", "split", "put", "merge"}]
  /\ cur \in [Threads -> made \cup {NULL}]
  /\ ret \in [Threads -> Handles \cup {NULL}]
  /\ type \in 0 .. MaxLevel + 1
  /\ hand \in Nodes \cup {NULL}

\* The pages of a node, and of a packet.
Pages == 0 .. PageCount - 1
Run(x) == {p \in Pages : p \div 2^x[1] = x[2]}
PagesOf(p) == IF buffer[p] = NULL THEN {}
              ELSE buffer[p] .. buffer[p] + size[p] - 1

\* Callers refer to p, or the call that makes it does.
Holders(p) == {h \in Handles : handle[h] = p}
Making(p) == \E t \in Threads : cur[t] = p /\ pc[t] \in {"search", "split"}

\* m_RefCount is the number of references there are (Packet.cpp:296 asserts
\* that it is not 0 when one is released): a packet is recycled by its last
\* reference, once, and never comes back under a reference that is left.
RefsCounted ==
  /\ \A p \in Packets :
       /\ Holders(p) # {} => ref[p] = Cardinality(Holders(p))
       /\ Holders(p) # {} => p \notin shells /\ \A t \in Threads : cur[t] # p
       /\ Making(p) => ref[p] = 1
  /\ \A t, u \in Threads : cur[t] # NULL /\ cur[t] = cur[u] => t = u
  /\ \A t \in Threads : cur[t] \notin shells

\* Packets whose pages are theirs: neither free shells nor the one whose pages
\* a call is taking apart or putting together.
Live == {p \in made \ shells : mutex = NULL \/ p # cur[mutex]}
Owners == Free \cup ({hand} \ {NULL})

\* Each page is in one free node, or in the node in hand, or in one packet,
\* through all splitting and joining: no page is lost, none has two owners.
NothingLost ==
  \A pg \in Pages : \/ \E x \in Owners : pg \in Run(x)
                    \/ \E p \in Live : pg \in PagesOf(p)
NothingShared ==
  /\ hand \notin Free
  /\ \A x, y \in Owners : x # y => Run(x) \cap Run(y) = {}
  /\ \A p, q \in Live : p # q => PagesOf(p) \cap PagesOf(q) = {}
  /\ \A x \in Owners, p \in Live : Run(x) \cap PagesOf(p) = {}
Tiling == NothingLost /\ NothingShared

\* Two halves are never both free: what can be joined has been joined.
NoFreeBuddies ==
  \A x \in Free : ~IsTop(x[1]) => Buddy(x) \notin Free

\* When all packets are back the store is what it was at the beginning,
\* whatever was split and in which order it came back.
WholeAgain ==
  (mutex = NULL /\ \A p \in Live : buffer[p] = NULL) => Free = InitialNodes

\* The n-th node a walk along pNext from the level's header meets, or NULL.
Nth(i, n) == LET Walk[k \in Nat] == IF k = 0 THEN header[i]
                                    ELSE IF Walk[k - 1] = NULL THEN NULL
                                    ELSE next[Walk[k - 1]]
             IN  Walk[n]

\* Each ring is one cycle through the free nodes of its level, both ways.
RingsExact ==
  /\ \A i \in Levels : {Nth(i, n) : n \in 0 .. PageCount} \ {NULL}
                         = {x \in Free : x[1] = i}
  /\ \A x \in Free : prev[next[x]] = x

\* GetPacket gives up only when there is no aligned run of free pages that
\* would do (Packet.cpp:518-532).
RefusedWhenFull ==
  [][\A t \in Threads :
       Refuse(t) =>
         \A i \in Levels, n \in Pages :
           i = type /\ (n + 1) * 2^i <= PageCount
             => \E p \in Live : PagesOf(p) \cap Run(<<i, n>>) # {}]_vars

\* A request is answered, however long splitting takes, and a released packet
\* is recycled, however long joining takes and whoever else wants the mutex.
CallsReturn ==
  \A t \in Threads :
    /\ pc[t] = "search" ~> pc[t] = "idle"
    /\ \A p \in Packets : (pc[t] = "put" /\ cur[t] = p) ~> p \in shells

\* References are views of pages nobody else has.
Store == INSTANCE PageStore WITH
  view <- [h \in Handles |-> IF handle[h] = NULL THEN {} ELSE PagesOf(handle[h])]
ImplementsPageStore == Store!Spec
=============================================================================
