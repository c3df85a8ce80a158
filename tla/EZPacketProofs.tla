-------------------------- MODULE EZPacketProofs --------------------------
(***************************************************************************)
(* Proofs about EZPacket, for any number of threads, references, packets   *)
(* and pages.                                                              *)
(*                                                                         *)
(* RefsCounted is inductive once three things are added to it: the values  *)
(* of the variables it reads, that only the thread with the mutex is in    *)
(* the middle of GetPacket or PutPacket, and that the reference GetPacket  *)
(* will return is still free.                                              *)
(*                                                                         *)
(* The pages of a node are known from its level and index alone (Halves,   *)
(* BuddyFact, ParentFact, Nested).  StoreInv says that the rings link the  *)
(* free nodes of each level and nobody else, that the pages of a packet    *)
(* are those of a node, and what a call has in hand; with RefInv it is     *)
(* inductive.  That no two halves are free then gives, by taking a free    *)
(* node of the lowest level, that the store comes back whole and that      *)
(* GetPacket is right when it refuses.  The last section maps the packet   *)
(* manager to PageStore.                                                   *)
(***************************************************************************)
EXTENDS EZPacket, FiniteSetTheorems, WellFoundedInduction, TLAPS

RefTypes ==
  /\ made \subseteq Packets /\ shells \subseteq made
  /\ ref \in [Packets -> Nat]
  /\ handle \in [Handles -> made \cup {NULL}]
  /\ mutex \in Threads \cup {NULL}
  /\ pc \in [Threads -> {"idle", "search", "split", "put", "merge"}]
  /\ cur \in [Threads -> made \cup {NULL}]
  /\ ret \in [Threads -> Handles \cup {NULL}]

Control ==
  \A t \in Threads :
    /\ pc[t] \in {"search", "split", "merge"} => mutex = t
    /\ cur[t] = NULL <=> pc[t] = "idle"
    /\ pc[t] \in {"search", "split"} => ret[t] \in Handles /\ handle[ret[t]] = NULL
    /\ pc[t] \notin {"search", "split"} => ret[t] = NULL

RefInv == RefTypes /\ Control /\ RefsCounted

-----------------------------------------------------------------------------
(* Counting references *)

LEMMA FiniteHolders ==
  ASSUME NEW p
  PROVE  IsFiniteSet(Holders(p)) /\ Cardinality(Holders(p)) \in Nat
<1>1. Holders(p) \subseteq Handles
  BY DEF Holders
<1>2. IsFiniteSet(Handles)
  BY PacketAssumption
<1> QED
  BY <1>1, <1>2, FS_Subset, FS_CardinalityType

\* A packet somebody refers to is counted at least once.
LEMMA HeldIsCounted ==
  ASSUME RefInv, NEW h \in Handles, handle[h] # NULL
  PROVE  /\ handle[h] \in Packets /\ ref[handle[h]] \in Nat \ {0}
         /\ ref[handle[h]] = Cardinality(Holders(handle[h]))
         /\ handle[h] \notin shells
         /\ \A t \in Threads : cur[t] # handle[h]
<1> DEFINE p == handle[h]
<1>1. p \in Packets /\ h \in Holders(p)
  BY DEF RefInv, RefTypes, Holders
<1>2. ref[p] = Cardinality(Holders(p))
  BY <1>1 DEF RefInv, RefsCounted
<1>3. Cardinality(Holders(p)) # 0
  BY <1>1, FiniteHolders, FS_EmptySet
<1> QED
  BY <1>1, <1>2, <1>3, FiniteHolders DEF RefInv, RefTypes, RefsCounted

\* Nobody refers to a packet that a call works on, to a free shell, or to a
\* packet that does not exist.
LEMMA UnheldPackets ==
  ASSUME RefInv, NEW p \in Packets,
         p \in shells \/ p \notin made \/ \E t \in Threads : cur[t] = p
  PROVE  Holders(p) = {}
<1> NULL \notin Packets
  BY PacketAssumption
<1>1. CASE p \notin made
  BY <1>1 DEF RefInv, RefTypes, Holders
<1>2. CASE p \in shells \/ \E t \in Threads : cur[t] = p
  BY <1>2 DEF RefInv, RefsCounted
<1> QED
  BY <1>1, <1>2

\* The packet AllocPacket hands out was neither referred to nor worked on.
LEMMA NewPacket ==
  ASSUME RefInv, NEW p \in Packets, AllocPacket(p)
  PROVE  /\ Holders(p) = {} /\ \A t \in Threads : cur[t] # p
         /\ p \in made' /\ p \notin shells'
         /\ made \subseteq made' /\ made' \subseteq Packets
         /\ shells' \subseteq made'
         /\ shells' \cap made \subseteq shells
         /\ ref' = [ref EXCEPT ![p] = 1]
<1>1. p \in shells \/ p \notin made
  BY DEF AllocPacket
<1>2. \A t \in Threads : cur[t] # p
  <2> NULL \notin Packets
    BY PacketAssumption
  <2> QED
    BY <1>1 DEF RefInv, RefTypes, RefsCounted
<1>3. Holders(p) = {}
  BY <1>1, UnheldPackets
<1>4. /\ p \in made' /\ p \notin shells'
      /\ made \subseteq made' /\ made' \subseteq Packets
      /\ shells' \subseteq made' /\ shells' \cap made \subseteq shells
  <2>1. CASE p \in shells /\ shells' = shells \ {p} /\ made' = made
    BY <2>1 DEF RefInv, RefTypes
  <2>2. CASE /\ shells = {}
             /\ \E chunk \in SUBSET (Packets \ made) :
                  p \in chunk /\ made' = made \cup chunk /\ shells' = chunk \ {p}
    BY <2>2 DEF RefInv, RefTypes
  <2> QED
    BY <2>1, <2>2 DEF AllocPacket
<1> QED
  BY <1>2, <1>3, <1>4 DEF AllocPacket

-----------------------------------------------------------------------------
(* One lemma for each kind of step *)

\* Steps that touch none of the variables RefInv reads, or only pc between two
\* places that are alike to it.
LEMMA QuietSteps ==
  ASSUME RefInv, UNCHANGED <<made, shells, ref, handle, mutex, cur, ret>>,
         \/ UNCHANGED pc
         \/ \E t \in Threads : pc[t] = "search" /\ pc' = [pc EXCEPT ![t] = "split"]
  PROVE  RefInv'
<1>1. RefTypes'
  BY DEF RefInv, RefTypes
<1>2. \A t \in Threads : /\ pc'[t] \in {"search", "split"} <=> pc[t] \in {"search", "split"}
                         /\ pc'[t] = "merge" <=> pc[t] = "merge"
                         /\ pc'[t] = "idle" <=> pc[t] = "idle"
  BY DEF RefInv, RefTypes
<1>3. Control'
  BY <1>2 DEF RefInv, Control
<1>4. RefsCounted'
  BY <1>2 DEF RefInv, RefsCounted, Holders, Making
<1> QED
  BY <1>1, <1>3, <1>4 DEF RefInv

LEMMA GetHeaderOnlyStep ==
  ASSUME RefInv, NEW t \in Threads, NEW h \in Handles, GetHeaderOnly(t, h)
  PROVE  RefInv'
<1>1. PICK p \in Packets : AllocPacket(p) /\ handle' = [handle EXCEPT ![h] = p]
  BY DEF GetHeaderOnly
<1> NULL \notin Packets
  BY PacketAssumption
<1>2. UNCHANGED <<mutex, pc, cur, ret>> /\ Unclaimed(h)
  BY DEF GetHeaderOnly, thread
<1>3. /\ Holders(p) = {} /\ (\A u \in Threads : cur[u] # p)
      /\ p \in made' /\ p \notin shells'
      /\ made \subseteq made' /\ made' \subseteq Packets
      /\ shells' \subseteq made' /\ shells' \cap made \subseteq shells
      /\ ref' = [ref EXCEPT ![p] = 1]
  BY <1>1, NewPacket
<1>4. RefTypes'
  BY <1>1, <1>2, <1>3 DEF RefInv, RefTypes
<1>5. Control'
  BY <1>1, <1>2 DEF RefInv, RefTypes, Control, Unclaimed
<1>6. Holders(p)' = {h}
  BY <1>1, <1>3 DEF RefInv, RefTypes, Holders
<1>7. \A q \in Packets : q # p => Holders(q)' = Holders(q)
  BY <1>1, <1>2 DEF RefInv, RefTypes, Holders, Unclaimed
<1>8. Cardinality(Holders(p)') = 1
  BY <1>6, FS_Singleton
<1>9. RefsCounted'
  <2>1. ASSUME NEW q \in Packets, Holders(q)' # {}
        PROVE  ref'[q] = Cardinality(Holders(q)') /\ q \notin shells'
               /\ \A u \in Threads : cur'[u] # q
    <3>1. CASE q = p
      BY <3>1, <1>2, <1>3, <1>8 DEF RefInv, RefTypes
    <3>2. CASE q # p
      <4>1. Holders(q) # {} /\ q \in made
        BY <2>1, <3>2, <1>7 DEF RefInv, RefTypes, Holders
      <4> QED
        BY <4>1, <3>2, <1>2, <1>3, <1>7 DEF RefInv, RefTypes, RefsCounted
    <3> QED
      BY <3>1, <3>2
  <2>2. \A q \in Packets : Making(q)' => ref'[q] = 1
    BY <1>2, <1>3 DEF RefInv, RefTypes, RefsCounted, Making
  <2>3. \A u \in Threads : cur'[u] \notin shells'
    BY <1>2, <1>3 DEF RefInv, RefTypes, RefsCounted
  <2> QED
    BY <2>1, <2>2, <2>3, <1>2 DEF RefInv, RefsCounted, Holders, Making
<1> QED
  BY <1>4, <1>5, <1>9 DEF RefInv

LEMMA GetPacketStep ==
  ASSUME RefInv, NEW t \in Threads, NEW h \in Handles, NEW bytes \in Requests,
         GetPacket(t, h, bytes)
  PROVE  RefInv'
<1>1. PICK p \in Packets : AllocPacket(p) /\ cur' = [cur EXCEPT ![t] = p]
  BY DEF GetPacket
<1> NULL \notin Packets /\ NULL \notin Threads /\ NULL \notin Handles
  BY PacketAssumption
<1>2. /\ pc[t] = "idle" /\ pc' = [pc EXCEPT ![t] = "search"]
      /\ mutex = NULL /\ mutex' = t
      /\ ret' = [ret EXCEPT ![t] = h] /\ Unclaimed(h)
      /\ handle' = handle
  BY DEF GetPacket
<1>3. /\ Holders(p) = {} /\ (\A u \in Threads : cur[u] # p)
      /\ p \in made' /\ p \notin shells'
      /\ made \subseteq made' /\ made' \subseteq Packets
      /\ shells' \subseteq made' /\ shells' \cap made \subseteq shells
      /\ ref' = [ref EXCEPT ![p] = 1]
  BY <1>1, NewPacket
<1>4. RefTypes'
  BY <1>1, <1>2, <1>3 DEF RefInv, RefTypes
<1>5. Control'
  BY <1>1, <1>2 DEF RefInv, RefTypes, Control, Unclaimed
<1>6. \A q \in Packets : Holders(q)' = Holders(q)
  BY <1>2 DEF Holders
<1>7. ASSUME NEW q \in Packets, Holders(q)' # {}
      PROVE  ref'[q] = Cardinality(Holders(q)') /\ q \notin shells'
             /\ \A u \in Threads : cur'[u] # q
  <2>1. q # p /\ Holders(q) # {}
    BY <1>3, <1>6, <1>7
  <2>2. q \in made
    BY <2>1 DEF RefInv, RefTypes, Holders
  <2> QED
    BY <2>1, <2>2, <1>1, <1>3, <1>6 DEF RefInv, RefTypes, RefsCounted
<1>8. \A q \in Packets : Making(q)' => ref'[q] = 1
  BY <1>1, <1>2, <1>3 DEF RefInv, RefTypes, RefsCounted, Making
<1>9. \A u, v \in Threads : cur'[u] # NULL /\ cur'[u] = cur'[v] => u = v
  BY <1>1, <1>3 DEF RefInv, RefTypes, RefsCounted
<1>10. \A u \in Threads : cur'[u] \notin shells'
  BY <1>1, <1>3 DEF RefInv, RefTypes, RefsCounted
<1>11. RefsCounted'
  BY <1>7, <1>8, <1>9, <1>10 DEF RefsCounted
<1> QED
  BY <1>4, <1>5, <1>11 DEF RefInv

\* One reference more, and one more counted.
LEMMA AddRefStep ==
  ASSUME RefInv, NEW t \in Threads, NEW h \in Handles, NEW g \in Handles,
         AddRef(t, h, g)
  PROVE  RefInv'
<1>0. PICK p : p = handle[h]
  OBVIOUS
<1>1. /\ p # NULL /\ Unclaimed(g)
      /\ ref' = [ref EXCEPT ![p] = @ + 1] /\ handle' = [handle EXCEPT ![g] = p]
      /\ UNCHANGED <<made, shells, mutex, pc, cur, ret>>
  BY <1>0 DEF AddRef, thread
<1>2. /\ p \in Packets /\ p \in made /\ ref[p] \in Nat \ {0} /\ p \notin shells
      /\ ref[p] = Cardinality(Holders(p))
      /\ \A u \in Threads : cur[u] # p
  BY <1>0, <1>1, HeldIsCounted DEF RefInv, RefTypes
<1>3. RefTypes'
  BY <1>1, <1>2 DEF RefInv, RefTypes
<1>4. Control'
  BY <1>1, <1>2 DEF RefInv, RefTypes, Control, Unclaimed
<1>5. g \notin Holders(p) /\ Holders(p)' = Holders(p) \cup {g}
  BY <1>1, <1>2 DEF RefInv, RefTypes, Holders, Unclaimed
<1>6. Cardinality(Holders(p)') = ref'[p]
  <2>1. IsFiniteSet(Holders(p))
    BY FiniteHolders
  <2>2. Cardinality(Holders(p) \cup {g}) = Cardinality(Holders(p)) + 1
    BY <2>1, <1>5, FS_AddElement
  <2> QED
    BY <2>2, <1>1, <1>2, <1>5 DEF RefInv, RefTypes
<1>7. \A q \in Packets : q # p => Holders(q)' = Holders(q)
  <2> NULL \notin Packets
    BY PacketAssumption
  <2> QED
    BY <1>1, <1>2 DEF RefInv, RefTypes, Holders, Unclaimed
<1>8. ASSUME NEW q \in Packets, Holders(q)' # {}
      PROVE  ref'[q] = Cardinality(Holders(q)') /\ q \notin shells'
             /\ \A u \in Threads : cur'[u] # q
  <2>1. CASE q = p
    BY <2>1, <1>1, <1>2, <1>6
  <2>2. CASE q # p
    BY <2>2, <1>1, <1>7, <1>8 DEF RefInv, RefTypes, RefsCounted
  <2> QED
    BY <2>1, <2>2
<1>9. \A q \in Packets : Making(q)' => ref'[q] = 1
  BY <1>1, <1>2 DEF RefInv, RefTypes, RefsCounted, Making
<1>10. RefsCounted'
  BY <1>1, <1>8, <1>9 DEF RefInv, RefsCounted
<1> QED
  BY <1>3, <1>4, <1>10 DEF RefInv

\* One reference less; the last one leaves a packet that nobody refers to.
LEMMA ReleaseStep ==
  ASSUME RefInv, NEW t \in Threads, NEW h \in Handles, Release(t, h)
  PROVE  RefInv'
<1>0. PICK p : p = handle[h]
  OBVIOUS
<1> NULL \notin Packets
  BY PacketAssumption
<1>1. /\ p # NULL /\ pc[t] = "idle"
      /\ ref' = [ref EXCEPT ![p] = @ - 1] /\ handle' = [handle EXCEPT ![h] = NULL]
      /\ UNCHANGED <<made, shells, mutex, ret>>
  BY <1>0 DEF Release
<1>2. /\ p \in Packets /\ p \in made /\ ref[p] \in Nat \ {0} /\ p \notin shells
      /\ ref[p] = Cardinality(Holders(p))
      /\ \A u \in Threads : cur[u] # p
  BY <1>0, <1>1, HeldIsCounted DEF RefInv, RefTypes
<1>3. h \in Holders(p) /\ Holders(p)' = Holders(p) \ {h}
  BY <1>0, <1>1, <1>2 DEF RefInv, RefTypes, Holders
<1>4. Cardinality(Holders(p)') = ref'[p] /\ ref'[p] = ref[p] - 1
  <2>1. IsFiniteSet(Holders(p))
    BY FiniteHolders
  <2>2. Cardinality(Holders(p) \ {h}) = Cardinality(Holders(p)) - 1
    BY <2>1, <1>3, FS_RemoveElement
  <2> QED
    BY <2>2, <1>1, <1>2, <1>3 DEF RefInv, RefTypes
<1>5. \A q \in Packets : q # p => Holders(q)' = Holders(q)
  BY <1>0, <1>1, <1>2 DEF RefInv, RefTypes, Holders
<1>6. CASE ref[p] = 1 /\ pc' = [pc EXCEPT ![t] = "put"] /\ cur' = [cur EXCEPT ![t] = p]
  <2>1. RefTypes'
    BY <1>1, <1>2, <1>6 DEF RefInv, RefTypes
  <2>2. Control'
    BY <1>1, <1>2, <1>6 DEF RefInv, RefTypes, Control
  <2>3. Holders(p)' = {}
    <3>1. IsFiniteSet(Holders(p)')
      BY <1>3, FiniteHolders, FS_RemoveElement
    <3> QED
      BY <3>1, <1>4, <1>6, FS_EmptySet
  <2>4. ASSUME NEW q \in Packets, Holders(q)' # {}
        PROVE  ref'[q] = Cardinality(Holders(q)') /\ q \notin shells'
               /\ \A u \in Threads : cur'[u] # q
    BY <2>3, <2>4, <1>1, <1>5, <1>6 DEF RefInv, RefTypes, RefsCounted
  <2>5. \A q \in Packets : Making(q)' => ref'[q] = 1
    BY <1>1, <1>2, <1>6 DEF RefInv, RefTypes, RefsCounted, Making
  <2>6. \A u, v \in Threads : cur'[u] # NULL /\ cur'[u] = cur'[v] => u = v
    BY <1>2, <1>6 DEF RefInv, RefTypes, RefsCounted
  <2>7. \A u \in Threads : cur'[u] \notin shells'
    BY <1>1, <1>2, <1>6 DEF RefInv, RefTypes, RefsCounted
  <2> QED
    BY <2>1, <2>2, <2>4, <2>5, <2>6, <2>7 DEF RefInv, RefsCounted
<1>7. CASE ref[p] > 1 /\ UNCHANGED <<pc, cur>>
  <2>1. RefTypes'
    BY <1>1, <1>2, <1>7 DEF RefInv, RefTypes
  <2>2. Control'
    BY <1>1, <1>2, <1>7 DEF RefInv, RefTypes, Control
  <2>3. ASSUME NEW q \in Packets, Holders(q)' # {}
        PROVE  ref'[q] = Cardinality(Holders(q)') /\ q \notin shells'
               /\ \A u \in Threads : cur'[u] # q
    <3>1. CASE q = p
      BY <3>1, <1>1, <1>2, <1>4, <1>7
    <3>2. CASE q # p
      BY <3>2, <2>3, <1>1, <1>5, <1>7 DEF RefInv, RefTypes, RefsCounted
    <3> QED
      BY <3>1, <3>2
  <2>4. \A q \in Packets : Making(q)' => ref'[q] = 1
    BY <1>1, <1>2, <1>7 DEF RefInv, RefTypes, RefsCounted, Making
  <2> QED
    BY <2>1, <2>2, <2>3, <2>4, <1>1, <1>7 DEF RefInv, RefsCounted
<1> QED
  BY <1>0, <1>6, <1>7 DEF Release

\* A call that has given up or has finished leaves its packet a free shell.
LEMMA FreeingStep ==
  ASSUME RefInv, NEW t \in Threads, pc[t] # "idle", FreePacket(cur[t]), Ends(t),
         mutex \in {NULL, t}, UNCHANGED <<made, handle>>
  PROVE  RefInv'
<1>0. PICK p : p = cur[t]
  OBVIOUS
<1> NULL \notin Packets /\ NULL \notin Threads /\ NULL \notin Handles
  BY PacketAssumption
<1>1. /\ shells' = shells \cup {p} /\ ref' = [ref EXCEPT ![p] = 0]
      /\ mutex' = NULL /\ pc' = [pc EXCEPT ![t] = "idle"]
      /\ cur' = [cur EXCEPT ![t] = NULL] /\ ret' = [ret EXCEPT ![t] = NULL]
  BY <1>0 DEF FreePacket, Ends
<1>2. p \in Packets /\ p \in made
  BY <1>0 DEF RefInv, RefTypes, Control
<1>3. Holders(p) = {}
  BY <1>0, <1>2, UnheldPackets
<1>4. \A u \in Threads : u # t => cur[u] # p
  BY <1>0, <1>2 DEF RefInv, RefsCounted
<1>5. RefTypes'
  BY <1>1, <1>2 DEF RefInv, RefTypes
<1>6. Control'
  BY <1>1 DEF RefInv, RefTypes, Control
<1>7. \A q \in Packets : Holders(q)' = Holders(q)
  BY DEF Holders
<1>8. ASSUME NEW q \in Packets, Holders(q)' # {}
      PROVE  ref'[q] = Cardinality(Holders(q)') /\ q \notin shells'
             /\ \A u \in Threads : cur'[u] # q
  BY <1>1, <1>3, <1>7, <1>8 DEF RefInv, RefTypes, RefsCounted
<1>9. \A q \in Packets : Making(q)' => ref'[q] = 1
  BY <1>1, <1>4 DEF RefInv, RefTypes, RefsCounted, Making
<1>10. \A u, v \in Threads : cur'[u] # NULL /\ cur'[u] = cur'[v] => u = v
  BY <1>1 DEF RefInv, RefTypes, RefsCounted
<1>11. \A u \in Threads : cur'[u] \notin shells'
  BY <1>1, <1>4, <1>2 DEF RefInv, RefTypes, RefsCounted
<1> QED
  BY <1>5, <1>6, <1>8, <1>9, <1>10, <1>11 DEF RefInv, RefsCounted

\* The caller gets the one reference that was counted when the packet was made.
LEMMA GetReturnsStep ==
  ASSUME RefInv, NEW t \in Threads, GetReturns(t)
  PROVE  RefInv'
<1>0. PICK p : p = cur[t]
  OBVIOUS
<1> NULL \notin Packets /\ NULL \notin Threads /\ NULL \notin Handles
  BY PacketAssumption
<1>1. /\ pc[t] = "split" /\ handle' = [handle EXCEPT ![ret[t]] = p]
      /\ mutex' = NULL /\ pc' = [pc EXCEPT ![t] = "idle"]
      /\ cur' = [cur EXCEPT ![t] = NULL] /\ ret' = [ret EXCEPT ![t] = NULL]
      /\ UNCHANGED <<made, shells, ref>>
  BY <1>0 DEF GetReturns, Ends, packet
<1>2. /\ p \in Packets /\ p \in made /\ p \notin shells /\ ref[p] = 1
      /\ ret[t] \in Handles /\ handle[ret[t]] = NULL /\ mutex = t
  BY <1>0, <1>1 DEF RefInv, RefTypes, Control, RefsCounted, Making
<1>3. Holders(p) = {}
  BY <1>0, <1>2, UnheldPackets
<1>4. \A u \in Threads : u # t => cur[u] # p
  BY <1>0, <1>2 DEF RefInv, RefsCounted
<1>5. RefTypes'
  BY <1>1, <1>2 DEF RefInv, RefTypes
<1>6. Control'
  BY <1>1, <1>2 DEF RefInv, RefTypes, Control
<1>7. Holders(p)' = {ret[t]} /\ Cardinality(Holders(p)') = 1
  <2>1. Holders(p)' = {ret[t]}
    BY <1>1, <1>2, <1>3 DEF RefInv, RefTypes, Holders
  <2> QED
    BY <2>1, FS_Singleton
<1>8. \A q \in Packets : q # p => Holders(q)' = Holders(q)
  BY <1>1, <1>2 DEF RefInv, RefTypes, Holders
<1>9. ASSUME NEW q \in Packets, Holders(q)' # {}
      PROVE  ref'[q] = Cardinality(Holders(q)') /\ q \notin shells'
             /\ \A u \in Threads : cur'[u] # q
  <2>1. CASE q = p
    BY <2>1, <1>1, <1>2, <1>4, <1>7 DEF RefInv, RefTypes
  <2>2. CASE q # p
    BY <2>2, <1>1, <1>8, <1>9 DEF RefInv, RefTypes, RefsCounted
  <2> QED
    BY <2>1, <2>2
<1>10. \A q \in Packets : Making(q)' => ref'[q] = 1
  BY <1>1 DEF RefInv, RefTypes, RefsCounted, Making
<1>11. \A u, v \in Threads : cur'[u] # NULL /\ cur'[u] = cur'[v] => u = v
  BY <1>1 DEF RefInv, RefTypes, RefsCounted
<1>12. \A u \in Threads : cur'[u] \notin shells'
  BY <1>1 DEF RefInv, RefTypes, RefsCounted
<1> QED
  BY <1>5, <1>6, <1>9, <1>10, <1>11, <1>12 DEF RefInv, RefsCounted

\* PutPacket takes the mutex.
LEMMA PutPacketStep ==
  ASSUME RefInv, NEW t \in Threads, PutPacket(t)
  PROVE  RefInv'
<1> NULL \notin Threads
  BY PacketAssumption
<1>1. /\ pc[t] = "put" /\ mutex = NULL /\ mutex' = t
      /\ pc' = [pc EXCEPT ![t] = "merge"]
      /\ UNCHANGED <<made, shells, ref, handle, cur, ret>>
  BY DEF PutPacket, packet
<1>2. RefTypes' /\ Control'
  BY <1>1 DEF RefInv, RefTypes, Control
<1>3. RefsCounted'
  <2>1. \A p \in Packets : Holders(p)' = Holders(p)
    BY <1>1 DEF Holders
  <2>2. \A u \in Threads : pc'[u] \in {"search", "split"} => pc[u] \in {"search", "split"}
    BY <1>1 DEF RefInv, RefTypes
  <2>3. \A p \in Packets : Making(p)' => Making(p)
    BY <1>1, <2>2 DEF Making
  <2> QED
    BY <1>1, <2>1, <2>3 DEF RefInv, RefsCounted
<1> QED
  BY <1>2, <1>3 DEF RefInv

-----------------------------------------------------------------------------
(* The invariant *)

LEMMA InitRefInv == Init => RefInv
<1> SUFFICES ASSUME Init PROVE RefInv
  OBVIOUS
<1> NULL \notin Packets
  BY PacketAssumption
<1>1. RefTypes /\ Control
  BY DEF Init, RefTypes, Control
<1>2. \A p \in Packets : Holders(p) = {} /\ ~Making(p)
  BY DEF Init, Holders, Making
<1>3. RefsCounted
  BY <1>2 DEF Init, RefsCounted
<1> QED
  BY <1>1, <1>3 DEF RefInv

LEMMA NextRefInv == RefInv /\ [Next]_vars => RefInv'
<1> SUFFICES ASSUME RefInv, [Next]_vars PROVE RefInv'
  OBVIOUS
<1>1. CASE UNCHANGED vars
  BY <1>1, QuietSteps DEF vars, packet, thread
<1>2. ASSUME NEW t \in Threads, Call(t)
      PROVE  RefInv'
  <2> USE <1>2 DEF Call
  <2>1. PICK h \in Handles :
          \/ GetHeaderOnly(t, h)
          \/ \E bytes \in Requests : GetPacket(t, h, bytes)
          \/ \E g \in Handles : AddRef(t, h, g)
          \/ Release(t, h)
    OBVIOUS
  <2> QED
    BY <2>1, GetHeaderOnlyStep, GetPacketStep, AddRefStep, ReleaseStep
<1>3. ASSUME NEW t \in Threads, GoOn(t)
      PROVE  RefInv'
  <2>1. CASE Take(t)
    BY <2>1, QuietSteps DEF Take
  <2>2. CASE Refuse(t)
    BY <2>2, FreeingStep DEF Refuse, RefInv, Control
  <2>3. CASE Split(t) \/ Merge(t)
    BY <2>3, QuietSteps DEF Split, Merge, packet
  <2>4. CASE GetReturns(t)
    BY <2>4, GetReturnsStep
  <2>5. CASE PutReturns(t)
    BY <2>5, FreeingStep DEF PutReturns, RefInv, Control
  <2> QED
    BY <1>3, <2>1, <2>2, <2>3, <2>4, <2>5 DEF GoOn
<1>4. ASSUME NEW t \in Threads, Lock(t)
      PROVE  RefInv'
  <2>1. CASE PutHeaderOnly(t)
    BY <2>1, FreeingStep DEF PutHeaderOnly
  <2>2. CASE PutPacket(t)
    BY <2>2, PutPacketStep
  <2> QED
    BY <1>4, <2>1, <2>2 DEF Lock
<1> QED
  BY <1>1, <1>2, <1>3, <1>4 DEF Next

\* RefInv holds in every reachable state of the packet manager, between the
\* critical sections of its mutex and those of its packets' mutexes.
THEOREM PacketInvariance == Spec => []RefInv
BY InitRefInv, NextRefInv, PTL DEF Spec

\* m_RefCount is the number of references there are, so the assertion in
\* CPacket::Release holds, a packet is recycled once, by its last reference,
\* and no call works on a packet somebody still refers to (Packet.cpp:276-312).
THEOREM ReferencesCounted == Spec => []RefsCounted
<1>1. RefInv => RefsCounted
  BY DEF RefInv
<1> QED
  BY <1>1, PacketInvariance, PTL

-----------------------------------------------------------------------------
(* Nodes and their pages *)

Whole(x) == (x[2] + 1) * 2^x[1] =< PageCount

\* Powers of two, up to those of the largest store.
LEMMA Powers ==
  \A i \in 0 .. 12 : 2^i \in Nat \ {0} /\ 2^(i + 1) = 2 * 2^i
<1>1. /\ 2^0 = 1 /\ 2^1 = 2 /\ 2^2 = 4 /\ 2^3 = 8 /\ 2^4 = 16 /\ 2^5 = 32
      /\ 2^6 = 64 /\ 2^7 = 128 /\ 2^8 = 256 /\ 2^9 = 512 /\ 2^10 = 1024
      /\ 2^11 = 2048 /\ 2^12 = 4096 /\ 2^13 = 8192
  OBVIOUS
<1> SUFFICES ASSUME NEW i \in 0 .. 12
             PROVE  2^i \in Nat \ {0} /\ 2^(i + 1) = 2 * 2^i
  OBVIOUS
<1>2. CASE i = 0
  BY <1>1, <1>2
<1>3. CASE i = 1
  BY <1>1, <1>3
<1>4. CASE i = 2
  BY <1>1, <1>4
<1>5. CASE i = 3
  BY <1>1, <1>5
<1>6. CASE i = 4
  BY <1>1, <1>6
<1>7. CASE i = 5
  BY <1>1, <1>7
<1>8. CASE i = 6
  BY <1>1, <1>8
<1>9. CASE i = 7
  BY <1>1, <1>9
<1>10. CASE i = 8
  BY <1>1, <1>10
<1>11. CASE i = 9
  BY <1>1, <1>11
<1>12. CASE i = 10
  BY <1>1, <1>12
<1>13. CASE i = 11
  BY <1>1, <1>13
<1>14. CASE i = 12
  BY <1>1, <1>14
<1> QED
  BY <1>2, <1>3, <1>4, <1>5, <1>6, <1>7, <1>8, <1>9, <1>10, <1>11, <1>12, <1>13, <1>14

\* The levels are the first few numbers, and a run of each fits in the store.
LEMMA LevelFact ==
  /\ Levels \subseteq 0 .. 12
  /\ 0 \in Levels
  /\ \A i \in Levels : 2^i \in Nat \ {0} /\ 2^(i + 1) = 2 * 2^i /\ 2^i =< PageCount
  /\ \A i \in Levels : i # 0 => i - 1 \in Levels /\ 2^i = 2 * 2^(i - 1)
  /\ \A i \in Levels : ~IsTop(i) => i + 1 \in Levels
  /\ PageCount \in Nat /\ PageCount >= 1 /\ PageCount =< 4096
<1>1. PageCount \in Nat /\ PageCount >= 1 /\ PageCount =< 4096
  BY PacketAssumption
<1>2. 2^0 = 1
  OBVIOUS
<1>3. Levels \subseteq 0 .. 12 /\ 0 \in Levels
  BY <1>1, <1>2 DEF Levels, MaxLevel
<1>4. \A i \in Levels : 2^i \in Nat \ {0} /\ 2^(i + 1) = 2 * 2^i /\ 2^i =< PageCount
  BY <1>3, Powers DEF Levels
<1>5. ASSUME NEW i \in Levels, i # 0
      PROVE  i - 1 \in Levels /\ 2^i = 2 * 2^(i - 1)
  <2>1. i - 1 \in 0 .. 12 /\ (i - 1) + 1 = i
    BY <1>3, <1>5
  <2>2. 2^(i - 1) \in Nat \ {0} /\ 2^i = 2 * 2^(i - 1)
    BY <2>1, Powers
  <2>3. 2^(i - 1) =< PageCount
    BY <2>2, <1>1, <1>4
  <2> QED
    BY <2>1, <2>2, <2>3 DEF Levels, MaxLevel
<1>6. \A i \in Levels : ~IsTop(i) => i + 1 \in Levels
  BY DEF IsTop
<1> QED
  BY <1>1, <1>3, <1>4, <1>5, <1>6

\* Where p \div w is n.
LEMMA Division ==
  ASSUME NEW w \in Nat \ {0}, NEW p \in Nat, NEW n \in Int
  PROVE  p \div w = n <=> n * w =< p /\ p < (n + 1) * w
<1>1. p = w * (p \div w) + (p % w) /\ 0 =< p % w /\ p % w < w /\ p \div w \in Int
  BY Z3
<1> DEFINE q == p \div w
           r == p % w
<1>2. p = w * q + r /\ 0 =< r /\ r < w /\ q \in Int /\ r \in Int
  BY <1>1
<1> HIDE DEF q, r
<1>3. ASSUME q = n PROVE n * w =< p /\ p < (n + 1) * w
  BY <1>2, <1>3
<1>4. ASSUME n * w =< p, p < (n + 1) * w PROVE q = n
  <2>1. CASE q >= n + 1
    <3>1. w * q >= w * (n + 1)
      BY <2>1, <1>2
    <3> QED
      BY <3>1, <1>2, <1>4
  <2>2. CASE q + 1 =< n
    <3>1. w * (q + 1) =< w * n
      BY <2>2, <1>2
    <3> QED
      BY <3>1, <1>2, <1>4
  <2> QED
    BY <2>1, <2>2, <1>2
<1> QED
  BY <1>3, <1>4 DEF q

\* A node is a level and an index.
LEMMA NodeFact ==
  ASSUME NEW x \in Nodes
  PROVE  /\ x = <<x[1], x[2]>> /\ x[1] \in Levels /\ x[2] \in Nat
         /\ x[2] < Count(x[1])
         /\ 2^x[1] \in Nat \ {0}
<1>1. x \in Levels \X (0 .. PageCount) /\ x[2] < Count(x[1])
  BY DEF Nodes
<1>2. x = <<x[1], x[2]>> /\ x[1] \in Levels /\ x[2] \in 0 .. PageCount
  BY <1>1
<1>3. PageCount \in Nat /\ 2^x[1] \in Nat \ {0}
  BY <1>2, LevelFact
<1>4. x[2] \in Nat
  BY <1>2, <1>3
<1> QED
  BY <1>1, <1>2, <1>3, <1>4

\* The pages of a node lie between two multiples of its width.
LEMMA PageOfNode ==
  ASSUME NEW x \in Nodes, NEW p \in Pages
  PROVE  p \in Run(x) <=> x[2] * 2^x[1] =< p /\ p < (x[2] + 1) * 2^x[1]
<1>1. p \in Nat
  BY LevelFact DEF Pages
<1>2. x[2] \in Int /\ 2^x[1] \in Nat \ {0}
  BY NodeFact
<1> QED
  BY <1>1, <1>2, Division DEF Run

\* A whole node has at least one page.
LEMMA WholeHasPages ==
  ASSUME NEW x \in Nodes, Whole(x)
  PROVE  x[2] * 2^x[1] \in Run(x)
<1> DEFINE w == 2^x[1]
           n == x[2]
<1>1. n \in Nat /\ w \in Nat \ {0} /\ PageCount \in Nat /\ (n + 1) * w =< PageCount
  BY NodeFact, LevelFact DEF Whole
<1>2. n * w \in Nat /\ (n + 1) * w = n * w + w
  <2> HIDE DEF n, w
  <2> QED
    BY <1>1
<1>3. n * w \in Pages /\ n * w < (n + 1) * w
  <2> HIDE DEF n, w
  <2> QED
    BY <1>1, <1>2 DEF Pages
<1> QED
  BY <1>2, <1>3, PageOfNode

\* Whatever node has all its pages in the store is one of Nodes.
LEMMA WholeIsNode ==
  ASSUME NEW i \in Levels, NEW n \in Nat, (n + 1) * 2^i =< PageCount
  PROVE  <<i, n>> \in Nodes
<1>1. PICK w : w = 2^i
  OBVIOUS
<1>2. PICK c : c = (PageCount + 2^(i + 1) - 1) \div 2^(i + 1)
  OBVIOUS
<1>3. w \in Nat \ {0} /\ 2^(i + 1) = 2 * w /\ PageCount \in Nat
  BY <1>1, LevelFact
<1>4. c \in Int /\ PageCount + 2 * w - 1 < (c + 1) * (2 * w)
  <2>1. PICK u : u = 2 * w
    OBVIOUS
  <2>2. PICK a : a = PageCount + u - 1
    OBVIOUS
  <2>3. u \in Nat \ {0} /\ a \in Nat /\ c = a \div u
    BY <1>2, <1>3, <2>1, <2>2
  <2>4. c \in Int
    BY <2>3
  <2> QED
    BY <2>1, <2>2, <2>3, <2>4, Division
<1>5. n < 2 * c
  <2>1. (n + 1) * w < (2 * c + 1) * w
    BY <1>1, <1>3, <1>4
  <2> QED
    BY <2>1, <1>3, <1>4
<1>6. n =< PageCount
  <2>1. n + 1 =< (n + 1) * w
    BY <1>3
  <2> QED
    BY <2>1, <1>1, <1>3
<1> QED
  BY <1>2, <1>5, <1>6, <1>3 DEF Nodes, Count

\* The two halves of a node.
LEMMA Halves ==
  ASSUME NEW x \in Nodes, x[1] # 0, Whole(x)
  PROVE  LET l == LeftChild(x)
             r == RightChild(x)
         IN /\ l \in Nodes /\ r \in Nodes /\ Whole(l) /\ Whole(r)
            /\ Run(x) = Run(l) \cup Run(r) /\ Run(l) \cap Run(r) = {}
            /\ l[2] * 2^l[1] = x[2] * 2^x[1]
<1> DEFINE i == x[1] - 1
           l == LeftChild(x)
           r == RightChild(x)
<1>1. PICK v : v = 2^i
  OBVIOUS
<1>2. PICK n : n = x[2]
  OBVIOUS
<1>3. /\ i \in Levels /\ n \in Nat /\ v \in Nat \ {0} /\ 2^x[1] = 2 * v
      /\ (n + 1) * (2 * v) =< PageCount /\ PageCount \in Nat
  BY <1>1, <1>2, NodeFact, LevelFact DEF Whole
<1>4. l = <<i, 2 * n>> /\ r = <<i, 2 * n + 1>>
  BY <1>2 DEF LeftChild, RightChild
<1>5. /\ (2 * n + 1) * v = n * (2 * v) + v /\ (2 * n) * v = n * (2 * v)
      /\ (2 * n + 2) * v = (n + 1) * (2 * v)
      /\ (n + 1) * (2 * v) = n * (2 * v) + 2 * v
  BY <1>3
<1>6. (2 * n + 1) * v =< PageCount /\ (2 * n + 2) * v =< PageCount
  BY <1>3, <1>5
<1>7. l \in Nodes /\ r \in Nodes
  BY <1>1, <1>3, <1>4, <1>6, WholeIsNode
<1>8. Whole(l) /\ Whole(r)
  BY <1>1, <1>3, <1>4, <1>6 DEF Whole
<1>9. ASSUME NEW p \in Pages
      PROVE  /\ p \in Run(x) <=> n * (2 * v) =< p /\ p < n * (2 * v) + 2 * v
             /\ p \in Run(l) <=> n * (2 * v) =< p /\ p < n * (2 * v) + v
             /\ p \in Run(r) <=> n * (2 * v) + v =< p /\ p < n * (2 * v) + 2 * v
  <2>1. p \in Run(x) <=> n * (2 * v) =< p /\ p < (n + 1) * (2 * v)
    BY <1>2, <1>3, PageOfNode
  <2>2. p \in Run(l) <=> (2 * n) * v =< p /\ p < (2 * n + 1) * v
    BY <1>1, <1>4, <1>7, PageOfNode
  <2>3. p \in Run(r) <=> (2 * n + 1) * v =< p /\ p < ((2 * n + 1) + 1) * v
    BY <1>1, <1>4, <1>7, PageOfNode
  <2>4. (2 * n + 1) + 1 = 2 * n + 2
    BY <1>3
  <2> QED
    BY <2>1, <2>2, <2>3, <2>4, <1>5
<1>10. Run(x) \subseteq Pages /\ Run(l) \subseteq Pages /\ Run(r) \subseteq Pages
  BY DEF Run
<1>11. ASSUME NEW p \in Pages
       PROVE  /\ p \in Run(x) <=> p \in Run(l) \/ p \in Run(r)
              /\ ~(p \in Run(l) /\ p \in Run(r))
  <2>1. PICK b : b = n * (2 * v)
    OBVIOUS
  <2>2. b \in Nat /\ p \in Int
    BY <2>1, <1>3 DEF Pages
  <2> HIDE DEF l, r
  <2> QED
    BY <2>1, <2>2, <1>3, <1>9
<1>13. Run(x) = Run(l) \cup Run(r) /\ Run(l) \cap Run(r) = {}
  BY <1>10, <1>11
<1>14. l[2] * 2^l[1] = x[2] * 2^x[1]
  BY <1>1, <1>2, <1>3, <1>4, <1>5
<1> QED
  BY <1>7, <1>8, <1>13, <1>14

\* The other half of a node's parent.
LEMMA BuddyFact ==
  ASSUME NEW x \in Nodes
  PROVE  /\ Buddy(x) \in Nodes /\ Buddy(x) # x /\ Buddy(x)[1] = x[1]
         /\ Buddy(Buddy(x)) = x
<1>1. PICK n : n = x[2]
  OBVIOUS
<1>2. PICK v : v = 2^x[1]
  OBVIOUS
<1>3. PICK c : c = (PageCount + 2^(x[1] + 1) - 1) \div 2^(x[1] + 1)
  OBVIOUS
<1>4. /\ n \in Nat /\ v \in Nat \ {0} /\ 2^(x[1] + 1) = 2 * v /\ PageCount \in Nat
      /\ x[1] \in Levels
  BY <1>1, <1>2, NodeFact, LevelFact
<1>5. v =< PageCount
  <2>1. \A i \in Levels : 2^i =< PageCount
    BY LevelFact
  <2> QED
    BY <2>1, <1>2, <1>4
<1>6. c \in Int /\ c * (2 * v) =< PageCount + 2 * v - 1
  <2>1. PICK u : u = 2 * v
    OBVIOUS
  <2>2. PICK a : a = PageCount + u - 1
    OBVIOUS
  <2>3. u \in Nat \ {0} /\ a \in Nat /\ c = a \div u
    BY <1>3, <1>4, <2>1, <2>2
  <2>4. c \in Int
    BY <2>3
  <2> QED
    BY <2>1, <2>2, <2>3, <2>4, Division
<1>7. n < 2 * c
  BY <1>1, <1>3, NodeFact DEF Count
<1>8. 2 * c - 1 =< PageCount
  <2>1. CASE c =< 1
    BY <2>1, <1>4, <1>5, <1>6
  <2>2. CASE c > 1
    <3>1. (2 * c - 2) * v =< PageCount - 1
      BY <1>4, <1>6
    <3>2. (2 * c - 2) =< (2 * c - 2) * v
      BY <1>4, <1>6, <2>2
    <3> QED
      BY <3>1, <3>2, <1>4, <1>6
  <2> QED
    BY <2>1, <2>2, <1>6
<1>9. x = <<x[1], n>> /\ n \in 0 .. PageCount
  BY <1>1, <1>4, <1>6, <1>7, <1>8, NodeFact
<1>10. \A m \in 0 .. PageCount : m < 2 * c => <<x[1], m>> \in Nodes
  BY <1>3, <1>4 DEF Nodes, Count
<1>11. CASE n % 2 = 1
  <2>1. n - 1 \in 0 .. PageCount /\ n - 1 < 2 * c /\ (n - 1) % 2 # 1 /\ (n - 1) + 1 = n
    BY <1>11, <1>4, <1>6, <1>7, <1>9
  <2>2. Buddy(x) = <<x[1], n - 1>>
    BY <1>1, <1>11 DEF Buddy
  <2>3. Buddy(<<x[1], n - 1>>) = <<x[1], n>>
    BY <2>1 DEF Buddy
  <2> QED
    BY <2>1, <2>2, <2>3, <1>4, <1>9, <1>10
<1>12. CASE n % 2 # 1
  <2>0. (n + 1) % 2 = 1 /\ n # 2 * c - 1
    BY <1>12, <1>4, <1>6
  <2>1. n + 1 \in 0 .. PageCount /\ n + 1 < 2 * c /\ (n + 1) % 2 = 1 /\ (n + 1) - 1 = n
    BY <2>0, <1>4, <1>6, <1>7, <1>8
  <2>2. Buddy(x) = <<x[1], n + 1>>
    BY <1>1, <1>12 DEF Buddy
  <2>3. Buddy(<<x[1], n + 1>>) = <<x[1], n>>
    BY <2>1 DEF Buddy
  <2> QED
    BY <2>1, <2>2, <2>3, <1>4, <1>9, <1>10
<1> QED
  BY <1>11, <1>12

\* Two whole buddies are the halves of a whole node.
LEMMA ParentFact ==
  ASSUME NEW x \in Nodes, ~IsTop(x[1]), Whole(x), Whole(Buddy(x))
  PROVE  LET y == Parent(x)
         IN /\ y \in Nodes /\ Whole(y) /\ y[1] # 0
            /\ \/ x = LeftChild(y) /\ Buddy(x) = RightChild(y)
               \/ x = RightChild(y) /\ Buddy(x) = LeftChild(y)
            /\ Run(y) = Run(x) \cup Run(Buddy(x))
<1> DEFINE y == Parent(x)
<1>1. PICK n : n = x[2]
  OBVIOUS
<1>2. PICK v : v = 2^x[1]
  OBVIOUS
<1>3. PICK m : m = n \div 2
  OBVIOUS
<1>4. /\ n \in Nat /\ m \in Nat /\ v \in Nat \ {0} /\ 2^(x[1] + 1) = 2 * v
      /\ PageCount \in Nat /\ x[1] \in Nat /\ x = <<x[1], n>>
  BY <1>1, <1>2, <1>3, NodeFact, LevelFact
<1>5. (n + 1) * v =< PageCount /\ (Buddy(x)[2] + 1) * v =< PageCount
  BY <1>1, <1>2, BuddyFact DEF Whole
<1>6. /\ (2 * m + 2) * v =< PageCount
      /\ \/ x = <<x[1], 2 * m>> /\ Buddy(x) = <<x[1], 2 * m + 1>>
         \/ x = <<x[1], 2 * m + 1>> /\ Buddy(x) = <<x[1], 2 * m>>
  <2>1. CASE n % 2 = 1
    <3>1. n = 2 * m + 1 /\ n - 1 = 2 * m
      BY <2>1, <1>3, <1>4
    <3>2. Buddy(x) = <<x[1], 2 * m>>
      BY <2>1, <3>1, <1>1 DEF Buddy
    <3> QED
      BY <3>1, <3>2, <1>4, <1>5
  <2>2. CASE n % 2 # 1
    <3>1. n = 2 * m
      BY <2>2, <1>3, <1>4
    <3>2. Buddy(x) = <<x[1], 2 * m + 1>>
      BY <2>2, <3>1, <1>1 DEF Buddy
    <3>3. (2 * m + 1) + 1 = 2 * m + 2
      BY <1>4
    <3> QED
      BY <3>1, <3>2, <3>3, <1>4, <1>5
  <2> QED
    BY <2>1, <2>2
<1>7. (m + 1) * (2 * v) =< PageCount
  BY <1>4, <1>6
<1>8. y = <<x[1] + 1, m>>
  BY <1>1, <1>3 DEF Parent
<1>9. y \in Nodes /\ Whole(y) /\ y[1] # 0 /\ y[1] - 1 = x[1]
  <2>1. x[1] + 1 \in Levels
    BY NodeFact, LevelFact
  <2>2. (m + 1) * 2^(x[1] + 1) =< PageCount
    BY <1>4, <1>7
  <2>3. y \in Nodes
    BY <2>1, <2>2, <1>4, <1>8, WholeIsNode
  <2>4. y[1] = x[1] + 1 /\ y[2] = m
    BY <1>8
  <2>5. Whole(y)
    BY <2>2, <2>4 DEF Whole
  <2> QED
    BY <2>3, <2>4, <2>5, <1>4
<1>10. LeftChild(y) = <<x[1], 2 * m>> /\ RightChild(y) = <<x[1], 2 * m + 1>>
  BY <1>8, <1>9 DEF LeftChild, RightChild
<1>11. Run(y) = Run(LeftChild(y)) \cup Run(RightChild(y))
  BY <1>9, Halves
<1> QED
  BY <1>6, <1>9, <1>10, <1>11

\* Dividing by twice v is dividing by v and by two.
LEMMA DoubleDivision ==
  ASSUME NEW v \in Nat \ {0}, NEW p \in Nat
  PROVE  p \div (2 * v) = (p \div v) \div 2
<1>1. PICK a : a = p \div v
  OBVIOUS
<1>2. PICK b : b = a \div 2
  OBVIOUS
<1>3. a \in Int /\ b \in Int /\ (a = 2 * b \/ a = 2 * b + 1)
  BY <1>1, <1>2
<1>4. a * v =< p /\ p < (a + 1) * v
  BY <1>1, <1>3, Division
<1>5. b * (2 * v) =< p /\ p < (b + 1) * (2 * v)
  <2>1. CASE a = 2 * b
    BY <2>1, <1>3, <1>4
  <2>2. CASE a = 2 * b + 1
    BY <2>2, <1>3, <1>4
  <2> QED
    BY <2>1, <2>2, <1>3
<1>6. PICK u : u = 2 * v
  OBVIOUS
<1> QED
  BY <1>1, <1>2, <1>3, <1>5, <1>6, Division

\* The least-number principle, for sets.
LEMMA LeastElement ==
  ASSUME NEW T \in SUBSET Nat, T # {}
  PROVE  \E k \in T : \A l \in T : k =< l
<1>1. \A l, k \in Nat : l < k => <<l, k>> \in OpToRel(<, Nat)
  BY Zenon DEF OpToRel
<1>2. \E R : IsWellFoundedOn(R, Nat) /\ \A l, k \in Nat : l < k => <<l, k>> \in R
  BY <1>1, NatLessThanWellFounded, Zenon
<1>3. PICK R : IsWellFoundedOn(R, Nat) /\ \A l, k \in Nat : l < k => <<l, k>> \in R
  BY <1>2
<1>4. T \subseteq Nat /\ T # {}
  OBVIOUS
<1>5. IsWellFoundedOn(R, Nat)
  BY <1>3
<1>6. PICK k \in T : \A l \in T : ~(<<l, k>> \in R)
  BY ONLY <1>4, <1>5, WFMin, Zenon
<1>7. \A l \in T : ~(l < k)
  BY <1>3, <1>4, <1>6, Zenon
<1> QED
  BY <1>7

\* What passes from each level to the next holds from some level on.
LEMMA Climb ==
  ASSUME NEW K \in SUBSET Nat, NEW i \in Nat, NEW j \in Nat, i =< j, i \in K,
         \A k \in K : k < j => k + 1 \in K
  PROVE  j \in K
<1> SUFFICES ASSUME j \notin K PROVE FALSE
  OBVIOUS
<1> DEFINE T == {k \in Nat : i =< k /\ k =< j /\ k \notin K}
<1>1. T \subseteq Nat /\ T # {}
  OBVIOUS
<1>2. PICK k \in T : \A l \in T : k =< l
  BY <1>1, LeastElement
<1>3. k # i /\ k - 1 \in Nat /\ i =< k - 1 /\ k - 1 < j /\ (k - 1) + 1 = k
  BY <1>2
<1>4. k - 1 \notin T
  BY <1>2, <1>3
<1>5. k - 1 \in K
  BY <1>3, <1>4, <1>2
<1> QED
  BY <1>2, <1>3, <1>5

\* Pages that share a run at one level share one at every level above.
LEMMA SameAbove ==
  ASSUME NEW p \in Nat, NEW q \in Nat, NEW i \in 0 .. 13, NEW j \in 0 .. 13,
         i =< j, p \div 2^i = q \div 2^i
  PROVE  p \div 2^j = q \div 2^j
<1> DEFINE K == {k \in Nat : p \div 2^k = q \div 2^k}
<1>1. ASSUME NEW k \in K, k < j
      PROVE  k + 1 \in K
  <2>1. k \in 0 .. 12 /\ k + 1 \in Nat
    BY <1>1
  <2>2. 2^k \in Nat \ {0} /\ 2^(k + 1) = 2 * 2^k
    BY <2>1, Powers
  <2>3. /\ p \div 2^(k + 1) = (p \div 2^k) \div 2
        /\ q \div 2^(k + 1) = (q \div 2^k) \div 2
    BY <2>2, DoubleDivision
  <2> QED
    BY <2>1, <2>3
<1>2. K \in SUBSET Nat /\ i \in K /\ i \in Nat /\ j \in Nat
  OBVIOUS
<1> HIDE DEF K
<1>3. j \in K
  BY <1>1, <1>2, Climb
<1> QED
  BY <1>3 DEF K

\* Of two nodes with a page in common the larger one has all pages of the other.
LEMMA Nested ==
  ASSUME NEW x \in Nodes, NEW y \in Nodes, x[1] =< y[1],
         NEW p \in Run(x), p \in Run(y)
  PROVE  Run(x) \subseteq Run(y)
<1> SUFFICES ASSUME NEW q \in Run(x) PROVE q \in Run(y)
  OBVIOUS
<1>1. x[1] \in 0 .. 13 /\ y[1] \in 0 .. 13 /\ p \in Nat /\ q \in Nat
  BY NodeFact, LevelFact DEF Run, Pages
<1>2. p \div 2^x[1] = q \div 2^x[1] /\ p \div 2^y[1] = y[2] /\ q \in Pages
  BY DEF Run
<1>3. q \div 2^y[1] = y[2]
  BY <1>1, <1>2, SameAbove
<1> QED
  BY <1>2, <1>3 DEF Run

IsRun(p, x) == Whole(x) /\ size[p] = 2^x[1] /\ buffer[p] = x[2] * 2^x[1]

\* The pages of a packet that was cut out as a node are the node's.
LEMMA PacketIsRun ==
  ASSUME NEW p, NEW x \in Nodes, IsRun(p, x)
  PROVE  PagesOf(p) = Run(x)
<1>1. PICK w : w = 2^x[1]
  OBVIOUS
<1>2. PICK n : n = x[2]
  OBVIOUS
<1>3. PICK b : b = n * w
  OBVIOUS
<1>4. /\ w \in Nat \ {0} /\ n \in Nat /\ b \in Nat /\ (n + 1) * w = b + w
      /\ b + w =< PageCount /\ PageCount \in Nat
  <2>1. w \in Nat \ {0} /\ n \in Nat /\ PageCount \in Nat
    BY <1>1, <1>2, NodeFact, LevelFact
  <2>2. b \in Nat /\ (n + 1) * w = b + w
    BY <2>1, <1>3
  <2> QED
    BY <2>1, <2>2, <1>1, <1>2 DEF IsRun, Whole
<1>5. buffer[p] = b /\ size[p] = w
  BY <1>1, <1>2, <1>3 DEF IsRun
<1>6. b # NULL
  BY <1>4, PacketAssumption
<1>7. PagesOf(p) = b .. b + w - 1
  BY <1>5, <1>6 DEF PagesOf
<1>8. \A q \in Pages : q \in Run(x) <=> b =< q /\ q < b + w
  BY <1>1, <1>2, <1>3, <1>4, PageOfNode
<1>9. \A q : q \in b .. b + w - 1 => q \in Pages /\ b =< q /\ q < b + w
  BY <1>4 DEF Pages
<1>10. \A q \in Pages : b =< q /\ q < b + w => q \in b .. b + w - 1
  BY <1>4 DEF Pages
<1>11. Run(x) \subseteq Pages
  BY DEF Run
<1> QED
  BY <1>7, <1>8, <1>9, <1>10, <1>11

-----------------------------------------------------------------------------
(* The store at the beginning *)

\* The nodes the constructor puts into the rings.
LEMMA InitialFact ==
  ASSUME NEW x \in InitialNodes
  PROVE  /\ x \in Nodes /\ Whole(x) /\ x[1] \in 0 .. 12
         /\ x[2] = (PageCount \div 2^x[1]) - 1 /\ (PageCount \div 2^x[1]) % 2 = 1
<1>1. PICK i \in Levels : x = <<i, (PageCount \div 2^i) - 1>> /\ (PageCount \div 2^i) % 2 = 1
  BY DEF InitialNodes
<1>2. PICK w : w = 2^i
  OBVIOUS
<1>3. PICK b : b = PageCount \div w
  OBVIOUS
<1>4. w \in Nat \ {0} /\ PageCount \in Nat /\ w =< PageCount /\ i \in 0 .. 12
  BY <1>2, LevelFact
<1>5. b \in Int /\ b * w =< PageCount /\ PageCount < (b + 1) * w
  <2>1. b \in Int
    BY <1>3, <1>4
  <2> QED
    BY <2>1, <1>3, <1>4, Division
<1>6. b >= 1
  <2>1. CASE b =< 0
    <3>1. (b + 1) * w =< w
      BY <2>1, <1>4, <1>5
    <3> QED
      BY <3>1, <1>4, <1>5
  <2> QED
    BY <2>1, <1>5
<1>7. x[1] = i /\ x[2] = b - 1 /\ x = <<i, b - 1>> /\ b - 1 \in Nat /\ (b - 1) + 1 = b
  BY <1>1, <1>2, <1>3, <1>5, <1>6
<1>8. Whole(x) /\ x \in Nodes
  BY <1>2, <1>5, <1>7, WholeIsNode DEF Whole
<1> QED
  BY <1>1, <1>4, <1>7, <1>8

\* Every page is in one initial node, and below the next one up.
LEMMA InitialCovers ==
  ASSUME NEW p \in Pages
  PROVE  \E x \in InitialNodes : p \in Run(x)
<1> DEFINE K == {k \in Nat : k =< 13 /\ p \div 2^k = PageCount \div 2^k}
<1>1. p \in Nat /\ PageCount \in Nat /\ p < PageCount /\ PageCount =< 4096
  BY LevelFact DEF Pages
<1>2. 13 \in K
  <2>1. 2^13 = 8192
    OBVIOUS
  <2>2. p \div 8192 = 0 /\ PageCount \div 8192 = 0
    BY <1>1
  <2> QED
    BY <2>1, <2>2
<1>3. 0 \notin K
  <2>1. 2^0 = 1
    OBVIOUS
  <2>2. p \div 1 = p /\ PageCount \div 1 = PageCount
    BY <1>1
  <2> QED
    BY <2>1, <2>2, <1>1
<1>4. K \in SUBSET Nat /\ K # {}
  BY <1>2
<1>5. PICK k \in K : \A l \in K : k =< l
  BY <1>4, LeastElement
<1>6. k \in Nat /\ k # 0 /\ k =< 13 /\ k - 1 \in 0 .. 12 /\ (k - 1) + 1 = k
  <2>1. k \in Nat /\ k =< 13
    BY <1>5
  <2>2. k # 0
    BY <1>3, <1>5
  <2> QED
    BY <2>1, <2>2
<1>7. p \div 2^(k - 1) # PageCount \div 2^(k - 1)
  BY <1>5, <1>6
<1>8. p \div 2^k = PageCount \div 2^k
  BY <1>5
<1>9. PICK v : v = 2^(k - 1)
  OBVIOUS
<1>10. v \in Nat \ {0} /\ 2^k = 2 * v
  BY <1>6, <1>9, Powers
<1>11. PICK a : a = p \div v
  OBVIOUS
<1>12. PICK b : b = PageCount \div v
  OBVIOUS
<1>13. a \in Int /\ b \in Int /\ a # b /\ a \div 2 = b \div 2
  <2>1. a \in Int /\ b \in Int
    BY <1>1, <1>10, <1>11, <1>12
  <2>2. a # b
    BY <1>7, <1>9, <1>11, <1>12
  <2>3. p \div (2 * v) = a \div 2 /\ PageCount \div (2 * v) = b \div 2
    <3>1. \A q \in Nat : q \div (2 * v) = (q \div v) \div 2
      BY <1>10, DoubleDivision
    <3> QED
      BY <3>1, <1>1, <1>11, <1>12
  <2> QED
    BY <2>1, <2>2, <2>3, <1>8, <1>10
<1>14. a * v =< p /\ PageCount < (b + 1) * v /\ b * v =< PageCount
  BY <1>1, <1>10, <1>11, <1>12, <1>13, Division
<1>15. a =< b /\ 0 =< a
  <2>1. a * v < (b + 1) * v
    BY <1>1, <1>10, <1>13, <1>14
  <2>2. 0 =< a
    BY <1>1, <1>10, <1>11
  <2> QED
    BY <2>1, <2>2, <1>10, <1>13
<1>16. a = b - 1 /\ b % 2 = 1 /\ b >= 1
  BY <1>13, <1>15
<1>17. v =< PageCount
  <2>1. v =< b * v
    BY <1>10, <1>13, <1>16
  <2> QED
    BY <2>1, <1>1, <1>10, <1>13, <1>14
<1>18. k - 1 \in Levels
  BY <1>6, <1>9, <1>17 DEF Levels, MaxLevel
<1>19. <<k - 1, b - 1>> \in InitialNodes
  BY <1>9, <1>12, <1>16, <1>18 DEF InitialNodes
<1>20. p \in Run(<<k - 1, b - 1>>)
  BY <1>9, <1>11, <1>16 DEF Run
<1> QED
  BY <1>19, <1>20

\* Above its initial node a page shares its run with the end of the store.
LEMMA AboveInitial ==
  ASSUME NEW x \in InitialNodes, NEW p \in Run(x), NEW j \in 0 .. 13, x[1] < j
  PROVE  p \div 2^j = PageCount \div 2^j
<1>1. p \in Nat /\ PageCount \in Nat
  BY LevelFact DEF Run, Pages
<1>2. PICK i : i = x[1]
  OBVIOUS
<1>3. /\ i \in 0 .. 12 /\ (PageCount \div 2^i) % 2 = 1
      /\ p \div 2^i = (PageCount \div 2^i) - 1
  BY <1>2, InitialFact DEF Run
<1>4. PICK v : v = 2^i
  OBVIOUS
<1>5. v \in Nat \ {0} /\ 2^(i + 1) = 2 * v
  BY <1>3, <1>4, Powers
<1>6. PICK b : b = PageCount \div v
  OBVIOUS
<1>7. b \in Int /\ (b - 1) \div 2 = b \div 2
  BY <1>1, <1>3, <1>4, <1>5, <1>6
<1>8. p \div 2^(i + 1) = PageCount \div 2^(i + 1)
  BY <1>1, <1>3, <1>4, <1>5, <1>6, <1>7, DoubleDivision
<1>9. i + 1 \in 0 .. 13 /\ i + 1 =< j
  BY <1>2, <1>3
<1> QED
  BY <1>1, <1>8, <1>9, SameAbove

\* No page is in two of them.
LEMMA InitialDisjoint ==
  ASSUME NEW x \in InitialNodes, NEW y \in InitialNodes, NEW p \in Run(x), p \in Run(y)
  PROVE  x = y
<1>1. x[1] \in 0 .. 12 /\ y[1] \in 0 .. 12 /\ PageCount \in Nat
  BY InitialFact, LevelFact
<1>2. \A z \in InitialNodes : p \in Run(z) => p \div 2^z[1] = (PageCount \div 2^z[1]) - 1
  BY InitialFact DEF Run
<1>3. \A z \in InitialNodes : 2^z[1] \in Nat \ {0} /\ PageCount \div 2^z[1] \in Int
  BY <1>1, InitialFact, NodeFact
<1>4. ~(x[1] < y[1])
  <2>1. ASSUME x[1] < y[1] PROVE FALSE
    <3>0. y[1] \in 0 .. 13
      BY <1>1
    <3>1. p \div 2^y[1] = PageCount \div 2^y[1]
      BY <2>1, <3>0, AboveInitial
    <3> QED
      BY <3>1, <1>2, <1>3
  <2> QED
    BY <2>1
<1>5. ~(y[1] < x[1])
  <2>1. ASSUME y[1] < x[1] PROVE FALSE
    <3>0. x[1] \in 0 .. 13 /\ p \in Run(y)
      BY <1>1
    <3>1. p \div 2^x[1] = PageCount \div 2^x[1]
      BY <2>1, <3>0, AboveInitial
    <3> QED
      BY <3>1, <1>2, <1>3
  <2> QED
    BY <2>1
<1>6. x[1] = y[1]
  BY <1>1, <1>4, <1>5
<1>7. x[2] = y[2]
  BY <1>6 DEF Run
<1>8. x = <<x[1], x[2]>> /\ y = <<y[1], y[2]>>
  BY InitialFact, NodeFact
<1> QED
  BY <1>6, <1>7, <1>8

-----------------------------------------------------------------------------
(* The free rings *)

RingTypes ==
  /\ header \in [Levels -> Nodes \cup {NULL}]
  /\ next \in [Nodes -> Nodes \cup {NULL}]
  /\ prev \in [Nodes -> Nodes \cup {NULL}]

FreeAt(i) == {x \in Free : x[1] = i}

\* pNext and pPrev lead to free nodes of the same level and undo each other.
Links ==
  \A x \in Free : /\ next[x] \in FreeAt(x[1]) /\ prev[x] \in FreeAt(x[1])
                  /\ prev[next[x]] = x /\ next[prev[x]] = x

\* pHeader is in the ring, and there is one ring: pNext leads out of every
\* smaller part of it.
OneRing ==
  \A i \in Levels :
    /\ header[i] = NULL => FreeAt(i) = {}
    /\ header[i] # NULL => header[i] \in FreeAt(i)
    /\ \A S \in SUBSET FreeAt(i) :
         S # {} /\ (\A x \in S : next[x] \in S) => S = FreeAt(i)

RingInv == RingTypes /\ Links /\ OneRing

\* NULL is no node.
LEMMA NullFact == NULL \notin Nodes
BY PacketAssumption, NodeFact, LevelFact

\* RemoveFree leaves whole rings, without the node.
LEMMA RemoveFromRing ==
  ASSUME RingInv, NEW x \in Free, RemoveFree(x)
  PROVE  RingInv' /\ Free' = Free \ {x}
<1> NULL \notin Nodes
  BY NullFact
<1>0. PICK i : i = x[1]
  OBVIOUS
<1>1. PICK s : s = next[x]
  OBVIOUS
<1>2. PICK r : r = prev[x]
  OBVIOUS
<1>3. /\ x \in Nodes /\ s \in Free /\ r \in Free /\ s \in Nodes /\ r \in Nodes
      /\ i \in Levels /\ s[1] = i /\ r[1] = i /\ prev[s] = x /\ next[r] = x
      /\ (s = x <=> r = x)
  BY <1>0, <1>1, <1>2, NodeFact DEF RingInv, Links, FreeAt, Free
<1>4. /\ next' = [next EXCEPT ![r] = s, ![x] = NULL]
      /\ prev' = [prev EXCEPT ![s] = r, ![x] = NULL]
      /\ header' = IF header[i] # x THEN header
                   ELSE [header EXCEPT ![i] = IF s = x THEN NULL ELSE s]
  BY <1>0, <1>1, <1>2 DEF RemoveFree
<1>5. RingTypes'
  BY <1>3, <1>4 DEF RingInv, RingTypes
<1>6. /\ \A y \in Nodes : y # x /\ y # r => next'[y] = next[y]
      /\ \A y \in Nodes : y # x /\ y # s => prev'[y] = prev[y]
      /\ next'[x] = NULL
      /\ r # x => next'[r] = s /\ prev'[s] = r
  BY <1>3, <1>4 DEF RingInv, RingTypes
<1>7. Free' = Free \ {x}
  BY <1>3, <1>6 DEF Free
<1>8. \A j : FreeAt(j)' = FreeAt(j) \ {x}
  BY <1>7 DEF FreeAt
<1>9. Links'
  <2> SUFFICES ASSUME NEW y \in Free, y # x
               PROVE  /\ next'[y] \in Free \ {x} /\ prev'[y] \in Free \ {x}
                      /\ next'[y][1] = y[1] /\ prev'[y][1] = y[1]
                      /\ prev'[next'[y]] = y /\ next'[prev'[y]] = y
    BY <1>7 DEF Links, FreeAt
  <2>1. /\ y \in Nodes /\ next[y] \in Free /\ prev[y] \in Free
        /\ next[y] \in Nodes /\ prev[y] \in Nodes
        /\ next[y][1] = y[1] /\ prev[y][1] = y[1]
        /\ prev[next[y]] = y /\ next[prev[y]] = y
    BY DEF RingInv, Links, FreeAt, Free
  <2>2. /\ next'[y] \in Free \ {x} /\ next'[y][1] = y[1] /\ prev'[next'[y]] = y
    <3>1. CASE y = r
      BY <3>1, <1>3, <1>6
    <3>2. CASE y # r
      <4>1. next[y] # x /\ next[y] # s
        BY <3>2, <2>1, <1>1, <1>2, <1>3
      <4> QED
        BY <3>2, <4>1, <2>1, <1>6
    <3> QED
      BY <3>1, <3>2
  <2>3. /\ prev'[y] \in Free \ {x} /\ prev'[y][1] = y[1] /\ next'[prev'[y]] = y
    <3>1. CASE y = s
      BY <3>1, <1>3, <1>6
    <3>2. CASE y # s
      <4>1. prev[y] # x /\ prev[y] # r
        BY <3>2, <2>1, <1>1, <1>2, <1>3
      <4> QED
        BY <3>2, <4>1, <2>1, <1>6
    <3> QED
      BY <3>1, <3>2
  <2> QED
    BY <2>2, <2>3
<1>10. s = x => FreeAt(i) = {x}
  <2>1. {x} \in SUBSET FreeAt(i) /\ {x} # {}
    BY <1>0 DEF FreeAt
  <2>2. s = x => \A y \in {x} : next[y] \in {x}
    BY <1>1
  <2> QED
    BY <2>1, <2>2, <1>3 DEF RingInv, OneRing
<1>11. OneRing'
  <2> SUFFICES ASSUME NEW j \in Levels
               PROVE  /\ header'[j] = NULL => FreeAt(j) \ {x} = {}
                      /\ header'[j] # NULL => header'[j] \in FreeAt(j) \ {x}
                      /\ \A S \in SUBSET (FreeAt(j) \ {x}) :
                           S # {} /\ (\A y \in S : next'[y] \in S)
                             => S = FreeAt(j) \ {x}
    BY <1>8 DEF OneRing
  <2>1. header[j] \in Nodes \cup {NULL} /\ header[j] = header[j]
    BY DEF RingInv, RingTypes
  <2>2. /\ header'[j] = NULL => FreeAt(j) \ {x} = {}
        /\ header'[j] # NULL => header'[j] \in FreeAt(j) \ {x}
    <3>1. CASE header[i] = x /\ j = i
      <4>1. header'[j] = IF s = x THEN NULL ELSE s
        BY <3>1, <1>3, <1>4 DEF RingInv, RingTypes
      <4>2. s \in FreeAt(i)
        BY <1>3 DEF FreeAt
      <4> QED
        BY <4>1, <4>2, <3>1, <1>3, <1>10
    <3>2. CASE header[i] # x \/ j # i
      <4>1. header'[j] = header[j]
        BY <3>2, <1>3, <1>4 DEF RingInv, RingTypes
      <4>2. header[j] # x
        <5>1. header[j] # NULL => header[j] \in FreeAt(j)
          BY DEF RingInv, OneRing
        <5> QED
          BY <5>1, <3>2, <1>0, <1>3 DEF FreeAt
      <4> QED
        BY <4>1, <4>2 DEF RingInv, OneRing
    <3> QED
      BY <3>1, <3>2
  <2>3. ASSUME NEW S \in SUBSET (FreeAt(j) \ {x}), S # {},
               \A y \in S : next'[y] \in S
        PROVE  S = FreeAt(j) \ {x}
    <3>1. S \subseteq Nodes /\ x \notin S
      BY DEF FreeAt, Free
    <3>2. CASE r \in S
      <4>1. r # x /\ s \in S
        BY <3>1, <3>2, <2>3, <1>6
      <4>2. j = i
        BY <3>2, <1>3 DEF FreeAt
      <4>3. S \cup {x} \in SUBSET FreeAt(i) /\ S \cup {x} # {}
        BY <4>2, <1>0 DEF FreeAt
      <4>4. \A y \in S \cup {x} : next[y] \in S \cup {x}
        BY <4>1, <3>1, <2>3, <1>1, <1>3, <1>6
      <4>5. S \cup {x} = FreeAt(i)
        <5>1. \A T \in SUBSET FreeAt(i) :
                T # {} /\ (\A y \in T : next[y] \in T) => T = FreeAt(i)
          BY <1>3 DEF RingInv, OneRing
        <5> QED
          BY <5>1, <4>3, <4>4
      <4> QED
        BY <4>5, <4>2, <3>1
    <3>3. CASE r \notin S
      <4>1. \A y \in S : next[y] \in S
        BY <3>1, <3>3, <2>3, <1>6
      <4>2. S \in SUBSET FreeAt(j)
        OBVIOUS
      <4>3. S = FreeAt(j)
        BY <4>1, <4>2, <2>3 DEF RingInv, OneRing
      <4> QED
        BY <4>3, <3>1
    <3> QED
      BY <3>2, <3>3
  <2> QED
    BY <2>2, <2>3
<1> QED
  BY <1>5, <1>7, <1>9, <1>11 DEF RingInv

\* InsertFree leaves whole rings, with the node.
LEMMA InsertIntoRing ==
  ASSUME RingInv, NEW x \in Nodes \ Free, InsertFree(x)
  PROVE  RingInv' /\ Free' = Free \cup {x}
<1> NULL \notin Nodes
  BY NullFact
<1>0. PICK i : i = x[1]
  OBVIOUS
<1>1. PICK f : f = header[i]
  OBVIOUS
<1>2. PICK l : l = prev[f]
  OBVIOUS
<1>3. i \in Levels /\ header' = [header EXCEPT ![i] = x]
  BY <1>0, NodeFact DEF InsertFree
<1>4. CASE f = NULL
  <2>1. FreeAt(i) = {}
    BY <1>1, <1>3, <1>4 DEF RingInv, OneRing
  <2>2. next' = [next EXCEPT ![x] = x] /\ prev' = [prev EXCEPT ![x] = x]
    BY <1>0, <1>1, <1>4 DEF InsertFree
  <2>3. RingTypes'
    BY <1>3, <2>2 DEF RingInv, RingTypes
  <2>4. /\ \A y \in Nodes : y # x => next'[y] = next[y] /\ prev'[y] = prev[y]
        /\ next'[x] = x /\ prev'[x] = x
    BY <2>2 DEF RingInv, RingTypes
  <2>5. Free' = Free \cup {x}
    BY <2>4 DEF Free
  <2>6. Links'
    <3> SUFFICES ASSUME NEW y \in Free \cup {x}
                 PROVE  /\ next'[y] \in Free \cup {x} /\ prev'[y] \in Free \cup {x}
                        /\ next'[y][1] = y[1] /\ prev'[y][1] = y[1]
                        /\ prev'[next'[y]] = y /\ next'[prev'[y]] = y
      BY <2>5 DEF Links, FreeAt
    <3>1. CASE y = x
      BY <3>1, <2>4
    <3>2. CASE y # x
      <4>1. /\ y \in Nodes /\ next[y] \in Free /\ prev[y] \in Free
            /\ next[y] \in Nodes /\ prev[y] \in Nodes
            /\ next[y][1] = y[1] /\ prev[y][1] = y[1]
            /\ prev[next[y]] = y /\ next[prev[y]] = y
        BY <3>2 DEF RingInv, Links, FreeAt, Free
      <4> QED
        BY <3>2, <4>1, <2>4
    <3> QED
      BY <3>1, <3>2
  <2>7. FreeAt(i)' = {x} /\ \A j : j # i => FreeAt(j)' = FreeAt(j)
    BY <1>0, <2>1, <2>5 DEF FreeAt
  <2>8. ASSUME NEW j \in Levels
        PROVE  /\ header'[j] = NULL => FreeAt(j)' = {}
               /\ header'[j] # NULL => header'[j] \in FreeAt(j)'
               /\ \A S \in SUBSET FreeAt(j)' :
                    S # {} /\ (\A y \in S : next'[y] \in S) => S = FreeAt(j)'
    <3>1. CASE j = i
      BY <3>1, <1>3, <2>7 DEF RingInv, RingTypes
    <3>2. CASE j # i
      <4>1. header'[j] = header[j]
        BY <3>2, <1>3 DEF RingInv, RingTypes
      <4>2. \A y \in FreeAt(j) : next'[y] = next[y]
        BY <3>2, <1>0, <2>4 DEF FreeAt, Free
      <4>3. /\ header[j] = NULL => FreeAt(j) = {}
            /\ header[j] # NULL => header[j] \in FreeAt(j)
            /\ \A S \in SUBSET FreeAt(j) :
                 S # {} /\ (\A y \in S : next[y] \in S) => S = FreeAt(j)
        BY DEF RingInv, OneRing
      <4> QED
        BY <3>2, <4>1, <4>2, <4>3, <2>7
    <3> QED
      BY <3>1, <3>2
  <2>9. OneRing'
    BY <2>8 DEF OneRing
  <2> QED
    BY <2>3, <2>5, <2>6, <2>9 DEF RingInv
<1>5. CASE f # NULL
  <2>1. f \in FreeAt(i)
    BY <1>1, <1>3, <1>5 DEF RingInv, OneRing
  <2>2. /\ f \in Free /\ f \in Nodes /\ f[1] = i /\ f # x
        /\ l \in Free /\ l \in Nodes /\ l[1] = i /\ l # x /\ next[l] = f
    BY <2>1, <1>2 DEF RingInv, Links, FreeAt, Free
  <2>3. /\ next' = [next EXCEPT ![l] = x, ![x] = f]
        /\ prev' = [prev EXCEPT ![x] = l, ![f] = x]
    BY <1>0, <1>1, <1>2, <1>5 DEF InsertFree
  <2>4. RingTypes'
    BY <1>3, <2>2, <2>3 DEF RingInv, RingTypes
  <2>5. /\ \A y \in Nodes : y # x /\ y # l => next'[y] = next[y]
        /\ \A y \in Nodes : y # x /\ y # f => prev'[y] = prev[y]
        /\ next'[x] = f /\ next'[l] = x /\ prev'[x] = l /\ prev'[f] = x
    BY <2>2, <2>3 DEF RingInv, RingTypes
  <2>6. Free' = Free \cup {x}
    BY <2>2, <2>5 DEF Free
  <2>7. Links'
    <3> SUFFICES ASSUME NEW y \in Free \cup {x}
                 PROVE  /\ next'[y] \in Free \cup {x} /\ prev'[y] \in Free \cup {x}
                        /\ next'[y][1] = y[1] /\ prev'[y][1] = y[1]
                        /\ prev'[next'[y]] = y /\ next'[prev'[y]] = y
      BY <2>6 DEF Links, FreeAt
    <3>1. CASE y = x
      BY <3>1, <1>0, <2>2, <2>5
    <3>2. CASE y # x
      <4>1. /\ y \in Nodes /\ next[y] \in Free /\ prev[y] \in Free
            /\ next[y] \in Nodes /\ prev[y] \in Nodes
            /\ next[y][1] = y[1] /\ prev[y][1] = y[1]
            /\ prev[next[y]] = y /\ next[prev[y]] = y
        BY <3>2 DEF RingInv, Links, FreeAt, Free
      <4>2. /\ next'[y] \in Free \cup {x} /\ next'[y][1] = y[1]
            /\ prev'[next'[y]] = y
        <5>1. CASE y = l
          BY <5>1, <1>0, <2>2, <2>5
        <5>2. CASE y # l
          <6>1. next[y] # f /\ next[y] # x
            BY <5>2, <4>1, <1>2
          <6> QED
            BY <6>1, <5>2, <3>2, <4>1, <2>5
        <5> QED
          BY <5>1, <5>2
      <4>3. /\ prev'[y] \in Free \cup {x} /\ prev'[y][1] = y[1]
            /\ next'[prev'[y]] = y
        <5>1. CASE y = f
          BY <5>1, <1>0, <2>2, <2>5
        <5>2. CASE y # f
          <6>1. prev[y] # l /\ prev[y] # x
            BY <5>2, <4>1, <2>2
          <6> QED
            BY <6>1, <5>2, <3>2, <4>1, <2>5
        <5> QED
          BY <5>1, <5>2
      <4> QED
        BY <4>2, <4>3
    <3> QED
      BY <3>1, <3>2
  <2>8. FreeAt(i)' = FreeAt(i) \cup {x} /\ \A j : j # i => FreeAt(j)' = FreeAt(j)
    BY <1>0, <2>6 DEF FreeAt
  <2>9. ASSUME NEW j \in Levels
        PROVE  /\ header'[j] = NULL => FreeAt(j)' = {}
               /\ header'[j] # NULL => header'[j] \in FreeAt(j)'
               /\ \A S \in SUBSET FreeAt(j)' :
                    S # {} /\ (\A y \in S : next'[y] \in S) => S = FreeAt(j)'
    <3>0. /\ header[j] = NULL => FreeAt(j) = {}
          /\ header[j] # NULL => header[j] \in FreeAt(j)
          /\ \A S \in SUBSET FreeAt(j) :
               S # {} /\ (\A y \in S : next[y] \in S) => S = FreeAt(j)
      BY DEF RingInv, OneRing
    <3>1. CASE j = i
      <4>1. header'[j] = x
        BY <3>1, <1>3 DEF RingInv, RingTypes
      <4>2. ASSUME NEW S \in SUBSET (FreeAt(i) \cup {x}), S # {},
                   \A y \in S : next'[y] \in S
            PROVE  S = FreeAt(i) \cup {x}
        <5> DEFINE T == S \ {x}
        <5>1. T \in SUBSET FreeAt(i) /\ x \notin FreeAt(i)
          BY DEF FreeAt
        <5>2. x \in S => f \in S
          BY <4>2, <2>5
        <5>3. T # {}
          BY <5>2, <4>2, <2>2
        <5>4. ASSUME NEW y \in T PROVE next[y] \in T
          <6>1. y \in Nodes /\ next[y] # x /\ y \in S /\ y # x
            BY <5>1 DEF RingInv, Links, FreeAt, Free
          <6>2. CASE y = l
            <7>1. x \in S
              BY <6>1, <6>2, <4>2, <2>5
            <7> QED
              BY <7>1, <6>2, <5>2, <2>2
          <6>3. CASE y # l
            BY <6>1, <6>3, <4>2, <2>5
          <6> QED
            BY <6>2, <6>3
        <5>5. T = FreeAt(i)
          <6> HIDE DEF T
          <6> QED
            BY <5>1, <5>3, <5>4, <3>0, <3>1
        <5>6. l \in S /\ l # x
          BY <5>5, <2>2 DEF FreeAt
        <5>7. x \in S
          BY <5>6, <4>2, <2>2, <2>5
        <5> QED
          BY <5>5, <5>7
      <4> QED
        BY <3>1, <4>1, <4>2, <2>8
    <3>2. CASE j # i
      <4>1. header'[j] = header[j]
        BY <3>2, <1>3 DEF RingInv, RingTypes
      <4>2. \A y \in FreeAt(j) : next'[y] = next[y]
        BY <3>2, <1>0, <2>2, <2>5 DEF FreeAt, Free
      <4> QED
        BY <3>0, <3>2, <4>1, <4>2, <2>8
    <3> QED
      BY <3>1, <3>2
  <2>10. OneRing'
    BY <2>9 DEF OneRing
  <2> QED
    BY <2>4, <2>6, <2>7, <2>10 DEF RingInv
<1> QED
  BY <1>4, <1>5

-----------------------------------------------------------------------------
(* Splitting and joining *)

\* Larger levels have wider nodes.
LEMMA PowersGrow ==
  ASSUME NEW i \in 0 .. 13, NEW j \in 0 .. 12, i =< j
  PROVE  2^i =< 2^j
<1> DEFINE K == {k \in Nat : k =< 13 => 2^i =< 2^k}
<1>1. ASSUME NEW k \in K, k < j
      PROVE  k + 1 \in K
  <2>1. k \in 0 .. 12 /\ k + 1 \in Nat /\ i \in 0 .. 12
    BY <1>1
  <2>2. 2^k \in Nat \ {0} /\ 2^(k + 1) = 2 * 2^k /\ 2^i \in Nat \ {0}
    BY <2>1, Powers
  <2>3. 2^i =< 2^k
    BY <2>1
  <2> QED
    BY <2>1, <2>2, <2>3
<1>2. K \in SUBSET Nat /\ i \in K /\ i \in Nat /\ j \in Nat
  BY Powers
<1> HIDE DEF K
<1>3. j \in K
  BY <1>1, <1>2, Climb
<1> QED
  BY <1>3 DEF K

\* The width of a node tells its level.
LEMMA PowersDiffer ==
  ASSUME NEW i \in Levels, NEW j \in Levels, 2^i = 2^j
  PROVE  i = j
<1>1. i \in 0 .. 12 /\ j \in 0 .. 12
  BY LevelFact
<1>2. \A k, l \in 0 .. 12 : k < l => 2^k < 2^l
  <2> SUFFICES ASSUME NEW k \in 0 .. 12, NEW l \in 0 .. 12, k < l PROVE 2^k < 2^l
    OBVIOUS
  <2>1. k + 1 \in 0 .. 13 /\ k + 1 =< l
    OBVIOUS
  <2>2. 2^(k + 1) =< 2^l
    BY <2>1, PowersGrow
  <2>3. 2^k \in Nat \ {0} /\ 2^(k + 1) = 2 * 2^k /\ 2^l \in Nat
    BY Powers
  <2> QED
    BY <2>2, <2>3
<1>3. 2^i \in Nat /\ 2^j \in Nat
  BY <1>1, Powers
<1>4. ~(i < j)
  <2>1. ASSUME i < j PROVE 2^i < 2^j
    BY <2>1, <1>1, <1>2
  <2> QED
    BY <2>1, <1>3
<1>5. ~(j < i)
  <2>1. ASSUME j < i PROVE 2^j < 2^i
    BY <2>1, <1>1, <1>2
  <2> QED
    BY <2>1, <1>3
<1> QED
  BY <1>1, <1>4, <1>5

Shapes ==
  /\ size \in [Packets -> {0} \cup {2^i : i \in Levels}]
  /\ buffer \in [Packets -> 0 .. PageCount - 1 \cup {NULL}]
  /\ type \in 0 .. MaxLevel + 1
  /\ hand \in Nodes \cup {NULL}

\* What the thread with the mutex has in hand: splitting keeps the first page of
\* the node that was taken, which is the packet's.
Holding ==
  /\ mutex # NULL => pc[mutex] \in {"search", "split", "merge"}
  /\ hand # NULL <=> mutex # NULL /\ pc[mutex] \in {"split", "merge"}
  /\ \A t \in Threads : pc[t] = "split" =>
       /\ type \in Levels /\ type =< hand[1]
       /\ size[cur[t]] = 2^type /\ buffer[cur[t]] = hand[2] * 2^hand[1]

\* The pages of a packet are those of one node.
PacketRuns == \A p \in Live : buffer[p] # NULL => \E x \in Nodes : IsRun(p, x)

OwnersWhole == \A x \in Owners : Whole(x)

StoreInv == /\ RingInv /\ Shapes /\ Holding
            /\ PacketRuns /\ OwnersWhole /\ Tiling /\ NoFreeBuddies
PageInv == RefInv /\ StoreInv

\* Steps that move no page: the rings and the node in hand are what they were,
\* and so are the packets that have pages.
LEMMA SamePages ==
  ASSUME PageInv, UNCHANGED <<ring, hand>>,
         \A p : p \in Live' /\ PagesOf(p)' # {} => p \in Live /\ PagesOf(p)' = PagesOf(p),
         \A p : p \in Live /\ PagesOf(p) # {} => p \in Live' /\ PagesOf(p)' = PagesOf(p)
  PROVE  RingInv' /\ OwnersWhole' /\ Tiling' /\ NoFreeBuddies'
<1>1. UNCHANGED <<header, next, prev>>
  BY DEF ring
<1>2. RingInv'
  BY <1>1 DEF PageInv, StoreInv, RingInv, RingTypes, Links, OneRing, FreeAt, Free
<1>3. Free' = Free /\ Owners' = Owners
  BY <1>1 DEF Free, Owners
<1>4. OwnersWhole' /\ NoFreeBuddies'
  BY <1>3 DEF PageInv, StoreInv, OwnersWhole, NoFreeBuddies
<1>5. Tiling'
  <2>1. Tiling
    BY DEF PageInv, StoreInv
  <2>2. NothingLost'
    <3> SUFFICES ASSUME NEW pg \in Pages
                 PROVE  \/ \E x \in Owners : pg \in Run(x)
                        \/ \E p \in Live' : pg \in PagesOf(p)'
      BY <1>3 DEF NothingLost
    <3>1. CASE \E x \in Owners : pg \in Run(x)
      BY <3>1
    <3>2. ASSUME NEW p \in Live, pg \in PagesOf(p)
          PROVE  p \in Live' /\ pg \in PagesOf(p)'
      BY <3>2
    <3> QED
      BY <2>1, <3>1, <3>2 DEF Tiling, NothingLost
  <2>3. \A p, q \in Live' : p # q => PagesOf(p)' \cap PagesOf(q)' = {}
    <3> SUFFICES ASSUME NEW p \in Live', NEW q \in Live', p # q,
                        PagesOf(p)' # {}, PagesOf(q)' # {}
                 PROVE  PagesOf(p)' \cap PagesOf(q)' = {}
      OBVIOUS
    <3> QED
      BY <2>1 DEF Tiling, NothingShared
  <2>4. \A x \in Owners, p \in Live' : Run(x) \cap PagesOf(p)' = {}
    <3> SUFFICES ASSUME NEW x \in Owners, NEW p \in Live', PagesOf(p)' # {}
                 PROVE  Run(x) \cap PagesOf(p)' = {}
      OBVIOUS
    <3> QED
      BY <2>1 DEF Tiling, NothingShared
  <2>5. hand' \notin Free' /\ \A x, y \in Owners : x # y => Run(x) \cap Run(y) = {}
    BY <1>3, <2>1 DEF Tiling, NothingShared
  <2> QED
    BY <1>3, <2>2, <2>3, <2>4, <2>5 DEF Tiling, NothingShared
<1> QED
  BY <1>2, <1>4, <1>5

\* A new packet has no pages, and the others keep theirs.
LEMMA NewPacketHasNoPages ==
  ASSUME PageInv, NEW c \in Packets, AllocPacket(c)
  PROVE  /\ made' \ shells' = (made \ shells) \cup {c} /\ c \notin made \ shells
         /\ buffer'[c] = NULL /\ PagesOf(c)' = {}
         /\ \A p \in Packets : p # c => /\ buffer'[p] = buffer[p] /\ size'[p] = size[p]
                                        /\ PagesOf(p)' = PagesOf(p)
<1>1. c \notin made \ shells /\ made' \ shells' = (made \ shells) \cup {c}
  <2>1. CASE c \in shells /\ shells' = shells \ {c} /\ made' = made
    BY <2>1 DEF PageInv, RefInv, RefTypes
  <2>2. CASE /\ shells = {}
             /\ \E chunk \in SUBSET (Packets \ made) :
                  c \in chunk /\ made' = made \cup chunk /\ shells' = chunk \ {c}
    BY <2>2
  <2> QED
    BY <2>1, <2>2 DEF AllocPacket
<1>2. size' = [size EXCEPT ![c] = 0] /\ buffer' = [buffer EXCEPT ![c] = NULL]
  BY DEF AllocPacket
<1>3. /\ buffer'[c] = NULL
      /\ \A p \in Packets : p # c => buffer'[p] = buffer[p] /\ size'[p] = size[p]
  BY <1>2 DEF PageInv, StoreInv, Shapes
<1> QED
  BY <1>1, <1>3 DEF PagesOf

\* What a step owes apart from the pages.
LEMMA StoreFromParts ==
  ASSUME RingInv' /\ OwnersWhole' /\ Tiling' /\ NoFreeBuddies',
         Shapes', Holding', PacketRuns'
  PROVE  StoreInv'
BY DEF StoreInv

\* A packet without a buffer takes no page.
LEMMA GetHeaderOnlyPages ==
  ASSUME PageInv, NEW t \in Threads, NEW h \in Handles, GetHeaderOnly(t, h)
  PROVE  StoreInv'
<1>1. PICK c \in Packets : AllocPacket(c)
  BY DEF GetHeaderOnly
<1>2. mutex = NULL /\ UNCHANGED <<ring, mutex, pc, cur, ret, type, hand>>
  BY DEF GetHeaderOnly, thread
<1>3. /\ made' \ shells' = (made \ shells) \cup {c} /\ c \notin made \ shells
      /\ buffer'[c] = NULL /\ PagesOf(c)' = {}
      /\ \A p \in Packets : p # c => /\ buffer'[p] = buffer[p] /\ size'[p] = size[p]
                                     /\ PagesOf(p)' = PagesOf(p)
  BY <1>1, NewPacketHasNoPages
<1>4. Live' = Live \cup {c} /\ c \notin Live /\ Live \subseteq Packets
  BY <1>2, <1>3 DEF Live, PageInv, RefInv, RefTypes
<1>5. RingInv' /\ OwnersWhole' /\ Tiling' /\ NoFreeBuddies'
  <2>1. \A p : p \in Live' /\ PagesOf(p)' # {} => p \in Live /\ PagesOf(p)' = PagesOf(p)
    BY <1>3, <1>4
  <2>2. \A p : p \in Live /\ PagesOf(p) # {} => p \in Live' /\ PagesOf(p)' = PagesOf(p)
    BY <1>3, <1>4
  <2> QED
    BY <2>1, <2>2, <1>2, SamePages
<1>6. Shapes'
  BY <1>1, <1>2 DEF PageInv, StoreInv, Shapes, AllocPacket
<1>7. Holding'
  <2>1. \A u \in Threads : pc[u] # "split"
    BY <1>2, PacketAssumption DEF PageInv, RefInv, Control
  <2> QED
    BY <1>2, <2>1 DEF PageInv, StoreInv, Holding
<1>8. PacketRuns'
  <2> SUFFICES ASSUME NEW p \in Live', buffer'[p] # NULL
               PROVE  \E x \in Nodes : IsRun(p, x)'
    BY DEF PacketRuns
  <2>1. p \in Live /\ buffer'[p] = buffer[p] /\ size'[p] = size[p]
    BY <1>3, <1>4
  <2> QED
    BY <2>1 DEF PageInv, StoreInv, PacketRuns, IsRun
<1> QED
  BY <1>5, <1>6, <1>7, <1>8, StoreFromParts

\* The new packet is the one the call works on.
LEMMA GetPacketPages ==
  ASSUME PageInv, NEW t \in Threads, NEW h \in Handles, NEW bytes \in Requests,
         GetPacket(t, h, bytes)
  PROVE  StoreInv'
<1> NULL \notin Threads
  BY PacketAssumption
<1>1. PICK c \in Packets : AllocPacket(c) /\ cur' = [cur EXCEPT ![t] = c]
  BY DEF GetPacket
<1>2. /\ mutex = NULL /\ mutex' = t /\ pc' = [pc EXCEPT ![t] = "search"]
      /\ pc[t] = "idle" /\ type' \in 0 .. MaxLevel + 1 /\ UNCHANGED <<ring, hand>>
  BY DEF GetPacket
<1>3. /\ made' \ shells' = (made \ shells) \cup {c} /\ c \notin made \ shells
      /\ buffer'[c] = NULL /\ PagesOf(c)' = {}
      /\ \A p \in Packets : p # c => /\ buffer'[p] = buffer[p] /\ size'[p] = size[p]
                                     /\ PagesOf(p)' = PagesOf(p)
  BY <1>1, NewPacketHasNoPages
<1>4. Live' = Live /\ c \notin Live /\ Live \subseteq Packets
  <2>1. cur'[mutex'] = c
    BY <1>1, <1>2 DEF PageInv, RefInv, RefTypes
  <2> QED
    BY <2>1, <1>2, <1>3 DEF Live, PageInv, RefInv, RefTypes
<1>5. RingInv' /\ OwnersWhole' /\ Tiling' /\ NoFreeBuddies'
  <2>1. \A p : p \in Live' /\ PagesOf(p)' # {} => p \in Live /\ PagesOf(p)' = PagesOf(p)
    BY <1>3, <1>4
  <2>2. \A p : p \in Live /\ PagesOf(p) # {} => p \in Live' /\ PagesOf(p)' = PagesOf(p)
    BY <1>3, <1>4
  <2> QED
    BY <2>1, <2>2, <1>2, SamePages
<1>6. Shapes'
  BY <1>1, <1>2 DEF PageInv, StoreInv, Shapes, AllocPacket
<1>7. Holding'
  <2>1. \A u \in Threads : pc'[u] # "split"
    BY <1>2 DEF PageInv, RefInv, RefTypes, Control
  <2>2. pc'[mutex'] = "search" /\ hand' = NULL
    BY <1>2 DEF PageInv, StoreInv, Holding, RefInv, RefTypes
  <2> QED
    BY <2>1, <2>2 DEF Holding
<1>8. PacketRuns'
  <2> SUFFICES ASSUME NEW p \in Live', buffer'[p] # NULL
               PROVE  \E x \in Nodes : IsRun(p, x)'
    BY DEF PacketRuns
  <2>1. p \in Live /\ buffer'[p] = buffer[p] /\ size'[p] = size[p]
    BY <1>3, <1>4
  <2> QED
    BY <2>1 DEF PageInv, StoreInv, PacketRuns, IsRun
<1> QED
  BY <1>5, <1>6, <1>7, <1>8, StoreFromParts

\* Counting references moves no page; who releases has not got the mutex.
LEMMA SharingPages ==
  ASSUME PageInv, NEW t \in Threads, pc[t] = "idle",
         UNCHANGED <<ring, made, shells, size, buffer, mutex, type, hand>>,
         \/ UNCHANGED <<pc, cur>>
         \/ pc' = [pc EXCEPT ![t] = "put"] /\ \E p : cur' = [cur EXCEPT ![t] = p]
  PROVE  StoreInv'
<1>1. mutex # t
  BY PacketAssumption DEF PageInv, StoreInv, Holding
<1>2. \A u \in Threads : u # t => pc'[u] = pc[u] /\ cur'[u] = cur[u]
  BY DEF PageInv, RefInv, RefTypes
<1>3. pc'[t] \in {"idle", "put"}
  BY DEF PageInv, RefInv, RefTypes
<1>4. mutex # NULL => mutex \in Threads /\ pc'[mutex] = pc[mutex] /\ cur'[mutex] = cur[mutex]
  BY <1>1, <1>2 DEF PageInv, RefInv, RefTypes
<1>5. Live' = Live
  BY <1>4 DEF Live
<1>6. RingInv' /\ OwnersWhole' /\ Tiling' /\ NoFreeBuddies'
  <2>1. \A p : PagesOf(p)' = PagesOf(p)
    BY DEF PagesOf
  <2> QED
    BY <2>1, <1>5, SamePages
<1>7. Shapes' /\ PacketRuns'
  BY <1>5 DEF PageInv, StoreInv, Shapes, PacketRuns, IsRun
<1>8. Holding'
  <2>1. \A u \in Threads : pc'[u] = "split" => pc[u] = "split" /\ cur'[u] = cur[u]
    BY <1>2, <1>3
  <2> QED
    BY <2>1, <1>4 DEF PageInv, StoreInv, Holding
<1> QED
  BY <1>6, <1>7, <1>8, StoreFromParts

\* A packet without pages becomes a free shell: when GetPacket gives up, and
\* when a packet that had none is released.
LEMMA ShellPages ==
  ASSUME PageInv, NEW t \in Threads, pc[t] # "idle", FreePacket(cur[t]), Ends(t),
         mutex \in {NULL, t}, hand = NULL, UNCHANGED <<ring, made>>,
         mutex = NULL => buffer[cur[t]] = NULL
  PROVE  StoreInv'
<1> NULL \notin Packets /\ NULL \notin Threads
  BY PacketAssumption
<1>0. PICK c : c = cur[t]
  OBVIOUS
<1>1. /\ shells' = shells \cup {c} /\ mutex' = NULL /\ hand' = NULL /\ type' = 0
      /\ pc' = [pc EXCEPT ![t] = "idle"]
      /\ size' = [size EXCEPT ![c] = 0] /\ buffer' = [buffer EXCEPT ![c] = NULL]
  BY <1>0 DEF FreePacket, Ends
<1>2. c \in Packets /\ c \in made
  BY <1>0 DEF PageInv, RefInv, RefTypes, Control
<1>3. /\ Live' = Live \ {c} /\ Live \subseteq Packets
      /\ mutex = t => Live' = Live
  BY <1>0, <1>1 DEF Live, PageInv, RefInv, RefTypes
<1>4. \A p \in Packets : p # c => buffer'[p] = buffer[p] /\ size'[p] = size[p]
  BY <1>1 DEF PageInv, StoreInv, Shapes
<1>5. RingInv' /\ OwnersWhole' /\ Tiling' /\ NoFreeBuddies'
  <2>1. \A p \in Live' : p \in Live /\ PagesOf(p)' = PagesOf(p)
    BY <1>3, <1>4 DEF PagesOf
  <2>2. \A p \in Live : PagesOf(p) # {} => p # c
    <3>1. mutex = NULL => PagesOf(c) = {}
      BY <1>0 DEF PagesOf
    <3>2. mutex = t => c \notin Live
      BY <1>3
    <3> QED
      BY <3>1, <3>2
  <2>3. \A p : p \in Live' /\ PagesOf(p)' # {} => p \in Live /\ PagesOf(p)' = PagesOf(p)
    BY <2>1
  <2>4. \A p : p \in Live /\ PagesOf(p) # {} => p \in Live' /\ PagesOf(p)' = PagesOf(p)
    BY <2>1, <2>2, <1>3
  <2> QED
    BY <2>3, <2>4, <1>1, SamePages
<1>6. Shapes'
  <2>1. type' \in 0 .. MaxLevel + 1
    BY <1>1 DEF MaxLevel
  <2> QED
    BY <2>1, <1>1 DEF PageInv, StoreInv, Shapes
<1>7. Holding'
  <2>1. \A u \in Threads : pc'[u] # "split"
    BY <1>1 DEF PageInv, RefInv, RefTypes, Control
  <2> QED
    BY <2>1, <1>1 DEF Holding
<1>8. PacketRuns'
  <2> SUFFICES ASSUME NEW p \in Live', buffer'[p] # NULL
               PROVE  \E x \in Nodes : IsRun(p, x)'
    BY DEF PacketRuns
  <2>1. p \in Live /\ buffer'[p] = buffer[p] /\ size'[p] = size[p]
    BY <1>3, <1>4
  <2> QED
    BY <2>1 DEF PageInv, StoreInv, PacketRuns, IsRun
<1> QED
  BY <1>5, <1>6, <1>7, <1>8, StoreFromParts

\* The node that is taken was free and is in hand now.
LEMMA TakePages ==
  ASSUME PageInv, NEW t \in Threads, Take(t)
  PROVE  StoreInv'
<1> NULL \notin Nodes /\ NULL \notin Threads
  BY PacketAssumption, NullFact
<1>1. PICK i \in Levels :
        /\ FirstFree(i) /\ RemoveFree(header[i])
        /\ size' = [size EXCEPT ![cur[t]] = 2^type]
        /\ buffer' = [buffer EXCEPT ![cur[t]] = header[i][2] * 2^i]
        /\ hand' = header[i]
  BY DEF Take
<1>2. /\ pc[t] = "search" /\ pc' = [pc EXCEPT ![t] = "split"]
      /\ UNCHANGED <<made, shells, mutex, cur, type>>
  BY DEF Take
<1>3. PICK x : x = header[i]
  OBVIOUS
<1>4. PICK c : c = cur[t]
  OBVIOUS
<1>5. /\ mutex = t /\ c \in Packets /\ hand = NULL
      /\ \A u \in Threads : pc[u] \in {"search", "split", "merge"} => u = t
  BY <1>2, <1>4 DEF PageInv, StoreInv, Holding, RefInv, RefTypes, Control
<1>6. x \in Free /\ x \in Nodes /\ x[1] = i /\ Whole(x)
  <2>1. x # NULL
    BY <1>1, <1>3 DEF FirstFree
  <2>2. x \in FreeAt(i)
    BY <2>1, <1>3 DEF PageInv, StoreInv, RingInv, OneRing
  <2>3. x \in Owners
    BY <2>2 DEF FreeAt, Owners
  <2> QED
    BY <2>2, <2>3 DEF FreeAt, Free, PageInv, StoreInv, OwnersWhole
<1>7. RingInv' /\ Free' = Free \ {x} /\ hand' = x
  BY <1>1, <1>3, <1>6, RemoveFromRing DEF PageInv, StoreInv
<1>8. Owners' = Owners
  BY <1>5, <1>6, <1>7 DEF Owners
<1>9. Live' = Live /\ c \notin Live /\ Live \subseteq Packets
  BY <1>2, <1>4, <1>5 DEF Live, PageInv, RefInv, RefTypes
<1>10. \A p \in Live : PagesOf(p)' = PagesOf(p) /\ size'[p] = size[p] /\ buffer'[p] = buffer[p]
  BY <1>1, <1>4, <1>9 DEF PagesOf, PageInv, StoreInv, Shapes
<1>11. type \in Levels /\ type =< i
  <2>1. type \in 0 .. 13 /\ type =< i
    BY <1>1 DEF FirstFree, PageInv, StoreInv, Shapes, MaxLevel
  <2>2. i \in 0 .. 12 /\ 2^i =< PageCount
    BY LevelFact
  <2>3. 2^type =< 2^i
    BY <2>1, <2>2, PowersGrow
  <2>4. 2^type \in Nat /\ 2^i \in Nat /\ PageCount \in Nat /\ type \in 0 .. 12
    BY <2>1, <2>2, Powers, LevelFact
  <2> QED
    BY <2>1, <2>2, <2>3, <2>4 DEF Levels, MaxLevel
<1>12. x[2] * 2^i \in Pages
  BY <1>6, WholeHasPages DEF Run
<1>13. Shapes'
  <2>1. size' \in [Packets -> {0} \cup {2^j : j \in Levels}]
    BY <1>1, <1>11 DEF PageInv, StoreInv, Shapes
  <2>2. buffer' \in [Packets -> 0 .. PageCount - 1 \cup {NULL}]
    BY <1>1, <1>3, <1>12 DEF PageInv, StoreInv, Shapes, Pages
  <2> QED
    BY <2>1, <2>2, <1>2, <1>6, <1>7 DEF PageInv, StoreInv, Shapes
<1>14. Holding'
  <2>1. pc'[t] = "split" /\ \A u \in Threads : pc'[u] = "split" => u = t
    BY <1>2, <1>5 DEF PageInv, RefInv, RefTypes
  <2>2. size'[c] = 2^type /\ buffer'[c] = x[2] * 2^x[1]
    BY <1>1, <1>3, <1>4, <1>5, <1>6 DEF PageInv, StoreInv, Shapes
  <2> QED
    BY <2>1, <2>2, <1>2, <1>4, <1>5, <1>6, <1>7, <1>11 DEF Holding
<1>15. PacketRuns'
  BY <1>9, <1>10 DEF PageInv, StoreInv, PacketRuns, IsRun
<1>16. OwnersWhole'
  BY <1>8 DEF PageInv, StoreInv, OwnersWhole
<1>17. Tiling'
  <2>1. NothingLost'
    BY <1>8, <1>9, <1>10 DEF PageInv, StoreInv, Tiling, NothingLost
  <2>2. NothingShared'
    BY <1>7, <1>8, <1>9, <1>10 DEF PageInv, StoreInv, Tiling, NothingShared
  <2> QED
    BY <2>1, <2>2 DEF Tiling
<1>18. NoFreeBuddies'
  BY <1>7 DEF PageInv, StoreInv, NoFreeBuddies
<1> QED
  BY <1>7, <1>13, <1>14, <1>15, <1>16, <1>17, <1>18, StoreFromParts

\* The halves of a node are each other's other half.
LEMMA HalvesAreBuddies ==
  ASSUME NEW x \in Nodes, x[1] # 0
  PROVE  /\ Buddy(RightChild(x)) = LeftChild(x)
         /\ LeftChild(x) # RightChild(x)
         /\ LeftChild(x)[1] = x[1] - 1 /\ RightChild(x)[1] = x[1] - 1
<1>1. x[2] \in Nat /\ x[1] \in Nat
  BY NodeFact, LevelFact
<1>2. (2 * x[2] + 1) % 2 = 1 /\ (2 * x[2] + 1) - 1 = 2 * x[2]
  BY <1>1
<1>3. 2 * x[2] # 2 * x[2] + 1
  BY <1>1
<1> QED
  BY <1>2, <1>3 DEF Buddy, LeftChild, RightChild

\* Who has a node in hand has the mutex, and is the only one.
LEMMA InHand ==
  ASSUME PageInv, NEW t \in Threads, pc[t] \in {"split", "merge"}
  PROVE  /\ mutex = t /\ hand \in Nodes /\ hand # NULL /\ hand \notin Free
         /\ hand \in Owners /\ Whole(hand)
         /\ cur[t] \in Packets /\ cur[t] \in made \ shells /\ cur[t] \notin Live
         /\ \A u \in Threads : u # t => pc[u] \notin {"search", "split", "merge"}
<1>1. mutex = t /\ \A u \in Threads : u # t => pc[u] \notin {"search", "split", "merge"}
  BY DEF PageInv, RefInv, Control
<1>2. hand # NULL /\ hand \in Nodes
  BY <1>1, PacketAssumption DEF PageInv, StoreInv, Holding, Shapes
<1>3. hand \in Owners /\ hand \notin Free
  BY <1>2 DEF Owners, PageInv, StoreInv, Tiling, NothingShared
<1>4. cur[t] \in made /\ cur[t] \notin shells /\ cur[t] \in Packets
  BY DEF PageInv, RefInv, RefTypes, Control, RefsCounted
<1> QED
  BY <1>1, <1>2, <1>3, <1>4, PacketAssumption DEF Live, PageInv, StoreInv, OwnersWhole

\* One half becomes free and the other one is in hand.
LEMMA SplitPages ==
  ASSUME PageInv, NEW t \in Threads, Split(t)
  PROVE  StoreInv'
<1> NULL \notin Nodes /\ NULL \notin Threads
  BY PacketAssumption, NullFact
<1>0. PICK x : x = hand
  OBVIOUS
<1>1. PICK l : l = LeftChild(x)
  OBVIOUS
<1>2. PICK r : r = RightChild(x)
  OBVIOUS
<1>3. /\ pc[t] = "split" /\ x[1] > type /\ InsertFree(r) /\ hand' = l
      /\ UNCHANGED <<made, shells, size, buffer, mutex, pc, cur, type>>
  BY <1>0, <1>1, <1>2 DEF Split, packet
<1>4. /\ mutex = t /\ x \in Nodes /\ x \in Owners /\ x \notin Free /\ Whole(x)
      /\ \A u \in Threads : u # t => pc[u] # "split"
  BY <1>0, <1>3, InHand
<1>5. /\ type \in Levels /\ type \in Nat /\ x[1] \in Nat /\ x[1] # 0
      /\ size[cur[t]] = 2^type /\ buffer[cur[t]] = x[2] * 2^x[1]
  BY <1>0, <1>3, <1>4, NodeFact, LevelFact DEF PageInv, StoreInv, Holding
<1>6. /\ l \in Nodes /\ r \in Nodes /\ Whole(l) /\ Whole(r)
      /\ Run(x) = Run(l) \cup Run(r) /\ Run(l) \cap Run(r) = {}
      /\ l[2] * 2^l[1] = x[2] * 2^x[1]
  BY <1>1, <1>2, <1>4, <1>5, Halves
<1>7. Buddy(r) = l /\ l # r /\ l[1] = x[1] - 1 /\ r[1] = x[1] - 1
  BY <1>1, <1>2, <1>4, <1>5, HalvesAreBuddies
<1>8. Run(l) # {} /\ Run(r) # {}
  BY <1>6, WholeHasPages
<1>9. l \notin Owners /\ r \notin Owners
  <2>1. l # x /\ r # x
    BY <1>5, <1>7
  <2>2. \A y \in Owners : y # x => Run(y) \cap Run(x) = {}
    BY <1>4 DEF PageInv, StoreInv, Tiling, NothingShared
  <2> QED
    BY <2>1, <2>2, <1>6, <1>8
<1>10. l \notin Free /\ r \notin Free
  BY <1>9 DEF Owners
<1>11. RingInv' /\ Free' = Free \cup {r}
  BY <1>3, <1>6, <1>10, InsertIntoRing DEF PageInv, StoreInv
<1>12. Owners = Free \cup {x} /\ Owners' = Free \cup {l, r}
  BY <1>0, <1>3, <1>4, <1>6, <1>11 DEF Owners
<1>13. Live' = Live /\ \A p : PagesOf(p)' = PagesOf(p)
  BY <1>3 DEF Live, PagesOf
<1>14. Shapes'
  BY <1>3, <1>6 DEF PageInv, StoreInv, Shapes
<1>15. Holding'
  <2>1. type =< l[1]
    BY <1>3, <1>5, <1>7
  <2> QED
    BY <2>1, <1>3, <1>4, <1>5, <1>6 DEF PageInv, StoreInv, Holding
<1>16. PacketRuns'
  BY <1>3, <1>13 DEF PageInv, StoreInv, PacketRuns, IsRun
<1>17. OwnersWhole'
  BY <1>6, <1>12 DEF PageInv, StoreInv, OwnersWhole
<1>18. NothingLost'
  BY <1>6, <1>12, <1>13 DEF PageInv, StoreInv, Tiling, NothingLost
<1>19. NothingShared'
  <2>1. /\ \A y, z \in Owners : y # z => Run(y) \cap Run(z) = {}
        /\ \A p, q \in Live : p # q => PagesOf(p) \cap PagesOf(q) = {}
        /\ \A y \in Owners, p \in Live : Run(y) \cap PagesOf(p) = {}
    BY DEF PageInv, StoreInv, Tiling, NothingShared
  <2>2. \A y \in Free : y # x /\ Run(y) \cap Run(x) = {} /\ Run(y) \cap Run(l) = {}
                        /\ Run(y) \cap Run(r) = {}
    BY <2>1, <1>4, <1>6, <1>12
  <2>3. \A y, z \in Owners' : y # z => Run(y) \cap Run(z) = {}
    BY <2>1, <2>2, <1>6, <1>12
  <2>4. \A y \in Owners', p \in Live : Run(y) \cap PagesOf(p) = {}
    BY <2>1, <1>6, <1>12
  <2>5. hand' \notin Free'
    BY <1>3, <1>7, <1>10, <1>11
  <2> QED
    BY <2>1, <2>3, <2>4, <2>5, <1>13 DEF NothingShared
<1>20. NoFreeBuddies'
  <2> SUFFICES ASSUME NEW y \in Free \cup {r}, ~IsTop(y[1])
               PROVE  Buddy(y) \notin Free \cup {r}
    BY <1>11 DEF NoFreeBuddies
  <2>1. y \in Nodes
    BY <1>6 DEF Free
  <2>2. Buddy(Buddy(y)) = y /\ Buddy(y) # y
    BY <2>1, BuddyFact
  <2> QED
    BY <2>2, <1>7, <1>10 DEF PageInv, StoreInv, NoFreeBuddies
<1> QED
  BY <1>11, <1>14, <1>15, <1>16, <1>17, <1>18, <1>19, <1>20, StoreFromParts
     DEF Tiling

\* The free buddy and the node in hand make their parent.
LEMMA MergePages ==
  ASSUME PageInv, NEW t \in Threads, Merge(t)
  PROVE  StoreInv'
<1> NULL \notin Nodes /\ NULL \notin Threads
  BY PacketAssumption, NullFact
<1>0. PICK x : x = hand
  OBVIOUS
<1>1. PICK b : b = Buddy(x)
  OBVIOUS
<1>2. PICK y : y = Parent(x)
  OBVIOUS
<1>3. /\ pc[t] = "merge" /\ CanMerge(x) /\ RemoveFree(b) /\ hand' = y
      /\ UNCHANGED <<made, shells, size, buffer, mutex, pc, cur, type>>
  BY <1>0, <1>1, <1>2 DEF Merge, packet
<1>4. /\ mutex = t /\ x \in Nodes /\ x \in Owners /\ x \notin Free /\ Whole(x)
      /\ \A u \in Threads : u # t => pc[u] # "split"
  BY <1>0, <1>3, InHand
<1>5. b \in Nodes /\ b # x
  BY <1>1, <1>4, BuddyFact
<1>6. b \in Free /\ b \in Owners /\ Whole(b) /\ ~IsTop(x[1])
  <2>1. b \in Free /\ ~IsTop(x[1])
    BY <1>1, <1>3, <1>5 DEF CanMerge, Free
  <2> QED
    BY <2>1 DEF Owners, PageInv, StoreInv, OwnersWhole
<1>7. y \in Nodes /\ Whole(y) /\ Run(y) = Run(x) \cup Run(b)
  BY <1>1, <1>2, <1>4, <1>6, ParentFact
<1>8. RingInv' /\ Free' = Free \ {b}
  BY <1>3, <1>6, RemoveFromRing DEF PageInv, StoreInv
<1>9. Run(x) # {}
  BY <1>4, WholeHasPages
<1>10. y \notin Free \ {b}
  <2>1. ASSUME y \in Free, y # b PROVE FALSE
    <3>1. y \in Owners /\ y # x
      BY <2>1, <1>4 DEF Owners
    <3>2. Run(y) \cap Run(x) = {}
      BY <3>1, <1>4 DEF PageInv, StoreInv, Tiling, NothingShared
    <3> QED
      BY <3>2, <1>7, <1>9
  <2> QED
    BY <2>1
<1>11. Owners = Free \cup {x} /\ Owners' = (Free \ {b}) \cup {y}
  BY <1>0, <1>3, <1>4, <1>7, <1>8 DEF Owners
<1>12. Live' = Live /\ \A p : PagesOf(p)' = PagesOf(p)
  BY <1>3 DEF Live, PagesOf
<1>13. Shapes'
  BY <1>3, <1>7 DEF PageInv, StoreInv, Shapes
<1>14. Holding'
  BY <1>3, <1>4, <1>7 DEF PageInv, StoreInv, Holding
<1>15. PacketRuns'
  BY <1>3, <1>12 DEF PageInv, StoreInv, PacketRuns, IsRun
<1>16. OwnersWhole'
  BY <1>7, <1>11 DEF PageInv, StoreInv, OwnersWhole
<1>17. NothingLost'
  BY <1>6, <1>7, <1>11, <1>12 DEF PageInv, StoreInv, Tiling, NothingLost
<1>18. NothingShared'
  <2>1. /\ \A z, w \in Owners : z # w => Run(z) \cap Run(w) = {}
        /\ \A p, q \in Live : p # q => PagesOf(p) \cap PagesOf(q) = {}
        /\ \A z \in Owners, p \in Live : Run(z) \cap PagesOf(p) = {}
    BY DEF PageInv, StoreInv, Tiling, NothingShared
  <2>2. \A z \in Free \ {b} : Run(z) \cap Run(x) = {} /\ Run(z) \cap Run(b) = {}
    BY <2>1, <1>4, <1>6, <1>11
  <2>3. \A z, w \in Owners' : z # w => Run(z) \cap Run(w) = {}
    BY <2>1, <2>2, <1>7, <1>11
  <2>4. \A z \in Owners', p \in Live : Run(z) \cap PagesOf(p) = {}
    BY <2>1, <1>4, <1>6, <1>7, <1>11
  <2> QED
    BY <2>1, <2>3, <2>4, <1>3, <1>8, <1>10, <1>12 DEF NothingShared
<1>19. NoFreeBuddies'
  BY <1>8 DEF PageInv, StoreInv, NoFreeBuddies
<1> QED
  BY <1>8, <1>13, <1>14, <1>15, <1>16, <1>17, <1>18, <1>19, StoreFromParts
     DEF Tiling

\* The node that is left in hand is the new packet's.
LEMMA GetReturnsPages ==
  ASSUME PageInv, NEW t \in Threads, GetReturns(t)
  PROVE  /\ StoreInv'
         /\ size[cur[t]] = 2^type /\ type \in Levels
         /\ IsRun(cur[t], hand) /\ hand[1] = type /\ hand \in Owners /\ hand \in Nodes
<1> NULL \notin Nodes /\ NULL \notin Threads
  BY PacketAssumption, NullFact
<1>0. PICK x : x = hand
  OBVIOUS
<1>1. PICK c : c = cur[t]
  OBVIOUS
<1>2. /\ pc[t] = "split" /\ x[1] =< type /\ hand' = NULL /\ mutex' = NULL
      /\ pc' = [pc EXCEPT ![t] = "idle"] /\ type' = 0
      /\ UNCHANGED <<ring, made, shells, size, buffer>>
  BY <1>0 DEF GetReturns, Ends, packet
<1>3. /\ mutex = t /\ x \in Nodes /\ x \in Owners /\ x \notin Free /\ Whole(x) /\ x # NULL
      /\ c \in Packets /\ c \in made \ shells /\ c \notin Live
      /\ \A u \in Threads : u # t => pc[u] # "split"
  BY <1>0, <1>1, <1>2, InHand
<1>4. type \in Levels /\ x[1] = type /\ IsRun(c, x)
  <2>1. /\ type \in Levels /\ type =< x[1]
        /\ size[c] = 2^type /\ buffer[c] = x[2] * 2^x[1]
    BY <1>0, <1>1, <1>2 DEF PageInv, StoreInv, Holding
  <2>2. type \in Nat /\ x[1] \in Nat
    BY <2>1, <1>3, NodeFact, LevelFact
  <2>3. x[1] = type
    BY <2>1, <2>2, <1>2
  <2> QED
    BY <2>1, <2>3, <1>3 DEF IsRun
<1>5. PagesOf(c) = Run(x)
  BY <1>3, <1>4, PacketIsRun
<1>6. UNCHANGED <<header, next, prev>>
  BY <1>2 DEF ring
<1>7. Free' = Free /\ Owners = Free \cup {x} /\ Owners' = Free
  BY <1>0, <1>2, <1>3, <1>6 DEF Free, Owners
<1>8. /\ Live' = Live \cup {c} /\ \A p : PagesOf(p)' = PagesOf(p)
  BY <1>1, <1>2, <1>3 DEF Live, PagesOf
<1>9. RingInv'
  BY <1>6 DEF PageInv, StoreInv, RingInv, RingTypes, Links, OneRing, FreeAt, Free
<1>10. Shapes'
  <2>1. type' \in 0 .. MaxLevel + 1
    BY <1>2 DEF MaxLevel
  <2> QED
    BY <2>1, <1>2 DEF PageInv, StoreInv, Shapes
<1>11. Holding'
  <2>1. \A u \in Threads : pc'[u] # "split"
    BY <1>2, <1>3 DEF PageInv, RefInv, RefTypes
  <2> QED
    BY <2>1, <1>2 DEF Holding
<1>12. PacketRuns'
  <2> SUFFICES ASSUME NEW p \in Live', buffer'[p] # NULL
               PROVE  \E y \in Nodes : IsRun(p, y)'
    BY DEF PacketRuns
  <2>1. CASE p = c
    BY <2>1, <1>2, <1>3, <1>4 DEF IsRun
  <2>2. CASE p \in Live
    BY <2>2, <1>2 DEF PageInv, StoreInv, PacketRuns, IsRun
  <2> QED
    BY <2>1, <2>2, <1>8
<1>13. OwnersWhole' /\ NoFreeBuddies'
  BY <1>7 DEF PageInv, StoreInv, OwnersWhole, NoFreeBuddies
<1>14. NothingLost'
  <2> SUFFICES ASSUME NEW pg \in Pages
               PROVE  \/ \E z \in Free : pg \in Run(z)
                      \/ \E p \in Live \cup {c} : pg \in PagesOf(p)
    BY <1>7, <1>8 DEF NothingLost
  <2> QED
    BY <1>5, <1>7 DEF PageInv, StoreInv, Tiling, NothingLost
<1>15. NothingShared'
  <2>1. /\ \A z, w \in Owners : z # w => Run(z) \cap Run(w) = {}
        /\ \A p, q \in Live : p # q => PagesOf(p) \cap PagesOf(q) = {}
        /\ \A z \in Owners, p \in Live : Run(z) \cap PagesOf(p) = {}
    BY DEF PageInv, StoreInv, Tiling, NothingShared
  <2>2. \A p, q \in Live \cup {c} : p # q => PagesOf(p) \cap PagesOf(q) = {}
    BY <2>1, <1>3, <1>5
  <2>3. \A z \in Free, p \in Live \cup {c} : Run(z) \cap PagesOf(p) = {}
    BY <2>1, <1>3, <1>5, <1>7
  <2>4. hand' \notin Free'
    BY <1>2 DEF Free
  <2> QED
    BY <2>1, <2>2, <2>3, <2>4, <1>7, <1>8 DEF NothingShared
<1>16. size[c] = 2^type
  BY <1>4 DEF IsRun
<1>17. StoreInv'
  BY <1>9, <1>10, <1>11, <1>12, <1>13, <1>14, <1>15, StoreFromParts DEF Tiling
<1> QED
  BY <1>0, <1>1, <1>3, <1>4, <1>16, <1>17

\* Level and index computed from size and address are those of the node the
\* packet was cut out as.
LEMMA PutPacketPages ==
  ASSUME PageInv, NEW t \in Threads, PutPacket(t)
  PROVE  StoreInv'
<1> NULL \notin Nodes /\ NULL \notin Threads /\ NULL \notin Packets
  BY PacketAssumption, NullFact
<1>0. PICK c : c = cur[t]
  OBVIOUS
<1>1. /\ pc[t] = "put" /\ mutex = NULL /\ size[c] # 0 /\ buffer[c] # NULL
      /\ mutex' = t /\ pc' = [pc EXCEPT ![t] = "merge"]
      /\ UNCHANGED <<ring, made, shells, size, buffer, cur, type>>
  BY <1>0 DEF PutPacket, packet
<1>2. PICK i \in Levels : 2^i = size[c] /\ hand' = <<i, buffer[c] \div size[c]>>
  BY <1>0 DEF PutPacket
<1>3. /\ c \in Packets /\ c \in made \ shells /\ c \in Live /\ hand = NULL
      /\ \A u \in Threads : pc[u] \notin {"search", "split", "merge"}
  <2>1. \A u \in Threads : pc[u] \notin {"search", "split", "merge"}
    BY <1>1 DEF PageInv, RefInv, Control
  <2>2. c \in Packets /\ c \in made \ shells
    BY <1>0, <1>1 DEF PageInv, RefInv, RefTypes, Control, RefsCounted
  <2> QED
    BY <2>1, <2>2, <1>1 DEF Live, PageInv, StoreInv, Holding
<1>4. PICK x \in Nodes : IsRun(c, x)
  BY <1>1, <1>3 DEF PageInv, StoreInv, PacketRuns
<1>5. hand' = x /\ Whole(x)
  <2>1. PICK w : w = 2^x[1]
    OBVIOUS
  <2>2. PICK n : n = x[2]
    OBVIOUS
  <2>3. w \in Nat \ {0} /\ n \in Nat /\ x = <<x[1], n>> /\ x[1] \in Levels
    BY <2>1, <2>2, NodeFact
  <2>4. size[c] = w /\ buffer[c] = n * w /\ Whole(x)
    BY <2>1, <2>2, <1>4 DEF IsRun
  <2>5. (n * w) \div w = n
    <3>1. n * w \in Nat /\ n * w < (n + 1) * w
      BY <2>3
    <3> QED
      BY <3>1, <2>3, Division
  <2>6. i = x[1]
    BY <1>2, <2>1, <2>3, <2>4, PowersDiffer
  <2> QED
    BY <1>2, <2>3, <2>4, <2>5, <2>6
<1>6. PagesOf(c) = Run(x) /\ Run(x) # {}
  BY <1>4, <1>5, PacketIsRun, WholeHasPages
<1>7. UNCHANGED <<header, next, prev>>
  BY <1>1 DEF ring
<1>8. Free' = Free /\ Owners = Free /\ Owners' = Free \cup {x}
  BY <1>3, <1>5, <1>7 DEF Free, Owners
<1>9. Live' = Live \ {c} /\ \A p : PagesOf(p)' = PagesOf(p)
  BY <1>0, <1>1, <1>3 DEF Live, PagesOf
<1>10. RingInv'
  BY <1>7 DEF PageInv, StoreInv, RingInv, RingTypes, Links, OneRing, FreeAt, Free
<1>11. Shapes'
  BY <1>1, <1>5 DEF PageInv, StoreInv, Shapes
<1>12. Holding'
  <2>1. pc'[t] = "merge" /\ \A u \in Threads : pc'[u] # "split"
    BY <1>1, <1>3 DEF PageInv, RefInv, RefTypes
  <2> QED
    BY <2>1, <1>1, <1>5 DEF Holding
<1>13. PacketRuns'
  BY <1>1, <1>9 DEF PageInv, StoreInv, PacketRuns, IsRun
<1>14. OwnersWhole' /\ NoFreeBuddies'
  BY <1>5, <1>8 DEF PageInv, StoreInv, OwnersWhole, NoFreeBuddies
<1>15. /\ \A z, w \in Owners : z # w => Run(z) \cap Run(w) = {}
       /\ \A p, q \in Live : p # q => PagesOf(p) \cap PagesOf(q) = {}
       /\ \A z \in Owners, p \in Live : Run(z) \cap PagesOf(p) = {}
  BY DEF PageInv, StoreInv, Tiling, NothingShared
<1>16. NothingLost'
  <2> SUFFICES ASSUME NEW pg \in Pages
               PROVE  \/ \E z \in Free \cup {x} : pg \in Run(z)
                      \/ \E p \in Live \ {c} : pg \in PagesOf(p)
    BY <1>8, <1>9 DEF NothingLost
  <2> QED
    BY <1>6, <1>8 DEF PageInv, StoreInv, Tiling, NothingLost
<1>17. NothingShared'
  <2>1. \A z \in Free : Run(z) \cap Run(x) = {}
    BY <1>3, <1>6, <1>8, <1>15
  <2>2. x \notin Free
    BY <2>1, <1>6
  <2>3. \A z, w \in Free \cup {x} : z # w => Run(z) \cap Run(w) = {}
    BY <2>1, <1>8, <1>15
  <2>4. \A p \in Live \ {c} : Run(x) \cap PagesOf(p) = {}
    BY <1>3, <1>6, <1>15
  <2>5. \A z \in Free \cup {x}, p \in Live \ {c} : Run(z) \cap PagesOf(p) = {}
    BY <2>4, <1>8, <1>15
  <2> QED
    BY <2>2, <2>3, <2>5, <1>5, <1>8, <1>9, <1>15 DEF NothingShared
<1> QED
  BY <1>10, <1>11, <1>12, <1>13, <1>14, <1>16, <1>17, StoreFromParts DEF Tiling

\* What could not be joined any further becomes free.
LEMMA PutReturnsPages ==
  ASSUME PageInv, NEW t \in Threads, PutReturns(t)
  PROVE  StoreInv'
<1> NULL \notin Nodes /\ NULL \notin Threads /\ NULL \notin Packets
  BY PacketAssumption, NullFact
<1>0. PICK x : x = hand
  OBVIOUS
<1>1. PICK c : c = cur[t]
  OBVIOUS
<1>2. /\ pc[t] = "merge" /\ ~CanMerge(x) /\ InsertFree(x)
      /\ hand' = NULL /\ mutex' = NULL /\ type' = 0
      /\ pc' = [pc EXCEPT ![t] = "idle"]
      /\ shells' = shells \cup {c} /\ made' = made
      /\ size' = [size EXCEPT ![c] = 0] /\ buffer' = [buffer EXCEPT ![c] = NULL]
  BY <1>0, <1>1 DEF PutReturns, Ends, FreePacket
<1>3. /\ mutex = t /\ x \in Nodes /\ x \in Owners /\ x \notin Free /\ Whole(x) /\ x # NULL
      /\ c \in Packets /\ c \in made \ shells /\ c \notin Live
      /\ \A u \in Threads : u # t => pc[u] # "split"
  BY <1>0, <1>1, <1>2, InHand
<1>4. RingInv' /\ Free' = Free \cup {x}
  BY <1>2, <1>3, InsertIntoRing DEF PageInv, StoreInv
<1>5. Owners' = Owners
  BY <1>0, <1>2, <1>3, <1>4 DEF Owners
<1>6. Live' = Live /\ Live \subseteq Packets
  BY <1>1, <1>2, <1>3 DEF Live, PageInv, RefInv, RefTypes
<1>7. \A p \in Live : PagesOf(p)' = PagesOf(p) /\ size'[p] = size[p] /\ buffer'[p] = buffer[p]
  BY <1>2, <1>3, <1>6 DEF PagesOf, PageInv, StoreInv, Shapes
<1>8. Shapes'
  <2>1. type' \in 0 .. MaxLevel + 1
    BY <1>2 DEF MaxLevel
  <2> QED
    BY <2>1, <1>2 DEF PageInv, StoreInv, Shapes
<1>9. Holding'
  <2>1. \A u \in Threads : pc'[u] # "split"
    BY <1>2, <1>3 DEF PageInv, RefInv, RefTypes
  <2> QED
    BY <2>1, <1>2 DEF Holding
<1>10. PacketRuns'
  BY <1>6, <1>7 DEF PageInv, StoreInv, PacketRuns, IsRun
<1>11. OwnersWhole'
  BY <1>5 DEF PageInv, StoreInv, OwnersWhole
<1>12. NothingLost'
  BY <1>5, <1>6, <1>7 DEF PageInv, StoreInv, Tiling, NothingLost
<1>13. NothingShared'
  <2>1. hand' \notin Free'
    BY <1>2, <1>4, <1>3 DEF Free
  <2> QED
    BY <2>1, <1>5, <1>6, <1>7 DEF PageInv, StoreInv, Tiling, NothingShared
<1>14. NoFreeBuddies'
  <2> SUFFICES ASSUME NEW y \in Free \cup {x}, ~IsTop(y[1])
               PROVE  Buddy(y) \notin Free \cup {x}
    BY <1>4 DEF NoFreeBuddies
  <2>1. /\ y \in Nodes /\ Buddy(y) \in Nodes /\ Buddy(y) # y
        /\ Buddy(y)[1] = y[1] /\ Buddy(Buddy(y)) = y
    BY <1>3, BuddyFact DEF Free
  <2>2. ~IsTop(x[1]) => Buddy(x) \notin Free
    BY <1>2 DEF CanMerge, Free
  <2>3. CASE y = x
    BY <2>1, <2>2, <2>3
  <2>4. CASE y \in Free
    <3>1. Buddy(y) \notin Free
      BY <2>4 DEF PageInv, StoreInv, NoFreeBuddies
    <3>2. Buddy(y) = x => y = Buddy(x) /\ y[1] = x[1]
      BY <2>1
    <3> QED
      BY <2>2, <2>4, <3>1, <3>2
  <2> QED
    BY <2>3, <2>4
<1> QED
  BY <1>4, <1>8, <1>9, <1>10, <1>11, <1>12, <1>13, <1>14, StoreFromParts DEF Tiling

-----------------------------------------------------------------------------
(* The store's invariant *)

LEMMA InitStore == Init => StoreInv
<1> SUFFICES ASSUME Init PROVE StoreInv
  OBVIOUS
<1> NULL \notin Nodes
  BY NullFact
<1>1. \A x \in InitialNodes :
        /\ x \in Nodes /\ Whole(x) /\ x[1] \in Levels
        /\ x = <<x[1], (PageCount \div 2^x[1]) - 1>>
  BY InitialFact, NodeFact
<1>2. /\ \A x \in InitialNodes : next[x] = x /\ prev[x] = x
      /\ \A x \in Nodes \ InitialNodes : next[x] = NULL
  BY <1>1 DEF Init
<1>3. Free = InitialNodes
  BY <1>1, <1>2 DEF Free
<1>4. ASSUME NEW i \in Levels
      PROVE  LET x == <<i, (PageCount \div 2^i) - 1>>
             IN FreeAt(i) = IF x \in InitialNodes THEN {x} ELSE {}
  BY <1>1, <1>3 DEF FreeAt
<1>5. RingInv
  <2>1. \A i \in Levels : InitialHeader(i) \in Nodes \cup {NULL}
    BY <1>1 DEF InitialHeader
  <2>2. RingTypes
    BY <1>1, <2>1 DEF Init, RingTypes
  <2>3. Links
    BY <1>2, <1>3 DEF Links, FreeAt
  <2>4. OneRing
    <3> SUFFICES ASSUME NEW i \in Levels
                 PROVE  /\ header[i] = NULL => FreeAt(i) = {}
                        /\ header[i] # NULL => header[i] \in FreeAt(i)
                        /\ \A S \in SUBSET FreeAt(i) : S # {} => S = FreeAt(i)
      BY DEF OneRing
    <3>1. PICK x : x = <<i, (PageCount \div 2^i) - 1>>
      OBVIOUS
    <3>2. FreeAt(i) = IF x \in InitialNodes THEN {x} ELSE {}
      BY <1>4, <3>1
    <3>3. header[i] = IF x \in InitialNodes THEN x ELSE NULL
      BY <3>1 DEF Init, InitialHeader
    <3> QED
      BY <1>1, <3>2, <3>3
  <2> QED
    BY <2>2, <2>3, <2>4 DEF RingInv
<1>6. Shapes
  BY DEF Init, Shapes, MaxLevel
<1>7. Holding
  BY DEF Init, Holding
<1>8. Owners = InitialNodes /\ Live = {}
  BY <1>3 DEF Init, Owners, Live
<1>9. PacketRuns /\ OwnersWhole
  BY <1>1, <1>8 DEF PacketRuns, OwnersWhole
<1>10. Tiling
  <2>1. NothingLost
    BY <1>8, InitialCovers DEF NothingLost
  <2>2. \A x, y \in InitialNodes : x # y => Run(x) \cap Run(y) = {}
    BY InitialDisjoint
  <2>3. hand \notin Free
    BY <1>1, <1>3 DEF Init
  <2> QED
    BY <2>1, <2>2, <2>3, <1>8 DEF Tiling, NothingShared
<1>11. NoFreeBuddies
  <2> SUFFICES ASSUME NEW x \in InitialNodes, Buddy(x) \in InitialNodes
               PROVE  FALSE
    BY <1>3 DEF NoFreeBuddies
  <2>1. Buddy(x)[1] = x[1] /\ Buddy(x) # x
    BY <1>1, BuddyFact
  <2> QED
    BY <2>1, <1>1
<1> QED
  BY <1>5, <1>6, <1>7, <1>9, <1>10, <1>11 DEF StoreInv

LEMMA NextStore == PageInv /\ [Next]_vars => StoreInv'
<1> SUFFICES ASSUME PageInv, [Next]_vars PROVE StoreInv'
  OBVIOUS
<1> NULL \notin Threads
  BY PacketAssumption
<1>1. CASE UNCHANGED vars
  <2>1. UNCHANGED <<ring, header, next, prev, made, shells, size, buffer, mutex,
                    pc, cur, type, hand>>
    BY <1>1 DEF vars, ring, packet, thread
  <2>2. Live' = Live /\ \A p : PagesOf(p)' = PagesOf(p)
    BY <2>1 DEF Live, PagesOf
  <2>3. RingInv' /\ OwnersWhole' /\ Tiling' /\ NoFreeBuddies'
    BY <2>1, <2>2, SamePages
  <2>4. Shapes' /\ Holding' /\ PacketRuns'
    BY <2>1, <2>2 DEF PageInv, StoreInv, Shapes, Holding, PacketRuns, IsRun
  <2> QED
    BY <2>3, <2>4, StoreFromParts
<1>2. ASSUME NEW t \in Threads, Call(t)
      PROVE  StoreInv'
  <2>1. PICK h \in Handles :
          \/ GetHeaderOnly(t, h)
          \/ \E bytes \in Requests : GetPacket(t, h, bytes)
          \/ \E g \in Handles : AddRef(t, h, g)
          \/ Release(t, h)
    BY <1>2 DEF Call
  <2>2. CASE GetHeaderOnly(t, h)
    BY <2>2, GetHeaderOnlyPages
  <2>3. CASE \E bytes \in Requests : GetPacket(t, h, bytes)
    BY <2>3, GetPacketPages
  <2>4. CASE \E g \in Handles : AddRef(t, h, g)
    BY <2>4, SharingPages DEF AddRef, thread
  <2>5. CASE Release(t, h)
    BY <2>5, SharingPages DEF Release
  <2> QED
    BY <2>1, <2>2, <2>3, <2>4, <2>5
<1>3. ASSUME NEW t \in Threads, GoOn(t)
      PROVE  StoreInv'
  <2>1. CASE Refuse(t)
    <3>1. pc[t] = "search" /\ mutex = t
      BY <2>1 DEF Refuse, PageInv, RefInv, Control
    <3>2. hand = NULL
      BY <3>1 DEF PageInv, StoreInv, Holding
    <3> QED
      BY <2>1, <3>1, <3>2, ShellPages DEF Refuse
  <2> QED
    BY <1>3, <2>1, TakePages, SplitPages, GetReturnsPages, MergePages,
       PutReturnsPages DEF GoOn
<1>4. ASSUME NEW t \in Threads, Lock(t)
      PROVE  StoreInv'
  <2>1. CASE PutHeaderOnly(t)
    <3>1. /\ pc[t] = "put" /\ mutex = NULL
          /\ size[cur[t]] = 0 \/ buffer[cur[t]] = NULL
      BY <2>1 DEF PutHeaderOnly
    <3>2. hand = NULL
      BY <3>1 DEF PageInv, StoreInv, Holding
    <3>3. cur[t] \in Live
      BY <3>1 DEF Live, PageInv, RefInv, RefTypes, Control, RefsCounted
    <3>4. buffer[cur[t]] = NULL
      <4>1. \A x \in Nodes : 2^x[1] # 0
        BY NodeFact
      <4> QED
        BY <3>1, <3>3, <4>1 DEF PageInv, StoreInv, PacketRuns, IsRun
    <3> QED
      BY <2>1, <3>1, <3>2, <3>4, ShellPages DEF PutHeaderOnly
  <2> QED
    BY <1>4, <2>1, PutPacketPages DEF Lock
<1> QED
  BY <1>1, <1>2, <1>3, <1>4 DEF Next

\* RefInv and StoreInv hold together in every reachable state of the packet
\* manager: references are counted, the free rings are whole, every page has one
\* owner and no two halves are free (Packet.cpp:292-321, 475-707).
THEOREM StoreInvariance == Spec => []PageInv
<1>1. Init => PageInv
  BY InitRefInv, InitStore DEF PageInv
<1>2. PageInv /\ [Next]_vars => PageInv'
  BY NextRefInv, NextStore DEF PageInv
<1> QED
  BY <1>1, <1>2, PTL DEF Spec

\* Every variable holds a value of its kind: level and index of a node never
\* leave the tables the constructor made (Packet.cpp:387-408), whether they
\* come from splitting, from joining or from the size and address of a packet.
THEOREM PacketTypes == Spec => []TypeOK
<1>1. PageInv => TypeOK
  BY DEF PageInv, RefInv, RefTypes, StoreInv, RingInv, RingTypes, Shapes, TypeOK
<1> QED
  BY <1>1, StoreInvariance, PTL

\* No page of the store is lost or has two owners, through all splitting in
\* GetPacket and joining in PutPacket (Packet.cpp:527-540, 601-664), for every
\* number of pages, power of two or not.
THEOREM PagesAreTiled == Spec => []Tiling
<1>1. PageInv => Tiling
  BY DEF PageInv, StoreInv
<1> QED
  BY <1>1, StoreInvariance, PTL

\* The loop of PutPacket (Packet.cpp:650-662) joins whatever can be joined:
\* two halves of a node are never both in the free rings.
THEOREM BuddiesAreJoined == Spec => []NoFreeBuddies
<1>1. PageInv => NoFreeBuddies
  BY DEF PageInv, StoreInv
<1> QED
  BY <1>1, StoreInvariance, PTL

-----------------------------------------------------------------------------
(* Walking round a free ring *)

\* Induction, for sets.
LEMMA AllNumbers ==
  ASSUME NEW K \in SUBSET Nat, 0 \in K, \A k \in K : k + 1 \in K
  PROVE  K = Nat
<1>1. ASSUME NEW n \in Nat PROVE n \in K
  BY Climb
<1> QED
  BY <1>1

\* A step taken again and again from a has a result for every number of steps.
LEMMA Iteration ==
  ASSUME NEW S, NEW a \in S, NEW f \in [S -> S]
  PROVE  \E g \in [Nat -> S] : g[0] = a /\ \A i \in Nat : g[i + 1] = f[g[i]]
<1> DEFINE Good(n) == {h \in [0 .. n -> S] :
                         h[0] = a /\ \A i \in 0 .. n - 1 : h[i + 1] = f[h[i]]}
<1>1. ASSUME NEW n \in Nat
      PROVE  Good(n) # {}
  <2> DEFINE K == {k \in Nat : Good(k) # {}}
  <2>1. 0 \in K
    <3>1. [i \in 0 .. 0 |-> a] \in Good(0)
      OBVIOUS
    <3> QED
      BY <3>1
  <2>2. ASSUME NEW k \in K PROVE k + 1 \in K
    <3>1. PICK h : h \in Good(k)
      OBVIOUS
    <3> DEFINE e == [i \in 0 .. k + 1 |-> IF i = k + 1 THEN f[h[k]] ELSE h[i]]
    <3>2. e \in [0 .. k + 1 -> S]
      BY <3>1
    <3>3. e[0] = a
      BY <3>1
    <3>4. ASSUME NEW i \in 0 .. (k + 1) - 1
          PROVE  e[i + 1] = f[e[i]]
      <4>1. CASE i = k
        BY <4>1, <3>1
      <4>2. CASE i # k
        <5>1. i \in 0 .. k - 1
          BY <4>2
        <5> QED
          BY <5>1, <3>1
      <4> QED
        BY <4>1, <4>2
    <3>5. e \in Good(k + 1)
      BY <3>2, <3>3, <3>4
    <3> QED
      BY <3>5
  <2> HIDE DEF K
  <2>3. K = Nat
    <3>1. K \in SUBSET Nat
      BY DEF K
    <3> QED
      BY <2>1, <2>2, <3>1, AllNumbers
  <2> QED
    BY <2>3 DEF K
<1>2. ASSUME NEW m \in Nat, NEW n \in Nat, m =< n, NEW h \in Good(m), NEW e \in Good(n)
      PROVE  h[m] = e[m]
  <2> DEFINE K == {k \in Nat : k =< m => h[k] = e[k]}
  <2>1. 0 \in K
    OBVIOUS
  <2>2. ASSUME NEW k \in K PROVE k + 1 \in K
    <3> SUFFICES ASSUME k + 1 =< m PROVE h[k + 1] = e[k + 1]
      OBVIOUS
    <3>1. k \in 0 .. m - 1 /\ k \in 0 .. n - 1 /\ h[k] = e[k]
      BY <1>2
    <3>2. h[k + 1] = f[h[k]] /\ e[k + 1] = f[e[k]]
      BY <3>1
    <3> QED
      BY <3>1, <3>2
  <2> HIDE DEF K
  <2>3. K = Nat
    <3>1. K \in SUBSET Nat
      BY DEF K
    <3> QED
      BY <2>1, <2>2, <3>1, AllNumbers
  <2> QED
    BY <2>3 DEF K
<1>3. ASSUME NEW n \in Nat
      PROVE  \A h \in Good(n) : /\ h \in [0 .. n -> S] /\ h[0] = a
                                /\ \A i \in 0 .. n - 1 : h[i + 1] = f[h[i]]
  OBVIOUS
<1> HIDE DEF Good
<1> DEFINE c(n) == CHOOSE h : h \in Good(n)
           g == [n \in Nat |-> c(n)[n]]
<1>4. \A n \in Nat : c(n) \in Good(n)
  BY <1>1
<1> HIDE DEF c
<1>5. g \in [Nat -> S]
  <2> SUFFICES ASSUME NEW n \in Nat PROVE c(n)[n] \in S
    OBVIOUS
  <2>1. c(n) \in [0 .. n -> S]
    BY <1>3, <1>4
  <2> QED
    BY <2>1
<1>6. g[0] = a
  BY <1>3, <1>4
<1>7. ASSUME NEW i \in Nat
      PROVE  g[i + 1] = f[g[i]]
  <2>1. PICK h \in Good(i) : h = c(i)
    BY <1>4
  <2>2. PICK e \in Good(i + 1) : e = c(i + 1)
    BY <1>4
  <2>3. h[i] = e[i]
    BY <1>2
  <2>4. e[i + 1] = f[e[i]]
    BY <1>3
  <2>5. g[i] = h[i] /\ g[i + 1] = e[i + 1]
    BY <2>1, <2>2
  <2> QED
    BY <2>3, <2>4, <2>5
<1> QED
  BY <1>5, <1>6, <1>7

\* Nth goes on along pNext by one node at a time.
LEMMA NthFact ==
  ASSUME RingTypes, NEW i \in Levels
  PROVE  /\ Nth(i, 0) = header[i]
         /\ \A n \in Nat : Nth(i, n + 1) = IF Nth(i, n) = NULL THEN NULL
                                           ELSE next[Nth(i, n)]
<1> DEFINE S == Nodes \cup {NULL}
           f == [v \in S |-> IF v = NULL THEN NULL ELSE next[v]]
           Walks(w) == w = [k \in Nat |-> IF k = 0 THEN header[i]
                                         ELSE IF w[k - 1] = NULL THEN NULL
                                         ELSE next[w[k - 1]]]
           w == CHOOSE w : Walks(w)
<1>1. header[i] \in S /\ f \in [S -> S]
  BY DEF RingTypes
<1>2. PICK g \in [Nat -> S] : g[0] = header[i] /\ \A n \in Nat : g[n + 1] = f[g[n]]
  <2>1. \A T : \A a \in T : \A e \in [T -> T] :
          \E g \in [Nat -> T] : g[0] = a /\ \A n \in Nat : g[n + 1] = e[g[n]]
    BY Iteration
  <2>2. header[i] \in S /\ f \in [S -> S]
    BY <1>1
  <2> HIDE DEF S, f
  <2>3. \A a \in S : \A e \in [S -> S] :
          \E g \in [Nat -> S] : g[0] = a /\ \A n \in Nat : g[n + 1] = e[g[n]]
    BY <2>1
  <2>4. \A e \in [S -> S] :
          \E g \in [Nat -> S] : g[0] = header[i] /\ \A n \in Nat : g[n + 1] = e[g[n]]
    BY <2>2, <2>3
  <2> QED
    BY <2>2, <2>4
<1>3. \A n \in Nat : g[n] = IF n = 0 THEN header[i]
                            ELSE IF g[n - 1] = NULL THEN NULL ELSE next[g[n - 1]]
  <2> SUFFICES ASSUME NEW n \in Nat, n # 0
               PROVE  g[n] = IF g[n - 1] = NULL THEN NULL ELSE next[g[n - 1]]
    BY <1>2
  <2>1. n - 1 \in Nat /\ (n - 1) + 1 = n
    OBVIOUS
  <2>2. g[n] = f[g[n - 1]] /\ g[n - 1] \in S
    BY <2>1, <1>2
  <2> QED
    BY <2>2
<1>4. Walks(g)
  BY <1>3
<1>5. Walks(w)
  <2> HIDE DEF Walks
  <2> QED
    BY <1>4
<1>6. \A n \in Nat : Nth(i, n) = w[n]
  BY DEF Nth
<1> HIDE DEF w
<1>7. \A n \in Nat : w[n] = IF n = 0 THEN header[i]
                            ELSE IF w[n - 1] = NULL THEN NULL ELSE next[w[n - 1]]
  BY <1>5
<1>8. Nth(i, 0) = header[i]
  BY <1>6, <1>7
<1>9. ASSUME NEW n \in Nat
      PROVE  Nth(i, n + 1) = IF Nth(i, n) = NULL THEN NULL ELSE next[Nth(i, n)]
  <2>1. n + 1 \in Nat /\ n + 1 # 0 /\ (n + 1) - 1 = n
    OBVIOUS
  <2> QED
    BY <2>1, <1>6, <1>7
<1> QED
  BY <1>8, <1>9

\* A walk round a ring meets all of its nodes before it has met more of them
\* than there are.
LEMMA RoundTheRing ==
  ASSUME RingInv, NEW i \in Levels
  PROVE  {Nth(i, n) : n \in 0 .. PageCount} \ {NULL} = FreeAt(i)
<1> DEFINE w(n) == Nth(i, n)
<1>1. /\ w(0) = header[i]
      /\ \A n \in Nat : w(n + 1) = IF w(n) = NULL THEN NULL ELSE next[w(n)]
  BY NthFact DEF RingInv
<1>2. PageCount \in Nat /\ 0 \in 0 .. PageCount
  BY PacketAssumption
<1> HIDE DEF w
<1>3. CASE header[i] = NULL
  <2> DEFINE K == {n \in Nat : w(n) = NULL}
  <2>1. 0 \in K
    BY <1>1, <1>3
  <2>2. ASSUME NEW n \in K PROVE n + 1 \in K
    BY <1>1
  <2> HIDE DEF K
  <2>3. K = Nat
    <3>1. K \in SUBSET Nat
      BY DEF K
    <3> QED
      BY <2>1, <2>2, <3>1, AllNumbers
  <2>4. \A n \in 0 .. PageCount : w(n) = NULL
    BY <1>2, <2>3 DEF K
  <2>5. FreeAt(i) = {}
    BY <1>3 DEF RingInv, OneRing
  <2> QED
    BY <2>4, <2>5 DEF w
<1>4. CASE header[i] # NULL
  <2> DEFINE K == {n \in Nat : w(n) \in FreeAt(i)}
  <2>1. \A x \in FreeAt(i) : /\ next[x] \in FreeAt(i) /\ x # NULL
                             /\ x \in Nodes /\ x[1] = i /\ x[2] \in 0 .. PageCount
                             /\ x = <<x[1], x[2]>>
    <3> SUFFICES ASSUME NEW x \in FreeAt(i)
                 PROVE  /\ next[x] \in FreeAt(i) /\ x # NULL
                        /\ x \in Nodes /\ x[1] = i /\ x[2] \in 0 .. PageCount
                        /\ x = <<x[1], x[2]>>
      OBVIOUS
    <3>1. x \in Free /\ x[1] = i /\ x \in Nodes
      BY DEF FreeAt, Free
    <3>2. next[x] \in FreeAt(i)
      BY <3>1 DEF RingInv, Links
    <3>3. x # NULL
      BY <3>1, NullFact
    <3>4. x \in Levels \X (0 .. PageCount)
      BY <3>1 DEF Nodes
    <3> QED
      BY <3>1, <3>2, <3>3, <3>4
  <2>2. 0 \in K
    BY <1>1, <1>4 DEF RingInv, OneRing
  <2>3. ASSUME NEW n \in K PROVE n + 1 \in K
    BY <1>1, <2>1
  <2> HIDE DEF K
  <2>4. K = Nat
    <3>1. K \in SUBSET Nat
      BY DEF K
    <3> QED
      BY <2>2, <2>3, <3>1, AllNumbers
  <2>5. \A n \in Nat : w(n) \in FreeAt(i) /\ w(n + 1) = next[w(n)]
    BY <1>1, <2>1, <2>4 DEF K
  <2>6. \E a, b \in 0 .. PageCount + 1 : a # b /\ w(a)[2] = w(b)[2]
    <3> DEFINE index == [n \in 0 .. PageCount + 1 |-> w(n)[2]]
    <3>1. index \in [0 .. PageCount + 1 -> 0 .. PageCount]
      BY <1>2, <2>1, <2>5
    <3>2. /\ IsFiniteSet(0 .. PageCount + 1) /\ IsFiniteSet(0 .. PageCount)
          /\ Cardinality(0 .. PageCount) < Cardinality(0 .. PageCount + 1)
      BY <1>2, FS_Interval
    <3>3. \E a, b \in 0 .. PageCount + 1 : a # b /\ index[a] = index[b]
      <4> HIDE DEF index
      <4> QED
        BY <3>1, <3>2, FS_PigeonHole
    <3> QED
      BY <3>3
  <2>7. \E a, b \in 0 .. PageCount + 1 : a < b /\ w(a) = w(b)
    <3>1. PICK a \in 0 .. PageCount + 1, b \in 0 .. PageCount + 1 :
            a # b /\ w(a)[2] = w(b)[2]
      BY <2>6
    <3>2. w(a) = w(b)
      <4>1. /\ w(a) = <<w(a)[1], w(a)[2]>> /\ w(a)[1] = i
            /\ w(b) = <<w(b)[1], w(b)[2]>> /\ w(b)[1] = i
        BY <1>2, <2>1, <2>5
      <4> QED
        BY <3>1, <4>1
    <3>3. a < b \/ b < a
      BY <1>2, <3>1
    <3> QED
      BY <3>2, <3>3
  <2>8. PICK a \in 0 .. PageCount + 1, b \in 0 .. PageCount + 1 : a < b /\ w(a) = w(b)
    BY <2>7
  <2>9. PICK k \in 0 .. PageCount : k + 1 = b /\ a \in 0 .. k
    <3>1. b - 1 \in 0 .. PageCount /\ (b - 1) + 1 = b /\ a \in 0 .. b - 1
      BY <1>2, <2>8
    <3> QED
      BY <3>1
  <2> DEFINE T == {w(n) : n \in 0 .. k}
  <2>10. T \in SUBSET FreeAt(i) /\ T # {}
    BY <1>2, <2>5, <2>9
  <2>11. ASSUME NEW x \in T PROVE next[x] \in T
    <3>1. PICK n \in 0 .. k : x = w(n)
      OBVIOUS
    <3>2. next[x] = w(n + 1)
      BY <1>2, <2>5, <3>1
    <3>3. CASE n = k
      BY <2>8, <2>9, <3>2, <3>3
    <3>4. CASE n # k
      <4>1. n + 1 \in 0 .. k
        BY <1>2, <3>4
      <4> QED
        BY <3>2, <4>1
    <3> QED
      BY <3>3, <3>4
  <2>12. T = FreeAt(i)
    <3> HIDE DEF T
    <3> QED
      BY <2>10, <2>11 DEF RingInv, OneRing
  <2>13. FreeAt(i) \subseteq {w(n) : n \in 0 .. PageCount}
    <3>1. 0 .. k \subseteq 0 .. PageCount
      BY <1>2, <2>9
    <3> QED
      BY <2>12, <3>1
  <2>14. \A n \in 0 .. PageCount : w(n) \in FreeAt(i)
    BY <1>2, <2>5
  <2> HIDE DEF T
  <2> QED
    BY <2>1, <2>13, <2>14 DEF w
<1> QED
  BY <1>3, <1>4

\* Each free ring is one cycle through the free nodes of its level, both ways
\* (InsertFree and RemoveFree, Packet.cpp:671-707), for up to 4096 pages: a
\* walk from pHeader meets them all in at most as many steps as there are pages.
THEOREM RingsAreExact == Spec => []RingsExact
<1>1. PageInv => RingsExact
  <2> SUFFICES ASSUME PageInv PROVE RingsExact
    OBVIOUS
  <2>1. RingInv
    BY DEF PageInv, StoreInv
  <2>2. \A i \in Levels : {Nth(i, n) : n \in 0 .. PageCount} \ {NULL} = FreeAt(i)
    BY <2>1, RoundTheRing
  <2>3. \A x \in Free : prev[next[x]] = x
    BY <2>1 DEF RingInv, Links
  <2> QED
    BY <2>2, <2>3 DEF RingsExact, FreeAt
<1> QED
  BY <1>1, StoreInvariance, PTL

-----------------------------------------------------------------------------
(* What the invariant says of an empty and of a full store *)

\* The pages of a free node's other half are in smaller free nodes, if free.
LEMMA OtherHalf ==
  ASSUME PageInv, NEW x \in Free, ~IsTop(x[1]), Whole(Buddy(x)),
         NEW y \in Free, NEW p \in Run(Buddy(x)), p \in Run(y)
  PROVE  y[1] < x[1]
<1>1. PICK b : b = Buddy(x)
  OBVIOUS
<1>2. PICK z : z = Parent(x)
  OBVIOUS
<1>3. x \in Nodes /\ y \in Nodes /\ Whole(x) /\ x \in Owners /\ y \in Owners
  BY DEF Free, Owners, PageInv, StoreInv, OwnersWhole
<1>4. b \in Nodes /\ b # x /\ b[1] = x[1]
  BY <1>1, <1>3, BuddyFact
<1>5. /\ x = <<x[1], x[2]>> /\ x[1] \in Nat
      /\ y = <<y[1], y[2]>> /\ y[1] \in Nat
      /\ b = <<b[1], b[2]>>
  BY <1>3, <1>4, NodeFact, LevelFact
<1>6. ASSUME y[1] = x[1]
      PROVE  FALSE
  <2>1. y[2] = b[2]
    BY <1>1, <1>4, <1>6 DEF Run
  <2>2. y = b
    BY <2>1, <1>4, <1>5, <1>6
  <2> QED
    BY <2>2, <1>1 DEF PageInv, StoreInv, NoFreeBuddies
<1>7. ASSUME x[1] < y[1]
      PROVE  FALSE
  <2>1. z \in Nodes /\ Run(z) = Run(x) \cup Run(b)
    BY <1>1, <1>2, <1>3, ParentFact
  <2>2. z[1] =< y[1]
    BY <1>2, <1>5, <1>7 DEF Parent
  <2>3. Run(z) \subseteq Run(y)
    BY <2>1, <2>2, <1>1, <1>3, Nested
  <2>4. Run(x) # {}
    BY <1>3, WholeHasPages
  <2> QED
    BY <2>1, <2>3, <2>4, <1>3, <1>5, <1>7 DEF PageInv, StoreInv, Tiling, NothingShared
<1> QED
  BY <1>5, <1>6, <1>7

\* A whole free node that is none of the initial ones has a whole other half.
LEMMA HasOtherHalf ==
  ASSUME NEW x \in Nodes, Whole(x), x \notin InitialNodes
  PROVE  /\ ~IsTop(x[1]) /\ Whole(Buddy(x))
         /\ Buddy(x)[2] < PageCount \div 2^x[1]
<1>1. PICK i : i = x[1]
  OBVIOUS
<1>2. PICK n : n = x[2]
  OBVIOUS
<1>3. PICK w : w = 2^i
  OBVIOUS
<1>4. PICK k : k = PageCount \div w
  OBVIOUS
<1>5. x = <<i, n>> /\ i \in Levels /\ n \in Nat /\ w \in Nat \ {0}
  BY <1>1, <1>2, <1>3, NodeFact
<1>6. i \in 0 .. 12 /\ PageCount \in Nat /\ PageCount =< 4096 /\ 2^(i + 1) = 2 * w
  BY <1>3, <1>5, LevelFact
<1>7. k \in Int
  BY <1>4, <1>5, <1>6
<1>8. k * w =< PageCount /\ PageCount < (k + 1) * w
  BY <1>4, <1>5, <1>6, <1>7, Division
<1>9. (n + 1) * w =< PageCount
  BY <1>1, <1>2, <1>3 DEF Whole
<1>10. n + 1 =< k
  <2>1. (n + 1) * w < (k + 1) * w
    BY <1>5, <1>6, <1>7, <1>8, <1>9
  <2> QED
    BY <2>1, <1>5, <1>7
<1>11. ~(n + 1 = k /\ k % 2 = 1)
  <2> SUFFICES ASSUME n + 1 = k, k % 2 = 1 PROVE FALSE
    OBVIOUS
  <2>1. x = <<i, (PageCount \div 2^i) - 1>>
    BY <1>3, <1>4, <1>5
  <2>2. (PageCount \div 2^i) % 2 = 1
    BY <1>3, <1>4
  <2> QED
    BY <2>1, <2>2, <1>5 DEF InitialNodes
<1>12. ~IsTop(i)
  <2> SUFFICES ASSUME IsTop(i) PROVE FALSE
    OBVIOUS
  <2>1. PageCount < 2 * w
    <3>1. CASE i = 12
      BY <3>1, <1>3, <1>6, Powers
    <3>2. CASE i # 12
      BY <3>2, <1>3, <1>6 DEF IsTop, Levels, MaxLevel
    <3> QED
      BY <3>1, <3>2
  <2>2. k * w < 2 * w
    BY <2>1, <1>5, <1>6, <1>7, <1>8
  <2>3. k < 2
    BY <2>2, <1>5, <1>7
  <2> QED
    BY <2>3, <1>5, <1>7, <1>10, <1>11
<1>13. PICK m : m = Buddy(x)[2]
  OBVIOUS
<1>14. m = (IF n % 2 = 1 THEN n - 1 ELSE n + 1) /\ Buddy(x)[1] = i
  BY <1>5, <1>13 DEF Buddy
<1>15. m \in Int /\ m + 1 =< k
  BY <1>5, <1>7, <1>10, <1>11, <1>14
<1>16. (m + 1) * w =< k * w
  BY <1>5, <1>7, <1>15
<1>17. (m + 1) * w =< PageCount
  BY <1>5, <1>6, <1>7, <1>8, <1>15, <1>16
<1> QED
  BY <1>1, <1>3, <1>4, <1>7, <1>12, <1>13, <1>14, <1>15, <1>17 DEF Whole

\* Of free nodes with some property one has the smallest level.
LEMMA LowestFree ==
  ASSUME NEW D \in SUBSET Nodes, D # {}
  PROVE  \E x \in D : \A y \in D : x[1] =< y[1]
<1> DEFINE T == {x[1] : x \in D}
<1>1. T \in SUBSET Nat /\ T # {}
  BY NodeFact, LevelFact
<1>2. \A y \in D : y[1] \in T
  OBVIOUS
<1>3. \A k \in T : \E x \in D : k = x[1]
  OBVIOUS
<1> HIDE DEF T
<1>4. PICK k \in T : \A l \in T : k =< l
  BY <1>1, LeastElement
<1> QED
  BY <1>2, <1>3, <1>4

\* Without packets the free nodes are the initial ones: of the others, one of
\* the lowest level would find its other half in the rings, or in initial nodes,
\* which are where no other half is.
LEMMA StoreIsWhole ==
  ASSUME PageInv, mutex = NULL, \A p \in Live : buffer[p] = NULL
  PROVE  Free = InitialNodes
<1>1. hand = NULL
  BY DEF PageInv, StoreInv, Holding
<1>2. Owners = Free /\ \A p \in Live : PagesOf(p) = {}
  BY <1>1 DEF Owners, PagesOf
<1>3. \A pg \in Pages : \E y \in Free : pg \in Run(y)
  BY <1>2 DEF PageInv, StoreInv, Tiling, NothingLost
<1>4. \A x \in Free : x \in Nodes /\ Whole(x)
  BY <1>2 DEF Free, PageInv, StoreInv, OwnersWhole
<1>5. Free \subseteq InitialNodes
  <2> DEFINE D == Free \ InitialNodes
  <2> SUFFICES ASSUME D # {} PROVE FALSE
    OBVIOUS
  <2>1. D \in SUBSET Nodes
    BY <1>4
  <2>2. PICK x \in D : \A y \in D : x[1] =< y[1]
    BY <2>1, LowestFree
  <2>3. x \in Free /\ x \in Nodes /\ Whole(x) /\ x \notin InitialNodes
    BY <1>4
  <2>4. /\ ~IsTop(x[1]) /\ Whole(Buddy(x))
        /\ Buddy(x)[2] < PageCount \div 2^x[1]
    BY <2>3, HasOtherHalf
  <2>5. Buddy(x) \in Nodes /\ Buddy(x)[1] = x[1]
    BY <2>3, BuddyFact
  <2>6. PICK p : p \in Run(Buddy(x))
    BY <2>4, <2>5, WholeHasPages
  <2>7. p \in Pages /\ p \div 2^x[1] = Buddy(x)[2]
    BY <2>5, <2>6 DEF Run
  <2>8. PICK y \in Free : p \in Run(y)
    BY <2>7, <1>3
  <2>9. y[1] < x[1]
    BY <2>3, <2>4, <2>6, <2>8, OtherHalf
  <2>10. x[1] \in 0 .. 12 /\ y[1] \in 0 .. 12 /\ Buddy(x)[2] \in Nat
    BY <2>3, <2>5, <1>4, NodeFact, LevelFact
  <2>11. y \in InitialNodes
    BY <2>2, <2>8, <2>9, <2>10
  <2>12. p \div 2^x[1] = PageCount \div 2^x[1]
    <3>1. PICK j \in 0 .. 13 : j = x[1]
      BY <2>10
    <3>2. p \in Run(y) /\ y[1] < j
      BY <2>8, <2>9, <3>1
    <3>3. p \div 2^j = PageCount \div 2^j
      BY ONLY <3>2, <2>11, j \in 0 .. 13, AboveInitial
    <3> QED
      BY <3>1, <3>3
  <2> QED
    BY <2>4, <2>7, <2>10, <2>12
<1>6. InitialNodes \subseteq Free
  <2> SUFFICES ASSUME NEW x \in InitialNodes PROVE x \in Free
    OBVIOUS
  <2>1. PICK p : p \in Run(x)
    BY InitialFact, WholeHasPages
  <2>2. PICK y \in Free : p \in Run(y)
    BY <2>1, <1>3 DEF Run
  <2>3. y = x
    BY <2>1, <2>2, <1>5, InitialDisjoint
  <2> QED
    BY <2>3
<1> QED
  BY <1>5, <1>6

\* When all packets are back the free nodes are those the constructor began
\* with (Packet.cpp:410-421), whatever was split and joined in between.
THEOREM StoreComesBack == Spec => []WholeAgain
<1>1. PageInv => WholeAgain
  BY StoreIsWhole DEF WholeAgain
<1> QED
  BY <1>1, StoreInvariance, PTL

\* After a search that found nothing all free nodes are too small.
LEMMA NothingLargeEnough ==
  ASSUME PageInv, \A i \in Levels : ~FirstFree(i), NEW x \in Free
  PROVE  x[1] < type
<1>1. x[1] \in Levels /\ x[1] \in Nat /\ x \in FreeAt(x[1])
  BY NodeFact, LevelFact DEF Free, FreeAt
<1>2. type \in Nat
  BY DEF PageInv, StoreInv, Shapes
<1> SUFFICES ASSUME type =< x[1] PROVE FALSE
  BY <1>1, <1>2
<1> DEFINE T == {j \in Levels : type =< j /\ header[j] # NULL}
<1>3. header[x[1]] # NULL
  BY <1>1 DEF PageInv, StoreInv, RingInv, OneRing
<1>4. x[1] \in T
  BY <1>1, <1>3
<1>5. T \in SUBSET Nat
  <2>1. Levels \subseteq Nat
    BY LevelFact
  <2> QED
    BY <2>1
<1>6. PICK k \in T : \A l \in T : k =< l
  <2> HIDE DEF T
  <2> QED
    BY <1>4, <1>5, LeastElement
<1>7. ASSUME NEW j \in Levels, type =< j, j < k
      PROVE  header[j] = NULL
  <2>1. j \in Nat /\ k \in Nat
    BY <1>5, LevelFact
  <2>2. j \in T => k =< j
    BY <1>6
  <2> QED
    BY <2>1, <2>2, <1>7
<1>8. FirstFree(k)
  BY <1>6, <1>7 DEF FirstFree
<1> QED
  BY <1>6, <1>8

\* The other half of a node is in every larger run that the node meets.
LEMMA BuddyInSameRun ==
  ASSUME NEW x \in Nodes, NEW z \in Nodes, x[1] < z[1],
         NEW p \in Run(x), p \in Run(z), NEW q \in Run(Buddy(x))
  PROVE  q \in Run(z)
<1>1. PICK i \in 0 .. 12 : i = x[1]
  BY NodeFact, LevelFact
<1>2. PICK j \in 0 .. 12 : j = z[1]
  BY NodeFact, LevelFact
<1>3. PICK n \in Nat : n = x[2]
  BY NodeFact
<1>4. PICK v \in Nat \ {0} : v = 2^i
  BY Powers
<1>5. /\ i + 1 \in 0 .. 13 /\ j \in 0 .. 13 /\ i + 1 =< j
      /\ 2^(i + 1) = 2 * v
  <2>1. i < j
    BY <1>1, <1>2
  <2>2. 2^(i + 1) = 2 * 2^i
    BY Powers
  <2> QED
    BY <2>1, <2>2, <1>4
<1>6. p \in Nat /\ q \in Nat /\ q \in Pages
  BY DEF Run, Pages
<1>7. p \div v = n
  BY <1>1, <1>3, <1>4 DEF Run
<1>8. q \div v = (IF n % 2 = 1 THEN n - 1 ELSE n + 1)
  BY <1>1, <1>3, <1>4 DEF Run, Buddy
<1>9. (p \div v) \div 2 = (q \div v) \div 2
  BY <1>7, <1>8
<1>10. \A r \in Nat : r \div (2 * v) = (r \div v) \div 2
  BY DoubleDivision
<1>11. p \div (2 * v) = q \div (2 * v)
  BY <1>6, <1>9, <1>10
<1>12. p \div 2^(i + 1) = q \div 2^(i + 1)
  BY <1>5, <1>11
<1>13. p \div 2^j = q \div 2^j
  <2>1. PICK k \in 0 .. 13 : k = i + 1
    BY <1>5
  <2>2. p \div 2^k = q \div 2^k
    BY <1>12, <2>1
  <2>3. k =< j
    BY <1>5, <2>1
  <2>4. k \in 0 .. 13
    OBVIOUS
  <2>5. j \in 0 .. 13
    BY <1>5
  <2>6. p \in Nat
    BY <1>6
  <2>7. q \in Nat
    BY <1>6
  <2> QED
    BY ONLY <2>2, <2>3, <2>4, <2>5, <2>6, <2>7, SameAbove
<1> QED
  BY <1>2, <1>6, <1>13 DEF Run

\* If a run of free pages would do, the free nodes in it are all too small, and
\* one of the lowest level finds its other half in the rings.
LEMMA RefusalIsRight ==
  ASSUME PageInv, NEW t \in Threads, Refuse(t),
         NEW n \in Pages, type \in Levels, (n + 1) * 2^type =< PageCount
  PROVE  \E p \in Live : PagesOf(p) \cap Run(<<type, n>>) # {}
<1>1. PICK z : z = <<type, n>>
  OBVIOUS
<1>2. z \in Nodes /\ Whole(z) /\ z[1] = type /\ z[2] = n
  BY <1>1, WholeIsNode DEF Whole, Pages
<1> SUFFICES ASSUME \A p \in Live : PagesOf(p) \cap Run(z) = {}
             PROVE  FALSE
  BY <1>1
<1>3. \A i \in Levels : ~FirstFree(i)
  BY DEF Refuse
<1>4. \A x \in Free : x[1] < z[1]
  BY <1>2, <1>3, NothingLargeEnough
<1>5. hand = NULL
  <2>1. mutex = t /\ pc[t] = "search"
    BY DEF Refuse, PageInv, RefInv, Control
  <2> QED
    BY <2>1 DEF PageInv, StoreInv, Holding
<1>6. Owners = Free
  BY <1>5 DEF Owners
<1>7. \A pg \in Run(z) : \E y \in Free : pg \in Run(y)
  BY <1>6 DEF PageInv, StoreInv, Tiling, NothingLost, Run
<1>8. \A x \in Free : x \in Nodes /\ Whole(x)
  BY <1>6 DEF Free, PageInv, StoreInv, OwnersWhole
<1> DEFINE D == {x \in Free : Run(x) \cap Run(z) # {}}
<1>9. D # {}
  BY <1>2, <1>7, WholeHasPages
<1>10. PICK x \in D : \A y \in D : x[1] =< y[1]
  BY <1>8, <1>9, LowestFree
<1>11. PICK p : p \in Run(x) /\ p \in Run(z)
  BY <1>10
<1>12. x \in Free /\ x \in Nodes /\ Whole(x) /\ x[1] < z[1]
  BY <1>4, <1>8
<1>13. z[1] \in 0 .. 12 /\ x[1] \in 0 .. 12
  BY <1>2, <1>12, NodeFact, LevelFact
<1>14. x \notin InitialNodes
  <2> SUFFICES ASSUME x \in InitialNodes PROVE FALSE
    OBVIOUS
  <2>1. PICK j \in 0 .. 13 : j = z[1]
    BY <1>13
  <2>2. p \div 2^j = PageCount \div 2^j
    <3>1. p \in Run(x) /\ x[1] < j
      BY <1>11, <1>12, <2>1
    <3> QED
      BY ONLY <3>1, x \in InitialNodes, j \in 0 .. 13, AboveInitial
  <2>3. p \div 2^j = n
    BY <1>2, <1>11, <2>1 DEF Run
  <2>4. PICK w \in Nat \ {0} : w = 2^j
    BY <1>13, <2>1, Powers
  <2>5. PageCount \div w = n
    BY <2>2, <2>3, <2>4
  <2>6. PageCount < (n + 1) * w
    BY <2>4, <2>5, LevelFact, Division DEF Pages
  <2>7. (n + 1) * w =< PageCount
    BY <1>2, <2>1, <2>4
  <2> QED
    BY <2>4, <2>6, <2>7, LevelFact DEF Pages
<1>15. ~IsTop(x[1]) /\ Whole(Buddy(x))
  BY <1>12, <1>14, HasOtherHalf
<1>16. PICK q : q \in Run(Buddy(x))
  BY <1>12, <1>15, BuddyFact, WholeHasPages
<1>17. q \in Run(z)
  BY <1>2, <1>11, <1>12, <1>16, BuddyInSameRun
<1>18. PICK y \in Free : q \in Run(y)
  BY <1>7, <1>17
<1>19. y[1] < x[1]
  BY <1>12, <1>15, <1>16, <1>18, OtherHalf
<1>20. y \in D
  BY <1>17, <1>18
<1>21. y[1] \in Nat
  BY <1>8, <1>18, NodeFact, LevelFact
<1> QED
  BY <1>10, <1>13, <1>19, <1>20, <1>21

\* GetPacket returns NULL (Packet.cpp:520-525) only when every aligned run of
\* the size it needs has a page of some packet in it.
THEOREM RefusalsAreRight == Spec => RefusedWhenFull
<1>1. PageInv /\ [Next]_vars =>
        [\A t \in Threads :
           Refuse(t) =>
             \A i \in Levels, n \in Pages :
               i = type /\ (n + 1) * 2^i =< PageCount
                 => \E p \in Live : PagesOf(p) \cap Run(<<i, n>>) # {}]_vars
  BY RefusalIsRight
<1> QED
  BY <1>1, StoreInvariance, PTL DEF Spec, RefusedWhenFull

-----------------------------------------------------------------------------
(* The pages behind references *)

\* What Store calls view.
PagesBehind(h) == IF handle[h] = NULL THEN {} ELSE PagesOf(handle[h])
View == [h \in Handles |-> PagesBehind(h)]

\* A call changes nothing behind references with the packet it works on.
LEMMA SameView ==
  ASSUME UNCHANGED handle, NEW c, \A h \in Handles : handle[h] # c,
         \A h \in Handles : handle[h] # NULL =>
           PagesOf(handle[h])' = PagesOf(handle[h])
  PROVE  View' = View
BY DEF View, PagesBehind

\* Nobody refers to the packet of a call.
LEMMA WorkedOn ==
  ASSUME PageInv, NEW t \in Threads, pc[t] # "idle"
  PROVE  /\ cur[t] \in Packets
         /\ \A h \in Handles : handle[h] # cur[t]
<1>1. cur[t] # NULL /\ cur[t] \in Packets
  BY DEF PageInv, RefInv, RefTypes, Control
<1> QED
  BY <1>1, HeldIsCounted DEF PageInv

\* Recycling a packet changes nothing behind a reference.
LEMMA FreeingIsHidden ==
  ASSUME PageInv, NEW t \in Threads, pc[t] # "idle", FreePacket(cur[t]),
         UNCHANGED handle
  PROVE  View' = View
<1>1. cur[t] \in Packets /\ \A h \in Handles : handle[h] # cur[t]
  BY WorkedOn
<1>2. /\ size' = [size EXCEPT ![cur[t]] = 0]
      /\ buffer' = [buffer EXCEPT ![cur[t]] = NULL]
  BY DEF FreePacket
<1>3. ASSUME NEW h \in Handles, handle[h] # NULL
      PROVE  PagesOf(handle[h])' = PagesOf(handle[h])
  <2>1. handle[h] \in Packets
    BY <1>3, HeldIsCounted DEF PageInv
  <2> QED
    BY <1>1, <1>2, <2>1 DEF PagesOf, PageInv, StoreInv, Shapes
<1> QED
  BY <1>1, <1>3, SameView

\* Nor does making one.
LEMMA NewPacketIsHidden ==
  ASSUME PageInv, NEW c \in Packets, AllocPacket(c)
  PROVE  /\ PagesOf(c)' = {}
         /\ \A h \in Handles : handle[h] # c
         /\ \A h \in Handles : \A p : handle[h] = p /\ p # NULL => PagesOf(p)' = PagesOf(p)
<1>1. \A h \in Handles : handle[h] # c
  <2> SUFFICES ASSUME NEW h \in Handles, handle[h] = c PROVE FALSE
    OBVIOUS
  <2>1. c \notin made \ shells
    BY NewPacketHasNoPages
  <2>2. handle[h] # NULL
    BY PacketAssumption
  <2> QED
    BY <2>1, <2>2, HeldIsCounted DEF PageInv, RefInv, RefTypes
<1>2. ASSUME NEW h \in Handles, NEW p, handle[h] = p, p # NULL
      PROVE  PagesOf(p)' = PagesOf(p)
  <2>1. p \in Packets /\ p # c
    BY <1>1, <1>2, HeldIsCounted DEF PageInv
  <2> QED
    BY <2>1, NewPacketHasNoPages
<1> QED
  BY <1>1, <1>2, NewPacketHasNoPages

LEMMA GetHeaderOnlyRefines ==
  ASSUME PageInv, NEW t \in Threads, NEW h \in Handles, GetHeaderOnly(t, h)
  PROVE  View' = View
<1>1. PICK c \in Packets : AllocPacket(c) /\ handle' = [handle EXCEPT ![h] = c]
  BY DEF GetHeaderOnly
<1>2. handle[h] = NULL /\ handle \in [Handles -> made \cup {NULL}]
  BY DEF GetHeaderOnly, Unclaimed, PageInv, RefInv, RefTypes
<1>3. /\ PagesOf(c)' = {}
      /\ \A g \in Handles : \A p : handle[g] = p /\ p # NULL => PagesOf(p)' = PagesOf(p)
  BY <1>1, NewPacketIsHidden
<1>4. ASSUME NEW g \in Handles
      PROVE  PagesBehind(g)' = PagesBehind(g)
  <2>1. PICK p : p = handle[g]
    OBVIOUS
  <2>2. CASE g = h
    <3>1. handle'[g] = c
      BY <2>2, <1>1, <1>2
    <3>2. PagesBehind(g)' = IF c = NULL THEN {} ELSE PagesOf(c)'
      BY <3>1 DEF PagesBehind, PagesOf
    <3> QED
      BY <3>2, <2>2, <1>2, <1>3 DEF PagesBehind
  <2>3. CASE g # h
    <3>1. handle'[g] = p
      BY <2>1, <2>3, <1>1, <1>2
    <3>2. PagesBehind(g)' = IF p = NULL THEN {} ELSE PagesOf(p)'
      BY <3>1 DEF PagesBehind, PagesOf
    <3> QED
      BY <3>2, <2>1, <1>3 DEF PagesBehind
  <2> QED
    BY <2>2, <2>3
<1> QED
  BY <1>4 DEF View

LEMMA GetPacketRefines ==
  ASSUME PageInv, NEW t \in Threads, NEW h \in Handles, NEW bytes \in Requests,
         GetPacket(t, h, bytes)
  PROVE  View' = View
<1>1. PICK c \in Packets : AllocPacket(c)
  BY DEF GetPacket
<1>2. UNCHANGED handle
  BY DEF GetPacket
<1>3. ASSUME NEW g \in Handles
      PROVE  PagesBehind(g)' = PagesBehind(g)
  <2>1. PICK p : p = handle[g]
    OBVIOUS
  <2>2. p # NULL => PagesOf(p)' = PagesOf(p)
    BY <1>1, <2>1, NewPacketIsHidden
  <2>3. PagesBehind(g)' = IF p = NULL THEN {} ELSE PagesOf(p)'
    BY <1>2, <2>1 DEF PagesBehind, PagesOf
  <2> QED
    BY <2>1, <2>2, <2>3 DEF PagesBehind
<1> QED
  BY <1>3 DEF View

LEMMA TakeRefines ==
  ASSUME PageInv, NEW t \in Threads, Take(t)
  PROVE  View' = View
<1>1. PICK i \in Levels : /\ size' = [size EXCEPT ![cur[t]] = 2^type]
                          /\ buffer' = [buffer EXCEPT ![cur[t]] = header[i][2] * 2^i]
  BY DEF Take
<1>2. UNCHANGED handle /\ pc[t] # "idle"
  BY DEF Take
<1>3. cur[t] \in Packets /\ \A h \in Handles : handle[h] # cur[t]
  BY <1>2, WorkedOn
<1>4. ASSUME NEW h \in Handles, handle[h] # NULL
      PROVE  PagesOf(handle[h])' = PagesOf(handle[h])
  <2>1. handle[h] \in Packets
    BY <1>4, HeldIsCounted DEF PageInv
  <2>2. size'[handle[h]] = size[handle[h]] /\ buffer'[handle[h]] = buffer[handle[h]]
    BY <1>1, <1>3, <2>1 DEF PageInv, StoreInv, Shapes
  <2> QED
    BY <1>2, <2>2 DEF PagesOf
<1> QED
  BY <1>2, <1>3, <1>4, SameView

LEMMA AddRefRefines ==
  ASSUME PageInv, NEW t \in Threads, NEW h \in Handles, NEW g \in Handles,
         AddRef(t, h, g)
  PROVE  Store!Share(h, g)
<1>1. /\ handle' = [handle EXCEPT ![g] = handle[h]] /\ handle[g] = NULL
      /\ UNCHANGED <<size, buffer>>
  BY DEF AddRef, Unclaimed
<1>2. \A p : PagesOf(p)' = PagesOf(p)
  BY <1>1 DEF PagesOf
<1>3. View[g] = {}
  BY <1>1 DEF View, PagesBehind
<1>4. \A f \in Handles : PagesBehind(f)' = IF f = g THEN PagesBehind(h) ELSE PagesBehind(f)
  BY <1>1, <1>2 DEF PagesBehind, PageInv, RefInv, RefTypes
<1>5. View' = [View EXCEPT ![g] = View[h]]
  BY <1>4 DEF View
<1> QED
  BY <1>3, <1>5 DEF Store!Share, View, PagesBehind

LEMMA ReleaseRefines ==
  ASSUME PageInv, NEW t \in Threads, NEW h \in Handles, Release(t, h)
  PROVE  Store!Drop(h)
<1>1. /\ handle' = [handle EXCEPT ![h] = NULL]
      /\ UNCHANGED <<size, buffer>>
  BY DEF Release
<1>2. \A p : PagesOf(p)' = PagesOf(p)
  BY <1>1 DEF PagesOf
<1>4. \A f \in Handles : PagesBehind(f)' = IF f = h THEN {} ELSE PagesBehind(f)
  BY <1>1, <1>2 DEF PagesBehind, PageInv, RefInv, RefTypes
<1>5. View' = [View EXCEPT ![h] = {}]
  BY <1>4 DEF View
<1> QED
  BY <1>5 DEF Store!Drop, View, PagesBehind

LEMMA GetReturnsRefines ==
  ASSUME PageInv, NEW t \in Threads, GetReturns(t)
  PROVE  \E h \in Handles : Store!Grant(h)
<1>1. PICK h : h = ret[t]
  OBVIOUS
<1>2. PICK c : c = cur[t]
  OBVIOUS
<1>3. PICK i : i = hand[1]
  OBVIOUS
<1>4. PICK n : n = hand[2]
  OBVIOUS
<1>5. /\ pc[t] = "split" /\ handle' = [handle EXCEPT ![h] = c]
      /\ UNCHANGED <<size, buffer>>
  BY <1>1, <1>2 DEF GetReturns, packet
<1>6. h \in Handles /\ handle[h] = NULL /\ handle \in [Handles -> made \cup {NULL}]
  BY <1>1, <1>5 DEF PageInv, RefInv, RefTypes, Control
<1>7. c \in Packets /\ mutex = t /\ c # NULL
  BY <1>2, <1>5, InHand, PacketAssumption
<1>8. /\ IsRun(c, hand) /\ hand \in Owners /\ hand \in Nodes /\ hand[1] \in Levels
  BY <1>2, GetReturnsPages
<1>9. PagesOf(c) = Run(hand)
  BY <1>8, PacketIsRun
<1>10. i \in Levels /\ Run(hand) = Store!Run(i, n)
  BY <1>3, <1>4, <1>8 DEF Run, Store!Run, Pages, Store!Pages
<1>11. n \in Pages
  <2>1. n \in Nat /\ 2^i \in Nat \ {0}
    BY <1>3, <1>4, <1>8, NodeFact
  <2>2. (n + 1) * 2^i =< PageCount
    BY <1>3, <1>4, <1>8 DEF IsRun, Whole
  <2>3. PICK w \in Nat \ {0} : w = 2^i
    BY <2>1
  <2>4. n + 1 =< (n + 1) * w
    BY <2>1, <2>3
  <2>5. n + 1 =< PageCount
    BY <2>1, <2>2, <2>3, <2>4, LevelFact
  <2> QED
    BY <2>1, <2>5, LevelFact DEF Pages
<1>12. \A p : PagesOf(p)' = PagesOf(p)
  BY <1>5 DEF PagesOf
<1>13. View[h] = {}
  BY <1>6 DEF View, PagesBehind
<1>14. \A f \in Handles : PagesBehind(f)' = IF f = h THEN PagesOf(c) ELSE PagesBehind(f)
  BY <1>5, <1>6, <1>7, <1>12 DEF PagesBehind
<1>15. View' = [View EXCEPT ![h] = Run(hand)]
  BY <1>9, <1>14 DEF View
<1>16. ASSUME NEW g \in Handles
       PROVE  View[g] \cap Run(hand) = {}
  <2>1. CASE handle[g] = NULL
    BY <2>1 DEF View, PagesBehind
  <2>2. CASE handle[g] # NULL
    <3>1. /\ handle[g] \in made /\ handle[g] \notin shells
          /\ handle[g] # cur[mutex]
      BY <2>2, <1>6, <1>7, HeldIsCounted DEF PageInv
    <3>2. handle[g] \in Live
      BY <3>1 DEF Live
    <3>3. PagesOf(handle[g]) \cap Run(hand) = {}
      BY <3>2, <1>8 DEF PageInv, StoreInv, Tiling, NothingShared
    <3> QED
      BY <2>2, <3>3 DEF View, PagesBehind
  <2> QED
    BY <2>1, <2>2
<1>17. Store!Unused(Store!Run(i, n))
  BY <1>10, <1>16 DEF Store!Unused, View, PagesBehind
<1>18. n \in Store!Pages
  BY <1>11 DEF Pages, Store!Pages
<1>19. Store!Grant(h)
  BY <1>10, <1>13, <1>15, <1>17, <1>18 DEF Store!Grant, View, PagesBehind
<1> QED
  BY <1>6, <1>19

\* Every step is a step of PageStore or hidden from it.
LEMMA StepRefines ==
  ASSUME PageInv, [Next]_vars
  PROVE  Store!Next \/ View' = View
<1>1. CASE UNCHANGED vars
  <2>1. UNCHANGED <<handle, size, buffer>>
    BY <1>1 DEF vars, packet
  <2> QED
    BY <2>1 DEF View, PagesBehind, PagesOf
<1>2. ASSUME NEW t \in Threads, Call(t)
      PROVE  Store!Next \/ View' = View
  <2>1. PICK h \in Handles :
          \/ GetHeaderOnly(t, h)
          \/ \E bytes \in Requests : GetPacket(t, h, bytes)
          \/ \E g \in Handles : AddRef(t, h, g)
          \/ Release(t, h)
    BY <1>2 DEF Call
  <2>2. CASE \E g \in Handles : AddRef(t, h, g)
    BY <2>2, AddRefRefines DEF Store!Next
  <2>3. CASE Release(t, h)
    BY <2>3, ReleaseRefines DEF Store!Next
  <2> QED
    BY <2>1, <2>2, <2>3, GetHeaderOnlyRefines, GetPacketRefines
<1>3. ASSUME NEW t \in Threads, GoOn(t) \/ Lock(t)
      PROVE  Store!Next \/ View' = View
  <2>1. CASE Take(t)
    BY <2>1, TakeRefines
  <2>2. CASE Refuse(t) \/ PutReturns(t) \/ PutHeaderOnly(t)
    BY <2>2, FreeingIsHidden DEF Refuse, PutReturns, PutHeaderOnly
  <2>3. CASE Split(t) \/ Merge(t) \/ PutPacket(t)
    <3>1. UNCHANGED <<handle, size, buffer>>
      BY <2>3 DEF Split, Merge, PutPacket, packet
    <3> QED
      BY <3>1 DEF View, PagesBehind, PagesOf
  <2>4. CASE GetReturns(t)
    BY <2>4, GetReturnsRefines DEF Store!Next
  <2> QED
    BY <1>3, <2>1, <2>2, <2>3, <2>4 DEF GoOn, Lock
<1> QED
  BY <1>1, <1>2, <1>3 DEF Next

\* The packet manager implements PageStore: the pages behind a reference appear
\* when GetPacket returns it, are shared by AddRef and gone with Release, and all
\* other steps of the threads are hidden (Packet.cpp:292-321, 475-669).
THEOREM PagesAreGranted == Spec => ImplementsPageStore
<1>1. Init => Store!Init
  BY DEF Init, Store!Init
<1>2. PageInv /\ [Next]_vars => [Store!Next]_[h \in Handles |->
         IF handle[h] = NULL THEN {} ELSE PagesOf(handle[h])]
  BY StepRefines DEF View, PagesBehind
<1> QED
  BY <1>1, <1>2, StoreInvariance, PTL DEF Spec, ImplementsPageStore, Store!Spec
=============================================================================
