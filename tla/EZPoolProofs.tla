---------------------------- MODULE EZPoolProofs ----------------------------
(***************************************************************************)
(* Proofs about EZPool, for any threads, chunks and chunk sizes: an element*)
(* is allocated to one user at a time, and the free list holds every       *)
(* element that nobody has.                                                *)
(***************************************************************************)
EXTENDS EZPool, FiniteSetTheorems, TLAPS

-----------------------------------------------------------------------------
(* The inductive invariant *)

\* Only the thread that has the mutex is inside alloc or free, and what it has
\* read of the list is still so.
Exclusive ==
  /\ \A t \in Threads : pc[t] # "idle" => mutex = t
  /\ \A t \in Threads : pc[t] \in {"take", "pop"} => head # NULL
  /\ \A t \in Threads : pc[t] = "pop" => elem[t] = head
  /\ \A t \in Threads : pc[t] \in {"link", "push"} =>
                          elem[t] # NULL /\ elem[t] \notin used
  /\ \A t \in Threads : pc[t] = "push" => next[elem[t]] = head

PInv == TypeOK /\ Exclusive /\ HandedOutOnce

\* The element whose call free is under way, in terms of the mutex.
LEMMA ReturnedFact ==
  ASSUME TypeOK, Exclusive
  PROVE  /\ \A t \in Threads : pc[t] \in {"link", "push"} => Returned = {elem[t]}
         /\ (\A t \in Threads : pc[t] \notin {"link", "push"}) => Returned = {}
BY DEF Exclusive, Returned

LEMMA InitPInv == Init => PInv
<1> SUFFICES ASSUME Init PROVE PInv
  OBVIOUS
<1>1. Cut = {}
  BY PoolAssumption DEF Init, Cut, Elements
<1>2. TypeOK
  BY DEF Init, TypeOK
<1> QED
  BY <1>1, <1>2 DEF Init, PInv, Exclusive, HandedOutOnce, Spare

\* What another thread could observe of its own call when t makes a step: the
\* step is made by the owner of the mutex, or by the one that takes it.
LEMMA AllocPInv ==
  ASSUME PInv, NEW t \in Threads, Alloc(t)
  PROVE  PInv'
<1> USE DEF PInv
<1>1. \A u \in Threads : pc[u] = "idle"
  BY PoolAssumption DEF Alloc, Exclusive, TypeOK
<1>2. TypeOK'
  BY DEF Alloc, TypeOK, Cut, Goto
<1>3. Exclusive'
  BY <1>1 DEF Alloc, Exclusive, Goto, TypeOK
<1>4. Returned = {} /\ Returned' = {}
  BY <1>1 DEF Returned, Alloc, Goto, TypeOK
<1> QED
  BY <1>2, <1>3, <1>4 DEF Alloc, HandedOutOnce, Spare, Cut

\* Growing adds the new chunk to what nobody has.
LEMMA GrowSpare ==
  ASSUME PInv, NEW t \in Threads, NEW c \in 1 .. MaxChunks, Grow(t, c)
  PROVE  LET New == {e \in Elements : e[1] = c /\ e[2] <= ecount}
         IN /\ Cut' = Cut \cup New /\ Cut \cap New = {} /\ <<c, 1>> \in New
            /\ Returned = {} /\ Returned' = {}
            /\ Spare' = Spare \cup New
<1> USE DEF PInv
<1> DEFINE New == {e \in Elements : e[1] = c /\ e[2] <= ecount}
<1>1. /\ Cut' = Cut \cup New /\ Cut \cap New = {}
      /\ <<c, 1>> \in New
  BY PoolAssumption DEF Cut, Grow, TypeOK, Elements
<1>2. \A u \in Threads : u # t => pc[u] = "idle"
  BY DEF Grow, Exclusive, TypeOK, At
<1>3. Returned = {} /\ Returned' = {}
  BY <1>2 DEF Returned, Grow, Goto, At, TypeOK
<1>4. Spare' = Spare \cup New
  BY <1>1, <1>3 DEF Spare, Grow, TypeOK
<1> QED
  BY <1>1, <1>3, <1>4

LEMMA GrowPInv ==
  ASSUME PInv, NEW t \in Threads, NEW c \in 1 .. MaxChunks, Grow(t, c)
  PROVE  PInv'
<1> USE DEF PInv
<1> DEFINE New == {e \in Elements : e[1] = c /\ e[2] <= ecount}
<1>0. ecount \in Nat \ {0} /\ ecount <= MaxSize
  BY PoolAssumption DEF TypeOK
<1>1. /\ Cut' = Cut \cup New /\ Cut \cap New = {}
      /\ <<c, 1>> \in New
      /\ Spare' = Spare \cup New
  BY GrowSpare
<1>2. \A u \in Threads : u # t => pc[u] = "idle"
  BY DEF Grow, Exclusive, TypeOK, At
<1>3. \A j \in 1 .. ecount : Successor(c, j) # NULL => Successor(c, j) \in New
  BY <1>0, PoolAssumption DEF Successor, Elements
<1>4. TypeOK'
  <2>1. chunks' \in [1 .. MaxChunks -> ChunkSizes \cup {0}]
    BY DEF Grow, TypeOK
  <2>2. next' \in [Elements -> Elements \cup {NULL}]
    BY <1>3 DEF Grow, TypeOK, Elements
  <2> QED
    BY <1>1, <2>1, <2>2 DEF Grow, TypeOK, Goto
<1>5. Exclusive'
  BY <1>1, <1>2, PoolAssumption DEF Grow, Exclusive, Goto, At, TypeOK
<1>8. \A e \in Spare : next'[e] = next[e] /\ next'[e] \notin New
  <2>1. Spare \subseteq Cut /\ Cut \subseteq Elements /\ NULL \notin New
    BY PoolAssumption DEF Spare, Cut, Elements
  <2>2. \A e \in Spare : next'[e] = next[e]
    BY <1>1, <2>1 DEF Grow
  <2> QED
    BY <1>1, <2>1, <2>2 DEF HandedOutOnce
<1>9. \A e \in New : /\ next'[e] # NULL => next'[e] = <<c, e[2] + 1>> /\ next'[e] \in New
                    /\ e = <<c, e[2]>>
  BY <1>0, <1>3, PoolAssumption DEF Grow, Successor, Elements, TypeOK
<1>10. head' = <<c, 1>> /\ head = NULL
  BY DEF Grow
<1>11. \A e \in New : e[2] \in Nat \ {0}
  BY DEF Elements
<1>12. HandedOutOnce'
  <2>1. \A e \in New : next'[e] # NULL => next'[e] # head'
    BY <1>9, <1>10, <1>11
  <2>2. \A e, f \in New : next'[e] = next'[f] /\ next'[e] # NULL => e = f
    BY <1>9, <1>11
  <2> QED
    BY <1>1, <1>8, <1>9, <1>10, <2>1, <2>2 DEF HandedOutOnce
<1> QED
  BY <1>4, <1>5, <1>12

LEMMA NoGrowPInv ==
  ASSUME PInv, NEW t \in Threads, NoGrow(t)
  PROVE  PInv'
<1> USE DEF PInv
<1>1. TypeOK'
  BY DEF NoGrow, TypeOK, Cut, Goto
<1>2. Exclusive'
  BY DEF NoGrow, Exclusive, Goto, At, TypeOK
<1>3. Returned' = Returned
  BY DEF Returned, NoGrow, Goto, At, TypeOK
<1> QED
  BY <1>1, <1>2, <1>3 DEF NoGrow, HandedOutOnce, Spare, Cut

LEMMA TakeHeadPInv ==
  ASSUME PInv, NEW t \in Threads, TakeHead(t)
  PROVE  PInv'
<1> USE DEF PInv
<1>1. TypeOK'
  BY DEF TakeHead, TypeOK, Cut, Goto
<1>2. Exclusive'
  BY DEF TakeHead, Exclusive, Goto, At, TypeOK
<1>3. Returned' = Returned
  BY DEF Returned, TakeHead, Goto, At, TypeOK
<1> QED
  BY <1>1, <1>2, <1>3 DEF TakeHead, HandedOutOnce, Spare, Cut

\* The first element leaves the list; the second one, if any, is not the first.
LEMMA PopSpare ==
  ASSUME PInv, NEW t \in Threads, PopHead(t)
  PROVE  /\ elem[t] = head /\ head # NULL /\ head \in Spare
         /\ \A u \in Threads : u # t => pc[u] = "idle"
         /\ Spare' = Spare \ {head} /\ head' = next[head]
         /\ \A e \in Spare' : next'[e] = next[e]
<1> USE DEF PInv
<1>1. /\ elem[t] = head /\ head # NULL /\ head \in Spare
      /\ \A u \in Threads : u # t => pc[u] = "idle"
  BY DEF PopHead, At, Exclusive, HandedOutOnce
<1>2. Cut' = Cut /\ Cut \subseteq Elements
  BY DEF PopHead, Cut
<1>3. Returned = {} /\ Returned' = {}
  BY <1>1 DEF Returned, PopHead, Goto, At, Returns, TypeOK
<1>4. Spare' = Spare \ {head} /\ head' = next[head]
  BY <1>1, <1>2, <1>3 DEF Spare, PopHead
<1>5. \A e \in Spare' : next'[e] = next[e]
  BY <1>1, <1>2, <1>4 DEF PopHead, TypeOK, Spare
<1> QED
  BY <1>1, <1>4, <1>5

LEMMA PopHeadPInv ==
  ASSUME PInv, NEW t \in Threads, PopHead(t)
  PROVE  PInv'
<1> USE DEF PInv
<1>1. head \in Spare /\ head # NULL /\ elem[t] = head
  BY PopSpare
<1>2. head' = next[head] /\ (head' # NULL => head' \in Spare /\ head' # head)
  BY <1>1, PopSpare DEF HandedOutOnce
<1>3. TypeOK'
  BY <1>1, <1>2 DEF PopHead, TypeOK, Goto, Returns, Spare, Cut
<1>4. Exclusive'
  BY PopSpare DEF PopHead, Exclusive, Goto, At, Returns, TypeOK
<1> QED
  BY <1>1, <1>2, <1>3, <1>4, PopSpare DEF HandedOutOnce

LEMMA FreeElementPInv ==
  ASSUME PInv, NEW t \in Threads, NEW e \in used, FreeElement(t, e)
  PROVE  PInv'
<1> USE DEF PInv
<1>1. \A u \in Threads : pc[u] = "idle"
  BY PoolAssumption DEF FreeElement, Exclusive, TypeOK
<1>2. e \in Cut /\ e # NULL
  BY PoolAssumption DEF TypeOK, Cut, Elements
<1>3. TypeOK'
  BY <1>2 DEF FreeElement, TypeOK, Cut, Goto
<1>4. Exclusive'
  BY <1>1, <1>2 DEF FreeElement, Exclusive, Goto, TypeOK
<1>5. Returned = {} /\ Returned' = {e}
  BY <1>1, <1>3, <1>4, ReturnedFact DEF Returned, FreeElement, Goto, TypeOK
<1>6. Spare' = Spare
  BY <1>5 DEF Spare, FreeElement, Cut
<1> QED
  BY <1>3, <1>4, <1>6 DEF FreeElement, HandedOutOnce

LEMMA LinkElementPInv ==
  ASSUME PInv, NEW t \in Threads, LinkElement(t)
  PROVE  PInv'
<1> USE DEF PInv
<1>1. \A u \in Threads : u # t => pc[u] = "idle"
  BY DEF LinkElement, At, Exclusive
<1>2. elem[t] \in Cut /\ Cut' = Cut /\ Cut \subseteq Elements
  BY DEF LinkElement, At, Exclusive, TypeOK, Cut
<1>3. TypeOK'
  BY <1>2 DEF LinkElement, TypeOK, Goto
<1>4. Exclusive'
  BY <1>1, <1>2 DEF LinkElement, Exclusive, Goto, At, TypeOK
<1>5. Returned = {elem[t]} /\ Returned' = {elem[t]}
  BY <1>1 DEF Returned, LinkElement, At, Goto, TypeOK
<1>6. Spare' = Spare /\ \A e \in Spare : next'[e] = next[e]
  BY <1>2, <1>5 DEF Spare, LinkElement, TypeOK
<1> QED
  BY <1>3, <1>4, <1>6 DEF LinkElement, HandedOutOnce

\* The element comes to stand before the first one, which nothing precedes.
LEMMA PushSpare ==
  ASSUME PInv, NEW t \in Threads, Push(t)
  PROVE  /\ elem[t] \notin Spare /\ next[elem[t]] = head /\ elem[t] # NULL
         /\ \A u \in Threads : u # t => pc[u] = "idle"
         /\ Spare' = Spare \cup {elem[t]} /\ next' = next /\ head' = elem[t]
<1> USE DEF PInv
<1>1. \A u \in Threads : u # t => pc[u] = "idle"
  BY DEF Push, At, Exclusive
<1>2. /\ elem[t] \in Cut /\ Cut' = Cut /\ elem[t] \notin used
      /\ next[elem[t]] = head /\ elem[t] # NULL
  BY DEF Push, At, Exclusive, TypeOK, Cut
<1>3. Returned = {elem[t]} /\ Returned' = {}
  BY <1>1 DEF Returned, Push, At, Goto, Returns, TypeOK
<1>4. Spare' = Spare \cup {elem[t]} /\ elem[t] \notin Spare
  BY <1>2, <1>3 DEF Spare, Push
<1> QED
  BY <1>1, <1>2, <1>4 DEF Push

LEMMA PushPInv ==
  ASSUME PInv, NEW t \in Threads, Push(t)
  PROVE  PInv'
<1> USE DEF PInv
<1>1. TypeOK'
  BY PushSpare DEF Push, TypeOK, Goto, Returns, Cut
<1>2. Exclusive'
  BY PushSpare DEF Push, Exclusive, Goto, Returns, At, TypeOK
<1> QED
  BY <1>1, <1>2, PushSpare DEF HandedOutOnce

LEMMA setecPInv ==
  ASSUME PInv, NEW n \in ChunkSizes, setec(n)
  PROVE  PInv'
<1> USE DEF PInv
<1>1. TypeOK'
  BY DEF setec, TypeOK, Cut
<1>2. Exclusive'
  BY DEF setec, Exclusive
<1>3. Spare' = Spare
  BY DEF setec, Spare, Returned, Cut
<1> QED
  BY <1>1, <1>2, <1>3 DEF setec, HandedOutOnce

LEMMA NextPInv == PInv /\ [Next]_vars => PInv'
<1> SUFFICES ASSUME PInv, [Next]_vars PROVE PInv'
  OBVIOUS
<1>1. CASE UNCHANGED vars
  <2> USE <1>1 DEF vars
  <2>1. Cut' = Cut /\ Returned' = Returned
    BY DEF Cut, Returned
  <2>2. Spare' = Spare
    BY <2>1 DEF Spare
  <2> QED
    BY <2>1, <2>2 DEF PInv, TypeOK, Exclusive, HandedOutOnce
<1>2. ASSUME NEW t \in Threads, Alloc(t) PROVE PInv'
  BY <1>2, AllocPInv
<1>3. ASSUME NEW t \in Threads, Step(t) PROVE PInv'
  BY <1>3, GrowPInv, NoGrowPInv, TakeHeadPInv, PopHeadPInv, LinkElementPInv, PushPInv
     DEF Step
<1>4. ASSUME NEW t \in Threads, NEW e \in used, FreeElement(t, e) PROVE PInv'
  BY <1>4, FreeElementPInv
<1>5. ASSUME NEW n \in ChunkSizes, setec(n) PROVE PInv'
  BY <1>5, setecPInv
<1> QED
  BY <1>1, <1>2, <1>3, <1>4, <1>5 DEF Next

\* The invariant holds throughout.
THEOREM Invariance == Spec => []PInv
<1> QED
  BY InitPInv, NextPInv, PTL DEF Spec

\* EZPoolAllocator.cpp:22, "thread safe": what alloc returns is nobody else's,
\* whoever allocates and frees at the same time and however often the pool grows.
THEOREM HandedOut == Spec => []HandedOutOnce
<1>1. PInv => HandedOutOnce
  BY DEF PInv
<1> QED
  BY <1>1, Invariance, PTL

-----------------------------------------------------------------------------
(* Nothing leaks *)

\* How many elements nobody has.
LEMMA SpareFinite == ASSUME PInv PROVE IsFiniteSet(Spare) /\ Cardinality(Spare) \in Nat
<1>1. IsFiniteSet(Elements)
  <2>1. MaxChunks \in Int /\ MaxSize \in Int /\ 1 \in Int
    BY PoolAssumption
  <2>2. IsFiniteSet(1 .. MaxChunks) /\ IsFiniteSet(1 .. MaxSize)
    BY <2>1, FS_Interval
  <2> QED
    BY <2>2, FS_Product DEF Elements
<1>2. Spare \subseteq Elements
  BY DEF Spare, Cut
<1> QED
  BY <1>1, <1>2, FS_Subset, FS_CardinalityType

\* A step that leaves head, Spare and the links of Spare alone leaves the list.
LEMMA SameList ==
  ASSUME NothingLeaks, Spare' = Spare, head' = head,
         \A e \in Spare : next'[e] = next[e]
  PROVE  NothingLeaks'
<1>1. PICK n : n = Cardinality(Spare)
  OBVIOUS
<1>2. PICK s \in [1 .. n -> Spare] : FreeList(n, s)
  BY <1>1 DEF NothingLeaks
<1>3. s \in [1 .. n -> Spare'] /\ FreeList(n, s)'
  BY <1>2 DEF FreeList
<1>4. Cardinality(Spare') = n
  BY <1>1
<1> QED
  BY <1>3, <1>4 DEF NothingLeaks

LEMMA PopList ==
  ASSUME PInv, NothingLeaks, head # NULL,
         head \in Spare, Spare' = Spare \ {head}, head' = next[head],
         \A e \in Spare' : next'[e] = next[e]
  PROVE  NothingLeaks'
<1>1. PICK n \in Nat : n = Cardinality(Spare)
  BY SpareFinite
<1>2. PICK s \in [1 .. n -> Spare] : FreeList(n, s)
  BY <1>1 DEF NothingLeaks
<1> DEFINE r == [i \in 1 .. n - 1 |-> s[i + 1]]
<1>3. n \in Nat \ {0} /\ s[1] = head
  BY <1>2 DEF FreeList
<1>4. \A i \in 1 .. n : i # 1 => s[i] # head
  <2> SUFFICES ASSUME NEW i \in 1 .. n, i # 1 PROVE s[i] # head
    OBVIOUS
  <2>1. i - 1 \in 1 .. n /\ next[s[i - 1]] = s[i] /\ s[i - 1] \in Spare
    BY <1>2 DEF FreeList
  <2>2. s[i] \in Spare
    BY <1>2
  <2> QED
    BY <2>1, <2>2 DEF HandedOutOnce, PInv
<1>5. r \in [1 .. n - 1 -> Spare']
  BY <1>3, <1>4
<1>6. FreeList(n - 1, r)'
  <2>1. \A e \in Spare' : \E i \in 1 .. n - 1 : r[i] = e
    <3> SUFFICES ASSUME NEW e \in Spare' PROVE \E i \in 1 .. n - 1 : r[i] = e
      OBVIOUS
    <3>1. PICK i \in 1 .. n : s[i] = e
      BY <1>2 DEF FreeList
    <3>2. i # 1
      BY <1>3, <3>1
    <3>3. i - 1 \in 1 .. n - 1 /\ r[i - 1] = e
      BY <3>1, <3>2
    <3> QED
      BY <3>3
  <2>2. head' = IF n - 1 = 0 THEN NULL ELSE r[1]
    BY <1>2, <1>3 DEF FreeList
  <2>3. \A i \in 1 .. n - 1 : next'[r[i]] = IF i = n - 1 THEN NULL ELSE r[i + 1]
    <3> SUFFICES ASSUME NEW i \in 1 .. n - 1
                 PROVE  next'[r[i]] = IF i = n - 1 THEN NULL ELSE r[i + 1]
      OBVIOUS
    <3>1. r[i] = s[i + 1] /\ i + 1 \in 1 .. n /\ next'[r[i]] = next[r[i]]
      BY <1>5
    <3> QED
      BY <1>2, <3>1 DEF FreeList
  <2> QED
    BY <2>1, <2>2, <2>3 DEF FreeList
<1>7. Cardinality(Spare') = n - 1
  BY <1>1, SpareFinite, FS_RemoveElement
<1> QED
  BY <1>5, <1>6, <1>7 DEF NothingLeaks

LEMMA PushList ==
  ASSUME PInv, NothingLeaks, NEW e, e \notin Spare,
         Spare' = Spare \cup {e}, head' = e, next' = next, next[e] = head
  PROVE  NothingLeaks'
<1>1. PICK n \in Nat : n = Cardinality(Spare)
  BY SpareFinite
<1>2. PICK s \in [1 .. n -> Spare] : FreeList(n, s)
  BY <1>1 DEF NothingLeaks
<1> DEFINE r == [i \in 1 .. n + 1 |-> IF i = 1 THEN e ELSE s[i - 1]]
<1>3. r \in [1 .. n + 1 -> Spare']
  OBVIOUS
<1>4. FreeList(n + 1, r)'
  <2>1. \A f \in Spare' : \E i \in 1 .. n + 1 : r[i] = f
    <3> SUFFICES ASSUME NEW f \in Spare PROVE \E i \in 1 .. n + 1 : r[i] = f
      OBVIOUS
    <3>1. PICK i \in 1 .. n : s[i] = f
      BY <1>2 DEF FreeList
    <3>2. i + 1 \in 1 .. n + 1 /\ r[i + 1] = f
      BY <3>1
    <3> QED
      BY <3>2
  <2>2. \A i \in 1 .. n + 1 : next'[r[i]] = IF i = n + 1 THEN NULL ELSE r[i + 1]
    BY <1>2 DEF FreeList
  <2> QED
    BY <2>1, <2>2 DEF FreeList
<1>5. Cardinality(Spare') = n + 1
  BY <1>1, SpareFinite, FS_AddElement
<1> QED
  BY <1>3, <1>4, <1>5 DEF NothingLeaks

\* Where the list is empty every element is somebody's or on its way back.
LEMMA NoneSpare == ASSUME PInv, NothingLeaks, head = NULL PROVE Spare = {}
<1>1. PICK n \in Nat : n = Cardinality(Spare)
  BY SpareFinite
<1>2. PICK r \in [1 .. n -> Spare] : FreeList(n, r)
  BY <1>1 DEF NothingLeaks
<1>3. n # 0 => r[1] \in Spare
  OBVIOUS
<1>4. NULL \notin Spare
  BY PoolAssumption DEF Spare, Cut, Elements
<1>5. n = 0
  BY <1>2, <1>3, <1>4 DEF FreeList
<1> QED
  BY <1>2, <1>5 DEF FreeList

\* The new chunk is the list: there was none before.
LEMMA GrowList ==
  ASSUME PInv, NothingLeaks, NEW t \in Threads, NEW c \in 1 .. MaxChunks, Grow(t, c)
  PROVE  NothingLeaks'
<1>0. PICK m \in 1 .. MaxSize : m = ecount
  BY PoolAssumption DEF PInv, TypeOK
<1> DEFINE s == [i \in 1 .. m |-> <<c, i>>]
<1>1. Spare' = Spare \cup {e \in Elements : e[1] = c /\ e[2] <= m}
  BY <1>0, GrowSpare
<1>2. Spare = {}
  BY NoneSpare DEF Grow
<1>3. m \in Nat \ {0} /\ m <= MaxSize
  BY PoolAssumption
<1>4. \A i \in 1 .. m : <<c, i>> \in Elements
  BY <1>3, PoolAssumption DEF Elements
<1>5. s \in [1 .. m -> Spare']
  BY <1>1, <1>4
<1>6. FreeList(m, s)'
  <2>1. \A e \in Spare' : \E i \in 1 .. m : s[i] = e
    <3> SUFFICES ASSUME NEW e \in Spare' PROVE \E i \in 1 .. m : s[i] = e
      OBVIOUS
    <3>1. e[2] \in 1 .. m /\ e = <<c, e[2]>>
      BY <1>1, <1>2 DEF Elements
    <3> QED
      BY <3>1
  <2>2. head' = <<c, 1>>
    BY DEF Grow
  <2>3. \A i \in 1 .. m : next'[<<c, i>>] = Successor(c, i)
    BY <1>0, <1>3, PoolAssumption DEF Grow, Elements
  <2> QED
    BY <1>0, <1>3, <2>1, <2>2, <2>3 DEF FreeList, Successor
<1>7. Cardinality(Spare') = m
  <2>1. \A e \in Spare' : \E i \in 1 .. m : s[i] = e
    BY <1>6 DEF FreeList
  <2>2. \A i, j \in 1 .. m : s[i] = s[j] => i = j
    OBVIOUS
  <2>3. s \in Bijection(1 .. m, Spare')
    BY <1>5, <2>1, <2>2 DEF Bijection, Injection, Surjection, IsInjective
  <2> QED
    BY <1>3, <2>3, FS_CountingElements DEF ExistsBijection
<1> QED
  BY <1>5, <1>6, <1>7 DEF NothingLeaks

\* What the other steps leave alone.
LEMMA QuietSteps ==
  ASSUME PInv, NEW t \in Threads,
         \/ Alloc(t) \/ NoGrow(t) \/ TakeHead(t) \/ LinkElement(t)
         \/ \E e \in used : FreeElement(t, e)
         \/ \E n \in ChunkSizes : setec(n)
  PROVE  Spare' = Spare /\ head' = head /\ \A e \in Spare : next'[e] = next[e]
<1> USE DEF PInv
<1>1. CASE Alloc(t) \/ NoGrow(t) \/ TakeHead(t) \/ \E n \in ChunkSizes : setec(n)
  <2>1. Cut' = Cut /\ used' = used /\ head' = head /\ next' = next
    BY <1>1 DEF Alloc, NoGrow, TakeHead, setec, Cut
  <2>2. Returned' = Returned
    <3>1. \A u \in Threads : pc[u] \in {"link", "push"} <=> pc'[u] \in {"link", "push"}
      BY <1>1 DEF Alloc, NoGrow, TakeHead, setec, Goto, At, TypeOK
    <3>2. \A u \in Threads : pc[u] \in {"link", "push"} => elem'[u] = elem[u]
      BY <1>1 DEF Alloc, NoGrow, TakeHead, setec, Goto, At, TypeOK
    <3> QED
      BY <3>1, <3>2 DEF Returned
  <2> QED
    BY <2>1, <2>2 DEF Spare
<1>2. CASE LinkElement(t)
  <2>1. \A u \in Threads : u # t => pc[u] = "idle"
    BY <1>2 DEF LinkElement, At, Exclusive
  <2>2. Returned = {elem[t]} /\ Returned' = {elem[t]}
    BY <1>2, <2>1 DEF Returned, LinkElement, At, Goto, TypeOK
  <2> QED
    BY <1>2, <2>2 DEF Spare, LinkElement, TypeOK, Cut
<1>3. CASE \E e \in used : FreeElement(t, e)
  <2>1. PICK e \in used : FreeElement(t, e)
    BY <1>3
  <2>2. \A u \in Threads : pc[u] = "idle"
    BY <2>1, PoolAssumption DEF FreeElement, Exclusive, TypeOK
  <2>3. Returned = {} /\ Returned' = {e}
    BY <2>1, <2>2 DEF Returned, FreeElement, Goto, TypeOK
  <2> QED
    BY <2>1, <2>3 DEF Spare, FreeElement, Cut
<1> QED
  BY <1>1, <1>2, <1>3

LEMMA InitNothingLeaks == Init => NothingLeaks
<1> SUFFICES ASSUME Init PROVE NothingLeaks
  OBVIOUS
<1>1. Spare = {}
  BY PoolAssumption DEF Init, Spare, Cut, Elements
<1> DEFINE s == [i \in 1 .. 0 |-> NULL]
<1>2. s \in [1 .. 0 -> Spare] /\ FreeList(0, s)
  BY <1>1 DEF FreeList, Init
<1>3. Cardinality(Spare) = 0
  BY <1>1, FS_EmptySet
<1> QED
  BY <1>2, <1>3 DEF NothingLeaks

LEMMA NextNothingLeaks == PInv /\ NothingLeaks /\ [Next]_vars => NothingLeaks'
<1> SUFFICES ASSUME PInv, NothingLeaks, [Next]_vars PROVE NothingLeaks'
  OBVIOUS
<1>1. CASE UNCHANGED vars
  <2>1. Spare' = Spare /\ head' = head /\ next' = next
    BY <1>1 DEF vars, Spare, Cut, Returned
  <2> QED
    BY <2>1, SameList
<1>2. ASSUME NEW t \in Threads,
             \/ Alloc(t) \/ NoGrow(t) \/ TakeHead(t) \/ LinkElement(t)
             \/ \E e \in used : FreeElement(t, e)
      PROVE  NothingLeaks'
  BY <1>2, QuietSteps, SameList
<1>3. ASSUME NEW n \in ChunkSizes, setec(n) PROVE NothingLeaks'
  <2>1. Spare' = Spare /\ head' = head /\ next' = next
    BY <1>3 DEF setec, Spare, Cut, Returned
  <2> QED
    BY <2>1, SameList
<1>4. ASSUME NEW t \in Threads, NEW c \in 1 .. MaxChunks, Grow(t, c)
      PROVE  NothingLeaks'
  BY <1>4, GrowList
<1>5. ASSUME NEW t \in Threads, PopHead(t) PROVE NothingLeaks'
  BY <1>5, PopSpare, PopList DEF PInv
<1>6. ASSUME NEW t \in Threads, Push(t) PROVE NothingLeaks'
  BY <1>6, PushSpare, PushList DEF PInv
<1> QED
  BY <1>1, <1>2, <1>3, <1>4, <1>5, <1>6 DEF Next, Step

\* What the pool has taken it never gives back (EZPoolAllocator.cpp:20), but it
\* never loses it either: every element that nobody has is on the free list.
THEOREM NothingIsLost == Spec => []NothingLeaks
<1> QED
  BY InitNothingLeaks, NextNothingLeaks, Invariance, PTL DEF Spec

-----------------------------------------------------------------------------
(* Refinement of ElementStore *)

LEMMA InitStore == Init => Store!Init
<1> SUFFICES ASSUME Init PROVE Store!Init
  OBVIOUS
<1> QED
  BY PoolAssumption DEF Init, Store!Init, Cut, Elements

\* Whoever makes a chunk has the mutex and found no element on the list, so
\* there is none that is spare, nor one that another thread is giving back.
LEMMA GrowStore ==
  ASSUME PInv, NothingLeaks, NEW t \in Threads, NEW c \in 1 .. MaxChunks, Grow(t, c)
  PROVE  Store!Enlarge
<1> DEFINE New == {e \in Elements : e[1] = c /\ e[2] <= ecount}
<1>1. /\ Cut' = Cut \cup New /\ Cut \cap New = {} /\ <<c, 1>> \in New
      /\ Returned = {}
  BY GrowSpare
<1>2. Spare = {}
  BY NoneSpare DEF Grow
<1>3. used = Cut
  BY <1>1, <1>2 DEF Spare, PInv, TypeOK
<1>4. New \in SUBSET (Elements \ Cut) /\ New # {}
  BY <1>1
<1>5. used' = used
  BY DEF Grow
<1> HIDE DEF New
<1> QED
  BY <1>1, <1>3, <1>4, <1>5 DEF Store!Enlarge

LEMMA NextStore ==
  PInv /\ NothingLeaks /\ [Next]_vars => [Store!Next]_<<Cut, used>>
<1> SUFFICES ASSUME PInv, NothingLeaks, [Next]_vars
             PROVE  [Store!Next]_<<Cut, used>>
  OBVIOUS
<1>1. CASE UNCHANGED vars
  BY <1>1 DEF vars, Cut
<1>2. ASSUME NEW t \in Threads, Alloc(t) \/ NoGrow(t) \/ TakeHead(t)
                               \/ LinkElement(t) \/ Push(t)
      PROVE  UNCHANGED <<Cut, used>>
  BY <1>2 DEF Alloc, NoGrow, TakeHead, LinkElement, Push, Cut
<1>3. ASSUME NEW n \in ChunkSizes, setec(n) PROVE UNCHANGED <<Cut, used>>
  BY <1>3 DEF setec, Cut
<1>4. ASSUME NEW t \in Threads, NEW c \in 1 .. MaxChunks, Grow(t, c)
      PROVE  Store!Next
  BY <1>4, GrowStore DEF Store!Next
<1>5. ASSUME NEW t \in Threads, PopHead(t) PROVE Store!Next
  <2>1. head \in Spare /\ elem[t] = head
    BY <1>5, PopSpare
  <2>2. Cut' = Cut /\ used' = used \cup {head}
    BY <1>5, <2>1 DEF PopHead, Cut
  <2>3. head \in Cut \ used
    BY <2>1 DEF Spare
  <2> QED
    BY <2>2, <2>3 DEF Store!Next, Store!Take
<1>6. ASSUME NEW t \in Threads, NEW e \in used, FreeElement(t, e) PROVE Store!Next
  <2>1. Cut' = Cut /\ used' = used \ {e}
    BY <1>6 DEF FreeElement, Cut
  <2> QED
    BY <2>1 DEF Store!Next, Store!GiveBack
<1> QED
  BY <1>1, <1>2, <1>3, <1>4, <1>5, <1>6 DEF Next, Step

\* What the pool promises: every element is somebody's before a chunk is made,
\* and what is handed out nobody had.
THEOREM PoolIsStore == Spec => ImplementsElementStore
<1> QED
  BY InitStore, NextStore, Invariance, NothingIsLost, PTL
     DEF Spec, ImplementsElementStore, Store!Spec
=============================================================================
