--------------------------- MODULE EZTimerProofs ---------------------------
(***************************************************************************)
(* Proofs about EZTimer, for any width of the clock, any delays and any    *)
(* number of timers.                                                       *)
(*                                                                         *)
(* First the arithmetic, which needs no list: the count the manager keeps  *)
(* in two words is the real time of its last reading, and no timer fires   *)
(* earlier than its delay less the time the manager was behind.  Then the  *)
(* list: RemoveTimer and AddTimer keep it a chain of exactly the started   *)
(* timers in the order of their call times.  Both together show that the   *)
(* timers implement the alarm clocks of AlarmClock.                        *)
(***************************************************************************)
EXTENDS EZTimer, FiniteSetTheorems, WellFoundedInduction, TLAPS

-----------------------------------------------------------------------------
(* A number is known by its remainder modulo W and its multiple of W *)

LEMMA SmallMultiple ==
  ASSUME NEW k \in Int, NEW r \in Int, r < W, -W < r, W * k = r
  PROVE  k = 0
<1>1. CASE k >= 1
  <2>1. W * k >= W
    BY <1>1, TimerAssumption
  <2> QED
    BY <2>1, TimerAssumption
<1>2. CASE k <= -1
  <2>1. W * k <= -W
    BY <1>2, TimerAssumption
  <2> QED
    BY <2>1, TimerAssumption
<1> QED
  BY <1>1, <1>2

LEMMA Division ==
  ASSUME NEW x \in Nat
  PROVE  /\ x % W \in 0 .. W - 1 /\ x \div W \in Int
         /\ x = W * (x \div W) + (x % W)
<1>1. W \in Nat \ {0}
  BY TimerAssumption
<1>2. x % W \in 0 .. W - 1
  BY <1>1
<1>3. x \div W \in Int
  BY <1>1
<1>4. x = W * (x \div W) + (x % W)
  BY <1>1, Z3
<1> QED
  BY <1>2, <1>3, <1>4

LEMMA Remainder ==
  ASSUME NEW h \in Nat, NEW r \in 0 .. W - 1
  PROVE  (h * W + r) % W = r
<1> DEFINE x == h * W + r
<1> DEFINE q == x \div W
<1> DEFINE m == x % W
<1>1. x \in Nat
  BY TimerAssumption
<1>2. m \in 0 .. W - 1 /\ q \in Int /\ x = W * q + m
  BY <1>1, Division
<1> HIDE DEF q, m
<1>3. W * (h - q) = m - r
  BY <1>2, TimerAssumption
<1>4. h - q = 0
  BY <1>2, <1>3, SmallMultiple, TimerAssumption
<1>5. m - r = 0
  BY <1>3, <1>4, TimerAssumption
<1> QED
  BY <1>2, <1>5, TimerAssumption DEF m

\* operator+= adds, whatever carry it takes, if what is added has one word.
LEMMA PlusAdds ==
  ASSUME NEW v \in TimerValues, NEW n \in 0 .. W - 1
  PROVE  Plus(v, n) \in TimerValues /\ Millis(Plus(v, n)) = Millis(v) + n
<1>1. v.lo \in 0 .. W - 1 /\ v.hi \in Nat
  BY DEF TimerValues
<1>2. CASE v.lo + n < W
  <2>1. (v.lo + n) % W = v.lo + n
    <3>1. (0 * W + (v.lo + n)) % W = v.lo + n
      BY <1>1, <1>2, Remainder, TimerAssumption
    <3> QED
      BY <3>1, <1>1, TimerAssumption
  <2>2. Plus(v, n) = [lo |-> v.lo + n, hi |-> v.hi]
    BY <2>1, <1>1, TimerAssumption DEF Plus
  <2> QED
    BY <2>2, <1>1, <1>2, TimerAssumption DEF TimerValues, Millis
<1>3. CASE v.lo + n >= W
  <2>1. (v.lo + n) % W = v.lo + n - W
    <3>1. (1 * W + (v.lo + n - W)) % W = v.lo + n - W
      BY <1>1, <1>3, Remainder, TimerAssumption
    <3> QED
      BY <3>1, <1>1, TimerAssumption
  <2>2. Plus(v, n) = [lo |-> v.lo + n - W, hi |-> v.hi + 1]
    BY <2>1, <1>1, TimerAssumption DEF Plus
  <2>3. (v.hi + 1) * W + (v.lo + n - W) = v.hi * W + v.lo + n
    <3>1. W \in Nat /\ v.hi \in Nat /\ v.lo \in Nat /\ n \in Nat
      BY <1>1, TimerAssumption
    <3>2. (v.hi + 1) * W = v.hi * W + W
      BY <3>1
    <3>3. v.hi * W \in Nat
      BY <3>1
    <3> QED
      BY <3>1, <3>2, <3>3
  <2> QED
    BY <2>2, <2>3, <1>1, <1>3, TimerAssumption DEF TimerValues, Millis
<1> QED
  BY <1>1, <1>2, <1>3, TimerAssumption

\* The order of TimerValues, by compare, is the order of the times.
LEMMA LaterIsLater ==
  ASSUME NEW v \in TimerValues, NEW w \in TimerValues
  PROVE  Later(v, w) <=> Millis(v) > Millis(w)
<1>1. /\ v.lo \in 0 .. W - 1 /\ v.hi \in Nat
      /\ w.lo \in 0 .. W - 1 /\ w.hi \in Nat
  BY DEF TimerValues
<1>2. CASE v.hi = w.hi
  BY <1>1, <1>2, TimerAssumption DEF Later, Millis
<1>3. ASSUME NEW a \in Nat, NEW b \in Nat, NEW x \in 0 .. W - 1, NEW y \in 0 .. W - 1,
             a > b
      PROVE  a * W + x > b * W + y
  <2>1. (a - b) * W >= W
    BY <1>3, TimerAssumption
  <2> QED
    BY <1>3, <2>1, TimerAssumption
<1>4. CASE v.hi > w.hi
  BY <1>1, <1>3, <1>4 DEF Later, Millis
<1>5. CASE v.hi < w.hi
  <2>1. w.hi * W + w.lo > v.hi * W + v.lo
    BY <1>1, <1>3, <1>5
  <2>2. ~(v.hi > w.hi) /\ v.hi # w.hi
    BY <1>1, <1>5
  <2> QED
    BY <1>1, <2>1, <2>2, TimerAssumption DEF Later, Millis
<1> QED
  BY <1>1, <1>2, <1>4, <1>5

\* A reading d milliseconds after the last, d below W and not beyond the
\* margin, tells whether the clock has wrapped.
LEMMA ReadingCounts ==
  ASSUME NEW v \in TimerValues, v = cur, NEW n \in Nat, MaxLag <= WrapMargin,
         Millis(v) <= n, n - Millis(v) <= MaxLag
  PROVE  LET w == [lo |-> n % W, hi |-> v.hi + Wraps(n % W)]
         IN  w \in TimerValues /\ Millis(w) = n
<1> DEFINE d == n - Millis(v)
<1>1. /\ v.lo \in 0 .. W - 1 /\ v.hi \in Nat /\ d \in 0 .. W - 1
      /\ n = v.hi * W + (v.lo + d)
  BY TimerAssumption DEF TimerValues, Millis
<1> HIDE DEF d
<1>2. CASE v.lo + d < W
  <2>1. n % W = v.lo + d
    <3>1. v.lo + d \in 0 .. W - 1
      BY <1>1, <1>2, TimerAssumption
    <3> QED
      BY <1>1, <3>1, Remainder
  <2>2. Wraps(n % W) = 0
    BY <1>1, <2>1, TimerAssumption DEF Wraps
  <2> QED
    BY <1>1, <1>2, <2>1, <2>2, TimerAssumption DEF TimerValues, Millis
<1>3. CASE v.lo + d >= W
  <2>1. n % W = v.lo + d - W
    <3>1. n = (v.hi + 1) * W + (v.lo + d - W)
      BY <1>1, TimerAssumption
    <3>2. v.lo + d - W \in 0 .. W - 1
      BY <1>1, <1>3, TimerAssumption
    <3> QED
      BY <1>1, <3>1, <3>2, Remainder
  <2>2. Wraps(n % W) = 1
    <3>1. d <= MaxLag
      BY DEF d
    <3>2. v.lo + d - W < v.lo /\ v.lo + d - W < WrapMargin
      BY <1>1, <3>1, TimerAssumption
    <3> QED
      BY <2>1, <3>2 DEF Wraps
  <2>3. (v.hi + 1) * W + (v.lo + d - W) = v.hi * W + (v.lo + d)
    BY <1>1, TimerAssumption
  <2> QED
    BY <1>1, <1>3, <2>1, <2>2, <2>3, TimerAssumption DEF TimerValues, Millis
<1> QED
  BY <1>1, <1>2, <1>3, TimerAssumption

-----------------------------------------------------------------------------
(* The inductive invariant *)

ClockTypes ==
  /\ now \in Nat /\ polled \in Nat /\ cur \in TimerValues
  /\ callTime \in [Timers -> TimerValues]
  /\ priod \in [Timers -> 0 .. W - 1]
  /\ asked \in [Timers -> Nat]

\* The manager is behind by MaxLag at most, and so is every setting.
Lagging ==
  /\ polled <= now /\ now - polled <= MaxLag
  /\ \A t \in Timers : asked[t] <= Millis(callTime[t]) + MaxLag

ClockInv == ClockTypes /\ CountExact /\ Lagging

LEMMA MillisNat ==
  ASSUME NEW v \in TimerValues
  PROVE  Millis(v) \in Nat
BY TimerAssumption DEF TimerValues, Millis

LEMMA InitClock == Init => ClockInv
<1> SUFFICES ASSUME Init PROVE ClockInv
  OBVIOUS
<1>1. cur \in TimerValues /\ [lo |-> 0, hi |-> 0] \in TimerValues
  BY TimerAssumption DEF Init, TimerValues
<1>2. ClockTypes
  BY <1>1, TimerAssumption DEF Init, ClockTypes
<1>3. CountExact
  BY TimerAssumption DEF Init, CountExact, Millis
<1>4. Lagging
  BY TimerAssumption DEF Init, Lagging, Millis
<1> QED
  BY <1>2, <1>3, <1>4 DEF ClockInv

LEMMA PollClock ==
  ASSUME ClockInv, MaxLag <= WrapMargin, Poll
  PROVE  ClockInv'
<1>1. /\ polled' = now /\ now' = now
      /\ cur' = [lo |-> now % W, hi |-> cur.hi + Wraps(now % W)]
      /\ UNCHANGED <<callTime, priod, asked>>
  BY DEF Poll, setting
<1>2. /\ cur \in TimerValues /\ now \in Nat
      /\ Millis(cur) <= now /\ now - Millis(cur) <= MaxLag
  BY DEF ClockInv, ClockTypes, CountExact, Lagging
<1>3. cur' \in TimerValues /\ Millis(cur') = now
  BY <1>1, <1>2, ReadingCounts
<1>4. ClockTypes' /\ CountExact'
  BY <1>1, <1>3 DEF ClockInv, ClockTypes, CountExact
<1>5. Lagging'
  BY <1>1, TimerAssumption DEF ClockInv, ClockTypes, Lagging
<1> QED
  BY <1>4, <1>5 DEF ClockInv

LEMMA StartClock ==
  ASSUME ClockInv, NEW t \in Timers, NEW due \in DueTimes, NEW every \in Periods,
         Start(t, due, every)
  PROVE  ClockInv'
<1>1. /\ callTime' = [callTime EXCEPT ![t] = Plus(cur, due)]
      /\ priod' = [priod EXCEPT ![t] = every]
      /\ asked' = [asked EXCEPT ![t] = now + due]
      /\ UNCHANGED <<now, polled, cur>>
  BY DEF Start, clock
<1>2. due \in 0 .. W - 1 /\ every \in 0 .. W - 1
  BY TimerAssumption
<1>3. /\ Plus(cur, due) \in TimerValues
      /\ Millis(Plus(cur, due)) = polled + due
  BY <1>2, PlusAdds DEF ClockInv, ClockTypes, CountExact
<1>4. now + due \in Nat /\ now + due <= polled + due + MaxLag
  BY <1>2, TimerAssumption DEF ClockInv, ClockTypes, Lagging
<1>5. ClockTypes' /\ CountExact'
  BY <1>1, <1>2, <1>3, <1>4 DEF ClockInv, ClockTypes, CountExact
<1>6. Lagging'
  BY <1>1, <1>3, <1>4 DEF ClockInv, ClockTypes, Lagging
<1> QED
  BY <1>5, <1>6 DEF ClockInv

LEMMA RunClock ==
  ASSUME ClockInv, NEW t \in Timers, Run(t)
  PROVE  ClockInv'
<1>1. UNCHANGED <<now, polled, cur, priod>>
  BY DEF Run, clock, setting
<1>2. CASE UNCHANGED setting
  BY <1>1, <1>2 DEF setting, ClockInv, ClockTypes, CountExact, Lagging
<1>3. CASE /\ callTime' = [callTime EXCEPT ![t] = Plus(@, priod[t])]
           /\ asked' = [asked EXCEPT ![t] = @ + priod[t]]
  <2>1. /\ callTime[t] \in TimerValues /\ priod[t] \in 0 .. W - 1 /\ asked[t] \in Nat
        /\ asked[t] <= Millis(callTime[t]) + MaxLag
    BY DEF ClockInv, ClockTypes, Lagging
  <2>2. /\ Plus(callTime[t], priod[t]) \in TimerValues
        /\ Millis(Plus(callTime[t], priod[t])) = Millis(callTime[t]) + priod[t]
    BY <2>1, PlusAdds
  <2>3. /\ asked[t] + priod[t] \in Nat
        /\ asked[t] + priod[t] <= Millis(callTime[t]) + priod[t] + MaxLag
    BY <2>1, MillisNat, TimerAssumption
  <2>4. ClockTypes' /\ CountExact'
    BY <1>1, <1>3, <2>2, <2>3 DEF ClockInv, ClockTypes, CountExact
  <2>5. Lagging'
    BY <1>1, <1>3, <2>2, <2>3 DEF ClockInv, ClockTypes, Lagging
  <2> QED
    BY <2>4, <2>5 DEF ClockInv
<1> QED
  BY <1>2, <1>3 DEF Run

LEMMA NextClock ==
  ASSUME MaxLag <= WrapMargin, ClockInv, [Next]_vars
  PROVE  ClockInv'
<1>1. CASE UNCHANGED <<now, polled, cur, callTime, priod, asked>>
  BY <1>1 DEF ClockInv, ClockTypes, CountExact, Lagging
<1>2. CASE UNCHANGED vars
  BY <1>1, <1>2 DEF vars, clock, setting
<1>3. CASE Tick
  <2>1. /\ now' = now + 1 /\ now - polled < MaxLag
        /\ UNCHANGED <<polled, cur, callTime, priod, asked>>
    BY <1>3 DEF Tick, setting
  <2> QED
    BY <2>1, TimerAssumption DEF ClockInv, ClockTypes, CountExact, Lagging
<1>4. CASE Poll
  BY <1>4, PollClock
<1>5. CASE PollEnd \/ StopReturn
  BY <1>1, <1>5 DEF PollEnd, StopReturn, Stopped, clock, setting
<1>6. ASSUME NEW t \in Timers, Run(t)
      PROVE  ClockInv'
  BY <1>6, RunClock
<1>7. ASSUME NEW t \in Timers,
             \/ Construct(t) \/ Destruct(t) \/ Stop(t) \/ StopCall(t)
             \/ CallbackDone(t)
      PROVE  ClockInv'
  BY <1>1, <1>7 DEF Construct, Destruct, Stop, StopCall, CallbackDone, Stopped,
                    clock, setting
<1>8. ASSUME NEW t \in Timers, NEW due \in DueTimes, NEW every \in Periods,
             Start(t, due, every)
      PROVE  ClockInv'
  BY <1>8, StartClock
<1> QED
  BY <1>2, <1>3, <1>4, <1>5, <1>6, <1>7, <1>8 DEF Next, Manager

\* ClockInv holds in every reachable state, if the manager is never further
\* behind than the margin by which ThreadProc recognises a wrap.
THEOREM ClockInvariance ==
  ASSUME MaxLag <= WrapMargin
  PROVE  Spec => []ClockInv
<1>1. ClockInv /\ [Next]_vars => ClockInv'
  BY NextClock
<1> QED
  BY <1>1, InitClock, PTL DEF Spec

\* m_CurTime, kept in two words by the wrap rule of ThreadProc
\* (EZTimer.cpp:321-330), is the real time of the last reading, through any
\* number of wraps of the clock.
THEOREM CountIsExact ==
  ASSUME MaxLag <= WrapMargin
  PROVE  Spec => []CountExact
<1>1. ClockInv => CountExact
  BY DEF ClockInv
<1> QED
  BY <1>1, ClockInvariance, PTL

\* No timer fires earlier than its delay after Start less the time the manager
\* was behind, periodic timers in every round (EZTimer.cpp:103-119, 139-147, 332-335).
THEOREM TimersArePunctual ==
  ASSUME MaxLag <= WrapMargin
  PROVE  Spec => AlmostPunctual
<1>1. ASSUME ClockInv, NEW t \in Timers, Run(t)
      PROVE  now > asked[t] - MaxLag
  <2>1. Later(cur, callTime[t])
    BY <1>1 DEF Run, HeadDue
  <2>2. Millis(cur) > Millis(callTime[t])
    BY <1>1, <2>1, LaterIsLater DEF ClockInv, ClockTypes
  <2>3. Millis(callTime[t]) \in Nat
    BY <1>1, MillisNat DEF ClockInv, ClockTypes
  <2> QED
    BY <1>1, <2>2, <2>3, TimerAssumption
       DEF ClockInv, ClockTypes, CountExact, Lagging
<1>2. ClockInv /\ [Next]_vars
        => [\A t \in Timers : Run(t) => now > asked[t] - MaxLag]_vars
  BY <1>1
<1> QED
  BY <1>2, ClockInvariance, PTL DEF Spec, AlmostPunctual

-----------------------------------------------------------------------------
(* Induction over the numbers *)

\* The least-number principle, for sets.
LEMMA LeastElement ==
  ASSUME NEW T \in SUBSET Nat, T # {}
  PROVE  \E k \in T : \A l \in T : k =< l
<1>1. \A l, k \in Nat : l < k => <<l, k>> \in OpToRel(<, Nat)
  BY Zenon DEF OpToRel
<1>2. \E R : IsWellFoundedOn(R, Nat) /\ \A l, k \in Nat : l < k => <<l, k>> \in R
  BY <1>1, NatLessThanWellFounded, Zenon
<1>3. PICK R : IsWellFoundedOn(R, Nat) /\ \A l, k \in Nat : l < k => <<l, k>> \in R
  BY <1>2
<1>4. T \subseteq Nat /\ T # {}
  OBVIOUS
<1>5. IsWellFoundedOn(R, Nat)
  BY <1>3
<1>6. PICK k \in T : \A l \in T : ~(<<l, k>> \in R)
  BY ONLY <1>4, <1>5, WFMin, Zenon
<1>7. \A l \in T : ~(l < k)
  BY <1>3, <1>4, <1>6, Zenon
<1> QED
  BY <1>7

\* Induction, for sets.
LEMMA AllNumbers ==
  ASSUME NEW K \in SUBSET Nat, 0 \in K, \A k \in K : k + 1 \in K
  PROVE  K = Nat
<1> SUFFICES ASSUME Nat \ K # {} PROVE FALSE
  OBVIOUS
<1>1. PICK k \in Nat \ K : \A l \in Nat \ K : k =< l
  BY LeastElement
<1>2. k # 0 /\ k - 1 \in Nat /\ (k - 1) + 1 = k
  OBVIOUS
<1>3. k - 1 \in K
  BY <1>1, <1>2
<1> QED
  BY <1>2, <1>3

-----------------------------------------------------------------------------
(* Chains of nodes *)

\* m_pHead, m_pPrev and m_pNext are timers or NULL.
ListTypes(l) ==
  l \in [head : Timers \cup {NULL}, prev : [Timers -> Timers \cup {NULL}],
         next : [Timers -> Timers \cup {NULL}]]

\* s[1], ..., s[n] are the nodes of the list, from m_pHead on.
Chain(l, n, s) ==
  /\ n \in Nat /\ s \in [1 .. n -> Timers]
  /\ \A j, k \in 1 .. n : s[j] = s[k] => j = k
  /\ l.head = IF n = 0 THEN NULL ELSE s[1]
  /\ \A k \in 1 .. n : /\ l.next[s[k]] = IF k = n THEN NULL ELSE s[k + 1]
                       /\ l.prev[s[k]] = IF k = 1 THEN NULL ELSE s[k - 1]

\* NULL, which ends m_pPrev and m_pNext, is no timer.
LEMMA NoTimer == NULL \notin Timers
BY TimerAssumption

\* Walking m_pNext from m_pHead visits the nodes of a chain in their order
\* and then ends.
LEMMA ChainNth ==
  ASSUME NEW l, NEW n, NEW s, Chain(l, n, s)
  PROVE  \A m \in Nat : Nth(l, m) = IF m < n THEN s[m + 1] ELSE NULL
<1> DEFINE g == [i \in Nat |-> IF i < n THEN s[i + 1] ELSE NULL]
           Walks(w) == w = [i \in Nat |-> IF i = 0 THEN l.head
                                         ELSE IF w[i - 1] = NULL THEN NULL
                                         ELSE l.next[w[i - 1]]]
           w == CHOOSE w : Walks(w)
           K == {m \in Nat : w[m] = g[m]}
<1>1. /\ n \in Nat /\ s \in [1 .. n -> Timers]
      /\ l.head = IF n = 0 THEN NULL ELSE s[1]
      /\ \A k \in 1 .. n : l.next[s[k]] = IF k = n THEN NULL ELSE s[k + 1]
  BY DEF Chain
<1>2. g[0] = l.head
  BY <1>1
<1>3. ASSUME NEW i \in Nat
      PROVE  g[i + 1] = IF g[i] = NULL THEN NULL ELSE l.next[g[i]]
  <2>1. CASE i < n
    <3>1. i + 1 \in 1 .. n /\ g[i] = s[i + 1] /\ g[i] # NULL
      BY <1>1, <2>1, NoTimer
    <3>2. l.next[g[i]] = IF i + 1 = n THEN NULL ELSE s[(i + 1) + 1]
      BY <1>1, <3>1
    <3> QED
      BY <1>1, <2>1, <3>1, <3>2
  <2>2. CASE ~(i < n)
    BY <1>1, <2>2
  <2> QED
    BY <2>1, <2>2
<1>4. Walks(g)
  <2>1. \A i \in Nat : g[i] = IF i = 0 THEN l.head
                              ELSE IF g[i - 1] = NULL THEN NULL ELSE l.next[g[i - 1]]
    <3> SUFFICES ASSUME NEW i \in Nat, i # 0
                 PROVE  g[i] = IF g[i - 1] = NULL THEN NULL ELSE l.next[g[i - 1]]
      BY <1>2
    <3>1. i - 1 \in Nat /\ (i - 1) + 1 = i
      OBVIOUS
    <3> HIDE DEF g
    <3> QED
      BY <1>3, <3>1
  <2> QED
    BY <2>1
<1>5. Walks(w)
  <2> HIDE DEF Walks
  <2> QED
    BY <1>4
<1>6. \A m \in Nat : Nth(l, m) = w[m]
  BY DEF Nth
<1> HIDE DEF w
<1>7. \A i \in Nat : w[i] = IF i = 0 THEN l.head
                            ELSE IF w[i - 1] = NULL THEN NULL ELSE l.next[w[i - 1]]
  BY <1>5
<1>8. 0 \in K
  BY <1>2, <1>7
<1>9. ASSUME NEW m \in K PROVE m + 1 \in K
  <2>1. m + 1 \in Nat /\ m + 1 # 0 /\ (m + 1) - 1 = m /\ w[m] = g[m]
    OBVIOUS
  <2>2. w[m + 1] = IF w[m] = NULL THEN NULL ELSE l.next[w[m]]
    BY <1>7, <2>1
  <2> HIDE DEF g
  <2> QED
    BY <1>3, <2>1, <2>2
<1> HIDE DEF K
<1>10. K = Nat
  <2>1. K \in SUBSET Nat
    BY DEF K
  <2> QED
    BY <1>8, <1>9, <2>1, AllNumbers
<1> QED
  BY <1>6, <1>10 DEF K

\* A chain is no longer than there are timers: it visits none twice.
LEMMA ChainFits ==
  ASSUME NEW l, NEW n, NEW s, Chain(l, n, s)
  PROVE  Cardinality(Timers) \in Nat /\ n =< Cardinality(Timers)
<1>1. n \in Nat /\ s \in [1 .. n -> Timers] /\ \A j, k \in 1 .. n : s[j] = s[k] => j = k
  BY DEF Chain
<1>2. IsFiniteSet(Timers) /\ Cardinality(Timers) \in Nat
  BY TimerAssumption, FS_CardinalityType
<1>3. IsFiniteSet(1 .. n) /\ Cardinality(1 .. n) = n
  BY <1>1, FS_Interval
<1>4. ASSUME n > Cardinality(Timers) PROVE FALSE
  <2>1. \E x, y \in 1 .. n : x # y /\ s[x] = s[y]
    BY <1>1, <1>2, <1>3, <1>4, FS_PigeonHole
  <2> QED
    BY <1>1, <2>1
<1> QED
  BY <1>1, <1>2, <1>4

\* RemoveTimer takes one node out of the chain.
LEMMA RemoveChain ==
  ASSUME NEW l, ListTypes(l), NEW n, NEW s, Chain(l, n, s), NEW k \in 1 .. n
  PROVE  LET r == RemoveTimer(l, s[k])
             e == [j \in 1 .. n - 1 |-> IF j < k THEN s[j] ELSE s[j + 1]]
         IN  ListTypes(r) /\ Chain(r, n - 1, e)
<1> DEFINE r == RemoveTimer(l, s[k])
           e == [j \in 1 .. n - 1 |-> IF j < k THEN s[j] ELSE s[j + 1]]
           t == s[k]
           pp == l.prev[t]
           pn == l.next[t]
<1>1. /\ n \in Nat /\ s \in [1 .. n -> Timers]
      /\ \A i, j \in 1 .. n : s[i] = s[j] => i = j
      /\ l.head = IF n = 0 THEN NULL ELSE s[1]
      /\ \A j \in 1 .. n : /\ l.next[s[j]] = IF j = n THEN NULL ELSE s[j + 1]
                           /\ l.prev[s[j]] = IF j = 1 THEN NULL ELSE s[j - 1]
  BY DEF Chain
<1>2. /\ l.head \in Timers \cup {NULL}
      /\ l.prev \in [Timers -> Timers \cup {NULL}]
      /\ l.next \in [Timers -> Timers \cup {NULL}]
  BY DEF ListTypes
<1>3. /\ pp = IF k = 1 THEN NULL ELSE s[k - 1]
      /\ pn = IF k = n THEN NULL ELSE s[k + 1]
      /\ t \in Timers /\ NULL \notin Timers
  BY <1>1, NoTimer
<1>4. /\ r.head = IF pp = NULL THEN pn ELSE l.head
      /\ r.prev = [u \in Timers |-> IF u = pn THEN pp ELSE l.prev[u]]
      /\ r.next = [u \in Timers |-> IF u = pp THEN pn ELSE l.next[u]]
      /\ r = [head |-> r.head, prev |-> r.prev, next |-> r.next]
  BY DEF RemoveTimer
<1>5. pp \in Timers \cup {NULL} /\ pn \in Timers \cup {NULL}
  BY <1>2, <1>3
<1> HIDE DEF r, pp, pn
<1>6. ListTypes(r)
  BY <1>2, <1>4, <1>5 DEF ListTypes
<1>7. n - 1 \in Nat /\ e \in [1 .. n - 1 -> Timers]
  BY <1>1
<1>8. \A i, j \in 1 .. n - 1 : e[i] = e[j] => i = j
  BY <1>1
<1>9. r.head = IF n - 1 = 0 THEN NULL ELSE e[1]
  BY <1>1, <1>3, <1>4
<1>10. ASSUME NEW j \in 1 .. n - 1
       PROVE  /\ r.next[e[j]] = IF j = n - 1 THEN NULL ELSE e[j + 1]
              /\ r.prev[e[j]] = IF j = 1 THEN NULL ELSE e[j - 1]
  <2>1. CASE j < k - 1
    BY <2>1, <1>1, <1>3, <1>4
  <2>2. CASE j = k - 1
    BY <2>2, <1>1, <1>3, <1>4
  <2>3. CASE j = k
    BY <2>3, <1>1, <1>3, <1>4
  <2>4. CASE j > k
    <3>1. j + 1 \in 1 .. n /\ j \in 1 .. n /\ e[j] = s[j + 1]
      BY <2>4, <1>1
    <3>2. s[j + 1] \in Timers /\ s[j + 1] # pp /\ s[j + 1] # pn
      BY <2>4, <3>1, <1>1, <1>3
    <3>3. r.next[e[j]] = l.next[s[j + 1]] /\ r.prev[e[j]] = l.prev[s[j + 1]]
      BY <3>1, <3>2, <1>4
    <3>4. l.prev[s[j + 1]] = s[j] /\ e[j - 1] = s[j]
      BY <2>4, <3>1, <1>1
    <3>5. l.next[s[j + 1]] = IF j + 1 = n THEN NULL ELSE s[j + 2]
      <4>1. (j + 1) + 1 = j + 2
        OBVIOUS
      <4> QED
        BY <4>1, <3>1, <1>1
    <3>6. j # n - 1 => e[j + 1] = s[j + 2]
      BY <2>4, <3>1, <1>1
    <3> QED
      BY <2>4, <3>3, <3>4, <3>5, <3>6, <1>1
  <2> QED
    BY <2>1, <2>2, <2>3, <2>4, <1>1
<1> HIDE DEF e
<1>11. Chain(r, n - 1, e)
  BY <1>7, <1>8, <1>9, <1>10 DEF Chain
<1> QED
  BY <1>6, <1>11 DEF r, e

\* AddTimer puts a node into the chain, behind all that are due before it.
LEMMA AddChain ==
  ASSUME NEW l, ListTypes(l), NEW n, NEW s, Chain(l, n, s),
         NEW times \in [Timers -> TimerValues],
         NEW t \in Timers, \A j \in 1 .. n : s[j] # t
  PROVE  LET r == AddTimer(l, t, times)
         IN  /\ ListTypes(r)
             /\ \E k \in 1 .. n + 1 :
                  /\ Chain(r, n + 1, [j \in 1 .. n + 1 |-> IF j < k THEN s[j]
                                        ELSE IF j = k THEN t ELSE s[j - 1]])
                  /\ \A j \in 1 .. k - 1 : Later(times[t], times[s[j]])
                  /\ k =< n => ~Later(times[t], times[s[k]])
<1> DEFINE stops(m) == Nth(l, m) = NULL \/ ~Later(times[t], times[Nth(l, m)])
           Stops(m) == m >= n \/ ~Later(times[t], times[s[m + 1]])
           first(m) == m \in Positions /\ stops(m) /\ \A i \in 0 .. m - 1 : ~stops(i)
           at == CHOOSE m \in Positions : stops(m) /\ \A i \in 0 .. m - 1 : ~stops(i)
           pp == IF at = 0 THEN NULL ELSE Nth(l, at - 1)
           pn == Nth(l, at)
           r == AddTimer(l, t, times)
<1>1. /\ n \in Nat /\ s \in [1 .. n -> Timers]
      /\ \A i, j \in 1 .. n : s[i] = s[j] => i = j
      /\ l.head = IF n = 0 THEN NULL ELSE s[1]
      /\ \A j \in 1 .. n : /\ l.next[s[j]] = IF j = n THEN NULL ELSE s[j + 1]
                           /\ l.prev[s[j]] = IF j = 1 THEN NULL ELSE s[j - 1]
  BY DEF Chain
<1>2. /\ l.head \in Timers \cup {NULL}
      /\ l.prev \in [Timers -> Timers \cup {NULL}]
      /\ l.next \in [Timers -> Timers \cup {NULL}]
  BY DEF ListTypes
<1>3. \A m \in Nat : Nth(l, m) = IF m < n THEN s[m + 1] ELSE NULL
  BY ChainNth
<1>4. n =< Cardinality(Timers) /\ Cardinality(Timers) \in Nat
  BY ChainFits
<1>5. \A m \in Nat : stops(m) <=> Stops(m)
  <2> SUFFICES ASSUME NEW m \in Nat PROVE stops(m) <=> Stops(m)
    OBVIOUS
  <2>1. CASE m < n
    <3>1. Nth(l, m) = s[m + 1]
      BY <1>3, <2>1
    <3>2. s[m + 1] # NULL
      BY <1>1, <2>1, NoTimer
    <3> QED
      BY <1>1, <2>1, <3>1, <3>2
  <2>2. CASE ~(m < n)
    BY <1>1, <1>3, <2>2
  <2> QED
    BY <2>1, <2>2
<1>6. \E m \in Positions : stops(m) /\ \A i \in 0 .. m - 1 : ~stops(i)
  <2> DEFINE T == {m \in Nat : Stops(m)}
  <2>1. n \in T
    BY <1>1
  <2>2. PICK m \in T : \A i \in T : m =< i
    <3> HIDE DEF T
    <3>1. T \in SUBSET Nat
      BY DEF T
    <3> QED
      BY <2>1, <3>1, LeastElement
  <2>3. m =< n /\ m \in Nat
    BY <2>1, <2>2
  <2>4. m \in Positions
    BY <1>1, <1>4, <2>3 DEF Positions
  <2>5. \A i \in 0 .. m - 1 : i \in Nat /\ ~Stops(i)
    BY <2>2, <2>3
  <2> HIDE DEF Stops, stops
  <2> QED
    BY <1>5, <2>2, <2>3, <2>4, <2>5
<1>7. at \in Positions /\ stops(at) /\ \A i \in 0 .. at - 1 : ~stops(i)
  <2> HIDE DEF stops
  <2> QED
    BY <1>6
<1>8. at \in Nat
  BY <1>4, <1>7 DEF Positions
<1>9. /\ r.head = IF pp = NULL THEN t ELSE l.head
      /\ r.prev = [u \in Timers |-> IF u = t THEN pp ELSE IF u = pn THEN t ELSE l.prev[u]]
      /\ r.next = [u \in Timers |-> IF u = t THEN pn ELSE IF u = pp THEN t ELSE l.next[u]]
      /\ r = [head |-> r.head, prev |-> r.prev, next |-> r.next]
  BY DEF AddTimer
<1>10. PICK k : k = at + 1
  OBVIOUS
<1>11. Stops(at) /\ \A i \in 0 .. at - 1 : i \in Nat /\ ~Stops(i)
  <2> HIDE DEF stops, Stops, at
  <2> QED
    BY <1>5, <1>7, <1>8
<1>12. pn = (IF at < n THEN s[at + 1] ELSE NULL)
  <2> HIDE DEF at
  <2> QED
    BY <1>3, <1>8
<1>13. pp = (IF at = 0 THEN NULL ELSE IF at - 1 < n THEN s[at] ELSE NULL)
  <2> HIDE DEF at
  <2>1. at # 0 => at - 1 \in Nat /\ (at - 1) + 1 = at
    BY <1>8
  <2> QED
    BY <1>3, <2>1
<1> HIDE DEF at, r, pp, pn, stops
<1>14. at =< n
  <2> SUFFICES ASSUME at > n PROVE FALSE
    BY <1>1, <1>8
  <2>1. n \in 0 .. at - 1
    BY <1>1, <1>8
  <2> QED
    BY <2>1, <1>1, <1>11
<1>15. k \in 1 .. n + 1 /\ k - 1 = at
  BY <1>1, <1>8, <1>10, <1>14
<1>16. /\ pp = IF k = 1 THEN NULL ELSE s[k - 1]
       /\ pn = IF k = n + 1 THEN NULL ELSE s[k]
       /\ t \in Timers /\ NULL \notin Timers
  BY <1>1, <1>8, <1>10, <1>12, <1>13, <1>14, NoTimer
<1>17. /\ \A j \in 1 .. k - 1 : Later(times[t], times[s[j]])
       /\ k =< n => ~Later(times[t], times[s[k]])
  <2>1. ASSUME NEW j \in 1 .. k - 1
        PROVE  Later(times[t], times[s[j]])
    <3>1. j - 1 \in 0 .. at - 1 /\ (j - 1) + 1 = j
      BY <1>8, <1>15
    <3>2. ~Stops(j - 1)
      BY <3>1, <1>11
    <3> QED
      BY <3>1, <3>2
  <2>2. k =< n => ~Later(times[t], times[s[k]])
    BY <1>1, <1>8, <1>10, <1>11
  <2> QED
    BY <2>1, <2>2
<1> DEFINE e == [j \in 1 .. n + 1 |-> IF j < k THEN s[j] ELSE IF j = k THEN t ELSE s[j - 1]]
<1>18. pp \in Timers \cup {NULL} /\ pn \in Timers \cup {NULL}
  BY <1>1, <1>15, <1>16
<1> HIDE DEF Stops
<1>19. ListTypes(r)
  BY <1>2, <1>9, <1>18 DEF ListTypes
<1>20. n + 1 \in Nat /\ e \in [1 .. n + 1 -> Timers]
  BY <1>1, <1>15
<1>21. \A i, j \in 1 .. n + 1 : e[i] = e[j] => i = j
  BY <1>1, <1>15
<1>22. r.head = IF n + 1 = 0 THEN NULL ELSE e[1]
  BY <1>1, <1>9, <1>15, <1>16
<1>23. ASSUME NEW j \in 1 .. n + 1
       PROVE  /\ r.next[e[j]] = IF j = n + 1 THEN NULL ELSE e[j + 1]
              /\ r.prev[e[j]] = IF j = 1 THEN NULL ELSE e[j - 1]
  <2>1. CASE j < k - 1
    BY <2>1, <1>1, <1>9, <1>15, <1>16
  <2>2. CASE j = k - 1
    BY <2>2, <1>1, <1>9, <1>15, <1>16
  <2>3. CASE j = k
    BY <2>3, <1>1, <1>9, <1>15, <1>16
  <2>4. CASE j = k + 1
    <3>1. k \in 1 .. n /\ e[j] = s[k] /\ e[j - 1] = t
      BY <2>4, <1>1, <1>15
    <3>2. s[k] \in Timers /\ s[k] = pn /\ s[k] # pp /\ s[k] # t
      BY <3>1, <1>1, <1>15, <1>16
    <3>3. r.next[e[j]] = l.next[s[k]] /\ r.prev[e[j]] = t
      BY <3>1, <3>2, <1>9
    <3>4. l.next[s[k]] = IF k = n THEN NULL ELSE s[k + 1]
      BY <3>1, <1>1
    <3>5. j # n + 1 => e[j + 1] = s[k + 1]
      BY <2>4, <3>1, <1>1, <1>15
    <3> QED
      BY <2>4, <3>1, <3>3, <3>4, <3>5, <1>1, <1>15
  <2>5. CASE j > k + 1
    <3>1. j - 1 \in 1 .. n /\ e[j] = s[j - 1] /\ e[j - 1] = s[j - 2]
      BY <2>5, <1>1, <1>15
    <3>2. s[j - 1] \in Timers /\ s[j - 1] # pp /\ s[j - 1] # pn /\ s[j - 1] # t
      BY <2>5, <3>1, <1>1, <1>15, <1>16
    <3>3. r.next[e[j]] = l.next[s[j - 1]] /\ r.prev[e[j]] = l.prev[s[j - 1]]
      BY <3>1, <3>2, <1>9
    <3>4. l.prev[s[j - 1]] = s[j - 2]
      BY <2>5, <3>1, <1>1, <1>15
    <3>5. l.next[s[j - 1]] = IF j - 1 = n THEN NULL ELSE s[j]
      BY <2>5, <3>1, <1>1
    <3>6. j # n + 1 => e[j + 1] = s[j]
      BY <2>5, <3>1, <1>1, <1>15
    <3> QED
      BY <2>5, <3>1, <3>3, <3>4, <3>5, <3>6, <1>1, <1>15
  <2> QED
    BY <2>1, <2>2, <2>3, <2>4, <2>5, <1>1, <1>15
<1> HIDE DEF e
<1>24. Chain(r, n + 1, e)
  BY <1>20, <1>21, <1>22, <1>23 DEF Chain
<1> QED
  BY <1>15, <1>17, <1>19, <1>24 DEF r, e

-----------------------------------------------------------------------------
(* Ordered lists *)

\* The list holds the timers of A in the order of their times.
InOrder(l, A, times) ==
  \E n, s :
    /\ Chain(l, n, s) /\ A = {s[k] : k \in 1 .. n}
    /\ \A j, k \in 1 .. n : j =< k => Millis(times[s[j]]) =< Millis(times[s[k]])

\* What RemoveTimer and AddTimer do to the timers that are listed.
LEMMA Removes ==
  ASSUME NEW l, ListTypes(l), NEW A, NEW times, InOrder(l, A, times), NEW t \in A
  PROVE  LET r == RemoveTimer(l, t)
         IN  ListTypes(r) /\ InOrder(r, A \ {t}, times)
<1>1. PICK n, s :
        /\ Chain(l, n, s) /\ A = {s[k] : k \in 1 .. n}
        /\ \A j, k \in 1 .. n : j =< k => Millis(times[s[j]]) =< Millis(times[s[k]])
  BY DEF InOrder
<1>2. PICK k \in 1 .. n : t = s[k]
  BY <1>1
<1>3. /\ n \in Nat /\ s \in [1 .. n -> Timers]
      /\ \A i, j \in 1 .. n : s[i] = s[j] => i = j
  BY <1>1 DEF Chain
<1>4. PICK e : e = [j \in 1 .. n - 1 |-> IF j < k THEN s[j] ELSE s[j + 1]]
  OBVIOUS
<1>5. PICK r : r = RemoveTimer(l, t)
  OBVIOUS
<1>6. ListTypes(r) /\ Chain(r, n - 1, e)
  BY <1>1, <1>2, <1>4, <1>5, RemoveChain
<1>7. A \ {t} = {e[j] : j \in 1 .. n - 1}
  <2>1. ASSUME NEW j \in 1 .. n - 1
        PROVE  e[j] \in A \ {t}
    BY <1>1, <1>2, <1>3, <1>4
  <2>2. ASSUME NEW u \in A \ {t}
        PROVE  \E j \in 1 .. n - 1 : u = e[j]
    <3>1. PICK i \in 1 .. n : u = s[i]
      BY <1>1
    <3>2. i # k
      BY <1>2, <3>1
    <3>3. CASE i < k
      BY <3>1, <3>3, <1>3, <1>4
    <3>4. CASE i > k
      <4>1. i - 1 \in 1 .. n - 1 /\ e[i - 1] = s[i]
        BY <3>4, <1>3, <1>4
      <4> QED
        BY <3>1, <4>1
    <3> QED
      BY <3>2, <3>3, <3>4, <1>3
  <2> QED
    BY <2>1, <2>2
<1>8. ASSUME NEW i \in 1 .. n - 1, NEW j \in 1 .. n - 1, i =< j
      PROVE  Millis(times[e[i]]) =< Millis(times[e[j]])
  <2>1. PICK a \in 1 .. n, b \in 1 .. n : a =< b /\ e[i] = s[a] /\ e[j] = s[b]
    <3>1. PICK a \in 1 .. n : a = (IF i < k THEN i ELSE i + 1) /\ e[i] = s[a]
      BY <1>3, <1>4
    <3>2. PICK b \in 1 .. n : b = (IF j < k THEN j ELSE j + 1) /\ e[j] = s[b]
      BY <1>3, <1>4
    <3>3. a =< b
      BY <1>3, <1>8, <3>1, <3>2
    <3> QED
      BY <3>1, <3>2, <3>3
  <2> QED
    BY <1>1, <2>1
<1>9. InOrder(r, A \ {t}, times)
  BY <1>6, <1>7, <1>8 DEF InOrder
<1> QED
  BY <1>5, <1>6, <1>9

\* AddTimer puts one timer into an ordered list and keeps the order.
LEMMA Adds ==
  ASSUME NEW l, ListTypes(l), NEW times \in [Timers -> TimerValues],
         NEW A, InOrder(l, A, times), NEW t \in Timers \ A
  PROVE  LET r == AddTimer(l, t, times)
         IN  ListTypes(r) /\ InOrder(r, A \cup {t}, times)
<1>1. PICK n, s :
        /\ Chain(l, n, s) /\ A = {s[k] : k \in 1 .. n}
        /\ \A j, k \in 1 .. n : j =< k => Millis(times[s[j]]) =< Millis(times[s[k]])
  BY DEF InOrder
<1>2. \A j \in 1 .. n : s[j] # t
  BY <1>1
<1>3. /\ n \in Nat /\ s \in [1 .. n -> Timers]
      /\ \A i, j \in 1 .. n : s[i] = s[j] => i = j
  BY <1>1 DEF Chain
<1>4. PICK r : r = AddTimer(l, t, times)
  OBVIOUS
<1>5. /\ ListTypes(r)
      /\ \E k \in 1 .. n + 1 :
           /\ Chain(r, n + 1, [j \in 1 .. n + 1 |-> IF j < k THEN s[j]
                                 ELSE IF j = k THEN t ELSE s[j - 1]])
           /\ \A j \in 1 .. k - 1 : Later(times[t], times[s[j]])
           /\ k =< n => ~Later(times[t], times[s[k]])
  BY <1>1, <1>2, <1>4, AddChain
<1>6. PICK k \in 1 .. n + 1 :
        /\ Chain(r, n + 1, [j \in 1 .. n + 1 |-> IF j < k THEN s[j]
                              ELSE IF j = k THEN t ELSE s[j - 1]])
        /\ \A j \in 1 .. k - 1 : Later(times[t], times[s[j]])
        /\ k =< n => ~Later(times[t], times[s[k]])
  BY <1>5
<1>7. PICK e : e = [j \in 1 .. n + 1 |-> IF j < k THEN s[j]
                                         ELSE IF j = k THEN t ELSE s[j - 1]]
  OBVIOUS
<1>8. A \cup {t} = {e[j] : j \in 1 .. n + 1}
  <2>1. ASSUME NEW j \in 1 .. n + 1
        PROVE  e[j] \in A \cup {t}
    BY <1>1, <1>3, <1>7
  <2>2. ASSUME NEW u \in A
        PROVE  \E j \in 1 .. n + 1 : u = e[j]
    <3>1. PICK i \in 1 .. n : u = s[i]
      BY <1>1
    <3>2. CASE i < k
      BY <3>1, <3>2, <1>3, <1>7
    <3>3. CASE i >= k
      <4>1. i + 1 \in 1 .. n + 1 /\ e[i + 1] = s[i]
        BY <3>3, <1>3, <1>7
      <4> QED
        BY <3>1, <4>1
    <3> QED
      BY <3>2, <3>3, <1>3
  <2>3. t = e[k]
    BY <1>7
  <2> QED
    BY <2>1, <2>2, <2>3
<1>9. ASSUME NEW j \in 1 .. n
      PROVE  /\ times[s[j]] \in TimerValues /\ Millis(times[s[j]]) \in Int
             /\ j < k => Millis(times[s[j]]) =< Millis(times[t])
             /\ j >= k => Millis(times[t]) =< Millis(times[s[j]])
  <2>1. /\ times[s[j]] \in TimerValues /\ times[t] \in TimerValues
        /\ Millis(times[s[j]]) \in Nat /\ Millis(times[t]) \in Nat
    BY <1>3, MillisNat
  <2>2. ASSUME j < k PROVE Millis(times[s[j]]) =< Millis(times[t])
    <3>1. Later(times[t], times[s[j]])
      BY <1>3, <1>6, <2>2
    <3>2. Millis(times[t]) > Millis(times[s[j]])
      BY <2>1, <3>1, LaterIsLater
    <3> QED
      BY <2>1, <3>2
  <2>3. ASSUME j >= k PROVE Millis(times[t]) =< Millis(times[s[j]])
    <3>1. k \in 1 .. n
      BY <1>3, <2>3
    <3>2. /\ times[s[k]] \in TimerValues /\ Millis(times[s[k]]) \in Nat
          /\ ~Later(times[t], times[s[k]])
      BY <1>3, <1>6, <3>1, MillisNat
    <3>3. ~(Millis(times[t]) > Millis(times[s[k]]))
      BY <2>1, <3>2, LaterIsLater
    <3>4. Millis(times[s[k]]) =< Millis(times[s[j]])
      BY <1>1, <2>3, <3>1
    <3> QED
      BY <2>1, <3>2, <3>3, <3>4
  <2> QED
    BY <2>1, <2>2, <2>3
<1>10. Millis(times[t]) \in Int
  BY MillisNat
<1>11. ASSUME NEW i \in 1 .. n + 1, NEW j \in 1 .. n + 1, i =< j
       PROVE  Millis(times[e[i]]) =< Millis(times[e[j]])
  <2>1. CASE i = k /\ j = k
    BY <2>1, <1>7, <1>10
  <2>2. CASE i = k /\ j # k
    <3>1. j - 1 \in 1 .. n /\ j - 1 >= k /\ e[j] = s[j - 1] /\ e[i] = t
      BY <2>2, <1>3, <1>7, <1>11
    <3> QED
      BY <3>1, <1>9
  <2>3. CASE i # k /\ j = k
    <3>1. i \in 1 .. n /\ i < k /\ e[i] = s[i] /\ e[j] = t
      BY <2>3, <1>3, <1>7, <1>11
    <3> QED
      BY <3>1, <1>9
  <2>4. CASE i # k /\ j # k
    <3>1. PICK a \in 1 .. n : a = (IF i < k THEN i ELSE i - 1) /\ e[i] = s[a]
      BY <2>4, <1>3, <1>7
    <3>2. PICK b \in 1 .. n : b = (IF j < k THEN j ELSE j - 1) /\ e[j] = s[b]
      BY <2>4, <1>3, <1>7
    <3>3. a =< b
      BY <2>4, <1>3, <1>11, <3>1, <3>2
    <3> QED
      BY <1>1, <3>1, <3>2, <3>3
  <2> QED
    BY <2>1, <2>2, <2>3, <2>4
<1>12. n + 1 \in Nat /\ Chain(r, n + 1, e)
  BY <1>3, <1>6, <1>7
<1>13. InOrder(r, A \cup {t}, times)
  BY <1>8, <1>11, <1>12 DEF InOrder
<1> QED
  BY <1>4, <1>5, <1>13

\* Only the times of listed timers matter.
LEMMA SameOrder ==
  ASSUME NEW l, NEW A, NEW times, NEW times2, InOrder(l, A, times),
         \A u \in A : times2[u] = times[u]
  PROVE  InOrder(l, A, times2)
<1>1. PICK n, s :
        /\ Chain(l, n, s) /\ A = {s[k] : k \in 1 .. n}
        /\ \A j, k \in 1 .. n : j =< k => Millis(times[s[j]]) =< Millis(times[s[k]])
  BY DEF InOrder
<1>2. \A j \in 1 .. n : times2[s[j]] = times[s[j]]
  BY <1>1
<1>3. \A j, k \in 1 .. n : j =< k => Millis(times2[s[j]]) =< Millis(times2[s[k]])
  BY <1>1, <1>2
<1> QED
  BY <1>1, <1>3 DEF InOrder

\* m_pHead is NULL or a timer that is due first.
LEMMA HeadIsFirst ==
  ASSUME NEW l, NEW A, NEW times, InOrder(l, A, times)
  PROVE  /\ l.head = NULL => A = {}
         /\ l.head # NULL => /\ l.head \in A
                             /\ \A u \in A : Millis(times[l.head]) =< Millis(times[u])
<1>1. PICK n, s :
        /\ Chain(l, n, s) /\ A = {s[k] : k \in 1 .. n}
        /\ \A j, k \in 1 .. n : j =< k => Millis(times[s[j]]) =< Millis(times[s[k]])
  BY DEF InOrder
<1>2. n \in Nat /\ s \in [1 .. n -> Timers] /\ l.head = IF n = 0 THEN NULL ELSE s[1]
  BY <1>1 DEF Chain
<1>3. CASE n = 0
  BY <1>1, <1>2, <1>3
<1>4. CASE n # 0
  <2>1. 1 \in 1 .. n /\ l.head = s[1] /\ s[1] # NULL
    BY <1>2, <1>4, NoTimer
  <2> QED
    BY <1>1, <1>2, <2>1
<1> QED
  BY <1>3, <1>4

-----------------------------------------------------------------------------
(* The inductive invariant of the list *)

\* No callback of Stop(TRUE) stops or destroys its own timer, which nothing in
\* EZTimer.cpp:93-137 keeps it from.
NoSelfStop == ~SelfStops

\* The manager and callbacks of Stop(TRUE) exclude each other, and the timers
\* that are being stopped are started until their Stop is over.
Callers ==
  /\ polling => stopping = <<>>
  /\ \A i \in 1 .. Len(stopping) : stopping[i] \in Armed
  /\ \A i, j \in 1 .. Len(stopping) : stopping[i] = stopping[j] => i = j

\* The inductive invariant of the list.
TimerInv == TypeOK /\ Callers /\ InOrder(list, Armed, callTime)

\* The kinds of the variables the list is about.
LEMMA ArmedFact ==
  ASSUME TypeOK
  PROVE  /\ Armed \subseteq Timers /\ ListTypes(list)
         /\ \A t \in alive : t \in Armed <=> started[t]
         /\ cur \in TimerValues
BY DEF TypeOK, Armed, ListTypes

\* The Stop(TRUE) calls in progress are a sequence of timers.
LEMMA StoppingFact ==
  ASSUME TypeOK
  PROVE  /\ Len(stopping) \in Nat
         /\ \A i \in 1 .. Len(stopping) : stopping[i] \in Timers
         /\ \A t : InStop(t) <=> \E i \in 1 .. Len(stopping) : stopping[i] = t
BY DEF TypeOK, InStop

\* In the initial states nothing is listed.
LEMMA InitTimer == Init => TimerInv
<1> SUFFICES ASSUME Init PROVE TimerInv
  OBVIOUS
<1>1. cur \in TimerValues /\ [lo |-> 0, hi |-> 0] \in TimerValues
  BY TimerAssumption DEF Init, TimerValues
<1>2. TypeOK
  <2>1. Epoch \in Nat
    BY TimerAssumption
  <2>2. /\ now \in Nat /\ polled \in Nat /\ cur \in TimerValues
        /\ callTime \in [Timers -> TimerValues]
        /\ priod \in [Timers -> Periods \cup {0}] /\ asked \in [Timers -> Nat]
    BY <1>1, <2>1 DEF Init
  <2>3. list \in [head : Timers \cup {NULL}, prev : [Timers -> Timers \cup {NULL}],
                  next : [Timers -> Timers \cup {NULL}]]
    BY DEF Init
  <2>4. /\ alive \subseteq Timers /\ busy \subseteq Timers
        /\ started \in [Timers -> BOOLEAN] /\ called \in [Timers -> BOOLEAN]
        /\ polling \in BOOLEAN /\ rung \in Timers \cup {NULL}
    BY DEF Init
  <2>5. stopping \in Seq(Timers)
    BY DEF Init
  <2> QED
    BY <2>2, <2>3, <2>4, <2>5 DEF TypeOK
<1>3. Armed = {} /\ Callers
  BY DEF Init, Armed, Callers
<1>4. InOrder(list, {}, callTime)
  <2>1. PICK s : s = [j \in 1 .. 0 |-> CHOOSE u \in Timers : TRUE]
    OBVIOUS
  <2>2. Chain(list, 0, s)
    BY <2>1 DEF Init, Chain
  <2>3. {} = {s[k] : k \in 1 .. 0}
    OBVIOUS
  <2> QED
    BY <2>2, <2>3 DEF InOrder
<1> QED
  BY <1>2, <1>3, <1>4 DEF TimerInv

\* Steps that start, stop, set and destroy nothing.
LEMMA QuietTimer ==
  ASSUME TimerInv, TypeOK', UNCHANGED <<list, Armed, callTime>>, Callers'
  PROVE  TimerInv'
BY DEF TimerInv

\* The constructor links nothing.
LEMMA ConstructTimer ==
  ASSUME TimerInv, NEW t \in Timers, Construct(t)
  PROVE  TimerInv' /\ UNCHANGED <<list, Armed, callTime>>
<1>1. /\ t \notin alive /\ alive' = alive \cup {t}
      /\ started' = [started EXCEPT ![t] = FALSE]
      /\ UNCHANGED <<list, callTime, polling, stopping>>
  BY DEF Construct, setting
<1>2. TypeOK'
  BY DEF TimerInv, TypeOK, Construct, clock, setting
<1>3. Armed' = Armed
  BY <1>1 DEF Armed, TimerInv, TypeOK
<1>4. Callers'
  BY <1>1, <1>3 DEF TimerInv, Callers
<1> QED
  BY <1>1, <1>2, <1>3, <1>4, QuietTimer

\* The destructor unlinks the timer if it is started (EZTimer.cpp:93-101).
LEMMA DestructTimer ==
  ASSUME NoSelfStop, TimerInv, NEW t \in Timers, Destruct(t)
  PROVE  TimerInv' /\ Armed' = Armed \ {t} /\ UNCHANGED callTime
<1>1. /\ ~polling /\ t \in alive /\ ~InStop(t) /\ alive' = alive \ {t}
      /\ list' = IF started[t] THEN RemoveTimer(list, t) ELSE list
      /\ rung' = NULL /\ busy' = busy \ {t}
      /\ UNCHANGED <<now, polled, cur, started, called, callTime, priod, asked,
                     polling, stopping>>
  BY DEF Destruct, CanCall, clock, setting, MayStop, NoSelfStop
<1>2. Armed' = Armed \ {t}
  BY <1>1 DEF Armed
<1>3. ListTypes(list') /\ InOrder(list', Armed', callTime)
  <2>1. CASE started[t]
    <3>1. t \in Armed
      BY <1>1, <2>1 DEF Armed
    <3>2. list' = RemoveTimer(list, t)
      BY <1>1, <2>1
    <3> QED
      BY <3>1, <3>2, <1>2, ArmedFact, Removes DEF TimerInv
  <2>2. CASE ~started[t]
    <3>1. t \notin Armed /\ list' = list
      BY <1>1, <2>2 DEF Armed
    <3>2. Armed' = Armed
      BY <3>1, <1>2
    <3> QED
      BY <3>1, <3>2, ArmedFact DEF TimerInv
  <2> QED
    BY <2>1, <2>2
<1>4. TypeOK'
  BY <1>1, <1>3 DEF TimerInv, TypeOK, ListTypes
<1>5. Callers'
  <2>1. \A i \in 1 .. Len(stopping) : stopping[i] # t
    BY <1>1, StoppingFact DEF TimerInv
  <2> QED
    BY <2>1, <1>1, <1>2 DEF TimerInv, Callers
<1> QED
  BY <1>1, <1>2, <1>3, <1>4, <1>5 DEF TimerInv

\* Start unlinks a timer that is started and links it anew
\* (EZTimer.cpp:103-120).
LEMMA StartTimer ==
  ASSUME TimerInv, NEW t \in Timers, NEW due \in DueTimes, NEW every \in Periods,
         Start(t, due, every)
  PROVE  TimerInv' /\ Armed' = Armed \cup {t}
<1>1. /\ ~polling /\ t \in alive
      /\ callTime' = [callTime EXCEPT ![t] = Plus(cur, due)]
      /\ priod' = [priod EXCEPT ![t] = every]
      /\ asked' = [asked EXCEPT ![t] = now + due]
      /\ called' = [called EXCEPT ![t] = FALSE]
      /\ list' = AddTimer(Unlinked(t), t, callTime')
      /\ started' = [started EXCEPT ![t] = TRUE]
      /\ rung' = NULL
      /\ UNCHANGED <<now, polled, cur, alive, busy, polling, stopping>>
  BY DEF Start, CanCall, clock
<1>2. due \in 0 .. W - 1 /\ due \in Nat
  BY TimerAssumption
<1>3. Plus(cur, due) \in TimerValues
  BY <1>2, PlusAdds, ArmedFact DEF TimerInv
<1>4. callTime' \in [Timers -> TimerValues]
  BY <1>1, <1>3 DEF TimerInv, TypeOK
<1>5. Armed' = Armed \cup {t}
  BY <1>1 DEF Armed, TimerInv, TypeOK
<1>6. ListTypes(Unlinked(t)) /\ InOrder(Unlinked(t), Armed \ {t}, callTime)
  <2>1. CASE started[t]
    <3>1. t \in Armed
      BY <1>1, <2>1 DEF Armed
    <3>2. Unlinked(t) = RemoveTimer(list, t)
      BY <2>1 DEF Unlinked
    <3> QED
      BY <3>1, <3>2, ArmedFact, Removes DEF TimerInv
  <2>2. CASE ~started[t]
    <3>1. t \notin Armed /\ Unlinked(t) = list
      BY <1>1, <2>2 DEF Armed, Unlinked
    <3>2. Armed \ {t} = Armed
      BY <3>1
    <3> QED
      BY <3>1, <3>2, ArmedFact DEF TimerInv
  <2> QED
    BY <2>1, <2>2
<1>7. InOrder(Unlinked(t), Armed \ {t}, callTime')
  <2>1. \A u \in Armed \ {t} : callTime'[u] = callTime[u]
    BY <1>1, ArmedFact DEF TimerInv, TypeOK
  <2> QED
    BY <2>1, <1>6, SameOrder
<1>8. ListTypes(list') /\ InOrder(list', Armed', callTime')
  <2>1. t \in Timers \ (Armed \ {t}) /\ (Armed \ {t}) \cup {t} = Armed'
    BY <1>5
  <2>2. PICK A : A = Armed \ {t}
    OBVIOUS
  <2>3. PICK l : l = Unlinked(t)
    OBVIOUS
  <2>4. PICK times : times = callTime'
    OBVIOUS
  <2>5. LET r == AddTimer(l, t, times)
        IN  ListTypes(r) /\ InOrder(r, A \cup {t}, times)
    BY <1>4, <1>6, <1>7, <2>1, <2>2, <2>3, <2>4, Adds
  <2> QED
    BY <1>1, <2>1, <2>2, <2>3, <2>4, <2>5
<1>9. TypeOK'
  <2>1. now + due \in Nat
    BY <1>2 DEF TimerInv, TypeOK
  <2> QED
    BY <2>1, <1>1, <1>4, <1>8 DEF TimerInv, TypeOK, ListTypes
<1>10. Callers'
  BY <1>1, <1>5 DEF TimerInv, Callers
<1> QED
  BY <1>5, <1>8, <1>9, <1>10 DEF TimerInv

\* The end of Stop unlinks the timer (EZTimer.cpp:135-137).
LEMMA StoppedTimer ==
  ASSUME TimerInv, NEW t \in Armed, Stopped(t)
  PROVE  /\ Armed' = Armed \ {t} /\ UNCHANGED <<callTime, polling>>
         /\ ListTypes(list') /\ InOrder(list', Armed', callTime')
         /\ stopping' \in Seq(Timers) => TypeOK'
<1>1. /\ list' = RemoveTimer(list, t)
      /\ started' = [started EXCEPT ![t] = FALSE]
      /\ rung' = NULL
      /\ UNCHANGED <<now, polled, cur, alive, called, callTime, priod, asked,
                     busy, polling>>
  BY DEF Stopped, clock, setting
<1>2. Armed' = Armed \ {t}
  BY <1>1 DEF Armed, TimerInv, TypeOK
<1>3. ListTypes(list') /\ InOrder(list', Armed', callTime')
  BY <1>1, <1>2, ArmedFact, Removes DEF TimerInv
<1>4. stopping' \in Seq(Timers) => TypeOK'
  BY <1>1, <1>3 DEF TimerInv, TypeOK, ListTypes
<1> QED
  BY <1>1, <1>2, <1>3, <1>4

\* Stop without the callback.
LEMMA StopTimer ==
  ASSUME NoSelfStop, TimerInv, NEW t \in Timers, Stop(t)
  PROVE  TimerInv' /\ Armed' = Armed \ {t}
<1>1. t \in Armed /\ Stopped(t) /\ stopping' = stopping /\ ~InStop(t)
  BY DEF Stop, Armed, MayStop, NoSelfStop
<1>2. /\ Armed' = Armed \ {t} /\ UNCHANGED <<callTime, polling>>
      /\ InOrder(list', Armed', callTime')
      /\ stopping' \in Seq(Timers) => TypeOK'
  BY <1>1, StoppedTimer
<1>3. TypeOK'
  BY <1>1, <1>2 DEF TimerInv, TypeOK
<1>4. Callers'
  <2>1. \A i \in 1 .. Len(stopping) : stopping[i] # t
    BY <1>1, StoppingFact DEF TimerInv
  <2> QED
    BY <2>1, <1>1, <1>2 DEF TimerInv, Callers
<1> QED
  BY <1>2, <1>3, <1>4 DEF TimerInv

\* Stop(TRUE) calls the callback with the timer still in the list.
LEMMA StopCallTimer ==
  ASSUME NoSelfStop, TimerInv, NEW t \in Timers, StopCall(t)
  PROVE  TimerInv' /\ UNCHANGED <<list, Armed, callTime>>
<1>1. /\ ~polling /\ t \in Armed /\ ~InStop(t) /\ stopping' = <<t>> \o stopping
      /\ UNCHANGED <<list, alive, started, callTime, polling>>
  BY DEF StopCall, CanCall, setting, Armed, MayStop, NoSelfStop
<1>2. stopping \in Seq(Timers)
  BY DEF TimerInv, TypeOK
<1>3. /\ stopping' \in Seq(Timers) /\ Len(stopping') = Len(stopping) + 1
      /\ stopping'[1] = t
      /\ \A i \in 2 .. Len(stopping') : stopping'[i] = stopping[i - 1]
  BY <1>1, <1>2
<1>4. TypeOK'
  BY <1>3 DEF TimerInv, TypeOK, StopCall, clock, setting
<1>5. Armed' = Armed
  BY <1>1 DEF Armed
<1>6. Callers'
  <2>1. \A i \in 1 .. Len(stopping) : stopping[i] # t
    BY <1>1, StoppingFact DEF TimerInv
  <2>2. Len(stopping) \in Nat
    BY <1>2
  <2>3. ASSUME NEW i \in 1 .. Len(stopping')
        PROVE  stopping'[i] \in Armed
    <3>1. CASE i = 1
      BY <3>1, <1>1, <1>3
    <3>2. CASE i # 1
      BY <3>2, <1>3, <2>2 DEF TimerInv, Callers
    <3> QED
      BY <3>1, <3>2
  <2>4. ASSUME NEW i \in 1 .. Len(stopping'), NEW j \in 1 .. Len(stopping'),
               stopping'[i] = stopping'[j]
        PROVE  i = j
    <3>1. \A k \in 2 .. Len(stopping') : k - 1 \in 1 .. Len(stopping)
      BY <1>3, <2>2
    <3>2. CASE i = 1
      BY <3>1, <3>2, <2>1, <2>4, <1>3
    <3>3. CASE j = 1
      BY <3>1, <3>3, <2>1, <2>4, <1>3
    <3>4. CASE i # 1 /\ j # 1
      <4>1. i - 1 \in 1 .. Len(stopping) /\ j - 1 \in 1 .. Len(stopping)
        BY <3>1, <3>4
      <4>2. stopping[i - 1] = stopping[j - 1]
        BY <3>4, <1>3, <2>4
      <4>3. i - 1 = j - 1
        BY <4>1, <4>2 DEF TimerInv, Callers
      <4> QED
        BY <4>3
    <3> QED
      BY <3>2, <3>3, <3>4
  <2> QED
    BY <2>3, <2>4, <1>1, <1>5 DEF Callers
<1> QED
  BY <1>1, <1>4, <1>5, <1>6, QuietTimer

\* After the callback Stop(TRUE) unlinks the timer, which is still listed
\* whatever the callback did to the others.
LEMMA StopReturnTimer ==
  ASSUME TimerInv, StopReturn
  PROVE  \E t \in Armed : TimerInv' /\ Stopped(t) /\ Armed' = Armed \ {t}
<1>1. PICK t : t = Head(stopping)
  OBVIOUS
<1>2. stopping \in Seq(Timers) /\ stopping # <<>> /\ stopping' = Tail(stopping)
  BY DEF TimerInv, TypeOK, StopReturn
<1>3. /\ Len(stopping) \in Nat /\ 1 \in 1 .. Len(stopping) /\ t = stopping[1]
      /\ stopping' \in Seq(Timers) /\ Len(stopping') = Len(stopping) - 1
      /\ \A i \in 1 .. Len(stopping') : stopping'[i] = stopping[i + 1]
  BY <1>1, <1>2
<1>4. t \in Armed /\ Stopped(t)
  BY <1>1, <1>3 DEF TimerInv, Callers, StopReturn
<1>5. /\ Armed' = Armed \ {t} /\ UNCHANGED <<callTime, polling>>
      /\ InOrder(list', Armed', callTime')
      /\ stopping' \in Seq(Timers) => TypeOK'
  BY <1>4, StoppedTimer
<1>6. Callers'
  <2>1. polling' => stopping' = <<>>
    BY <1>2, <1>5 DEF TimerInv, Callers
  <2>2. \A i \in 1 .. Len(stopping') : i + 1 \in 1 .. Len(stopping) /\ i + 1 # 1
    BY <1>3
  <2>3. \A i \in 1 .. Len(stopping') : stopping'[i] \in Armed'
    BY <2>2, <1>3, <1>5 DEF TimerInv, Callers
  <2>4. ASSUME NEW i \in 1 .. Len(stopping'), NEW j \in 1 .. Len(stopping'),
               stopping'[i] = stopping'[j]
        PROVE  i = j
    <3>1. stopping[i + 1] = stopping[j + 1]
      BY <1>3, <2>4
    <3>2. i + 1 = j + 1
      BY <2>2, <3>1 DEF TimerInv, Callers
    <3> QED
      BY <3>2, <1>3
  <2> QED
    BY <2>1, <2>3, <2>4 DEF Callers
<1> QED
  BY <1>3, <1>4, <1>5, <1>6 DEF TimerInv

\* run unlinks the head, and links it again if it is periodic
\* (EZTimer.cpp:139-154).
LEMMA RunTimer ==
  ASSUME TimerInv, NEW t \in Timers, Run(t)
  PROVE  /\ TimerInv'
         /\ Armed' = IF priod[t] = 0 THEN Armed \ {t} ELSE Armed
<1>1. /\ polling /\ t = list.head /\ t # NULL
      /\ UNCHANGED <<now, polled, cur, alive, polling, stopping, priod>>
      /\ busy' = busy \cup {t} /\ rung' = t
  BY DEF Run, HeadDue, clock, setting
<1>2. t \in Armed
  BY <1>1, HeadIsFirst DEF TimerInv
<1>3. stopping' = <<>> /\ stopping = <<>>
  BY <1>1 DEF TimerInv, Callers
<1>4. Callers'
  BY <1>1, <1>3 DEF Callers
<1>5. LET r == RemoveTimer(list, t)
      IN  ListTypes(r) /\ InOrder(r, Armed \ {t}, callTime)
  BY <1>2, ArmedFact, Removes DEF TimerInv
<1>6. CASE priod[t] = 0
  <2>1. /\ list' = RemoveTimer(list, t)
        /\ started' = [started EXCEPT ![t] = FALSE]
        /\ called' = [called EXCEPT ![t] = TRUE]
        /\ UNCHANGED <<callTime, asked>>
    BY <1>6 DEF Run, setting
  <2>2. Armed' = Armed \ {t}
    BY <1>1, <2>1 DEF Armed, TimerInv, TypeOK
  <2>3. ListTypes(list') /\ InOrder(list', Armed', callTime')
    BY <1>5, <2>1, <2>2
  <2>4. TypeOK'
    BY <1>1, <2>1, <2>3 DEF TimerInv, TypeOK, ListTypes
  <2> QED
    BY <1>4, <1>6, <2>2, <2>3, <2>4 DEF TimerInv
<1>7. CASE priod[t] # 0
  <2>1. /\ callTime' = [callTime EXCEPT ![t] = Plus(@, priod[t])]
        /\ list' = AddTimer(RemoveTimer(list, t), t, callTime')
        /\ asked' = [asked EXCEPT ![t] = @ + priod[t]]
        /\ UNCHANGED <<started, called>>
    BY <1>7 DEF Run
  <2>2. Armed' = Armed
    BY <1>1, <2>1 DEF Armed
  <2>3. priod[t] \in 0 .. W - 1 /\ callTime[t] \in TimerValues /\ asked[t] \in Nat
    <3>1. priod[t] \in Periods \cup {0}
      BY DEF TimerInv, TypeOK
    <3>2. priod[t] \in 0 .. W - 1
      <4>1. Periods \subseteq 0 .. W - 1 /\ 0 \in 0 .. W - 1
        BY TimerAssumption
      <4> QED
        BY <3>1, <4>1
    <3> QED
      BY <3>2 DEF TimerInv, TypeOK
  <2>4. callTime' \in [Timers -> TimerValues]
    BY <2>1, <2>3, PlusAdds DEF TimerInv, TypeOK
  <2>5. asked[t] + priod[t] \in Nat
    BY <2>3
  <2>6. PICK A : A = Armed \ {t}
    OBVIOUS
  <2>7. PICK l : l = RemoveTimer(list, t)
    OBVIOUS
  <2>8. PICK times : times = callTime'
    OBVIOUS
  <2>9. InOrder(l, A, times)
    <3>1. \A u \in A : times[u] = callTime[u]
      BY <2>1, <2>6, <2>8, ArmedFact DEF TimerInv, TypeOK
    <3> QED
      BY <1>5, <2>6, <2>7, <3>1, SameOrder
  <2>10. LET r == AddTimer(l, t, times)
         IN  ListTypes(r) /\ InOrder(r, A \cup {t}, times)
    BY <1>5, <2>4, <2>6, <2>7, <2>8, <2>9, Adds
  <2>11. A \cup {t} = Armed'
    BY <1>2, <2>2, <2>6
  <2>12. ListTypes(list') /\ InOrder(list', Armed', callTime')
    BY <2>1, <2>7, <2>8, <2>10, <2>11
  <2>13. TypeOK'
    BY <1>1, <2>1, <2>4, <2>5, <2>12 DEF TimerInv, TypeOK, ListTypes
  <2> QED
    BY <1>4, <1>7, <2>2, <2>12, <2>13 DEF TimerInv
<1> QED
  BY <1>6, <1>7

\* Reading the clock and going back to sleep leave the list alone.
LEMMA PollTimer ==
  ASSUME TimerInv, Poll
  PROVE  TimerInv' /\ UNCHANGED <<list, Armed, callTime>>
<1>1. /\ stopping = <<>> /\ polled' = now /\ polling' = TRUE /\ rung' = NULL
      /\ cur' = [lo |-> now % W, hi |-> cur.hi + Wraps(now % W)]
      /\ UNCHANGED <<now, list, alive, started, called, callTime, priod, asked,
                     busy, stopping>>
  BY DEF Poll, Unlocked, setting
<1>2. cur' \in TimerValues
  <2>1. now % W \in 0 .. W - 1 /\ Wraps(now % W) \in Nat /\ cur.hi \in Nat
    BY Division DEF TimerInv, TypeOK, TimerValues, Wraps
  <2> QED
    BY <2>1, <1>1 DEF TimerValues
<1>3. TypeOK'
  BY <1>1, <1>2 DEF TimerInv, TypeOK
<1>4. Armed' = Armed
  BY <1>1 DEF Armed
<1>5. Callers'
  BY <1>1 DEF Callers
<1> QED
  BY <1>1, <1>3, <1>4, <1>5, QuietTimer

\* So do the clock and the end of a callback.
LEMMA OtherTimer ==
  ASSUME TimerInv,
         Tick \/ PollEnd \/ (\E t \in Timers : CallbackDone(t)) \/ UNCHANGED vars
  PROVE  TimerInv' /\ UNCHANGED <<list, Armed, callTime>>
<1>1. UNCHANGED <<list, alive, started, called, callTime, priod, asked, stopping>>
  BY DEF Tick, PollEnd, CallbackDone, vars, setting
<1>2. polling' => polling
  BY DEF Tick, PollEnd, CallbackDone, vars
<1>3. TypeOK'
  <2>1. CASE Tick
    BY <2>1 DEF Tick, TimerInv, TypeOK, setting
  <2>2. CASE PollEnd
    BY <2>2 DEF PollEnd, TimerInv, TypeOK, setting, clock
  <2>3. CASE \E t \in Timers : CallbackDone(t)
    BY <2>3 DEF CallbackDone, TimerInv, TypeOK, setting, clock
  <2>4. CASE UNCHANGED vars
    BY <2>4 DEF vars, TimerInv, TypeOK, setting, clock
  <2> QED
    BY <2>1, <2>2, <2>3, <2>4
<1>4. Armed' = Armed
  BY <1>1 DEF Armed
<1>5. Callers'
  BY <1>1, <1>2, <1>4 DEF TimerInv, Callers
<1> QED
  BY <1>1, <1>3, <1>4, <1>5, QuietTimer

\* Every step preserves the inductive invariant.
LEMMA NextTimer ==
  ASSUME NoSelfStop, TimerInv, [Next]_vars
  PROVE  TimerInv'
<1>1. CASE Tick \/ PollEnd \/ (\E t \in Timers : CallbackDone(t)) \/ UNCHANGED vars
  BY <1>1, OtherTimer
<1>2. CASE Poll
  BY <1>2, PollTimer
<1>3. CASE StopReturn
  BY <1>3, StopReturnTimer
<1>4. ASSUME NEW t \in Timers, Run(t) PROVE TimerInv'
  BY <1>4, RunTimer
<1>5. ASSUME NEW t \in Timers, Construct(t) PROVE TimerInv'
  BY <1>5, ConstructTimer
<1>6. ASSUME NEW t \in Timers, Destruct(t) PROVE TimerInv'
  BY <1>6, DestructTimer
<1>7. ASSUME NEW t \in Timers, Stop(t) PROVE TimerInv'
  BY <1>7, StopTimer
<1>8. ASSUME NEW t \in Timers, StopCall(t) PROVE TimerInv'
  BY <1>8, StopCallTimer
<1>9. ASSUME NEW t \in Timers, NEW due \in DueTimes, NEW every \in Periods,
             Start(t, due, every)
      PROVE  TimerInv'
  BY <1>9, StartTimer
<1> QED
  BY <1>1, <1>2, <1>3, <1>4, <1>5, <1>6, <1>7, <1>8, <1>9 DEF Next, Manager

\* The inductive invariant of CEZTimerManager's list: m_pHead, m_pPrev and
\* m_pNext are a chain through the started timers in the order of their call
\* times (AddTimer, RemoveTimer, EZTimer.cpp:206-256), and a timer whose
\* Stop(TRUE) is in the middle of its callback is still in it.
THEOREM TimerInvariance ==
  ASSUME NoSelfStop
  PROVE  Spec => []TimerInv
<1>1. TimerInv /\ [Next]_vars => TimerInv'
  BY NextTimer
<1> QED
  BY <1>1, InitTimer, PTL DEF Spec

\* Every variable of the timers holds a value of its kind, whatever is
\* started, stopped and destroyed, for any width of the clock.
THEOREM TimerTypes ==
  ASSUME NoSelfStop
  PROVE  Spec => []TypeOK
<1>1. TimerInv => TypeOK
  BY DEF TimerInv
<1> QED
  BY <1>1, TimerInvariance, PTL

\* The list holds exactly the timers that are constructed and started, in the
\* order of their call times, and its two directions agree (EZTimer.cpp:93-154,
\* 206-256), for any number of timers, also when callbacks of Stop(TRUE) call
\* Start, Stop and destructors, of other timers than the one being stopped.
THEOREM ListIsExact ==
  ASSUME NoSelfStop
  PROVE  Spec => []ListExact
<1>1. ASSUME TimerInv PROVE ListExact
  <2>1. PICK n, s :
          /\ Chain(list, n, s) /\ Armed = {s[k] : k \in 1 .. n}
          /\ \A j, k \in 1 .. n : j =< k => Millis(callTime[s[j]]) =< Millis(callTime[s[k]])
    BY <1>1 DEF TimerInv, InOrder
  <2>2. /\ n \in Nat /\ s \in [1 .. n -> Timers]
        /\ \A i, j \in 1 .. n : s[i] = s[j] => i = j
        /\ list.head = IF n = 0 THEN NULL ELSE s[1]
        /\ \A k \in 1 .. n : /\ list.next[s[k]] = IF k = n THEN NULL ELSE s[k + 1]
                             /\ list.prev[s[k]] = IF k = 1 THEN NULL ELSE s[k - 1]
    BY <2>1 DEF Chain
  <2>3. n =< Cardinality(Timers) /\ Cardinality(Timers) \in Nat
    BY <2>1, ChainFits
  <2>4. \A m \in Nat : Nth(list, m) = IF m < n THEN s[m + 1] ELSE NULL
    BY <1>1, <2>1, ArmedFact, ChainNth DEF TimerInv
  <2>5. Nth(list, Cardinality(Timers)) = NULL
    BY <2>2, <2>3, <2>4
  <2>6. Listed(list) = Armed
    <3>1. ASSUME NEW u \in Listed(list) PROVE u \in Armed
      <4>1. PICK m \in Positions : u = Nth(list, m) /\ u # NULL
        BY DEF Listed
      <4>2. m \in Nat
        BY <2>3 DEF Positions
      <4> QED
        BY <2>1, <2>2, <2>4, <4>1, <4>2
    <3>2. ASSUME NEW u \in Armed PROVE u \in Listed(list)
      <4>1. PICK k \in 1 .. n : u = s[k]
        BY <2>1
      <4>2. k - 1 \in Nat /\ k - 1 \in Positions /\ k - 1 < n /\ (k - 1) + 1 = k
        BY <2>2, <2>3 DEF Positions
      <4>3. Nth(list, k - 1) = u
        BY <2>4, <4>1, <4>2
      <4>4. u # NULL
        BY <2>2, <4>1, NoTimer
      <4> QED
        BY <4>2, <4>3, <4>4 DEF Listed
    <3> QED
      BY <3>1, <3>2
  <2>7. ASSUME NEW t \in Armed
        PROVE  /\ list.prev[t] = NULL <=> t = list.head
               /\ list.next[t] # NULL => /\ list.prev[list.next[t]] = t
                                         /\ ~Later(callTime[t], callTime[list.next[t]])
    <3>1. PICK k \in 1 .. n : t = s[k]
      BY <2>1
    <3>2. list.prev[t] = NULL <=> t = list.head
      <4>1. CASE k = 1
        BY <2>2, <3>1, <4>1
      <4>2. CASE k # 1
        <5>1. k - 1 \in 1 .. n /\ 1 \in 1 .. n /\ n # 0
          BY <2>2, <4>2
        <5> QED
          BY <2>2, <3>1, <4>2, <5>1, NoTimer
      <4> QED
        BY <4>1, <4>2
    <3>3. ASSUME list.next[t] # NULL
          PROVE  /\ list.prev[list.next[t]] = t
                 /\ ~Later(callTime[t], callTime[list.next[t]])
      <4>1. k # n /\ list.next[t] = s[k + 1]
        BY <2>2, <3>1, <3>3
      <4>2. k + 1 \in 1 .. n /\ k + 1 # 1 /\ (k + 1) - 1 = k
        BY <2>2, <4>1
      <4>3. list.prev[s[k + 1]] = t
        BY <2>2, <3>1, <4>2
      <4>4. Millis(callTime[s[k]]) =< Millis(callTime[s[k + 1]])
        BY <2>1, <2>2, <4>2
      <4>5. callTime[s[k]] \in TimerValues /\ callTime[s[k + 1]] \in TimerValues
        BY <1>1, <2>2, <4>2 DEF TimerInv, TypeOK
      <4>6. ~(Millis(callTime[s[k]]) > Millis(callTime[s[k + 1]]))
        BY <4>4, <4>5, MillisNat
      <4> QED
        BY <3>1, <4>1, <4>3, <4>5, <4>6, LaterIsLater
    <3> QED
      BY <3>2, <3>3
  <2> QED
    BY <2>5, <2>6, <2>7 DEF ListExact
<1> QED
  BY <1>1, TimerInvariance, PTL

-----------------------------------------------------------------------------
(* The timers are alarm clocks *)

\* When the manager does not look at its timers none of them is overdue.
NothingOverdue ==
  ~polling => \A t \in Armed : Millis(cur) =< Millis(callTime[t])

\* The inductive invariant of the refinement: the list in order, the count
\* exact and nothing forgotten.
AlarmInv == TimerInv /\ ClockInv /\ NothingOverdue

\* What Clock calls deadline.
Deadline(t) == IF t \in Armed THEN Millis(callTime[t]) ELSE NULL
Deadlines == [t \in Timers |-> Deadline(t)]

\* The deadline of a timer is its call time while it is started.
LEMMA DeadlineFact ==
  ASSUME AlarmInv, NEW t \in Timers
  PROVE  /\ Deadlines[t] = Deadline(t)
         /\ Deadline(t) # NULL <=> t \in Armed
         /\ callTime[t] \in TimerValues /\ Millis(callTime[t]) \in Nat
         /\ Millis(cur) \in Nat
<1>1. callTime[t] \in TimerValues /\ cur \in TimerValues
  BY DEF AlarmInv, TimerInv, TypeOK
<1>2. Millis(callTime[t]) \in Nat /\ Millis(cur) \in Nat
  BY <1>1, MillisNat
<1>3. Millis(callTime[t]) # NULL
  BY <1>2, TimerAssumption
<1> QED
  BY <1>1, <1>2, <1>3 DEF Deadlines, Deadline

\* Steps after which everything is due when it was.
LEMMA HiddenSteps ==
  ASSUME AlarmInv, UNCHANGED <<Armed, callTime, cur, priod, rung, polling>>
  PROVE  /\ NothingOverdue'
         /\ UNCHANGED <<Millis(cur), Deadlines, priod, rung>>
BY DEF AlarmInv, NothingOverdue, Deadlines, Deadline, Millis

\* When the manager has found nobody else due nobody is.
LEMMA PollEndAlarm ==
  ASSUME AlarmInv, PollEnd
  PROVE  /\ NothingOverdue'
         /\ UNCHANGED <<Millis(cur), Deadlines, priod, rung>>
<1>1. ~HeadDue /\ UNCHANGED <<cur, alive, started, callTime, priod, rung>>
  BY DEF PollEnd, clock, setting
<1>2. Armed' = Armed
  BY <1>1 DEF Armed
<1>3. ASSUME NEW t \in Armed
      PROVE  Millis(cur) =< Millis(callTime[t])
  <2>1. /\ list.head # NULL /\ list.head \in Armed
        /\ Millis(callTime[list.head]) =< Millis(callTime[t])
    BY HeadIsFirst DEF AlarmInv, TimerInv
  <2>2. ~Later(cur, callTime[list.head])
    BY <1>1, <2>1 DEF HeadDue
  <2>3. /\ cur \in TimerValues /\ callTime[list.head] \in TimerValues
        /\ callTime[t] \in TimerValues
    BY <2>1, ArmedFact DEF AlarmInv, TimerInv, TypeOK
  <2>4. ~(Millis(cur) > Millis(callTime[list.head]))
    BY <2>2, <2>3, LaterIsLater
  <2>5. /\ Millis(cur) \in Nat /\ Millis(callTime[list.head]) \in Nat
        /\ Millis(callTime[t]) \in Nat
    BY <2>3, MillisNat
  <2> QED
    BY <2>1, <2>4, <2>5
<1> QED
  BY <1>1, <1>2, <1>3 DEF NothingOverdue, Deadlines, Deadline, Millis

\* A timer that is stopped or destroyed is disarmed.
LEMMA DisarmAlarm ==
  ASSUME AlarmInv, NEW t \in Timers, Armed' = Armed \ {t}, rung' = NULL,
         UNCHANGED <<callTime, cur, priod, polling>>
  PROVE  NothingOverdue' /\ Clock!Disarm(t)
<1>1. NothingOverdue'
  BY DEF AlarmInv, NothingOverdue, Millis
<1>2. \A u \in Timers : Deadline(u)' = IF u = t THEN NULL ELSE Deadline(u)
  BY DEF Deadline, Millis
<1>3. Deadlines' = [Deadlines EXCEPT ![t] = NULL]
  BY <1>2 DEF Deadlines
<1>4. Millis(cur)' = Millis(cur)
  BY DEF Millis
<1> QED
  BY <1>1, <1>3, <1>4 DEF Clock!Disarm, Deadlines, Deadline

\* Start sets the alarm for its delay after the manager's last reading.
LEMMA StartAlarm ==
  ASSUME AlarmInv, NEW t \in Timers, NEW due \in DueTimes, NEW every \in Periods,
         Start(t, due, every)
  PROVE  NothingOverdue' /\ Clock!Arm(t)
<1>1. /\ callTime' = [callTime EXCEPT ![t] = Plus(cur, due)]
      /\ priod' = [priod EXCEPT ![t] = every] /\ rung' = NULL
      /\ UNCHANGED <<cur, polling>>
  BY DEF Start, clock
<1>2. Armed' = Armed \cup {t}
  BY StartTimer DEF AlarmInv
<1>3. cur \in TimerValues /\ due \in 0 .. W - 1 /\ due \in Nat
  BY TimerAssumption DEF AlarmInv, TimerInv, TypeOK
<1>4. Millis(Plus(cur, due)) = Millis(cur) + due /\ Millis(cur) \in Nat
  BY <1>3, PlusAdds, MillisNat
<1>5. Millis(callTime'[t]) = Millis(cur) + due
  BY <1>1, <1>4 DEF AlarmInv, TimerInv, TypeOK
<1>6. \A u \in Timers : u # t => callTime'[u] = callTime[u]
  BY <1>1 DEF AlarmInv, TimerInv, TypeOK
<1>7. Millis(cur)' = Millis(cur)
  BY <1>1 DEF Millis
<1>8. NothingOverdue'
  <2> SUFFICES ASSUME ~polling, NEW u \in Armed \cup {t}
               PROVE  Millis(cur) =< Millis(callTime'[u])
    BY <1>1, <1>2 DEF NothingOverdue, Millis
  <2>1. CASE u = t
    BY <2>1, <1>3, <1>4, <1>5
  <2>2. CASE u # t
    BY <2>2, <1>6, ArmedFact DEF AlarmInv, NothingOverdue, TimerInv
  <2> QED
    BY <2>1, <2>2
<1>9. \A u \in Timers : Deadline(u)' = IF u = t THEN Millis(cur) + due ELSE Deadline(u)
  <2> SUFFICES ASSUME NEW u \in Timers
               PROVE  Deadline(u)' = IF u = t THEN Millis(cur) + due ELSE Deadline(u)
    OBVIOUS
  <2>1. Deadline(u)' = IF u \in Armed' THEN Millis(callTime'[u]) ELSE NULL
    BY DEF Deadline, Millis
  <2> QED
    BY <2>1, <1>2, <1>5, <1>6 DEF Deadline
<1>10. Deadlines' = [Deadlines EXCEPT ![t] = Millis(cur) + due]
  BY <1>9 DEF Deadlines
<1> QED
  BY <1>1, <1>7, <1>8, <1>10 DEF Clock!Arm, Deadlines, Deadline

\* run rings the alarm that is due first and sets it anew if it is periodic.
LEMMA RunAlarm ==
  ASSUME AlarmInv, NEW t \in Timers, Run(t)
  PROVE  NothingOverdue' /\ Clock!Ring(t)
<1>1. polling' = polling /\ polling /\ rung' = t /\ UNCHANGED <<cur, priod>>
  BY DEF Run, clock, setting
<1>2. NothingOverdue'
  BY <1>1 DEF NothingOverdue
<1>3. t = list.head /\ t # NULL /\ Later(cur, callTime[t])
  BY DEF Run, HeadDue
<1>4. t \in Armed /\ \A u \in Armed : Millis(callTime[t]) =< Millis(callTime[u])
  BY <1>3, HeadIsFirst DEF AlarmInv, TimerInv
<1>5. Millis(callTime[t]) < Millis(cur)
  <2>1. cur \in TimerValues /\ callTime[t] \in TimerValues
    BY DEF AlarmInv, TimerInv, TypeOK
  <2> QED
    BY <2>1, <1>3, LaterIsLater, MillisNat
<1>6. Clock!Overdue(t)
  BY <1>4, <1>5, DeadlineFact DEF Clock!Overdue, Clock!Set, Deadlines, Deadline
<1>7. \A u \in Timers : Clock!Set(u) => Deadlines[t] =< Deadlines[u]
  <2> SUFFICES ASSUME NEW u \in Timers, Deadlines[u] # NULL
               PROVE  Deadlines[t] =< Deadlines[u]
    BY DEF Clock!Set, Deadlines, Deadline
  <2>1. u \in Armed
    BY DeadlineFact
  <2> QED
    BY <2>1, <1>4 DEF Deadlines, Deadline
<1>8. Armed' = IF priod[t] = 0 THEN Armed \ {t} ELSE Armed
  BY RunTimer DEF AlarmInv
<1>9. \A u \in Timers :
        Deadline(u)' = IF u = t THEN (IF priod[t] = 0 THEN NULL
                                      ELSE Deadline(t) + priod[t])
                       ELSE Deadline(u)
  <2> SUFFICES ASSUME NEW u \in Timers
               PROVE  Deadline(u)' = IF u = t THEN (IF priod[t] = 0 THEN NULL
                                                    ELSE Deadline(t) + priod[t])
                                     ELSE Deadline(u)
    OBVIOUS
  <2>0. Deadline(u)' = IF u \in Armed' THEN Millis(callTime'[u]) ELSE NULL
    BY DEF Deadline, Millis
  <2>1. CASE priod[t] = 0
    <3>1. callTime' = callTime
      BY <2>1 DEF Run, setting
    <3> QED
      BY <2>0, <2>1, <3>1, <1>8 DEF Deadline
  <2>2. CASE priod[t] # 0
    <3>1. callTime' = [callTime EXCEPT ![t] = Plus(callTime[t], priod[t])]
      BY <2>2 DEF Run
    <3>2. priod[t] \in 0 .. W - 1 /\ callTime[t] \in TimerValues
      BY DEF AlarmInv, ClockInv, ClockTypes
    <3>3. Millis(Plus(callTime[t], priod[t])) = Millis(callTime[t]) + priod[t]
      BY <3>2, PlusAdds
    <3>4. Millis(callTime'[t]) = Millis(callTime[t]) + priod[t]
      BY <3>1, <3>3 DEF AlarmInv, TimerInv, TypeOK
    <3>5. u # t => callTime'[u] = callTime[u]
      BY <3>1 DEF AlarmInv, TimerInv, TypeOK
    <3> QED
      BY <2>0, <2>2, <3>4, <3>5, <1>4, <1>8 DEF Deadline
  <2> QED
    BY <2>1, <2>2
<1>10. Deadlines' = [Deadlines EXCEPT ![t] = IF priod[t] = 0 THEN NULL
                                             ELSE Deadlines[t] + priod[t]]
  BY <1>9 DEF Deadlines
<1>11. Millis(cur)' = Millis(cur)
  BY <1>1 DEF Millis
<1> QED
  BY <1>1, <1>2, <1>6, <1>7, <1>10, <1>11 DEF Clock!Ring, Deadlines, Deadline

\* A reading of the clock lets time advance, across a wrap too, and finds the
\* manager with nothing overdue.
LEMMA PollAlarm ==
  ASSUME AlarmInv, MaxLag <= WrapMargin, Poll
  PROVE  NothingOverdue' /\ Clock!Advance
<1>1. /\ ~polling /\ polling' = TRUE /\ rung' = NULL /\ polled' = now
      /\ now % W # cur.lo
      /\ UNCHANGED priod
  BY DEF Poll, Unlocked, setting
<1>2. NothingOverdue'
  BY <1>1 DEF NothingOverdue
<1>3. UNCHANGED <<Armed, callTime>>
  BY PollTimer DEF AlarmInv
<1>4. ClockInv'
  BY PollClock DEF AlarmInv
<1>5. Millis(cur') = now /\ now \in Nat
  BY <1>1, <1>4 DEF AlarmInv, ClockInv, ClockTypes, CountExact, Millis
<1>6. Millis(cur) \in Nat /\ Millis(cur) =< now
  BY MillisNat DEF AlarmInv, ClockInv, ClockTypes, CountExact, Lagging
<1>7. Millis(cur) # now
  <2> SUFFICES ASSUME Millis(cur) = now PROVE FALSE
    OBVIOUS
  <2>1. cur.lo \in 0 .. W - 1 /\ cur.hi \in Nat
    BY DEF AlarmInv, ClockInv, ClockTypes, TimerValues
  <2>2. (cur.hi * W + cur.lo) % W = cur.lo
    BY <2>1, Remainder
  <2> QED
    BY <2>2, <1>1 DEF Millis
<1>8. \A t \in Timers : ~Clock!Overdue(t)
  <2> SUFFICES ASSUME NEW t \in Timers, Deadlines[t] # NULL, Deadlines[t] < Millis(cur)
               PROVE  FALSE
    BY DEF Clock!Overdue, Clock!Set, Deadlines, Deadline
  <2>1. t \in Armed /\ Deadlines[t] = Millis(callTime[t])
    BY DeadlineFact DEF Deadline
  <2>2. Millis(cur) =< Millis(callTime[t])
    BY <1>1, <2>1 DEF AlarmInv, NothingOverdue
  <2> QED
    BY <2>1, <2>2, DeadlineFact
<1>9. Deadlines' = Deadlines
  BY <1>3 DEF Deadlines, Deadline, Millis
<1>10. Millis(cur)' \in Nat /\ Millis(cur)' > Millis(cur)
  <2>1. Millis(cur)' = Millis(cur')
    BY DEF Millis
  <2> QED
    BY <2>1, <1>5, <1>6, <1>7
<1> QED
  BY <1>1, <1>2, <1>8, <1>9, <1>10 DEF Clock!Advance, Deadlines, Deadline

\* Every step of the timers is a step of the alarm clocks or leaves them as
\* they are.
LEMMA StepAlarm ==
  ASSUME NoSelfStop, AlarmInv, MaxLag <= WrapMargin, [Next]_vars
  PROVE  /\ NothingOverdue'
         /\ Clock!Next \/ UNCHANGED <<Millis(cur), Deadlines, priod, rung>>
<1>1. CASE Tick \/ (\E t \in Timers : CallbackDone(t)) \/ UNCHANGED vars
  <2>1. UNCHANGED <<Armed, callTime>>
    BY <1>1, OtherTimer DEF AlarmInv
  <2>2. UNCHANGED <<cur, priod, rung, polling>>
    BY <1>1 DEF Tick, CallbackDone, vars, clock, setting
  <2> QED
    BY <2>1, <2>2, HiddenSteps
<1>2. CASE PollEnd
  BY <1>2, PollEndAlarm
<1>3. CASE Poll
  BY <1>3, PollAlarm DEF Clock!Next
<1>4. CASE StopReturn
  <2>1. PICK t \in Armed : Stopped(t) /\ Armed' = Armed \ {t}
    BY <1>4, StopReturnTimer DEF AlarmInv
  <2>2. t \in Timers
    BY ArmedFact DEF AlarmInv, TimerInv
  <2>3. rung' = NULL /\ UNCHANGED <<callTime, cur, priod, polling>>
    BY <2>1 DEF Stopped, clock, setting
  <2> QED
    BY <2>1, <2>2, <2>3, DisarmAlarm DEF Clock!Next
<1>5. ASSUME NEW t \in Timers, Run(t)
      PROVE  NothingOverdue' /\ Clock!Next
  BY <1>5, RunAlarm DEF Clock!Next
<1>6. ASSUME NEW t \in Timers, Construct(t) \/ StopCall(t)
      PROVE  /\ NothingOverdue'
             /\ UNCHANGED <<Millis(cur), Deadlines, priod, rung>>
  <2>1. UNCHANGED <<Armed, callTime>>
    BY <1>6, ConstructTimer, StopCallTimer DEF AlarmInv
  <2>2. UNCHANGED <<cur, priod, rung, polling>>
    BY <1>6 DEF Construct, StopCall, clock, setting
  <2> QED
    BY <2>1, <2>2, HiddenSteps
<1>7. ASSUME NEW t \in Timers, Destruct(t)
      PROVE  NothingOverdue' /\ Clock!Next
  <2>1. Armed' = Armed \ {t}
    BY <1>7, DestructTimer DEF AlarmInv
  <2>2. rung' = NULL /\ UNCHANGED <<callTime, cur, priod, polling>>
    BY <1>7 DEF Destruct, clock, setting
  <2> QED
    BY <2>1, <2>2, DisarmAlarm DEF Clock!Next
<1>8. ASSUME NEW t \in Timers, Stop(t)
      PROVE  NothingOverdue' /\ Clock!Next
  <2>1. Armed' = Armed \ {t}
    BY <1>8, StopTimer DEF AlarmInv
  <2>2. rung' = NULL /\ UNCHANGED <<callTime, cur, priod, polling>>
    BY <1>8 DEF Stop, Stopped, clock, setting
  <2> QED
    BY <2>1, <2>2, DisarmAlarm DEF Clock!Next
<1>9. ASSUME NEW t \in Timers, NEW due \in DueTimes, NEW every \in Periods,
             Start(t, due, every)
      PROVE  NothingOverdue' /\ Clock!Next
  BY <1>9, StartAlarm DEF Clock!Next
<1> QED
  BY <1>1, <1>2, <1>3, <1>4, <1>5, <1>6, <1>7, <1>8, <1>9 DEF Next, Manager

\* The timers implement the alarm clocks: each rings exactly once for every
\* time it is set, those that are overdue ring in the order of their times
\* (EZTimer.cpp:305-337), and no wrap of the 32-bit count skips one or rings
\* one early, as long as the manager falls behind by no more than the margin of
\* the wrap rule (EZTimer.cpp:326).
THEOREM AlarmClocks ==
  ASSUME NoSelfStop, MaxLag <= WrapMargin
  PROVE  Spec => ImplementsAlarmClock
<1>1. Init => NothingOverdue
  BY DEF Init, NothingOverdue, Armed
<1>2. TimerInv /\ ClockInv /\ NothingOverdue /\ [Next]_vars => NothingOverdue'
  BY StepAlarm DEF AlarmInv
<1>3. Init => Clock!Init
  <2> SUFFICES ASSUME Init PROVE Clock!Init
    OBVIOUS
  <2>1. TimerInv
    BY InitTimer
  <2>2. Millis(cur) \in Nat
    BY <2>1, MillisNat DEF TimerInv, TypeOK
  <2>3. Armed = {}
    BY DEF Init, Armed
  <2> QED
    BY <2>2, <2>3 DEF Init, Clock!Init
<1>4. TimerInv /\ ClockInv /\ NothingOverdue /\ [Next]_vars => [Clock!Next]_(Clock!vars)
  BY StepAlarm DEF AlarmInv, Clock!vars, Deadlines, Deadline
<1> QED
  BY <1>1, <1>2, <1>3, <1>4, TimerInvariance, ClockInvariance, PTL
     DEF Spec, ImplementsAlarmClock, Clock!Spec
=============================================================================
