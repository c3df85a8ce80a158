------------------------------ MODULE EZTimer ------------------------------
(***************************************************************************)
(* CEZTimer and CEZTimerManager (EZTimer.cpp).  The started timers form a  *)
(* doubly linked list sorted by call time; the manager's thread reads the  *)
(* millisecond clock, whose 32 bits wrap, counts the wraps in m_CurTime.hi *)
(* and runs every timer that is due.                                       *)
(*                                                                         *)
(* All of it happens under the recursive mutex CEZTimer::m_CMutex.  The    *)
(* manager holds it from the reading of the clock to the last timer that   *)
(* is due (polling), and Stop(TRUE) holds it while it calls the callback   *)
(* (stopping), which may start and stop timers itself.  Any thread calls   *)
(* the other operations; each is one step.                                 *)
(*                                                                         *)
(* A timer's callback runs on a pooled thread (EZThreadPool): all the      *)
(* timer sees of it is whether its threadlet is busy.                      *)
(***************************************************************************)
EXTENDS Integers, FiniteSets, Sequences

CONSTANTS
  Timers,      \* CEZTimer objects
  DueTimes,    \* the dwDueTime arguments
  Periods,     \* the dwPriod arguments, 0 for a timer that fires once
  W,           \* the clock and TimerValue.lo count modulo W (2^32)
  WrapMargin,  \* a reading below it after a larger one is a wrap (10000)
  MaxLag,      \* how far the manager may fall behind the clock
  Epoch,       \* the time at which the manager is constructed
  MaxTime,     \* bound of the model: the clock stops here
  SelfStops,   \* the callback that Stop(TRUE) calls may stop or destroy its
               \* own timer; no callback of the repository does
  MaxNesting,  \* Stop(TRUE) within Stop(TRUE): a bound of the model, which
               \* only SelfStops makes one (Cardinality(Timers) without it)
  NULL

ASSUME TimerAssumption ==
  /\ NULL \notin Timers \cup Int
  /\ IsFiniteSet(Timers)
  /\ DueTimes \subseteq 0 .. W - 1 /\ Periods \subseteq 0 .. W - 1
  /\ W \in Nat \ {0} /\ WrapMargin \in 1 .. W /\ MaxLag \in 1 .. W - 1
  /\ Epoch \in 0 .. W - 1 /\ MaxTime \in Nat /\ Epoch <= MaxTime
  /\ SelfStops \in BOOLEAN /\ MaxNesting \in Nat

VARIABLES
  now,       \* the real time
  polled,    \* the real time of the manager's last reading
  cur,       \* m_CurTime
  list,      \* m_pHead and every timer's m_pPrev and m_pNext
  alive,     \* the timers that are constructed
  started,   \* m_Started
  called,    \* m_Called
  callTime,  \* m_CallTime
  priod,     \* m_Priod
  busy,      \* the timers whose m_threadlet runs
  polling,   \* the manager is in its loop, holding the mutex
  stopping,  \* the Stop(TRUE) calls in progress, the innermost first
  rung,      \* the timer whose callback the last step ran or tried to run
  asked      \* the real time before which a timer should not fire

clock   == <<now, polled, cur>>
setting == <<callTime, priod, asked>>
vars == <<clock, list, alive, started, called, setting, busy, polling,
          stopping, rung>>

-----------------------------------------------------------------------------
(* TimerValue: lo counts modulo W, hi its wraps *)

TimerValues == [lo : 0 .. W - 1, hi : Nat]

\* Mutation: lo is not kept below W.
PlusUnwrapped(v, n) == [lo |-> v.lo + n, hi |-> v.hi]

\* operator+=
Plus(v, n) ==
  LET lo == (v.lo + n) % W
  IN  [lo |-> lo, hi |-> IF lo < n THEN v.hi + 1 ELSE v.hi]

\* Mutation: only lo is compared.
LaterLo(a, b) == a.lo > b.lo

\* operator>, by compare
Later(a, b) == a.hi > b.hi \/ (a.hi = b.hi /\ a.lo > b.lo)

\* The milliseconds a TimerValue stands for.
Millis(v) == v.hi * W + v.lo

-----------------------------------------------------------------------------
(* The list *)

\* The n-th node from m_pHead on, or NULL.
Nth(l, n) == LET Walk[i \in Nat] == IF i = 0 THEN l.head
                                    ELSE IF Walk[i - 1] = NULL THEN NULL
                                    ELSE l.next[Walk[i - 1]]
             IN  Walk[n]

Positions == 0 .. Cardinality(Timers)
Listed(l) == {Nth(l, n) : n \in Positions} \ {NULL}

\* AddTimer: in front of the first node that is not due before t.
AddTimer(l, t, times) ==
  LET stops(n) == Nth(l, n) = NULL \/ ~Later(times[t], times[Nth(l, n)])
      at == CHOOSE n \in Positions : stops(n) /\ \A i \in 0 .. n - 1 : ~stops(i)
      pp == IF at = 0 THEN NULL ELSE Nth(l, at - 1)
      pn == Nth(l, at)
  IN  [head |-> IF pp = NULL THEN t ELSE l.head,
       prev |-> [u \in Timers |-> IF u = t THEN pp
                                  ELSE IF u = pn THEN t ELSE l.prev[u]],
       next |-> [u \in Timers |-> IF u = t THEN pn
                                  ELSE IF u = pp THEN t ELSE l.next[u]]]

RemoveTimer(l, t) ==
  LET pp == l.prev[t]
      pn == l.next[t]
  IN  [head |-> IF pp = NULL THEN pn ELSE l.head,
       prev |-> [u \in Timers |-> IF u = pn THEN pp ELSE l.prev[u]],
       next |-> [u \in Timers |-> IF u = pp THEN pn ELSE l.next[u]]]

-----------------------------------------------------------------------------
Init ==
  /\ now = Epoch /\ polled = Epoch /\ cur = [lo |-> Epoch, hi |-> 0]
  /\ list = [head |-> NULL, prev |-> [t \in Timers |-> NULL],
             next |-> [t \in Timers |-> NULL]]
  /\ alive = {}
  /\ started = [t \in Timers |-> FALSE] /\ called = [t \in Timers |-> FALSE]
  /\ callTime = [t \in Timers |-> [lo |-> 0, hi |-> 0]]
  /\ priod = [t \in Timers |-> 0] /\ asked = [t \in Timers |-> 0]
  /\ busy = {} /\ polling = FALSE /\ stopping = <<>> /\ rung = NULL

\* Who may work on timers: anybody while the mutex is free, and the callback
\* that Stop(TRUE) calls, whose thread has it.
Unlocked == ~polling /\ stopping = <<>>
CanCall == ~polling
InStop(t) == \E i \in DOMAIN stopping : stopping[i] = t
MayStop(t) == SelfStops \/ ~InStop(t)

Construct(t) ==
  /\ t \notin alive
  /\ alive' = alive \cup {t}
  /\ started' = [started EXCEPT ![t] = FALSE]
  /\ called' = [called EXCEPT ![t] = FALSE]
  /\ busy' = busy \ {t}
  /\ UNCHANGED <<clock, list, setting, polling, stopping, rung>>

\* Mutation: the destructor leaves the timer in the list.
DestructListed(t) ==
  /\ CanCall /\ t \in alive /\ MayStop(t)
  /\ alive' = alive \ {t}
  /\ busy' = busy \ {t}
  /\ rung' = NULL
  /\ UNCHANGED <<clock, list, started, called, setting, polling, stopping>>

\* The destructor; that of m_threadlet lets a running callback go on.
Destruct(t) ==
  /\ CanCall /\ t \in alive /\ MayStop(t)
  /\ alive' = alive \ {t}
  /\ list' = IF started[t] THEN RemoveTimer(list, t) ELSE list
  /\ busy' = busy \ {t}
  /\ rung' = NULL
  /\ UNCHANGED <<clock, started, called, setting, polling, stopping>>

\* A started timer is taken out of the list before it is put in again.
Unlinked(t) == IF started[t] THEN RemoveTimer(list, t) ELSE list

Start(t, due, every) ==
  /\ CanCall /\ t \in alive
  /\ callTime' = [callTime EXCEPT ![t] = Plus(cur, due)]
  /\ priod' = [priod EXCEPT ![t] = every]
  /\ asked' = [asked EXCEPT ![t] = now + due]
  /\ called' = [called EXCEPT ![t] = FALSE]
  /\ list' = AddTimer(Unlinked(t), t, callTime')
  /\ started' = [started EXCEPT ![t] = TRUE]
  /\ rung' = NULL
  /\ UNCHANGED <<clock, alive, busy, polling, stopping>>

\* RemoveTimer and m_Started = FALSE at the end of Stop.
Stopped(t) ==
  /\ list' = RemoveTimer(list, t)
  /\ started' = [started EXCEPT ![t] = FALSE]
  /\ rung' = NULL
  /\ UNCHANGED <<clock, alive, called, setting, busy, polling>>

\* Stop(FALSE), and Stop(TRUE) on a periodic timer.
Stop(t) ==
  /\ CanCall /\ t \in alive /\ started[t] /\ MayStop(t)
  /\ Stopped(t)
  /\ UNCHANGED stopping

\* Stop(TRUE) on a timer that fires once calls its callback.
StopCall(t) ==
  /\ CanCall /\ t \in alive /\ started[t] /\ priod[t] = 0 /\ MayStop(t)
  /\ Len(stopping) < MaxNesting
  /\ stopping' = <<t>> \o stopping
  /\ UNCHANGED <<clock, list, alive, started, called, setting, busy, polling, rung>>

\* The callback has returned: Stop does not ask again whether the timer is in
\* the list, and follows the pointers it finds.
StopReturn ==
  /\ stopping # <<>>
  /\ Stopped(Head(stopping))
  /\ stopping' = Tail(stopping)

-----------------------------------------------------------------------------
(* The manager's thread *)

Tick ==
  /\ now < MaxTime /\ now - polled < MaxLag
  /\ now' = now + 1
  /\ UNCHANGED <<polled, cur, list, alive, started, called, setting, busy,
                 polling, stopping, rung>>

\* Mutation: a smaller reading is not taken for a wrap.
WrapsNever(lo) == 0

Wraps(lo) == IF lo < cur.lo /\ lo < WrapMargin THEN 1 ELSE 0

\* SystemGetMSCount, when it differs from the last reading: milliseconds
\* modulo W, as its Linux and Win32 branches return them.
Poll ==
  LET lo == now % W IN
  /\ Unlocked /\ lo # cur.lo
  /\ polled' = now
  /\ cur' = [lo |-> lo, hi |-> cur.hi + Wraps(lo)]
  /\ polling' = TRUE
  /\ rung' = NULL
  /\ UNCHANGED <<now, list, alive, started, called, setting, busy, stopping>>

\* Mutation: a timer is due as soon as its time is reached.
DueAtOnce == list.head # NULL /\ ~Later(callTime[list.head], cur)

\* m_pHead && m_pHead->m_CallTime < m_CurTime
HeadDue == list.head # NULL /\ Later(cur, callTime[list.head])

\* CEZTimer::run: the timer leaves the list or moves on by a period, and its
\* callback is given to the threadlet, which refuses it while it is busy.
Run(t) ==
  /\ polling /\ HeadDue /\ t = list.head
  /\ IF priod[t] = 0
     THEN /\ list' = RemoveTimer(list, t)
          /\ started' = [started EXCEPT ![t] = FALSE]
          /\ called' = [called EXCEPT ![t] = TRUE]
          /\ UNCHANGED setting
     ELSE /\ callTime' = [callTime EXCEPT ![t] = Plus(@, priod[t])]
          /\ list' = AddTimer(RemoveTimer(list, t), t, callTime')
          /\ asked' = [asked EXCEPT ![t] = @ + priod[t]]
          /\ UNCHANGED <<started, called, priod>>
  /\ busy' = busy \cup {t}
  /\ rung' = t
  /\ UNCHANGED <<clock, alive, polling, stopping>>

PollEnd ==
  /\ polling /\ ~HeadDue
  /\ polling' = FALSE
  /\ UNCHANGED <<clock, list, alive, started, called, setting, busy, stopping, rung>>

\* The pooled thread has called the callback and broken its link.
CallbackDone(t) ==
  /\ t \in busy
  /\ busy' = busy \ {t}
  /\ UNCHANGED <<clock, list, alive, started, called, setting, polling, stopping, rung>>

Manager == Poll \/ PollEnd \/ \E t \in Timers : Run(t)

Next ==
  \/ Tick \/ Manager \/ StopReturn
  \/ \E t \in Timers :
        \/ Construct(t) \/ Destruct(t) \/ Stop(t) \/ StopCall(t) \/ CallbackDone(t)
        \/ \E due \in DueTimes, every \in Periods : Start(t, due, every)

Spec == Init /\ [][Next]_vars

\* Time goes on; a callback makes finitely many calls and returns, at every
\* depth of Stop(TRUE) within Stop(TRUE); and the manager, which asks for the
\* mutex every millisecond, gets it in the end although others take it again
\* and again.
FairSpec ==
  /\ Spec
  /\ WF_vars(Tick) /\ SF_vars(Manager)
  /\ \A n \in 1 .. MaxNesting :
       SF_vars(StopReturn /\ Len(stopping) = n)

-----------------------------------------------------------------------------
(* Properties *)

\* Every variable holds a value of its kind.
TypeOK ==
  /\ now \in Nat /\ polled \in Nat /\ cur \in TimerValues
  /\ list \in [head : Timers \cup {NULL}, prev : [Timers -> Timers \cup {NULL}],
               next : [Timers -> Timers \cup {NULL}]]
  /\ alive \subseteq Timers /\ busy \subseteq Timers
  /\ started \in [Timers -> BOOLEAN] /\ called \in [Timers -> BOOLEAN]
  /\ callTime \in [Timers -> TimerValues]
  /\ priod \in [Timers -> Periods \cup {0}] /\ asked \in [Timers -> Nat]
  /\ polling \in BOOLEAN /\ stopping \in Seq(Timers)
  /\ rung \in Timers \cup {NULL}

Armed == {t \in alive : started[t]}

\* The list holds exactly the timers that are constructed and started, in the
\* order of their call times, and its two directions agree, whatever is
\* started, stopped, destroyed or restarted, also from a callback that
\* Stop(TRUE) calls, as long as that does not stop its own timer (SelfStops).
ListExact ==
  /\ Nth(list, Cardinality(Timers)) = NULL
  /\ Listed(list) = Armed
  /\ \A t \in Armed :
       /\ list.prev[t] = NULL <=> t = list.head
       /\ list.next[t] # NULL => /\ list.prev[list.next[t]] = t
                                 /\ ~Later(callTime[t], callTime[list.next[t]])

\* The manager's count is the real time of its last reading, the wraps of the
\* 32-bit clock included, as long as it does not fall too far behind.
CountExact == Millis(cur) = polled

\* A timer never fires earlier than its delay after Start less the time the
\* manager was behind when it was started.
AlmostPunctual == [][\A t \in Timers : Run(t) => now > asked[t] - MaxLag]_vars

Clock == INSTANCE AlarmClock
           WITH time <- Millis(cur), period <- priod, Delays <- DueTimes,
                deadline <- [t \in Timers |-> IF t \in Armed
                                              THEN Millis(callTime[t]) ELSE NULL]

\* The timers are alarm clocks: each rings exactly once for every time it is
\* set, those that are overdue ring in the order of their times, and none is
\* skipped or rung early when the 32-bit count wraps.
ImplementsAlarmClock == Clock!Spec

\* A timer that is started fires, is started anew or is stopped.
TimersFire ==
  \A t \in Timers, m \in Epoch .. MaxTime - 1 :
    (t \in Armed /\ Millis(callTime[t]) = m)
      ~> ~(t \in Armed /\ Millis(callTime[t]) = m)
=============================================================================
