# A verification of libezThread

TLA+ models of the thread library in `src/src` and of the programs of
`src/tutorial_libezthread` that have logic of their own, checked by TLC on small
instances. The safety properties, the action properties and the refinements are
also proved with TLAPS for every value of the constants, those of the console
excepted; liveness is left to TLC. Line numbers below are those of the repository's files.

## The system

| component | source | state | operations | talks to |
|---|---|---|---|---|
| `CEZMsgQue` | `EZMsgQue.cpp` | `m_Queue`, `m_nMsg`, `m_nMaxMsg`, `m_bMsgFlg`, `m_MutexMsg`, `m_CEZSemaphore` | two `SendMessage`s, `RecvMessage` waiting or not, `ClearMessage`, `QuitMessage`, `SetMessageSize` | its `CEZSemaphore` and `CEZMutex` |
| `CEZThread` | `EZThread.cpp` 42-298 | `m_bLoop`, `m_bWaitThreadExit`, `m_ID`, `m_hThread`, `m_cCEZSemaphore`, `m_desCEZSemaphore` | `CreateThread`, `DestroyThread`, `ThreadBody`, queue wrappers | its queue, the manager's list, `api_thread.c` |
| `CEZThreadManager` | `EZThread.cpp` 376-551 | list of threads, free list of pooled threads | `AddThread`, `RemoveThread`, `HasThread`, `DumpThreads`, `GetPooledThread`, `ReleasePooledThread` | threads, pool |
| `CEZThreadlet`, `CEZPooledThread` | `EZThread.cpp` 300-374 | `m_thread`, `m_caller`, `m_semaphore`, the job | `run`, construction, destruction, the pooled `ThreadProc` | the free list |
| `CEZTimer`, `CEZTimerManager` | `EZTimer.cpp` | sorted list, `m_CurTime`, per timer `m_CallTime`, `m_Priod`, `m_Started`, `m_Called` | `Start`, `Stop`, `run`, destructor, the manager's `ThreadProc` | the clock, a threadlet per timer |
| signals | `EZSignal.h` | a vector of slots, a mutex | `Attach`, `Detach`, `IsAttached`, the call | observers |
| `CEZPool`, `EZPoolAllocator` | `EZPoolAllocator.*` | chunks, free elements linked through their own memory, a mutex | `alloc`, `grow`, `free`, `setec` | the lists of all message queues |
| primitives | `EZSemaphore.cpp`, `EZMutex.cpp`, `EZLock.cpp`, `api_thread.c`, `api_ezthread.c` | a semaphore's value, a mutex's owner, the clock | `Wait`, `Post`, `Lock`, `Unlock`, `ThreadCreate`, `SystemGetMSCount` | all of the above |
| packet manager (tutorial) | `tutorial_libezthread/ezPacket` | per level a ring of free nodes, `CPacket` shells, `m_RefCount` per packet, `m_Mutex` | `GetPacket`, `PutPacket`, `AddRef`, `Release` and the C functions over them | threads that share packets |
| device (tutorial) | `Observer.signal/DevUsbStorageKey.cpp` | a signal, `m_iUser`, `m_MutexSigBuffer`, its thread | `Start`, `Stop`, `ThreadProc` | signal, `CEZThread` |
| console (tutorial) | `Solar/LocalConsole.cpp` | `m_iState`, `m_szData`, `m_iWordPosition`, `m_dbParamTab` | `OnData` per key, `StrParse`, `GetCmd`, the commands of `m_sDbgTbl` | the keyboard |
| other observers, programs | `tutorial_libezthread`, `test` | small | demonstrations | all of the above |

What is hard here. The queue updates its list and its semaphore in different
critical sections, and two of its operations wait on the semaphore with the
mutex in hand. A thread's flags are read and written without a lock by the
thread, by those who stop it and by those who restart it. The lists are
intrusive and doubly linked, so a node that is linked or unlinked twice
corrupts them. A threadlet and its thread point at each other and each can go
first. Timers count in 32 bits that wrap, and a callback may call back into the
timers. Packets return to the store from whichever thread drops the last
reference, while others split and join its nodes. The console keeps lines in
buffers that still hold what earlier lines left there.

What makes each part correct:

* queue: it is a bounded FIFO; nobody sleeps next to a message; a call that
  does not wait returns;
* thread: one object never has two threads; a stop ends the thread and releases
  the caller that asked in time to be told; a restart after a creation that
  succeeded returns; the list holds exactly the running threads;
* pool: link and free list agree, no job is overwritten, every run that a thread
  has accepted is carried out;
* timers: each rings once per setting, in order, not early, not never;
* signals: whoever stays attached is called, nobody else is;
* device: its thread lives as long as it has users, and when the last has left
  nobody is called any more;
* packets: no page is lost or has two owners, joining undoes splitting, a packet
  goes back once, with its last reference;
* memory pool: an element has one user at a time, none is lost, and memory is
  asked for only when all of it is in use;
* console: a line runs the command its first word is short for, whatever was
  typed and erased before.

## Modules

| module | what it models |
|---|---|
| `MessageQueue` | abstract: the bounded FIFO that `CEZMsgQue` promises, one step per call |
| `EZMsgQue` | `CEZMsgQue` with its mutex and semaphore |
| `EZMsgQueProofs` | the invariant and the refinement of `MessageQueue`, proved |
| `EZThread` | `CEZThread`'s life, `ThreadBody`, the manager's list of threads |
| `MCEZThread` | symmetry for TLC |
| `EZThreadProofs` | the invariant of a thread's life and the list of threads, proved |
| `EZThreadPool` | threadlets, pooled threads and the free list |
| `EZThreadPoolProofs` | links, free list and jobs, proved |
| `AlarmClock` | abstract: what timers promise in a time that never wraps |
| `EZTimer` | `CEZTimer`, `CEZTimerManager` and the clock |
| `EZTimerProofs` | the two-word count, the sorted list, the punctuality of timers and the refinement of `AlarmClock`, proved |
| `EZSignal` | a `TSignal`: its slots, `Attach`, `Detach`, the walk of `operator()` |
| `EZSignalProofs` | who is called and who is not, proved |
| `ObserverDevice` | the device of the Observer tutorial, over an instance of `EZSignal` and the part of `CEZThread` it meets |
| `ObserverDeviceProofs` | the count of users and the silence after the last `Stop`, proved |
| `PageStore` | abstract: what references to packets give access to |
| `EZPacket` | `CPacketManager` and `CPacket`: the buddy allocator and the reference counts |
| `EZPacketProofs` | reference counts, rings, the tiling of the pages, refusals and the refinement of `PageStore`, proved |
| `ElementStore` | abstract: what a pool of elements promises |
| `EZPool` | `CEZPool`: chunks and the list of free elements |
| `EZPoolProofs` | one user per element, none lost and the refinement of `ElementStore`, proved |
| `CommandLine` | abstract: what a console promises to whoever types at it |
| `LocalConsole` | `CLocalConsole` with its buffers |
| `MCLocalConsole` | a table of commands for TLC |

Each detailed module names its definitions after the functions of the code. A
definition whose comment starts with "Mutation" is a plausible mistake in the
operator that follows it; nothing of the specification uses it.

### EZMsgQue

A region that runs under `m_MutexMsg` and cannot block is one action
(`SendMessage` up to the unlock, `RecvLocked`, `QuitMessage`,
`SetMessageSize`). What the code does outside the mutex is an action of its
own: the sender's `Post` and the receiver's `TakeToken`. The receive that does
not wait (`RecvPoll`, `PollTake`) and `ClearMessage` (`ClearOne` per round,
`ClearEnd`) wait on the semaphore while they hold the mutex, so there the mutex
is visible as a variable. `push_front` and `pop_back` become Append and Head:
the model's sequence has the oldest message first. `out` records the call that
took effect last and its result, which is what the abstract queue is compared
by. Threads play roles given by constants, so an instance says who may wait,
poll or clear. `FindEmpty` is in `RecvLocked` because the code tests for it;
that a waiting receive never takes it is part of what
`ImplementsMessageQueue` says.

The semaphore stops at `SemMax`: `SEM_VALUE_MAX` on POSIX, 1 on Win32, where
`CreateSemaphore` is given the maximum 1 (`EZSemaphore.cpp:19`). Reading the
Win32 code that way, a second post is dropped and its message has no token: the
`PostBinary` mutation is exactly that build, and breaks `WaitedRecvReturns`.

### EZThread

Every access to `m_bLoop`, `m_bWaitThreadExit` and `m_ID` is a step, because
none is made under a lock. `AddThread`, `RemoveThread` and the walk of
`HasThread` and `DumpThreads` run under `m_CMutex` and are one step each, on
the real pointers `m_pHead`, `m_pPrev` and `m_pNext`. A body goes through
`StoreID`, `Register`, the loop of its `ThreadProc`, `ClearMessage`,
`CheckWait`, `PostDestroyer`, `PostCreator` and `Leave`; a client through
`TakeCreator` and `Spawn`, or the `Destroy...` steps. A body that destroys its
own thread goes through the branch of `DestroyThread` for its own `m_ID` with the
same grain: `SelfDestroy`, `SelfSet`, `SelfSend`, `SelfAsk`. The queue is reduced to
its number of messages and `m_bMsgFlg`: `EZMsgQue` is where the queue is shown
to be a FIFO, and no `ThreadProc` of the repository looks at the message.
`Ops` says which calls the clients of an instance make.

### EZThreadPool

`CEZThreadlet::run`, its destructor and the end of a job are each one critical
section of `CEZThreadlet::m_mutex` that blocks on nothing; `m_CMutex` is only
ever taken inside it or alone. So they are single actions, and the interesting
interleavings are those between the sections: after the call, after the link is
broken, before the thread is on the free list again. `CreateThread`'s failure,
which `GetPooledThread` does not look at, is the state `dead`.

### EZTimer

All timer code runs under one recursive mutex. It is held across several steps
in two places: by the manager from the reading of the clock to the last due
timer (`polling`), and by `Stop(TRUE)` while it calls the callback
(`stopping`, a stack, since the callback may call `Stop(TRUE)` on another
timer). While a callback runs, its thread may make every call; nobody else can.
`TimerValue` keeps its two words: `lo` modulo `W` and `hi`, with the carry of
`operator+=` and the wrap rule of `ThreadProc`. `now` is the real time and
`asked` the real time a timer should wait for; the code has neither. A timer's
pooled thread is seen only as busy or not.

`Stop` and the destructor test nothing that would keep the callback of a
`Stop(TRUE)` from stopping or destroying its own timer (`EZTimer.cpp:93-137`);
`Stop` then unlinks the timer a second time through stale pointers. The constant
`SelfStops` says whether callbacks do that (`MayStop`). It is FALSE in the run, and
the theorems about the list take that as a hypothesis (`NoSelfStop`): no code of
the repository calls `Stop(TRUE)`, and with `SelfStops` the list really breaks. How
deep `Stop(TRUE)` nests is bounded by `MaxNesting`; without `SelfStops` the number of
timers bounds it anyway.

The clock is that of the Linux and Win32 builds, milliseconds that wrap
(`api_ezthread.c:56-69`). The Mac OS and iOS branch, which returns the microseconds
times 1000, and the branch for no known system, which returns 0, are not
modelled.

### EZSignal

`m_CMutex` orders `Attach` and `Detach` among themselves but not with the walk
of `operator()`, which takes no lock. So what matters of a call under the mutex
are the writes the walk can see: `m_pObj`, `m_pProc` and `m_Status`, each a step
(`AttachObj`, `AttachProc`, `AttachStatus`; `Detach` writes `m_Status` alone).
`attaching` is the mutex: who holds it is in the middle of an `Attach`. The walk
tests a slot, reads its object, reads its method and calls, one step each
(`TestSlot`, `ReadObj`, `CallBack`). The writes are assumed to become visible in
program order, which the code does not enforce: the fields are plain variables.
`stayed`, `allowed` and `heard` remember, during an emission, who was attached
throughout, who was at some moment, and who was called.

With two methods the walk can call one observer's object with another's method
(read `m_pObj` after, `m_pProc` before the second write of an `Attach`). Every
program of the repository attaches one method, and so does the instance.

### ObserverDevice

`Start` and `Stop` keep `m_MutexSigBuffer` from end to end, so one call at most
is under way and `cpc` says where it is; who makes it does not matter. `Start`
goes through the steps of `Attach` and of `CreateThread`, `Stop` through
`Detach` and those of `DestroyThread(TRUE)`; the body through the loop, the
emission and the end of `ThreadBody`. `AddThread` and `RemoveThread` are left to
`EZThread`. Users call in pairs, as the comment at `DevUsbStorageKey.cpp:123`
asks them to.

The device restarts its thread with `m_bWaitThreadExit` still set from the
`Stop` before. What keeps a stale unit out of `m_desCEZSemaphore` is that every
end of the thread has a `Stop` waiting for it: the part `Ending` of the
invariant in `ObserverDeviceProofs`.

### EZPacket

`GetPacket` and `PutPacket` run under `CPacketManager::m_Mutex`. Each round of
their loops is a step (`Take`, `Split`, `GetReturns`; `PutPacket`, `Merge`,
`PutReturns`) with the node it is at in `hand`, so the invariants are checked in
the middle of splitting and joining; `AddRef` and the counting part of `Release`
run under the packet's own mutex and interleave with them. `Release` calls
`PutPacket` after its `Unlock`: in between the packet belongs to nobody but
the thread at `put`.

`GetPacket` rounds a request up to a power of two of pages (`Packet.cpp:514`),
so its branches for other sizes (`:542-563`) and those of `PutPacket`
(`:605-645`) are never taken; they are not modelled. Fields that are never read
before they are written again (the `pPrev` of a node outside the rings, those
of a free shell) are set to one value, which keeps states that no code can tell
apart together. `m_nPages` need not be a power of two: there are nodes beyond
the last page then, as in the code's arrays, and they are never free.

### EZPool

`alloc`, `grow` and `free` are modelled access by access under the pool's mutex,
because the free list runs through the elements themselves: an element that is
in use has no `next`, and one that is handed out too early would be seen there.
`setec` changes the size of the next chunk whenever the mutex is free; it locks it
(`EZPoolAllocator.cpp:79-84`), but nothing else happens in between, so it is one
step. The run checks deadlock, and a call that left the mutex locked would be
one. The refinement hides chunks and links: elements are made and used, and more
are made only when all are in use.

### LocalConsole

Only the console's thread touches its state, so a key is a step. The buffers are
what is interesting: `m_szData` is never cleared, and `StrParse` leaves the words
of earlier lines in `m_dbParamTab` and keeps pointers into it. The refinement
compares this with `CommandLine`, which has no buffers and promises something
only for lines whose words are separated by one space, none at the end, at most
`Rows` of them, each shorter than `Cols`. The model says what happens with
others: a second space, or one at the end, erases the word before it; a word of
32 letters runs on into the next row; a line of nothing but spaces runs the
command of an earlier line again; and naming a separator row of the table
("---") calls a null pointer, which is why the run does not check deadlock. `Parsed` is a
RECURSIVE operator: there are no theorems about this module.

## Runs

| run | shows |
|---|---|
| `msgque_consumer` | two senders, one consumer that waits, polls and clears, one controller: `TokenBalance` (semaphore units, receivers holding a unit and senders about to post add up to the queue's length), the queue is a FIFO, and waits, polls and clears return |
| `msgque_poll` | violation: with a waiting receiver next to a polling one, the poller can wait for ever for the unit the other took, holding the mutex the other needs |
| `thread_registry` | three threads come and go in every order: the list is exact |
| `thread_stop` | never two threads for an object, `m_ID` names the running one, though a creation may fail and the thread may stop itself; a stop ends a consumer whatever is in its queue; it releases the client that set `m_bWaitThreadExit` before the thread looked at it; a restart returns unless a creation has failed before |
| `thread_relist` | violation: a restart puts the object into the list while its old thread has not taken it out |
| `pool_jobs` | two threadlets over three pooled threads that may fail to start: links and free list exact (`PoolInv`), no job replaced (`JobKept`), every run carried out that a thread which exists has accepted |
| `timer_clock` | two timers across a wrap of the clock: the list and the count are exact, the timers are alarm clocks, none fires earlier than the manager's lag explains (`AlmostPunctual`), and each fires unless stopped; no callback of `Stop(TRUE)` stops its own timer |
| `signal_slots` | observers attach, repeatedly too, and detach at every point of an emission: those who stay are called, no stranger is |
| `device_users` | three users start and stop: `m_iUser` is exact, the last `Stop` leaves silence and ends the thread; users are called while there is a thread; the last `Stop` returns if it set `m_bWaitThreadExit` before the thread looked at it |
| `packet_share` | two threads get, share and release packets over six pages: counts exact, every page with one owner (`Tiling`), joined when it can be (`NoFreeBuddies`), the store whole again when all is back (`WholeAgain`), rings exact, a refusal only when nothing fits, and references as `PageStore` promises |
| `memory_users` | three threads allocate and free over chunks of changing sizes: one user per element, none lost, and a chunk is made only when every element is in use, as `ElementStore` promises |
| `console_keys` | every sequence of keys: the console is a `CommandLine` |

Bounds. Two senders, a consumer that waits, polls and clears and a controller
give every pair of roles the library itself uses; capacities 1 and 3 are a full
queue and one with room for every sender. Queues with several consumers are
covered by the proofs, which have no bound on them, and by `msgque_poll`. For a
thread, two bodies are the least that allow a restart to overlap the old thread,
which ends by itself or by the client's hand; three objects are what a middle
node of the list needs. Both runs have one client; what holds with several at once
(`OneThread`, `NoSelfWait`) is a matter of the proofs.
Three pooled threads let both threadlets run while a third thread is on its way
back to the list. The clock's modulus 6 with readings from 5 to 7 has one wrap;
a timer set before it and due after it, one due at once and periodic ones are
all in the list together. `MaxTime` stops the clock: no property speaks of what
happens then.

A signal has at least four slots (`EZSignal.h:85`), the number of the instance:
three observers fill them, since an observer can occupy several. In the device's
run three users leave gaps before, between and after each other.

Six pages begin as a free node of four and one of two, whose buddy is never
free; a request of one page splits one of them once or twice, one of three
pages takes four, and one of no bytes takes none; three packets and references
let one packet be shared while another is split. Two chunks of one or two
elements have a chunk that is used up, one that is left
over and a change of `ecount` between them. The console's numbers are small
stand-ins, in the same order of size: lines of 6 for 500, buffers of 7 for 512,
2 words of 3 letters for 16 of 32, abbreviations of 2 for 3. So a line is
dropped, the words fill the table and a word fills its row.

Deadlock is checked except in five runs. In `msgque_poll` the queue really
deadlocks: that is what it shows. In `thread_relist` the only client may wait in
`CreateThread` for a thread that it alone could stop. In `thread_stop` every later
`CreateThread` waits for good after one that failed, since the unit it took of
`m_cCEZSemaphore` is posted by nobody. In `device_users` the last
`Stop` waits for good, with the mutex in hand, when the thread could not be
created or has looked at `m_bWaitThreadExit` before `Stop` set it. In
`console_keys` the program crashes at a separator row.

Violations. A violation run checks one property that a comment of the code
states, and the finding in `PROJECT.json` quotes the comment. `msgque_poll` needs
two consumers on one queue, which the class allows; the library's own
`CEZThread` has one. `thread_relist` needs nothing but `DestroyThread()`
followed by `CreateThread()`: the list then points to itself, and
`DumpThreads` never ends.

More things the code does that no run is spent on. A timer can fire before its
delay is over, by as much as the manager was behind when it was started, since
`Start` counts from `m_CurTime` and not from the clock: `AlmostPunctual` bounds
this, and nothing tighter holds. `StopEndsThread` fails as
soon as clients call the `Stop()` of the test program
(`test/testThreadMsg.cpp:151-159`), which clears `m_bLoop` before
`DestroyThread`, so that no `XM_QUIT` is sent, or `QuitMessage`, after which
`XM_QUIT` is refused. And `DestroyThread(TRUE)` returns while the thread has
still to post `m_cCEZSemaphore` and to unlink itself, the same disorder that
`thread_relist` shows for restarts. An observer attached twice through a gap of
its signal keeps a slot after as many `Detach`es: `Attach` takes the first
empty slot before it sees the later one, and `Detach` empties the first slot
that names the observer, used or not (run `EZSignal` with `MayRepeat`: the
theorems hold nevertheless). `Detach` returns the number of observers left,
which `DevUsbStorageKey.cpp:130` takes for an error code, so every `Stop` but
the last prints that it failed.

## Fairness

* Queue: a thread inside a call is scheduled (weak fairness of `Post`,
  `TakeToken`, `RecvLocked`, `PollTake`, and of `ClearMessage`'s loop). Nobody
  has to make a call. No strong fairness is needed: with a single consumer
  nobody else takes the unit it waits for.
* Thread: bodies run and clients inside a call are scheduled, both weakly. A
  body's own decisions to return or to destroy itself are not fair.
* Pool: pooled threads are scheduled and callbacks return.
* Device: its thread runs, callbacks return, and a call that has the mutex goes
  on.
* Timer: time goes on; the manager, which asks for the mutex every millisecond,
  gets it in the end (strong fairness: others may take it in between); a
  callback of `Stop(TRUE)` makes finitely many calls and returns, at each depth
  of nesting.
* Packets: a thread that has the manager's mutex goes on (weak), and one that
  wants it gets it in the end though others take it in between (strong).
* Memory pool and console: none. Nothing they promise needs time.

## Proofs

`EZMsgQueProofs` proves, for any sets of threads, messages and capacities,

* `Invariance`: `IInv`, which is `TypeOK`, `TokenBalance`, `MutexHeldByBlocker`
  and `Len(queue) <= SemMax`. `TokenBalance` alone is not inductive: without
  the mutex's owner a `ClearMessage` could meet messages it did not count, and
  without the bound a post could be dropped;
* `TokenBalanceHolds` and `TypeCorrect` from it;
* `Refinement`: `Spec => ImplementsMessageQueue`. The mapping shows the abstract
  queue empty from the moment `ClearMessage` has the mutex. Every action maps
  to one abstract step or a stutter; that `RecvLocked` finds a message follows
  from `TokenBalance`, since a thread that holds a unit is counted.

They assume `SemRoom`, that the semaphore can count as many units as the queue
may hold: true of POSIX, false of Win32.

`EZThreadProofs` proves `ThreadInv` (`Invariance`) for any number of objects,
clients, bodies and calls, and from it `OneThread` (`OneThreadPerObject`) and
`NoSelfWait` (`BodyKnowsItself`). `OneThreadPerObject` is stated so that it is
inductive: `m_cCEZSemaphore` is a token that is either free, held by exactly one
client on its way to `Spawn`, or held by exactly one body until `PostCreator`.

The list of threads is a second matter, because the code does not keep it exact
in every order of events: `thread_relist` shows that a restart can add an object
whose old body has not removed it. `RegistryIsExact` says that this is all that
can go wrong: in every behaviour in which an object is only added while it is
unlisted (`AddedWhenUnlisted`, the order the comment at `EZThread.cpp:50-51` has
in mind), `RegistryExact` always holds. `RegistryOfFirstStarts` removes the
condition where a single client starts each object once (`StartedOnce`, as in
the instance of `thread_registry`): threads may still end by themselves, be
destroyed or fail to start in any order.
`RegistryInv` is the invariant of both: `Holds(A)` says that there is a sequence
which lists the objects of `A` once each, with `m_pHead`, `m_pNext` and `m_pPrev`
the head and the neighbours of that sequence, and no two bodies have registered
the same object. `HoldsListed` says that a walk of such a list visits `A` and
ends; `AddThread` puts an object in front of the sequence, and `RemoveThread` takes
one out of it.

`EZSignalProofs` proves, for any number of slots, observers and methods,

* `EverybodyIsCalled` (`AttachedIsCalled`) from `CalledInv`: whoever has stayed
  and was not called yet has a slot that is still due (`Due`), that is, the walk
  has not passed it and has read nothing of an earlier tenant. It is inductive
  with repeated attachments too, because `Detach` empties an observer's first
  slot: if it stays attached, it is in a later one;
* `SignalInvariance` (`SignalInv`) under the hypothesis `OneMethod` that all
  observers attach the same method, and from it `NobodyElseIsCalled`
  (`OnlyAttachedCalled`). During an emission every tenant of a slot is allowed,
  and so is the observer whose `Attach` is half written (`TenantsAllowed`); so is
  what the walk has read, even if the slot was emptied since (`ReadAllowed`).

`EZThreadPoolProofs` proves `PoolExact` (`PoolInv`: both ends of every link
agree, and the free list holds each idle thread once), which is inductive as it
stands, and from it `NoJobReplaced` (`JobKept`).

`EZPoolProofs` proves `HandedOut` (`HandedOutOnce`), `NothingIsLost`
(`NothingLeaks`) and `PoolIsStore` (`ImplementsElementStore`) for any chunks and
sizes. The inductive invariant `PInv` adds
`Exclusive`: only the thread with the mutex is inside a call, and what it has
read of the list is still so. `NothingLeaks` names the free list as a sequence
that holds every spare element once; each step of `alloc` and `free` is shown to
turn one such sequence into the next. That `grow` is reached only when all
elements are in use, which is what `PoolIsStore` adds, follows from it: the list
is empty there, so no element is spare, and with the mutex in `alloc`'s hands none
is on its way back.

`EZTimerProofs` proves, for any width of the clock, any delays and any number of
timers,

* `TimerTypes` (`TypeOK`) and `ListIsExact` (`ListExact`: the list holds the
  started timers, each once, in the order of their call times). The invariant is
  `TimerInv`: `TypeOK`, that the timers in the middle of `Stop(TRUE)` are started
  (`Callers`), and that there is a sequence of the started timers, sorted, whose
  neighbours the pointers name (`InOrder`). `Callers` is what makes it
  inductive: `Stop(TRUE)` unlinks its timer after the callback, which may start
  and stop others in between, without asking again whether it is listed.
  `RemoveTimer` is shown to take one timer out of such a sequence, and `AddTimer`
  to find a place in it that keeps the order. Both theorems assume `NoSelfStop`,
  without which `Callers` fails;
* `CountIsExact` (`CountExact`) and `TimersArePunctual` (`AlmostPunctual`), both
  under the hypothesis `MaxLag <= WrapMargin`: the wrap rule of `ThreadProc`
  recognises a wrap only within the margin, 10 seconds in the code. The lemmas say
  that `operator+=` adds (`PlusAdds`), that `compare` is the order of the times
  (`LaterIsLater`) and that a reading is counted right (`ReadingCounts`). They
  need nothing of the list: `Run` compares the call time of the very timer it
  fires;
* `AlarmClocks` (`ImplementsAlarmClock`) under `NoSelfStop` and the same margin, from `AlarmInv`,
  which adds that no started timer is overdue while the manager is outside its
  loop (`NothingOverdue`). The order of the list and the exact count come
  together here: that `ThreadProc` stops at the first timer that is not due is
  right because every later one has a later call time, and the two-word compare
  is the order of the real times.

`ObserverDeviceProofs` proves `UsersAreCounted` (`UsersCounted`) and
`LastStopLeavesSilence` (`LastStopSilences`) from `DeviceInv`. Its part about
the slots is the one that is not obvious: `Detach` takes the first slot that
names an observer without asking whether it is occupied, and slots that were
emptied keep their names; `FirstNamed` says that an occupied slot is
nevertheless the first of its name.

`EZPacketProofs` proves, for any packets and threads and every store of up to 4096
pages (`PKT_KILOS_DEFAULT`, the largest the file knows),

* `PacketInvariance` (`RefInv`) and `ReferencesCounted` (`RefsCounted`), which is
  inductive with the control state (who has the mutex, which call has which
  packet) and needs nothing of the tree of nodes;
* `StoreInvariance` (`PageInv`), and from it `PacketTypes` (`TypeOK`), `PagesAreTiled`
  (`Tiling`) and `BuddiesAreJoined` (`NoFreeBuddies`). `PageInv` adds to `RefInv`
  that the rings are whole (`RingInv`), that packets and the node in hand are
  nodes of the tree (`Shapes`), and, for each place of `GetPacket` and
  `PutPacket`, what the node in hand is there (`Holding`). Two nodes of the tree
  are disjoint or one contains the other: the lemmas about `Run` derive this from
  the powers of two (`Nested`, `BuddyFact`, `ParentFact`). In the middle of
  `PutPacket` the node in hand may have a free buddy, and no other free node does;
* `RingsAreExact` (`RingsExact`). The rings are intrusive, so what they are is a
  statement about walks. `Links` says that `pNext` and `pPrev` are each other's
  inverse, and `OneRing` that a set of free nodes of a level that is not empty
  and is closed under `pNext` is the whole level: a form of "one ring" that needs
  no induction when a node enters or leaves. That the walk of
  `RingsExact` then visits them all is a pigeonhole argument: among `PageCount + 2`
  nodes it meets one twice, so what it has met is closed under `pNext`;
* `StoreComesBack` (`WholeAgain`): when no packet has pages the free nodes are the
  ones of the beginning, since of the others one of the lowest level would find
  its buddy free;
* `RefusalsAreRight` (`RefusedWhenFull`): `GetPacket` gives up only when every
  aligned run of the size has a page of some packet in it. The code looks for a
  free node that is large enough; that a run of free pages is never spread over
  smaller nodes is `NoFreeBuddies`, by the same argument about the lowest level;
* `PagesAreGranted` (`ImplementsPageStore`): every step of the detailed module is a
  step of `PageStore` or a stutter. What a grant promises, pages that nobody
  else has, is `Tiling`.

Where an argument goes by induction on a number, it takes the least element of a
set of counterexamples (`WellFoundedInduction`), since the library's induction
theorems take an operator as parameter and the provers cannot instantiate them.

Model-checked only:

* everything about liveness: `WaitedRecvReturns`, `PollReturns`, `ClearReturns`,
  `StopEndsThread`, `WaiterReleased`, `RestartReturns`, `RunCarriedOut`,
  `TimersFire`, `StartedIsCalled`, `LastStopEndsThread`, `StopReturns` and
  `EZPacket`'s `CallsReturn`. The fairness of a specification and ENABLED are beyond the
  prover;
* the console (`ImplementsCommandLine`): what `StrParse` makes of a line is a
  RECURSIVE operator over its characters, so its correctness for every line is an
  induction over data.

The hypotheses of the theorems are those the code needs. `SemRoom` fails in the
Win32 build; `MaxLag <= WrapMargin` fails when the manager is not scheduled for ten
seconds around a wrap of the clock; `OneMethod` holds in every program of the
repository, and so does `NoSelfStop`; `AddedWhenUnlisted` fails in `thread_relist`. The assumptions on
constants say that sets are finite, which numbers are positive and that `NULL` is
none of the rest; TLC evaluates them in the runs.

## Not modelled

Wording of dumps, names, priorities, stack sizes, expected times; construction
and destruction of the primitives and errors of their system calls; the
destructors of `CEZThread`, `CEZPool` and `CPacketManager`, which run at the end
of the program or race with everything by design; the contents of packets
(`PutBuffer`, `SetLength`, headers, times) and the dumps of their store; reads
made for diagnostics (`DumpTimers`, `IsTimeout`); `process_counter_ms`, which the
library never calls; `SystemGetMSCount` in builds for Mac OS and for no known
system; the mouse message merge, which no build compiles;
`m_bShowContinue` and the printing of the console; the program around it
(`Solar.cpp`, `Main.cpp`, `CSimpleThread`), and the other demonstrations, which
are straight-line programs or repeat what the device and `EZThread` cover.

Hazards without a property are listed as such in `PROJECT.json`: destroying a
`CEZThread` whose body runs, a consumer left asleep after the test program's
`Stop()`, a run on a pooled thread that was never created, a callback of
`Stop(TRUE)` that stops its own timer, a shot that is lost because the callback of
the one before still runs, a callback that starts after `Stop` has returned, and
the console's lines with odd spaces or words that do not fit. The
code and its comments promise nothing there, so there is nothing to state but
the lack of a promise.

## What could come next

Every module of the plan is written, and every safety property of a run is
proved. What is left is smaller. `NobodyElseIsCalled` could be stated for
several methods with the weaker conclusion that the object which is called was
attached, whatever its method. `StrParse` as a fold over the line would let the
console's state machine (keys, the length of a line, the table's bounds) be
proved about, if not what a line means. And the fairness arguments could be
prepared by proving the steps of their ranking functions as action properties,
for instance that no step takes a waiting receiver's unit away.
