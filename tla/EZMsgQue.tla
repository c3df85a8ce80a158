------------------------------ MODULE EZMsgQue ------------------------------
(***************************************************************************)
(* The message queue of src/EZMsgQue.cpp: a std::list, a message count, an *)
(* "accepting" flag and a capacity, all guarded by m_MutexMsg, and the     *)
(* counting semaphore m_CEZSemaphore that receivers wait on.               *)
(*                                                                         *)
(* A region that runs under the mutex and blocks on nothing is one action; *)
(* the regions that block on the semaphore while they hold the mutex       *)
(* (RecvMessage without wait, ClearMessage) take and release it in         *)
(* separate actions.  The steps outside the mutex - the sender's Post, the *)
(* waiting receiver's Wait - are actions of their own, so every            *)
(* interleaving of senders and receivers is explored.                      *)
(***************************************************************************)
EXTENDS Integers, Sequences, FiniteSets

CONSTANTS
  Senders,      \* threads that call SendMessage
  Waiters,      \* threads that call RecvMessage(pMsg, TRUE)
  Pollers,      \* threads that call RecvMessage(pMsg, FALSE)
  Clearers,     \* threads that call ClearMessage
  Controllers,  \* threads that call QuitMessage and SetMessageSize
  Codes,        \* the msg codes senders pass
  Payloads,     \* the p_user_data pointers senders pass
  Priorities,   \* the priorities senders pass
  Sizes,        \* the capacities the queue is built with or resized to
  SemMax,       \* the semaphore's largest value (POSIX: SEM_VALUE_MAX,
                \* Win32: the 1 of CreateSemaphore)
  NULL

Threads == Senders \cup Waiters \cup Pollers \cup Clearers \cup Controllers

\* The constants are sets of the right kind; a queue of size 0 is legal.
ASSUME QueueAssumption ==
  /\ IsFiniteSet(Threads) /\ NULL \notin Threads
  /\ Priorities \subseteq Nat /\ Sizes \subseteq Nat /\ SemMax \in Nat

MSG_PRIORITY == 10
MSG_On_UserData == 1

\* MSG_NODE without its time stamp.  pri is the priority argument, which the
\* code looks at once and drops: the specification of MessageQueue needs it.
MsgNode(code, p)  == [msg |-> code, pData |-> NULL, pri |-> p]
UserNode(pointer) == [msg |-> MSG_On_UserData, pData |-> pointer, pri |-> 0]
Nodes == {MsgNode(c, p) : c \in Codes, p \in Priorities}
           \cup {UserNode(d) : d \in Payloads}

VARIABLES
  queue,     \* m_Queue, oldest message first (push_front is Append here)
  nMsg,      \* m_nMsg
  nMaxMsg,   \* m_nMaxMsg
  msgFlg,    \* m_bMsgFlg
  mutex,     \* m_MutexMsg's owner between actions, or NULL
  sem,       \* m_CEZSemaphore's value
  pc,        \* where each thread stands
  left,      \* n - i of the loop in ClearMessage
  out        \* the call that took effect last and what it returns

vars == <<queue, nMsg, nMaxMsg, msgFlg, mutex, sem, pc, left, out>>

PCs == {"idle",   \* not in a call
        "post",   \* SendMessage after Unlock, before m_CEZSemaphore.Post
        "wait",   \* RecvMessage(TRUE) before or blocked in m_CEZSemaphore.Wait
        "token",  \* RecvMessage(TRUE) after Wait, before it has the mutex
        "poll",   \* RecvMessage(FALSE) in Wait, holding the mutex
        "clear"}  \* ClearMessage in its loop, holding the mutex

Answers == [by : Threads \cup {NULL},
            op : {"none", "send", "recv", "poll", "clear", "quit", "resize"},
            ok : BOOLEAN, node : Nodes \cup {NULL}]

Init ==
  /\ queue = <<>> /\ nMsg = 0 /\ nMaxMsg \in Sizes /\ msgFlg = TRUE
  /\ mutex = NULL /\ sem = 0 /\ left = 0
  /\ pc = [t \in Threads |-> "idle"]
  /\ out = [by |-> NULL, op |-> "none", ok |-> TRUE, node |-> NULL]

-----------------------------------------------------------------------------
Free == mutex = NULL
At(t, label) == pc[t] = label
Goto(t, label) == pc' = [pc EXCEPT ![t] = label]
Answer(t, op, ok, node) ==
  out' = [by |-> t, op |-> op, ok |-> ok, node |-> node]

Accepts == nMsg < nMaxMsg /\ msgFlg

\* Mutation: SendMessage returns without posting the semaphore.
PushWithoutPost(t, node) ==
  /\ queue' = Append(queue, node)
  /\ nMsg' = nMsg + 1
  /\ Answer(t, "send", TRUE, node)
  /\ UNCHANGED <<nMaxMsg, msgFlg, mutex, sem, pc, left>>

\* The critical section of both SendMessages once a message is accepted.
Push(t, node) ==
  /\ queue' = Append(queue, node)
  /\ nMsg' = nMsg + 1
  /\ Goto(t, "post")
  /\ Answer(t, "send", TRUE, node)
  /\ UNCHANGED <<nMaxMsg, msgFlg, mutex, sem, left>>

Refuse(t) ==
  /\ Answer(t, "send", FALSE, NULL)
  /\ UNCHANGED <<queue, nMsg, nMaxMsg, msgFlg, mutex, sem, pc, left>>

SendMessage(t, code, priority) ==
  /\ At(t, "idle") /\ Free
  /\ \/ Accepts /\ priority < MSG_PRIORITY /\ Push(t, MsgNode(code, priority))
     \/ ~(Accepts /\ priority < MSG_PRIORITY) /\ Refuse(t)

SendUserData(t, pointer) ==
  /\ At(t, "idle") /\ Free
  /\ \/ Accepts /\ Push(t, UserNode(pointer))
     \/ ~Accepts /\ Refuse(t)

\* Mutation: the semaphore only knows "some message".
PostBinary(t) ==
  /\ At(t, "post")
  /\ sem' = 1
  /\ Goto(t, "idle")
  /\ UNCHANGED <<queue, nMsg, nMaxMsg, msgFlg, mutex, left, out>>

\* The sender's m_CEZSemaphore.Post(), after it gave the mutex back.  A
\* semaphore at its largest value refuses the post and nobody looks.
Post(t) ==
  /\ At(t, "post")
  /\ sem' = IF sem < SemMax THEN sem + 1 ELSE sem
  /\ Goto(t, "idle")
  /\ UNCHANGED <<queue, nMsg, nMaxMsg, msgFlg, mutex, left, out>>

\* Mutation: the newest message is taken instead of the oldest.
PopNewest(t, op) ==
  /\ queue' = SubSeq(queue, 1, Len(queue) - 1)
  /\ nMsg' = nMsg - 1
  /\ Goto(t, "idle")
  /\ Answer(t, op, TRUE, queue[Len(queue)])

\* *pMsg = m_Queue.back(); m_Queue.pop_back(); m_nMsg--; return TRUE.
Pop(t, op) ==
  /\ queue' = Tail(queue)
  /\ nMsg' = nMsg - 1
  /\ Goto(t, "idle")
  /\ Answer(t, op, TRUE, Head(queue))

\* A receive that finds m_Queue empty under the mutex returns FALSE.
FindEmpty(t, op) ==
  /\ queue = <<>>
  /\ Goto(t, "idle")
  /\ Answer(t, op, FALSE, NULL)
  /\ UNCHANGED <<queue, nMsg, nMaxMsg, msgFlg, mutex, sem, left>>

RecvWait(t) ==
  /\ At(t, "idle")
  /\ Goto(t, "wait")
  /\ UNCHANGED <<queue, nMsg, nMaxMsg, msgFlg, mutex, sem, left, out>>

TakeToken(t) ==
  /\ At(t, "wait") /\ sem > 0
  /\ sem' = sem - 1
  /\ Goto(t, "token")
  /\ UNCHANGED <<queue, nMsg, nMaxMsg, msgFlg, mutex, left, out>>

RecvLocked(t) ==
  /\ At(t, "token") /\ Free
  /\ \/ FindEmpty(t, "recv")
     \/ /\ queue # <<>>
        /\ Pop(t, "recv")
        /\ UNCHANGED <<nMaxMsg, msgFlg, mutex, sem, left>>

\* Mutation: the non-waiting receive does not look whether m_Queue is empty.
RecvPollUnchecked(t) ==
  /\ At(t, "idle") /\ Free
  /\ mutex' = t
  /\ Goto(t, "poll")
  /\ UNCHANGED <<queue, nMsg, nMaxMsg, msgFlg, sem, left, out>>

RecvPoll(t) ==
  /\ At(t, "idle") /\ Free
  /\ \/ FindEmpty(t, "poll")
     \/ /\ queue # <<>>
        /\ mutex' = t
        /\ Goto(t, "poll")
        /\ UNCHANGED <<queue, nMsg, nMaxMsg, msgFlg, sem, left, out>>

\* The non-waiting receive's m_CEZSemaphore.Wait(), under the mutex.
PollTake(t) ==
  /\ At(t, "poll") /\ sem > 0
  /\ sem' = sem - 1
  /\ mutex' = NULL
  /\ Pop(t, "poll")
  /\ UNCHANGED <<nMaxMsg, msgFlg, left>>

\* Mutation: one round too many.
ClearOneTooMany(t) ==
  /\ At(t, "idle") /\ Free
  /\ mutex' = t
  /\ left' = nMsg + 1
  /\ Goto(t, "clear")
  /\ Answer(t, "clear", TRUE, NULL)
  /\ UNCHANGED <<queue, nMsg, nMaxMsg, msgFlg, sem>>

ClearMessage(t) ==
  /\ At(t, "idle") /\ Free
  /\ mutex' = t
  /\ left' = nMsg
  /\ Goto(t, "clear")
  /\ Answer(t, "clear", TRUE, NULL)
  /\ UNCHANGED <<queue, nMsg, nMaxMsg, msgFlg, sem>>

ClearOne(t) ==
  /\ At(t, "clear") /\ left > 0 /\ sem > 0
  /\ sem' = sem - 1
  /\ queue' = Tail(queue)
  /\ nMsg' = nMsg - 1
  /\ left' = left - 1
  /\ UNCHANGED <<nMaxMsg, msgFlg, mutex, pc, out>>

ClearEnd(t) ==
  /\ At(t, "clear") /\ left = 0
  /\ mutex' = NULL
  /\ Goto(t, "idle")
  /\ UNCHANGED <<queue, nMsg, nMaxMsg, msgFlg, sem, left, out>>

QuitMessage(t) ==
  /\ At(t, "idle") /\ Free
  /\ msgFlg' = FALSE
  /\ Answer(t, "quit", TRUE, NULL)
  /\ UNCHANGED <<queue, nMsg, nMaxMsg, mutex, sem, pc, left>>

SetMessageSize(t, size) ==
  /\ At(t, "idle") /\ Free
  /\ nMaxMsg' = size
  /\ Answer(t, "resize", TRUE, NULL)
  /\ UNCHANGED <<queue, nMsg, msgFlg, mutex, sem, pc, left>>

Next ==
  \/ \E t \in Senders : \/ \E c \in Codes, p \in Priorities : SendMessage(t, c, p)
                        \/ \E d \in Payloads : SendUserData(t, d)
                        \/ Post(t)
  \/ \E t \in Waiters : RecvWait(t) \/ TakeToken(t) \/ RecvLocked(t)
  \/ \E t \in Pollers : RecvPoll(t) \/ PollTake(t)
  \/ \E t \in Clearers : ClearMessage(t) \/ ClearOne(t) \/ ClearEnd(t)
  \/ \E t \in Controllers : \/ QuitMessage(t)
                            \/ \E size \in Sizes : SetMessageSize(t, size)

Spec == Init /\ [][Next]_vars

\* A thread inside a call is scheduled again and again; nobody is obliged to
\* make a new call.
Fairness ==
  /\ \A t \in Senders : WF_vars(Post(t))
  /\ \A t \in Waiters : WF_vars(TakeToken(t)) /\ WF_vars(RecvLocked(t))
  /\ \A t \in Pollers : WF_vars(PollTake(t))
  /\ \A t \in Clearers : WF_vars(ClearOne(t) \/ ClearEnd(t))

FairSpec == Spec /\ Fairness

-----------------------------------------------------------------------------
(* Properties *)

\* Every variable holds a value of its kind.
TypeOK ==
  /\ queue \in Seq(Nodes) /\ nMsg \in Int /\ nMaxMsg \in Sizes
  /\ msgFlg \in BOOLEAN /\ mutex \in Threads \cup {NULL} /\ sem \in Nat
  /\ pc \in [Threads -> PCs] /\ left \in Int /\ out \in Answers

TokenHolders == {t \in Threads : pc[t] = "token"}
Posting == {t \in Threads : pc[t] = "post"}

\* The semaphore accounts for every queued message: each one is matched by a
\* unit of the semaphore, a receiver that has already taken its unit, or a
\* sender that has yet to post it; and m_nMsg is the length of m_Queue.  The
\* code relies on it for assert(m_nMsg), for the pop_back()s and for never
\* leaving a receiver asleep next to a message, although semaphore and queue
\* are never updated together.
TokenBalance ==
  /\ nMsg = Len(queue)
  /\ sem + Cardinality(TokenHolders) + Cardinality(Posting) = Len(queue)

\* A semaphore that can count every message the queue may hold (any POSIX
\* build; not the Win32 one, whose SemMax is 1).
SemRoom == \A size \in Sizes : size <= SemMax

\* The mutex is held between actions exactly by the thread that blocks on the
\* semaphore under it, and a ClearMessage has as many rounds left as there
\* are messages: nobody can push while it runs.
MutexHeldByBlocker ==
  /\ \A t \in Threads : mutex = t <=> pc[t] \in {"poll", "clear"}
  /\ \A t \in Threads : pc[t] = "clear" => left = nMsg

\* The inductive invariant behind TokenBalance and ImplementsMessageQueue:
\* Post never meets a full semaphore, and a pop never meets an empty queue.
IInv == /\ TypeOK
        /\ TokenBalance
        /\ MutexHeldByBlocker
        /\ Len(queue) <= SemMax

\* The queue of the abstract specification: ClearMessage takes effect when it
\* gets the mutex, so what it has still to pop counts as gone.
Undelivered == IF \E t \in Threads : pc[t] = "clear" THEN <<>> ELSE queue

Abstract == INSTANCE MessageQueue
              WITH q <- Undelivered, open <- msgFlg, cap <- nMaxMsg,
                   MaxPriority <- MSG_PRIORITY

\* Each call acts as one step on a bounded FIFO: no message is lost,
\* duplicated or reordered between a push and the pop that returns it, a
\* receive that waits never comes back empty-handed, and ClearMessage leaves
\* exactly an empty queue.
ImplementsMessageQueue == Abstract!Spec

\* A waiting receive returns once there is a message (EZMsgQue.cpp:142).
\* Holds with a single consumer; with several, another one may take it.
WaitedRecvReturns ==
  \A t \in Waiters : (pc[t] = "wait" /\ queue # <<>>) ~> pc[t] = "idle"

\* A receive that does not wait returns (EZMsgQue.cpp:142), although it waits
\* on the semaphore while it holds the mutex.
PollReturns == \A t \in Pollers : pc[t] = "poll" ~> pc[t] = "idle"

\* ClearMessage returns, although it waits for the token of every message
\* while it holds the mutex.
ClearReturns == \A t \in Clearers : pc[t] = "clear" ~> pc[t] = "idle"
=============================================================================
