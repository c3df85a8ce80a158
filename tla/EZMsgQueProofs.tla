--------------------------- MODULE EZMsgQueProofs ---------------------------
(***************************************************************************)
(* Theorems about EZMsgQue for any number of threads, messages and sizes.  *)
(* All of them rest on IInv, which needs a semaphore that can count every  *)
(* message the queue may hold (SemRoom).                                   *)
(***************************************************************************)
EXTENDS EZMsgQue, FiniteSetTheorems, SequenceTheorems, TLAPS

\* The threads that f has at place L.
Who(f, L) == {u \in Threads : f[u] = L}

\* Whoever is where, they are finitely many.
LEMMA WhoFinite ==
  ASSUME NEW f, NEW L
  PROVE  IsFiniteSet(Who(f, L)) /\ Cardinality(Who(f, L)) \in Nat
<1>1. Who(f, L) \subseteq Threads
  BY DEF Who
<1>2. IsFiniteSet(Who(f, L))
  BY <1>1, QueueAssumption, FS_Subset
<1> QED BY <1>2, FS_CardinalityType

\* Somebody at place L: the count is positive.
LEMMA SomeoneCounted ==
  ASSUME NEW f, NEW t \in Threads
  PROVE  Cardinality(Who(f, f[t])) > 0
<1>1. IsFiniteSet(Who(f, f[t])) /\ Cardinality(Who(f, f[t])) \in Nat
  BY WhoFinite
<1>2. t \in Who(f, f[t])
  BY DEF Who
<1>3. Cardinality(Who(f, f[t])) # 0
  BY <1>1, <1>2, FS_EmptySet
<1> QED BY <1>1, <1>3

-----------------------------------------------------------------------------
\* The initial states satisfy the invariant: nobody is in a call, and the
\* queue and the semaphore are empty.
LEMMA InitIInv == ASSUME Init PROVE IInv
<1> USE DEF Init
<1>1. TypeOK
  BY QueueAssumption DEF TypeOK, PCs, Answers
<1>2. TokenHolders = {} /\ Posting = {}
  BY DEF TokenHolders, Posting
<1>3. TokenBalance
  BY <1>2, FS_EmptySet DEF TokenBalance
<1>4. MutexHeldByBlocker
  BY QueueAssumption DEF MutexHeldByBlocker
<1> QED BY <1>1, <1>3, <1>4, QueueAssumption DEF IInv

-----------------------------------------------------------------------------
\* What the invariant says in terms a step can use: the counts are numbers, a
\* thread at "post" or "token" is counted, and the queue is long enough.
LEMMA Counted ==
  ASSUME IInv, NEW t \in Threads
  PROVE  /\ Cardinality(TokenHolders) \in Nat
         /\ Cardinality(Posting) \in Nat
         /\ pc[t] = "token" => Cardinality(TokenHolders) > 0
         /\ pc[t] = "post" => Cardinality(Posting) > 0
         /\ (sem > 0 \/ pc[t] = "token") => queue # <<>>
<1>1. pc \in [Threads -> PCs] /\ sem \in Nat /\ queue \in Seq(Nodes)
  BY DEF IInv, TypeOK
<1>2. TokenHolders = Who(pc, "token") /\ Posting = Who(pc, "post")
  BY DEF TokenHolders, Posting, Who
<1>3. Cardinality(TokenHolders) \in Nat /\ Cardinality(Posting) \in Nat
  BY <1>2, WhoFinite
<1>4. pc[t] = "token" => Cardinality(TokenHolders) > 0
  BY <1>2, SomeoneCounted
<1>5. pc[t] = "post" => Cardinality(Posting) > 0
  BY <1>2, SomeoneCounted
<1>6. (sem > 0 \/ pc[t] = "token") => Len(queue) > 0
  BY <1>1, <1>3, <1>4 DEF IInv, TokenBalance
<1> QED BY <1>1, <1>3, <1>4, <1>5, <1>6

\* How a move of pc changes the two counts TokenBalance adds up.
LEMMA MoveBalance ==
  ASSUME pc \in [Threads -> PCs], NEW t \in Threads, NEW to \in PCs,
         pc[t] # to, Goto(t, to)
  PROVE  /\ pc' \in [Threads -> PCs]
         /\ Cardinality(TokenHolders) \in Nat
         /\ Cardinality(Posting) \in Nat
         /\ Cardinality(TokenHolders') =
              Cardinality(TokenHolders) + (IF to = "token" THEN 1 ELSE 0)
                                        - (IF pc[t] = "token" THEN 1 ELSE 0)
         /\ Cardinality(Posting') =
              Cardinality(Posting) + (IF to = "post" THEN 1 ELSE 0)
                                   - (IF pc[t] = "post" THEN 1 ELSE 0)
<1>1. pc' = [pc EXCEPT ![t] = to]
  BY DEF Goto
<1>2. pc' \in [Threads -> PCs]
  BY <1>1
<1>3. /\ TokenHolders = Who(pc, "token") /\ Posting = Who(pc, "post")
      /\ TokenHolders' = Who(pc', "token") /\ Posting' = Who(pc', "post")
  BY DEF TokenHolders, Posting, Who
<1>4. ASSUME NEW L
      PROVE  Cardinality(Who(pc', L)) =
               Cardinality(Who(pc, L)) + (IF to = L THEN 1 ELSE 0)
                                       - (IF pc[t] = L THEN 1 ELSE 0)
  <2> DEFINE Before == Who(pc, L)
             After  == Who(pc', L)
  <2>1. IsFiniteSet(Before) /\ Cardinality(Before) \in Nat
    BY WhoFinite
  <2>2. CASE to # L /\ pc[t] # L
    <3>1. After = Before
      BY <1>1, <2>2 DEF Who
    <3> QED BY <2>1, <2>2, <3>1
  <2>3. CASE to = L
    <3>1. After = Before \cup {t} /\ t \notin Before
      BY <1>1, <2>3 DEF Who
    <3>2. Cardinality(After) = Cardinality(Before) + 1
      BY <2>1, <3>1, FS_AddElement
    <3> QED BY <2>1, <2>3, <3>2
  <2>4. CASE pc[t] = L
    <3>1. After = Before \ {t} /\ t \in Before
      BY <1>1, <2>4 DEF Who
    <3>2. Cardinality(After) = Cardinality(Before) - 1
      BY <2>1, <3>1, FS_RemoveElement
    <3> QED BY <2>1, <2>4, <3>2
  <2> QED BY <2>2, <2>3, <2>4
<1>5. Cardinality(TokenHolders) \in Nat /\ Cardinality(Posting) \in Nat
  BY <1>3, WhoFinite
<1> QED BY <1>2, <1>3, <1>4, <1>5

\* A step that moves nobody changes neither count.
LEMMA StayBalance ==
  ASSUME UNCHANGED pc
  PROVE  TokenHolders' = TokenHolders /\ Posting' = Posting
BY DEF TokenHolders, Posting

\* A pop takes the oldest message and leaves a sequence one shorter.
LEMMA TailFacts ==
  ASSUME NEW S, NEW s \in Seq(S), s # <<>>
  PROVE  Tail(s) \in Seq(S) /\ Len(Tail(s)) = Len(s) - 1 /\ Head(s) \in S
BY HeadTailProperties

LEMMA AppendFacts ==
  ASSUME NEW S, NEW s \in Seq(S), NEW e \in S
  PROVE  Append(s, e) \in Seq(S) /\ Len(Append(s, e)) = Len(s) + 1
BY AppendProperties

\* An answer about a node of the right kind is one of the Answers.
LEMMA AnswerFacts ==
  ASSUME NEW t \in Threads, NEW ok \in BOOLEAN, NEW node \in Nodes \cup {NULL},
         NEW op \in {"send", "recv", "poll", "clear", "quit", "resize"},
         Answer(t, op, ok, node)
  PROVE  out' \in Answers
BY DEF Answer, Answers

-----------------------------------------------------------------------------
\* A refused send changes only the answer.
LEMMA RefusePreserves ==
  ASSUME IInv, NEW t \in Threads, Refuse(t)
  PROVE  IInv'
<1> USE DEF Refuse
<1>1. out' \in Answers
  BY AnswerFacts
<1>2. TypeOK'
  BY <1>1 DEF IInv, TypeOK
<1>3. TokenBalance'
  BY StayBalance DEF IInv, TokenBalance
<1>4. MutexHeldByBlocker'
  BY DEF IInv, MutexHeldByBlocker
<1> QED BY <1>2, <1>3, <1>4 DEF IInv

\* An accepted send: one more message, one more thread that owes a post.
LEMMA PushPreserves ==
  ASSUME SemRoom, IInv, NEW t \in Threads, NEW node \in Nodes,
         At(t, "idle"), Free, Accepts, Push(t, node)
  PROVE  IInv'
<1>1. /\ pc \in [Threads -> PCs] /\ "post" \in PCs /\ pc[t] = "idle"
      /\ queue \in Seq(Nodes) /\ nMsg = Len(queue) /\ nMaxMsg \in Sizes
      /\ sem \in Nat
      /\ sem + Cardinality(TokenHolders) + Cardinality(Posting) = Len(queue)
  BY DEF IInv, TypeOK, TokenBalance, PCs, At
<1>2. /\ pc' \in [Threads -> PCs]
      /\ Cardinality(TokenHolders) \in Nat /\ Cardinality(Posting) \in Nat
      /\ Cardinality(TokenHolders') = Cardinality(TokenHolders)
      /\ Cardinality(Posting') = Cardinality(Posting) + 1
  BY <1>1, MoveBalance DEF Push
<1>3. /\ queue' \in Seq(Nodes) /\ Len(queue') = Len(queue) + 1
      /\ nMsg' = Len(queue) + 1 /\ sem' = sem
  BY <1>1, AppendFacts DEF Push
<1>4. out' \in Answers
  BY AnswerFacts DEF Push
<1>5. TypeOK'
  BY <1>1, <1>2, <1>3, <1>4 DEF IInv, TypeOK, Push
<1>6. TokenBalance'
  <2>1. nMsg' = Len(queue')
    BY <1>3
  <2>2. sem' + Cardinality(TokenHolders') + Cardinality(Posting')
          = (sem + Cardinality(TokenHolders) + Cardinality(Posting)) + 1
    BY <1>1, <1>2, <1>3
  <2> QED BY <1>1, <1>3, <2>1, <2>2 DEF TokenBalance
<1>7. MutexHeldByBlocker'
  BY <1>1, QueueAssumption DEF IInv, MutexHeldByBlocker, Goto, Free, Push
<1>8. Len(queue') <= SemMax
  BY <1>1, <1>3, QueueAssumption DEF SemRoom, Accepts
<1> QED BY <1>5, <1>6, <1>7, <1>8 DEF IInv

\* The post: the semaphore is not full, because the message it stands for is
\* still counted as owed.
LEMMA PostPreserves ==
  ASSUME IInv, NEW t \in Threads, Post(t)
  PROVE  IInv'
<1> USE DEF Post
<1>1. /\ pc \in [Threads -> PCs] /\ "idle" \in PCs /\ pc[t] = "post"
      /\ sem \in Nat /\ SemMax \in Nat
  BY QueueAssumption DEF IInv, TypeOK, PCs, At
<1>2. /\ pc' \in [Threads -> PCs]
      /\ Cardinality(TokenHolders) \in Nat /\ Cardinality(Posting) \in Nat
      /\ Cardinality(TokenHolders') = Cardinality(TokenHolders)
      /\ Cardinality(Posting') = Cardinality(Posting) - 1
  BY <1>1, MoveBalance
<1>3. Cardinality(Posting) > 0
  BY <1>1, Counted
<1>4. sem < SemMax /\ sem' = sem + 1
  BY <1>1, <1>2, <1>3 DEF IInv, TokenBalance
<1>5. TypeOK'
  BY <1>1, <1>2, <1>4 DEF IInv, TypeOK
<1>6. TokenBalance'
  BY <1>1, <1>2, <1>4 DEF IInv, TokenBalance
<1>7. MutexHeldByBlocker'
  BY <1>1 DEF IInv, MutexHeldByBlocker, Goto
<1> QED BY <1>5, <1>6, <1>7 DEF IInv

\* RecvMessage(TRUE) is called, and gets its token.
LEMMA WaitPreserves ==
  ASSUME IInv, NEW t \in Threads, RecvWait(t) \/ TakeToken(t)
  PROVE  IInv'
<1>1. /\ pc \in [Threads -> PCs] /\ sem \in Nat
      /\ "wait" \in PCs /\ "token" \in PCs
      /\ sem + Cardinality(TokenHolders) + Cardinality(Posting) = Len(queue)
  BY DEF IInv, TypeOK, TokenBalance, PCs
<1>2. CASE RecvWait(t)
  <2>1. /\ pc' \in [Threads -> PCs]
        /\ Cardinality(TokenHolders') = Cardinality(TokenHolders)
        /\ Cardinality(Posting') = Cardinality(Posting)
    BY <1>1, <1>2, MoveBalance DEF RecvWait, At
  <2>2. TypeOK' /\ TokenBalance'
    BY <1>2, <2>1 DEF IInv, TypeOK, TokenBalance, RecvWait
  <2>3. MutexHeldByBlocker'
    BY <1>1, <1>2 DEF IInv, MutexHeldByBlocker, Goto, RecvWait, At
  <2> QED BY <1>2, <2>2, <2>3 DEF IInv, RecvWait
<1>3. CASE TakeToken(t)
  <2>1. /\ pc' \in [Threads -> PCs]
        /\ Cardinality(TokenHolders) \in Nat /\ Cardinality(Posting) \in Nat
        /\ Cardinality(TokenHolders') = Cardinality(TokenHolders) + 1
        /\ Cardinality(Posting') = Cardinality(Posting)
    BY <1>1, <1>3, MoveBalance DEF TakeToken, At
  <2>2. sem' = sem - 1 /\ sem' \in Nat
    BY <1>1, <1>3 DEF TakeToken
  <2>3. TypeOK'
    BY <1>3, <2>1, <2>2 DEF IInv, TypeOK, TakeToken
  <2>4. nMsg' = nMsg /\ Len(queue') = Len(queue) /\ nMsg = Len(queue)
    BY <1>3 DEF IInv, TokenBalance, TakeToken
  <2>5. TokenBalance'
    BY <1>1, <2>1, <2>2, <2>4 DEF TokenBalance
  <2>6. MutexHeldByBlocker'
    BY <1>1, <1>3 DEF IInv, MutexHeldByBlocker, Goto, TakeToken, At
  <2> QED BY <1>3, <2>3, <2>5, <2>6 DEF IInv, TakeToken
<1> QED BY <1>2, <1>3

\* A poll on an empty queue.
LEMMA PollEmptyPreserves ==
  ASSUME IInv, NEW t \in Threads, At(t, "idle"), Free, FindEmpty(t, "poll")
  PROVE  IInv'
<1>1. /\ pc \in [Threads -> PCs] /\ pc[t] = "idle"
      /\ pc' = [pc EXCEPT ![t] = "idle"]
  BY DEF IInv, TypeOK, At, FindEmpty, Goto
<1>2. pc' = pc
  BY <1>1
<1>3. out' \in Answers
  BY AnswerFacts DEF FindEmpty
<1>4. TypeOK'
  BY <1>2, <1>3 DEF IInv, TypeOK, FindEmpty
<1>5. TokenBalance'
  BY <1>2, StayBalance DEF IInv, TokenBalance, FindEmpty
<1>6. MutexHeldByBlocker'
  BY <1>2 DEF IInv, MutexHeldByBlocker, FindEmpty
<1> QED BY <1>4, <1>5, <1>6 DEF IInv, FindEmpty

\* The receiver with a token finds a message and takes it.
LEMMA RecvLockedPreserves ==
  ASSUME IInv, NEW t \in Threads, RecvLocked(t)
  PROVE  IInv'
<1>1. /\ pc \in [Threads -> PCs] /\ "idle" \in PCs /\ pc[t] = "token"
      /\ queue \in Seq(Nodes) /\ nMsg = Len(queue) /\ sem \in Nat
      /\ sem + Cardinality(TokenHolders) + Cardinality(Posting) = Len(queue)
      /\ Len(queue) <= SemMax /\ SemMax \in Nat
  BY QueueAssumption DEF IInv, TypeOK, TokenBalance, PCs, At, RecvLocked
<1>2. queue # <<>>
  BY <1>1, Counted
<1>3. /\ Pop(t, "recv")
      /\ UNCHANGED <<nMaxMsg, msgFlg, mutex, sem, left>>
      /\ mutex = NULL
  BY <1>2 DEF RecvLocked, FindEmpty, Free
<1>4. /\ queue' \in Seq(Nodes) /\ Len(queue') = Len(queue) - 1
      /\ Head(queue) \in Nodes /\ nMsg' = nMsg - 1
  BY <1>1, <1>2, <1>3, TailFacts DEF Pop
<1>5. /\ pc' \in [Threads -> PCs]
      /\ Cardinality(TokenHolders) \in Nat /\ Cardinality(Posting) \in Nat
      /\ Cardinality(TokenHolders') = Cardinality(TokenHolders) - 1
      /\ Cardinality(Posting') = Cardinality(Posting)
  BY <1>1, <1>3, MoveBalance DEF Pop
<1>6. out' \in Answers
  BY <1>3, <1>4, AnswerFacts DEF Pop
<1>7. TypeOK'
  BY <1>1, <1>3, <1>4, <1>5, <1>6 DEF IInv, TypeOK
<1>8. TokenBalance'
  BY <1>1, <1>3, <1>4, <1>5 DEF TokenBalance
<1>9. MutexHeldByBlocker'
  BY <1>1, <1>3, QueueAssumption DEF IInv, MutexHeldByBlocker, Pop, Goto
<1>10. Len(queue') <= SemMax
  BY <1>1, <1>4, LenProperties
<1> QED BY <1>7, <1>8, <1>9, <1>10 DEF IInv

\* A poll that finds a message takes the mutex, then a token and the message.
LEMMA PollPreserves ==
  ASSUME IInv, NEW t \in Threads, RecvPoll(t) \/ PollTake(t)
  PROVE  IInv'
<1>1. /\ pc \in [Threads -> PCs] /\ "idle" \in PCs /\ "poll" \in PCs
      /\ queue \in Seq(Nodes) /\ nMsg = Len(queue) /\ sem \in Nat
      /\ sem + Cardinality(TokenHolders) + Cardinality(Posting) = Len(queue)
      /\ Len(queue) <= SemMax /\ SemMax \in Nat
  BY QueueAssumption DEF IInv, TypeOK, TokenBalance, PCs
<1>2. CASE RecvPoll(t) /\ queue = <<>>
  BY <1>2, PollEmptyPreserves DEF RecvPoll
<1>3. CASE RecvPoll(t) /\ queue # <<>>
  <2>1. /\ pc[t] = "idle" /\ mutex = NULL /\ mutex' = t
        /\ Goto(t, "poll")
        /\ UNCHANGED <<queue, nMsg, nMaxMsg, msgFlg, sem, left, out>>
    BY <1>3 DEF RecvPoll, FindEmpty, At, Free
  <2>2. /\ pc' \in [Threads -> PCs]
        /\ Cardinality(TokenHolders') = Cardinality(TokenHolders)
        /\ Cardinality(Posting') = Cardinality(Posting)
    BY <1>1, <2>1, MoveBalance
  <2>3. TypeOK' /\ TokenBalance'
    BY <2>1, <2>2 DEF IInv, TypeOK, TokenBalance
  <2>4. MutexHeldByBlocker'
    BY <1>1, <2>1, QueueAssumption DEF IInv, MutexHeldByBlocker, Goto
  <2> QED BY <2>1, <2>3, <2>4 DEF IInv
<1>4. CASE PollTake(t)
  <2>1. queue # <<>>
    BY <1>4, Counted DEF PollTake
  <2>2. /\ pc[t] = "poll" /\ sem > 0 /\ sem' = sem - 1 /\ mutex' = NULL
        /\ Pop(t, "poll")
        /\ UNCHANGED <<nMaxMsg, msgFlg, left>>
    BY <1>4 DEF PollTake, At
  <2>3. /\ queue' \in Seq(Nodes) /\ Len(queue') = Len(queue) - 1
        /\ Head(queue) \in Nodes /\ nMsg' = nMsg - 1
    BY <1>1, <2>1, <2>2, TailFacts DEF Pop
  <2>4. /\ pc' \in [Threads -> PCs]
        /\ Cardinality(TokenHolders) \in Nat /\ Cardinality(Posting) \in Nat
        /\ Cardinality(TokenHolders') = Cardinality(TokenHolders)
        /\ Cardinality(Posting') = Cardinality(Posting)
    BY <1>1, <2>2, MoveBalance DEF Pop
  <2>5. out' \in Answers
    BY <2>2, <2>3, AnswerFacts DEF Pop
  <2>6. TypeOK'
    BY <1>1, <2>2, <2>3, <2>4, <2>5 DEF IInv, TypeOK
  <2>7. TokenBalance'
    BY <1>1, <2>2, <2>3, <2>4 DEF TokenBalance
  <2>8. MutexHeldByBlocker'
    BY <1>1, <2>2, QueueAssumption DEF IInv, MutexHeldByBlocker, Pop, Goto
  <2>9. Len(queue') <= SemMax
    BY <1>1, <2>3, LenProperties
  <2> QED BY <2>6, <2>7, <2>8, <2>9 DEF IInv
<1> QED BY <1>2, <1>3, <1>4

\* ClearMessage takes the mutex, pops as often as it counted, and ends.
LEMMA ClearPreserves ==
  ASSUME IInv, NEW t \in Threads, ClearMessage(t) \/ ClearOne(t) \/ ClearEnd(t)
  PROVE  IInv'
<1>1. /\ pc \in [Threads -> PCs] /\ "idle" \in PCs /\ "clear" \in PCs
      /\ queue \in Seq(Nodes) /\ nMsg = Len(queue) /\ sem \in Nat
      /\ sem + Cardinality(TokenHolders) + Cardinality(Posting) = Len(queue)
      /\ Len(queue) <= SemMax /\ SemMax \in Nat
  BY QueueAssumption DEF IInv, TypeOK, TokenBalance, PCs
<1>2. CASE ClearMessage(t)
  <2>1. /\ pc' \in [Threads -> PCs]
        /\ Cardinality(TokenHolders') = Cardinality(TokenHolders)
        /\ Cardinality(Posting') = Cardinality(Posting)
    BY <1>1, <1>2, MoveBalance DEF ClearMessage, At
  <2>2. out' \in Answers
    BY <1>2, AnswerFacts DEF ClearMessage
  <2>3. TypeOK' /\ TokenBalance'
    BY <1>2, <2>1, <2>2 DEF IInv, TypeOK, TokenBalance, ClearMessage
  <2>4. MutexHeldByBlocker'
    BY <1>1, <1>2, QueueAssumption
       DEF IInv, MutexHeldByBlocker, Goto, ClearMessage, At, Free
  <2> QED BY <1>2, <2>3, <2>4 DEF IInv, ClearMessage
<1>3. CASE ClearOne(t)
  <2>1. queue # <<>>
    BY <1>3, Counted DEF ClearOne
  <2>2. /\ queue' \in Seq(Nodes) /\ Len(queue') = Len(queue) - 1
        /\ nMsg' = nMsg - 1 /\ sem > 0 /\ sem' = sem - 1
    BY <1>1, <1>3, <2>1, TailFacts DEF ClearOne
  <2>3. TypeOK'
    BY <1>1, <1>3, <2>2 DEF IInv, TypeOK, ClearOne
  <2>4. /\ TokenHolders' = TokenHolders /\ Posting' = Posting
        /\ Cardinality(TokenHolders) \in Nat /\ Cardinality(Posting) \in Nat
    BY <1>3, StayBalance, Counted DEF ClearOne
  <2>5. TokenBalance'
    BY <1>1, <2>2, <2>4 DEF TokenBalance
  <2>6. MutexHeldByBlocker'
    <3>1. \A u \in Threads : pc[u] = "clear" => left = nMsg /\ mutex = u
      BY DEF IInv, MutexHeldByBlocker
    <3>2. left' = left - 1 /\ nMsg' = nMsg - 1 /\ mutex' = mutex /\ pc' = pc
      BY <1>3 DEF ClearOne
    <3> QED BY <3>1, <3>2 DEF IInv, MutexHeldByBlocker
  <2>7. Len(queue') <= SemMax
    BY <1>1, <2>2, LenProperties
  <2> QED BY <2>3, <2>5, <2>6, <2>7 DEF IInv
<1>4. CASE ClearEnd(t)
  <2>1. /\ pc' \in [Threads -> PCs]
        /\ Cardinality(TokenHolders') = Cardinality(TokenHolders)
        /\ Cardinality(Posting') = Cardinality(Posting)
    <3>1. pc[t] = "clear" /\ pc[t] # "idle" /\ Goto(t, "idle")
      BY <1>4 DEF ClearEnd, At
    <3>2. "idle" \in PCs /\ pc \in [Threads -> PCs]
      BY <1>1 DEF PCs
    <3>3. /\ pc' \in [Threads -> PCs]
          /\ Cardinality(TokenHolders) \in Nat /\ Cardinality(Posting) \in Nat
          /\ Cardinality(TokenHolders') = Cardinality(TokenHolders) + 0 - 0
          /\ Cardinality(Posting') = Cardinality(Posting) + 0 - 0
      BY <3>1, <3>2, MoveBalance
    <3> QED BY <3>3
  <2>2. TypeOK' /\ TokenBalance'
    BY <1>4, <2>1 DEF IInv, TypeOK, TokenBalance, ClearEnd
  <2>3. MutexHeldByBlocker'
    BY <1>1, <1>4, QueueAssumption
       DEF IInv, MutexHeldByBlocker, Goto, ClearEnd, At
  <2> QED BY <1>4, <2>2, <2>3 DEF IInv, ClearEnd
<1> QED BY <1>2, <1>3, <1>4

\* QuitMessage and SetMessageSize touch neither the messages nor the tokens.
LEMMA ControlPreserves ==
  ASSUME IInv, NEW t \in Threads,
         QuitMessage(t) \/ \E size \in Sizes : SetMessageSize(t, size)
  PROVE  IInv'
<1>1. out' \in Answers
  BY AnswerFacts DEF QuitMessage, SetMessageSize
<1>2. TypeOK'
  BY <1>1 DEF IInv, TypeOK, QuitMessage, SetMessageSize
<1>3. TokenBalance'
  BY StayBalance DEF IInv, TokenBalance, QuitMessage, SetMessageSize
<1>4. MutexHeldByBlocker'
  BY DEF IInv, MutexHeldByBlocker, QuitMessage, SetMessageSize
<1> QED BY <1>2, <1>3, <1>4 DEF IInv, QuitMessage, SetMessageSize

\* Either SendMessage, when it accepts and when it refuses.
LEMMA SendPreserves ==
  ASSUME SemRoom, IInv, NEW t \in Threads,
         \/ \E c \in Codes, p \in Priorities : SendMessage(t, c, p)
         \/ \E d \in Payloads : SendUserData(t, d)
  PROVE  IInv'
<1>1. ASSUME NEW c \in Codes, NEW p \in Priorities, SendMessage(t, c, p)
      PROVE  IInv'
  <2>1. MsgNode(c, p) \in Nodes
    BY DEF Nodes
  <2> QED BY <1>1, <2>1, PushPreserves, RefusePreserves DEF SendMessage
<1>2. ASSUME NEW d \in Payloads, SendUserData(t, d)
      PROVE  IInv'
  <2>1. UserNode(d) \in Nodes
    BY DEF Nodes
  <2> QED BY <1>2, <2>1, PushPreserves, RefusePreserves DEF SendUserData
<1> QED BY <1>1, <1>2

\* Every step keeps the invariant.
LEMMA NextIInv == ASSUME SemRoom, IInv, [Next]_vars PROVE IInv'
<1>1. ASSUME NEW t \in Senders, Post(t)
      PROVE  IInv'
  BY <1>1, PostPreserves DEF Threads
<1>2. ASSUME NEW t \in Senders,
             \/ \E c \in Codes, p \in Priorities : SendMessage(t, c, p)
             \/ \E d \in Payloads : SendUserData(t, d)
      PROVE  IInv'
  BY <1>2, SendPreserves DEF Threads
<1>3. ASSUME NEW t \in Waiters, RecvWait(t) \/ TakeToken(t) \/ RecvLocked(t)
      PROVE  IInv'
  BY <1>3, WaitPreserves, RecvLockedPreserves DEF Threads
<1>4. ASSUME NEW t \in Pollers, RecvPoll(t) \/ PollTake(t)
      PROVE  IInv'
  BY <1>4, PollPreserves DEF Threads
<1>5. ASSUME NEW t \in Clearers, ClearMessage(t) \/ ClearOne(t) \/ ClearEnd(t)
      PROVE  IInv'
  BY <1>5, ClearPreserves DEF Threads
<1>6. ASSUME NEW t \in Controllers,
             QuitMessage(t) \/ \E size \in Sizes : SetMessageSize(t, size)
      PROVE  IInv'
  BY <1>6, ControlPreserves DEF Threads
<1>7. CASE UNCHANGED vars
  BY <1>7, StayBalance
     DEF vars, IInv, TypeOK, TokenBalance, MutexHeldByBlocker
<1> QED BY <1>1, <1>2, <1>3, <1>4, <1>5, <1>6, <1>7 DEF Next

-----------------------------------------------------------------------------
\* The invariant holds in every state: EZMsgQue.cpp's semaphore, count and
\* mutex agree with the list whatever the threads do.
THEOREM Invariance == ASSUME SemRoom PROVE Spec => []IInv
<1>1. Init => IInv
  BY InitIInv
<1>2. IInv /\ [Next]_vars => IInv'
  BY NextIInv
<1> QED BY <1>1, <1>2, PTL DEF Spec

\* Every variable of the queue keeps its type.
THEOREM TypeCorrect == ASSUME SemRoom PROVE Spec => []TypeOK
<1>1. IInv => TypeOK
  BY DEF IInv
<1> QED BY <1>1, Invariance, PTL

\* No message without its token and no token without its message: what the
\* assert and the pop_back()s of EZMsgQue.cpp:163-169 and :188-190 rely on.
THEOREM TokenBalanceHolds == ASSUME SemRoom PROVE Spec => []TokenBalance
<1>1. IInv => TokenBalance
  BY DEF IInv
<1> QED BY <1>1, Invariance, PTL

-----------------------------------------------------------------------------
(* The refinement: every step of the code is a step of the abstract FIFO,  *)
(* or changes nothing a caller can see.                                    *)

\* With the mutex free, or held by a poller, nobody is clearing, and the
\* abstract queue is m_Queue.
LEMMA NobodyClears ==
  ASSUME IInv, mutex = NULL \/ \E t \in Threads : pc[t] = "poll" /\ mutex = t
  PROVE  (\A t \in Threads : pc[t] # "clear") /\ Undelivered = queue
BY QueueAssumption DEF IInv, MutexHeldByBlocker, Undelivered

\* A step to a place other than "clear" brings no clearer.
LEMMA StillNobodyClears ==
  ASSUME IInv, \A t \in Threads : pc[t] # "clear",
         NEW t \in Threads, NEW to \in PCs, to # "clear", Goto(t, to)
  PROVE  Undelivered' = queue'
BY DEF IInv, TypeOK, Goto, Undelivered

\* The code's initial states are initial states of the FIFO.
LEMMA InitRefines == ASSUME Init PROVE Abstract!Init
<1>1. Undelivered = <<>>
  BY DEF Init, Undelivered
<1> QED BY <1>1 DEF Init, Abstract!Init

\* A send takes effect where it pushes, a refused one where it looks.
LEMMA SendRefines ==
  ASSUME IInv, NEW t \in Threads, NEW node \in Nodes,
         At(t, "idle"), Free,
         \/ Accepts /\ node.pri < MSG_PRIORITY /\ Push(t, node)
         \/ ~(Accepts /\ node.pri < MSG_PRIORITY) /\ Refuse(t)
  PROVE  Abstract!Next
<1>1. Undelivered = queue /\ \A u \in Threads : pc[u] # "clear"
  BY NobodyClears DEF Free
<1>2. nMsg = Len(queue) /\ "post" \in PCs
  BY DEF IInv, TokenBalance, PCs
<1>3. Accepts <=> Abstract!HasRoom
  BY <1>1, <1>2 DEF Accepts, Abstract!HasRoom
<1>4. CASE Accepts /\ node.pri < MSG_PRIORITY /\ Push(t, node)
  <2>1. Undelivered' = queue'
    BY <1>1, <1>2, <1>4, StillNobodyClears DEF Push
  <2>2. Abstract!Send(t, node)
    BY <1>1, <1>3, <1>4, <2>1
       DEF Push, Answer, Abstract!Send, Abstract!Admits, Abstract!Says
  <2> QED BY <2>2 DEF Abstract!Next
<1>5. CASE ~(Accepts /\ node.pri < MSG_PRIORITY) /\ Refuse(t)
  <2>1. Undelivered' = Undelivered
    BY <1>5 DEF Refuse, Undelivered
  <2>2. Abstract!Refuse(t, node)
    BY <1>3, <1>5, <2>1
       DEF Refuse, Answer, Abstract!Refuse, Abstract!Admits, Abstract!Says
  <2> QED BY <2>2 DEF Abstract!Next
<1> QED BY <1>4, <1>5

\* The post, a call of RecvMessage(TRUE) and its token are invisible.
LEMMA InvisibleSteps ==
  ASSUME IInv, NEW t \in Threads, Post(t) \/ RecvWait(t) \/ TakeToken(t)
  PROVE  UNCHANGED Abstract!vars
<1>1. \A u \in Threads : pc[u] = "clear" <=> pc'[u] = "clear"
  BY DEF IInv, TypeOK, Post, RecvWait, TakeToken, Goto, At
<1>2. Undelivered' = Undelivered
  BY <1>1 DEF Undelivered, Post, RecvWait, TakeToken
<1> QED BY <1>2 DEF Post, RecvWait, TakeToken, Abstract!vars

\* A pop by a receiver or a poller hands over the FIFO's oldest message.
LEMMA PopRefines ==
  ASSUME IInv, NEW t \in Threads, NEW op \in {"recv", "poll"},
         mutex = NULL \/ (pc[t] = "poll" /\ mutex = t),
         queue # <<>>, Pop(t, op), UNCHANGED <<nMaxMsg, msgFlg>>
  PROVE  Abstract!Next
<1>1. Undelivered = queue /\ \A u \in Threads : pc[u] # "clear"
  BY NobodyClears
<1>2. Undelivered' = queue'
  BY <1>1, StillNobodyClears DEF Pop, PCs
<1>3. Abstract!Receive(t, op)
  BY <1>1, <1>2 DEF Pop, Answer, Abstract!Receive, Abstract!Says
<1> QED BY <1>3 DEF Abstract!Next

\* A receiver with a token always pops; a poll pops or reports an empty FIFO.
LEMMA RecvRefines ==
  ASSUME IInv, NEW t \in Threads, RecvLocked(t) \/ RecvPoll(t) \/ PollTake(t)
  PROVE  Abstract!Next \/ UNCHANGED Abstract!vars
<1>1. CASE RecvLocked(t)
  <2>1. queue # <<>>
    BY <1>1, Counted DEF RecvLocked, At
  <2> QED BY <1>1, <2>1, PopRefines DEF RecvLocked, FindEmpty, Free
<1>2. CASE RecvPoll(t) /\ queue = <<>>
  <2>1. FindEmpty(t, "poll") /\ mutex = NULL
    BY <1>2 DEF RecvPoll, Free
  <2>2. Undelivered = queue /\ \A u \in Threads : pc[u] # "clear"
    BY <2>1, NobodyClears
  <2>3. Undelivered' = queue'
    BY <2>1, <2>2, StillNobodyClears DEF FindEmpty, PCs
  <2>4. Abstract!PollEmpty(t)
    BY <2>1, <2>2, <2>3
       DEF FindEmpty, Answer, Abstract!PollEmpty, Abstract!Says
  <2> QED BY <2>4 DEF Abstract!Next
<1>3. CASE RecvPoll(t) /\ queue # <<>>
  <2>1. /\ mutex = NULL /\ Goto(t, "poll")
        /\ UNCHANGED <<queue, nMaxMsg, msgFlg, out>>
    BY <1>3 DEF RecvPoll, FindEmpty, Free
  <2>2. Undelivered = queue /\ \A u \in Threads : pc[u] # "clear"
    BY <2>1, NobodyClears
  <2>3. Undelivered' = queue'
    BY <2>1, <2>2, StillNobodyClears DEF PCs
  <2> QED BY <2>1, <2>2, <2>3 DEF Abstract!vars
<1>4. CASE PollTake(t)
  <2>1. pc[t] = "poll" /\ mutex = t
    BY <1>4 DEF IInv, MutexHeldByBlocker, PollTake, At
  <2>2. queue # <<>>
    BY <1>4, Counted DEF PollTake
  <2> QED BY <1>4, <2>1, <2>2, PopRefines DEF PollTake
<1> QED BY <1>1, <1>2, <1>3, <1>4

\* ClearMessage empties the FIFO when it gets the mutex; its rounds are
\* invisible, and when it is through m_Queue is empty indeed.
LEMMA ClearRefines ==
  ASSUME IInv, NEW t \in Threads, ClearMessage(t) \/ ClearOne(t) \/ ClearEnd(t)
  PROVE  Abstract!Next \/ UNCHANGED Abstract!vars
<1>1. pc \in [Threads -> PCs]
  BY DEF IInv, TypeOK
<1>2. CASE ClearMessage(t)
  <2>1. pc'[t] = "clear"
    BY <1>1, <1>2 DEF ClearMessage, Goto
  <2>2. Undelivered' = <<>>
    BY <2>1 DEF Undelivered
  <2>3. Abstract!Clear(t)
    BY <1>2, <2>2 DEF ClearMessage, Answer, Abstract!Clear, Abstract!Says
  <2> QED BY <2>3 DEF Abstract!Next
<1>3. CASE ClearOne(t)
  <2>1. pc[t] = "clear" /\ pc' = pc
    BY <1>3 DEF ClearOne, At
  <2>2. Undelivered = <<>> /\ Undelivered' = <<>>
    BY <2>1 DEF Undelivered
  <2> QED BY <1>3, <2>2 DEF ClearOne, Abstract!vars
<1>4. CASE ClearEnd(t)
  <2>1. pc[t] = "clear" /\ left = 0 /\ mutex = t /\ nMsg = left
    BY <1>4 DEF IInv, MutexHeldByBlocker, ClearEnd, At
  <2>2. queue = <<>>
    BY <2>1, EmptySeq DEF IInv, TypeOK, TokenBalance
  <2>3. Undelivered = <<>> /\ Undelivered' = <<>>
    BY <1>4, <2>1, <2>2 DEF Undelivered, ClearEnd
  <2> QED BY <1>4, <2>3 DEF ClearEnd, Abstract!vars
<1> QED BY <1>2, <1>3, <1>4

\* QuitMessage and SetMessageSize act as one step.
LEMMA ControlRefines ==
  ASSUME NEW t \in Threads,
         QuitMessage(t) \/ \E size \in Sizes : SetMessageSize(t, size)
  PROVE  Abstract!Next
<1>1. Undelivered' = Undelivered
  BY DEF QuitMessage, SetMessageSize, Undelivered
<1>2. CASE QuitMessage(t)
  <2>1. Abstract!Quit(t)
    BY <1>1, <1>2 DEF QuitMessage, Answer, Abstract!Quit, Abstract!Says
  <2> QED BY <2>1 DEF Abstract!Next
<1>3. ASSUME NEW size \in Sizes, SetMessageSize(t, size)
      PROVE  Abstract!Next
  <2>1. Abstract!Resize(t, size)
    BY <1>1, <1>3 DEF SetMessageSize, Answer, Abstract!Resize, Abstract!Says
  <2> QED BY <2>1 DEF Abstract!Next
<1> QED BY <1>2, <1>3

\* Every step of the code is a step of the FIFO or invisible.
LEMMA NextRefines ==
  ASSUME IInv, [Next]_vars
  PROVE  [Abstract!Next]_(Abstract!vars)
<1>1. ASSUME NEW t \in Senders, NEW c \in Codes, NEW p \in Priorities,
             SendMessage(t, c, p)
      PROVE  Abstract!Next
  <2>1. MsgNode(c, p) \in Nodes /\ MsgNode(c, p).pri = p
    BY DEF Nodes, MsgNode
  <2> QED BY <1>1, <2>1, SendRefines DEF SendMessage, Threads
<1>2. ASSUME NEW t \in Senders, NEW d \in Payloads, SendUserData(t, d)
      PROVE  Abstract!Next
  <2>1. UserNode(d) \in Nodes /\ UserNode(d).pri < MSG_PRIORITY
    BY DEF Nodes, UserNode, MSG_PRIORITY
  <2> QED BY <1>2, <2>1, SendRefines DEF SendUserData, Threads
<1>3. ASSUME NEW t \in Threads, Post(t) \/ RecvWait(t) \/ TakeToken(t)
      PROVE  UNCHANGED Abstract!vars
  BY <1>3, InvisibleSteps
<1>4. ASSUME NEW t \in Threads, RecvLocked(t) \/ RecvPoll(t) \/ PollTake(t)
      PROVE  Abstract!Next \/ UNCHANGED Abstract!vars
  BY <1>4, RecvRefines
<1>5. ASSUME NEW t \in Threads, ClearMessage(t) \/ ClearOne(t) \/ ClearEnd(t)
      PROVE  Abstract!Next \/ UNCHANGED Abstract!vars
  BY <1>5, ClearRefines
<1>6. ASSUME NEW t \in Threads,
             QuitMessage(t) \/ \E size \in Sizes : SetMessageSize(t, size)
      PROVE  Abstract!Next
  BY <1>6, ControlRefines
<1>7. CASE UNCHANGED vars
  BY <1>7 DEF vars, Abstract!vars, Undelivered
<1> QED BY <1>1, <1>2, <1>3, <1>4, <1>5, <1>6, <1>7 DEF Next, Threads

\* CEZMsgQue is a bounded FIFO, whatever the number of threads, messages and
\* capacities: the property ImplementsMessageQueue of the runs.
THEOREM Refinement == ASSUME SemRoom PROVE Spec => ImplementsMessageQueue
<1>1. Init => Abstract!Init
  BY InitRefines
<1>2. IInv /\ [Next]_vars => [Abstract!Next]_(Abstract!vars)
  BY NextRefines
<1> QED BY <1>1, <1>2, Invariance, PTL
        DEF Spec, ImplementsMessageQueue, Abstract!Spec
=============================================================================
