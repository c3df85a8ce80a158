---------------------------- MODULE MessageQueue ----------------------------
(***************************************************************************)
(* What CEZMsgQue promises its callers: a bounded FIFO that every call     *)
(* acts on in one step.  A send succeeds exactly when the queue is open    *)
(* and has room, a receive hands over the oldest message, only a receive   *)
(* that does not wait may come back empty-handed, and ClearMessage empties *)
(* the queue at once.  No thread, lock or semaphore appears here; EZMsgQue *)
(* implements this module.                                                 *)
(***************************************************************************)
EXTENDS Integers, Sequences

CONSTANTS Threads,        \* the threads that call the queue
          Nodes,          \* what can be sent: records with a field pri
          MaxPriority,    \* nodes of this priority or above are refused
          Sizes,          \* the values m_nMaxMsg can be given
          NULL

VARIABLES q,              \* the undelivered messages, oldest first
          open,           \* FALSE once QuitMessage has been called
          cap,            \* how many messages may be undelivered
          out             \* the call that took effect last and its answer

vars == <<q, open, cap, out>>

Says(t, op, ok, node) == out' = [by |-> t, op |-> op, ok |-> ok, node |-> node]

Init == /\ q = <<>>
        /\ open = TRUE
        /\ cap \in Sizes
        /\ out = [by |-> NULL, op |-> "none", ok |-> TRUE, node |-> NULL]

HasRoom == open /\ Len(q) < cap

Admits(node) == HasRoom /\ node.pri < MaxPriority

Send(t, node) ==
  /\ Admits(node)
  /\ q' = Append(q, node)
  /\ Says(t, "send", TRUE, node)
  /\ UNCHANGED <<open, cap>>

Refuse(t, node) ==
  /\ ~Admits(node)
  /\ Says(t, "send", FALSE, NULL)
  /\ UNCHANGED <<q, open, cap>>

Receive(t, op) ==
  /\ q # <<>>
  /\ q' = Tail(q)
  /\ Says(t, op, TRUE, Head(q))
  /\ UNCHANGED <<open, cap>>

PollEmpty(t) ==
  /\ q = <<>>
  /\ Says(t, "poll", FALSE, NULL)
  /\ UNCHANGED <<q, open, cap>>

Clear(t) ==
  /\ q' = <<>>
  /\ Says(t, "clear", TRUE, NULL)
  /\ UNCHANGED <<open, cap>>

Quit(t) ==
  /\ open' = FALSE
  /\ Says(t, "quit", TRUE, NULL)
  /\ UNCHANGED <<q, cap>>

Resize(t, size) ==
  /\ cap' = size
  /\ Says(t, "resize", TRUE, NULL)
  /\ UNCHANGED <<q, open>>

Next ==
  \E t \in Threads :
     \/ \E node \in Nodes : Send(t, node) \/ Refuse(t, node)
     \/ \E op \in {"recv", "poll"} : Receive(t, op)
     \/ PollEmpty(t)
     \/ Clear(t)
     \/ Quit(t)
     \/ \E size \in Sizes : Resize(t, size)

Spec == Init /\ [][Next]_vars
=============================================================================
