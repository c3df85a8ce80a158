\* One consumer that waits, polls and clears: how a CEZThread uses its queue.
CONSTANTS
  NULL = NULL
  Senders = {s1, s2}
  Waiters = {c}
  Pollers = {c}
  Clearers = {c}
  Controllers = {k}
  Codes = {1}
  Payloads = {d}
  Priorities = {0, 10}
  Sizes = {1, 3}
  SemMax = 3
SPECIFICATION FairSpec
INVARIANTS TokenBalance
PROPERTIES ImplementsMessageQueue WaitedRecvReturns PollReturns ClearReturns
