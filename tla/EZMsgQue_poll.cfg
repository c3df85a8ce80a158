\* A waiting receiver next to one that polls.
CONSTANTS
  NULL = NULL
  Senders = {s}
  Waiters = {w}
  Pollers = {p}
  Clearers = {}
  Controllers = {}
  Codes = {1}
  Payloads = {}
  Priorities = {0}
  Sizes = {2}
  SemMax = 2
SPECIFICATION FairSpec
CHECK_DEADLOCK FALSE
PROPERTIES PollReturns
