\* Two threads share packets over six pages, a whole number of no power of two.
CONSTANTS
  NULL = NULL
  PageCount = 6
  PageSize = 2
  Requests = {0, 1, 5}
  Threads = {t1, t2}
  Handles = {h1, h2, h3}
  Packets = {p1, p2, p3}
  NALL = 3
SPECIFICATION FairSpec
INVARIANTS RefsCounted Tiling NoFreeBuddies WholeAgain RingsExact
PROPERTIES RefusedWhenFull ImplementsPageStore CallsReturn
