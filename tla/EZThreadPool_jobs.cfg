\* Two threadlets over at most three pooled threads, any of which may fail to start.
CONSTANTS
  NULL = NULL
  Threadlets = {t1, t2}
  PooledThreads = {p1, p2, p3}
  Jobs = {j1, j2}
SPECIFICATION FairSpec
INVARIANTS PoolInv
PROPERTIES JobKept RunCarriedOut
