\* Three observers with the one method the programs attach, more attachments
\* than slots, and every interleaving with an emission.
CONSTANTS
  NULL = NULL
  Objs = {a, b, c}
  Procs = {p}
  MaxSlots = 2
  MayRepeat = TRUE
SPECIFICATION Spec
INVARIANTS SignalInv AttachedIsCalled OnlyAttachedCalled
