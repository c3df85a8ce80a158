----------------------------- MODULE MCEZThread -----------------------------
(* What the TLC runs of EZThread add to it. *)
EXTENDS EZThread, TLC

\* Threads and objects of a kind differ in nothing but their name (used by
\* safety runs only).
WorkerBodySymmetry ==
  Permutations(Objects \ Consumers) \cup Permutations(Bodies)
=============================================================================
