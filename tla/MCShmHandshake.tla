---------------------------- MODULE MCShmHandshake ----------------------------
(* What an earlier install or a crash may have left under JACK_SHMPATH.     *)
EXTENDS ShmHandshake

MCLeftovers ==
  {[size |-> 0, version |-> 0],     \* died before ftruncate
   [size |-> 2, version |-> 0],     \* died before publishing
   [size |-> 2, version |-> 5],     \* this build ran
   [size |-> 2, version |-> 4],     \* another build with the same layout size
   [size |-> 1, version |-> 4],     \* another build, smaller
   [size |-> 3, version |-> 4]}     \* another build, larger
===============================================================================
