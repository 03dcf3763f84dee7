---------------------------- MODULE MCHookEngine ----------------------------
(* Instances of HookEngine for TLC: one thread per mod, or two threads of   *)
(* one mod, which race with each other inside the hook API.                 *)
EXTENDS HookEngine, TLC

CONSTANTS m1, m2, t1, t2

ThreadPerMod == t1 :> m1 @@ t2 :> m2
TwoThreadsOfOneMod == t1 :> m1 @@ t2 :> m1
OneThread == t1 :> m1
==============================================================================
