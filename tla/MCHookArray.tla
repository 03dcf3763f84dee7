----------------------------- MODULE MCHookArray -----------------------------
(* Instances of HookArray: mods A and B, functions f and g.                 *)
EXTENDS HookArray

CONSTANTS A, B, f, g

(* Both mods hook f, and one of them g as well.                             *)
TwoModsTwoTargets == {<<A, f>>, <<A, g>>, <<B, f>>}

(* Each mod hooks both functions.                                           *)
AllHooks == {A, B} \X {f, g}
==============================================================================
