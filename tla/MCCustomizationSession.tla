---------------------- MODULE MCCustomizationSession ----------------------
(* Instances of CustomizationSession.                                       *)
EXTENDS CustomizationSession, TLC

(* Nothing orders the mods: enumeration goes through them in any order.     *)
ModSymmetry == Permutations(Mods)
==============================================================================
