------------------------------- MODULE ModGate -------------------------------
(***************************************************************************)
(* What unloading a mod promises to the threads of the host program: a mod *)
(* is a room with a gate.  Threads go in only while the gate is open, the  *)
(* gate opens only on a room that exists, and the room is taken down only  *)
(* when the gate is shut and nobody is inside.                             *)
(***************************************************************************)
EXTENDS Sequences, Naturals

CONSTANTS Mods, Callers

VARIABLES loaded,   \* the mods whose library is loaded
          open,     \* the mods whose detours can be entered
          inside    \* the mods each thread is inside of, outermost first

gateVars == <<loaded, open, inside>>

Inside(c) == {inside[c][i] : i \in DOMAIN inside[c]}

Init ==
    /\ loaded = {}
    /\ open = {}
    /\ inside = [c \in Callers |-> <<>>]

Load(m) ==
    /\ loaded' = loaded \union {m}
    /\ UNCHANGED <<open, inside>>

Open(m) ==
    /\ m \in loaded
    /\ open' = open \union {m}
    /\ UNCHANGED <<loaded, inside>>

Close(mods) ==
    /\ open' = open \ mods
    /\ UNCHANGED <<loaded, inside>>

Unload(m) ==
    /\ m \notin open
    /\ \A c \in Callers : m \notin Inside(c)
    /\ loaded' = loaded \ {m}
    /\ UNCHANGED <<open, inside>>

Enter(c, m) ==
    /\ m \in open
    /\ inside' = [inside EXCEPT ![c] = Append(@, m)]
    /\ UNCHANGED <<loaded, open>>

Leave(c) ==
    /\ inside[c] # <<>>
    /\ inside' = [inside EXCEPT ![c] = SubSeq(@, 1, Len(@) - 1)]
    /\ UNCHANGED <<loaded, open>>

Next ==
    \/ \E m \in Mods : Load(m) \/ Open(m) \/ Unload(m)
    \/ \E mods \in SUBSET Mods : Close(mods)
    \/ \E c \in Callers : Leave(c) \/ \E m \in Mods : Enter(c, m)

Spec == Init /\ [][Next]_gateVars
==============================================================================
