------------------------------ MODULE HookArray ------------------------------
(***************************************************************************)
(* How MinHook-Detours keeps the table of HookTable                        *)
(* (engine/libraries/MinHook-Detours/MinHook.c) and how its detours        *)
(* library patches the functions (SlimDetours/Transaction.c): the array of *)
(* entries that grows, shrinks and swaps, the pointers that lead into it,  *)
(* the trampolines, and the chain of jumps that calling a function that    *)
(* several mods have hooked goes through.                                  *)
(*                                                                         *)
(* The functions of the library hold g_criticalSection and, while they     *)
(* patch, suspend the other threads, so each is one step here; they are    *)
(* written as operators from a heap to a heap.  One hook has one detour    *)
(* function, and the bulk operations go on after an error, which is how    *)
(* the engine sets them (MH_SetBulkOperationMode).                         *)
(***************************************************************************)
EXTENDS Naturals, FiniteSets, SequencesExt

CONSTANTS Mods, Own, Targets, Faults,  \* as in HookTable
          HookSet,      \* the hooks that are made, pairs <<ident, target>>
          Originals,    \* the callers' variables that &original points to
          Null,         \* the pointer NULL
          Capacity,     \* INITIAL_HOOK_CAPACITY
          Tramps        \* the trampolines there is memory for

ASSUME ArrayAssumption ==
    /\ HookSet \subseteq (Mods \union {Own}) \X Targets
    /\ Null \notin Originals /\ Null \notin HookSet
    /\ Null \notin Targets /\ Null \notin Tramps
    /\ Capacity \in Nat \ {0}
ASSUME MemoryAssumption == IsFiniteSet(Tramps)

VARIABLES initialized,  \* g_initialized
          heap          \* everything the functions of the library change

vars == <<initialized, heap>>

(* A code address: a function, or the rbCode of a trampoline.  Junk is     *)
(* what is read through a pointer to freed memory.                         *)
Function(t) == [kind |-> "function", of |-> t]
Trampoline(k) == [kind |-> "trampoline", of |-> k]
Junk == [kind |-> "junk", of |-> Null]
Values == {Function(t) : t \in Targets} \union {Trampoline(k) : k \in Tramps}
          \union {Junk}

(* A pointer to such an address (ppOriginal): a caller's variable, or the  *)
(* field pTargetOrTrampoline of the entry at a position of the array;      *)
(* Freed when the array has moved away from under it.                      *)
Variable(v) == [kind |-> "variable", of |-> v]
Field(pos) == [kind |-> "field", of |-> pos]
Freed == [kind |-> "freed", of |-> Null]

(* items: HOOK_ENTRY without pTargetOrTrampoline; fields: that field, of   *)
(* every position there is memory for, used or not; original: the callers' *)
(* variables; tramps: the trampolines; jumps: where a patched function     *)
(* jumps to, or Null.                                                      *)
NoTramp == [detour |-> Null, target |-> Null, below |-> Null]
InitHeap == [items |-> <<>>,
             fields |-> <<>>,
             original |-> [v \in Originals |-> Junk],
             tramps |-> [k \in Tramps |-> NoTramp],
             jumps |-> [t \in Targets |-> Null]]

Init == initialized = TRUE /\ heap = InitHeap

Size(s) == Len(s.items)
Positions(s) == 1..Len(s.items)
ItemsOf(s, ident) == {p \in Positions(s) : ident \in {Null, s.items[p].hook[1]}}

Deref(s, ptr) ==
    IF ptr.kind = "variable" THEN s.original[ptr.of]
    ELSE IF ptr.kind = "field" /\ ptr.of \in DOMAIN s.fields THEN s.fields[ptr.of]
    ELSE Junk

(* What is stored through a pointer to freed memory is lost.               *)
Store(s, ptr, value) ==
    IF ptr.kind = "variable" THEN [s EXCEPT !.original[ptr.of] = value]
    ELSE IF ptr.kind = "field" /\ ptr.of \in DOMAIN s.fields
    THEN [s EXCEPT !.fields[ptr.of] = value]
    ELSE s

(* What n rounds of a loop make of s.                                      *)
Loop(Round(_,_), s, n) ==
    LET after[i \in 0..n] == IF i = 0 THEN s ELSE Round(after[i-1], i)
    IN after[n]

------------------------------------------------------------------------------
(* HeapReAlloc: the array has room for n entries, and may have moved.      *)
Realloc(s, n, moves) ==
    [s EXCEPT !.fields = [p \in 1..n |-> IF p \in DOMAIN s.fields THEN s.fields[p]
                                         ELSE Junk],
              !.items = [p \in Positions(s) |->
                  IF moves /\ s.items[p].ptr.kind = "field"
                  THEN [s.items[p] EXCEPT !.ptr = Freed] ELSE s.items[p]]]

(* Mutant: the array grows one entry too late.                              *)
AddHookEntryLate(s, moves) ==
    LET capacity == Len(s.fields) IN
    IF capacity = 0 THEN Realloc(s, Capacity, FALSE)
    ELSE IF Size(s) > capacity THEN Realloc(s, 2 * capacity, moves)
    ELSE s

(* AddHookEntry, up to the room for the new entry.                         *)
AddHookEntry(s, moves) ==
    LET capacity == Len(s.fields) IN
    IF capacity = 0 THEN Realloc(s, Capacity, FALSE)
    ELSE IF Size(s) >= capacity THEN Realloc(s, 2 * capacity, moves)
    ELSE s

(* DeleteHookEntry: the last entry takes the place of the deleted one, and *)
(* the array shrinks when half of it is unused.                            *)
DeleteHookEntry(s, pos, moves) ==
    LET last == Size(s)
        capacity == Len(s.fields)
        swapped == [s EXCEPT !.items = ReplaceAt(Front(s.items), pos, s.items[last]),
                             !.fields[pos] = s.fields[last]]
        deleted == [s EXCEPT !.items = Front(@)]
        rest == IF pos < last THEN swapped ELSE deleted
    IN IF capacity \div 2 >= Capacity /\ capacity \div 2 >= last - 1
       THEN Realloc(rest, capacity \div 2, moves)
       ELSE rest

(* CreateHook.  A second hook with the same variable takes it: the first    *)
(* one keeps the address in its own entry.  So does a hook without one.     *)
CreateHook(s, h, v, moves) ==
    LET added == AddHookEntry(s, moves)
        pos == Size(s) + 1
        shared == {p \in Positions(s) : added.items[p].ptr = Variable(v)}
        redirected ==
            [added EXCEPT
                !.items = [p \in Positions(s) |->
                    IF p \in shared THEN [added.items[p] EXCEPT !.ptr = Field(p)]
                    ELSE added.items[p]],
                !.fields = [p \in DOMAIN added.fields |->
                    IF p \in shared THEN added.original[v] ELSE added.fields[p]]]
        ptr == IF v = Null THEN Field(pos) ELSE Variable(v)
        item == [hook |-> h, ptr |-> ptr, free |-> Null,
                 enabled |-> FALSE, queue |-> FALSE]
        entered == [redirected EXCEPT !.items = Append(@, item),
                                      !.fields[pos] = Junk]
    IN Store(entered, ptr, Function(h[2]))

FreeHookTrampolineIfNeeded(s, pos) ==
    LET free == s.items[pos].free IN
    IF free = Null THEN s
    ELSE [s EXCEPT !.tramps[free] = NoTramp, !.items[pos].free = Null]

------------------------------------------------------------------------------
(* A trampoline: detour, the hook whose detour its pbDetour leads to, or   *)
(* Null when it leads to its own rbCode (bypass); target, the function it  *)
(* was made for; below, where its rbCode and the bytes it restores lead:   *)
(* on to an older trampoline, or, Null, to the code of the function.       *)
NewTramp(h, t) == [detour |-> h, target |-> t, below |-> Null]
Top(s, t) == s.jumps[t]
Patch(s, t, k) == [s EXCEPT !.jumps[t] = k]
Unused(s) == {k \in Tramps : s.tramps[k] = NoTramp}

(* A transaction: the heap and the operations pending, the last one first.  *)
Begin(s) == [heap |-> s, ops |-> <<>>]

(* SlimDetoursAttach through ppOriginal.  It fails when there is no memory  *)
(* for a trampoline; that the function is too short to be patched has the   *)
(* same effect.  That it finds a trampoline, or junk, instead of a function *)
(* happens only to an entry that was moved, and is taken to fail as well.   *)
MHDetoursAttach(tx, pos) ==
    LET s == FreeHookTrampolineIfNeeded(tx.heap, pos)
        item == s.items[pos]
        found == Deref(s, item.ptr)
        k == CHOOSE k \in Unused(s) : TRUE
    IN IF found.kind = "function" /\ Unused(s) # {}
       THEN [heap |-> [s EXCEPT !.tramps[k] = NewTramp(item.hook, found.of)],
             ops |-> <<[op |-> "add", pos |-> pos, tramp |-> k]>> \o tx.ops]
       ELSE [tx EXCEPT !.heap = s]

(* SlimDetoursDetachEx through ppOriginal: what it finds there must be a    *)
(* trampoline that leads to the detour of this entry.                       *)
MHDetoursDetach(tx, pos) ==
    LET item == tx.heap.items[pos]
        found == Deref(tx.heap, item.ptr)
    IN IF /\ found.kind = "trampoline"
          /\ tx.heap.tramps[found.of].detour = item.hook
       THEN [tx EXCEPT !.ops =
                <<[op |-> "remove", pos |-> pos, tramp |-> found.of]>> \o @]
       ELSE tx

(* The commit of an attach: the function jumps to the new trampoline, which *)
(* goes on to where the function jumped before.                             *)
CommitAdd(s, o) ==
    LET t == s.tramps[o.tramp].target IN
    Store(Patch([s EXCEPT !.tramps[o.tramp].below = Top(s, t)], t, o.tramp),
          s.items[o.pos].ptr, Trampoline(o.tramp))

(* Mutants of the commit of a detach: the jump is undone even when it is    *)
(* another hook's; the caller's pointer is left as it is.                   *)
CommitRemoveUnchecked(s, o) ==
    LET k == o.tramp
        t == s.tramps[k].target
    IN Store([Patch(s, t, s.tramps[k].below) EXCEPT
                 !.tramps[k].detour = Null, !.items[o.pos].free = k],
             s.items[o.pos].ptr, Function(t))
CommitRemoveKeepsOriginal(s, o) ==
    LET k == o.tramp
        t == s.tramps[k].target
        restored == IF Top(s, t) # k THEN s
                    ELSE [Patch(s, t, s.tramps[k].below) EXCEPT !.items[o.pos].free = k]
    IN [restored EXCEPT !.tramps[k].detour = Null]

(* The commit of a detach: the bytes of the function are restored when its  *)
(* jump is still the one to this trampoline, and the trampoline is to be    *)
(* freed later; otherwise it stays in the chain, for good (it is leaked).   *)
(* In both cases it is put in bypass mode.                                  *)
CommitRemove(s, o) ==
    LET k == o.tramp
        t == s.tramps[k].target
        restored == IF Top(s, t) # k THEN s
                    ELSE [Patch(s, t, s.tramps[k].below) EXCEPT !.items[o.pos].free = k]
    IN Store([restored EXCEPT !.tramps[k].detour = Null],
             s.items[o.pos].ptr, Function(t))

(* SlimDetoursTransactionCommit: the attaches first, then the detaches, and  *)
(* both from the last to the first.                                         *)
CommitAdds(s, ops) ==
    LET Round(x, i) == IF ops[i].op = "add" THEN CommitAdd(x, ops[i]) ELSE x
    IN Loop(Round, s, Len(ops))
CommitRemoves(s, ops) ==
    LET Round(x, i) == IF ops[i].op = "remove" THEN CommitRemove(x, ops[i]) ELSE x
    IN Loop(Round, s, Len(ops))
Commit(tx) == CommitRemoves(CommitAdds(tx.heap, tx.ops), tx.ops)

(* The entries at the positions in DOMAIN wanted are attached or detached,  *)
(* in the order of the array; the flags follow where it succeeded.          *)
Prepare(s, wanted) ==
    LET Round(tx, p) == IF p \notin DOMAIN wanted THEN tx
                        ELSE IF wanted[p] THEN MHDetoursAttach(tx, p)
                        ELSE MHDetoursDetach(tx, p)
    IN Loop(Round, Begin(s), Size(s))
Transaction(s, wanted) ==
    LET tx == Prepare(s, wanted)
        done == {tx.ops[i].pos : i \in DOMAIN tx.ops}
        committed == Commit(tx)
    IN [committed EXCEPT !.items = [p \in Positions(s) |->
            IF p \in done
            THEN [committed.items[p] EXCEPT !.enabled = wanted[p], !.queue = wanted[p]]
            ELSE committed.items[p]]]

(* ApplyQueued of one ident, or of all of them (Null).                      *)
ApplyQueued(s, ident) ==
    LET pending == {p \in ItemsOf(s, ident) : s.items[p].queue # s.items[p].enabled}
    IN Transaction(s, [p \in pending |-> s.items[p].queue])

(* EnableHook(ident, MH_ALL_HOOKS, FALSE).                                  *)
DisableHooks(s, ident) ==
    Transaction(s, [p \in {q \in ItemsOf(s, ident) : s.items[q].enabled} |-> FALSE])

(* FindHookEntryEnabled(ident, MH_ALL_HOOKS, pos, FALSE), 0 if not found.   *)
FindDisabled(s, ident, pos) ==
    LET found == {p \in ItemsOf(s, ident) : p >= pos /\ ~s.items[p].enabled}
    IN IF found = {} THEN 0 ELSE CHOOSE p \in found : \A q \in found : p <= q

(* Mutant: the loop goes on behind the entry it has deleted.                *)
RemoveFoundSkipping(at, ident, moves) ==
    LET p == FindDisabled(at.heap, ident, at.pos)
    IN IF p = 0 THEN at
       ELSE [heap |-> DeleteHookEntry(FreeHookTrampolineIfNeeded(at.heap, p), p, moves),
             pos |-> p + 1]

(* RemoveDisabledHooks: the loop looks again at the position whose entry it *)
(* has deleted, for another one is there now.                               *)
RemoveFound(at, ident, moves) ==
    LET p == FindDisabled(at.heap, ident, at.pos)
    IN IF p = 0 THEN at
       ELSE [heap |-> DeleteHookEntry(FreeHookTrampolineIfNeeded(at.heap, p), p, moves),
             pos |-> p]
RemoveDisabled(s, ident, moves) ==
    LET Round(at, i) == RemoveFound(at, ident, moves)
    IN Loop(Round, [heap |-> s, pos |-> 1], Size(s)).heap

------------------------------------------------------------------------------
(* MH_CreateHookEx.                                                         *)
MH_CreateHookEx(h, v, moves) ==
    /\ initialized
    /\ \A p \in Positions(heap) : heap.items[p].hook # h
    /\ heap' = CreateHook(heap, h, v, moves)
    /\ UNCHANGED initialized

(* MH_QueueEnableHookEx and MH_QueueDisableHookEx of one hook.              *)
MH_QueueHookEx(h, on) ==
    /\ initialized
    /\ \E p \in Positions(heap) :
         /\ heap.items[p].hook = h
         /\ heap' = [heap EXCEPT !.items[p].queue = on]
    /\ UNCHANGED initialized

(* MH_QueueDisableHookEx(ident, MH_ALL_HOOKS).                              *)
MH_QueueDisableAllEx(ident) ==
    /\ initialized
    /\ heap' = [heap EXCEPT !.items = [p \in Positions(heap) |->
                   IF p \in ItemsOf(heap, ident)
                   THEN [heap.items[p] EXCEPT !.queue = FALSE] ELSE heap.items[p]]]
    /\ UNCHANGED initialized

MH_ApplyQueuedEx(ident) ==
    /\ initialized
    /\ heap' = ApplyQueued(heap, ident)
    /\ UNCHANGED initialized

MH_DisableHookEx(ident) ==
    /\ initialized
    /\ heap' = DisableHooks(heap, ident)
    /\ UNCHANGED initialized

MH_RemoveDisabledHooksEx(ident, moves) ==
    /\ initialized
    /\ heap' = RemoveDisabled(heap, ident, moves)
    /\ UNCHANGED initialized

(* MH_RemoveHookEx(ident, MH_ALL_HOOKS).                                    *)
MH_RemoveHookEx(ident, moves) ==
    /\ initialized
    /\ heap' = RemoveDisabled(DisableHooks(heap, ident), ident, moves)
    /\ UNCHANGED initialized

(* MH_Uninitialize frees the array, unless a hook could not be removed.     *)
MH_Uninitialize(moves) ==
    LET removed == RemoveDisabled(DisableHooks(heap, Null), Null, moves) IN
    /\ initialized
    /\ IF removed.items = <<>>
       THEN initialized' = FALSE /\ heap' = [removed EXCEPT !.fields = <<>>]
       ELSE UNCHANGED initialized /\ heap' = removed

(* MH_Initialize of the next session; what was leaked is still there.       *)
MH_Initialize ==
    /\ ~initialized
    /\ initialized' = TRUE
    /\ UNCHANGED heap

(* The hooks of a mod have a variable each; "sharedOriginal" and            *)
(* "nullOriginal" are the two other things a caller may pass.               *)
OriginalsOf(h) ==
    (IF "sharedOriginal" \in Faults THEN Originals ELSE Originals \intersect {h})
    \union (IF "nullOriginal" \in Faults THEN {Null} ELSE {})

Idents == {h[1] : h \in HookSet}

Next ==
    \/ \E h \in HookSet, moves \in BOOLEAN :
         \E v \in OriginalsOf(h) : MH_CreateHookEx(h, v, moves)
    \/ \E h \in HookSet, on \in BOOLEAN : MH_QueueHookEx(h, on)
    \/ \E ident \in Idents : MH_QueueDisableAllEx(ident) \/ MH_DisableHookEx(ident)
    \/ \E ident \in Idents \union {Null} : MH_ApplyQueuedEx(ident)
    \/ \E ident \in Idents, moves \in BOOLEAN :
         MH_RemoveDisabledHooksEx(ident, moves) \/ MH_RemoveHookEx(ident, moves)
    \/ \E moves \in BOOLEAN : MH_Uninitialize(moves)
    \/ MH_Initialize

Spec == Init /\ [][Next]_vars

------------------------------------------------------------------------------
Items == [hook : HookSet,
          ptr : {Variable(v) : v \in Originals} \union {Field(p) : p \in 1..Cardinality(HookSet)}
                \union {Freed},
          free : Tramps \union {Null},
          enabled : BOOLEAN, queue : BOOLEAN]

TrampStates == [detour : HookSet \union {Null}, target : Targets \union {Null},
                below : Tramps \union {Null}]
Heaps == [items : Seq(Items), fields : Seq(Values), original : [Originals -> Values],
          tramps : [Tramps -> TrampStates], jumps : [Targets -> Tramps \union {Null}]]

TypeOK ==
    /\ initialized \in BOOLEAN
    /\ heap \in Heaps
    /\ Size(heap) <= Len(heap.fields)

Entries == {heap.items[p] : p \in Positions(heap)}
Created == {item.hook : item \in Entries}
Enabled == {item.hook : item \in {e \in Entries : e.enabled}}
Queued == {item.hook : item \in {e \in Entries : e.queue}}

Table == INSTANCE HookTable WITH
    created <- Created, enabled <- Enabled, queued <- Queued

TableHooks(ident) == {h \in Created : ident \in {Null, h[1]}}
TableStep ==
    \/ \E h \in HookSet : Table!MH_CreateHookEx(h) \/ Table!MH_QueueEnableHookEx(h)
    \/ \E h \in Created : Table!MH_QueueDisableHookEx({h})
    \/ \E ident \in Idents \union {Null} :
         \/ Table!MH_QueueDisableHookEx(TableHooks(ident))
         \/ \E failed \in Table!AttachFailures(TableHooks(ident)) :
              Table!MH_ApplyQueuedEx(TableHooks(ident), failed)
         \/ Table!MH_DisableHookEx(TableHooks(ident))
         \/ Table!MH_RemoveDisabledHooksEx(TableHooks(ident))
         \/ Table!MH_RemoveHookEx(TableHooks(ident))

(* The array implements the table: whatever the swaps of DeleteHookEntry,   *)
(* the loops that run over the array while it changes and the growing and   *)
(* shrinking do, each call changes exactly the entries it is about, and a   *)
(* hook that is disabled or removed is so (MinHook.c).                      *)
ImplementsHookTable == Table!TableInit /\ [][TableStep]_<<Created, Enabled, Queued>>

(* What is run from a trampoline on: the detours, each of which calls on    *)
(* through its original pointer, and then the function.                     *)
Passable(k) == k \in Tramps \ Unused(heap)
Path(start) ==
    LET at[n \in 0..Cardinality(Tramps)] ==
            IF n = 0 THEN start
            ELSE IF Passable(at[n-1]) THEN heap.tramps[at[n-1]].below
            ELSE at[n-1]
    IN [n \in 1..Cardinality(Tramps) + 1 |-> at[n-1]]
DetourAt(k) == IF Passable(k) THEN heap.tramps[k].detour ELSE Null
Detours(start) ==
    LET Round(called, n) == IF DetourAt(Path(start)[n]) = Null THEN called
                            ELSE Append(called, DetourAt(Path(start)[n]))
    IN Loop(Round, <<>>, Cardinality(Tramps) + 1)
Chain(t) == Detours(Top(heap, t))
Reaches(start) == Path(start)[Cardinality(Tramps) + 1] = Null

(* Whatever the mods hook, unhook and hook again, in whatever order, calling *)
(* a function runs the detour of every enabled hook of it once, no other,    *)
(* and ends in the function; it never runs into a trampoline that was freed. *)
(* Some of them are leaked for it (SlimDetours/Transaction.c,                *)
(* hookIsStillThere).                                                       *)
CallsEnabledHooks ==
    \A t \in Targets :
        /\ Reaches(Top(heap, t))
        /\ ToSet(Chain(t)) = {h \in Enabled : h[2] = t}
        /\ IsInjective(Chain(t))

(* "A pointer to the trampoline function, which will be used to call the    *)
(* original target function" (mods_api.h): from the detour of an enabled    *)
(* hook it leads to the detours that were there before it, and never back   *)
(* to itself; a hook that is not enabled finds the function in it.          *)
OriginalCallsOn ==
    \A p \in Positions(heap) :
        LET item == heap.items[p]
            chain == Chain(item.hook[2])
            original == Deref(heap, item.ptr)
        IN IF item.enabled
           THEN /\ original.kind = "trampoline"
                /\ \E n \in DOMAIN chain :
                     /\ chain[n] = item.hook
                     /\ Detours(heap.tramps[original.of].below) = SubSeq(chain, n + 1, Len(chain))
           ELSE original = Function(item.hook[2])

(* "A pointer to the target function, which will be overridden by the       *)
(* detour function" (mods_api.h), also when originalFunction, which "can be *)
(* NULL", is: a detour is only ever put on the function it was made for.    *)
DetourOnItsTarget ==
    \A t \in Targets : \A n \in DOMAIN Chain(t) : Chain(t)[n][2] = t
==============================================================================
