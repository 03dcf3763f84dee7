---------------------------- MODULE HookArrayProofs ----------------------------
(***************************************************************************)
(* Every state of HookArray's heap is sound: its entries have variables of *)
(* their own, and the trampolines of the attached ones are linked into the *)
(* chains of HookChainProofs.  So the array implements the table of        *)
(* HookTable, and a call of a function runs what is enabled, for any hooks,*)
(* trampolines and capacity.  OwnVariables: a mod gives Wh_SetFunctionHook,*)
(* for each hook, the address of a variable of its own; run                *)
(* hook_array_stale shows what happens otherwise.  ArrayImplementsTable    *)
(* also assumes that an attach may fail, which the table always allows.    *)
(***************************************************************************)
EXTENDS HookChainProofs, SequenceTheorems, TLAPS

OwnVariables == {"sharedOriginal", "nullOriginal"} \intersect Faults = {}

------------------------------------------------------------------------------
(* Heaps.                                                                  *)

(* The positions of the entries whose detours are attached: what isEnabled *)
(* says between the transactions.                                          *)
Flagged(s) == {p \in Positions(s) : s.items[p].enabled}

(* The entry at p has a variable of its own.  It holds the trampoline of the *)
(* hook as long as that is attached, and the function otherwise; the       *)
(* trampoline that is to be freed is in use and leads to no detour.        *)
EntryOK(s, p, attached) ==
    LET item == s.items[p]
        own == s.original[item.hook]
    IN
    /\ item.hook \in Originals /\ item.ptr = Variable(item.hook)
    /\ p \in attached => /\ own.of \in Tramps /\ own = Trampoline(own.of)
                         /\ s.tramps[own.of].detour = item.hook
                         /\ s.tramps[own.of].target = item.hook[2]
    /\ p \notin attached => own = Function(item.hook[2])
    /\ item.free # Null => /\ p \notin attached
                           /\ s.tramps[item.free].detour = Null
                           /\ s.tramps[item.free].target # Null

EntriesApart(s) ==
    \A p, q \in Positions(s) :
        p # q => /\ s.items[p].hook # s.items[q].hook
                 /\ s.items[p].free # Null => s.items[p].free # s.items[q].free

(* What every function of the library keeps, of a heap in which the detours *)
(* of these entries are attached.                                          *)
Sound(s, attached) ==
    /\ s \in Heaps
    /\ Size(s) <= Len(s.fields)
    /\ EntriesApart(s)
    /\ \A p \in Positions(s) : EntryOK(s, p, attached)
    /\ Linked(s, attached)

(* What is in a heap.                                                      *)
LEMMA HeapTypes ==
    ASSUME NEW s \in Heaps
    PROVE  /\ s.items \in Seq(Items) /\ s.fields \in Seq(Values)
           /\ s.original \in [Originals -> Values] /\ s.tramps \in [Tramps -> TrampStates]
           /\ s.jumps \in [Targets -> Tramps \union {Null}]
           /\ Size(s) \in Nat /\ Len(s.fields) \in Nat
           /\ Positions(s) = 1..Size(s) /\ DOMAIN s.items = Positions(s)
           /\ DOMAIN s.fields = 1..Len(s.fields)
           /\ \A p \in Positions(s) : s.items[p] \in Items
<1>1. /\ s.items \in Seq(Items) /\ s.fields \in Seq(Values)
      /\ s.original \in [Originals -> Values] /\ s.tramps \in [Tramps -> TrampStates]
      /\ s.jumps \in [Targets -> Tramps \union {Null}]
  BY DEF Heaps
<1>2. Size(s) \in Nat /\ Len(s.fields) \in Nat /\ Positions(s) = 1..Size(s)
  BY <1>1, LenProperties DEF Size, Positions
<1>3. DOMAIN s.items = Positions(s) /\ DOMAIN s.fields = 1..Len(s.fields)
  BY <1>1, LenProperties DEF Positions
<1>4. \A p \in Positions(s) : s.items[p] \in Items
  BY <1>1, ElementOfSeq DEF Positions
<1>5. QED
  BY <1>1, <1>2, <1>3, <1>4

(* The parts of an entry, and the entries its writes leave.                *)
LEMMA ItemTypes ==
    ASSUME NEW e \in Items
    PROVE  /\ e.hook \in HookSet /\ e.free \in Tramps \union {Null}
           /\ e.enabled \in BOOLEAN /\ e.queue \in BOOLEAN
           /\ e.hook[2] \in Targets /\ Function(e.hook[2]) \in Values
           /\ \A k \in Tramps \union {Null} : [e EXCEPT !.free = k] \in Items
           /\ \A b, c \in BOOLEAN : [e EXCEPT !.enabled = b, !.queue = c] \in Items
<1>1. /\ e.hook \in HookSet /\ e.free \in Tramps \union {Null}
      /\ e.enabled \in BOOLEAN /\ e.queue \in BOOLEAN
      /\ \A k \in Tramps \union {Null} : [e EXCEPT !.free = k] \in Items
      /\ \A b, c \in BOOLEAN : [e EXCEPT !.enabled = b, !.queue = c] \in Items
  BY DEF Items
<1>2. e.hook[2] \in Targets
  BY <1>1, ArrayAssumption
<1>3. QED
  BY <1>1, <1>2 DEF Values

(* A sequence is a function on the numbers up to its length.               *)
LEMMA IsSeq ==
    ASSUME NEW S, NEW n \in Nat, NEW f, f \in [1..n -> S]
    PROVE  f \in Seq(S) /\ Len(f) = n
  OBVIOUS

(* A function with one value written, and with the value written that it   *)
(* has already.                                                            *)
LEMMA ExceptIn ==
    ASSUME NEW D, NEW R, NEW f \in [D -> R], NEW a, NEW b \in R
    PROVE  [f EXCEPT ![a] = b] \in [D -> R]
OBVIOUS

LEMMA ExceptSame ==
    ASSUME NEW D, NEW R, NEW f \in [D -> R], NEW a \in D
    PROVE  [f EXCEPT ![a] = f[a]] = f
OBVIOUS

(* Entry by entry, the same hook with the same flags.                      *)
SameEntry(d, e) == d.hook = e.hook /\ d.enabled = e.enabled /\ d.queue = e.queue
SameEntries(s, r) ==
    Size(r) = Size(s) /\ \A p \in Positions(s) : SameEntry(s.items[p], r.items[p])

(* What the entry at p of s was given it still has as the one at q of r.   *)
KeepsEntry(s, p, r, q) ==
    /\ r.items[q].hook = s.items[p].hook /\ r.items[q].ptr = s.items[p].ptr
    /\ r.items[q].free \in {s.items[p].free, Null}
    /\ r.original[s.items[p].hook] = s.original[s.items[p].hook]
    /\ \A k \in Tramps : s.tramps[k].detour = s.items[p].hook
            => /\ r.tramps[k].detour = s.tramps[k].detour
               /\ r.tramps[k].target = s.tramps[k].target
    /\ r.items[q].free # Null
            => /\ r.tramps[s.items[p].free].detour = Null
               /\ r.tramps[s.items[p].free].target # Null

(* An entry, which may have moved, is all right as long as its variable and*)
(* its trampolines are.                                                    *)
LEMMA StillOK ==
    ASSUME NEW s, NEW p, NEW A, EntryOK(s, p, A),
           NEW r, NEW q, NEW B, q \in B <=> p \in A, KeepsEntry(s, p, r, q)
    PROVE  EntryOK(r, q, B)
<1> DEFINE d == s.items[p]
           own == s.original[d.hook]
<1>1. /\ d.hook \in Originals /\ d.ptr = Variable(d.hook)
      /\ p \in A => /\ own.of \in Tramps /\ own = Trampoline(own.of)
                     /\ s.tramps[own.of].detour = d.hook
                     /\ s.tramps[own.of].target = d.hook[2]
      /\ p \notin A => own = Function(d.hook[2])
      /\ d.free # Null => p \notin A
  BY DEF EntryOK
<1>2. r.original[r.items[q].hook] = own
  BY DEF KeepsEntry
<1>3. q \in B => /\ r.tramps[own.of].detour = d.hook
                 /\ r.tramps[own.of].target = d.hook[2]
  BY <1>1 DEF KeepsEntry
<1>4. QED
  BY <1>1, <1>2, <1>3 DEF EntryOK, KeepsEntry

(* Every entry that is all right has a variable of its own.                *)
LEMMA HasVariable ==
    ASSUME NEW s, NEW p, NEW A, EntryOK(s, p, A)
    PROVE  /\ s.items[p].hook \in Originals /\ s.items[p].ptr = Variable(s.items[p].hook)
           /\ s.items[p].ptr.kind = "variable" /\ s.items[p].ptr.of = s.items[p].hook
<1>1. s.items[p].hook \in Originals /\ s.items[p].ptr = Variable(s.items[p].hook)
  BY DEF EntryOK
<1>2. QED
  BY <1>1 DEF Variable

(* Entries stay apart when some of their trampolines have been freed.      *)
LEMMA StayApart ==
    ASSUME NEW s, NEW r, EntriesApart(s), Positions(r) = Positions(s),
           \A q \in Positions(s) : /\ r.items[q].hook = s.items[q].hook
                                   /\ r.items[q].free \in {s.items[q].free, Null}
    PROVE  EntriesApart(r)
<1>1. SUFFICES ASSUME NEW p \in Positions(s), NEW q \in Positions(s), p # q
               PROVE  /\ r.items[p].hook # r.items[q].hook
                      /\ r.items[p].free # Null => r.items[p].free # r.items[q].free
  BY DEF EntriesApart
<1>2. /\ s.items[p].hook # s.items[q].hook
      /\ s.items[p].free # Null => s.items[p].free # s.items[q].free
  BY <1>1 DEF EntriesApart
<1>3. QED
  BY <1>1, <1>2

(* FreeHookTrampolineIfNeeded frees a trampoline that leads to no detour.  *)
LEMMA FreeFacts ==
    ASSUME NEW A, NEW s, Sound(s, A), NEW p \in Positions(s),
           NEW r, r = FreeHookTrampolineIfNeeded(s, p)
    PROVE  /\ Sound(r, A) /\ SameEntries(s, r)
           /\ r.items[p].free = Null
           /\ \A q \in Positions(s) : r.items[q].free \in {s.items[q].free, Null}
           /\ r.fields = s.fields /\ r.original = s.original /\ r.jumps = s.jumps
           /\ \A k \in Tramps : s.tramps[k].detour # Null => r.tramps[k] = s.tramps[k]
<1> DEFINE e == s.items[p]
           f == e.free
<1>1. /\ s \in Heaps /\ e \in Items /\ EntryOK(s, p, A) /\ EntriesApart(s)
      /\ s.items \in Seq(Items) /\ s.tramps \in [Tramps -> TrampStates]
      /\ Positions(s) = 1..Size(s) /\ Size(s) \in Nat
  BY HeapTypes DEF Sound
<1>2. CASE f = Null
  BY <1>1, <1>2 DEF FreeHookTrampolineIfNeeded, SameEntries, SameEntry
<1>3. CASE f # Null
  <2>1. f \in Tramps /\ s.tramps[f].detour = Null /\ [e EXCEPT !.free = Null] \in Items
    BY <1>1, <1>3, ItemTypes DEF EntryOK
  <2>2. r = [s EXCEPT !.tramps = [s.tramps EXCEPT ![f] = NoTramp],
                      !.items = [s.items EXCEPT ![p] = [e EXCEPT !.free = Null]]]
    BY <1>3 DEF FreeHookTrampolineIfNeeded
  <2>3. /\ [s.items EXCEPT ![p] = [e EXCEPT !.free = Null]] \in Seq(Items)
        /\ Len([s.items EXCEPT ![p] = [e EXCEPT !.free = Null]]) = Size(s)
        /\ \A q \in Positions(s) : [s.items EXCEPT ![p] = [e EXCEPT !.free = Null]][q]
                = IF q = p THEN [e EXCEPT !.free = Null] ELSE s.items[q]
    BY <1>1, <2>1, ExceptSeq DEF Positions, Size
  <2>4. [s.tramps EXCEPT ![f] = NoTramp] \in [Tramps -> TrampStates]
    BY <1>1 DEF TrampStates, NoTramp
  <2>5. /\ r \in Heaps /\ Size(r) = Size(s) /\ Positions(r) = Positions(s)
        /\ r.fields = s.fields /\ r.original = s.original /\ r.jumps = s.jumps
        /\ r.items[p] = [e EXCEPT !.free = Null]
        /\ \A q \in Positions(s) : q # p => r.items[q] = s.items[q]
        /\ \A k \in Tramps : r.tramps[k] = IF k = f THEN NoTramp ELSE s.tramps[k]
    BY <1>1, <2>2, <2>3, <2>4 DEF Heaps, Size, Positions
  <2>6. /\ r.items[p].hook = e.hook /\ r.items[p].ptr = e.ptr /\ r.items[p].free = Null
        /\ r.items[p].enabled = e.enabled /\ r.items[p].queue = e.queue
    BY <1>1, <2>5 DEF Items
  <2>7. SameEntries(s, r)
    BY <2>5, <2>6 DEF SameEntries, SameEntry
  <2>8. EntriesApart(r)
    <3>1. \A q \in Positions(s) : /\ r.items[q].hook = s.items[q].hook
                                  /\ r.items[q].free \in {s.items[q].free, Null}
      BY <2>5, <2>6
    <3>2. QED
      BY <1>1, <2>5, <3>1, StayApart
  <2>9. ASSUME NEW q \in Positions(r) PROVE EntryOK(r, q, A)
    <3>1. /\ EntryOK(s, q, A) /\ r.items[q].hook = s.items[q].hook
          /\ r.items[q].ptr = s.items[q].ptr
          /\ r.items[q].free # Null => /\ r.items[q].free = s.items[q].free
                                       /\ r.items[q].free # f
      <4>1. EntryOK(s, q, A)
        BY <2>5, <2>9 DEF Sound
      <4>2. CASE q = p
        BY <2>5, <2>6, <4>1, <4>2
      <4>3. CASE q # p
        BY <1>1, <1>3, <2>5, <2>9, <4>1, <4>3 DEF EntriesApart
      <4>4. QED
        BY <4>2, <4>3
    <3>2. \A k \in Tramps : k # f => r.tramps[k] = s.tramps[k]
      BY <2>5
    <3>3. s.items[q].free \in Tramps \union {Null} /\ s.items[q].hook \in HookSet
      BY <1>1, <2>5, <2>9, HeapTypes, ItemTypes
    <3>4. QED
      <4>1. s.items[q].hook # Null
        BY <3>3, ArrayAssumption
      <4>2. \A k \in Tramps : s.tramps[k].detour = s.items[q].hook => r.tramps[k] = s.tramps[k]
        BY <2>1, <3>2, <4>1
      <4>3. r.items[q].free # Null => /\ r.tramps[s.items[q].free].detour = Null
                                      /\ r.tramps[s.items[q].free].target # Null
        BY <3>1, <3>2, <3>3 DEF EntryOK
      <4>4. r.original = s.original
        BY <2>5
      <4>5. KeepsEntry(s, q, r, q)
        BY <3>1, <4>2, <4>3, <4>4 DEF KeepsEntry
      <4>6. QED
        BY <3>1, <4>5, StillOK
  <2>10. Linked(r, A)
    <3>1. \A k \in Tramps : OffChain(s, k) \/ r.tramps[k] = s.tramps[k]
      BY <1>1, <2>5 DEF OffChain
    <3>2. \A q \in Positions(s) :
              /\ SameOwner(s, q, r, q)
              /\ r.items[q].free # Null => r.items[q].free = s.items[q].free
      BY <2>5, <2>6 DEF SameOwner
    <3>3. Follows(s, A, r, A)
      BY <2>5, <3>1, <3>2 DEF Follows
    <3>4. QED
      BY <3>3, StillLinked DEF Sound
  <2>11. Sound(r, A)
    BY <2>5, <2>8, <2>9, <2>10 DEF Sound
  <2>12. QED
    BY <2>1, <2>5, <2>6, <2>7, <2>11
<1>4. QED
  BY <1>2, <1>3

(* Moving the array does no harm: no pointer leads into it.                *)
LEMMA ReallocFacts ==
    ASSUME NEW A, NEW s, Sound(s, A), NEW n \in Nat, Size(s) <= n, NEW moves,
           NEW r, r = Realloc(s, n, moves)
    PROVE  /\ Sound(r, A) /\ r.items = s.items /\ Len(r.fields) = n
           /\ r.original = s.original /\ r.tramps = s.tramps /\ r.jumps = s.jumps
<1> DEFINE fields == [p \in 1..n |-> IF p \in DOMAIN s.fields THEN s.fields[p] ELSE Junk]
           items == [p \in Positions(s) |->
                        IF moves /\ s.items[p].ptr.kind = "field"
                        THEN [s.items[p] EXCEPT !.ptr = Freed] ELSE s.items[p]]
<1>1. /\ s \in Heaps /\ s.items \in [1..Size(s) -> Items] /\ s.fields \in Seq(Values)
      /\ Positions(s) = 1..Size(s) /\ s.items \in Seq(Items)
  BY HeapTypes, LenProperties DEF Sound, Size
<1>2. items = s.items
  <2>1. \A p \in Positions(s) : s.items[p].ptr.kind # "field"
    BY HasVariable DEF Sound
  <2>2. QED
    BY <1>1, <2>1
<1>3. fields \in Seq(Values) /\ Len(fields) = n
  <2>1. fields \in [1..n -> Values]
    BY <1>1 DEF Values
  <2>2. QED
    BY <2>1, IsSeq
<1>4. r = [s EXCEPT !.fields = fields, !.items = items]
  BY DEF Realloc
<1>5. /\ r \in Heaps /\ r.items = s.items /\ r.fields = fields
      /\ r.original = s.original /\ r.tramps = s.tramps /\ r.jumps = s.jumps
  BY <1>1, <1>2, <1>3, <1>4 DEF Heaps
<1>6. EntriesApart(r) /\ Positions(r) = Positions(s)
  BY <1>5 DEF Sound, EntriesApart, Positions
<1>7. ASSUME NEW p \in Positions(r) PROVE EntryOK(r, p, A)
  <2>1. EntryOK(s, p, A)
    BY <1>6 DEF Sound
  <2>2. s.items[p].free # Null => /\ s.tramps[s.items[p].free].detour = Null
                                  /\ s.tramps[s.items[p].free].target # Null
    BY <2>1 DEF EntryOK
  <2>3. KeepsEntry(s, p, r, p)
    BY <1>5, <2>2 DEF KeepsEntry
  <2>4. QED
    BY <2>1, <2>3, StillOK
<1>8. Linked(r, A)
  <2>1. Linked(s, A) /\ \A p \in Positions(s) : SameOwner(s, p, r, p)
    BY <1>5 DEF Sound, SameOwner
  <2>2. QED
    BY <1>5, <1>6, <2>1, AlsoLinked
<1>9. QED
  BY <1>3, <1>5, <1>6, <1>7, <1>8 DEF Sound, Size

(* AddHookEntry makes room for one more entry.                             *)
LEMMA AddHookEntryFacts ==
    ASSUME NEW A, NEW s, Sound(s, A), NEW moves, NEW r, r = AddHookEntry(s, moves)
    PROVE  /\ Sound(r, A) /\ r.items = s.items /\ Size(s) + 1 <= Len(r.fields)
           /\ r.original = s.original /\ r.tramps = s.tramps /\ r.jumps = s.jumps
<1> DEFINE capacity == Len(s.fields)
<1>1. /\ Size(s) \in Nat /\ capacity \in Nat /\ Size(s) <= capacity
      /\ Capacity \in Nat /\ Capacity >= 1
  BY HeapTypes, ArrayAssumption DEF Sound
<1>2. CASE capacity = 0
  <2>1. Size(s) <= Capacity /\ Size(s) + 1 <= Capacity
    BY <1>1, <1>2
  <2>2. PICK stays : r = Realloc(s, Capacity, stays)
    BY <1>2 DEF AddHookEntry
  <2>3. QED
    BY <1>1, <2>1, <2>2, ReallocFacts
<1>3. CASE capacity # 0 /\ Size(s) >= capacity
  <2>1. r = Realloc(s, 2 * capacity, moves) /\ Size(s) <= 2 * capacity /\ 2 * capacity \in Nat
        /\ Size(s) + 1 <= 2 * capacity
    BY <1>1, <1>3 DEF AddHookEntry
  <2>2. QED
    BY <2>1, ReallocFacts
<1>4. CASE capacity # 0 /\ ~(Size(s) >= capacity)
  BY <1>1, <1>4 DEF AddHookEntry
<1>5. QED
  BY <1>2, <1>3, <1>4

(* CreateHook appends an entry that is neither enabled nor queued.         *)
LEMMA CreateHookFacts ==
    ASSUME NEW s, NEW A, A \subseteq Positions(s), Sound(s, A),
           NEW h \in HookSet \intersect Originals, NEW moves,
           \A p \in Positions(s) : s.items[p].hook # h,
           NEW r, r = CreateHook(s, h, h, moves)
    PROVE  /\ Sound(r, A) /\ Size(r) = Size(s) + 1
           /\ \A p \in Positions(s) : r.items[p] = s.items[p]
           /\ LET e == r.items[Size(s) + 1]
              IN e.hook = h /\ ~e.enabled /\ ~e.queue
<1> DEFINE added == AddHookEntry(s, moves)
           pos == Size(s) + 1
           shared == {p \in Positions(s) : added.items[p].ptr = Variable(h)}
           redirected ==
            [added EXCEPT
                !.items = [p \in Positions(s) |->
                    IF p \in shared THEN [added.items[p] EXCEPT !.ptr = Field(p)]
                    ELSE added.items[p]],
                !.fields = [p \in DOMAIN added.fields |->
                    IF p \in shared THEN added.original[h] ELSE added.fields[p]]]
           item == [hook |-> h, ptr |-> Variable(h), free |-> Null,
                    enabled |-> FALSE, queue |-> FALSE]
           entered == [redirected EXCEPT !.items = Append(@, item), !.fields[pos] = Junk]
<1>1. /\ Sound(added, A) /\ added.items = s.items /\ pos <= Len(added.fields)
      /\ added.original = s.original /\ added.tramps = s.tramps /\ added.jumps = s.jumps
      /\ added \in Heaps /\ s \in Heaps
  BY AddHookEntryFacts DEF Sound
<1> HIDE DEF added
<1>2. /\ Size(s) \in Nat /\ s.items \in Seq(Items) /\ s.items \in [1..Size(s) -> Items]
      /\ Positions(s) = 1..Size(s) /\ Positions(added) = 1..Size(s) /\ DOMAIN s.items = 1..Size(s)
      /\ added.fields \in Seq(Values) /\ added.fields \in [1..Len(added.fields) -> Values]
      /\ Len(added.fields) \in Nat /\ pos \in 1..Len(added.fields)
      /\ DOMAIN added.fields = 1..Len(added.fields)
  BY <1>1, HeapTypes, LenProperties DEF Size, Positions
<1>3. shared = {}
  <2>1. \A p \in Positions(s) : s.items[p].ptr # Variable(h)
    <3>1. SUFFICES ASSUME NEW p \in Positions(s), s.items[p].ptr = Variable(h) PROVE FALSE
      OBVIOUS
    <3>2. s.items[p].ptr.of = s.items[p].hook /\ s.items[p].hook # h
      BY HasVariable DEF Sound
    <3>3. Variable(h).of = h
      BY DEF Variable
    <3>4. QED
      BY <3>1, <3>2, <3>3
  <2>2. QED
    BY <1>1, <2>1
<1>4. redirected = added
  <2>1. /\ [p \in Positions(s) |->
               IF p \in shared THEN [added.items[p] EXCEPT !.ptr = Field(p)]
               ELSE added.items[p]] = added.items
        /\ [p \in DOMAIN added.fields |->
               IF p \in shared THEN added.original[h] ELSE added.fields[p]] = added.fields
    BY <1>1, <1>2, <1>3
  <2>2. [added EXCEPT !.items = added.items, !.fields = added.fields] = added
    BY <1>1 DEF Heaps
  <2>3. QED
    BY <2>1, <2>2
<1>5. r = [added EXCEPT !.items = Append(s.items, item), !.fields = [added.fields EXCEPT ![pos] = Junk],
                        !.original = [s.original EXCEPT ![h] = Function(h[2])]]
  <2>1. h # Null
    BY ArrayAssumption
  <2>2. r = Store(entered, Variable(h), Function(h[2]))
    BY <2>1 DEF CreateHook, added
  <2>3. entered = [added EXCEPT !.items = Append(s.items, item),
                                !.fields = [added.fields EXCEPT ![pos] = Junk]]
    BY <1>1, <1>4
  <2>4. r = [entered EXCEPT !.original = [entered.original EXCEPT ![h] = Function(h[2])]]
    BY <2>2 DEF Store, Variable
  <2>5. entered.original = s.original
    BY <1>1, <2>3 DEF Heaps
  <2>6. QED
    BY <1>1, <2>3, <2>4, <2>5 DEF Heaps
<1>6. item \in Items /\ h[2] \in Targets /\ Function(h[2]) \in Values /\ Junk \in Values
  BY ArrayAssumption DEF Items, Values
<1>7. /\ Append(s.items, item) \in Seq(Items) /\ Len(Append(s.items, item)) = pos
      /\ \A p \in 1..Size(s) : Append(s.items, item)[p] = s.items[p]
      /\ Append(s.items, item)[pos] = item
  BY <1>2, <1>6, AppendProperties DEF Size
<1>8. /\ [added.fields EXCEPT ![pos] = Junk] \in Seq(Values)
      /\ Len([added.fields EXCEPT ![pos] = Junk]) = Len(added.fields)
  BY <1>2, <1>6, ExceptSeq
<1>9. [s.original EXCEPT ![h] = Function(h[2])] \in [Originals -> Values]
  BY <1>1, <1>6, HeapTypes
<1>10. /\ r \in Heaps /\ Size(r) = pos /\ Positions(r) = 1..pos /\ Len(r.fields) = Len(added.fields)
       /\ \A p \in 1..Size(s) : r.items[p] = s.items[p]
       /\ r.items[pos] = item /\ r.tramps = s.tramps /\ r.jumps = s.jumps
       /\ r.original = [s.original EXCEPT ![h] = Function(h[2])]
  BY <1>1, <1>5, <1>7, <1>8, <1>9 DEF Heaps, Size, Positions
<1>11. EntriesApart(r)
  <2>1. EntriesApart(s)
    BY DEF Sound
  <2>2. SUFFICES ASSUME NEW p \in 1..pos, NEW q \in 1..pos, p # q
                 PROVE  /\ r.items[p].hook # r.items[q].hook
                        /\ r.items[p].free # Null => r.items[p].free # r.items[q].free
    BY <1>10 DEF EntriesApart
  <2>3. CASE p = pos \/ q = pos
    <3>1. r.items[pos].hook = h /\ r.items[pos].free = Null
      BY <1>10
    <3>2. \A u \in 1..pos : u # pos => u \in 1..Size(s)
      BY <1>2
    <3>3. \A u \in 1..pos : u # pos => r.items[u].hook # h
      BY <1>2, <1>10, <3>2
    <3> HIDE DEF pos
    <3>4. QED
      BY <2>2, <2>3, <3>1, <3>3
  <2>4. CASE p # pos /\ q # pos
    <3>1. p \in Positions(s) /\ q \in Positions(s)
      BY <1>2, <2>2, <2>4
    <3>2. QED
      BY SMTT(30), <1>2, <1>10, <2>1, <2>2, <3>1 DEF EntriesApart
  <2>5. QED
    BY <2>3, <2>4
<1>12. ASSUME NEW p \in 1..pos PROVE EntryOK(r, p, A)
  <2>1. CASE p = pos
    <3>1. r.original[h] = Function(h[2]) /\ pos \notin A
      BY <1>1, <1>2, <1>10, HeapTypes
    <3>2. r.items[p].hook = h /\ r.items[p].ptr = Variable(h) /\ r.items[p].free = Null
      BY <1>10, <2>1
    <3>3. QED
      BY <2>1, <3>1, <3>2 DEF EntryOK
  <2>2. CASE p # pos
    <3>1. EntryOK(s, p, A) /\ p \in 1..Size(s) /\ s.items[p].hook # h /\ r.items[p] = s.items[p]
      BY <1>2, <1>10, <2>2 DEF Sound
    <3>2. r.original[s.items[p].hook] = s.original[s.items[p].hook]
      BY <1>1, <1>10, <3>1, HeapTypes
    <3>3. s.items[p].free # Null => /\ s.tramps[s.items[p].free].detour = Null
                                    /\ s.tramps[s.items[p].free].target # Null
      BY <3>1 DEF EntryOK
    <3>4. KeepsEntry(s, p, r, p)
      BY <1>10, <3>1, <3>2, <3>3 DEF KeepsEntry
    <3>5. QED
      BY <3>1, <3>4, StillOK
  <2>3. QED
    BY <2>1, <2>2
<1>13. Linked(r, A)
  <2>1. \A p \in Positions(s) : /\ p \in Positions(r) /\ SameOwner(s, p, r, p)
                                /\ r.items[p].free = s.items[p].free
    <3>1. SUFFICES ASSUME NEW p \in Positions(s)
                   PROVE  /\ p \in Positions(r) /\ SameOwner(s, p, r, p)
                          /\ r.items[p].free = s.items[p].free
      OBVIOUS
    <3>2. p \in 1..Size(s) /\ p \in 1..pos /\ r.items[p] = s.items[p] /\ s.items[p].hook # h
      BY <1>2, <1>10
    <3>3. r.original[s.items[p].hook] = s.original[s.items[p].hook]
      BY <1>1, <1>10, <3>2, HeapTypes
    <3>4. QED
      BY <1>10, <3>2, <3>3 DEF SameOwner
  <2>2. \A q \in Positions(r) : q \in Positions(s) \/ r.items[q].free = Null
    BY <1>2, <1>10
  <2>3. \A q \in Positions(r) : q \in A => q \in Positions(s)
    OBVIOUS
  <2>4. r.jumps = s.jumps /\ r.tramps = s.tramps
    BY <1>10
  <2>5. Follows(s, A, r, A)
    BY <2>1, <2>2, <2>3, <2>4 DEF Follows
  <2>6. QED
    BY <2>5, StillLinked DEF Sound
<1>14. QED
  BY <1>1, <1>2, <1>10, <1>11, <1>12, <1>13 DEF Sound

(* Where the entry was that is at q when the one at p has been deleted.    *)
From(s, p, q) == IF q = p THEN Size(s) ELSE q

(* DeleteHookEntry: the other entries stay, the last one in another place. *)
LEMMA DeleteHookEntryFacts ==
    ASSUME NEW s, NEW A, Sound(s, A), NEW p \in Positions(s), p \notin A,
           s.items[p].free = Null, NEW moves, NEW r, r = DeleteHookEntry(s, p, moves),
           NEW B, \A q \in 1..(Size(s) - 1) : q \in B <=> From(s, p, q) \in A
    PROVE  /\ Sound(r, B) /\ Size(r) = Size(s) - 1
           /\ \A q \in Positions(r) :
                From(s, p, q) \in Positions(s) /\ r.items[q] = s.items[From(s, p, q)]
<1> DEFINE last == Size(s)
           capacity == Len(s.fields)
           swapped == [s EXCEPT !.items = ReplaceAt(Front(s.items), p, s.items[last]),
                                !.fields[p] = s.fields[last]]
           deleted == [s EXCEPT !.items = Front(@)]
           rest == IF p < last THEN swapped ELSE deleted
<1>1. /\ s \in Heaps /\ s.items \in Seq(Items) /\ s.fields \in Seq(Values)
      /\ last \in Nat /\ capacity \in Nat /\ last <= capacity /\ p \in 1..last
      /\ Positions(s) = 1..last /\ s.items[last] \in Items /\ last - 1 \in Nat
      /\ s.fields \in [1..capacity -> Values] /\ last = Len(s.items)
      /\ s.fields[last] \in Values
  BY HeapTypes, LenProperties, ElementOfSeq DEF Sound, Size
<1>2. /\ Front(s.items) \in Seq(Items) /\ Len(Front(s.items)) = last - 1
      /\ \A q \in 1..(last - 1) : Front(s.items)[q] = s.items[q]
  <2>1. Front(s.items) = SubSeq(s.items, 1, last - 1)
    BY <1>1 DEF Front
  <2>2. \A q \in 1..(last - 1) : s.items[q] \in Items
    BY <1>1, HeapTypes
  <2>3. QED
    BY <1>1, <2>1, <2>2
<1>3. /\ rest \in Heaps /\ Size(rest) = last - 1 /\ Len(rest.fields) = capacity
      /\ \A q \in 1..(last - 1) : rest.items[q] = s.items[From(s, p, q)]
      /\ rest.original = s.original /\ rest.tramps = s.tramps /\ rest.jumps = s.jumps
  <2>1. CASE p < last
    <3>1. /\ ReplaceAt(Front(s.items), p, s.items[last]) \in Seq(Items)
          /\ Len(ReplaceAt(Front(s.items), p, s.items[last])) = last - 1
          /\ \A q \in 1..(last - 1) : ReplaceAt(Front(s.items), p, s.items[last])[q]
                                      = IF q = p THEN s.items[last] ELSE Front(s.items)[q]
      BY <1>1, <1>2, <2>1, ExceptSeq DEF ReplaceAt
    <3>2. /\ [s.fields EXCEPT ![p] = s.fields[last]] \in Seq(Values)
          /\ Len([s.fields EXCEPT ![p] = s.fields[last]]) = capacity
      BY <1>1, ExceptSeq
    <3>3. /\ rest.items = ReplaceAt(Front(s.items), p, s.items[last])
          /\ rest.fields = [s.fields EXCEPT ![p] = s.fields[last]]
          /\ rest = [s EXCEPT !.items = rest.items, !.fields = rest.fields]
      BY <1>1, <2>1 DEF Heaps
    <3>4. QED
      BY <1>1, <1>2, <3>1, <3>2, <3>3 DEF Heaps, Size, From
  <2>2. CASE ~(p < last)
    <3>1. rest = [s EXCEPT !.items = Front(s.items)] /\ p = last
      BY <1>1, <2>2
    <3>2. QED
      BY <1>1, <1>2, <3>1 DEF Heaps, Size, From
  <2>3. QED
    BY <2>1, <2>2
<1> HIDE DEF rest
<1>4. \A q \in 1..(last - 1) : From(s, p, q) \in Positions(s)
  BY <1>1 DEF From
<1>5. Positions(rest) = 1..(last - 1)
  BY <1>3 DEF Positions, Size
<1>6. EntriesApart(rest)
  <2>1. SUFFICES ASSUME NEW q \in 1..(last - 1), NEW u \in 1..(last - 1), q # u
                 PROVE  /\ rest.items[q].hook # rest.items[u].hook
                        /\ rest.items[q].free # Null => rest.items[q].free # rest.items[u].free
    BY <1>5 DEF EntriesApart
  <2>2. From(s, p, q) # From(s, p, u) /\ From(s, p, q) \in Positions(s) /\ From(s, p, u) \in Positions(s)
    BY <1>1, <2>1 DEF From
  <2>3. QED
    BY <1>3, <2>2 DEF Sound, EntriesApart
<1>7. ASSUME NEW q \in 1..(last - 1) PROVE EntryOK(rest, q, B)
  <2>1. EntryOK(s, From(s, p, q), A) /\ (q \in B <=> From(s, p, q) \in A)
    BY <1>4 DEF Sound
  <2>2. rest.items[q] = s.items[From(s, p, q)]
    BY <1>3
  <2>3. QED
    BY <1>3, <2>1, <2>2 DEF EntryOK
<1>8. Sound(rest, B)
  <2>1. \A q \in Positions(rest) :
            /\ From(s, p, q) \in Positions(s) /\ (q \in B <=> From(s, p, q) \in A)
            /\ SameOwner(s, From(s, p, q), rest, q)
            /\ rest.items[q].free = s.items[From(s, p, q)].free
    BY <1>3, <1>4, <1>5 DEF SameOwner
  <2>2. \A u \in Positions(s) : u # p => \E q \in Positions(rest) : From(s, p, q) = u
    <3>1. SUFFICES ASSUME NEW u \in Positions(s), u # p
                   PROVE  \E q \in Positions(rest) : From(s, p, q) = u
      OBVIOUS
    <3>2. u = last => p \in 1..(last - 1) /\ From(s, p, p) = u
      BY <1>1, <3>1 DEF From
    <3>3. u # last => u \in 1..(last - 1) /\ From(s, p, u) = u
      BY <1>1, <3>1 DEF From
    <3>4. QED
      BY <1>5, <3>2, <3>3
  <2>3. Follows(s, A, rest, B)
    <3>1. \A u \in Positions(s) : u \in A =>
              \E q \in Positions(rest) : q \in B /\ SameOwner(s, u, rest, q)
      BY <2>1, <2>2
    <3>2. \A q \in Positions(rest) : q \in B =>
              \E u \in Positions(s) : u \in A /\ SameOwner(s, u, rest, q)
      BY <2>1
    <3>3. QED
      BY <1>3, <2>1, <3>1, <3>2 DEF Follows
  <2>4. Linked(rest, B)
    BY <2>3, StillLinked DEF Sound
  <2>5. QED
    BY <1>1, <1>3, <1>5, <1>6, <1>7, <2>4 DEF Sound
<1>9. \/ r = rest
      \/ r = Realloc(rest, capacity \div 2, moves) /\ capacity \div 2 >= last - 1
  BY DEF DeleteHookEntry, rest
<1>10. Sound(r, B) /\ r.items = rest.items
  <2>1. \A n \in Nat : n \div 2 \in Nat
    OBVIOUS
  <2>2. CASE r = rest
    BY <1>8, <2>2
  <2>3. CASE r = Realloc(rest, capacity \div 2, moves) /\ capacity \div 2 >= last - 1
    <3>1. PICK n \in Nat : n = capacity \div 2
      BY <1>1, <2>1
    <3>2. r = Realloc(rest, n, moves) /\ Size(rest) <= n
      BY <1>1, <1>3, <2>3, <3>1
    <3>3. QED
      BY <1>8, <3>2, ReallocFacts
  <2>4. QED
    BY <1>9, <2>2, <2>3
<1>11. Positions(r) = 1..(last - 1) /\ Size(r) = last - 1
  BY <1>3, <1>5, <1>10 DEF Positions, Size
<1>12. QED
  BY <1>3, <1>4, <1>10, <1>11

------------------------------------------------------------------------------
(* RemoveDisabledHooks.                                                    *)

(* The entry at p is one that RemoveDisabledHooks is to remove.            *)
Goes(s, ident, p) == p \in ItemsOf(s, ident) /\ ~s.items[p].enabled

(* What r has is in s, and r has what does not go from s.                  *)
Kept(s, r, ident) ==
    /\ \A q \in Positions(r) : \E p \in Positions(s) : SameEntry(s.items[p], r.items[q])
    /\ \A p \in Positions(s) :
         ~Goes(s, ident, p) => \E q \in Positions(r) : SameEntry(s.items[p], r.items[q])

(* FindDisabled answers the first disabled entry of ident from pos on, or 0.*)
LEMMA FindDisabledFacts ==
    ASSUME NEW s \in Heaps, NEW ident, NEW pos \in Nat, NEW p, p = FindDisabled(s, ident, pos)
    PROVE  \/ p = 0 /\ \A q \in Positions(s) : q >= pos => ~Goes(s, ident, q)
           \/ /\ p \in Positions(s) /\ p >= pos /\ Goes(s, ident, p)
              /\ \A q \in Positions(s) : q >= pos /\ q < p => ~Goes(s, ident, q)
<1> DEFINE found == {q \in ItemsOf(s, ident) : q >= pos /\ ~s.items[q].enabled}
<1>1. /\ found = {q \in Positions(s) : q >= pos /\ Goes(s, ident, q)}
      /\ Positions(s) \subseteq Nat
  BY HeapTypes DEF ItemsOf, Goes
<1>2. p = IF found = {} THEN 0 ELSE CHOOSE q \in found : \A u \in found : q <= u
  BY DEF FindDisabled
<1> HIDE DEF found
<1>3. CASE found = {}
  BY <1>1, <1>2, <1>3
<1>4. CASE found # {}
  <2>1. found \in SUBSET Nat
    BY <1>1
  <2>2. \E q \in found : \A u \in found : q <= u
    BY <1>4, <2>1, Least
  <2>3. p \in found /\ \A u \in found : p <= u
    BY <1>2, <1>4, <2>2
  <2>4. \A u \in found : ~(u < p)
    BY <2>1, <2>3
  <2>5. QED
    BY <1>1, <2>3, <2>4
<1>5. QED
  BY <1>3, <1>4

(* What goes is determined by the entry.                                   *)
LEMMA SameGoes ==
    ASSUME NEW s, NEW r, NEW ident, NEW p \in Positions(s), NEW q \in Positions(r),
           SameEntry(s.items[p], r.items[q])
    PROVE  Goes(s, ident, p) <=> Goes(r, ident, q)
BY DEF Goes, SameEntry, ItemsOf

(* One round: the entry that was found, and only that, is gone.            *)
LEMMA RemoveFoundFacts ==
    ASSUME NEW s, Sound(s, Flagged(s)), NEW pos \in Nat, NEW ident, NEW moves,
           \A q \in Positions(s) : q < pos => ~Goes(s, ident, q),
           NEW at, at.heap = s, at.pos = pos,
           NEW new, new = RemoveFound(at, ident, moves)
    PROVE  /\ \A q \in Positions(new.heap) : q < new.pos => ~Goes(new.heap, ident, q)
           /\ Sound(new.heap, Flagged(new.heap)) /\ Kept(s, new.heap, ident)
           /\ \/ new = at /\ \A q \in Positions(s) : ~Goes(s, ident, q)
              \/ /\ new = [heap |-> new.heap, pos |-> new.pos]
                 /\ new.pos \in Nat /\ Size(new.heap) = Size(s) - 1
<1> DEFINE p == FindDisabled(s, ident, pos)
           freed == FreeHookTrampolineIfNeeded(s, p)
           r == DeleteHookEntry(freed, p, moves)
<1>1. s \in Heaps /\ Positions(s) = 1..Size(s) /\ Size(s) \in Nat
  BY HeapTypes DEF Sound
<1>2. new = IF p = 0 THEN at ELSE [heap |-> r, pos |-> p]
  BY DEF RemoveFound
<1>3. \/ p = 0 /\ \A q \in Positions(s) : q >= pos => ~Goes(s, ident, q)
      \/ /\ p \in Positions(s) /\ p >= pos /\ Goes(s, ident, p)
         /\ \A q \in Positions(s) : q >= pos /\ q < p => ~Goes(s, ident, q)
  BY <1>1, FindDisabledFacts
<1> HIDE DEF p
<1>4. CASE p = 0
  <2>1. new = at /\ new.heap = s
    BY <1>2, <1>4
  <2>2. \A q \in Positions(s) : ~Goes(s, ident, q)
    BY <1>1, <1>3, <1>4
  <2>3. Kept(s, s, ident)
    BY DEF Kept, SameEntry
  <2>4. QED
    BY <2>1, <2>2, <2>3
<1>5. CASE p # 0
  <2>1. /\ p \in Positions(s) /\ p >= pos /\ Goes(s, ident, p) /\ p \in Nat
        /\ \A q \in Positions(s) : q < p => ~Goes(s, ident, q)
    BY <1>1, <1>3, <1>5
  <2>2. new = [heap |-> r, pos |-> p] /\ new.heap = r /\ new.pos = p
    BY <1>2, <1>5
  <2>3. /\ Sound(freed, Flagged(s)) /\ SameEntries(s, freed) /\ freed.items[p].free = Null
        /\ Positions(freed) = Positions(s)
    BY <2>1, FreeFacts DEF SameEntries, Positions, Size
  <2>4. p \notin Flagged(s)
    BY <2>1 DEF Goes, Flagged
  <2> DEFINE B == {q \in 1..(Size(s) - 1) : From(freed, p, q) \in Flagged(s)}
  <2>5. /\ Sound(r, B) /\ Size(r) = Size(s) - 1
        /\ \A q \in Positions(r) : /\ From(freed, p, q) \in Positions(s)
                                   /\ r.items[q] = freed.items[From(freed, p, q)]
    <3>1. Size(freed) = Size(s) /\ p \in Positions(freed)
      BY <2>1, <2>3 DEF SameEntries
    <3>2. \A q \in 1..(Size(freed) - 1) : q \in B <=> From(freed, p, q) \in Flagged(s)
      BY <3>1
    <3> HIDE DEF B, freed
    <3>3. /\ Sound(r, B) /\ Size(r) = Size(freed) - 1
          /\ \A q \in Positions(r) : /\ From(freed, p, q) \in Positions(freed)
                                    /\ r.items[q] = freed.items[From(freed, p, q)]
      BY <2>3, <2>4, <3>1, <3>2, DeleteHookEntryFacts
    <3>4. QED
      BY <2>3, <3>1, <3>3
  <2>6. Positions(r) = 1..(Size(s) - 1)
    BY <2>5 DEF Positions, Size
  <2>7. \A q \in Positions(r) : SameEntry(s.items[From(freed, p, q)], r.items[q])
    BY <2>3, <2>5 DEF SameEntries
  <2> HIDE DEF r, freed
  <2>8. Flagged(r) = B
    BY <2>5, <2>6, <2>7 DEF Flagged, SameEntry
  <2>9. Kept(s, r, ident)
    <3>1. ASSUME NEW u \in Positions(s), ~Goes(s, ident, u)
          PROVE  \E q \in Positions(r) : SameEntry(s.items[u], r.items[q])
      <4>1. u # p
        BY <2>1, <3>1
      <4>2. CASE u = Size(s)
        <5>1. p \in Positions(r) /\ From(freed, p, p) = u
          BY <1>1, <2>1, <2>3, <2>6, <4>1, <4>2 DEF From, SameEntries
        <5>2. QED
          BY <2>7, <5>1
      <4>3. CASE u # Size(s)
        <5>1. u \in Positions(r) /\ From(freed, p, u) = u
          BY <1>1, <2>6, <3>1, <4>1, <4>3 DEF From
        <5>2. QED
          BY <2>7, <5>1
      <4>4. QED
        BY <4>2, <4>3
    <3>2. QED
      BY <2>5, <2>7, <3>1 DEF Kept
  <2>10. ASSUME NEW q \in Positions(r), q < p PROVE ~Goes(r, ident, q)
    <3>1. From(freed, p, q) = q /\ q \in Positions(s)
      BY <1>1, <2>1, <2>6, <2>10 DEF From
    <3>2. QED
      BY <2>1, <2>7, <2>10, <3>1, SameGoes
  <2>11. QED
    BY <2>1, <2>2, <2>5, <2>8, <2>9, <2>10
<1>6. QED
  BY <1>4, <1>5

(* Two removals that keep the entries of others keep them together.        *)
LEMMA KeptAgain ==
    ASSUME NEW s, NEW x, NEW r, NEW ident, Kept(s, x, ident), Kept(x, r, ident)
    PROVE  Kept(s, r, ident)
<1>1. ASSUME NEW q \in Positions(r)
      PROVE  \E p \in Positions(s) : SameEntry(s.items[p], r.items[q])
  <2>1. PICK u \in Positions(x) : SameEntry(x.items[u], r.items[q])
    BY DEF Kept
  <2>2. PICK p \in Positions(s) : SameEntry(s.items[p], x.items[u])
    BY DEF Kept
  <2>3. QED
    BY <2>1, <2>2 DEF SameEntry
<1>2. ASSUME NEW p \in Positions(s), ~Goes(s, ident, p)
      PROVE  \E q \in Positions(r) : SameEntry(s.items[p], r.items[q])
  <2>1. PICK u \in Positions(x) : SameEntry(s.items[p], x.items[u])
    BY <1>2 DEF Kept
  <2>2. ~Goes(x, ident, u)
    BY <1>2, <2>1, SameGoes
  <2>3. PICK q \in Positions(r) : SameEntry(x.items[u], r.items[q])
    BY <2>2 DEF Kept
  <2>4. QED
    BY <2>1, <2>3 DEF SameEntry
<1>3. QED
  BY <1>1, <1>2 DEF Kept

(* The loop removes what is to go, and that only.                          *)
LEMMA RemoveDisabledFacts ==
    ASSUME NEW s, Sound(s, Flagged(s)), NEW ident, NEW moves,
           NEW r, r = RemoveDisabled(s, ident, moves)
    PROVE  /\ Sound(r, Flagged(r)) /\ Kept(s, r, ident)
           /\ \A p \in Positions(r) : ~Goes(r, ident, p)
<1> DEFINE n == Size(s)
           Inv(i, at) ==
               /\ Sound(at.heap, Flagged(at.heap)) /\ Kept(s, at.heap, ident)
               /\ \A p \in Positions(at.heap) : p < at.pos => ~Goes(at.heap, ident, p)
               /\ \/ \A p \in Positions(at.heap) : ~Goes(at.heap, ident, p)
                  \/ Size(at.heap) + i <= n
           T == [i \in 0..n |-> {at \in [heap : Heaps, pos : Nat] : Inv(i, at)}]
           f == [i \in 1..n |-> [at \in T[i-1] |-> RemoveFound(at, ident, moves)]]
           first == [heap |-> s, pos |-> 1]
<1>1. s \in Heaps /\ n \in Nat /\ Positions(s) = 1..n
  BY HeapTypes DEF Sound
<1>2. first \in T[0]
  <2>1. /\ first \in [heap : Heaps, pos : Nat] /\ first.heap = s /\ first.pos = 1
        /\ 0 \in 0..n /\ Size(first.heap) + 0 <= n
    BY <1>1
  <2>2. \A p \in Positions(s) : ~(p < 1)
    BY <1>1
  <2>3. Kept(s, s, ident)
    BY DEF Kept, SameEntry
  <2>4. Inv(0, first)
    BY <2>1, <2>2, <2>3
  <2>5. QED
    BY <2>1, <2>4
<1>3. ASSUME NEW i \in 1..n, NEW at \in T[i-1]
      PROVE  RemoveFound(at, ident, moves) \in T[i]
  <2>1. at \in [heap : Heaps, pos : Nat] /\ Inv(i - 1, at) /\ i \in 0..n /\ i - 1 \in 0..n
    BY <1>1, <1>3
  <2> DEFINE x == at.heap
             new == RemoveFound(at, ident, moves)
  <2>2. x \in Heaps /\ at.pos \in Nat /\ Size(x) \in Nat
    BY <2>1, HeapTypes
  <2>3. /\ \A q \in Positions(new.heap) : q < new.pos => ~Goes(new.heap, ident, q)
        /\ Sound(new.heap, Flagged(new.heap)) /\ Kept(x, new.heap, ident)
        /\ \/ new = at /\ \A q \in Positions(x) : ~Goes(x, ident, q)
           \/ /\ new = [heap |-> new.heap, pos |-> new.pos]
              /\ new.pos \in Nat /\ Size(new.heap) = Size(x) - 1
    <3>1. /\ Sound(x, Flagged(x)) /\ at.heap = x
          /\ \A q \in Positions(x) : q < at.pos => ~Goes(x, ident, q)
      BY <2>1
    <3> HIDE DEF x, new, Inv, T
    <3>2. PICK pos \in Nat : pos = at.pos
      BY <2>2
    <3>3. new = RemoveFound(at, ident, moves)
      BY DEF new
    <3>4. QED
      BY <3>1, <3>2, <3>3, RemoveFoundFacts
  <2> HIDE DEF new
  <2>4. Kept(s, new.heap, ident)
    BY <2>1, <2>3, KeptAgain
  <2>5. new \in [heap : Heaps, pos : Nat]
    BY <2>1, <2>3 DEF Sound
  <2>6. \/ \A p \in Positions(new.heap) : ~Goes(new.heap, ident, p)
        \/ Size(new.heap) + i <= n
    <3>1. \/ \A p \in Positions(x) : ~Goes(x, ident, p)
          \/ Size(x) + (i - 1) <= n
      BY <2>1
    <3>2. CASE \A p \in Positions(x) : ~Goes(x, ident, p)
      <4>1. \A q \in Positions(new.heap) :
                \E p \in Positions(x) : SameEntry(x.items[p], new.heap.items[q])
        BY <2>3 DEF Kept
      <4>2. QED
        BY <3>2, <4>1, SameGoes
    <3>3. CASE Size(x) + (i - 1) <= n /\ Size(new.heap) = Size(x) - 1
      BY <1>1, <2>2, <3>3
    <3>4. QED
      BY <2>3, <3>1, <3>2, <3>3
  <2>7. Inv(i, new)
    BY <2>3, <2>4, <2>6
  <2>8. QED
    BY <2>1, <2>5, <2>7 DEF new
<1> HIDE DEF T
<1>4. PICK g : Rounds(g, n, f, first) /\ \A i \in 0..n : g[i] \in T[i]
  <2>1. \A i \in 1..n : \A at \in T[i-1] : f[i][at] \in T[i]
    BY <1>3
  <2> HIDE DEF f, first, n
  <2>2. QED
    BY <1>1, <1>2, <2>1, LoopExists
<1> DEFINE h == CHOOSE h : h = [i \in 0..n |-> IF i = 0 THEN first
                                               ELSE RemoveFound(h[i-1], ident, moves)]
<1>5. h = [i \in 0..n |-> IF i = 0 THEN first ELSE RemoveFound(h[i-1], ident, moves)]
  <2>1. \A i \in 1..n : g[i] = RemoveFound(g[i-1], ident, moves)
    <3>1. ASSUME NEW i \in 1..n PROVE g[i] = RemoveFound(g[i-1], ident, moves)
      <4>1. g[i] = f[i][g[i-1]] /\ g[i-1] \in T[i-1]
        <5> HIDE DEF f
        <5>1. QED
          BY <1>1, <1>4, Numbers DEF Rounds
      <4>2. QED
        BY <4>1
    <3>2. QED
      BY <3>1
  <2>2. g = [i \in 0..n |-> IF i = 0 THEN first ELSE RemoveFound(g[i-1], ident, moves)]
    <3> HIDE DEF first, n
    <3>1. \A i \in 0..n : g[i] = IF i = 0 THEN first ELSE RemoveFound(g[i-1], ident, moves)
      BY <1>1, <1>4, <2>1, Numbers DEF Rounds
    <3>2. QED
      BY <1>4, <3>1 DEF Rounds
  <2>3. QED
    BY <2>2
<1>6. \A i \in 0..n : h[i] \in T[i]
  <2> HIDE DEF h
  <2>1. h[0] = first /\ \A i \in 1..n : h[i] = RemoveFound(h[i-1], ident, moves)
    BY <1>1, <1>5
  <2> HIDE DEF first, n
  <2>2. h[0] \in T[0] /\ \A i \in 1..n : h[i-1] \in T[i-1] => h[i] \in T[i]
    BY <1>2, <1>3, <2>1
  <2>3. QED
    BY <1>1, <2>2, LoopStays
<1>7. r = h[n].heap
  BY DEF RemoveDisabled, Loop
<1>8. Inv(n, h[n])
  <2> HIDE DEF h, Inv
  <2>1. h[n] \in T[n] /\ n \in 0..n
    BY <1>1, <1>6
  <2>2. QED
    BY <2>1 DEF T
<1>9. \A p \in Positions(r) : ~Goes(r, ident, p)
  <2> HIDE DEF h
  <2>1. CASE Size(r) + n <= n
    <3>1. r \in Heaps /\ Size(r) = 0
      BY <1>1, <1>7, <1>8, <2>1, HeapTypes DEF Sound
    <3>2. QED
      BY <3>1, HeapTypes
  <2>2. QED
    BY <1>7, <1>8, <2>1
<1>10. QED
  BY <1>7, <1>8, <1>9

------------------------------------------------------------------------------
(* Transactions.                                                           *)

(* Transactions and their operations.                                      *)
Tx(x, ops) == [heap |-> x, ops |-> ops]
AddOp(p, k) == [op |-> "add", pos |-> p, tramp |-> k]
RemoveOp(p, k) == [op |-> "remove", pos |-> p, tramp |-> k]
Push(o, ops) == <<o>> \o ops

(* What preparing an operation leaves alone.                               *)
Prepared(x, r) ==
    /\ SameEntries(x, r) /\ r.original = x.original
    /\ \A q \in Positions(x) : r.items[q].free \in {x.items[q].free, Null}
    /\ \A k \in Tramps : x.tramps[k].detour # Null => r.tramps[k] = x.tramps[k]

(* A trampoline that nothing leads to becomes one for a hook.              *)
WithTramp(x, k, h) == [x EXCEPT !.tramps[k] = NewTramp(h, h[2])]

(* A trampoline taken for a hook changes no entry and no variable.         *)
LEMMA NewTrampFacts ==
    ASSUME NEW x, NEW A, Sound(x, A), NEW h \in HookSet, NEW k \in Unused(x),
           NEW r, r = WithTramp(x, k, h)
    PROVE  /\ Sound(r, A) /\ r.items = x.items /\ r.original = x.original
           /\ r.jumps = x.jumps
           /\ \A u \in Tramps : u # k => r.tramps[u] = x.tramps[u]
           /\ r.tramps[k] = NewTramp(h, h[2])
<1>1. /\ x \in Heaps /\ x.tramps \in [Tramps -> TrampStates] /\ h[2] \in Targets
      /\ k \in Tramps /\ x.tramps[k].detour = Null /\ x.tramps[k].target = Null
  BY HeapTypes, ArrayAssumption DEF Sound, Unused, NoTramp
<1>2. [x.tramps EXCEPT ![k] = NewTramp(h, h[2])] \in [Tramps -> TrampStates]
  BY <1>1 DEF TrampStates, NewTramp
<1>3. /\ r = [x EXCEPT !.tramps = [x.tramps EXCEPT ![k] = NewTramp(h, h[2])]]
      /\ r \in Heaps /\ r.items = x.items /\ r.fields = x.fields
      /\ r.original = x.original /\ r.jumps = x.jumps
      /\ r.tramps = [x.tramps EXCEPT ![k] = NewTramp(h, h[2])]
  BY <1>1, <1>2 DEF Heaps, WithTramp
<1>4. /\ \A u \in Tramps : u # k => r.tramps[u] = x.tramps[u]
      /\ r.tramps[k] = NewTramp(h, h[2])
  BY <1>1, <1>3
<1>5. EntriesApart(r) /\ Positions(r) = Positions(x) /\ Size(r) = Size(x)
  BY <1>3 DEF Sound, EntriesApart, Positions, Size
<1>6. ASSUME NEW p \in Positions(r) PROVE EntryOK(r, p, A)
  <2>1. EntryOK(x, p, A) /\ x.items[p] \in Items
    BY <1>1, <1>5, <1>6, HeapTypes DEF Sound
  <2>2. x.items[p].free \in Tramps \union {Null} /\ x.items[p].hook # Null
    BY <2>1, ItemTypes, ArrayAssumption
  <2>3. x.items[p].free # Null => /\ x.items[p].free # k
                                  /\ r.tramps[x.items[p].free] = x.tramps[x.items[p].free]
    BY <1>1, <1>4, <2>1, <2>2 DEF EntryOK
  <2>4. x.items[p].free # Null => /\ r.tramps[x.items[p].free].detour = Null
                                  /\ r.tramps[x.items[p].free].target # Null
    BY <2>1, <2>3 DEF EntryOK
  <2>5. \A u \in Tramps : x.tramps[u].detour = x.items[p].hook => r.tramps[u] = x.tramps[u]
    BY <1>1, <1>4, <2>2
  <2>6. r.items[p] = x.items[p] /\ r.original = x.original
    BY <1>3
  <2>7. KeepsEntry(x, p, r, p)
    BY <2>4, <2>5, <2>6 DEF KeepsEntry
  <2>8. QED
    BY <2>1, <2>7, StillOK
<1>7. Linked(r, A)
  <2>1. \A u \in Tramps : OffChain(x, u) \/ r.tramps[u] = x.tramps[u]
    BY <1>4 DEF OffChain, Unused
  <2>2. \A p \in Positions(x) : SameOwner(x, p, r, p) /\ r.items[p].free = x.items[p].free
    BY <1>3 DEF SameOwner
  <2>3. Follows(x, A, r, A)
    BY <1>3, <1>5, <2>1, <2>2 DEF Follows
  <2>4. QED
    BY <2>3, StillLinked DEF Sound
<1>8. QED
  BY <1>1, <1>3, <1>4, <1>5, <1>6, <1>7 DEF Sound

(* SlimDetoursAttach to an entry whose detour is not attached.             *)
LEMMA AttachFacts ==
    ASSUME NEW x, NEW A, Sound(x, A), NEW p \in Positions(x), p \notin A,
           NEW ops, NEW tx, tx = Tx(x, ops),
           NEW new, new = MHDetoursAttach(tx, p)
    PROVE  /\ Sound(new.heap, A) /\ Prepared(x, new.heap)
           /\ new = Tx(new.heap, new.ops)
           /\ \/ new.ops = ops
              \/ \E k \in Tramps :
                    /\ new.ops = Push(AddOp(p, k), ops)
                    /\ new.heap.tramps[k].detour = x.items[p].hook
                    /\ new.heap.tramps[k].target = x.items[p].hook[2]
                    /\ new.heap.items[p].free = Null
<1> DEFINE s == FreeHookTrampolineIfNeeded(x, p)
           h == x.items[p].hook
           k == CHOOSE k \in Unused(s) : TRUE
           r == WithTramp(s, k, h)
<1>1. /\ Sound(s, A) /\ SameEntries(x, s) /\ s.items[p].free = Null
      /\ s.original = x.original
      /\ \A q \in Positions(x) : s.items[q].free \in {x.items[q].free, Null}
      /\ \A u \in Tramps : x.tramps[u].detour # Null => s.tramps[u] = x.tramps[u]
  BY FreeFacts
<1>2. tx.heap = x /\ tx.ops = ops /\ s.items[p].hook = h
  BY <1>1 DEF SameEntries, SameEntry, Tx
<1> HIDE DEF s
<1>3. Prepared(x, s)
  BY <1>1 DEF Prepared
<1>4. Deref(s, s.items[p].ptr) = Function(h[2])
  <2>1. p \in Positions(s)
    BY <1>1 DEF SameEntries, Positions, Size
  <2>2. EntryOK(s, p, A)
    BY <1>1, <2>1 DEF Sound
  <2>3. s.items[p].ptr.kind = "variable" /\ s.items[p].ptr.of = h
    BY <1>2, <2>2, HasVariable
  <2>4. s.original[h] = Function(h[2])
    BY <1>2, <2>2 DEF EntryOK
  <2>5. QED
    BY <2>3, <2>4 DEF Deref
<1>5. Function(h[2]).kind = "function" /\ Function(h[2]).of = h[2]
  BY DEF Function
<1>6. new = IF Unused(s) # {}
            THEN Tx(r, Push(AddOp(p, k), ops))
            ELSE [tx EXCEPT !.heap = s]
  BY <1>2, <1>4, <1>5 DEF MHDetoursAttach, WithTramp, s, AddOp, Tx, Push
<1>7. CASE Unused(s) = {}
  <2>1. new = Tx(s, ops)
    BY <1>6, <1>7 DEF Tx
  <2>2. QED
    BY <1>1, <1>3, <2>1 DEF Tx
<1>8. CASE Unused(s) # {}
  <2>1. k \in Unused(s) /\ k \in Tramps /\ s.tramps[k].detour = Null
    BY <1>8 DEF Unused, NoTramp
  <2>2. /\ new = Tx(r, Push(AddOp(p, k), ops))
        /\ new.heap = r
        /\ new.ops = Push(AddOp(p, k), ops)
    <3> DEFINE more == Push(AddOp(p, k), ops)
    <3>1. new = Tx(r, more)
      BY <1>6, <1>8
    <3> HIDE DEF r, more
    <3>2. new.heap = r /\ new.ops = more
      BY <3>1 DEF Tx
    <3>3. QED
      BY <3>1, <3>2 DEF more
  <2>3. h \in HookSet
    BY HeapTypes, ItemTypes DEF Sound
  <2> HIDE DEF k, h
  <2>4. /\ Sound(r, A) /\ r.items = s.items /\ r.original = s.original
        /\ \A u \in Tramps : u # k => r.tramps[u] = s.tramps[u]
        /\ r.tramps[k] = NewTramp(h, h[2])
    BY <1>1, <2>1, <2>3, NewTrampFacts
  <2> HIDE DEF r
  <2>5. r.tramps[k].detour = h /\ r.tramps[k].target = h[2]
    BY <2>4 DEF NewTramp
  <2>6. Prepared(x, r)
    <3>1. SameEntries(x, r)
      BY <1>1, <2>4 DEF SameEntries, Size
    <3>2. \A u \in Tramps : x.tramps[u].detour # Null => r.tramps[u] = x.tramps[u]
      BY <1>1, <2>1, <2>4
    <3>3. QED
      BY <1>1, <2>4, <3>1, <3>2 DEF Prepared
  <2>7. QED
    BY <1>1, <2>1, <2>2, <2>4, <2>5, <2>6 DEF h
<1>9. QED
  BY <1>7, <1>8

(* SlimDetoursDetachEx of an entry whose detour is attached.               *)
LEMMA DetachFacts ==
    ASSUME NEW x, NEW A, Sound(x, A), NEW p \in Positions(x), p \in A,
           NEW ops, NEW tx, tx = Tx(x, ops),
           NEW new, new = MHDetoursDetach(tx, p)
    PROVE  \E k \in Tramps :
             /\ new = Tx(x, Push(RemoveOp(p, k), ops))
             /\ x.tramps[k].detour = x.items[p].hook
             /\ x.tramps[k].target = x.items[p].hook[2]
             /\ x.original[x.items[p].hook] = Trampoline(k)
<1> DEFINE h == x.items[p].hook
           k == x.original[h].of
<1>1. /\ k \in Tramps /\ x.original[h] = Trampoline(k)
      /\ x.tramps[k].detour = h /\ x.tramps[k].target = h[2]
      /\ x.items[p].ptr.kind = "variable" /\ x.items[p].ptr.of = h
  <2>1. EntryOK(x, p, A)
    BY DEF Sound
  <2>2. QED
    BY <2>1, HasVariable DEF EntryOK
<1>2. tx.heap = x /\ Deref(x, x.items[p].ptr) = x.original[h]
  BY <1>1 DEF Deref, Tx
<1> HIDE DEF k
<1>3. x.original[h].kind = "trampoline" /\ x.original[h].of = k
  BY <1>1 DEF Trampoline
<1>4. new = [tx EXCEPT !.ops = <<RemoveOp(p, k)>> \o @]
  BY <1>1, <1>2, <1>3 DEF MHDetoursDetach, RemoveOp
<1>5. new = Tx(x, Push(RemoveOp(p, k), ops))
  BY <1>4 DEF Tx, Push
<1>6. QED
  BY <1>1, <1>5

(* The operations of a transaction.                                        *)
Ops == [op : {"add", "remove"}, pos : Nat, tramp : Tramps]

(* An operation is about an entry that was asked for, and about a          *)
(* trampoline to the detour of it: one that is still unused, or the one the*)
(* entry has.                                                              *)
OpOK(x, wanted, o) ==
    LET e == x.items[o.pos] IN
    /\ o.pos \in DOMAIN wanted /\ o.pos \in Positions(x)
    /\ o.op = IF wanted[o.pos] THEN "add" ELSE "remove"
    /\ x.tramps[o.tramp].detour = e.hook /\ x.tramps[o.tramp].target = e.hook[2]
    /\ o.op = "add" => e.free = Null
    /\ o.op = "remove" => x.original[e.hook] = Trampoline(o.tramp)

(* Each entry has one operation at most.                                   *)
Once(ops) == \A i, j \in DOMAIN ops : i # j => ops[i].pos # ops[j].pos

(* What is asked for: to change the state of some entries.                 *)
Asked(s, A, wanted) ==
    /\ DOMAIN wanted \subseteq Positions(s)
    /\ \A p \in DOMAIN wanted : wanted[p] \in BOOLEAN /\ (wanted[p] <=> p \notin A)

(* What i rounds of Prepare have made of the transaction.                  *)
PrepInv(s, A, wanted, i, tx) ==
    /\ tx \in [heap : Heaps, ops : Seq(Ops)]
    /\ Sound(tx.heap, A) /\ Prepared(s, tx.heap)
    /\ \A j \in DOMAIN tx.ops : OpOK(tx.heap, wanted, tx.ops[j]) /\ tx.ops[j].pos <= i
    /\ Once(tx.ops)
    /\ \A p \in DOMAIN wanted : p <= i /\ ~wanted[p] => \E j \in DOMAIN tx.ops : tx.ops[j].pos = p

(* more is ops with o before it.                                          *)
StartsWith(more, o, ops) ==
    /\ more \in Seq(Ops) /\ 1 \in DOMAIN more /\ more[1] = o
    /\ \A j \in DOMAIN ops : j + 1 \in DOMAIN more /\ more[j + 1] = ops[j]
    /\ \A j \in DOMAIN more : j = 1 \/ (j - 1 \in DOMAIN ops /\ more[j] = ops[j - 1])

(* A pending operation comes before the ones recorded earlier.             *)
LEMMA Pushed ==
    ASSUME NEW ops \in Seq(Ops), NEW o \in Ops PROVE StartsWith(Push(o, ops), o, ops)
<1> DEFINE more == Push(o, ops)
<1>1. <<o>> \in Seq(Ops) /\ Len(<<o>>) = 1 /\ <<o>>[1] = o
  OBVIOUS
<1>2. /\ more \in Seq(Ops) /\ Len(more) = 1 + Len(ops)
      /\ \A i \in 1..(1 + Len(ops)) : more[i] = IF i <= 1 THEN <<o>>[i] ELSE ops[i - 1]
  BY <1>1, ConcatProperties DEF Push
<1>3. DOMAIN more = 1..(1 + Len(ops)) /\ DOMAIN ops = 1..Len(ops) /\ Len(ops) \in Nat
  BY <1>2, LenProperties
<1> HIDE DEF more
<1>4. StartsWith(more, o, ops)
  BY <1>1, <1>2, <1>3 DEF StartsWith
<1>5. QED
  BY <1>4 DEF more

(* Two preparations make one.                                              *)
LEMMA PreparedAgain ==
    ASSUME NEW s \in Heaps, NEW x \in Heaps, NEW r \in Heaps, Prepared(s, x), Prepared(x, r)
    PROVE  Prepared(s, r)
<1>1. Positions(x) = Positions(s) /\ Size(x) = Size(s)
  BY DEF Prepared, SameEntries, Positions, Size
<1>2. SameEntries(s, r)
  BY <1>1 DEF Prepared, SameEntries, SameEntry
<1>3. \A q \in Positions(s) : r.items[q].free \in {s.items[q].free, Null}
  BY <1>1 DEF Prepared
<1>4. \A k \in Tramps : s.tramps[k].detour # Null => r.tramps[k] = s.tramps[k]
  BY DEF Prepared
<1>5. QED
  BY <1>2, <1>3, <1>4 DEF Prepared

(* An operation stays all right while others are prepared.                 *)
LEMMA OpStillOK ==
    ASSUME NEW A, NEW x, Sound(x, A), NEW r, Prepared(x, r), NEW wanted, NEW o \in Ops,
           OpOK(x, wanted, o)
    PROVE  OpOK(r, wanted, o)
<1> DEFINE e == x.items[o.pos]
<1>1. /\ o.pos \in DOMAIN wanted /\ o.pos \in Positions(x) /\ o.tramp \in Tramps
      /\ o.op = IF wanted[o.pos] THEN "add" ELSE "remove"
      /\ x.tramps[o.tramp].detour = e.hook /\ x.tramps[o.tramp].target = e.hook[2]
      /\ o.op = "add" => e.free = Null
      /\ o.op = "remove" => x.original[e.hook] = Trampoline(o.tramp)
  BY DEF OpOK, Ops
<1>2. e.hook # Null
  <2>1. PICK p \in Positions(x) : p = o.pos
    BY <1>1
  <2>2. x.items[p] \in Items
    BY HeapTypes DEF Sound
  <2>3. x.items[p].hook \in HookSet
    BY <2>2, ItemTypes
  <2>4. QED
    BY <2>1, <2>3, ArrayAssumption
<1>3. /\ o.pos \in Positions(r) /\ r.items[o.pos].hook = e.hook
      /\ r.items[o.pos].free \in {e.free, Null}
      /\ r.original = x.original /\ r.tramps[o.tramp] = x.tramps[o.tramp]
  BY <1>1, <1>2 DEF Prepared, SameEntries, SameEntry, Positions, Size
<1>4. QED
  BY <1>1, <1>3 DEF OpOK

(* One more operation.                                                     *)
LEMMA OneMoreOp ==
    ASSUME NEW s \in Heaps, NEW A, NEW wanted, DOMAIN wanted \subseteq Positions(s),
           NEW p \in DOMAIN wanted,
           NEW tx, PrepInv(s, A, wanted, p - 1, tx),
           NEW r, Sound(r, A), Prepared(tx.heap, r),
           NEW o \in Ops, OpOK(r, wanted, o), o.pos = p,
           NEW new, new = Tx(r, Push(o, tx.ops))
    PROVE  PrepInv(s, A, wanted, p, new)
<1> DEFINE ops == tx.ops
           more == Push(o, ops)
<1> p \in Nat /\ DOMAIN wanted \subseteq Nat
  BY HeapTypes
<1>1. /\ ops \in Seq(Ops) /\ tx.heap \in Heaps /\ r \in Heaps /\ Sound(tx.heap, A)
      /\ \A j \in DOMAIN ops : OpOK(tx.heap, wanted, ops[j]) /\ ops[j].pos <= p - 1
  BY DEF PrepInv, Sound
<1>2. /\ more \in Seq(Ops) /\ 1 \in DOMAIN more /\ more[1] = o
      /\ \A j \in DOMAIN ops : j + 1 \in DOMAIN more /\ more[j + 1] = ops[j]
      /\ \A j \in DOMAIN more : j = 1 \/ (j - 1 \in DOMAIN ops /\ more[j] = ops[j - 1])
  <2>1. StartsWith(more, o, ops)
    BY <1>1, Pushed
  <2>2. QED
    BY <2>1 DEF StartsWith
<1>3. \A j \in DOMAIN ops : ops[j] \in Ops /\ ops[j].pos \in Nat /\ j \in Nat
  <2>1. \A j \in DOMAIN ops : j \in Nat /\ ops[j] \in Ops
    BY <1>1, ElementOfSeq, LenProperties
  <2>2. QED
    BY <2>1 DEF Ops
<1> HIDE DEF more
<1>4. new.heap = r /\ new.ops = more /\ new = Tx(r, more)
  BY DEF more, Tx
<1>5. \A j \in DOMAIN more : OpOK(r, wanted, more[j]) /\ more[j].pos <= p
  <2>1. \A j \in DOMAIN ops : OpOK(r, wanted, ops[j]) /\ ops[j].pos <= p
    BY <1>1, <1>3, OpStillOK
  <2>2. QED
    BY <1>2, <2>1
<1>6. Once(more)
  <2>1. SUFFICES ASSUME NEW i \in DOMAIN more, NEW j \in DOMAIN more, i # j
                 PROVE  more[i].pos # more[j].pos
    BY DEF Once
  <2>2. \A u \in DOMAIN ops : ops[u].pos # p
    BY <1>1, <1>3
  <2>3. CASE i = 1 \/ j = 1
    BY <1>2, <2>1, <2>2, <2>3
  <2>4. CASE i # 1 /\ j # 1
    <3>1. i - 1 \in DOMAIN ops /\ j - 1 \in DOMAIN ops
      BY <1>2, <2>4
    <3>2. i - 1 # j - 1
      <4>1. i \in Nat /\ j \in Nat
        BY <1>2, LenProperties
      <4>2. QED
        BY <2>1, <4>1
    <3>3. ops[i - 1].pos # ops[j - 1].pos
      BY <3>1, <3>2 DEF PrepInv, Once
    <3>4. QED
      BY <1>2, <2>4, <3>3
  <2>5. QED
    BY <2>3, <2>4
<1>7. ASSUME NEW q \in DOMAIN wanted, q <= p, ~wanted[q]
      PROVE  \E j \in DOMAIN more : more[j].pos = q
  <2>1. CASE q = p
    BY <1>2, <2>1
  <2>2. CASE q # p
    <3>1. q <= p - 1
      BY <1>7, <2>2
    <3>2. PICK j \in DOMAIN ops : ops[j].pos = q
      BY <1>7, <3>1 DEF PrepInv
    <3>3. QED
      BY <1>2, <3>2
  <2>3. QED
    BY <2>1, <2>2
<1>8. Prepared(s, r)
  BY <1>1, PreparedAgain DEF PrepInv
<1>9. QED
  BY <1>1, <1>2, <1>4, <1>5, <1>6, <1>7, <1>8 DEF PrepInv, Tx

(* A round that adds no operation.                                         *)
LEMMA NoMoreOp ==
    ASSUME NEW s \in Heaps, NEW A, NEW wanted, DOMAIN wanted \subseteq Positions(s),
           NEW p \in Positions(s), p \in DOMAIN wanted => wanted[p],
           NEW tx, PrepInv(s, A, wanted, p - 1, tx),
           NEW r, Sound(r, A), Prepared(tx.heap, r),
           NEW new, new = Tx(r, tx.ops)
    PROVE  PrepInv(s, A, wanted, p, new)
<1> p \in Nat /\ DOMAIN wanted \subseteq Nat
  BY HeapTypes
<1>1. /\ tx.ops \in Seq(Ops) /\ tx.heap \in Heaps /\ r \in Heaps /\ Sound(tx.heap, A)
      /\ new.heap = r /\ new.ops = tx.ops
  BY DEF PrepInv, Sound, Tx
<1>2. ASSUME NEW j \in DOMAIN tx.ops
      PROVE  OpOK(r, wanted, tx.ops[j]) /\ tx.ops[j].pos <= p
  <2>1. tx.ops[j] \in Ops /\ OpOK(tx.heap, wanted, tx.ops[j]) /\ tx.ops[j].pos <= p - 1
    BY <1>1, ElementOfSeq, LenProperties DEF PrepInv
  <2>2. tx.ops[j].pos \in Nat
    BY <2>1 DEF Ops
  <2>3. QED
    BY <1>1, <2>1, <2>2, OpStillOK
<1>3. ASSUME NEW q \in DOMAIN wanted, q <= p, ~wanted[q]
      PROVE  \E j \in DOMAIN tx.ops : tx.ops[j].pos = q
  <2>1. q <= p - 1
    BY <1>3
  <2>2. QED
    BY <1>3, <2>1 DEF PrepInv
<1>4. Prepared(s, r)
  BY <1>1, PreparedAgain DEF PrepInv
<1>5. QED
  BY <1>1, <1>2, <1>3, <1>4 DEF PrepInv, Tx

(* A round of Prepare.                                                     *)
PrepareRound(wanted, tx, p) ==
    IF p \notin DOMAIN wanted THEN tx
    ELSE IF wanted[p] THEN MHDetoursAttach(tx, p) ELSE MHDetoursDetach(tx, p)

(* A round of Prepare: what is recorded so far may be committed.           *)
LEMMA PrepareRoundFacts ==
    ASSUME NEW s \in Heaps, NEW A, NEW wanted, Asked(s, A, wanted), NEW p \in Positions(s),
           NEW tx, PrepInv(s, A, wanted, p - 1, tx)
    PROVE  PrepInv(s, A, wanted, p, PrepareRound(wanted, tx, p))
<1> DEFINE x == tx.heap
           ops == tx.ops
           new == PrepareRound(wanted, tx, p)
<1>1. /\ tx = Tx(x, ops) /\ x \in Heaps /\ Sound(x, A) /\ Prepared(s, x)
      /\ DOMAIN wanted \subseteq Positions(s) /\ p \in Nat
  BY HeapTypes DEF PrepInv, Asked, Tx
<1>2. p \in Positions(x) /\ Positions(x) = Positions(s) /\ Size(x) = Size(s)
  BY <1>1 DEF Prepared, SameEntries, Positions, Size
<1>3. Prepared(x, x)
  BY DEF Prepared, SameEntries, SameEntry
<1> HIDE DEF x, ops
<1>4. CASE p \notin DOMAIN wanted
  <2>1. new = Tx(x, ops)
    BY <1>1, <1>4 DEF PrepareRound
  <2> HIDE DEF new
  <2>2. QED
    BY <1>1, <1>3, <1>4, <2>1, NoMoreOp DEF x, ops, new
<1>5. CASE p \in DOMAIN wanted /\ wanted[p]
  <2>1. new = MHDetoursAttach(tx, p) /\ p \notin A
    BY <1>5 DEF PrepareRound, Asked
  <2> HIDE DEF new
  <2>2. /\ Sound(new.heap, A) /\ Prepared(x, new.heap)
        /\ new = Tx(new.heap, new.ops)
        /\ \/ new.ops = ops
           \/ \E k \in Tramps :
                 /\ new.ops = Push(AddOp(p, k), ops)
                 /\ new.heap.tramps[k].detour = x.items[p].hook
                 /\ new.heap.tramps[k].target = x.items[p].hook[2]
                 /\ new.heap.items[p].free = Null
    BY <1>1, <1>2, <2>1, AttachFacts
  <2>3. CASE new.ops = ops
    BY <1>1, <1>5, <2>2, <2>3, NoMoreOp DEF x, ops, new
  <2>4. ASSUME NEW k \in Tramps,
               new.ops = Push(AddOp(p, k), ops),
               new.heap.tramps[k].detour = x.items[p].hook,
               new.heap.tramps[k].target = x.items[p].hook[2],
               new.heap.items[p].free = Null
        PROVE  PrepInv(s, A, wanted, p, new)
    <3>1. PICK o : o = AddOp(p, k)
      OBVIOUS
    <3>2. o \in Ops /\ o.pos = p /\ o.op = "add" /\ o.tramp = k
      BY <1>1, <3>1 DEF Ops, AddOp
    <3>3. p \in Positions(new.heap) /\ new.heap.items[p].hook = x.items[p].hook
      BY <1>2, <2>2 DEF Prepared, SameEntries, SameEntry, Positions, Size
    <3>4. OpOK(new.heap, wanted, o)
      BY <1>5, <2>4, <3>2, <3>3 DEF OpOK
    <3>5. new = Tx(new.heap, Push(o, tx.ops))
      BY <2>2, <2>4, <3>1 DEF ops
    <3>6. QED
      BY <1>1, <1>5, <2>2, <3>2, <3>4, <3>5, OneMoreOp DEF x
  <2>5. QED
    BY <2>2, <2>3, <2>4 DEF new
<1>6. CASE p \in DOMAIN wanted /\ ~wanted[p]
  <2>1. new = MHDetoursDetach(tx, p) /\ p \in A
    BY <1>6 DEF PrepareRound, Asked
  <2> HIDE DEF new
  <2>2. PICK k \in Tramps :
             /\ new = Tx(x, Push(RemoveOp(p, k), ops))
             /\ x.tramps[k].detour = x.items[p].hook
             /\ x.tramps[k].target = x.items[p].hook[2]
             /\ x.original[x.items[p].hook] = Trampoline(k)
    BY <1>1, <1>2, <2>1, DetachFacts
  <2>3. PICK o : o = RemoveOp(p, k)
    OBVIOUS
  <2>4. o \in Ops /\ o.pos = p /\ o.op = "remove" /\ o.tramp = k
    BY <1>1, <2>3 DEF Ops, RemoveOp
  <2>5. OpOK(x, wanted, o)
    BY <1>2, <1>6, <2>2, <2>4 DEF OpOK
  <2>6. new = Tx(x, Push(o, tx.ops))
    BY <2>2, <2>3 DEF ops
  <2>7. QED
    BY <1>1, <1>3, <1>6, <2>4, <2>5, <2>6, OneMoreOp DEF x, new
<1>7. QED
  <2>1. p \in DOMAIN wanted => wanted[p] \in BOOLEAN
    BY DEF Asked
  <2>2. QED
    BY <1>4, <1>5, <1>6, <2>1

(* The transaction that Prepare makes.                                     *)
LEMMA PrepareFacts ==
    ASSUME NEW s, NEW A, Sound(s, A), NEW wanted, Asked(s, A, wanted),
           NEW tx, tx = Prepare(s, wanted)
    PROVE  PrepInv(s, A, wanted, Size(s), tx)
<1> DEFINE n == Size(s)
           first == Begin(s)
           T == [i \in 0..n |-> {x \in [heap : Heaps, ops : Seq(Ops)] :
                                   PrepInv(s, A, wanted, i, x)}]
           f == [i \in 1..n |-> [x \in T[i-1] |-> PrepareRound(wanted, x, i)]]
<1>1. s \in Heaps /\ n \in Nat /\ Positions(s) = 1..n
  BY HeapTypes DEF Sound
<1>2. first \in T[0]
  <2>1. first = Tx(s, <<>>) /\ first.heap = s /\ first.ops = <<>> /\ 0 \in 0..n
    BY <1>1 DEF Begin, Tx
  <2>2. <<>> \in Seq(Ops) /\ DOMAIN <<>> = {}
    OBVIOUS
  <2>3. Prepared(s, s)
    BY DEF Prepared, SameEntries, SameEntry
  <2>4. \A p \in DOMAIN wanted : ~(p <= 0)
    BY <1>1 DEF Asked
  <2>5. first \in [heap : Heaps, ops : Seq(Ops)]
    BY <1>1, <2>1, <2>2 DEF Tx
  <2>6. PrepInv(s, A, wanted, 0, first)
    <3> HIDE DEF first
    <3>1. QED
      BY <2>1, <2>2, <2>3, <2>4, <2>5 DEF PrepInv, Once
  <2>7. QED
    BY <2>1, <2>5, <2>6
<1>3. ASSUME NEW i \in 1..n, NEW x \in T[i-1]
      PROVE  PrepareRound(wanted, x, i) \in T[i]
  <2>1. PrepInv(s, A, wanted, i - 1, x) /\ i \in 0..n /\ i \in Positions(s)
    BY <1>1, <1>3, Numbers
  <2>2. PrepInv(s, A, wanted, i, PrepareRound(wanted, x, i))
    BY <1>1, <2>1, PrepareRoundFacts
  <2>3. PrepareRound(wanted, x, i) \in [heap : Heaps, ops : Seq(Ops)]
    BY <2>2 DEF PrepInv
  <2>4. QED
    BY <2>1, <2>2, <2>3
<1> HIDE DEF T
<1>4. PICK g : Rounds(g, n, f, first) /\ \A i \in 0..n : g[i] \in T[i]
  <2>1. \A i \in 1..n : \A x \in T[i-1] : f[i][x] \in T[i]
    BY <1>3
  <2> HIDE DEF f, first, n
  <2>2. QED
    BY <1>1, <1>2, <2>1, LoopExists
<1> DEFINE h == CHOOSE h : h = [i \in 0..n |-> IF i = 0 THEN first
                                               ELSE PrepareRound(wanted, h[i-1], i)]
<1>5. h = [i \in 0..n |-> IF i = 0 THEN first ELSE PrepareRound(wanted, h[i-1], i)]
  <2>1. \A i \in 1..n : g[i] = PrepareRound(wanted, g[i-1], i)
    <3>1. ASSUME NEW i \in 1..n PROVE g[i] = PrepareRound(wanted, g[i-1], i)
      <4>1. g[i] = f[i][g[i-1]] /\ g[i-1] \in T[i-1]
        <5> HIDE DEF f
        <5>1. QED
          BY <1>1, <1>4, Numbers DEF Rounds
      <4>2. QED
        BY <4>1
    <3>2. QED
      BY <3>1
  <2>2. g = [i \in 0..n |-> IF i = 0 THEN first ELSE PrepareRound(wanted, g[i-1], i)]
    <3> HIDE DEF first, n
    <3>1. \A i \in 0..n : g[i] = IF i = 0 THEN first ELSE PrepareRound(wanted, g[i-1], i)
      BY <1>1, <1>4, <2>1, Numbers DEF Rounds
    <3>2. QED
      BY <1>4, <3>1 DEF Rounds
  <2>3. QED
    BY <2>2
<1>6. \A i \in 0..n : h[i] \in T[i]
  <2> HIDE DEF h
  <2>1. h[0] = first /\ \A i \in 1..n : h[i] = PrepareRound(wanted, h[i-1], i)
    BY <1>1, <1>5
  <2> HIDE DEF first, n
  <2>2. h[0] \in T[0] /\ \A i \in 1..n : h[i-1] \in T[i-1] => h[i] \in T[i]
    BY <1>2, <1>3, <2>1
  <2>3. QED
    BY <1>1, <2>2, LoopStays
<1>7. tx = h[n]
  BY DEF Prepare, Loop, PrepareRound
<1>8. QED
  <2> HIDE DEF h
  <2>1. h[n] \in T[n] /\ n \in 0..n
    BY <1>1, <1>6
  <2>2. QED
    BY <1>7, <2>1 DEF T

(* What the commit of an attach does to the heap.                          *)
LEMMA CommitAddIs ==
    ASSUME NEW x, NEW B, Sound(x, B), NEW wanted, NEW o \in Ops, OpOK(x, wanted, o),
           NEW r, r = CommitAdd(x, o)
    PROVE  LET k == o.tramp
               h == x.items[o.pos].hook
           IN /\ r \in Heaps /\ r.items = x.items /\ r.fields = x.fields
              /\ \A v \in Originals : r.original[v] = IF v = h THEN Trampoline(k) ELSE x.original[v]
              /\ \A u \in Tramps : /\ u # k => r.tramps[u] = x.tramps[u]
                                   /\ r.tramps[u].detour = x.tramps[u].detour
                                   /\ r.tramps[u].target = x.tramps[u].target
              /\ r.tramps[k].below = x.jumps[h[2]]
              /\ \A t \in Targets : r.jumps[t] = IF t = h[2] THEN k ELSE x.jumps[t]
<1> DEFINE k == o.tramp
           p == o.pos
           h == x.items[p].hook
           t == h[2]
           tramp == [x.tramps[k] EXCEPT !.below = x.jumps[t]]
           s == [x EXCEPT !.tramps = [x.tramps EXCEPT ![k] = tramp],
                          !.jumps = [x.jumps EXCEPT ![t] = k]]
<1>1. /\ x \in Heaps /\ k \in Tramps /\ p \in Positions(x)
      /\ x.tramps[k].detour = h /\ x.tramps[k].target = t
      /\ x.items[p].ptr = Variable(h) /\ h \in Originals
      /\ h \in HookSet /\ t \in Targets
  <2>1. x \in Heaps /\ k \in Tramps /\ p \in Positions(x) /\ x.tramps[k].detour = h
        /\ x.tramps[k].target = t
    BY DEF Sound, OpOK, Ops
  <2>2. x.items[p] \in Items /\ EntryOK(x, p, B)
    BY <2>1, HeapTypes DEF Sound
  <2>3. QED
    BY ZenonT(60), <2>1, <2>2, ItemTypes, HasVariable
<1>2. /\ x.original \in [Originals -> Values] /\ x.tramps \in [Tramps -> TrampStates]
      /\ x.jumps \in [Targets -> Tramps \union {Null}]
  BY <1>1, HeapTypes
<1>3. tramp \in TrampStates /\ tramp.below = x.jumps[t]
      /\ tramp.detour = x.tramps[k].detour /\ tramp.target = x.tramps[k].target
  BY <1>1, <1>2 DEF TrampStates
<1>4. Trampoline(k) \in Values
  BY <1>1 DEF Values
<1>5. r = Store(s, Variable(h), Trampoline(k))
  <2>1. r = Store(Patch([x EXCEPT !.tramps[k].below = Top(x, t)], t, k),
                  x.items[p].ptr, Trampoline(k))
    BY <1>1 DEF CommitAdd
  <2>2. Patch([x EXCEPT !.tramps[k].below = Top(x, t)], t, k) = s
    BY <1>1 DEF Patch, Top, Heaps
  <2>3. QED
    BY <1>1, <2>1, <2>2
<1>6. r = [s EXCEPT !.original = [s.original EXCEPT ![h] = Trampoline(k)]]
  BY <1>5 DEF Store, Variable
<1> HIDE DEF tramp
<1>7. /\ r = [x EXCEPT !.tramps = r.tramps, !.jumps = r.jumps, !.original = r.original]
      /\ r.tramps = [x.tramps EXCEPT ![k] = tramp]
      /\ r.jumps = [x.jumps EXCEPT ![t] = k]
      /\ r.original = [x.original EXCEPT ![h] = Trampoline(k)]
      /\ r.items = x.items /\ r.fields = x.fields
  BY <1>1, <1>6 DEF Heaps
<1>8. /\ r.tramps \in [Tramps -> TrampStates] /\ r.jumps \in [Targets -> Tramps \union {Null}]
      /\ r.original \in [Originals -> Values]
  <2> HIDE DEF s, k, t, h
  <2>1. r.tramps \in [Tramps -> TrampStates]
    BY <1>2, <1>3, <1>7
  <2>2. r.jumps \in [Targets -> Tramps \union {Null}]
    BY <1>1, <1>2, <1>7
  <2>3. r.original \in [Originals -> Values]
    BY <1>2, <1>4, <1>7
  <2>4. QED
    BY <2>1, <2>2, <2>3
<1>9. r \in Heaps
  <2>1. x.items \in Seq(Items) /\ x.fields \in Seq(Values)
    BY <1>1, HeapTypes
  <2>2. QED
    BY <1>1, <1>7, <1>8, <2>1 DEF Heaps
<1>10. \A u \in Tramps : r.tramps[u] = IF u = k THEN tramp ELSE x.tramps[u]
  BY <1>2, <1>7
<1>11. QED
  BY <1>1, <1>2, <1>3, <1>7, <1>9, <1>10

(* Writing one attach leaves the heap sound with the entry attached.       *)
LEMMA CommitAddFacts ==
    ASSUME NEW x, NEW B, Sound(x, B), NEW wanted, NEW o \in Ops, OpOK(x, wanted, o),
           o.op = "add", o.pos \notin B, NEW r, r = CommitAdd(x, o), NEW C, C = B \union {o.pos}
    PROVE  /\ Sound(r, C) /\ SameEntries(x, r)
           /\ \A e \in Ops : e.pos # o.pos /\ OpOK(x, wanted, e) => OpOK(r, wanted, e)
<1> DEFINE k == o.tramp
           p == o.pos
           h == x.items[p].hook
<1>1. /\ x \in Heaps /\ k \in Tramps /\ p \in Positions(x) /\ x.items[p].free = Null
      /\ x.tramps[k].detour = h /\ x.tramps[k].target = h[2]
      /\ EntryOK(x, p, B) /\ EntriesApart(x)
      /\ \A q \in Positions(x) : EntryOK(x, q, B)
  BY DEF Sound, OpOK, Ops
<1>2. /\ r \in Heaps /\ r.items = x.items /\ r.fields = x.fields
      /\ \A v \in Originals : r.original[v] = IF v = h THEN Trampoline(k) ELSE x.original[v]
      /\ \A u \in Tramps : /\ r.tramps[u].detour = x.tramps[u].detour
                           /\ r.tramps[u].target = x.tramps[u].target
  BY CommitAddIs
<1>3. Positions(r) = Positions(x) /\ Size(r) = Size(x) /\ EntriesApart(r)
  BY <1>1, <1>2 DEF Positions, Size, EntriesApart
<1>4. \A q \in Positions(x) : q # p => /\ x.items[q].hook # h /\ x.items[q].hook \in Originals
                                       /\ r.original[x.items[q].hook] = x.original[x.items[q].hook]
  BY <1>1, <1>2, HasVariable DEF EntriesApart
<1>5. ASSUME NEW q \in Positions(x) PROVE EntryOK(r, q, C)
  <2>1. CASE q = p
    <3>1. h \in Originals /\ x.items[p].ptr = Variable(h)
      BY <1>1, HasVariable
    <3>2. r.original[h] = Trampoline(k) /\ Trampoline(k).of = k
      BY <1>2, <3>1 DEF Trampoline
    <3>3. /\ r.items[q].hook = h /\ r.items[q].ptr = Variable(h)
          /\ r.items[q].free = Null /\ q \in C
      BY <1>1, <1>2, <2>1, <3>1
    <3>4. r.tramps[k].detour = h /\ r.tramps[k].target = h[2]
      BY <1>1, <1>2
    <3> HIDE DEF h, k, p
    <3>5. QED
      BY ZenonT(60), <1>1, <3>1, <3>2, <3>3, <3>4 DEF EntryOK
  <2>2. CASE q # p
    <3>1. EntryOK(x, q, B) /\ x.items[q].free \in Tramps \union {Null} /\ (q \in C <=> q \in B)
      BY <1>1, <2>2, HeapTypes, ItemTypes
    <3>2. x.items[q].free # Null => /\ r.tramps[x.items[q].free].detour = Null
                                    /\ r.tramps[x.items[q].free].target # Null
      BY <1>2, <3>1 DEF EntryOK
    <3>3. r.items[q] = x.items[q] /\ r.original[x.items[q].hook] = x.original[x.items[q].hook]
      BY <1>2, <1>4, <2>2
    <3>4. \A u \in Tramps : /\ r.tramps[u].detour = x.tramps[u].detour
                            /\ r.tramps[u].target = x.tramps[u].target
      BY <1>2
    <3>5. KeepsEntry(x, q, r, q)
      BY <3>2, <3>3, <3>4 DEF KeepsEntry
    <3>6. QED
      BY <3>1, <3>5, StillOK
  <2>3. QED
    BY <2>1, <2>2
<1>6. ASSUME NEW e \in Ops, e.pos # p, OpOK(x, wanted, e) PROVE OpOK(r, wanted, e)
  <2>1. e.pos \in Positions(x) /\ e.tramp \in Tramps
    BY <1>6 DEF OpOK, Ops
  <2>2. r.original[x.items[e.pos].hook] = x.original[x.items[e.pos].hook]
    BY <1>4, <1>6, <2>1
  <2>3. QED
    BY <1>2, <1>3, <1>6, <2>1, <2>2 DEF OpOK
<1>7. SameEntries(x, r)
  BY <1>2, <1>3 DEF SameEntries, SameEntry
<1>8. Linked(r, C)
  <2>1. h \in HookSet /\ h # Null /\ h[2] \in Targets
    BY <1>1, HeapTypes, ItemTypes, ArrayAssumption
  <2>2. /\ \A u \in Tramps : u # k => r.tramps[u] = x.tramps[u]
        /\ r.tramps[k].below = x.jumps[h[2]]
        /\ \A t \in Targets : r.jumps[t] = IF t = h[2] THEN k ELSE x.jumps[t]
    BY CommitAddIs
  <2>3. ASSUME NEW q \in Positions(x)
        PROVE  /\ x.items[q].hook \in Originals /\ (q # p => x.items[q].hook # h)
               /\ x.items[q].free \in Tramps \union {Null} /\ x.items[q].free # k
    <3>1. EntryOK(x, q, B) /\ x.items[q].free \in Tramps \union {Null}
      BY <1>1, HeapTypes, ItemTypes
    <3>2. x.items[q].free # Null => x.tramps[x.items[q].free].detour = Null
      BY <3>1 DEF EntryOK
    <3>3. k # Null
      BY <1>1, ArrayAssumption
    <3>4. QED
      BY <1>1, <1>4, <2>1, <3>1, <3>2, <3>3, HasVariable
  <2>4. Linked(x, B) /\ p \notin B /\ h = x.items[p].hook
    BY DEF Sound
  <2> HIDE DEF k, p, h
  <2>5. Linked(r, B \union {p})
    <3>1. /\ \A u \in Tramps : /\ u # k => r.tramps[u] = x.tramps[u]
                               /\ r.tramps[u].detour = x.tramps[u].detour
                               /\ r.tramps[u].target = x.tramps[u].target
          /\ \A v \in Originals : r.original[v] = IF v = h THEN Trampoline(k) ELSE x.original[v]
      BY <1>2, <2>2
    <3>2. PICK t \in Targets : t = h[2]
      BY <2>1
    <3>3. /\ k \in Tramps /\ p \in Positions(x) /\ r.items = x.items
          /\ x.tramps[k].detour = h /\ x.tramps[k].target = t /\ h # Null
          /\ Positions(r) = Positions(x)
      BY <1>1, <1>2, <1>3, <2>1, <3>2
    <3>4. /\ r.tramps[k].below = x.jumps[t]
          /\ \A u \in Targets : r.jumps[u] = IF u = t THEN k ELSE x.jumps[u]
      BY <2>2, <3>2
    <3>5. QED
      BY <2>3, <2>4, <3>1, <3>3, <3>4, AddLinked
  <2>6. QED
    BY <2>5 DEF p
<1>9. QED
  BY <1>2, <1>3, <1>5, <1>6, <1>7, <1>8 DEF Sound

(* What the commit of a detach does to the heap.                           *)
LEMMA CommitRemoveIs ==
    ASSUME NEW x, NEW B, Sound(x, B), NEW wanted, NEW o \in Ops, OpOK(x, wanted, o),
           NEW r, r = CommitRemove(x, o)
    PROVE  LET k == o.tramp
               p == o.pos
               h == x.items[p].hook
               undone == x.jumps[h[2]] = k
           IN /\ r \in Heaps /\ Size(r) = Size(x) /\ r.fields = x.fields
              /\ \A q \in Positions(x) : q # p => r.items[q] = x.items[q]
              /\ SameEntry(x.items[p], r.items[p]) /\ r.items[p].ptr = x.items[p].ptr
              /\ r.items[p].free = IF undone THEN k ELSE x.items[p].free
              /\ \A v \in Originals : r.original[v] = IF v = h THEN Function(h[2]) ELSE x.original[v]
              /\ \A u \in Tramps : u # k => r.tramps[u] = x.tramps[u]
              /\ r.tramps[k].detour = Null /\ r.tramps[k].target = x.tramps[k].target
              /\ r.tramps[k].below = x.tramps[k].below
              /\ \A t \in Targets :
                   r.jumps[t] = IF t = h[2] /\ undone THEN x.tramps[k].below ELSE x.jumps[t]
<1> DEFINE k == o.tramp
           p == o.pos
           e == x.items[p]
           h == e.hook
           t == h[2]
           undone == x.jumps[t] = k
           tramp == [x.tramps[k] EXCEPT !.detour = Null]
           item == IF undone THEN [e EXCEPT !.free = k] ELSE e
           below == IF undone THEN x.tramps[k].below ELSE x.jumps[t]
           s == [x EXCEPT !.tramps = [x.tramps EXCEPT ![k] = tramp],
                          !.jumps = [x.jumps EXCEPT ![t] = below],
                          !.items = [x.items EXCEPT ![p] = item]]
<1>1. /\ x \in Heaps /\ k \in Tramps /\ p \in Positions(x) /\ e \in Items
      /\ x.tramps[k].detour = h /\ x.tramps[k].target = t
      /\ e.ptr = Variable(h) /\ h \in Originals /\ h \in HookSet /\ t \in Targets
  <2>1. x \in Heaps /\ k \in Tramps /\ p \in Positions(x) /\ x.tramps[k].detour = h
        /\ x.tramps[k].target = t
    BY DEF Sound, OpOK, Ops
  <2>2. e \in Items /\ EntryOK(x, p, B)
    BY <2>1, HeapTypes DEF Sound
  <2>3. h \in HookSet /\ t \in Targets
    BY <2>2, ItemTypes
  <2>4. e.ptr = Variable(h) /\ h \in Originals
    BY <2>2, HasVariable
  <2>5. QED
    BY <2>1, <2>2, <2>3, <2>4
<1>2. /\ x.original \in [Originals -> Values] /\ x.tramps \in [Tramps -> TrampStates]
      /\ x.jumps \in [Targets -> Tramps \union {Null}]
      /\ x.items \in Seq(Items) /\ x.fields \in Seq(Values)
      /\ Positions(x) = 1..Len(x.items) /\ DOMAIN x.items = Positions(x)
  BY <1>1, HeapTypes DEF Size
<1>3. tramp \in TrampStates /\ tramp.below = x.tramps[k].below
      /\ tramp.detour = Null /\ tramp.target = x.tramps[k].target
      /\ below \in Tramps \union {Null}
  BY <1>1, <1>2 DEF TrampStates
<1>4. /\ item \in Items /\ SameEntry(e, item) /\ item.ptr = e.ptr
      /\ item.free = IF undone THEN k ELSE e.free
  BY <1>1 DEF Items, SameEntry
<1>5. Function(t) \in Values
  BY <1>1 DEF Values
<1>6. r = Store(s, e.ptr, Function(t))
  <2> DEFINE restored == IF Top(x, t) # k THEN x
                         ELSE [Patch(x, t, x.tramps[k].below) EXCEPT !.items[p].free = k]
  <2>1. r = Store([restored EXCEPT !.tramps[k].detour = Null],
                  restored.items[p].ptr, Function(t))
        \/ r = Store([restored EXCEPT !.tramps[k].detour = Null], e.ptr, Function(t))
    BY <1>1 DEF CommitRemove
  <2>2. restored.items[p].ptr = e.ptr
    BY <1>1, <1>2 DEF Patch, Top, Heaps, Items
  <2>3. [restored EXCEPT !.tramps[k].detour = Null] = s
    <3>1. CASE undone
      BY <1>1, <1>2, <3>1 DEF Patch, Top, Heaps
    <3>2. CASE ~undone
      <4>1. [x.jumps EXCEPT ![t] = below] = x.jumps /\ [x.items EXCEPT ![p] = item] = x.items
        <5>1. below = x.jumps[t] /\ item = x.items[p]
          BY <3>2
        <5>2. x.items \in [1..Len(x.items) -> Items] /\ p \in 1..Len(x.items)
          BY <1>1, <1>2, ElementOfSeq
        <5> HIDE DEF p, t, below, item
        <5>3. [x.jumps EXCEPT ![t] = x.jumps[t]] = x.jumps
          BY <1>1, <1>2, ExceptSame
        <5>4. [x.items EXCEPT ![p] = x.items[p]] = x.items
          BY <5>2, ExceptSame
        <5>5. QED
          BY <5>1, <5>3, <5>4
      <4>2. restored = x
        BY <3>2 DEF Top
      <4>3. QED
        BY ZenonT(60), <1>1, <4>1, <4>2 DEF Heaps
    <3>3. QED
      BY <3>1, <3>2
  <2>4. QED
    BY <2>1, <2>2, <2>3
<1>7. r = [s EXCEPT !.original = [s.original EXCEPT ![h] = Function(t)]]
  <2> HIDE DEF s, e, t, h
  <2>1. r = Store(s, Variable(h), Function(t))
    BY <1>1, <1>6
  <2>2. Variable(h).kind = "variable" /\ Variable(h).of = h
    BY DEF Variable
  <2>3. QED
    BY <2>1, <2>2 DEF Store
<1> HIDE DEF tramp, item, below
<1>8. /\ r = [x EXCEPT !.tramps = r.tramps, !.jumps = r.jumps, !.original = r.original,
                       !.items = r.items]
      /\ r.tramps = [x.tramps EXCEPT ![k] = tramp]
      /\ r.jumps = [x.jumps EXCEPT ![t] = below]
      /\ r.original = [x.original EXCEPT ![h] = Function(t)]
      /\ r.items = [x.items EXCEPT ![p] = item] /\ r.fields = x.fields
  BY <1>1, <1>7 DEF Heaps
<1> HIDE DEF s
<1>9. /\ r.tramps \in [Tramps -> TrampStates] /\ r.jumps \in [Targets -> Tramps \union {Null}]
      /\ r.original \in [Originals -> Values] /\ r.items \in Seq(Items)
      /\ Len(r.items) = Len(x.items)
      /\ \A q \in Positions(x) : r.items[q] = IF q = p THEN item ELSE x.items[q]
  <2> HIDE DEF k, t, h, p
  <2>1. r.tramps \in [Tramps -> TrampStates]
    <3>1. x.tramps \in [Tramps -> TrampStates] /\ tramp \in TrampStates
      BY <1>2, <1>3
    <3>2. [x.tramps EXCEPT ![k] = tramp] \in [Tramps -> TrampStates]
      BY <3>1, ExceptIn
    <3>3. QED
      BY <1>8, <3>2
  <2>2. r.jumps \in [Targets -> Tramps \union {Null}]
    <3>1. x.jumps \in [Targets -> Tramps \union {Null}] /\ below \in Tramps \union {Null}
      BY <1>2, <1>3
    <3>2. [x.jumps EXCEPT ![t] = below] \in [Targets -> Tramps \union {Null}]
      BY <3>1, ExceptIn
    <3>3. QED
      BY <1>8, <3>2
  <2>3. r.original \in [Originals -> Values]
    <3>1. x.original \in [Originals -> Values] /\ Function(t) \in Values
      BY <1>2, <1>5
    <3>2. [x.original EXCEPT ![h] = Function(t)] \in [Originals -> Values]
      BY <3>1, ExceptIn
    <3>3. QED
      BY <1>8, <3>2
  <2>4. /\ r.items \in Seq(Items) /\ Len(r.items) = Len(x.items)
        /\ \A q \in Positions(x) : r.items[q] = IF q = p THEN item ELSE x.items[q]
    BY <1>1, <1>2, <1>4, <1>8, ExceptSeq
  <2>5. QED
    BY <2>1, <2>2, <2>3, <2>4
<1>10. r \in Heaps
  BY <1>1, <1>2, <1>8, <1>9 DEF Heaps
<1>11. /\ \A u \in Tramps : r.tramps[u] = IF u = k THEN tramp ELSE x.tramps[u]
       /\ \A u \in Targets : r.jumps[u] = IF u = t THEN below ELSE x.jumps[u]
       /\ \A v \in Originals : r.original[v] = IF v = h THEN Function(t) ELSE x.original[v]
  BY <1>2, <1>8
<1>12. Size(r) = Size(x)
  BY <1>9 DEF Size
<1>13. /\ \A q \in Positions(x) : q # p => r.items[q] = x.items[q]
       /\ SameEntry(x.items[p], r.items[p]) /\ r.items[p].ptr = x.items[p].ptr
       /\ r.items[p].free = IF undone THEN k ELSE x.items[p].free
  BY <1>1, <1>4, <1>9
<1>14. /\ \A u \in Tramps : u # k => r.tramps[u] = x.tramps[u]
       /\ r.tramps[k].detour = Null /\ r.tramps[k].target = x.tramps[k].target
       /\ r.tramps[k].below = x.tramps[k].below
  BY <1>1, <1>3, <1>11
<1>15. \A u \in Targets :
         r.jumps[u] = IF u = t /\ undone THEN x.tramps[k].below ELSE x.jumps[u]
  BY <1>11 DEF below
<1>16. \A v \in Originals : r.original[v] = IF v = h THEN Function(t) ELSE x.original[v]
  BY <1>11
<1>17. QED
  BY <1>8, <1>10, <1>12, <1>13, <1>14, <1>15, <1>16

(* Writing one detach leaves the heap sound with the entry detached.       *)
LEMMA CommitRemoveFacts ==
    ASSUME NEW x, NEW B, Sound(x, B), NEW wanted, NEW o \in Ops, OpOK(x, wanted, o),
           o.op = "remove", NEW r, r = CommitRemove(x, o), NEW C, C = B \ {o.pos}
    PROVE  /\ Sound(r, C) /\ SameEntries(x, r)
           /\ \A e \in Ops : /\ e.pos # o.pos /\ e.op = "remove" /\ OpOK(x, wanted, e)
                             => OpOK(r, wanted, e)
<1> DEFINE k == o.tramp
           p == o.pos
           h == x.items[p].hook
           undone == x.jumps[h[2]] = k
<1>1. /\ x \in Heaps /\ k \in Tramps /\ p \in Positions(x)
      /\ x.tramps[k].detour = h /\ x.tramps[k].target = h[2]
      /\ EntryOK(x, p, B) /\ EntriesApart(x) /\ x.items[p] \in Items
      /\ \A q \in Positions(x) : EntryOK(x, q, B)
      /\ Size(x) <= Len(x.fields) /\ x.original[h] = Trampoline(k)
  BY HeapTypes DEF Sound, OpOK, Ops
<1>2. h \in HookSet /\ h # Null /\ h[2] # Null /\ h \in Originals /\ h[2] \in Targets
  <2>1. h \in HookSet /\ h[2] \in Targets /\ h \in Originals
    BY <1>1, ItemTypes, HasVariable
  <2>2. QED
    BY <2>1, ArrayAssumption
<1>3. /\ r \in Heaps /\ Size(r) = Size(x) /\ r.fields = x.fields
      /\ \A q \in Positions(x) : q # p => r.items[q] = x.items[q]
      /\ SameEntry(x.items[p], r.items[p]) /\ r.items[p].ptr = x.items[p].ptr
      /\ r.items[p].free = IF undone THEN k ELSE x.items[p].free
      /\ \A v \in Originals : r.original[v] = IF v = h THEN Function(h[2]) ELSE x.original[v]
      /\ \A u \in Tramps : u # k => r.tramps[u] = x.tramps[u]
      /\ r.tramps[k].detour = Null /\ r.tramps[k].target = x.tramps[k].target
      /\ r.tramps[k].below = x.tramps[k].below
      /\ \A t \in Targets :
           r.jumps[t] = IF t = h[2] /\ undone THEN x.tramps[k].below ELSE x.jumps[t]
  BY CommitRemoveIs
<1>4. Positions(r) = Positions(x) /\ r.items[p].hook = h
  BY <1>3 DEF Positions, Size, SameEntry
<1> HIDE DEF p, k, h, undone
<1>5. \A q \in Positions(x) : q # p => /\ x.items[q].hook # h /\ x.items[q].hook \in Originals
                                       /\ r.original[x.items[q].hook] = x.original[x.items[q].hook]
  <2>1. \A q \in Positions(x) : x.items[q].hook \in Originals
    BY <1>1, HasVariable
  <2>2. \A q \in Positions(x) : q # p => x.items[q].hook # h
    BY <1>1 DEF EntriesApart, h
  <2>3. QED
    BY <1>3, <2>1, <2>2
<1>6. \A q \in Positions(x) : /\ x.items[q].free \in Tramps \union {Null}
                              /\ x.items[q].free # Null => x.items[q].free # k
  <2>1. \A q \in Positions(x) : x.items[q].free \in Tramps \union {Null}
    BY <1>1, HeapTypes, ItemTypes
  <2>2. \A q \in Positions(x) : x.items[q].free # Null => x.tramps[x.items[q].free].detour = Null
    BY <1>1 DEF EntryOK
  <2>3. QED
    BY <1>1, <1>2, <2>1, <2>2
<1>7. EntriesApart(r)
  <2>1. SUFFICES ASSUME NEW q \in Positions(x), NEW u \in Positions(x), q # u
                 PROVE  /\ r.items[q].hook # r.items[u].hook
                        /\ r.items[q].free # Null => r.items[q].free # r.items[u].free
    BY <1>4 DEF EntriesApart
  <2>2. /\ x.items[q].hook # x.items[u].hook
        /\ x.items[q].free # Null => x.items[q].free # x.items[u].free
        /\ x.items[u].free # Null => x.items[q].free # x.items[u].free
    BY <1>1, <2>1 DEF EntriesApart
  <2>3. r.items[q].hook = x.items[q].hook /\ r.items[u].hook = x.items[u].hook
    BY <1>3, <1>4 DEF h, p
  <2>4. k # Null
    BY <1>1, ArrayAssumption
  <2>5. r.items[q].free # Null => r.items[q].free # r.items[u].free
    <3>1. CASE q = p
      BY <1>3, <1>6, <2>1, <2>2, <2>4, <3>1
    <3>2. CASE u = p
      BY <1>3, <1>6, <2>1, <2>2, <2>4, <3>2
    <3>3. CASE q # p /\ u # p
      BY <1>3, <2>2, <3>3
    <3>4. QED
      BY <3>1, <3>2, <3>3
  <2>6. QED
    BY <2>2, <2>3, <2>5
<1>8. ASSUME NEW q \in Positions(x) PROVE EntryOK(r, q, C)
  <2>1. CASE q = p
    <3>1. x.items[q].hook = h /\ x.items[q].ptr = Variable(h)
      BY <1>1, <2>1, HasVariable DEF h
    <3>2. /\ r.items[q].hook = h /\ r.items[q].ptr = Variable(h) /\ q \notin C
          /\ r.original[h] = Function(h[2])
      BY <1>2, <1>3, <1>4, <2>1, <3>1 DEF p
    <3>3. r.items[q].free # Null => /\ r.tramps[r.items[q].free].detour = Null
                                    /\ r.tramps[r.items[q].free].target # Null
      <4>1. CASE undone
        BY <1>1, <1>2, <1>3, <2>1, <4>1
      <4>2. CASE ~undone
        <5>1. x.items[q].free # Null => /\ x.tramps[x.items[q].free].detour = Null
                                        /\ x.tramps[x.items[q].free].target # Null
          BY <1>1 DEF EntryOK
        <5>2. QED
          BY <1>3, <1>6, <2>1, <4>2, <5>1
      <4>3. QED
        BY <4>1, <4>2
    <3>4. QED
      BY <1>2, <3>2, <3>3 DEF EntryOK
  <2>2. CASE q # p
    <3>1. EntryOK(x, q, B) /\ (q \in C <=> q \in B)
      BY <1>1, <2>2 DEF p
    <3>2. x.items[q].free # Null => /\ r.tramps[x.items[q].free].detour = Null
                                    /\ r.tramps[x.items[q].free].target # Null
      BY <1>3, <1>6, <3>1 DEF EntryOK
    <3>3. r.items[q] = x.items[q] /\ r.original[x.items[q].hook] = x.original[x.items[q].hook]
      BY <1>3, <1>5, <2>2
    <3>4. \A u \in Tramps : x.tramps[u].detour = x.items[q].hook => r.tramps[u] = x.tramps[u]
      BY <1>1, <1>3, <1>5, <2>2
    <3>5. KeepsEntry(x, q, r, q)
      BY <3>2, <3>3, <3>4 DEF KeepsEntry
    <3>6. QED
      BY <3>1, <3>5, StillOK
  <2>3. QED
    BY <2>1, <2>2
<1>9. ASSUME NEW e \in Ops, e.pos # p, e.op = "remove", OpOK(x, wanted, e)
      PROVE  OpOK(r, wanted, e)
  <2>1. e.pos \in Positions(x) /\ e.tramp \in Tramps /\ x.tramps[e.tramp].detour = x.items[e.pos].hook
    BY <1>9 DEF OpOK, Ops
  <2>2. /\ r.original[x.items[e.pos].hook] = x.original[x.items[e.pos].hook]
        /\ r.items[e.pos] = x.items[e.pos] /\ r.tramps[e.tramp] = x.tramps[e.tramp]
    BY <1>1, <1>3, <1>5, <1>9, <2>1
  <2>3. QED
    BY <1>4, <1>9, <2>1, <2>2 DEF OpOK
<1>10. SameEntries(x, r)
  BY <1>3 DEF SameEntries, SameEntry, p
<1>11. p \in B
  <2>1. p \notin B => x.original[h] = Function(h[2])
    BY <1>1 DEF EntryOK, h
  <2>2. Function(h[2]) # Trampoline(k)
    <3>1. Function(h[2]).kind = "function" /\ Trampoline(k).kind = "trampoline"
      BY DEF Function, Trampoline
    <3>2. QED
      BY <3>1
  <2>3. QED
    BY <1>1, <2>1, <2>2
<1>12. Linked(r, B \ {p})
  <2>1. ASSUME NEW q \in Positions(x)
        PROVE  /\ x.items[q].hook \in Originals /\ (q # p => x.items[q].hook # h)
               /\ x.items[q].free \in Tramps \union {Null}
               /\ q \in B => x.tramps[x.original[x.items[q].hook].of].detour = x.items[q].hook
    <3>1. EntryOK(x, q, B)
      BY <1>1
    <3>2. QED
      BY <1>5, <1>6, <3>1 DEF EntryOK
  <2>2. \A q \in Positions(x) :
            /\ r.items[q].hook = x.items[q].hook
            /\ r.items[q].free = IF q = p /\ x.jumps[h[2]] = k THEN k ELSE x.items[q].free
    BY <1>3, <1>4 DEF undone, h
  <2>3. \A t \in Targets : r.jumps[t] = IF t = h[2] /\ x.jumps[h[2]] = k
                                        THEN x.tramps[k].below ELSE x.jumps[t]
    BY <1>3 DEF undone
  <2>4. Linked(x, B) /\ h = x.items[p].hook /\ r.tramps[k].target = h[2]
    BY <1>1, <1>3 DEF Sound, h
  <2>5. PICK t \in Targets : t = h[2]
    BY <1>2
  <2>6. /\ k \in Tramps /\ p \in Positions(x) /\ Positions(r) = Positions(x)
        /\ x.tramps[k].detour = h /\ x.tramps[k].target = t /\ x.original[h] = Trampoline(k)
        /\ r.tramps[k].detour = Null /\ r.tramps[k].target = t
        /\ r.tramps[k].below = x.tramps[k].below
    BY <1>1, <1>3, <1>4, <2>4, <2>5
  <2>7. /\ \A v \in Originals : v # h => r.original[v] = x.original[v]
        /\ \A u \in Tramps : u # k => r.tramps[u] = x.tramps[u]
    BY <1>3
  <2>8. /\ \A q \in Positions(x) :
             /\ r.items[q].hook = x.items[q].hook
             /\ r.items[q].free = IF q = p /\ x.jumps[t] = k THEN k ELSE x.items[q].free
        /\ \A u \in Targets : r.jumps[u] = IF u = t /\ x.jumps[t] = k THEN x.tramps[k].below
                                           ELSE x.jumps[u]
    BY <2>2, <2>3, <2>5
  <2>9. \A q \in Positions(x) :
            /\ x.items[q].hook \in Originals /\ (q # p => x.items[q].hook # h)
            /\ x.items[q].free \in Tramps \union {Null}
            /\ q \in B => x.tramps[x.original[x.items[q].hook].of].detour = x.items[q].hook
    BY <2>1
  <2>10. Removes(x, p, h, t, k, r)
    BY <2>4, <2>6, <2>7, <2>8 DEF Removes
  <2>11. QED
    BY <1>1, <1>11, <2>4, <2>9, <2>10, RemoveLinked
<1>13. QED
  BY <1>1, <1>3, <1>4, <1>7, <1>8, <1>9, <1>10, <1>12 DEF Sound, p

(* The commit: the positions whose detours the first i operations attach and *)
(* detach, and what i rounds of the two loops make of the heap.            *)
Changed(ops, op, i) == {ops[j].pos : j \in {u \in 1..i : ops[u].op = op}}

AddsInv(s, A, wanted, ops, i, x) ==
    /\ Sound(x, A \union Changed(ops, "add", i)) /\ SameEntries(s, x)
    /\ \A j \in DOMAIN ops : j > i \/ ops[j].op = "remove" => OpOK(x, wanted, ops[j])
RemovesInv(s, B, wanted, ops, i, x) ==
    /\ Sound(x, B \ Changed(ops, "remove", i)) /\ SameEntries(s, x)
    /\ \A j \in DOMAIN ops : j > i /\ ops[j].op = "remove" => OpOK(x, wanted, ops[j])

(* What one more round has written.                                        *)
LEMMA ChangedMore ==
    ASSUME NEW ops, NEW op, NEW i \in Nat, i >= 1
    PROVE  Changed(ops, op, i) = IF ops[i].op = op THEN Changed(ops, op, i - 1) \union {ops[i].pos}
                                 ELSE Changed(ops, op, i - 1)
<1>1. \A u : u \in 1..i <=> u \in 1..(i - 1) \/ u = i
  OBVIOUS
<1>2. QED
  BY <1>1 DEF Changed

(* Entries that stay the same twice are the same.                          *)
LEMMA SameEntriesAgain ==
    ASSUME NEW s, NEW x, NEW r, SameEntries(s, x), SameEntries(x, r) PROVE SameEntries(s, r)
BY DEF SameEntries, SameEntry, Positions, Size

AddRound(ops, x, i) == IF ops[i].op = "add" THEN CommitAdd(x, ops[i]) ELSE x
RemoveRound(ops, x, i) == IF ops[i].op = "remove" THEN CommitRemove(x, ops[i]) ELSE x

(* A round of CommitAdds.                                                  *)
LEMMA AddRoundFacts ==
    ASSUME NEW s, NEW A, NEW wanted, NEW ops \in Seq(Ops), Once(ops), NEW i \in DOMAIN ops,
           \A j \in DOMAIN ops : ops[j].op = "add" => ops[j].pos \notin A,
           NEW x, AddsInv(s, A, wanted, ops, i - 1, x)
    PROVE  AddsInv(s, A, wanted, ops, i, AddRound(ops, x, i))
<1>1. /\ i \in Nat /\ i >= 1 /\ ops[i] \in Ops
      /\ \A j \in DOMAIN ops : j \in Nat /\ ops[j] \in Ops
  BY ElementOfSeq, LenProperties
<1> DEFINE B == A \union Changed(ops, "add", i - 1)
           C == A \union Changed(ops, "add", i)
           new == AddRound(ops, x, i)
<1>2. CASE ops[i].op = "add"
  <2>1. new = CommitAdd(x, ops[i]) /\ C = B \union {ops[i].pos}
    BY <1>1, <1>2, ChangedMore DEF AddRound
  <2>2. Sound(x, B) /\ OpOK(x, wanted, ops[i]) /\ ops[i].pos \notin B
    <3>1. \A j \in 1..(i - 1) : j \in DOMAIN ops /\ j # i
      BY <1>1, LenProperties
    <3>2. ops[i].pos \notin Changed(ops, "add", i - 1)
      BY <3>1 DEF Changed, Once
    <3>3. QED
      BY <1>1, <1>2, <3>2 DEF AddsInv
  <2> HIDE DEF B, C, new
  <2>3. /\ Sound(new, C) /\ SameEntries(x, new)
        /\ \A e \in Ops : e.pos # ops[i].pos /\ OpOK(x, wanted, e) => OpOK(new, wanted, e)
    BY <1>1, <1>2, <2>1, <2>2, CommitAddFacts
  <2>4. ASSUME NEW j \in DOMAIN ops, j > i \/ ops[j].op = "remove"
        PROVE  OpOK(new, wanted, ops[j])
    <3>1. j # i /\ (j > i - 1 \/ ops[j].op = "remove")
      BY <1>1, <1>2, <2>4
    <3>2. OpOK(x, wanted, ops[j]) /\ ops[j].pos # ops[i].pos
      BY <3>1 DEF AddsInv, Once
    <3>3. QED
      BY <1>1, <2>3, <3>2
  <2>5. SameEntries(s, new)
    BY <2>3, SameEntriesAgain DEF AddsInv
  <2>6. QED
    BY <2>3, <2>4, <2>5 DEF AddsInv, C, new
<1>3. CASE ops[i].op # "add"
  <2>1. new = x /\ C = B
    BY <1>1, <1>3, ChangedMore DEF AddRound
  <2>2. \A j \in DOMAIN ops : j > i => j > i - 1
    BY <1>1
  <2>3. QED
    BY <2>1, <2>2 DEF AddsInv
<1>4. QED
  BY <1>2, <1>3

(* A round of CommitRemoves.                                               *)
LEMMA RemoveRoundFacts ==
    ASSUME NEW s, NEW B, NEW wanted, NEW ops \in Seq(Ops), Once(ops), NEW i \in DOMAIN ops,
           NEW x, RemovesInv(s, B, wanted, ops, i - 1, x)
    PROVE  RemovesInv(s, B, wanted, ops, i, RemoveRound(ops, x, i))
<1>1. /\ i \in Nat /\ i >= 1 /\ ops[i] \in Ops
      /\ \A j \in DOMAIN ops : j \in Nat /\ ops[j] \in Ops
  BY ElementOfSeq, LenProperties
<1> DEFINE D == B \ Changed(ops, "remove", i - 1)
           C == B \ Changed(ops, "remove", i)
           new == RemoveRound(ops, x, i)
<1>2. CASE ops[i].op = "remove"
  <2>1. new = CommitRemove(x, ops[i]) /\ C = D \ {ops[i].pos}
    BY <1>1, <1>2, ChangedMore DEF RemoveRound
  <2>2. Sound(x, D) /\ OpOK(x, wanted, ops[i])
    BY <1>1, <1>2 DEF RemovesInv
  <2> HIDE DEF D, C, new
  <2>3. /\ Sound(new, C) /\ SameEntries(x, new)
        /\ \A e \in Ops : /\ e.pos # ops[i].pos /\ e.op = "remove" /\ OpOK(x, wanted, e)
                          => OpOK(new, wanted, e)
    <3>1. PICK o \in Ops : o = ops[i]
      BY <1>1
    <3>2. /\ o.op = "remove" /\ new = CommitRemove(x, o) /\ C = D \ {o.pos}
          /\ Sound(x, D) /\ OpOK(x, wanted, o)
      BY <1>2, <2>1, <2>2, <3>1
    <3>3. /\ Sound(new, C) /\ SameEntries(x, new)
          /\ \A e \in Ops : /\ e.pos # o.pos /\ e.op = "remove" /\ OpOK(x, wanted, e)
                            => OpOK(new, wanted, e)
      BY <3>2, CommitRemoveFacts
    <3>4. QED
      BY <3>1, <3>3
  <2>4. ASSUME NEW j \in DOMAIN ops, j > i, ops[j].op = "remove"
        PROVE  OpOK(new, wanted, ops[j])
    <3>1. j # i /\ j > i - 1
      BY <1>1, <2>4
    <3>2. OpOK(x, wanted, ops[j]) /\ ops[j].pos # ops[i].pos
      BY <2>4, <3>1 DEF RemovesInv, Once
    <3>3. QED
      BY <1>1, <2>3, <2>4, <3>2
  <2>5. SameEntries(s, new)
    BY <2>3, SameEntriesAgain DEF RemovesInv
  <2>6. QED
    BY <2>3, <2>4, <2>5 DEF RemovesInv, C, new
<1>3. CASE ops[i].op # "remove"
  <2>1. new = x /\ C = D
    BY <1>1, <1>3, ChangedMore DEF RemoveRound
  <2>2. \A j \in DOMAIN ops : j > i => j > i - 1
    BY <1>1
  <2>3. QED
    BY <2>1, <2>2 DEF RemovesInv
<1>4. QED
  BY <1>2, <1>3

(* The attaches.                                                           *)
LEMMA CommitAddsFacts ==
    ASSUME NEW s \in Heaps, NEW A, NEW wanted, NEW ops \in Seq(Ops), Once(ops),
           Sound(s, A), \A j \in DOMAIN ops : OpOK(s, wanted, ops[j]),
           \A j \in DOMAIN ops : ops[j].op = "add" => ops[j].pos \notin A,
           NEW r, r = CommitAdds(s, ops)
    PROVE  AddsInv(s, A, wanted, ops, Len(ops), r)
<1> DEFINE n == Len(ops)
           T == [i \in 0..n |-> {x \in Heaps : AddsInv(s, A, wanted, ops, i, x)}]
           f == [i \in 1..n |-> [x \in T[i-1] |-> AddRound(ops, x, i)]]
<1>1. n \in Nat /\ DOMAIN ops = 1..n
  BY LenProperties
<1>2. s \in T[0]
  <2>1. Changed(ops, "add", 0) = {}
    BY DEF Changed
  <2>2. AddsInv(s, A, wanted, ops, 0, s)
    BY <2>1 DEF AddsInv, SameEntries, SameEntry
  <2>3. QED
    BY <1>1, <2>2, Numbers
<1>3. ASSUME NEW i \in 1..n, NEW x \in T[i-1] PROVE AddRound(ops, x, i) \in T[i]
  <2>1. AddsInv(s, A, wanted, ops, i - 1, x) /\ i \in 0..n /\ i \in DOMAIN ops
    BY <1>1, <1>3, Numbers
  <2>2. AddsInv(s, A, wanted, ops, i, AddRound(ops, x, i))
    BY <2>1, AddRoundFacts
  <2>3. AddRound(ops, x, i) \in Heaps
    BY <2>2 DEF AddsInv, Sound
  <2>4. QED
    BY <2>1, <2>2, <2>3
<1> HIDE DEF T
<1>4. PICK g : Rounds(g, n, f, s) /\ \A i \in 0..n : g[i] \in T[i]
  <2>1. \A i \in 1..n : \A x \in T[i-1] : f[i][x] \in T[i]
    BY <1>3
  <2> HIDE DEF f, n
  <2>2. QED
    BY <1>1, <1>2, <2>1, LoopExists
<1> DEFINE h == CHOOSE h : h = [i \in 0..n |-> IF i = 0 THEN s ELSE AddRound(ops, h[i-1], i)]
<1>5. h = [i \in 0..n |-> IF i = 0 THEN s ELSE AddRound(ops, h[i-1], i)]
  <2>1. \A i \in 1..n : g[i] = AddRound(ops, g[i-1], i)
    <3>1. ASSUME NEW i \in 1..n PROVE g[i] = AddRound(ops, g[i-1], i)
      <4>1. g[i] = f[i][g[i-1]] /\ g[i-1] \in T[i-1]
        <5> HIDE DEF f
        <5>1. QED
          BY <1>1, <1>4, Numbers DEF Rounds
      <4>2. QED
        BY <4>1
    <3>2. QED
      BY <3>1
  <2>2. g = [i \in 0..n |-> IF i = 0 THEN s ELSE AddRound(ops, g[i-1], i)]
    <3> HIDE DEF n
    <3>1. \A i \in 0..n : g[i] = IF i = 0 THEN s ELSE AddRound(ops, g[i-1], i)
      BY <1>1, <1>4, <2>1, Numbers DEF Rounds
    <3>2. QED
      BY <1>4, <3>1 DEF Rounds
  <2>3. QED
    BY <2>2
<1>6. \A i \in 0..n : h[i] \in T[i]
  <2> HIDE DEF h
  <2>1. h[0] = s /\ \A i \in 1..n : h[i] = AddRound(ops, h[i-1], i)
    BY <1>1, <1>5
  <2> HIDE DEF n
  <2>2. h[0] \in T[0] /\ \A i \in 1..n : h[i-1] \in T[i-1] => h[i] \in T[i]
    BY <1>2, <1>3, <2>1
  <2>3. QED
    BY <1>1, <2>2, LoopStays
<1>7. r = h[n]
  BY DEF CommitAdds, Loop, AddRound
<1>8. QED
  <2> HIDE DEF h
  <2>1. h[n] \in T[n] /\ n \in 0..n
    BY <1>1, <1>6
  <2>2. QED
    BY <1>7, <2>1 DEF T

(* The detaches.                                                           *)
LEMMA CommitRemovesFacts ==
    ASSUME NEW s \in Heaps, NEW B, NEW wanted, NEW ops \in Seq(Ops), Once(ops),
           Sound(s, B),
           \A j \in DOMAIN ops : ops[j].op = "remove" => OpOK(s, wanted, ops[j]),
           NEW r, r = CommitRemoves(s, ops)
    PROVE  RemovesInv(s, B, wanted, ops, Len(ops), r)
<1> DEFINE n == Len(ops)
           T == [i \in 0..n |-> {x \in Heaps : RemovesInv(s, B, wanted, ops, i, x)}]
           f == [i \in 1..n |-> [x \in T[i-1] |-> RemoveRound(ops, x, i)]]
<1>1. n \in Nat /\ DOMAIN ops = 1..n
  BY LenProperties
<1>2. s \in T[0]
  <2>1. Changed(ops, "remove", 0) = {}
    BY DEF Changed
  <2>2. RemovesInv(s, B, wanted, ops, 0, s)
    BY <2>1 DEF RemovesInv, SameEntries, SameEntry
  <2>3. QED
    BY <1>1, <2>2, Numbers
<1>3. ASSUME NEW i \in 1..n, NEW x \in T[i-1] PROVE RemoveRound(ops, x, i) \in T[i]
  <2>1. RemovesInv(s, B, wanted, ops, i - 1, x) /\ i \in 0..n /\ i \in DOMAIN ops
    BY <1>1, <1>3, Numbers
  <2>2. RemovesInv(s, B, wanted, ops, i, RemoveRound(ops, x, i))
    BY <2>1, RemoveRoundFacts
  <2>3. RemoveRound(ops, x, i) \in Heaps
    BY <2>2 DEF RemovesInv, Sound
  <2>4. QED
    BY <2>1, <2>2, <2>3
<1> HIDE DEF T
<1>4. PICK g : Rounds(g, n, f, s) /\ \A i \in 0..n : g[i] \in T[i]
  <2>1. \A i \in 1..n : \A x \in T[i-1] : f[i][x] \in T[i]
    BY <1>3
  <2> HIDE DEF f, n
  <2>2. QED
    BY <1>1, <1>2, <2>1, LoopExists
<1> DEFINE h == CHOOSE h : h = [i \in 0..n |-> IF i = 0 THEN s ELSE RemoveRound(ops, h[i-1], i)]
<1>5. h = [i \in 0..n |-> IF i = 0 THEN s ELSE RemoveRound(ops, h[i-1], i)]
  <2>1. \A i \in 1..n : g[i] = RemoveRound(ops, g[i-1], i)
    <3>1. ASSUME NEW i \in 1..n PROVE g[i] = RemoveRound(ops, g[i-1], i)
      <4>1. g[i] = f[i][g[i-1]] /\ g[i-1] \in T[i-1]
        <5> HIDE DEF f
        <5>1. QED
          BY <1>1, <1>4, Numbers DEF Rounds
      <4>2. QED
        BY <4>1
    <3>2. QED
      BY <3>1
  <2>2. g = [i \in 0..n |-> IF i = 0 THEN s ELSE RemoveRound(ops, g[i-1], i)]
    <3> HIDE DEF n
    <3>1. \A i \in 0..n : g[i] = IF i = 0 THEN s ELSE RemoveRound(ops, g[i-1], i)
      BY <1>1, <1>4, <2>1, Numbers DEF Rounds
    <3>2. QED
      BY <1>4, <3>1 DEF Rounds
  <2>3. QED
    BY <2>2
<1>6. \A i \in 0..n : h[i] \in T[i]
  <2> HIDE DEF h
  <2>1. h[0] = s /\ \A i \in 1..n : h[i] = RemoveRound(ops, h[i-1], i)
    BY <1>1, <1>5
  <2> HIDE DEF n
  <2>2. h[0] \in T[0] /\ \A i \in 1..n : h[i-1] \in T[i-1] => h[i] \in T[i]
    BY <1>2, <1>3, <2>1
  <2>3. QED
    BY <1>1, <2>2, LoopStays
<1>7. r = h[n]
  BY DEF CommitRemoves, Loop, RemoveRound
<1>8. QED
  <2> HIDE DEF h
  <2>1. h[n] \in T[n] /\ n \in 0..n
    BY <1>1, <1>6
  <2>2. QED
    BY <1>7, <2>1 DEF T

(* The flags of the entries may change.                                    *)
LEMMA NewFlags ==
    ASSUME NEW x, NEW C, Sound(x, C), NEW f, f \in [Positions(x) -> Items],
           \A p \in Positions(x) : /\ f[p].hook = x.items[p].hook /\ f[p].ptr = x.items[p].ptr
                                   /\ f[p].free = x.items[p].free,
           NEW r, r = [x EXCEPT !.items = f]
    PROVE  /\ Sound(r, C) /\ r.items = f /\ Size(r) = Size(x) /\ r.fields = x.fields
           /\ r.original = x.original /\ r.tramps = x.tramps /\ r.jumps = x.jumps
<1>1. /\ x \in Heaps /\ Size(x) \in Nat /\ Positions(x) = 1..Size(x) /\ Size(x) <= Len(x.fields)
      /\ EntriesApart(x) /\ \A p \in Positions(x) : EntryOK(x, p, C)
  BY HeapTypes DEF Sound
<1>2. f \in Seq(Items) /\ Len(f) = Size(x)
  BY <1>1, IsSeq
<1>3. /\ r \in Heaps /\ r.items = f /\ r.fields = x.fields
      /\ r.original = x.original /\ r.tramps = x.tramps /\ r.jumps = x.jumps
  BY <1>1, <1>2 DEF Heaps
<1>4. Size(r) = Size(x) /\ Positions(r) = Positions(x)
  BY <1>1, <1>2, <1>3 DEF Size, Positions
<1>5. EntriesApart(r)
  BY <1>1, <1>3, <1>4 DEF EntriesApart
<1>6. ASSUME NEW p \in Positions(x) PROVE EntryOK(r, p, C)
  <2>1. /\ EntryOK(x, p, C) /\ r.items[p].hook = x.items[p].hook
        /\ r.items[p].ptr = x.items[p].ptr /\ r.items[p].free = x.items[p].free
        /\ r.original = x.original /\ r.tramps = x.tramps
    BY <1>1, <1>3
  <2>2. QED
    BY <2>1 DEF EntryOK
<1>7. Linked(r, C)
  <2>1. \A p \in Positions(x) : SameOwner(x, p, r, p) /\ r.items[p].free = x.items[p].free
    BY <1>3 DEF SameOwner
  <2>2. Follows(x, C, r, C)
    BY <1>3, <1>4, <2>1 DEF Follows
  <2>3. QED
    BY <2>2, StillLinked DEF Sound
<1>8. QED
  BY <1>1, <1>3, <1>4, <1>5, <1>6, <1>7 DEF Sound

(* A transaction changes entries that it was asked to change, all that are *)
(* to be disabled among them.                                              *)
LEMMA TransactionFacts ==
    ASSUME NEW s, Sound(s, Flagged(s)), NEW wanted, Asked(s, Flagged(s), wanted),
           NEW r, r = Transaction(s, wanted)
    PROVE  /\ Sound(r, Flagged(r)) /\ Size(r) = Size(s)
           /\ \E done \in SUBSET DOMAIN wanted :
                /\ \A p \in DOMAIN wanted : ~wanted[p] => p \in done
                /\ \A p \in Positions(s) :
                     /\ r.items[p].hook = s.items[p].hook
                     /\ r.items[p].enabled = IF p \in done THEN wanted[p] ELSE s.items[p].enabled
                     /\ r.items[p].queue = IF p \in done THEN wanted[p] ELSE s.items[p].queue
<1> DEFINE A == Flagged(s)
           tx == Prepare(s, wanted)
           x == tx.heap
           ops == tx.ops
           n == Len(ops)
           done == {ops[i].pos : i \in DOMAIN ops}
           B == A \union Changed(ops, "add", n)
           C == B \ Changed(ops, "remove", n)
           added == CommitAdds(x, ops)
           committed == CommitRemoves(added, ops)
           Flags(p) == IF p \in done
                       THEN [committed.items[p] EXCEPT !.enabled = wanted[p], !.queue = wanted[p]]
                       ELSE committed.items[p]
           f == [p \in Positions(s) |-> Flags(p)]
<1>1. /\ s \in Heaps /\ Positions(s) = 1..Size(s) /\ DOMAIN wanted \subseteq Positions(s)
      /\ \A p \in DOMAIN wanted : wanted[p] \in BOOLEAN
  BY HeapTypes DEF Sound, Asked
<1>2. r = [committed EXCEPT !.items = f]
  BY DEF Transaction, Commit
<1>3. PrepInv(s, A, wanted, Size(s), tx)
  BY PrepareFacts
<1> HIDE DEF tx
<1>4. /\ x \in Heaps /\ ops \in Seq(Ops) /\ Sound(x, A) /\ SameEntries(s, x) /\ Once(ops)
      /\ \A j \in DOMAIN ops : OpOK(x, wanted, ops[j])
      /\ n \in Nat /\ DOMAIN ops = 1..n
  <2>1. /\ x \in Heaps /\ ops \in Seq(Ops) /\ Sound(x, A) /\ Prepared(s, x) /\ Once(ops)
        /\ \A j \in DOMAIN ops : OpOK(x, wanted, ops[j])
    BY <1>3 DEF PrepInv
  <2>2. QED
    BY <2>1, LenProperties DEF Prepared
<1>5. \A p \in DOMAIN wanted : ~wanted[p] => p \in done
  BY <1>1, <1>3, HeapTypes DEF PrepInv
<1> HIDE DEF x, ops, A
<1>6. AddsInv(x, A, wanted, ops, n, added)
  <2>1. \A j \in DOMAIN ops : ops[j].op = "add" => ops[j].pos \notin A
    BY <1>4 DEF OpOK, Asked, A
  <2>2. QED
    BY <1>4, <2>1, CommitAddsFacts
<1> HIDE DEF added
<1>7. /\ Sound(added, B) /\ SameEntries(x, added) /\ added \in Heaps
      /\ \A j \in DOMAIN ops : ops[j].op = "remove" => OpOK(added, wanted, ops[j])
  BY <1>6 DEF AddsInv, Sound
<1> HIDE DEF B
<1>8. RemovesInv(added, B, wanted, ops, n, committed)
  BY <1>4, <1>7, CommitRemovesFacts
<1> HIDE DEF committed
<1>9. Sound(committed, C) /\ SameEntries(s, committed)
  <2>1. Sound(committed, C) /\ SameEntries(added, committed)
    BY <1>8 DEF RemovesInv
  <2>2. QED
    BY <1>4, <1>7, <2>1, SameEntriesAgain
<1>10. Positions(committed) = Positions(s) /\ Size(committed) = Size(s) /\ committed \in Heaps
  BY <1>9 DEF SameEntries, Positions, Size, Sound
<1>11. \A j \in DOMAIN ops : /\ ops[j].pos \in DOMAIN wanted
                             /\ ops[j].op = IF wanted[ops[j].pos] THEN "add" ELSE "remove"
  BY <1>4 DEF OpOK
<1>12. done \subseteq DOMAIN wanted
  BY <1>11
<1>13. f \in [Positions(s) -> Items]
  <2>1. ASSUME NEW p \in Positions(s) PROVE Flags(p) \in Items
    <3>1. committed.items[p] \in Items
      BY <1>10, HeapTypes
    <3>2. p \in done => wanted[p] \in BOOLEAN
      BY <1>1, <1>12
    <3> HIDE DEF done
    <3>3. QED
      BY <3>1, <3>2, ItemTypes
  <2> HIDE DEF Flags
  <2>2. QED
    BY <2>1
<1>14. \A p \in Positions(s) :
         /\ f[p].hook = committed.items[p].hook /\ f[p].ptr = committed.items[p].ptr
         /\ f[p].free = committed.items[p].free
         /\ f[p].enabled = IF p \in done THEN wanted[p] ELSE committed.items[p].enabled
         /\ f[p].queue = IF p \in done THEN wanted[p] ELSE committed.items[p].queue
  <2> HIDE DEF done
  <2>1. \A p \in Positions(s) : committed.items[p] \in Items
    BY <1>10, HeapTypes
  <2>2. QED
    BY <2>1 DEF Items
<1> HIDE DEF f
<1>15. Sound(r, C) /\ r.items = f /\ Size(r) = Size(s)
  BY <1>2, <1>9, <1>10, <1>13, <1>14, NewFlags
<1> HIDE DEF C, done
<1>16. \A p \in Positions(s) :
         /\ r.items[p].hook = s.items[p].hook
         /\ r.items[p].enabled = IF p \in done THEN wanted[p] ELSE s.items[p].enabled
         /\ r.items[p].queue = IF p \in done THEN wanted[p] ELSE s.items[p].queue
  BY <1>9, <1>14, <1>15 DEF SameEntries, SameEntry
<1>17. \A p : /\ p \in Changed(ops, "add", n) <=> p \in done /\ wanted[p]
              /\ p \in Changed(ops, "remove", n) <=> p \in done /\ ~wanted[p]
  BY <1>4, <1>11 DEF Changed, done
<1>18. Flagged(r) = C
  <2>1. Positions(r) = Positions(s)
    BY <1>15 DEF Positions, Size
  <2>2. \A p \in C : p \in Positions(s)
    BY <1>1, <1>12, <1>17 DEF C, B, A, Flagged
  <2>3. ASSUME NEW p \in Positions(s) PROVE p \in C <=> r.items[p].enabled
    BY <1>12, <1>16, <1>17 DEF C, B, A, Flagged
  <2>4. QED
    BY <2>1, <2>2, <2>3 DEF Flagged
<1>19. QED
  BY <1>5, <1>12, <1>15, <1>16, <1>18

------------------------------------------------------------------------------
(* The functions of the library.                                           *)

(* The table that the array of a heap stands for.                          *)
CreatedIn(s) == {s.items[p].hook : p \in Positions(s)}
EnabledIn(s) == {s.items[p].hook : p \in {q \in Positions(s) : s.items[q].enabled}}
QueuedIn(s) == {s.items[p].hook : p \in {q \in Positions(s) : s.items[q].queue}}
HooksIn(s, ident) == {h \in CreatedIn(s) : ident \in {Null, h[1]}}

(* An entry tells what the table says of its hook.                         *)
LEMMA InTable ==
    ASSUME NEW s, EntriesApart(s), NEW p \in Positions(s)
    PROVE  LET h == s.items[p].hook
           IN /\ h \in CreatedIn(s)
              /\ h \in EnabledIn(s) <=> s.items[p].enabled
              /\ h \in QueuedIn(s) <=> s.items[p].queue
              /\ \A ident : h \in HooksIn(s, ident) <=> p \in ItemsOf(s, ident)
<1>1. \A q \in Positions(s) : s.items[q].hook = s.items[p].hook => q = p
  BY DEF EntriesApart
<1>2. QED
  BY <1>1 DEF CreatedIn, EnabledIn, QueuedIn, HooksIn, ItemsOf

(* A hook of the table has an entry.                                       *)
LEMMA FromTable ==
    ASSUME NEW s, NEW h
    PROVE  /\ h \in CreatedIn(s) => \E p \in Positions(s) : s.items[p].hook = h
           /\ h \in EnabledIn(s) => h \in CreatedIn(s)
           /\ h \in QueuedIn(s) => h \in CreatedIn(s)
           /\ \A ident : h \in HooksIn(s, ident) => h \in CreatedIn(s)
BY DEF CreatedIn, EnabledIn, QueuedIn, HooksIn

(* DisableHooks, as the table sees it: the hooks of ident are disabled.    *)
LEMMA DisableTable ==
    ASSUME NEW s, Sound(s, Flagged(s)), NEW ident, NEW r, r = DisableHooks(s, ident)
    PROVE  /\ Sound(r, Flagged(r))
           /\ CreatedIn(r) = CreatedIn(s)
           /\ EnabledIn(r) = EnabledIn(s) \ HooksIn(s, ident)
           /\ QueuedIn(r) = QueuedIn(s) \ (HooksIn(s, ident) \intersect EnabledIn(s))
<1> DEFINE D == {q \in ItemsOf(s, ident) : s.items[q].enabled}
           wanted == [p \in D |-> FALSE]
<1>1. D \subseteq Positions(s) /\ DOMAIN wanted = D /\ \A p \in D : wanted[p] = FALSE
  BY DEF ItemsOf
<1>2. Asked(s, Flagged(s), wanted)
  BY <1>1 DEF Asked, Flagged
<1>3. r = Transaction(s, wanted)
  BY DEF DisableHooks
<1> HIDE DEF wanted
<1>4. /\ Sound(r, Flagged(r)) /\ Size(r) = Size(s)
      /\ \E done \in SUBSET DOMAIN wanted :
           /\ \A p \in DOMAIN wanted : ~wanted[p] => p \in done
           /\ \A p \in Positions(s) :
                /\ r.items[p].hook = s.items[p].hook
                /\ r.items[p].enabled = IF p \in done THEN wanted[p] ELSE s.items[p].enabled
                /\ r.items[p].queue = IF p \in done THEN wanted[p] ELSE s.items[p].queue
  BY <1>2, <1>3, TransactionFacts
<1>5. \A p \in Positions(s) :
         /\ r.items[p].hook = s.items[p].hook
         /\ r.items[p].enabled <=> s.items[p].enabled /\ p \notin D
         /\ r.items[p].queue <=> s.items[p].queue /\ p \notin D
  BY <1>1, <1>4
<1>6. Positions(r) = Positions(s) /\ EntriesApart(s) /\ EntriesApart(r)
  BY <1>4 DEF Positions, Size, Sound
<1>7. \A p \in Positions(s) :
         p \in D <=> s.items[p].hook \in HooksIn(s, ident) /\ s.items[p].hook \in EnabledIn(s)
  BY <1>6, InTable
<1> HIDE DEF D
<1>8. \A p \in Positions(s) : LET h == s.items[p].hook IN
         /\ h \in CreatedIn(r) /\ h \in CreatedIn(s)
         /\ h \in EnabledIn(r) <=> h \in EnabledIn(s) \ HooksIn(s, ident)
         /\ h \in QueuedIn(r) <=> h \in QueuedIn(s) \ (HooksIn(s, ident) \intersect EnabledIn(s))
  BY <1>5, <1>6, <1>7, InTable
<1>9. \A h : \/ \E p \in Positions(s) : s.items[p].hook = h
             \/ h \notin CreatedIn(r) /\ h \notin CreatedIn(s)
  BY <1>5, <1>6, FromTable
<1>10. QED
  BY <1>4, <1>8, <1>9, FromTable

(* RemoveDisabled, as the table sees it: the disabled hooks of ident go.   *)
LEMMA RemoveTable ==
    ASSUME NEW s, Sound(s, Flagged(s)), NEW ident, NEW moves,
           NEW r, r = RemoveDisabled(s, ident, moves)
    PROVE  /\ Sound(r, Flagged(r))
           /\ CreatedIn(r) = CreatedIn(s) \ (HooksIn(s, ident) \ EnabledIn(s))
           /\ EnabledIn(r) = EnabledIn(s)
           /\ QueuedIn(r) = QueuedIn(s) \ (HooksIn(s, ident) \ EnabledIn(s))
<1>1. /\ Sound(r, Flagged(r)) /\ Kept(s, r, ident)
      /\ \A p \in Positions(r) : ~Goes(r, ident, p)
      /\ EntriesApart(s) /\ EntriesApart(r)
  BY RemoveDisabledFacts DEF Sound
<1>2. ASSUME NEW q \in Positions(r)
      PROVE  LET h == r.items[q].hook IN
             /\ h \in CreatedIn(s) /\ h \notin HooksIn(s, ident) \ EnabledIn(s)
             /\ h \in EnabledIn(r) <=> h \in EnabledIn(s)
             /\ h \in QueuedIn(r) <=> h \in QueuedIn(s)
  <2>1. PICK p \in Positions(s) : SameEntry(s.items[p], r.items[q])
    BY <1>1 DEF Kept
  <2>2. ~Goes(s, ident, p)
    BY <1>1, <2>1, SameGoes
  <2>3. QED
    BY <1>1, <2>1, <2>2, InTable DEF SameEntry, Goes
<1>3. ASSUME NEW p \in Positions(s), s.items[p].hook \notin HooksIn(s, ident) \ EnabledIn(s)
      PROVE  s.items[p].hook \in CreatedIn(r)
  <2>1. ~Goes(s, ident, p)
    BY <1>1, <1>3, InTable DEF Goes
  <2>2. PICK q \in Positions(r) : SameEntry(s.items[p], r.items[q])
    BY <1>1, <2>1 DEF Kept
  <2>3. QED
    BY <1>1, <2>2, InTable DEF SameEntry
<1>4. CreatedIn(r) = CreatedIn(s) \ (HooksIn(s, ident) \ EnabledIn(s))
  BY <1>2, <1>3, FromTable
<1>5. ASSUME NEW h \in CreatedIn(r)
      PROVE  /\ h \in EnabledIn(r) <=> h \in EnabledIn(s)
             /\ h \in QueuedIn(r) <=> h \in QueuedIn(s)
  <2>1. PICK q \in Positions(r) : r.items[q].hook = h
    BY <1>5, FromTable
  <2>2. QED
    BY <1>2, <2>1
<1>6. EnabledIn(r) = EnabledIn(s)
  <2>1. \A h \in EnabledIn(r) : h \in CreatedIn(r)
    BY FromTable
  <2>2. \A h \in EnabledIn(s) : h \in CreatedIn(r)
    BY <1>4, FromTable
  <2>3. QED
    BY <1>5, <2>1, <2>2
<1>7. QueuedIn(r) = QueuedIn(s) \ (HooksIn(s, ident) \ EnabledIn(s))
  <2>1. \A h \in QueuedIn(r) : h \in CreatedIn(r)
    BY FromTable
  <2>2. \A h \in QueuedIn(s) \ (HooksIn(s, ident) \ EnabledIn(s)) : h \in CreatedIn(r)
    BY <1>4, FromTable
  <2>3. QED
    BY <1>4, <1>5, <2>1, <2>2
<1>8. QED
  BY <1>1, <1>4, <1>6, <1>7

(* ApplyQueued, as the table sees it: each hook of ident gets its flag, but for*)
(* the ones whose attach fails.                                            *)
LEMMA ApplyTable ==
    ASSUME NEW s, Sound(s, Flagged(s)), NEW ident, NEW r, r = ApplyQueued(s, ident)
    PROVE  /\ Sound(r, Flagged(r))
           /\ CreatedIn(r) = CreatedIn(s) /\ QueuedIn(r) = QueuedIn(s)
           /\ \E failed \in SUBSET {h \in HooksIn(s, ident) : h \in QueuedIn(s) /\ h \notin EnabledIn(s)} :
                EnabledIn(r) = (EnabledIn(s) \ (HooksIn(s, ident) \ failed))
                               \union (QueuedIn(s) \intersect (HooksIn(s, ident) \ failed))
<1> DEFINE D == {p \in ItemsOf(s, ident) : s.items[p].queue # s.items[p].enabled}
           wanted == [p \in D |-> s.items[p].queue]
<1>1. /\ D \subseteq Positions(s) /\ DOMAIN wanted = D
      /\ \A p \in D : wanted[p] = s.items[p].queue
      /\ \A p \in Positions(s) : s.items[p].queue \in BOOLEAN /\ s.items[p].enabled \in BOOLEAN
  BY HeapTypes, ItemTypes DEF ItemsOf, Sound
<1>2. Asked(s, Flagged(s), wanted)
  BY <1>1 DEF Asked, Flagged
<1>3. r = Transaction(s, wanted)
  BY DEF ApplyQueued
<1> HIDE DEF wanted
<1>4. /\ Sound(r, Flagged(r)) /\ Size(r) = Size(s)
      /\ \E done \in SUBSET DOMAIN wanted :
           /\ \A p \in DOMAIN wanted : ~wanted[p] => p \in done
           /\ \A p \in Positions(s) :
                /\ r.items[p].hook = s.items[p].hook
                /\ r.items[p].enabled = IF p \in done THEN wanted[p] ELSE s.items[p].enabled
                /\ r.items[p].queue = IF p \in done THEN wanted[p] ELSE s.items[p].queue
  BY <1>2, <1>3, TransactionFacts
<1>5. PICK done \in SUBSET D :
         /\ \A p \in D : ~s.items[p].queue => p \in done
         /\ \A p \in Positions(s) :
              /\ r.items[p].hook = s.items[p].hook
              /\ r.items[p].enabled = IF p \in done THEN s.items[p].queue ELSE s.items[p].enabled
              /\ r.items[p].queue = s.items[p].queue
  BY <1>1, <1>4
<1> DEFINE failed == {s.items[p].hook : p \in D \ done}
           hooks == HooksIn(s, ident)
<1>6. Positions(r) = Positions(s) /\ EntriesApart(s) /\ EntriesApart(r)
  BY <1>4 DEF Positions, Size, Sound
<1>7. \A p \in Positions(s) : s.items[p].hook \in failed <=> p \in D \ done
  <2>1. \A p, q \in Positions(s) : s.items[p].hook = s.items[q].hook => p = q
    BY <1>6 DEF EntriesApart
  <2>2. QED
    BY <1>1, <2>1
<1>8. \A p \in Positions(s) :
         p \in D <=> /\ s.items[p].hook \in hooks
                     /\ ~(s.items[p].hook \in QueuedIn(s) <=> s.items[p].hook \in EnabledIn(s))
  BY <1>1, <1>6, InTable
<1>9. \A h \in failed : \E p \in Positions(s) : p \in D \ done /\ s.items[p].hook = h
  BY <1>1
<1> HIDE DEF D, failed
<1>10. \A p \in Positions(s) : LET h == s.items[p].hook IN
         /\ h \in CreatedIn(r) /\ h \in CreatedIn(s)
         /\ h \in QueuedIn(r) <=> h \in QueuedIn(s)
         /\ h \in EnabledIn(r) <=> \/ h \in EnabledIn(s) \ (hooks \ failed)
                                   \/ h \in QueuedIn(s) \intersect (hooks \ failed)
  BY <1>1, <1>5, <1>6, <1>7, <1>8, InTable
<1>11. \A h : \/ \E p \in Positions(s) : s.items[p].hook = h
              \/ h \notin CreatedIn(r) /\ h \notin CreatedIn(s)
  BY <1>5, <1>6, FromTable
<1>12. CreatedIn(r) = CreatedIn(s) /\ QueuedIn(r) = QueuedIn(s)
  <2>1. \A h : h \in CreatedIn(r) <=> h \in CreatedIn(s)
    BY <1>10, <1>11
  <2>2. \A h : h \in QueuedIn(r) <=> h \in QueuedIn(s)
    BY <1>10, <1>11, FromTable
  <2>3. QED
    BY <2>1, <2>2, FromTable
<1>13. EnabledIn(r) = (EnabledIn(s) \ (hooks \ failed)) \union (QueuedIn(s) \intersect (hooks \ failed))
  BY <1>10, <1>11, FromTable
<1>14. failed \in SUBSET {h \in hooks : h \in QueuedIn(s) /\ h \notin EnabledIn(s)}
  <2>1. ASSUME NEW h \in failed PROVE h \in hooks /\ h \in QueuedIn(s) /\ h \notin EnabledIn(s)
    <3>1. PICK p \in Positions(s) : p \in D \ done /\ s.items[p].hook = h
      BY <1>9
    <3>2. s.items[p].queue
      BY <1>5, <3>1
    <3>3. QED
      BY <1>6, <1>8, <3>1, <3>2, InTable
  <2>2. QED
    BY <2>1
<1>15. QED
  BY <1>4, <1>12, <1>13, <1>14

(* CreateHook, as the table sees it: a hook that is neither enabled nor queued.*)
LEMMA CreateTable ==
    ASSUME NEW s, Sound(s, Flagged(s)), NEW h \in HookSet \intersect Originals, NEW moves,
           \A p \in Positions(s) : s.items[p].hook # h,
           NEW r, r = CreateHook(s, h, h, moves)
    PROVE  /\ Sound(r, Flagged(r)) /\ h \notin CreatedIn(s)
           /\ CreatedIn(r) = CreatedIn(s) \union {h}
           /\ EnabledIn(r) = EnabledIn(s) \ {h} /\ QueuedIn(r) = QueuedIn(s) \ {h}
<1>1. /\ Sound(r, Flagged(s)) /\ Size(r) = Size(s) + 1
      /\ \A p \in Positions(s) : r.items[p] = s.items[p]
      /\ LET e == r.items[Size(s) + 1] IN e.hook = h /\ ~e.enabled /\ ~e.queue
  <2>1. Flagged(s) \subseteq Positions(s)
    BY DEF Flagged
  <2> DEFINE A == Flagged(s)
  <2> HIDE DEF A
  <2>2. A \subseteq Positions(s) /\ Sound(s, A)
    BY <2>1 DEF A
  <2>3. /\ Sound(r, A) /\ Size(r) = Size(s) + 1
        /\ \A p \in Positions(s) : r.items[p] = s.items[p]
        /\ LET e == r.items[Size(s) + 1] IN e.hook = h /\ ~e.enabled /\ ~e.queue
    BY <2>2, CreateHookFacts
  <2>4. QED
    BY <2>3 DEF A
<1>2. /\ Size(s) \in Nat /\ Positions(s) = 1..Size(s) /\ Positions(r) = 1..(Size(s) + 1)
      /\ EntriesApart(s) /\ EntriesApart(r)
  BY <1>1, HeapTypes DEF Positions, Size, Sound
<1>3. PICK n : n = Size(s) + 1
  OBVIOUS
<1>4. /\ n \in Positions(r) /\ r.items[n].hook = h /\ ~r.items[n].enabled /\ ~r.items[n].queue
      /\ \A p \in Positions(r) : p = n \/ (p \in Positions(s) /\ r.items[p] = s.items[p])
      /\ \A p \in Positions(s) : p \in Positions(r) /\ r.items[p] = s.items[p]
  BY <1>1, <1>2, <1>3
<1>5. Flagged(r) = Flagged(s)
  BY <1>4 DEF Flagged
<1>6. h \notin CreatedIn(s) /\ h \in CreatedIn(r) /\ h \notin EnabledIn(r) /\ h \notin QueuedIn(r)
  BY <1>2, <1>4, InTable, FromTable
<1>7. \A g : g # h => /\ g \in CreatedIn(r) <=> g \in CreatedIn(s)
                      /\ g \in EnabledIn(r) <=> g \in EnabledIn(s)
                      /\ g \in QueuedIn(r) <=> g \in QueuedIn(s)
  BY <1>4 DEF CreatedIn, EnabledIn, QueuedIn
<1>8. QED
  BY <1>1, <1>5, <1>6, <1>7

(* queueEnable of some entries is set.                                     *)
WithItems(s, f) == [s EXCEPT !.items = f]
WithQueue(s, D, on) == [p \in Positions(s) |-> IF p \in D THEN [s.items[p] EXCEPT !.queue = on]
                                               ELSE s.items[p]]

(* A write of queue flags, as the table sees it.                           *)
LEMMA QueueTable ==
    ASSUME NEW s, Sound(s, Flagged(s)), NEW D \in SUBSET Positions(s), NEW on \in BOOLEAN,
           NEW r, r = WithItems(s, WithQueue(s, D, on))
    PROVE  /\ Sound(r, Flagged(r))
           /\ CreatedIn(r) = CreatedIn(s) /\ EnabledIn(r) = EnabledIn(s)
           /\ LET hooks == {s.items[p].hook : p \in D}
              IN QueuedIn(r) = IF on THEN QueuedIn(s) \union hooks ELSE QueuedIn(s) \ hooks
<1> DEFINE f == WithQueue(s, D, on)
<1>1. \A p \in Positions(s) : s.items[p] \in Items
  BY HeapTypes DEF Sound
<1>2. /\ f \in [Positions(s) -> Items]
      /\ \A p \in Positions(s) : /\ f[p].hook = s.items[p].hook /\ f[p].ptr = s.items[p].ptr
                                 /\ f[p].free = s.items[p].free
                                 /\ f[p].enabled = s.items[p].enabled
                                 /\ f[p].queue = IF p \in D THEN on ELSE s.items[p].queue
  BY <1>1 DEF Items, WithQueue
<1> HIDE DEF f
<1>3. Sound(r, Flagged(s)) /\ r.items = f /\ Size(r) = Size(s)
  BY <1>2, NewFlags DEF WithItems, f
<1>4. Positions(r) = Positions(s) /\ EntriesApart(s)
  BY <1>3 DEF Positions, Size, Sound
<1>5. Flagged(r) = Flagged(s) /\ CreatedIn(r) = CreatedIn(s) /\ EnabledIn(r) = EnabledIn(s)
  BY <1>2, <1>3, <1>4 DEF Flagged, CreatedIn, EnabledIn
<1> DEFINE hooks == {s.items[p].hook : p \in D}
<1>6. \A p \in Positions(s) : s.items[p].hook \in hooks <=> p \in D
  <2>1. \A p, q \in Positions(s) : s.items[p].hook = s.items[q].hook => p = q
    BY <1>4 DEF EntriesApart
  <2>2. QED
    BY <2>1
<1>7. \A h : h \in QueuedIn(r)
           <=> \E p \in Positions(s) : /\ s.items[p].hook = h
                                       /\ IF p \in D THEN on ELSE s.items[p].queue
  BY <1>2, <1>3, <1>4 DEF QueuedIn
<1>8. \A h : h \in QueuedIn(s) <=> \E p \in Positions(s) : s.items[p].hook = h /\ s.items[p].queue
  BY DEF QueuedIn
<1>9. \A h \in hooks : \E p \in Positions(s) : p \in D /\ s.items[p].hook = h
  OBVIOUS
<1> HIDE DEF hooks
<1>10. QueuedIn(r) = IF on THEN QueuedIn(s) \union hooks ELSE QueuedIn(s) \ hooks
  <2>1. CASE on
    <3>1. \A h : h \in QueuedIn(r)
               <=> \E p \in Positions(s) : s.items[p].hook = h /\ (p \in D \/ s.items[p].queue)
      BY <1>7, <2>1
    <3>2. \A h : h \in QueuedIn(r) <=> h \in QueuedIn(s) \/ h \in hooks
      BY <1>6, <1>8, <1>9, <3>1
    <3>3. QED
      BY <2>1, <3>2
  <2>2. CASE ~on
    BY <1>6, <1>7, <1>8, <1>9, <2>2
  <2>3. QED
    BY <2>1, <2>2
<1>11. QED
  BY <1>3, <1>5, <1>10 DEF hooks

------------------------------------------------------------------------------
(* The inductive invariant, and the table.                                 *)

IInv == initialized \in BOOLEAN /\ Sound(heap, Flagged(heap))

(* The first heap is sound.                                                *)
LEMMA InitSound == Init => IInv
<1> SUFFICES ASSUME Init PROVE IInv
  OBVIOUS
<1>1. /\ heap = InitHeap /\ initialized \in BOOLEAN
      /\ heap.items = <<>> /\ heap.fields = <<>>
      /\ heap.original = [v \in Originals |-> Junk]
      /\ heap.tramps = [k \in Tramps |-> NoTramp] /\ heap.jumps = [t \in Targets |-> Null]
  BY DEF Init, InitHeap
<1>2. heap = [items |-> heap.items, fields |-> heap.fields, original |-> heap.original,
              tramps |-> heap.tramps, jumps |-> heap.jumps]
  BY <1>1 DEF InitHeap
<1>3. <<>> \in Seq(Items) /\ <<>> \in Seq(Values) /\ Len(<<>>) = 0 /\ 1..0 = {}
  OBVIOUS
<1>4. /\ heap.original \in [Originals -> Values] /\ heap.tramps \in [Tramps -> TrampStates]
      /\ heap.jumps \in [Targets -> Tramps \union {Null}]
  BY <1>1 DEF Values, TrampStates, NoTramp
<1>5. heap \in Heaps
  BY <1>1, <1>2, <1>3, <1>4 DEF Heaps
<1>6. Positions(heap) = {} /\ Size(heap) <= Len(heap.fields)
  BY <1>1, <1>3 DEF Positions, Size
<1>7. Linked(heap, Flagged(heap))
  <2>1. PICK L \in [Tramps -> Nat] : L = [k \in Tramps |-> 0]
    OBVIOUS
  <2>2. Stacked(heap, L) /\ Owned(heap, Flagged(heap), L)
    BY <1>1, <1>6, <2>1 DEF Stacked, Owned
  <2>3. QED
    BY <2>2 DEF Linked
<1>8. QED
  BY <1>1, <1>5, <1>6, <1>7 DEF IInv, Sound, EntriesApart

(* What is called with the variable of a hook.                             *)
LEMMA OriginalOfHook ==
    ASSUME OwnVariables, NEW h, NEW v \in OriginalsOf(h) PROVE v = h /\ h \in Originals
BY DEF OwnVariables, OriginalsOf

(* MH_Uninitialize drops the room of an array that is empty.               *)
LEMMA UninitializeFacts ==
    ASSUME NEW s, Sound(s, Flagged(s)), s.items = <<>>, NEW r, r = [s EXCEPT !.fields = <<>>]
    PROVE  Sound(r, Flagged(r)) /\ r.items = s.items
<1>1. <<>> \in Seq(Values) /\ Len(<<>>) = 0 /\ 1..0 = {}
  OBVIOUS
<1>2. r \in Heaps /\ r.items = <<>> /\ r.fields = <<>>
  BY <1>1 DEF Sound, Heaps
<1>3. Positions(r) = {} /\ Size(r) <= Len(r.fields)
  BY <1>1, <1>2 DEF Positions, Size
<1>4. Linked(r, Flagged(r))
  <2>1. r.jumps = s.jumps /\ r.tramps = s.tramps /\ Positions(s) = {}
    BY <1>1, <1>3 DEF Sound, Heaps, Positions
  <2>2. Linked(s, Flagged(s))
    BY DEF Sound
  <2>3. QED
    BY <1>3, <2>1, <2>2, AlsoLinked
<1>5. QED
  BY <1>2, <1>3, <1>4 DEF Sound, EntriesApart

(* What Created, Enabled and Queued are, now and after a step.             *)
CreatedIs == /\ Created = CreatedIn(heap) /\ Enabled = EnabledIn(heap)
             /\ Queued = QueuedIn(heap)
             /\ \A ident : TableHooks(ident) = HooksIn(heap, ident)

(* The refinement mapping, as functions of the heap.                       *)
LEMMA TableIs == CreatedIs /\ CreatedIs'
<1>1. CreatedIs
  BY DEF CreatedIs, Created, Enabled, Queued, Entries, CreatedIn, EnabledIn, QueuedIn,
         TableHooks, HooksIn
<1>2. CreatedIs'
  BY DEF CreatedIs, Created, Enabled, Queued, Entries, CreatedIn, EnabledIn, QueuedIn,
         TableHooks, HooksIn
<1>3. QED
  BY <1>1, <1>2

(* One flag, and that flag among all.                                      *)
LEMMA QueueOne ==
    ASSUME NEW h, NEW on, heap \in Heaps, MH_QueueHookEx(h, on)
    PROVE  \E p \in Positions(heap) : /\ heap.items[p].hook = h
                                      /\ heap' = WithItems(heap, WithQueue(heap, {p}, on))
<1>1. PICK p \in Positions(heap) : /\ heap.items[p].hook = h
                                   /\ heap' = [heap EXCEPT !.items[p].queue = on]
  BY DEF MH_QueueHookEx
<1>2. heap.items \in Seq(Items) /\ DOMAIN heap.items = Positions(heap)
  BY HeapTypes
<1>3. [heap.items EXCEPT ![p] = [heap.items[p] EXCEPT !.queue = on]] = WithQueue(heap, {p}, on)
  BY <1>2 DEF WithQueue
<1>4. heap' = WithItems(heap, WithQueue(heap, {p}, on))
  BY <1>1, <1>3 DEF Heaps, WithItems
<1>5. QED
  BY <1>1, <1>4

(* Every step keeps the heap sound.                                        *)
LEMMA StepSound == OwnVariables /\ IInv /\ [Next]_vars => IInv'
<1> SUFFICES ASSUME OwnVariables, IInv, [Next]_vars PROVE IInv'
  OBVIOUS
<1>1. initialized \in BOOLEAN /\ Sound(heap, Flagged(heap))
  BY DEF IInv
<1>2. ASSUME NEW h \in HookSet, NEW moves, NEW v \in OriginalsOf(h), MH_CreateHookEx(h, v, moves)
      PROVE  IInv'
  <2>1. v = h /\ h \in Originals
    BY OriginalOfHook
  <2>2. /\ \A p \in Positions(heap) : heap.items[p].hook # h
        /\ heap' = CreateHook(heap, h, h, moves) /\ initialized' = initialized
    BY <1>2, <2>1 DEF MH_CreateHookEx
  <2>3. Sound(heap', Flagged(heap'))
    BY <1>1, <2>1, <2>2, CreateTable
  <2>4. QED
    BY <1>1, <2>2, <2>3 DEF IInv
<1>3. ASSUME NEW h \in HookSet, NEW on \in BOOLEAN, MH_QueueHookEx(h, on) PROVE IInv'
  <2>1. PICK p \in Positions(heap) : heap' = WithItems(heap, WithQueue(heap, {p}, on))
    BY <1>1, <1>3, QueueOne DEF Sound
  <2>2. {p} \in SUBSET Positions(heap)
    OBVIOUS
  <2>3. Sound(heap', Flagged(heap'))
    BY <1>1, <2>1, <2>2, QueueTable
  <2>4. QED
    BY <1>1, <1>3, <2>3 DEF IInv, MH_QueueHookEx
<1>4. ASSUME NEW ident, MH_QueueDisableAllEx(ident) PROVE IInv'
  <2>1. heap' = WithItems(heap, WithQueue(heap, ItemsOf(heap, ident), FALSE))
    BY <1>4 DEF MH_QueueDisableAllEx, WithQueue, WithItems
  <2>2. ItemsOf(heap, ident) \in SUBSET Positions(heap)
    BY DEF ItemsOf
  <2>3. Sound(heap', Flagged(heap'))
    BY <1>1, <2>1, <2>2, QueueTable
  <2>4. QED
    BY <1>1, <1>4, <2>3 DEF IInv, MH_QueueDisableAllEx
<1>5. ASSUME NEW ident, MH_ApplyQueuedEx(ident) PROVE IInv'
  BY <1>1, <1>5, ApplyTable DEF IInv, MH_ApplyQueuedEx
<1>6. ASSUME NEW ident, MH_DisableHookEx(ident) PROVE IInv'
  BY <1>1, <1>6, DisableTable DEF IInv, MH_DisableHookEx
<1>7. ASSUME NEW ident, NEW moves, MH_RemoveDisabledHooksEx(ident, moves) PROVE IInv'
  BY <1>1, <1>7, RemoveTable DEF IInv, MH_RemoveDisabledHooksEx
<1>8. ASSUME NEW ident, NEW moves, MH_RemoveHookEx(ident, moves) PROVE IInv'
  BY <1>1, <1>8, DisableTable, RemoveTable DEF IInv, MH_RemoveHookEx
<1>9. ASSUME NEW moves, MH_Uninitialize(moves) PROVE IInv'
  <2> DEFINE disabled == DisableHooks(heap, Null)
             removed == RemoveDisabled(disabled, Null, moves)
  <2>1. Sound(removed, Flagged(removed))
    BY <1>1, DisableTable, RemoveTable
  <2>2. \/ removed.items = <<>> /\ initialized' = FALSE /\ heap' = [removed EXCEPT !.fields = <<>>]
        \/ initialized' = initialized /\ heap' = removed
    BY <1>9 DEF MH_Uninitialize
  <2> HIDE DEF removed
  <2>3. Sound(heap', Flagged(heap'))
    BY <2>1, <2>2, UninitializeFacts
  <2>4. QED
    BY <1>1, <2>2, <2>3 DEF IInv
<1>10. CASE MH_Initialize
  BY <1>1, <1>10 DEF IInv, MH_Initialize
<1>11. CASE UNCHANGED vars
  BY <1>1, <1>11 DEF IInv, vars
<1>12. QED
  BY <1>2, <1>3, <1>4, <1>5, <1>6, <1>7, <1>8, <1>9, <1>10, <1>11 DEF Next

(* Every step of the array is one of the table.                            *)
LEMMA StepOfTable ==
    OwnVariables /\ "attachFails" \in Faults /\ IInv /\ [Next]_vars
        => [TableStep]_<<Created, Enabled, Queued>>
<1> SUFFICES ASSUME OwnVariables, "attachFails" \in Faults, IInv, [Next]_vars
             PROVE  TableStep \/ UNCHANGED <<Created, Enabled, Queued>>
  OBVIOUS
<1>1. Sound(heap, Flagged(heap)) /\ heap \in Heaps
  BY DEF IInv, Sound
<1>2. /\ Created = CreatedIn(heap) /\ Enabled = EnabledIn(heap) /\ Queued = QueuedIn(heap)
      /\ Created' = CreatedIn(heap') /\ Enabled' = EnabledIn(heap') /\ Queued' = QueuedIn(heap')
      /\ \A ident : TableHooks(ident) = HooksIn(heap, ident)
  BY TableIs DEF CreatedIs
<1>3. ASSUME NEW h \in HookSet, NEW moves, NEW v \in OriginalsOf(h), MH_CreateHookEx(h, v, moves)
      PROVE  TableStep
  <2>1. v = h /\ h \in Originals
    BY OriginalOfHook
  <2>2. /\ \A p \in Positions(heap) : heap.items[p].hook # h
        /\ heap' = CreateHook(heap, h, h, moves)
    BY <1>3, <2>1 DEF MH_CreateHookEx
  <2>3. /\ h \notin CreatedIn(heap) /\ CreatedIn(heap') = CreatedIn(heap) \union {h}
        /\ EnabledIn(heap') = EnabledIn(heap) \ {h} /\ QueuedIn(heap') = QueuedIn(heap) \ {h}
    BY <1>1, <2>1, <2>2, CreateTable
  <2>4. Table!MH_CreateHookEx(h)
    BY <1>2, <2>3 DEF Table!MH_CreateHookEx
  <2>5. QED
    BY <2>4 DEF TableStep
<1>4. ASSUME NEW h \in HookSet, NEW on \in BOOLEAN, MH_QueueHookEx(h, on) PROVE TableStep
  <2>1. PICK p \in Positions(heap) : /\ heap.items[p].hook = h
                                     /\ heap' = WithItems(heap, WithQueue(heap, {p}, on))
    BY <1>1, <1>4, QueueOne
  <2>2. PICK D : D = {p}
    OBVIOUS
  <2>3. /\ CreatedIn(heap') = CreatedIn(heap) /\ EnabledIn(heap') = EnabledIn(heap)
        /\ QueuedIn(heap') = IF on THEN QueuedIn(heap) \union {h} ELSE QueuedIn(heap) \ {h}
    <3>1. D \in SUBSET Positions(heap) /\ {heap.items[q].hook : q \in D} = {h}
      BY <2>1, <2>2
    <3>2. heap' = WithItems(heap, WithQueue(heap, D, on))
      BY <2>1, <2>2
    <3>3. LET hooks == {heap.items[q].hook : q \in D}
          IN /\ CreatedIn(heap') = CreatedIn(heap) /\ EnabledIn(heap') = EnabledIn(heap)
             /\ QueuedIn(heap') = IF on THEN QueuedIn(heap) \union hooks
                                  ELSE QueuedIn(heap) \ hooks
      BY <1>1, <3>1, <3>2, QueueTable
    <3>4. QED
      BY <3>1, <3>3
  <2>4. h \in CreatedIn(heap)
    BY <2>1 DEF CreatedIn
  <2>5. CASE on
    <3>1. Table!MH_QueueEnableHookEx(h)
      BY <1>2, <2>3, <2>4, <2>5 DEF Table!MH_QueueEnableHookEx
    <3>2. QED
      BY <3>1 DEF TableStep
  <2>6. CASE ~on
    <3>1. Table!MH_QueueDisableHookEx({h})
      BY <1>2, <2>3, <2>6 DEF Table!MH_QueueDisableHookEx
    <3>2. QED
      BY <1>2, <2>4, <3>1 DEF TableStep
  <2>7. QED
    BY <2>5, <2>6
<1>5. ASSUME NEW ident \in Idents, MH_QueueDisableAllEx(ident) PROVE TableStep
  <2> DEFINE D == ItemsOf(heap, ident)
  <2>1. heap' = WithItems(heap, WithQueue(heap, D, FALSE))
    BY <1>5 DEF MH_QueueDisableAllEx, WithQueue, WithItems
  <2>2. D \in SUBSET Positions(heap)
    BY DEF ItemsOf
  <2>3. {heap.items[p].hook : p \in D} = HooksIn(heap, ident)
    BY DEF ItemsOf, HooksIn, CreatedIn
  <2>4. /\ CreatedIn(heap') = CreatedIn(heap) /\ EnabledIn(heap') = EnabledIn(heap)
        /\ QueuedIn(heap') = QueuedIn(heap) \ HooksIn(heap, ident)
    BY <1>1, <2>1, <2>2, <2>3, QueueTable
  <2>5. Table!MH_QueueDisableHookEx(TableHooks(ident))
    BY <1>2, <2>4 DEF Table!MH_QueueDisableHookEx
  <2>6. QED
    BY <2>5 DEF TableStep
<1>6. ASSUME NEW ident \in Idents \union {Null}, MH_ApplyQueuedEx(ident) PROVE TableStep
  <2>1. heap' = ApplyQueued(heap, ident)
    BY <1>6 DEF MH_ApplyQueuedEx
  <2>2. /\ CreatedIn(heap') = CreatedIn(heap) /\ QueuedIn(heap') = QueuedIn(heap)
        /\ \E failed \in SUBSET {h \in HooksIn(heap, ident) :
                                   h \in QueuedIn(heap) /\ h \notin EnabledIn(heap)} :
             EnabledIn(heap') = (EnabledIn(heap) \ (HooksIn(heap, ident) \ failed))
                                \union (QueuedIn(heap) \intersect (HooksIn(heap, ident) \ failed))
    BY <1>1, <2>1, ApplyTable
  <2>3. PICK failed \in SUBSET {h \in TableHooks(ident) : h \in Queued /\ h \notin Enabled} :
          Enabled' = (Enabled \ (TableHooks(ident) \ failed))
                     \union (Queued \intersect (TableHooks(ident) \ failed))
    BY <1>2, <2>2
  <2>4. failed \in Table!AttachFailures(TableHooks(ident))
    BY <2>3 DEF Table!AttachFailures
  <2>5. Table!MH_ApplyQueuedEx(TableHooks(ident), failed)
    BY <1>2, <2>2, <2>3 DEF Table!MH_ApplyQueuedEx
  <2>6. QED
    BY <2>4, <2>5 DEF TableStep
<1>7. ASSUME NEW ident \in Idents, MH_DisableHookEx(ident) PROVE TableStep
  <2>1. /\ CreatedIn(heap') = CreatedIn(heap)
        /\ EnabledIn(heap') = EnabledIn(heap) \ HooksIn(heap, ident)
        /\ QueuedIn(heap') = QueuedIn(heap) \ (HooksIn(heap, ident) \intersect EnabledIn(heap))
    BY <1>1, <1>7, DisableTable DEF MH_DisableHookEx
  <2>2. Table!MH_DisableHookEx(TableHooks(ident))
    BY <1>2, <2>1 DEF Table!MH_DisableHookEx
  <2>3. QED
    BY <2>2 DEF TableStep
<1>8. ASSUME NEW ident \in Idents, NEW moves, MH_RemoveDisabledHooksEx(ident, moves) PROVE TableStep
  <2>1. /\ CreatedIn(heap') = CreatedIn(heap) \ (HooksIn(heap, ident) \ EnabledIn(heap))
        /\ EnabledIn(heap') = EnabledIn(heap)
        /\ QueuedIn(heap') = QueuedIn(heap) \ (HooksIn(heap, ident) \ EnabledIn(heap))
    BY <1>1, <1>8, RemoveTable DEF MH_RemoveDisabledHooksEx
  <2>2. Table!MH_RemoveDisabledHooksEx(TableHooks(ident))
    BY <1>2, <2>1 DEF Table!MH_RemoveDisabledHooksEx
  <2>3. QED
    BY <2>2 DEF TableStep
<1>9. ASSUME NEW ident \in Idents \union {Null}, NEW moves, NEW removed,
             removed = RemoveDisabled(DisableHooks(heap, ident), ident, moves),
             CreatedIn(heap') = CreatedIn(removed), EnabledIn(heap') = EnabledIn(removed),
             QueuedIn(heap') = QueuedIn(removed)
      PROVE  TableStep
  <2>1. PICK d : d = DisableHooks(heap, ident)
    OBVIOUS
  <2>2. /\ Sound(d, Flagged(d)) /\ CreatedIn(d) = CreatedIn(heap)
        /\ EnabledIn(d) = EnabledIn(heap) \ HooksIn(heap, ident)
        /\ QueuedIn(d) = QueuedIn(heap) \ (HooksIn(heap, ident) \intersect EnabledIn(heap))
    BY <1>1, <2>1, DisableTable
  <2>3. HooksIn(d, ident) = HooksIn(heap, ident)
    BY <2>2 DEF HooksIn
  <2>4. removed = RemoveDisabled(d, ident, moves)
    BY <1>9, <2>1
  <2>5. /\ CreatedIn(removed) = CreatedIn(d) \ (HooksIn(d, ident) \ EnabledIn(d))
        /\ EnabledIn(removed) = EnabledIn(d)
        /\ QueuedIn(removed) = QueuedIn(d) \ (HooksIn(d, ident) \ EnabledIn(d))
    BY <2>2, <2>4, RemoveTable
  <2>6. /\ Created' = Created \ TableHooks(ident) /\ Enabled' = Enabled \ TableHooks(ident)
        /\ Queued' = Queued \ TableHooks(ident)
    BY <1>2, <1>9, <2>2, <2>3, <2>5
  <2>7. Table!MH_RemoveHookEx(TableHooks(ident))
    BY <2>6 DEF Table!MH_RemoveHookEx
  <2>8. QED
    BY <2>7 DEF TableStep
<1>10. ASSUME NEW ident \in Idents, NEW moves, MH_RemoveHookEx(ident, moves) PROVE TableStep
  BY <1>9, <1>10 DEF MH_RemoveHookEx
<1>11. ASSUME NEW moves, MH_Uninitialize(moves) PROVE TableStep
  <2>1. PICK removed : removed = RemoveDisabled(DisableHooks(heap, Null), Null, moves)
    OBVIOUS
  <2>2. heap' = removed \/ heap' = [removed EXCEPT !.fields = <<>>]
    BY <1>11, <2>1 DEF MH_Uninitialize
  <2>3. Sound(removed, Flagged(removed))
    BY <1>1, <2>1, DisableTable, RemoveTable
  <2>4. heap'.items = removed.items
    BY <2>2, <2>3 DEF Sound, Heaps
  <2>5. /\ CreatedIn(heap') = CreatedIn(removed) /\ EnabledIn(heap') = EnabledIn(removed)
        /\ QueuedIn(heap') = QueuedIn(removed)
    BY <2>4 DEF CreatedIn, EnabledIn, QueuedIn, Positions
  <2>6. QED
    BY <1>9, <2>1, <2>5
<1>12. CASE MH_Initialize \/ UNCHANGED vars
  BY <1>2, <1>12 DEF MH_Initialize, vars
<1>13. QED
  BY <1>3, <1>4, <1>5, <1>6, <1>7, <1>8, <1>10, <1>11, <1>12 DEF Next

(* The heap is sound: every entry has a variable of its own, which holds the *)
(* function or, as long as its detour is attached, the trampoline of it.   *)
THEOREM IInvAlways == ASSUME OwnVariables PROVE Spec => []IInv
<1>1. IInv /\ [Next]_vars => IInv'
  BY StepSound
<1>2. QED
  BY <1>1, InitSound, PTL DEF Spec

(* The heap keeps its shape, and the array has room for its entries.       *)
THEOREM TypeCorrect == ASSUME OwnVariables PROVE Spec => []TypeOK
<1>1. IInv => TypeOK
  BY DEF IInv, Sound, TypeOK
<1>2. Spec => []IInv
  BY IInvAlways
<1>3. QED
  BY <1>1, <1>2, PTL

(* The array implements the table of HookTable, whose bulk operations may  *)
(* leave out what cannot be attached.                                      *)
THEOREM ArrayImplementsTable ==
    ASSUME OwnVariables, "attachFails" \in Faults PROVE Spec => ImplementsHookTable
<1>1. Init => Table!TableInit
  BY DEF Init, InitHeap, Table!TableInit, Created, Enabled, Queued, Entries, Positions
<1>2. IInv /\ [Next]_vars => [TableStep]_<<Created, Enabled, Queued>>
  BY StepOfTable
<1>3. Spec => []IInv
  BY IInvAlways
<1>4. QED
  BY <1>1, <1>2, <1>3, PTL DEF Spec, ImplementsHookTable
------------------------------------------------------------------------------
(* Calls of the functions that are hooked.                                 *)

(* In a sound heap calls run what is attached.                              *)
LEMMA SoundCalls ==
    ASSUME NEW A, Sound(heap, A), NEW t \in Targets, NEW chain, chain = Chain(t)
    PROVE  CallsRun(t, A, chain)
<1>1. heap \in Heaps /\ heap.tramps \in [Tramps -> TrampStates] /\ Linked(heap, A)
  BY HeapTypes DEF Sound
<1>2. ASSUME NEW p \in Positions(heap)
      PROVE  LET h == heap.items[p].hook
                 own == heap.original[h]
             IN /\ h \in HookSet
                /\ p \in A => /\ own.of \in Tramps
                              /\ heap.tramps[own.of].detour = h
                              /\ heap.tramps[own.of].target = h[2]
  <2>1. EntryOK(heap, p, A) /\ heap.items[p] \in Items
    BY <1>1, HeapTypes DEF Sound
  <2>2. heap.items[p].hook \in HookSet
    BY <2>1, ItemTypes
  <2>3. QED
    BY <2>1, <2>2 DEF EntryOK
<1>3. Callable(A)
  BY <1>1, <1>2 DEF Callable
<1>4. QED
  BY <1>3, CallsFacts

(* The chain of a function runs the detours of its enabled hooks.          *)
LEMMA ChainsRunEnabled == IInv => CallsEnabledHooks
<1> SUFFICES ASSUME IInv PROVE CallsEnabledHooks
  OBVIOUS
<1>1. SUFFICES ASSUME NEW t \in Targets
               PROVE  /\ Reaches(Top(heap, t))
                      /\ ToSet(Chain(t)) = {h \in Enabled : h[2] = t}
                      /\ IsInjective(Chain(t))
  BY DEF CallsEnabledHooks
<1>2. PICK chain : chain = Chain(t)
  OBVIOUS
<1>3. CallsRun(t, Flagged(heap), chain)
  BY <1>2, SoundCalls DEF IInv
<1>4. Enabled = {heap.items[p].hook : p \in Flagged(heap)}
  BY TableIs DEF CreatedIs, EnabledIn, Flagged
<1>5. ToSet(chain) = {h \in Enabled : h[2] = t}
  <2>1. \A h : h \in ToSet(chain)
               <=> \E p \in Flagged(heap) : heap.items[p].hook = h /\ heap.items[p].hook[2] = t
    BY <1>3 DEF CallsRun, Flagged
  <2>2. QED
    BY <1>4, <2>1
<1>6. QED
  BY <1>2, <1>3, <1>5 DEF CallsRun

(* The variable of an enabled hook leads to what comes after it in the     *)
(* chain, that of another one to the function.                             *)
LEMMA OriginalsLeadOn == IInv => OriginalCallsOn
<1> SUFFICES ASSUME IInv PROVE OriginalCallsOn
  OBVIOUS
<1>1. SUFFICES ASSUME NEW p \in Positions(heap)
               PROVE  LET item == heap.items[p]
                          chain == Chain(item.hook[2])
                          original == Deref(heap, item.ptr)
                      IN IF item.enabled
                         THEN /\ original.kind = "trampoline"
                              /\ \E n \in DOMAIN chain :
                                   /\ chain[n] = item.hook
                                   /\ Detours(heap.tramps[original.of].below)
                                        = SubSeq(chain, n + 1, Len(chain))
                         ELSE original = Function(item.hook[2])
  BY DEF OriginalCallsOn
<1> DEFINE h == heap.items[p].hook
           own == heap.original[h]
<1>2. EntryOK(heap, p, Flagged(heap)) /\ heap.items[p] \in Items
  BY HeapTypes DEF IInv, Sound
<1>3. Deref(heap, heap.items[p].ptr) = own
  BY <1>2, HasVariable DEF Deref
<1>4. CASE heap.items[p].enabled
  <2>1. p \in Flagged(heap) /\ own = Trampoline(own.of)
    BY <1>2, <1>4 DEF Flagged, EntryOK
  <2>2. own.kind = "trampoline"
    BY <2>1 DEF Trampoline
  <2>3. PICK t \in Targets : t = h[2]
    BY <1>2, ItemTypes
  <2>4. PICK chain : chain = Chain(t)
    OBVIOUS
  <2>5. CallsRun(t, Flagged(heap), chain)
    BY <2>4, SoundCalls DEF IInv
  <2>6. \E n \in DOMAIN chain :
          /\ chain[n] = h
          /\ Detours(heap.tramps[own.of].below) = SubSeq(chain, n + 1, Len(chain))
    BY <2>1, <2>3, <2>5 DEF CallsRun
  <2> HIDE DEF own, h
  <2>7. QED
    BY <1>3, <1>4, <2>2, <2>3, <2>4, <2>6 DEF h
<1>5. CASE ~heap.items[p].enabled
  <2>1. own = Function(h[2])
    BY <1>2, <1>5 DEF Flagged, EntryOK
  <2>2. QED
    BY <1>3, <1>5, <2>1
<1>6. QED
  BY <1>4, <1>5

(* A call of a function runs the detour of each of its enabled hooks once, *)
(* no other, and ends in the function (CallsEnabledHooks), in every        *)
(* behaviour: the chains of CommitAdd and CommitRemove stay whole.         *)
THEOREM HooksAreCalled == ASSUME OwnVariables PROVE Spec => []CallsEnabledHooks
<1>1. Spec => []IInv
  BY IInvAlways
<1>2. QED
  BY <1>1, ChainsRunEnabled, PTL

(* What a detour calls through its original pointer are the detours after  *)
(* its own, then the function; a hook that is not enabled has the function *)
(* in its variable (OriginalCallsOn), in every behaviour.                  *)
THEOREM OriginalsCallOn == ASSUME OwnVariables PROVE Spec => []OriginalCallsOn
<1>1. Spec => []IInv
  BY IInvAlways
<1>2. QED
  BY <1>1, OriginalsLeadOn, PTL

(* As long as every hook has a variable of its own, no detour is put on a  *)
(* function it was not made for (DetourOnItsTarget), which run             *)
(* hook_array_stale refutes of the callers that do not.                    *)
THEOREM DetoursOnTheirTargets == ASSUME OwnVariables PROVE Spec => []DetourOnItsTarget
<1>1. CallsEnabledHooks => DetourOnItsTarget
  BY DEF CallsEnabledHooks, DetourOnItsTarget, ToSet
<1>2. Spec => []CallsEnabledHooks
  BY HooksAreCalled
<1>3. QED
  BY <1>1, <1>2, PTL
================================================================================
