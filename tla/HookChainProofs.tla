---------------------------- MODULE HookChainProofs ----------------------------
(***************************************************************************)
(* The chains of trampolines of HookArray, for any heap: what a call of a  *)
(* patched function goes through (Path), which detours it runs (Detours),  *)
(* and how each write of the library changes the chains.  A trampoline on  *)
(* the chain of a function has a level, its height above the code of the   *)
(* function; HookArrayProofs carries the levels through the operations.    *)
(***************************************************************************)
EXTENDS HookArray, SequenceTheorems, FiniteSetTheorems, WellFoundedInduction, TLAPS

------------------------------------------------------------------------------
(* Loops.                                                                  *)

Less == {pair \in Nat \X Nat : pair[1] < pair[2]}

(* A set of numbers that is not empty has a least one.                     *)
LEMMA Least ==
    ASSUME NEW T \in SUBSET Nat, T # {} PROVE \E x \in T : \A y \in T : x <= y
<1>1. OpToRel(<, Nat) = Less
  BY DEF OpToRel, Less
<1>2. PICK x \in T : \A y \in T : ~(<<y, x>> \in Less)
  BY <1>1, NatLessThanWellFounded, WFMin
<1>3. ASSUME NEW y \in T PROVE x <= y
  <2>1. <<y, x>> \in Nat \X Nat /\ <<y, x>> \notin Less
    BY <1>2
  <2>2. ~(y < x)
    BY <2>1 DEF Less
  <2>3. QED
    BY <2>2
<1>4. QED
  BY <1>3

(* Induction, for sets of numbers.                                         *)
LEMMA SetInduction ==
    ASSUME NEW S, 0 \in S, \A n \in Nat : n \in S => n + 1 \in S PROVE Nat \subseteq S
<1>1. SUFFICES ASSUME Nat \ S # {} PROVE FALSE
  OBVIOUS
<1>2. PICK x \in Nat \ S : \A y \in Nat \ S : x <= y
  BY <1>1, Least
<1>3. x # 0 /\ x - 1 \in Nat /\ x - 1 \in S
  BY <1>2
<1>4. QED
  BY <1>2, <1>3

(* What holds before a loop and after each round holds after the loop.     *)
LEMMA LoopStays ==
    ASSUME NEW n \in Nat, NEW T, NEW h, h[0] \in T[0],
           \A i \in 1..n : h[i-1] \in T[i-1] => h[i] \in T[i]
    PROVE  \A i \in 0..n : h[i] \in T[i]
<1> DEFINE S == {i \in Nat : i <= n => h[i] \in T[i]}
<1>1. 0 \in S
  OBVIOUS
<1>2. ASSUME NEW i \in Nat, i \in S PROVE i + 1 \in S
  <2>1. SUFFICES ASSUME i + 1 <= n PROVE h[i + 1] \in T[i + 1]
    OBVIOUS
  <2>2. i + 1 \in 1..n /\ (i + 1) - 1 = i /\ h[i] \in T[i]
    BY <1>2, <2>1
  <2>3. QED
    BY <2>2
<1>3. Nat \subseteq S
  <2> HIDE DEF S
  <2>1. QED
    BY <1>1, <1>2, SetInduction
<1>4. QED
  BY <1>3

(* The numbers of the rounds of a loop.                                    *)
LEMMA Numbers ==
    ASSUME NEW n \in Nat
    PROVE  /\ 0 \in 0..n /\ n \in 0..n
           /\ \A i \in 1..n : i \in 0..n /\ i - 1 \in 0..n /\ i # 0
           /\ \A i \in 0..n : i = 0 \/ i \in 1..n
OBVIOUS

(* g gives what s has become after each of n rounds.                       *)
Rounds(g, n, f, s) == /\ g = [i \in 0..n |-> g[i]] /\ g[0] = s
                      /\ \A i \in 1..n : g[i] = f[i][g[i-1]]

(* A loop whose rounds are functions on the states they may find has a     *)
(* value after each round.                                                 *)
LEMMA LoopExists ==
    ASSUME NEW n \in Nat, NEW T, NEW f, NEW s, s \in T[0],
           \A i \in 1..n : \A x \in T[i-1] : f[i][x] \in T[i]
    PROVE  \E g : Rounds(g, n, f, s) /\ \A i \in 0..n : g[i] \in T[i]
<1> DEFINE Upto(k) == \E g : /\ g = [i \in 0..k |-> IF i = 0 THEN s ELSE f[i][g[i-1]]]
                             /\ \A i \in 0..k : g[i] \in T[i]
           S == {k \in Nat : k <= n => Upto(k)}
<1>1. 0 \in S
  <2> DEFINE g == [i \in 0..0 |-> s]
  <2>1. g = [i \in 0..0 |-> IF i = 0 THEN s ELSE f[i][g[i-1]]] /\ \A i \in 0..0 : g[i] \in T[i]
    OBVIOUS
  <2>2. QED
    BY <2>1
<1>2. ASSUME NEW k \in Nat, k \in S PROVE k + 1 \in S
  <2>1. SUFFICES ASSUME k + 1 <= n PROVE Upto(k + 1)
    OBVIOUS
  <2>2. PICK g : /\ g = [i \in 0..k |-> IF i = 0 THEN s ELSE f[i][g[i-1]]]
                 /\ \A i \in 0..k : g[i] \in T[i]
    BY <1>2, <2>1
  <2> DEFINE h == [i \in 0..(k+1) |-> IF i = k+1 THEN f[i][g[k]] ELSE g[i]]
  <2>3. \A i \in 0..k : g[i] = IF i = 0 THEN s ELSE f[i][g[i-1]]
    BY <2>2
  <2>4. \A i \in 0..(k+1) : h[i] = IF i = 0 THEN s ELSE f[i][h[i-1]]
    BY <2>3
  <2>5. \A i \in 0..(k+1) : h[i] \in T[i]
    <3>1. \A i \in 0..k : h[i] = g[i]
      OBVIOUS
    <3>2. h[k+1] = f[k+1][g[k]] /\ k + 1 \in 1..n /\ (k + 1) - 1 = k /\ g[k] \in T[k]
      BY <2>1, <2>2
    <3>3. h[k+1] \in T[k+1]
      <4>1. \A x \in T[(k+1) - 1] : f[k+1][x] \in T[k+1]
        BY <3>2
      <4>2. QED
        BY <3>2, <4>1
    <3>4. \A i \in 0..k : h[i] \in T[i]
      BY <2>2, <3>1
    <3>5. \A i \in 0..(k+1) : i \in 0..k \/ i = k + 1
      OBVIOUS
    <3> HIDE DEF h
    <3>6. QED
      BY <3>3, <3>4, <3>5
  <2>6. h = [i \in 0..(k+1) |-> IF i = 0 THEN s ELSE f[i][h[i-1]]]
    BY <2>4
  <2>7. QED
    BY <2>5, <2>6
<1>3. n \in S
  <2> HIDE DEF S
  <2>1. QED
    BY <1>1, <1>2, SetInduction
<1>4. PICK g : /\ g = [i \in 0..n |-> IF i = 0 THEN s ELSE f[i][g[i-1]]]
               /\ \A i \in 0..n : g[i] \in T[i]
  BY <1>3
<1>5. \A i \in 0..n : g[i] = IF i = 0 THEN s ELSE f[i][g[i-1]]
  BY <1>4
<1>6. g[0] = s /\ \A i \in 1..n : g[i] = f[i][g[i-1]]
  BY <1>5, Numbers
<1>7. g = [i \in 0..n |-> g[i]]
  BY <1>4
<1>8. QED
  BY <1>4, <1>6, <1>7 DEF Rounds

------------------------------------------------------------------------------
(* Chains.                                                                 *)

(* L is the level of every trampoline, 0 of those that are on no chain.    *)
(* Each leads to the one a level below it that was made for the same       *)
(* function, the lowest to the code of the function; the function jumps to *)
(* the highest, and no two share a level.                                  *)
Stacked(s, L) ==
    /\ \A k \in Tramps : L[k] # 0 =>
         LET t == s.tramps[k].target
             b == s.tramps[k].below
         IN /\ t \in Targets /\ s.jumps[t] # Null /\ L[k] <= L[s.jumps[t]]
            /\ IF L[k] = 1 THEN b = Null
               ELSE b \in Tramps /\ L[b] = L[k] - 1 /\ s.tramps[b].target = t
    /\ \A j, k \in Tramps :
         L[j] # 0 /\ L[j] = L[k] /\ s.tramps[j].target = s.tramps[k].target => j = k
    /\ \A t \in Targets : s.jumps[t] # Null =>
         /\ s.jumps[t] \in Tramps /\ L[s.jumps[t]] # 0
         /\ s.tramps[s.jumps[t]].target = t

(* A detour on a chain is that of an attached entry, whose variable holds  *)
(* its trampoline; the trampoline of an attached entry is on a chain; one  *)
(* that is to be freed is on none.                                         *)
Owned(s, attached, L) ==
    /\ \A k \in Tramps : L[k] # 0 /\ s.tramps[k].detour # Null =>
         \E p \in Positions(s) : /\ p \in attached /\ s.items[p].hook = s.tramps[k].detour
                                 /\ s.original[s.items[p].hook] = Trampoline(k)
    /\ \A p \in Positions(s) :
         LET own == s.original[s.items[p].hook].of
         IN /\ p \in attached => own \in Tramps /\ L[own] # 0
            /\ s.items[p].free # Null => L[s.items[p].free] = 0

Linked(s, attached) ==
    \E L \in [Tramps -> Nat] : Stacked(s, L) /\ Owned(s, attached, L)

(* What no call can run into: a trampoline that is not in use, or that an  *)
(* entry keeps to free it.                                                 *)
OffChain(s, k) == s.tramps[k] = NoTramp \/ \E p \in Positions(s) : s.items[p].free = k

(* From s to r the jumps and the trampolines that calls go through stay,   *)
(* and so do the entries that are attached, though perhaps elsewhere.      *)
SameOwner(s, p, r, q) ==
    /\ r.items[q].hook = s.items[p].hook
    /\ r.original[s.items[p].hook] = s.original[s.items[p].hook]
Follows(s, A, r, B) ==
    /\ r.jumps = s.jumps
    /\ \A k \in Tramps : OffChain(s, k) \/ r.tramps[k] = s.tramps[k]
    /\ \A p \in Positions(s) : p \in A =>
         \E q \in Positions(r) : q \in B /\ SameOwner(s, p, r, q)
    /\ \A q \in Positions(r) : q \in B =>
         \E p \in Positions(s) : p \in A /\ SameOwner(s, p, r, q)
    /\ \A q \in Positions(r) : r.items[q].free # Null =>
         \E p \in Positions(s) : s.items[p].free = r.items[q].free

(* What happens off the chains leaves them linked.                         *)
LEMMA StillLinked ==
    ASSUME NEW s, NEW A, Linked(s, A), NEW r, NEW B, Follows(s, A, r, B)
    PROVE  Linked(r, B)
<1>1. PICK L \in [Tramps -> Nat] : Stacked(s, L) /\ Owned(s, A, L)
  BY DEF Linked
<1>2. ASSUME NEW k \in Tramps, L[k] # 0 PROVE r.tramps[k] = s.tramps[k]
  <2>1. s.tramps[k].target # Null
    BY <1>1, <1>2, ArrayAssumption DEF Stacked
  <2>2. s.tramps[k] # NoTramp
    BY <2>1 DEF NoTramp
  <2>3. \A p \in Positions(s) : s.items[p].free # k
    BY <1>1, <1>2, ArrayAssumption DEF Owned
  <2>4. QED
    BY <2>2, <2>3 DEF Follows, OffChain
<1>3. r.jumps = s.jumps
  BY DEF Follows
<1>4. Stacked(r, L)
  <2>1. ASSUME NEW k \in Tramps, L[k] # 0
        PROVE  LET t == r.tramps[k].target
                   b == r.tramps[k].below
               IN /\ t \in Targets /\ r.jumps[t] # Null /\ L[k] <= L[r.jumps[t]]
                  /\ IF L[k] = 1 THEN b = Null
                     ELSE b \in Tramps /\ L[b] = L[k] - 1 /\ r.tramps[b].target = t
    <3> DEFINE t == s.tramps[k].target
               b == s.tramps[k].below
    <3>1. /\ t \in Targets /\ s.jumps[t] # Null /\ L[k] <= L[s.jumps[t]]
          /\ IF L[k] = 1 THEN b = Null
             ELSE b \in Tramps /\ L[b] = L[k] - 1 /\ s.tramps[b].target = t
      BY <1>1, <2>1 DEF Stacked
    <3>2. L[k] # 1 => L[b] # 0
      BY <2>1, <3>1
    <3>3. r.tramps[k] = s.tramps[k] /\ (L[k] # 1 => r.tramps[b] = s.tramps[b])
      BY <1>2, <2>1, <3>1, <3>2
    <3>4. QED
      BY <1>3, <3>1, <3>3
  <2>2. \A j, k \in Tramps :
            L[j] # 0 /\ L[j] = L[k] /\ r.tramps[j].target = r.tramps[k].target => j = k
    BY <1>1, <1>2 DEF Stacked
  <2>3. \A t \in Targets : r.jumps[t] # Null =>
            /\ r.jumps[t] \in Tramps /\ L[r.jumps[t]] # 0
            /\ r.tramps[r.jumps[t]].target = t
    BY <1>1, <1>2, <1>3 DEF Stacked
  <2>4. QED
    BY <2>1, <2>2, <2>3 DEF Stacked
<1>5. Owned(r, B, L)
  <2>1. ASSUME NEW k \in Tramps, L[k] # 0, r.tramps[k].detour # Null
        PROVE  \E q \in Positions(r) : /\ q \in B /\ r.items[q].hook = r.tramps[k].detour
                                       /\ r.original[r.items[q].hook] = Trampoline(k)
    <3>1. r.tramps[k] = s.tramps[k]
      BY <1>2, <2>1
    <3>2. PICK p \in Positions(s) : /\ p \in A /\ s.items[p].hook = s.tramps[k].detour
                                   /\ s.original[s.items[p].hook] = Trampoline(k)
      BY <1>1, <2>1, <3>1 DEF Owned
    <3>3. PICK q \in Positions(r) : q \in B /\ SameOwner(s, p, r, q)
      BY <3>2 DEF Follows
    <3>4. QED
      BY <3>1, <3>2, <3>3 DEF SameOwner
  <2>2. ASSUME NEW q \in Positions(r), q \in B
        PROVE  LET own == r.original[r.items[q].hook].of IN own \in Tramps /\ L[own] # 0
    <3>1. PICK p \in Positions(s) : p \in A /\ SameOwner(s, p, r, q)
      BY <2>2 DEF Follows
    <3>2. QED
      BY <1>1, <3>1 DEF Owned, SameOwner
  <2>3. ASSUME NEW q \in Positions(r), r.items[q].free # Null PROVE L[r.items[q].free] = 0
    <3>1. PICK p \in Positions(s) : s.items[p].free = r.items[q].free
      BY <2>3 DEF Follows
    <3>2. QED
      BY <1>1, <2>3, <3>1 DEF Owned
  <2>4. QED
    BY <2>1, <2>2, <2>3 DEF Owned
<1>6. QED
  BY <1>4, <1>5 DEF Linked

(* Between the same heap and one that differs in no chain and no entry, or *)
(* only in the set of positions that is named.                             *)
LEMMA AlsoLinked ==
    ASSUME NEW s, NEW A, Linked(s, A), NEW r, NEW B,
           r.jumps = s.jumps, r.tramps = s.tramps, Positions(r) = Positions(s),
           \A p \in Positions(s) : /\ p \in B <=> p \in A
                                   /\ SameOwner(s, p, r, p)
                                   /\ r.items[p].free = s.items[p].free
    PROVE  Linked(r, B)
<1>1. Follows(s, A, r, B)
  BY DEF Follows
<1>2. QED
  BY <1>1, StillLinked

(* The commit of an attach puts a trampoline that is on no chain above the *)
(* highest of its function.                                                *)
LEMMA AddLinked ==
    ASSUME NEW x, NEW B, Linked(x, B), NEW p \in Positions(x), p \notin B,
           NEW h, h = x.items[p].hook, h # Null, NEW t \in Targets,
           NEW k \in Tramps, x.tramps[k].detour = h, x.tramps[k].target = t,
           \A q \in Positions(x) :
               /\ x.items[q].hook \in Originals /\ (q # p => x.items[q].hook # h)
               /\ x.items[q].free \in Tramps \union {Null} /\ x.items[q].free # k,
           NEW r, Positions(r) = Positions(x), r.items = x.items,
           \A v \in Originals : r.original[v] = IF v = h THEN Trampoline(k) ELSE x.original[v],
           \A u \in Tramps : /\ u # k => r.tramps[u] = x.tramps[u]
                             /\ r.tramps[u].detour = x.tramps[u].detour
                             /\ r.tramps[u].target = x.tramps[u].target,
           r.tramps[k].below = x.jumps[t],
           \A u \in Targets : r.jumps[u] = IF u = t THEN k ELSE x.jumps[u]
    PROVE  Linked(r, B \union {p})
<1>1. PICK L \in [Tramps -> Nat] : Stacked(x, L) /\ Owned(x, B, L)
  BY DEF Linked
<1>2. L[k] = 0
  <2>1. SUFFICES ASSUME L[k] # 0 PROVE FALSE
    OBVIOUS
  <2>2. PICK q \in Positions(x) : q \in B /\ x.items[q].hook = h
    BY <1>1, <2>1 DEF Owned
  <2>3. QED
    BY <2>2
<1> DEFINE top == x.jumps[t]
           n == 1 + (IF top = Null THEN 0 ELSE L[top])
           M == [L EXCEPT ![k] = n]
<1>3. /\ k # Null
      /\ top # Null => top \in Tramps /\ L[top] # 0 /\ x.tramps[top].target = t /\ top # k
  BY <1>1, <1>2, ArrayAssumption DEF Stacked
<1>4. n \in Nat \ {0} /\ (n = 1 <=> top = Null) /\ (top # Null => n = L[top] + 1)
  BY <1>3
<1>5. M \in [Tramps -> Nat] /\ M[k] = n /\ \A u \in Tramps : u # k => M[u] = L[u]
  BY <1>4
<1> HIDE DEF n, M
<1>6. Stacked(r, M)
  <2>1. ASSUME NEW j \in Tramps, j # k, L[j] # 0
        PROVE  LET d == x.tramps[j].target
                   b == x.tramps[j].below
               IN /\ d \in Targets /\ r.jumps[d] # Null /\ L[j] <= M[r.jumps[d]]
                  /\ d = t => L[j] < n
                  /\ IF L[j] = 1 THEN b = Null
                     ELSE /\ b \in Tramps /\ M[b] = L[j] - 1 /\ r.tramps[b].target = d
    <3> DEFINE d == x.tramps[j].target
               b == x.tramps[j].below
    <3>1. /\ d \in Targets /\ x.jumps[d] # Null /\ L[j] <= L[x.jumps[d]]
          /\ x.jumps[d] \in Tramps /\ L[x.jumps[d]] # 0
          /\ IF L[j] = 1 THEN b = Null
             ELSE b \in Tramps /\ L[b] = L[j] - 1 /\ x.tramps[b].target = d
      BY <1>1, <2>1 DEF Stacked
    <3>2. L[j] \in Nat
      BY <1>1
    <3>3. CASE d = t
      <4>1. top # Null /\ L[j] <= L[top] /\ L[top] \in Nat
        BY <1>1, <3>1, <3>3
      <4>2. L[j] < n /\ r.jumps[d] = k
        BY <1>4, <3>2, <3>3, <4>1
      <4>3. L[j] <= n
        BY <1>4, <3>2, <4>2
      <4>4. r.jumps[d] # Null /\ L[j] <= M[r.jumps[d]]
        BY <1>3, <1>5, <4>2, <4>3
      <4>5. L[j] # 1 => b \in Tramps /\ M[b] = L[j] - 1 /\ r.tramps[b].target = d
        <5>1. L[j] # 1 => b \in Tramps /\ b # k /\ L[b] = L[j] - 1
          BY <1>2, <2>1, <3>1, <3>2
        <5>2. QED
          BY <1>5, <3>1, <5>1
      <4>6. QED
        BY <3>1, <4>2, <4>4, <4>5
    <3>4. CASE d # t
      <4>1. r.jumps[d] = x.jumps[d] /\ x.jumps[d] # k
        BY <1>2, <3>1, <3>4
      <4>2. L[j] # 1 => b \in Tramps /\ M[b] = L[j] - 1 /\ r.tramps[b].target = d
        <5>1. L[j] # 1 => b \in Tramps /\ b # k /\ L[b] = L[j] - 1
          BY <1>2, <2>1, <3>1, <3>2
        <5>2. QED
          BY <1>5, <3>1, <5>1
      <4>3. M[r.jumps[d]] = L[x.jumps[d]]
        BY <1>5, <3>1, <4>1
      <4>4. QED
        BY <3>1, <3>4, <4>1, <4>2, <4>3
    <3>5. QED
      BY <3>3, <3>4
  <2>2. ASSUME NEW j \in Tramps, M[j] # 0
        PROVE  LET d == r.tramps[j].target
                   b == r.tramps[j].below
               IN /\ d \in Targets /\ r.jumps[d] # Null /\ M[j] <= M[r.jumps[d]]
                  /\ IF M[j] = 1 THEN b = Null
                     ELSE b \in Tramps /\ M[b] = M[j] - 1 /\ r.tramps[b].target = d
    <3>1. CASE j # k
      <4>1. r.tramps[j] = x.tramps[j] /\ M[j] = L[j] /\ L[j] # 0
        BY <1>5, <2>2, <3>1
      <4>2. QED
        BY <2>1, <3>1, <4>1
    <3>2. CASE j = k
      <4>1. r.tramps[k].target = t /\ r.jumps[t] = k /\ r.tramps[k].below = top
        OBVIOUS
      <4>2. n <= n
        BY <1>4
      <4>3. top # Null => r.tramps[top].target = t /\ M[top] = n - 1
        <5>1. top # Null => M[top] = L[top] /\ r.tramps[top].target = t /\ L[top] \in Nat
          BY <1>1, <1>3, <1>5
        <5>2. QED
          BY <1>4, <5>1
      <4>4. QED
        BY <1>3, <1>4, <1>5, <3>2, <4>1, <4>2, <4>3
    <3>3. QED
      BY <3>1, <3>2
  <2>3. ASSUME NEW i \in Tramps, NEW j \in Tramps, M[i] # 0, M[i] = M[j],
               r.tramps[i].target = r.tramps[j].target
        PROVE  i = j
    <3>1. \A u \in Tramps : u # k /\ L[u] # 0 /\ x.tramps[u].target = t => L[u] < n
      BY <2>1
    <3>2. \A u \in Tramps : u # k /\ M[u] # 0 /\ r.tramps[u].target = t => M[u] # n
      BY <1>1, <1>4, <1>5, <3>1
    <3>3. r.tramps[k].target = t
      OBVIOUS
    <3>4. CASE i = k \/ j = k
      BY <1>5, <2>3, <3>2, <3>3, <3>4
    <3>5. CASE i # k /\ j # k
      <4>1. L[i] # 0 /\ L[i] = L[j] /\ x.tramps[i].target = x.tramps[j].target
        BY <1>5, <2>3, <3>5
      <4>2. QED
        BY <1>1, <4>1 DEF Stacked
    <3>6. QED
      BY <3>4, <3>5
  <2>4. ASSUME NEW u \in Targets, r.jumps[u] # Null
        PROVE  /\ r.jumps[u] \in Tramps /\ M[r.jumps[u]] # 0
               /\ r.tramps[r.jumps[u]].target = u
    <3>1. CASE u = t
      BY <1>4, <1>5, <3>1
    <3>2. CASE u # t
      <4>1. /\ r.jumps[u] = x.jumps[u] /\ x.jumps[u] \in Tramps /\ L[x.jumps[u]] # 0
            /\ x.tramps[x.jumps[u]].target = u
        BY <1>1, <2>4, <3>2 DEF Stacked
      <4>2. QED
        BY <1>2, <1>5, <4>1
    <3>3. QED
      BY <3>1, <3>2
  <2>5. QED
    BY <2>2, <2>3, <2>4 DEF Stacked
<1>7. Owned(r, B \union {p}, M)
  <2>1. ASSUME NEW j \in Tramps, M[j] # 0, r.tramps[j].detour # Null
        PROVE  \E q \in Positions(r) :
                 /\ q \in B \union {p} /\ r.items[q].hook = r.tramps[j].detour
                 /\ r.original[r.items[q].hook] = Trampoline(j)
    <3>1. CASE j = k
      BY <3>1
    <3>2. CASE j # k
      <4>1. L[j] # 0 /\ x.tramps[j].detour # Null /\ r.tramps[j].detour = x.tramps[j].detour
        BY <1>5, <2>1, <3>2
      <4>2. PICK q \in Positions(x) : /\ q \in B /\ x.items[q].hook = x.tramps[j].detour
                                      /\ x.original[x.items[q].hook] = Trampoline(j)
        BY <1>1, <4>1 DEF Owned
      <4>3. q # p
        BY <4>2
      <4>4. r.original[x.items[q].hook] = Trampoline(j)
        BY <4>2, <4>3
      <4>5. QED
        BY <4>1, <4>2, <4>4
    <3>3. QED
      BY <3>1, <3>2
  <2>2. ASSUME NEW q \in Positions(r), q \in B \union {p}
        PROVE  LET own == r.original[r.items[q].hook].of IN own \in Tramps /\ M[own] # 0
    <3>1. CASE q = p
      <4>1. r.original[r.items[q].hook] = Trampoline(k)
        BY <3>1
      <4>2. QED
        BY <1>4, <1>5, <4>1 DEF Trampoline
    <3>2. CASE q # p
      <4>1. r.original[r.items[q].hook] = x.original[x.items[q].hook]
        BY <3>2
      <4>2. LET own == x.original[x.items[q].hook].of IN own \in Tramps /\ L[own] # 0
        BY <1>1, <2>2, <3>2 DEF Owned
      <4>3. QED
        BY <1>2, <1>5, <4>1, <4>2
    <3>3. QED
      BY <3>1, <3>2
  <2>3. ASSUME NEW q \in Positions(r), r.items[q].free # Null PROVE M[r.items[q].free] = 0
    <3>1. /\ r.items[q].free \in Tramps /\ r.items[q].free # k
          /\ L[r.items[q].free] = 0
      BY <1>1, <2>3 DEF Owned
    <3>2. QED
      BY <1>5, <3>1
  <2>4. QED
    BY <2>1, <2>2, <2>3 DEF Owned
<1>8. QED
  BY <1>5, <1>6, <1>7 DEF Linked

(* Only the jumps and where the trampolines lead matter to the levels.     *)
LEMMA StackedSame ==
    ASSUME NEW s, NEW L, Stacked(s, L), NEW r,
           \A u \in Tramps : /\ r.tramps[u].target = s.tramps[u].target
                             /\ r.tramps[u].below = s.tramps[u].below,
           \A u \in Targets : r.jumps[u] = s.jumps[u]
    PROVE  Stacked(r, L)
<1>1. ASSUME NEW k \in Tramps, L[k] # 0
      PROVE  LET t == r.tramps[k].target
                 b == r.tramps[k].below
             IN /\ t \in Targets /\ r.jumps[t] # Null /\ L[k] <= L[r.jumps[t]]
                /\ IF L[k] = 1 THEN b = Null
                   ELSE b \in Tramps /\ L[b] = L[k] - 1 /\ r.tramps[b].target = t
  <2> DEFINE t == s.tramps[k].target
             b == s.tramps[k].below
  <2>1. /\ t \in Targets /\ s.jumps[t] # Null /\ L[k] <= L[s.jumps[t]]
        /\ IF L[k] = 1 THEN b = Null
           ELSE b \in Tramps /\ L[b] = L[k] - 1 /\ s.tramps[b].target = t
    BY <1>1 DEF Stacked
  <2>2. /\ r.tramps[k].target = t /\ r.tramps[k].below = b /\ r.jumps[t] = s.jumps[t]
        /\ L[k] # 1 => r.tramps[b].target = s.tramps[b].target
    BY <2>1
  <2>3. QED
    BY <2>1, <2>2
<1>2. \A j, k \in Tramps :
          L[j] # 0 /\ L[j] = L[k] /\ r.tramps[j].target = r.tramps[k].target => j = k
  BY DEF Stacked
<1>3. \A t \in Targets : r.jumps[t] # Null =>
          /\ r.jumps[t] \in Tramps /\ L[r.jumps[t]] # 0
          /\ r.tramps[r.jumps[t]].target = t
  BY DEF Stacked
<1>4. QED
  BY <1>1, <1>2, <1>3 DEF Stacked

(* The highest trampoline of a function is the one that can be taken off.  *)
LEMMA TopStacked ==
    ASSUME NEW x, NEW L \in [Tramps -> Nat], Stacked(x, L), NEW t \in Targets,
           NEW k \in Tramps, L[k] # 0, x.tramps[k].target = t, x.jumps[t] = k,
           NEW r, NEW M \in [Tramps -> Nat],
           \A u \in Tramps : M[u] = IF u = k THEN 0 ELSE L[u],
           \A u \in Tramps : /\ r.tramps[u].target = x.tramps[u].target
                             /\ r.tramps[u].below = x.tramps[u].below,
           \A u \in Targets : r.jumps[u] = IF u = t THEN x.tramps[k].below ELSE x.jumps[u]
    PROVE  Stacked(r, M)
<1> DEFINE under == x.tramps[k].below
<1>1. /\ L[k] = 1 => under = Null
      /\ L[k] # 1 => /\ under \in Tramps /\ L[under] = L[k] - 1 /\ under # k
                     /\ x.tramps[under].target = t
  <2>1. /\ IF L[k] = 1 THEN under = Null
           ELSE under \in Tramps /\ L[under] = L[k] - 1 /\ x.tramps[under].target = t
    BY DEF Stacked
  <2>2. L[k] # L[k] - 1
    OBVIOUS
  <2>3. QED
    BY <2>1, <2>2
<1>2. ASSUME NEW j \in Tramps, j # k, L[j] # 0
      PROVE  LET d == x.tramps[j].target
                 b == x.tramps[j].below
             IN /\ d \in Targets /\ x.jumps[d] # Null /\ L[j] <= L[x.jumps[d]]
                /\ d = t => L[j] < L[k] /\ L[k] # 1
                /\ IF L[j] = 1 THEN b = Null
                   ELSE b \in Tramps /\ b # k /\ L[b] = L[j] - 1 /\ x.tramps[b].target = d
  <2> DEFINE d == x.tramps[j].target
             b == x.tramps[j].below
  <2>1. /\ d \in Targets /\ x.jumps[d] # Null /\ L[j] <= L[x.jumps[d]]
        /\ IF L[j] = 1 THEN b = Null
           ELSE b \in Tramps /\ L[b] = L[j] - 1 /\ x.tramps[b].target = d
        /\ L[j] = L[k] /\ d = t => j = k
    BY <1>2 DEF Stacked
  <2>2. L[j] \in Nat /\ L[k] \in Nat
    OBVIOUS
  <2>3. d = t => L[j] < L[k] /\ L[k] # 1
    <3>1. d = t => L[j] # L[k] /\ L[j] <= L[k] /\ L[j] # 0
      BY <1>2, <2>1
    <3> HIDE DEF d
    <3>2. QED
      BY <2>2, <3>1
  <2>4. L[j] # 1 => b # k
    <3>1. ASSUME L[j] # 1, b = k PROVE FALSE
      <4>1. d = t /\ L[k] = L[j] - 1
        BY <2>1, <3>1
      <4>2. QED
        BY <2>2, <2>3, <4>1
    <3>2. QED
      BY <3>1
  <2>5. QED
    BY <2>1, <2>3, <2>4
<1>3. ASSUME NEW j \in Tramps, M[j] # 0
      PROVE  LET d == r.tramps[j].target
                 b == r.tramps[j].below
             IN /\ d \in Targets /\ r.jumps[d] # Null /\ M[j] <= M[r.jumps[d]]
                /\ IF M[j] = 1 THEN b = Null
                   ELSE b \in Tramps /\ M[b] = M[j] - 1 /\ r.tramps[b].target = d
  <2> DEFINE d == x.tramps[j].target
             b == x.tramps[j].below
  <2>1. j # k /\ M[j] = L[j] /\ L[j] # 0 /\ L[j] \in Nat /\ L[k] \in Nat
    BY <1>3
  <2>2. /\ d \in Targets /\ x.jumps[d] # Null /\ L[j] <= L[x.jumps[d]]
        /\ d = t => L[j] < L[k] /\ L[k] # 1
        /\ IF L[j] = 1 THEN b = Null
           ELSE b \in Tramps /\ b # k /\ L[b] = L[j] - 1 /\ x.tramps[b].target = d
    BY <1>2, <2>1
  <2>3. r.jumps[d] # Null /\ L[j] <= M[r.jumps[d]]
    <3>1. CASE d = t
      <4>1. under \in Tramps /\ under # k /\ L[under] = L[k] - 1 /\ L[j] < L[k]
        BY <1>1, <2>2, <3>1
      <4>2. r.jumps[d] = under /\ M[under] = L[under]
        BY <3>1, <4>1
      <4>3. L[j] <= L[k] - 1
        BY <2>1, <4>1
      <4>4. under # Null
        BY <4>1, ArrayAssumption
      <4>5. QED
        BY <4>1, <4>2, <4>3, <4>4
    <3>2. CASE d # t
      <4>1. x.jumps[d] \in Tramps /\ x.tramps[x.jumps[d]].target = d
        BY <2>2 DEF Stacked
      <4>2. x.jumps[d] # k
        BY <3>2, <4>1
      <4>3. r.jumps[d] = x.jumps[d] /\ M[x.jumps[d]] = L[x.jumps[d]]
        BY <2>2, <3>2, <4>1, <4>2
      <4>4. QED
        BY <2>2, <4>3
    <3>3. QED
      BY <3>1, <3>2
  <2>4. r.tramps[j].target = d /\ r.tramps[j].below = b
    OBVIOUS
  <2>5. L[j] # 1 => b \in Tramps /\ M[b] = M[j] - 1 /\ r.tramps[b].target = d
    BY <2>1, <2>2
  <2> HIDE DEF d, b
  <2>6. QED
    BY <2>1, <2>2, <2>3, <2>4, <2>5
<1>4. ASSUME NEW i \in Tramps, NEW j \in Tramps, M[i] # 0, M[i] = M[j],
             r.tramps[i].target = r.tramps[j].target
      PROVE  i = j
  <2>1. L[i] # 0 /\ L[i] = L[j] /\ x.tramps[i].target = x.tramps[j].target
    BY <1>4
  <2>2. QED
    BY <2>1 DEF Stacked
<1>5. ASSUME NEW u \in Targets, r.jumps[u] # Null
      PROVE  /\ r.jumps[u] \in Tramps /\ M[r.jumps[u]] # 0
             /\ r.tramps[r.jumps[u]].target = u
  <2>1. CASE u = t
    <3>1. r.jumps[u] = under
      BY <2>1
    <3>2. L[k] \in Nat /\ L[k] # 1
      BY <1>1, <1>5, <3>1
    <3>3. under \in Tramps /\ under # k /\ x.tramps[under].target = t /\ L[under] # 0
      BY <1>1, <3>2
    <3>4. QED
      BY <2>1, <3>1, <3>3
  <2>2. CASE u # t
    <3>1. /\ r.jumps[u] = x.jumps[u] /\ x.jumps[u] \in Tramps /\ L[x.jumps[u]] # 0
          /\ x.tramps[x.jumps[u]].target = u
      BY <1>5, <2>2 DEF Stacked
    <3>2. x.jumps[u] # k
      BY <2>2, <3>1
    <3>3. QED
      BY <3>1, <3>2
  <2>3. QED
    BY <2>1, <2>2
<1>6. QED
  BY <1>3, <1>4, <1>5 DEF Stacked

(* r is x with the trampoline k, that of the hook h of t at p, in bypass   *)
(* mode, and off its chain when it is the highest of it.                   *)
Removes(x, p, h, t, k, r) ==
    /\ h = x.items[p].hook /\ x.original[h] = Trampoline(k)
    /\ x.tramps[k].detour = h /\ x.tramps[k].target = t
    /\ Positions(r) = Positions(x)
    /\ \A q \in Positions(x) :
         /\ r.items[q].hook = x.items[q].hook
         /\ r.items[q].free = IF q = p /\ x.jumps[t] = k THEN k ELSE x.items[q].free
    /\ \A v \in Originals : v # h => r.original[v] = x.original[v]
    /\ \A u \in Tramps : u # k => r.tramps[u] = x.tramps[u]
    /\ r.tramps[k].detour = Null /\ r.tramps[k].target = t
    /\ r.tramps[k].below = x.tramps[k].below
    /\ \A u \in Targets : r.jumps[u] = IF u = t /\ x.jumps[t] = k THEN x.tramps[k].below
                                       ELSE x.jumps[u]

(* The commit of a detach takes a trampoline off its chain when it is the  *)
(* highest of it; otherwise it stays there, with no detour.                *)
LEMMA RemoveLinked ==
    ASSUME NEW x, NEW B, Linked(x, B), NEW p \in Positions(x), p \in B,
           NEW h, NEW t \in Targets, NEW k \in Tramps,
           \A q \in Positions(x) :
               /\ x.items[q].hook \in Originals /\ (q # p => x.items[q].hook # h)
               /\ x.items[q].free \in Tramps \union {Null}
               /\ q \in B => x.tramps[x.original[x.items[q].hook].of].detour = x.items[q].hook,
           NEW r, Removes(x, p, h, t, k, r)
    PROVE  Linked(r, B \ {p})
<1>1. /\ h = x.items[p].hook /\ x.original[h] = Trampoline(k)
      /\ x.tramps[k].detour = h /\ x.tramps[k].target = t /\ Positions(r) = Positions(x)
  BY DEF Removes
<1>2. /\ \A q \in Positions(x) :
           /\ r.items[q].hook = x.items[q].hook
           /\ r.items[q].free = IF q = p /\ x.jumps[t] = k THEN k ELSE x.items[q].free
      /\ \A v \in Originals : v # h => r.original[v] = x.original[v]
  BY DEF Removes
<1>3. /\ \A u \in Tramps : u # k => r.tramps[u] = x.tramps[u]
      /\ r.tramps[k].detour = Null /\ r.tramps[k].target = t
      /\ r.tramps[k].below = x.tramps[k].below
      /\ \A u \in Targets : r.jumps[u] = IF u = t /\ x.jumps[t] = k THEN x.tramps[k].below
                                         ELSE x.jumps[u]
  BY DEF Removes
<1>4. PICK L \in [Tramps -> Nat] : Stacked(x, L) /\ Owned(x, B, L)
  BY DEF Linked
<1>5. L[k] # 0
  <2>1. Trampoline(k).of = k
    BY DEF Trampoline
  <2>2. x.original[x.items[p].hook].of = k
    BY <1>1, <2>1
  <2>3. L[x.original[x.items[p].hook].of] # 0
    BY <1>4 DEF Owned
  <2>4. QED
    BY <2>2, <2>3
<1>6. \A u \in Tramps : r.tramps[u].target = x.tramps[u].target /\ r.tramps[u].below = x.tramps[u].below
  BY <1>1, <1>3
<1>7. PICK M \in [Tramps -> Nat] :
          \A u \in Tramps : M[u] = IF u = k /\ x.jumps[t] = k THEN 0 ELSE L[u]
  <2>1. WITNESS [u \in Tramps |-> IF u = k /\ x.jumps[t] = k THEN 0 ELSE L[u]] \in [Tramps -> Nat]
  <2>2. QED
    OBVIOUS
<1>8. Stacked(r, M)
  <2>1. CASE x.jumps[t] # k
    <3>1. M = L
      BY <1>7, <2>1
    <3>2. \A u \in Targets : r.jumps[u] = x.jumps[u]
      BY <1>3, <2>1
    <3>3. QED
      BY <1>4, <1>6, <3>1, <3>2, StackedSame
  <2>2. CASE x.jumps[t] = k
    <3>1. \A u \in Tramps : M[u] = IF u = k THEN 0 ELSE L[u]
      BY <1>7, <2>2
    <3>2. \A u \in Targets : r.jumps[u] = IF u = t THEN x.tramps[k].below ELSE x.jumps[u]
      BY <1>3, <2>2
    <3>3. QED
      <4>1. Stacked(x, L) /\ x.tramps[k].target = t
        BY <1>1, <1>4
      <4>2. QED
        BY SMTT(30), <1>5, <1>6, <2>2, <3>1, <3>2, <4>1, TopStacked
  <2>3. QED
    BY <2>1, <2>2
<1>9. Owned(r, B \ {p}, M)
  <2>1. ASSUME NEW j \in Tramps, M[j] # 0, r.tramps[j].detour # Null
        PROVE  \E q \in Positions(r) :
                 /\ q \in B \ {p} /\ r.items[q].hook = r.tramps[j].detour
                 /\ r.original[r.items[q].hook] = Trampoline(j)
    <3>1. j # k
      BY <1>3, <2>1
    <3>2. L[j] # 0 /\ r.tramps[j] = x.tramps[j]
      BY <1>3, <1>7, <2>1, <3>1
    <3>3. PICK q \in Positions(x) : /\ q \in B /\ x.items[q].hook = x.tramps[j].detour
                                    /\ x.original[x.items[q].hook] = Trampoline(j)
      BY <1>4, <2>1, <3>2 DEF Owned
    <3>4. q # p
      <4>1. Trampoline(j).of = j /\ Trampoline(k).of = k
        BY DEF Trampoline
      <4>2. q = p => Trampoline(j) = Trampoline(k)
        BY <1>1, <3>3
      <4>3. QED
        BY <3>1, <4>1, <4>2
    <3>5. r.original[x.items[q].hook] = Trampoline(j)
      BY <1>2, <3>3, <3>4
    <3>6. QED
      BY <1>1, <1>2, <3>2, <3>3, <3>4, <3>5
  <2>2. ASSUME NEW q \in Positions(r), q \in B \ {p}
        PROVE  LET own == r.original[r.items[q].hook].of IN own \in Tramps /\ M[own] # 0
    <3> DEFINE own == x.original[x.items[q].hook].of
    <3>1. r.items[q].hook = x.items[q].hook /\ x.items[q].hook # h
      BY <1>1, <1>2, <2>2
    <3>2. r.original[x.items[q].hook] = x.original[x.items[q].hook]
      BY <1>1, <1>2, <2>2, <3>1
    <3>3. own \in Tramps /\ L[own] # 0 /\ x.tramps[own].detour = x.items[q].hook
      BY <1>1, <1>4, <2>2 DEF Owned
    <3>4. M[own] = L[own]
      <4>1. own # k
        BY <1>1, <3>1, <3>3
      <4>2. QED
        BY <1>7, <3>3, <4>1
    <3>5. QED
      BY <3>1, <3>2, <3>3, <3>4
  <2>3. ASSUME NEW q \in Positions(r), r.items[q].free # Null PROVE M[r.items[q].free] = 0
    <3>1. CASE q = p /\ x.jumps[t] = k
      BY <1>1, <1>2, <1>7, <3>1
    <3>2. CASE ~(q = p /\ x.jumps[t] = k)
      <4>1. r.items[q].free = x.items[q].free /\ x.items[q].free \in Tramps
        BY <1>1, <1>2, <2>3, <3>2
      <4>2. L[x.items[q].free] = 0
        BY <1>1, <1>4, <2>3, <4>1 DEF Owned
      <4>3. QED
        BY <1>7, <4>1, <4>2
    <3>3. QED
      BY <3>1, <3>2
  <2>4. QED
    BY <2>1, <2>2, <2>3 DEF Owned
<1>10. QED
  BY <1>8, <1>9 DEF Linked

------------------------------------------------------------------------------
(* Calls.                                                                  *)

(* There is a trampoline at every level up to that of a trampoline, so no  *)
(* chain is longer than there are trampolines.                             *)
LEMMA LevelBound ==
    ASSUME NEW s, NEW L \in [Tramps -> Nat], Stacked(s, L), NEW k \in Tramps
    PROVE  Cardinality(Tramps) \in Nat /\ L[k] <= Cardinality(Tramps)
<1> DEFINE Filled(m) == \A i \in 1..m : \E u \in Tramps : L[u] = i
           S == {m \in Nat : \A j \in Tramps : L[j] = m => Filled(m)}
<1>1. 0 \in S
  OBVIOUS
<1>2. ASSUME NEW m \in Nat, m \in S PROVE m + 1 \in S
  <2>1. SUFFICES ASSUME NEW j \in Tramps, L[j] = m + 1 PROVE Filled(m + 1)
    OBVIOUS
  <2>2. m # 0 => \E b \in Tramps : L[b] = m
    <3>1. L[j] # 0 /\ (m # 0 => L[j] # 1) /\ L[j] - 1 = m
      BY <2>1
    <3>2. QED
      BY <3>1 DEF Stacked
  <2>3. \A i \in 1..m : \E u \in Tramps : L[u] = i
    BY <1>2, <2>2
  <2>4. \A i \in 1..(m + 1) : i = m + 1 \/ i \in 1..m
    OBVIOUS
  <2>5. QED
    BY <2>1, <2>3, <2>4
<1>3. L[k] \in Nat /\ Filled(L[k])
  <2> HIDE DEF S
  <2>1. Nat \subseteq S
    BY <1>1, <1>2, SetInduction
  <2>2. QED
    BY <2>1 DEF S
<1> DEFINE f == [i \in 1..L[k] |-> CHOOSE u \in Tramps : L[u] = i]
<1>4. \A i \in 1..L[k] : f[i] \in Tramps /\ L[f[i]] = i
  BY <1>3
<1>5. f \in Injection(1..L[k], Tramps)
  <2>1. f \in [1..L[k] -> Tramps]
    BY <1>4
  <2>2. \A i, j \in 1..L[k] : f[i] = f[j] => i = j
    BY <1>4
  <2> HIDE DEF f
  <2>3. QED
    BY <2>1, <2>2 DEF Injection, IsInjective
<1>6. Cardinality(1..L[k]) <= Cardinality(Tramps)
  BY <1>5, MemoryAssumption, FS_Injection
<1>7. Cardinality(1..L[k]) = L[k]
  <2>1. 1 \in Int /\ L[k] \in Int /\ (1 > L[k] <=> L[k] = 0)
    BY <1>3
  <2>2. Cardinality(1..L[k]) = IF 1 > L[k] THEN 0 ELSE L[k] - 1 + 1
    BY <2>1, FS_Interval
  <2>3. QED
    BY <1>3, <2>1, <2>2
<1>8. QED
  BY <1>6, <1>7, MemoryAssumption, FS_CardinalityType

(* What k leads on to.                                                     *)
Below(k) == IF Passable(k) THEN heap.tramps[k].below ELSE k
Places == Tramps \union {Null}

(* A call goes from trampoline to trampoline.                              *)
LEMMA PathIs ==
    ASSUME heap.tramps \in [Tramps -> TrampStates], NEW start \in Places
    PROVE  LET N == Cardinality(Tramps)
               P == Path(start)
           IN /\ N \in Nat /\ P[1] = start
              /\ \A n \in 1..(N + 1) : P[n] \in Places
              /\ \A n \in 1..N : P[n + 1] = Below(P[n])
<1> DEFINE N == Cardinality(Tramps)
           T == [i \in 0..N |-> Places]
           f == [i \in 1..N |-> [k \in Places |-> Below(k)]]
<1>1. N \in Nat
  BY MemoryAssumption, FS_CardinalityType
<1>2. \A k \in Places : Below(k) \in Places
  BY DEF Below, Places, Passable, TrampStates
<1>3. PICK g : Rounds(g, N, f, start) /\ \A i \in 0..N : g[i] \in T[i]
  <2>1. start \in T[0] /\ \A i \in 1..N : \A k \in T[i-1] : f[i][k] \in T[i]
    BY <1>1, <1>2
  <2> HIDE DEF N, T, f
  <2>2. QED
    BY <1>1, <2>1, LoopExists
<1> DEFINE at == CHOOSE at : at = [n \in 0..N |-> IF n = 0 THEN start
                                                   ELSE IF Passable(at[n-1])
                                                   THEN heap.tramps[at[n-1]].below
                                                   ELSE at[n-1]]
<1>4. at = [n \in 0..N |-> IF n = 0 THEN start
                           ELSE IF Passable(at[n-1]) THEN heap.tramps[at[n-1]].below
                           ELSE at[n-1]]
  <2>1. \A i \in 1..N : g[i] = Below(g[i-1])
    <3>1. ASSUME NEW i \in 1..N PROVE g[i] = Below(g[i-1])
      <4>1. g[i] = f[i][g[i-1]] /\ g[i-1] \in T[i-1] /\ i - 1 \in 0..N
        <5> HIDE DEF f, N, T
        <5>1. QED
          BY <1>1, <1>3, Numbers DEF Rounds
      <4>2. QED
        BY <4>1
    <3>2. QED
      BY <3>1
  <2>2. g = [n \in 0..N |-> IF n = 0 THEN start
                            ELSE IF Passable(g[n-1]) THEN heap.tramps[g[n-1]].below
                            ELSE g[n-1]]
    <3> HIDE DEF N
    <3>1. \A n \in 0..N : g[n] = IF n = 0 THEN start
                                 ELSE IF Passable(g[n-1]) THEN heap.tramps[g[n-1]].below
                                 ELSE g[n-1]
      BY <1>1, <1>3, <2>1, Numbers DEF Rounds, Below
    <3>2. QED
      BY <1>3, <3>1 DEF Rounds
  <2>3. QED
    BY <2>2
<1>5. at[0] = start /\ \A n \in 1..N : at[n] = Below(at[n-1])
  <2> HIDE DEF at
  <2>1. QED
    BY <1>1, <1>4 DEF Below
<1>6. Path(start) = [n \in 1..(N + 1) |-> at[n-1]]
  BY DEF Path
<1> HIDE DEF at
<1>7. \A n \in 0..N : at[n] \in Places
  <2>1. at[0] \in T[0] /\ \A i \in 1..N : at[i-1] \in T[i-1] => at[i] \in T[i]
    BY <1>1, <1>2, <1>5
  <2>2. \A i \in 0..N : at[i] \in T[i]
    <3> HIDE DEF T, N
    <3>1. QED
      BY <1>1, <2>1, LoopStays
  <2>3. QED
    BY <2>2
<1> HIDE DEF N
<1>8. \A n \in 1..(N + 1) : n - 1 \in 0..N /\ Path(start)[n] = at[n-1]
  BY <1>1, <1>6
<1>9. Path(start)[1] = start
  BY <1>1, <1>5, <1>8
<1>10. ASSUME NEW n \in 1..N PROVE Path(start)[n + 1] = Below(Path(start)[n])
  <2>1. n \in 1..(N + 1) /\ n + 1 \in 1..(N + 1) /\ (n + 1) - 1 = n
    BY <1>1
  <2>2. QED
    BY <1>5, <1>8, <2>1
<1>11. \A n \in 1..(N + 1) : Path(start)[n] \in Places
  BY <1>7, <1>8
<1>12. QED
  BY <1>1, <1>9, <1>10, <1>11 DEF N

(* A place on the chain of t, its end included, and how high it is.        *)
OnChain(L, t, k) ==
    k = Null \/ (k \in Tramps /\ L[k] # 0 /\ heap.tramps[k].target = t)
Level(L, k) == IF k = Null THEN 0 ELSE L[k]
Left(m, n) == IF n <= m THEN m - n ELSE 0

(* On a chain, a level is a place.                                         *)
LEMMA SamePlace ==
    ASSUME NEW L, Stacked(heap, L), NEW t, NEW j, NEW k, OnChain(L, t, j), OnChain(L, t, k),
           Level(L, j) = Level(L, k)
    PROVE  j = k
BY DEF Stacked, OnChain, Level

(* Below a place of a chain is the next lower one.                         *)
LEMMA OneDown ==
    ASSUME NEW L \in [Tramps -> Nat], Stacked(heap, L), NEW t, NEW k, OnChain(L, t, k)
    PROVE  /\ OnChain(L, t, Below(k)) /\ Level(L, k) \in Nat
           /\ Level(L, Below(k)) = Left(Level(L, k), 1)
           /\ k # Null => Passable(k)
<1>1. CASE k = Null
  BY <1>1, ArrayAssumption DEF OnChain, Level, Left, Below, Passable
<1>2. CASE k # Null
  <2>1. k \in Tramps /\ L[k] # 0 /\ heap.tramps[k].target = t /\ L[k] \in Nat
    BY <1>2 DEF OnChain
  <2> DEFINE b == heap.tramps[k].below
  <2>2. /\ t \in Targets
        /\ IF L[k] = 1 THEN b = Null
           ELSE b \in Tramps /\ L[b] = L[k] - 1 /\ heap.tramps[b].target = t
    BY <2>1 DEF Stacked
  <2>3. Passable(k)
    <3>1. heap.tramps[k] # NoTramp
      BY <2>1, <2>2, ArrayAssumption DEF NoTramp
    <3>2. QED
      BY <2>1, <3>1 DEF Passable, Unused
  <2>4. Below(k) = b
    BY <2>3 DEF Below
  <2>5. CASE L[k] = 1
    BY <1>2, <2>1, <2>2, <2>3, <2>4, <2>5 DEF OnChain, Level, Left
  <2>6. CASE L[k] # 1
    <3>1. b \in Tramps /\ L[b] = L[k] - 1 /\ L[b] # 0 /\ b # Null /\ 1 <= L[k]
      BY <2>1, <2>2, <2>6, ArrayAssumption
    <3>2. QED
      BY <1>2, <2>1, <2>2, <2>3, <2>4, <3>1 DEF OnChain, Level, Left
  <2>7. QED
    BY <2>5, <2>6
<1>3. QED
  BY <1>1, <1>2

(* A call that starts on a chain stays on it, one level lower at a time.   *)
LEMMA Walk ==
    ASSUME heap.tramps \in [Tramps -> TrampStates],
           NEW L \in [Tramps -> Nat], Stacked(heap, L), NEW t, NEW start, OnChain(L, t, start)
    PROVE  \A n \in 1..(Cardinality(Tramps) + 1) :
             /\ OnChain(L, t, Path(start)[n])
             /\ Level(L, Path(start)[n]) = Left(Level(L, start), n - 1)
<1> DEFINE N == Cardinality(Tramps)
           P == Path(start)
           At(n) == OnChain(L, t, P[n]) /\ Level(L, P[n]) = Left(Level(L, start), n - 1)
           S == {n \in Nat : n <= N => At(n + 1)}
<1>1. /\ N \in Nat /\ P[1] = start /\ Level(L, start) \in Nat
      /\ \A n \in 1..N : P[n + 1] = Below(P[n])
  BY PathIs, OneDown DEF OnChain, Places
<1> HIDE DEF N, P
<1>2. 0 \in S
  <2>1. Left(Level(L, start), 0) = Level(L, start) /\ 0 + 1 = 1 /\ 1 - 1 = 0
    BY <1>1 DEF Left
  <2>2. QED
    BY <1>1, <2>1
<1>3. ASSUME NEW n \in Nat, n \in S PROVE n + 1 \in S
  <2>1. SUFFICES ASSUME n + 1 <= N PROVE At((n + 1) + 1)
    OBVIOUS
  <2>2. PICK m \in 1..N : m = n + 1
    BY <2>1
  <2>3. At(m)
    BY <1>1, <1>3, <2>1, <2>2
  <2>4. P[m + 1] = Below(P[m])
    BY <1>1
  <2>5. OnChain(L, t, P[m + 1]) /\ Level(L, P[m + 1]) = Left(Level(L, P[m]), 1)
    BY <2>3, <2>4, OneDown
  <2>6. Left(Left(Level(L, start), m - 1), 1) = Left(Level(L, start), m)
    BY <1>1 DEF Left
  <2>7. At(m + 1)
    <3>1. (m + 1) - 1 = m
      OBVIOUS
    <3>2. QED
      BY <2>3, <2>5, <2>6, <3>1
  <2>8. QED
    BY <2>2, <2>7
<1>4. Nat \subseteq S
  <2> HIDE DEF S
  <2>1. QED
    BY <1>2, <1>3, SetInduction
<1>5. ASSUME NEW n \in 1..(N + 1) PROVE At(n)
  <2>1. n - 1 \in Nat /\ n - 1 <= N /\ (n - 1) + 1 = n
    BY <1>1
  <2>2. n - 1 \in S
    BY <1>4, <2>1
  <2>3. QED
    BY <2>1, <2>2
<1>6. QED
  BY <1>5 DEF N, P

(* h gives the detours that are called up to each place of a call, d the   *)
(* detour of each place, or Null.                                          *)
Called(d, n, h) ==
    /\ h[0] = <<>> /\ \A i \in 0..n : h[i] \in Seq(HookSet)
    /\ \A i \in 1..n : h[i] = IF d[i] = Null THEN h[i-1] ELSE Append(h[i-1], d[i])

(* The call from start runs the detours of its path, in this order.        *)
LEMMA DetoursAre ==
    ASSUME heap.tramps \in [Tramps -> TrampStates], NEW start \in Places,
           NEW d, d = [i \in 1..(Cardinality(Tramps) + 1) |-> DetourAt(Path(start)[i])]
    PROVE  /\ d \in [1..(Cardinality(Tramps) + 1) -> HookSet \union {Null}]
           /\ \E h : /\ Called(d, Cardinality(Tramps) + 1, h)
                     /\ Detours(start) = h[Cardinality(Tramps) + 1]
<1> DEFINE n == Cardinality(Tramps) + 1
           Q == Seq(HookSet)
           Round(called, i) == IF DetourAt(Path(start)[i]) = Null THEN called
                               ELSE Append(called, DetourAt(Path(start)[i]))
           T == [i \in 0..n |-> Q]
           f == [i \in 1..n |-> [called \in Q |-> Round(called, i)]]
<1>1. n \in Nat /\ \A i \in 1..n : Path(start)[i] \in Places
  BY PathIs
<1>2. \A i \in 1..n : DetourAt(Path(start)[i]) \in HookSet \union {Null}
  BY <1>1 DEF DetourAt, Passable, Places, TrampStates
<1>3. /\ d \in [1..n -> HookSet \union {Null}]
      /\ \A i \in 1..n : d[i] = DetourAt(Path(start)[i])
  BY <1>2
<1>4. \A i \in 1..n : \A called \in Q : Round(called, i) \in Q
  BY <1>2
<1>5. <<>> \in Q
  OBVIOUS
<1> HIDE DEF n, Q
<1>6. PICK g : Rounds(g, n, f, <<>>) /\ \A i \in 0..n : g[i] \in T[i]
  <2>1. <<>> \in T[0] /\ \A i \in 1..n : \A called \in T[i-1] : f[i][called] \in T[i]
    BY <1>1, <1>4, <1>5
  <2> HIDE DEF T, f
  <2>2. QED
    BY <1>1, <2>1, LoopExists
<1> DEFINE h == CHOOSE h : h = [i \in 0..n |-> IF i = 0 THEN <<>> ELSE Round(h[i-1], i)]
<1>7. h = [i \in 0..n |-> IF i = 0 THEN <<>> ELSE Round(h[i-1], i)]
  <2>1. ASSUME NEW i \in 1..n PROVE g[i] = Round(g[i-1], i)
    <3>1. g[i] = f[i][g[i-1]] /\ g[i-1] \in T[i-1] /\ i - 1 \in 0..n
      <4> HIDE DEF f, T
      <4>1. QED
        BY <1>1, <1>6, Numbers DEF Rounds
    <3> HIDE DEF Round
    <3>2. QED
      BY <3>1
  <2>2. g = [i \in 0..n |-> IF i = 0 THEN <<>> ELSE Round(g[i-1], i)]
    <3> HIDE DEF Round
    <3>1. \A i \in 0..n : g[i] = IF i = 0 THEN <<>> ELSE Round(g[i-1], i)
      BY <1>1, <1>6, <2>1, Numbers DEF Rounds
    <3>2. QED
      BY <1>6, <3>1 DEF Rounds
  <2>3. QED
    BY <2>2
<1>8. h[0] = <<>> /\ \A i \in 1..n : h[i] = Round(h[i-1], i)
  <2> HIDE DEF h, Round
  <2>1. QED
    BY <1>1, <1>7
<1>9. \A i \in 0..n : h[i] \in Q
  <2> HIDE DEF h
  <2>1. h[0] \in T[0] /\ \A i \in 1..n : h[i-1] \in T[i-1] => h[i] \in T[i]
    <3> HIDE DEF Round
    <3>1. QED
      BY <1>1, <1>4, <1>5, <1>8
  <2>2. \A i \in 0..n : h[i] \in T[i]
    <3> HIDE DEF T
    <3>1. QED
      BY <1>1, <2>1, LoopStays
  <2>3. QED
    BY <2>2
<1>10. Detours(start) = h[n]
  BY DEF Detours, Loop, n
<1> HIDE DEF h
<1>11. Called(d, n, h)
  BY <1>3, <1>8, <1>9 DEF Called, Q
<1>12. QED
  BY <1>3, <1>10, <1>11 DEF n

(* Each detour of a place is called, at its turn, and no other one is.     *)
Turns(d, n, h) ==
    /\ \A m \in 1..n : d[m] # Null => Len(h[m]) \in 1..Len(h[n]) /\ h[n][Len(h[m])] = d[m]
    /\ \A j \in 1..Len(h[n]) :
         \E m \in 1..n : d[m] # Null /\ Len(h[m]) = j /\ d[m] = h[n][j]

(* So it is in every call.                                                 *)
LEMMA CalledFacts ==
    ASSUME NEW n \in Nat, NEW d \in [1..n -> HookSet \union {Null}],
           NEW h, Called(d, n, h)
    PROVE  Turns(d, n, h)
<1> DEFINE Facts(i) ==
               /\ \A m \in 1..i : d[m] # Null => /\ Len(h[m]) \in 1..Len(h[i])
                                                 /\ h[i][Len(h[m])] = d[m]
               /\ \A j \in 1..Len(h[i]) :
                    \E m \in 1..i : d[m] # Null /\ Len(h[m]) = j /\ d[m] = h[i][j]
           S == {i \in Nat : i <= n => Facts(i)}
<1>1. 0 \in S
  BY DEF Called
<1>2. ASSUME NEW i \in Nat, i \in S PROVE i + 1 \in S
  <2>1. SUFFICES ASSUME i + 1 <= n PROVE Facts(i + 1)
    OBVIOUS
  <2>2. /\ Facts(i) /\ h[i] \in Seq(HookSet) /\ i + 1 \in 1..n /\ d[i + 1] \in HookSet \union {Null}
        /\ h[i + 1] = IF d[i + 1] = Null THEN h[i] ELSE Append(h[i], d[i + 1])
    <3>1. i \in 0..n /\ i + 1 \in 1..n /\ (i + 1) - 1 = i
      BY <2>1
    <3>2. Facts(i)
      BY <1>2, <3>1
    <3> HIDE DEF Facts
    <3>3. QED
      BY <3>1, <3>2 DEF Called
  <2>3. \A m \in 1..(i + 1) : m = i + 1 \/ m \in 1..i
    OBVIOUS
  <2>4. CASE d[i + 1] = Null
    BY <2>2, <2>3, <2>4
  <2>5. CASE d[i + 1] # Null
    <3> DEFINE e == d[i + 1]
    <3>1. /\ h[i + 1] = Append(h[i], e) /\ Len(h[i]) \in Nat /\ Len(h[i + 1]) = Len(h[i]) + 1
          /\ h[i + 1][Len(h[i]) + 1] = e
          /\ \A j \in 1..Len(h[i]) : h[i + 1][j] = h[i][j]
      <4>1. h[i + 1] = Append(h[i], e) /\ e \in HookSet
        BY <2>2, <2>5
      <4>2. QED
        BY <2>2, <4>1, AppendProperties, LenProperties
    <3>2. ASSUME NEW m \in 1..(i + 1), d[m] # Null
          PROVE  Len(h[m]) \in 1..Len(h[i + 1]) /\ h[i + 1][Len(h[m])] = d[m]
      <4>1. CASE m = i + 1
        BY <3>1, <4>1
      <4>2. CASE m # i + 1
        <5>1. Len(h[m]) \in 1..Len(h[i]) /\ h[i][Len(h[m])] = d[m]
          BY <2>2, <2>3, <3>2, <4>2
        <5>2. QED
          BY <3>1, <5>1
      <4>3. QED
        BY <4>1, <4>2
    <3>3. ASSUME NEW j \in 1..Len(h[i + 1])
          PROVE  \E m \in 1..(i + 1) : d[m] # Null /\ Len(h[m]) = j /\ d[m] = h[i + 1][j]
      <4>1. CASE j = Len(h[i]) + 1
        <5>1. i + 1 \in 1..(i + 1)
          OBVIOUS
        <5>2. QED
          BY <2>5, <3>1, <4>1, <5>1
      <4>2. CASE j # Len(h[i]) + 1
        <5>1. j \in 1..Len(h[i])
          BY <3>1, <3>3, <4>2
        <5>2. PICK m \in 1..i : d[m] # Null /\ Len(h[m]) = j /\ d[m] = h[i][j]
          BY <2>2, <5>1
        <5>3. m \in 1..(i + 1)
          OBVIOUS
        <5>4. QED
          BY <3>1, <5>1, <5>2, <5>3
      <4>3. QED
        BY <4>1, <4>2
    <3>4. QED
      BY <3>2, <3>3
  <2>6. QED
    BY <2>4, <2>5
<1>3. n \in S
  <2> HIDE DEF S
  <2>1. QED
    BY <1>1, <1>2, SetInduction
<1>4. Facts(n)
  <2> HIDE DEF Facts
  <2>1. QED
    BY <1>3
<1>5. QED
  BY <1>4 DEF Turns

(* y is what x holds after its first a members.                            *)
Continues(x, a, y) == Len(x) = a + Len(y) /\ \A j \in 1..Len(y) : y[j] = x[a + j]

(* It is the end of x, and stays so when both become longer.               *)
LEMMA ContinuesFacts ==
    ASSUME NEW x \in Seq(HookSet), NEW y \in Seq(HookSet), NEW a \in Nat
    PROVE  /\ Continues(x, Len(x), <<>>)
           /\ Continues(x, a, y) => y = SubSeq(x, a + 1, Len(x))
           /\ \A c \in HookSet :
                Continues(x, a, y) => Continues(Append(x, c), a, Append(y, c))
<1>1. Len(x) \in Nat /\ Len(y) \in Nat
  BY LenProperties
<1>2. Continues(x, Len(x), <<>>)
  BY <1>1 DEF Continues
<1>3. ASSUME Continues(x, a, y) PROVE y = SubSeq(x, a + 1, Len(x))
  <2>1. Len(x) = a + Len(y) /\ \A j \in 1..Len(y) : y[j] = x[a + j]
    BY <1>3 DEF Continues
  <2>2. \A j \in 1..Len(y) : (a + 1) + j - 1 = a + j
    OBVIOUS
  <2>3. \A j \in (a + 1)..Len(x) : x[j] \in HookSet
    BY <1>1, ElementOfSeq
  <2>4. /\ SubSeq(x, a + 1, Len(x)) \in Seq(HookSet)
        /\ Len(SubSeq(x, a + 1, Len(x))) = Len(y)
        /\ \A j \in 1..Len(y) : SubSeq(x, a + 1, Len(x))[j] = x[a + j]
    BY <1>1, <2>1, <2>2, <2>3, SubSeqProperties
  <2>5. QED
    BY <2>1, <2>4, SeqEqual
<1>4. ASSUME NEW c \in HookSet, Continues(x, a, y)
      PROVE  Continues(Append(x, c), a, Append(y, c))
  <2>1. Len(x) = a + Len(y) /\ \A j \in 1..Len(y) : y[j] = x[a + j]
    BY <1>4 DEF Continues
  <2> DEFINE u == Append(x, c)
             v == Append(y, c)
  <2>2. /\ Len(u) = Len(x) + 1 /\ Len(v) = Len(y) + 1
        /\ u[Len(x) + 1] = c /\ v[Len(y) + 1] = c
        /\ \A j \in 1..Len(x) : u[j] = x[j]
        /\ \A j \in 1..Len(y) : v[j] = y[j]
    BY AppendProperties
  <2> HIDE DEF u, v
  <2>3. Len(u) = a + Len(v)
    BY <1>1, <2>1, <2>2
  <2>4. ASSUME NEW j \in 1..Len(v) PROVE v[j] = u[a + j]
    <3>1. CASE j = Len(y) + 1
      <4>1. a + j = Len(x) + 1
        BY <1>1, <2>1, <3>1
      <4>2. QED
        BY <2>2, <3>1, <4>1
    <3>2. CASE j # Len(y) + 1
      <4>1. j \in 1..Len(y) /\ a + j \in 1..Len(x)
        BY <1>1, <2>1, <2>2, <3>2
      <4>2. QED
        BY <2>1, <2>2, <4>1
    <3>3. QED
      BY <3>1, <3>2
  <2>5. QED
    BY <2>3, <2>4 DEF Continues, u, v
<1>5. QED
  BY <1>2, <1>3, <1>4

(* The call of e joins that of d after m places, and ends where that ends. *)
Joins(e, d, m, n) == \A i \in 1..n : e[i] = IF i <= n - m THEN d[m + i] ELSE Null

(* Such a call runs what the other one has still to run.                   *)
RunsRest(g, h, m, n) == g[n] = SubSeq(h[n], Len(h[m]) + 1, Len(h[n]))

(* It does so in every call that joins another one.                        *)
LEMMA CalledOn ==
    ASSUME NEW n \in Nat, NEW d \in [1..n -> HookSet \union {Null}], NEW h, Called(d, n, h),
           NEW e, NEW g, Called(e, n, g), NEW m \in 1..n, Joins(e, d, m, n)
    PROVE  RunsRest(g, h, m, n)
<1> DEFINE a == Len(h[m])
           S == {i \in Nat : i <= n - m => Continues(h[m + i], a, g[i])}
           R == {u \in Nat : u >= n - m /\ u <= n => g[u] = g[n - m]}
<1>1. m \in Nat /\ n - m \in Nat /\ \A i \in 0..n : g[i] \in Seq(HookSet) /\ h[i] \in Seq(HookSet)
  BY DEF Called
<1>2. a \in Nat
  <2>1. h[m] \in Seq(HookSet)
    BY <1>1
  <2>2. QED
    BY <2>1, LenProperties
<1>3. 0 \in S
  <2>1. g[0] = <<>> /\ m + 0 = m /\ h[m] \in Seq(HookSet)
    BY <1>1 DEF Called
  <2>2. Continues(h[m], a, <<>>)
    BY <2>1, ContinuesFacts
  <2> HIDE DEF a
  <2>3. QED
    BY <2>1, <2>2
<1>4. ASSUME NEW i \in Nat, i \in S PROVE i + 1 \in S
  <2> HIDE DEF a
  <2>1. SUFFICES ASSUME i + 1 <= n - m PROVE Continues(h[m + (i + 1)], a, g[i + 1])
    OBVIOUS
  <2> DEFINE x == h[m + i]
             y == g[i]
             c == d[m + (i + 1)]
  <2>2. /\ i \in 0..n /\ m + i \in 0..n /\ i + 1 \in 1..n /\ m + (i + 1) \in 1..n
        /\ (i + 1) - 1 = i /\ (m + (i + 1)) - 1 = m + i /\ i <= n - m
    BY <1>1, <2>1
  <2>3. Continues(x, a, y)
    BY <1>4, <2>2
  <2>4. e[i + 1] = c /\ c \in HookSet \union {Null}
    BY <2>1, <2>2 DEF Joins
  <2>5. /\ h[m + (i + 1)] = IF c = Null THEN x ELSE Append(x, c)
        /\ g[i + 1] = IF c = Null THEN y ELSE Append(y, c)
    BY <2>2, <2>4 DEF Called
  <2>6. x \in Seq(HookSet) /\ y \in Seq(HookSet)
    BY <1>1, <2>2
  <2> HIDE DEF x, y, c
  <2>7. QED
    BY <1>2, <2>3, <2>4, <2>5, <2>6, ContinuesFacts
<1>5. 0 \in R
  BY <1>1
<1>6. ASSUME NEW u \in Nat, u \in R PROVE u + 1 \in R
  <2>1. SUFFICES ASSUME u + 1 >= n - m, u + 1 <= n PROVE g[u + 1] = g[n - m]
    OBVIOUS
  <2>2. CASE u + 1 = n - m
    BY <2>2
  <2>3. CASE u + 1 # n - m
    <3>1. u >= n - m /\ u <= n /\ u + 1 \in 1..n /\ (u + 1) - 1 = u /\ ~(u + 1 <= n - m)
      BY <1>1, <2>1, <2>3
    <3>2. e[u + 1] = Null /\ g[u] = g[n - m]
      BY <1>6, <3>1 DEF Joins
    <3>3. QED
      BY <3>1, <3>2 DEF Called
  <2>4. QED
    BY <2>2, <2>3
<1>7. n - m \in S /\ n \in R
  <2> HIDE DEF S, R
  <2>1. QED
    BY <1>1, <1>3, <1>4, <1>5, <1>6, SetInduction
<1>8. Continues(h[n], a, g[n])
  <2> HIDE DEF a
  <2>1. Continues(h[m + (n - m)], a, g[n - m])
    BY <1>1, <1>7
  <2>2. m + (n - m) = n /\ n <= n /\ n >= n - m
    BY <1>1
  <2>3. g[n] = g[n - m]
    BY <1>7, <2>2
  <2>4. QED
    BY <2>1, <2>2, <2>3
<1>9. h[n] \in Seq(HookSet) /\ g[n] \in Seq(HookSet)
  BY <1>1
<1>10. QED
  BY <1>2, <1>8, <1>9, ContinuesFacts DEF RunsRest

(* A call of t goes through the whole chain of t, from its highest place   *)
(* to the code of the function; one that starts below a trampoline goes    *)
(* through what a call of t goes through after it.                         *)
LEMMA ChainFacts ==
    ASSUME heap.tramps \in [Tramps -> TrampStates],
           NEW L \in [Tramps -> Nat], Stacked(heap, L), NEW t \in Targets,
           NEW top, top = Top(heap, t),
           NEW N, N = Cardinality(Tramps), NEW P, P = Path(top)
    PROVE  /\ N \in Nat /\ top \in Places /\ P[N + 1] = Null
           /\ \A n \in 1..(N + 1) : OnChain(L, t, P[n])
           /\ \A m, n \in 1..(N + 1) : P[m] = P[n] /\ P[m] # Null => m = n
           /\ \A k \in Tramps : L[k] # 0 /\ heap.tramps[k].target = t =>
                \E m \in 1..(N + 1) :
                  /\ P[m] = k /\ heap.tramps[k].below \in Places
                  /\ \A i \in 1..(N + 1) :
                       Path(heap.tramps[k].below)[i] = IF i <= (N + 1) - m THEN P[m + i] ELSE Null
<1> DEFINE height == Level(L, top)
<1>1. OnChain(L, t, top) /\ top \in Places
  <2>1. heap.jumps[t] # Null =>
          /\ heap.jumps[t] \in Tramps /\ L[heap.jumps[t]] # 0
          /\ heap.tramps[heap.jumps[t]].target = t
    BY DEF Stacked
  <2>2. QED
    BY <2>1 DEF OnChain, Top, Places
<1>2. N \in Nat
  BY PathIs, <1>1
<1>3. height \in Nat /\ height <= N
  <2>1. CASE top = Null
    BY <1>2, <2>1 DEF Level
  <2>2. CASE top # Null
    <3>1. top \in Tramps
      BY <1>1, <2>2 DEF Places
    <3>2. L[top] <= N /\ L[top] \in Nat
      BY <3>1, LevelBound
    <3>3. QED
      BY <2>2, <3>2 DEF Level
  <2>3. QED
    BY <2>1, <2>2
<1> HIDE DEF height
<1>4. ASSUME NEW n \in 1..(N + 1)
      PROVE  OnChain(L, t, P[n]) /\ Level(L, P[n]) = Left(height, n - 1)
  BY <1>1, <1>4, Walk DEF height
<1>5. P[N + 1] = Null
  <2>1. N + 1 \in 1..(N + 1) /\ (N + 1) - 1 = N
    BY <1>2
  <2>2. Left(height, N) = 0
    BY <1>2, <1>3 DEF Left
  <2>3. OnChain(L, t, P[N + 1]) /\ Level(L, P[N + 1]) = 0
    BY <1>4, <2>1, <2>2
  <2>4. QED
    BY <2>3 DEF OnChain, Level
<1>6. ASSUME NEW m \in 1..(N + 1), NEW n \in 1..(N + 1), P[m] = P[n], P[m] # Null PROVE m = n
  <2>1. Level(L, P[m]) # 0
    BY <1>4, <1>6 DEF OnChain, Level
  <2>2. Left(height, m - 1) = Left(height, n - 1) /\ Left(height, m - 1) # 0
    BY <1>4, <1>6, <2>1
  <2>3. QED
    BY <1>2, <1>3, <2>2 DEF Left
<1>7. ASSUME NEW k \in Tramps, L[k] # 0, heap.tramps[k].target = t
      PROVE  \E m \in 1..(N + 1) :
               /\ P[m] = k /\ heap.tramps[k].below \in Places
               /\ \A i \in 1..(N + 1) :
                    Path(heap.tramps[k].below)[i] = IF i <= (N + 1) - m THEN P[m + i] ELSE Null
  <2> DEFINE m == height - L[k] + 1
             b == heap.tramps[k].below
             Q == Path(b)
  <2>1. k # Null /\ OnChain(L, t, k) /\ Level(L, k) = L[k] /\ L[k] \in Nat
    BY <1>7, ArrayAssumption DEF OnChain, Level
  <2>2. L[k] <= height
    <3>1. heap.jumps[t] # Null /\ L[k] <= L[heap.jumps[t]]
      BY <1>7 DEF Stacked
    <3>2. QED
      BY <3>1 DEF height, Level, Top
  <2>3. m \in 1..(N + 1) /\ m - 1 <= height /\ height - (m - 1) = L[k]
    BY <1>2, <1>3, <1>7, <2>1, <2>2
  <2>4. P[m] = k
    <3>1. OnChain(L, t, P[m]) /\ Level(L, P[m]) = Level(L, k)
      BY <1>4, <2>1, <2>3 DEF Left
    <3>2. QED
      BY <2>1, <3>1, SamePlace
  <2>5. OnChain(L, t, b) /\ Level(L, b) = L[k] - 1 /\ b \in Places
    <3>1. Passable(k) /\ Below(k) = b
      BY <2>1, OneDown DEF Below
    <3>2. OnChain(L, t, b) /\ Level(L, b) = Left(L[k], 1)
      BY <2>1, <3>1, OneDown
    <3>3. QED
      BY <1>7, <2>1, <3>2 DEF Left, OnChain, Places
  <2>6. ASSUME NEW i \in 1..(N + 1)
        PROVE  Q[i] = IF i <= (N + 1) - m THEN P[m + i] ELSE Null
    <3>1. OnChain(L, t, Q[i]) /\ Level(L, Q[i]) = Left(L[k] - 1, i - 1)
      <4>1. OnChain(L, t, Q[i]) /\ Level(L, Q[i]) = Left(Level(L, b), i - 1)
        BY <2>5, Walk
      <4>2. QED
        BY <2>5, <4>1
    <3> HIDE DEF b, Q
    <3>2. CASE i <= (N + 1) - m
      <4>1. m + i \in 1..(N + 1)
        BY <1>2, <2>3, <3>2
      <4>2. OnChain(L, t, P[m + i]) /\ Level(L, P[m + i]) = Left(height, (m + i) - 1)
        BY <1>4, <4>1
      <4>3. Left(height, (m + i) - 1) = Left(L[k] - 1, i - 1)
        BY <1>3, <1>7, <2>1, <2>3 DEF Left
      <4>4. Q[i] = P[m + i]
        BY <3>1, <4>2, <4>3, SamePlace
      <4>5. QED
        BY <3>2, <4>4
    <3>3. CASE ~(i <= (N + 1) - m)
      <4>1. i - 1 > L[k] - 1
        BY <1>2, <1>3, <2>1, <2>3, <3>3
      <4>2. Left(L[k] - 1, i - 1) = 0
        BY <2>1, <4>1 DEF Left
      <4>3. Q[i] = Null
        BY <3>1, <4>2 DEF OnChain, Level
      <4>4. QED
        BY <3>3, <4>3
    <3>4. QED
      BY <3>2, <3>3
  <2> HIDE DEF m
  <2>7. QED
    BY <2>3, <2>4, <2>5, <2>6
<1>8. QED
  BY <1>1, <1>2, <1>4, <1>5, <1>6, <1>7

(* The entries of the heap that are attached have trampolines to their own *)
(* detours, and these are linked.                                          *)
Callable(A) ==
    /\ heap.tramps \in [Tramps -> TrampStates] /\ Linked(heap, A)
    /\ \A p \in Positions(heap) :
         LET h == heap.items[p].hook
             own == heap.original[h]
         IN /\ h \in HookSet
            /\ p \in A => /\ own.of \in Tramps
                          /\ heap.tramps[own.of].detour = h
                          /\ heap.tramps[own.of].target = h[2]

(* A call of t, whose chain this is, runs the detours of the attached      *)
(* entries of t, each once; what the trampoline of such an entry leads on  *)
(* to are the detours that come after its own in the chain.                *)
CallsRun(t, A, chain) ==
    /\ Reaches(Top(heap, t)) /\ IsInjective(chain)
    /\ ToSet(chain) = {heap.items[p].hook :
           p \in {q \in Positions(heap) : q \in A /\ heap.items[q].hook[2] = t}}
    /\ \A p \in Positions(heap) :
         LET h == heap.items[p].hook
         IN p \in A /\ h[2] = t =>
              \E i \in DOMAIN chain :
                /\ chain[i] = h
                /\ Detours(heap.tramps[heap.original[h].of].below)
                     = SubSeq(chain, i + 1, Len(chain))

(* What a call of a function runs, when the chains are linked.             *)
LEMMA CallsFacts ==
    ASSUME NEW A, Callable(A), NEW t \in Targets, NEW chain, chain = Chain(t)
    PROVE  CallsRun(t, A, chain)
<1>1. /\ heap.tramps \in [Tramps -> TrampStates] /\ Linked(heap, A)
      /\ \A p \in Positions(heap) :
           LET h == heap.items[p].hook
               own == heap.original[h]
           IN /\ h \in HookSet
              /\ p \in A => /\ own.of \in Tramps
                            /\ heap.tramps[own.of].detour = h
                            /\ heap.tramps[own.of].target = h[2]
  BY DEF Callable
<1>2. PICK L \in [Tramps -> Nat] : Stacked(heap, L) /\ Owned(heap, A, L)
  BY <1>1 DEF Linked
<1>3. PICK top : top = Top(heap, t)
  OBVIOUS
<1>4. PICK N : N = Cardinality(Tramps)
  OBVIOUS
<1>5. PICK P : P = Path(top)
  OBVIOUS
<1>6. /\ N \in Nat /\ top \in Places /\ P[N + 1] = Null
      /\ \A i \in 1..(N + 1) : OnChain(L, t, P[i])
      /\ \A i, j \in 1..(N + 1) : P[i] = P[j] /\ P[i] # Null => i = j
      /\ \A k \in Tramps : L[k] # 0 /\ heap.tramps[k].target = t =>
           \E m \in 1..(N + 1) :
             /\ P[m] = k /\ heap.tramps[k].below \in Places
             /\ \A i \in 1..(N + 1) :
                  Path(heap.tramps[k].below)[i] = IF i <= (N + 1) - m THEN P[m + i] ELSE Null
  <2>1. heap.tramps \in [Tramps -> TrampStates] /\ Stacked(heap, L)
    BY <1>1, <1>2
  <2>2. QED
    BY <1>3, <1>4, <1>5, <2>1, ChainFacts
<1> DEFINE n == N + 1
<1>7. PICK d : d = [i \in 1..n |-> DetourAt(P[i])]
  OBVIOUS
<1>8. /\ d \in [1..n -> HookSet \union {Null}]
      /\ \E h : Called(d, n, h) /\ Detours(top) = h[n]
  <2>1. d = [i \in 1..(Cardinality(Tramps) + 1) |-> DetourAt(Path(top)[i])] /\ top \in Places
    BY <1>4, <1>5, <1>6, <1>7
  <2>2. /\ d \in [1..(Cardinality(Tramps) + 1) -> HookSet \union {Null}]
        /\ \E h : /\ Called(d, Cardinality(Tramps) + 1, h)
                  /\ Detours(top) = h[Cardinality(Tramps) + 1]
    <3> HIDE DEF n
    <3>1. QED
      BY <1>1, <2>1, DetoursAre
  <2>3. QED
    BY <1>4, <2>2
<1>9. PICK h : Called(d, n, h) /\ Detours(top) = h[n]
  BY <1>8
<1>10. n \in Nat /\ \A i \in 1..n : d[i] = DetourAt(P[i])
  <2>1. n \in Nat
    BY <1>6
  <2> HIDE DEF n
  <2>2. \A i \in 1..n : d[i] = DetourAt(P[i])
    BY <1>7
  <2>3. QED
    BY <2>1, <2>2
<1>11. chain = h[n] /\ chain \in Seq(HookSet) /\ DOMAIN chain = 1..Len(chain)
  <2> HIDE DEF n
  <2>1. n \in 0..n
    BY <1>10
  <2>2. chain = h[n]
    BY <1>3, <1>9 DEF Chain
  <2>3. chain \in Seq(HookSet)
    BY <1>9, <2>1, <2>2 DEF Called
  <2>4. QED
    BY <2>2, <2>3, LenProperties
<1>12. /\ \A m \in 1..n : d[m] # Null => Len(h[m]) \in 1..Len(chain) /\ chain[Len(h[m])] = d[m]
       /\ \A j \in 1..Len(chain) :
            \E m \in 1..n : d[m] # Null /\ Len(h[m]) = j /\ d[m] = chain[j]
  <2>1. Turns(d, n, h)
    <3> HIDE DEF n
    <3>1. QED
      BY <1>8, <1>9, <1>10, CalledFacts
  <2> HIDE DEF n
  <2>2. QED
    BY <1>11, <2>1 DEF Turns
<1>13. \A k : DetourAt(k) # Null => /\ k \in Tramps /\ k # Null
                                    /\ DetourAt(k) = heap.tramps[k].detour
  BY ArrayAssumption DEF DetourAt, Passable
<1>14. \A k \in Tramps : heap.tramps[k].detour # Null => DetourAt(k) = heap.tramps[k].detour
  <2>1. NoTramp.detour = Null
    BY DEF NoTramp
  <2>2. QED
    BY <2>1 DEF DetourAt, Passable, Unused
<1> HIDE DEF n
<1>15. ASSUME NEW i \in 1..n, d[i] # Null
       PROVE  \E p \in Positions(heap) :
                /\ p \in A /\ heap.items[p].hook = d[i] /\ heap.items[p].hook[2] = t
                /\ heap.original[d[i]] = Trampoline(P[i])
  <2>1. /\ P[i] \in Tramps /\ P[i] # Null /\ d[i] = heap.tramps[P[i]].detour
    BY <1>10, <1>13, <1>15
  <2>2. L[P[i]] # 0 /\ heap.tramps[P[i]].target = t
    BY <1>6, <2>1 DEF OnChain, n
  <2>3. PICK p \in Positions(heap) : /\ p \in A /\ heap.items[p].hook = d[i]
                                     /\ heap.original[heap.items[p].hook] = Trampoline(P[i])
    BY <1>2, <1>15, <2>1, <2>2 DEF Owned
  <2>4. heap.original[d[i]].of = P[i]
    <3>1. Trampoline(P[i]).of = P[i]
      BY DEF Trampoline
    <3>2. QED
      BY <2>3, <3>1
  <2>5. heap.tramps[heap.original[d[i]].of].target = heap.items[p].hook[2]
    <3>1. heap.tramps[heap.original[heap.items[p].hook].of].target = heap.items[p].hook[2]
      BY <1>1, <2>3
    <3>2. QED
      BY <2>3, <3>1
  <2>6. QED
    BY <2>2, <2>3, <2>4, <2>5
<1>16. ASSUME NEW i \in 1..n, NEW j \in 1..n, d[i] # Null, d[i] = d[j] PROVE i = j
  <2>1. Trampoline(P[i]) = Trampoline(P[j])
    BY <1>15, <1>16
  <2>2. P[i] = P[j]
    BY <2>1 DEF Trampoline
  <2>3. P[i] # Null
    BY <1>10, <1>13, <1>16
  <2>4. QED
    BY <1>6, <2>2, <2>3 DEF n
<1>17. ASSUME NEW p \in Positions(heap), p \in A, heap.items[p].hook[2] = t
       PROVE  LET e == heap.items[p].hook
                  k == heap.original[e].of
              IN \E m \in 1..n :
                   /\ d[m] = e /\ d[m] # Null /\ heap.tramps[k].below \in Places
                   /\ \A i \in 1..n :
                        Path(heap.tramps[k].below)[i] = IF i <= n - m THEN P[m + i] ELSE Null
  <2> DEFINE e == heap.items[p].hook
             k == heap.original[e].of
  <2>1. e \in HookSet /\ k \in Tramps /\ heap.tramps[k].detour = e /\ heap.tramps[k].target = t
    BY <1>1, <1>17
  <2>2. L[k] # 0
    BY <1>2, <1>17 DEF Owned
  <2>3. e # Null
    BY <2>1, ArrayAssumption
  <2> HIDE DEF e, k
  <2>4. PICK m \in 1..n :
          /\ P[m] = k /\ heap.tramps[k].below \in Places
          /\ \A i \in 1..n :
               Path(heap.tramps[k].below)[i] = IF i <= n - m THEN P[m + i] ELSE Null
    BY <1>6, <2>1, <2>2 DEF n
  <2>5. d[m] = e
    BY <1>10, <1>14, <2>1, <2>3, <2>4
  <2>6. QED
    BY <2>3, <2>4, <2>5 DEF e, k
<1>18. Reaches(Top(heap, t))
  BY <1>3, <1>4, <1>5, <1>6 DEF Reaches
<1>19. IsInjective(chain)
  <2>1. ASSUME NEW a \in DOMAIN chain, NEW b \in DOMAIN chain, chain[a] = chain[b] PROVE a = b
    <3>1. a \in 1..Len(chain) /\ b \in 1..Len(chain)
      BY <1>11
    <3>2. PICK i \in 1..n : d[i] # Null /\ Len(h[i]) = a /\ d[i] = chain[a]
      BY <1>12, <3>1
    <3>3. PICK j \in 1..n : d[j] # Null /\ Len(h[j]) = b /\ d[j] = chain[b]
      BY <1>12, <3>1
    <3>4. i = j
      BY <1>16, <2>1, <3>2, <3>3
    <3>5. QED
      BY <3>2, <3>3, <3>4
  <2>2. QED
    BY <2>1 DEF IsInjective
<1>20. ToSet(chain) = {heap.items[p].hook :
           p \in {q \in Positions(heap) : q \in A /\ heap.items[q].hook[2] = t}}
  <2> DEFINE hooks == {heap.items[p].hook :
                 p \in {q \in Positions(heap) : q \in A /\ heap.items[q].hook[2] = t}}
  <2>1. ASSUME NEW c \in ToSet(chain) PROVE c \in hooks
    <3>1. PICK j \in 1..Len(chain) : c = chain[j]
      BY <1>11, <2>1 DEF ToSet
    <3>2. PICK m \in 1..n : d[m] # Null /\ d[m] = c
      BY <1>12, <3>1
    <3>3. QED
      BY <1>15, <3>2
  <2>2. ASSUME NEW c \in hooks PROVE c \in ToSet(chain)
    <3>1. PICK p \in Positions(heap) : p \in A /\ heap.items[p].hook[2] = t /\ c = heap.items[p].hook
      BY <2>2
    <3>2. PICK m \in 1..n : d[m] = c /\ d[m] # Null
      BY <1>17, <3>1
    <3>3. Len(h[m]) \in 1..Len(chain) /\ chain[Len(h[m])] = c
      BY <1>12, <3>2
    <3>4. QED
      BY <1>11, <3>3 DEF ToSet
  <2>3. QED
    BY <2>1, <2>2
<1>21. ASSUME NEW p \in Positions(heap), p \in A, heap.items[p].hook[2] = t
       PROVE  \E i \in DOMAIN chain :
                /\ chain[i] = heap.items[p].hook
                /\ Detours(heap.tramps[heap.original[heap.items[p].hook].of].below)
                     = SubSeq(chain, i + 1, Len(chain))
  <2> DEFINE b == heap.tramps[heap.original[heap.items[p].hook].of].below
  <2>1. PICK m \in 1..n :
          /\ d[m] = heap.items[p].hook /\ d[m] # Null /\ b \in Places
          /\ \A i \in 1..n : Path(b)[i] = IF i <= n - m THEN P[m + i] ELSE Null
    BY <1>17, <1>21
  <2> HIDE DEF b
  <2>2. PICK e : e = [i \in 1..n |-> DetourAt(Path(b)[i])]
    OBVIOUS
  <2>3. \E g : Called(e, n, g) /\ Detours(b) = g[n]
    BY <1>1, <1>4, <2>1, <2>2, DetoursAre DEF n
  <2>4. PICK g : Called(e, n, g) /\ Detours(b) = g[n]
    BY <2>3
  <2>5. ASSUME NEW i \in 1..n PROVE e[i] = IF i <= n - m THEN d[m + i] ELSE Null
    <3>1. e[i] = DetourAt(Path(b)[i])
      BY <2>2
    <3>2. i <= n - m => m + i \in 1..n
      <4>1. n \in Nat /\ m \in 1..n
        BY <1>10, <2>1
      <4>2. QED
        BY <4>1
    <3>3. DetourAt(Null) = Null
      BY <1>13
    <3>4. QED
      BY <1>10, <2>1, <3>1, <3>2, <3>3
  <2>6. g[n] = SubSeq(h[n], Len(h[m]) + 1, Len(h[n]))
    <3>1. Joins(e, d, m, n)
      BY <2>5 DEF Joins
    <3>2. /\ n \in Nat /\ d \in [1..n -> HookSet \union {Null}]
          /\ Called(d, n, h) /\ Called(e, n, g)
      BY <1>8, <1>9, <1>10, <2>4
    <3>3. RunsRest(g, h, m, n)
      BY <3>1, <3>2, CalledOn
    <3>4. QED
      BY <3>3 DEF RunsRest
  <2>7. Len(h[m]) \in DOMAIN chain /\ chain[Len(h[m])] = heap.items[p].hook
    BY <1>11, <1>12, <2>1
  <2>8. Detours(b) = SubSeq(chain, Len(h[m]) + 1, Len(chain))
    BY <1>11, <2>4, <2>6
  <2>9. QED
    BY <2>7, <2>8 DEF b
<1>22. QED
  BY <1>18, <1>19, <1>20, <1>21 DEF CallsRun

================================================================================
