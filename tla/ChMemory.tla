------------------------------ MODULE ChMemory -------------------------------
(***************************************************************************)
(* Dynamic memory of ChibiOS/RT and what lives in it: the core allocator,  *)
(* the heap, a memory pool, threads created from both and the registry     *)
(* that links them (chmemcore.c, chheap.c, chmempools.c, chdynamic.c,      *)
(* chregistry.c).  Addresses and sizes count allocation units; a heap      *)
(* header is one unit.  What one task does under a lock is one step; the   *)
(* stage of a call between two locks is in pc.                             *)
(***************************************************************************)
EXTENDS Integers, Sequences, SequencesExt, FiniteSets, FiniteSetsExt

CONSTANTS Task,      \* threads that use memory
          EndMem,    \* size of the core memory
          Sizes,     \* sizes asked of the heap
          ObjSize,   \* mp_object_size of the pool
          WaSize,    \* size of a thread's working area
          Programs,  \* sets of calls
          MaxRefs    \* bound on the references one task holds

ASSUME SizesAssumption == /\ EndMem \in Nat /\ ObjSize \in Nat \ {0} /\ WaSize \in Nat \ {0}
                          /\ Sizes \subseteq Nat \ {0}

VARIABLES nextmem,   \* first unit never handed out
          free,      \* the heap's free list: blocks [a, s], s without header
          used,      \* blocks [a, s] of the heap that are allocated
          pool,      \* free objects of the pool, the last freed first
          pooled,    \* every object of the pool
          refs, final, mode,     \* of the thread at each address
          newer, older,          \* registry links; rlist is the anchor
          held,      \* references each task holds
          pc,        \* stage of each task's call
          prog

vars == <<nextmem, free, used, pool, pooled, refs, final, mode, newer, older, held, pc, prog>>

Addr == 0 .. EndMem - 1
Main == -1          \* the main thread, static
rlist == -2         \* the registry's anchor
Idle == <<"idle">>
HDR == 1             \* sizeof(union heap_header)
LIMIT(b) == b.a + HDR + b.s

_core_init == nextmem = 0
chHeapInit == free = <<>> /\ used = {}
chPoolInit == pool = <<>> /\ pooled = {}

Init == /\ _core_init /\ chHeapInit /\ chPoolInit
        /\ refs = [a \in Addr |-> 0] /\ final = [a \in Addr |-> FALSE]
        /\ mode = [a \in Addr |-> "none"]
        /\ newer = [a \in Addr \cup {Main, rlist} |-> IF a = rlist THEN Main ELSE rlist]
        /\ older = [a \in Addr \cup {Main, rlist} |-> IF a = rlist THEN Main ELSE rlist]
        /\ held = [t \in Task |-> <<>>] /\ pc = [t \in Task |-> Idle]
        /\ prog \in Programs

May(name, t) == name \in prog /\ pc[t] = Idle

\* One task alone creates threads, releases them and walks through the registry:
\* chThdRelease unlinks and frees outside the lock.
Solo(t) == t = CHOOSE x \in Task : TRUE
Creator(t) == May("create", t) /\ Solo(t)

-----------------------------------------------------------------------------
(* Heap, core and pool.                                                    *)

\* What is left of block b when size units are taken from it: a block of its own
\* if a header fits.
Split(b, size) ==
  IF b.s < size + HDR THEN <<>> ELSE <<[a |-> b.a + HDR + size, s |-> b.s - HDR - size]>>

FirstFit(size) == SelectInSeq(free, LAMBDA b : b.s >= size)

\* The search under the heap's lock; without a fit the core is asked afterwards.
\* then is what the caller does with the memory.
chHeapAlloc(t, size, then) ==
  LET i == FirstFit(size)
      b == free[i]
  IN  IF i = 0
      THEN /\ pc' = [pc EXCEPT ![t] = <<"core", size, then>>]
           /\ UNCHANGED <<free, used>>
      ELSE /\ free' = SubSeq(free, 1, i - 1) \o Split(b, size) \o SubSeq(free, i + 1, Len(free))
           /\ used' = used \cup {[a |-> b.a, s |-> IF b.s < size + HDR THEN b.s ELSE size]}
           /\ pc' = [pc EXCEPT ![t] = <<then, b.a>>]

Alloc(t) == /\ May("alloc", t)
            /\ \E size \in Sizes : chHeapAlloc(t, size, "done")
            /\ UNCHANGED <<nextmem, pool, pooled, refs, final, mode, newer, older, held, prog>>

chCoreAllocI(size) == IF EndMem - nextmem < size THEN -1 ELSE nextmem

\* The rest of chHeapAlloc: the heap grows by a block from the core, or NULL.
CoreAlloc(t) ==
  /\ pc[t][1] = "core"
  /\ LET size == pc[t][2]  a == chCoreAllocI(pc[t][2] + HDR)
     IN  IF a = -1 THEN /\ pc' = [pc EXCEPT ![t] = Idle]
                        /\ UNCHANGED <<nextmem, used>>
         ELSE /\ nextmem' = nextmem + size + HDR
              /\ used' = used \cup {[a |-> a, s |-> size]}
              /\ pc' = [pc EXCEPT ![t] = <<pc[t][3], a>>]
  /\ UNCHANGED <<free, pool, pooled, refs, final, mode, newer, older, held, prog>>

\* The caller of chHeapAlloc has its memory.
Allocated(t) == /\ pc[t][1] = "done" /\ pc' = [pc EXCEPT ![t] = Idle]
                /\ UNCHANGED <<nextmem, free, used, pool, pooled, refs, final, mode, newer, older, held, prog>>

\* Neighbours that touch become one.
Join(l, r) == IF LIMIT(l) = r.a THEN <<[a |-> l.a, s |-> l.s + r.s + HDR]>> ELSE <<l, r>>

\* b in its place by address, joined with what follows, then with what precedes.
Insert(f, b) ==
  LET i == SelectInSeq(f, LAMBDA c : c.a > b.a)
      n == IF i = 0 THEN Len(f) ELSE i - 1
      right == IF i = 0 THEN <<b>> ELSE Join(b, f[i])
      both == IF n = 0 THEN right ELSE Join(f[n], right[1]) \o Tail(right)
  IN  SubSeq(f, 1, n - 1) \o both \o (IF i = 0 THEN <<>> ELSE SubSeq(f, i + 1, Len(f)))

\* The blocks of the free list and the sum of their sizes; the core left.
chHeapStatus == [blocks |-> Len(free), size |-> FoldLeft(LAMBDA n, b : n + b.s, 0, free)]
chCoreStatus == EndMem - nextmem

chHeapFree(b) == free' = Insert(free, b) /\ used' = used \ {b}

Free(t) == /\ May("alloc", t)
           /\ \E b \in used : /\ mode[b.a] = "none" /\ (\A s \in Task : pc[s][1] \in {"done", "heap"} => pc[s][2] # b.a)
                         /\ chHeapFree(b)
           /\ UNCHANGED <<nextmem, pool, pooled, refs, final, mode, newer, older, held, pc, prog>>

\* A pool without free objects grows from its provider, chCoreAllocI.
chPoolAlloc(t, then) ==
  IF pool # <<>>
  THEN /\ pool' = Tail(pool) /\ pc' = [pc EXCEPT ![t] = <<then, Head(pool)>>]
       /\ UNCHANGED <<nextmem, pooled>>
  ELSE LET a == chCoreAllocI(ObjSize)
       IN  /\ pc' = [pc EXCEPT ![t] = IF a = -1 THEN Idle ELSE <<then, a>>]
           /\ nextmem' = IF a = -1 THEN nextmem ELSE nextmem + ObjSize
           /\ pooled' = IF a = -1 THEN pooled ELSE pooled \cup {a}
           /\ UNCHANGED pool

chPoolFree(a) == pool' = <<a>> \o pool

-----------------------------------------------------------------------------
(* Threads in allocated memory, their references and the registry.         *)

CreateFromHeap(t) ==
  /\ Creator(t) /\ Len(held[t]) < MaxRefs
  /\ chHeapAlloc(t, WaSize, "heap")
  /\ UNCHANGED <<nextmem, pool, pooled, refs, final, mode, newer, older, held, prog>>

CreateFromPool(t) ==
  /\ Creator(t) /\ "pool" \in prog /\ Len(held[t]) < MaxRefs
  /\ chPoolAlloc(t, "pool")
  /\ UNCHANGED <<free, used, refs, final, mode, newer, older, held, prog>>

\* REG_INSERT: behind the youngest.
REG_INSERT(a) == /\ newer' = [newer EXCEPT ![a] = rlist, ![older[rlist]] = a]
                 /\ older' = [older EXCEPT ![a] = older[rlist], ![rlist] = a]

\* chThdCreateI and the start of the thread, under one lock.
Created(t) ==
  /\ pc[t][1] \in {"heap", "pool"}
  /\ LET a == pc[t][2]
     IN  /\ REG_INSERT(a)
         /\ refs' = [refs EXCEPT ![a] = 1] /\ final' = [final EXCEPT ![a] = FALSE]
         /\ mode' = [mode EXCEPT ![a] = pc[t][1]]
         /\ held' = [held EXCEPT ![t] = Append(@, a)]
  /\ pc' = [pc EXCEPT ![t] = Idle]
  /\ UNCHANGED <<nextmem, free, used, pool, pooled, prog>>

\* chThdExit of a dynamic thread: it stays in the registry.
Exit(a) == /\ mode[a] # "none" /\ ~final[a]
           /\ final' = [final EXCEPT ![a] = TRUE]
           /\ UNCHANGED <<nextmem, free, used, pool, pooled, refs, mode, newer, older, held, pc, prog>>

\* Mutant: the state of the thread alone decides.
LastRef_final(t, a) == pc' = [pc EXCEPT ![t] = <<"check", a>>]

\* The new count decides, after the lock is released.
LastRef(t, a) == pc' = [pc EXCEPT ![t] = IF refs[a] = 1 THEN <<"check", a>> ELSE Idle]

DropRef(t, a) == /\ refs' = [refs EXCEPT ![a] = @ - 1]
                 /\ LastRef(t, a)

\* chThdRelease, called with a reference of the task's own or at the end of
\* chRegNextThread.  main is static: its count never leads to a removal.
Release(t) ==
  /\ \/ /\ Creator(t) /\ held[t] # <<>>
        /\ DropRef(t, held[t][1])
        /\ held' = [held EXCEPT ![t] = Tail(@)]
     \/ /\ pc[t][1] = "release"
        /\ DropRef(t, pc[t][2])
        /\ UNCHANGED held
  /\ UNCHANGED <<nextmem, free, used, pool, pooled, final, mode, newer, older, prog>>

\* p_state is read outside the lock.
Check(t) ==
  /\ pc[t][1] = "check"
  /\ pc' = [pc EXCEPT ![t] = IF final[pc[t][2]] THEN <<"remove1", pc[t][2]>> ELSE Idle]
  /\ UNCHANGED <<nextmem, free, used, pool, pooled, refs, final, mode, newer, older, held, prog>>

\* REG_REMOVE, two assignments outside the lock.
Remove1(t) == /\ pc[t][1] = "remove1"
              /\ newer' = [newer EXCEPT ![older[pc[t][2]]] = newer[pc[t][2]]]
              /\ pc' = [pc EXCEPT ![t] = <<"remove2", pc[t][2]>>]
              /\ UNCHANGED <<nextmem, free, used, pool, pooled, refs, final, mode, older, held, prog>>
Remove2(t) == /\ pc[t][1] = "remove2"
              /\ older' = [older EXCEPT ![newer[pc[t][2]]] = older[pc[t][2]]]
              /\ pc' = [pc EXCEPT ![t] = <<"free", pc[t][2]>>]
              /\ UNCHANGED <<nextmem, free, used, pool, pooled, refs, final, mode, newer, held, prog>>

FreeThread(t) ==
  /\ pc[t][1] = "free"
  /\ LET a == pc[t][2]
     IN  /\ IF mode[a] = "heap"
            THEN /\ \E b \in used : b.a = a /\ chHeapFree(b)
                 /\ UNCHANGED pool
            ELSE chPoolFree(a) /\ UNCHANGED <<free, used>>
         /\ mode' = [mode EXCEPT ![a] = "none"]
  /\ pc' = [pc EXCEPT ![t] = Idle]
  /\ UNCHANGED <<nextmem, pooled, refs, final, newer, older, held, prog>>

AddRef(t) == /\ Creator(t) /\ "addRef" \in prog
             /\ \E a \in Range(held[t]) : /\ Len(held[t]) < MaxRefs
                                          /\ refs' = [refs EXCEPT ![a] = @ + 1]
                                          /\ held' = [held EXCEPT ![t] = Append(@, a)]
             /\ UNCHANGED <<nextmem, free, used, pool, pooled, final, mode, newer, older, pc, prog>>

\* One step of a walk through the registry: from the first thread, main, or from
\* one the walk holds.  The next thread gains a reference, then the one it was
\* reached from is released.
chRegNextThread(t) ==
  /\ May("scan", t) /\ Solo(t)
  /\ \E from \in {Main} \cup Range(held[t]) :
       /\ from = Main => newer[Main] \in Addr /\ Len(held[t]) < MaxRefs
       /\ LET n == newer[from]
              kept == IF from = Main THEN held[t] ELSE RemoveFirst(held[t], from)
          IN  /\ refs' = [a \in Addr |-> refs[a] + (IF a = n THEN 1 ELSE 0)]
              /\ held' = [held EXCEPT ![t] = IF n = rlist THEN kept ELSE Append(kept, n)]
              /\ pc' = [pc EXCEPT ![t] = IF from = Main THEN Idle ELSE <<"release", from>>]
  /\ UNCHANGED <<nextmem, free, used, pool, pooled, final, mode, newer, older, prog>>

Next == \/ \E t \in Task : \/ Alloc(t) \/ CoreAlloc(t) \/ Allocated(t) \/ Free(t)
                           \/ CreateFromHeap(t) \/ CreateFromPool(t) \/ Created(t)
                           \/ Release(t) \/ Check(t) \/ Remove1(t) \/ Remove2(t)
                           \/ FreeThread(t) \/ AddRef(t) \/ chRegNextThread(t)
        \/ \E a \in Addr : Exit(a)

Spec == Init /\ [][Next]_vars

-----------------------------------------------------------------------------
(* Properties.                                                             *)

Units(b) == b.a .. LIMIT(b) - 1

\* The core memory handed out is exactly the heap's free and allocated blocks
\* and the pool's objects, without overlap: chHeapAlloc and chHeapFree neither
\* lose a unit nor give one out twice, whatever was split and joined before, and
\* what chCoreStatus and chHeapStatus report accounts for the rest.
MemoryTiles ==
  LET blocks == {Units(b) : b \in Range(free) \cup used} \cup {a .. a + ObjSize - 1 : a \in pooled}
  IN  /\ UNION blocks = 0 .. nextmem - 1
      /\ \A x, y \in blocks : x = y \/ x \cap y = {}
      /\ Cardinality(blocks) = Len(free) + Cardinality(used) + Cardinality(pooled)
      /\ chCoreStatus + chHeapStatus.size + HDR * chHeapStatus.blocks
           + MapThenSumSet(LAMBDA b : b.s + HDR, used) + ObjSize * Cardinality(pooled) = EndMem

\* The free list is ordered by address and no two neighbours touch: freed memory
\* does not stay in pieces.
FreeListJoined == \A i \in 1 .. Len(free) - 1 : LIMIT(free[i]) < free[i + 1].a

Released(a) == mode[a] = "none"

\* A reference keeps the thread it points to allocated: the one chThdCreate
\* returns, one added, and one that a walk through the registry was given.
NoUseAfterFree == \A t \in Task : \A a \in Range(held[t]) : ~Released(a) /\ refs[a] > 0

\* The threads reached through the registry, and through it backwards.
Reach(link) ==
  LET R[n \in 0 .. Cardinality(Addr) + 2] ==
        IF n = 0 THEN <<link[rlist]>>
        ELSE LET p == R[n - 1]
             IN  IF Last(p) = rlist THEN p ELSE Append(p, link[Last(p)])
  IN  R[Cardinality(Addr) + 2]

\* Between the calls of the task that creates and releases threads, the registry
\* holds, in both directions, main and exactly the threads that are allocated.
RegistryExact ==
  (\A t \in Task : pc[t][1] \notin {"remove1", "remove2", "free"}) =>
    /\ Reach(newer) = Append(Reverse(Front(Reach(older))), rlist)
    /\ Range(Reach(newer)) = {rlist, Main} \cup {a \in Addr : mode[a] # "none"}

\* Memory is neither lost nor given out twice, freed neighbours are joined, a
\* reference keeps its thread, the registry lists exactly the threads there are.
MemoryInv == MemoryTiles /\ FreeListJoined /\ NoUseAfterFree /\ RegistryExact
=============================================================================
