------------------------------- MODULE ChLists -------------------------------
(***************************************************************************)
(* The thread lists of ChibiOS/RT as the code keeps them, links between    *)
(* the threads and the anchors of the lists (chlists.h, chlists.c; with    *)
(* CH_OPTIMIZE_SPEED the same functions are compiled from chinline.h).  An *)
(* unlinked thread keeps the links it had.  The lists implement            *)
(* ThreadLists.                                                            *)
(***************************************************************************)
EXTENDS Naturals, Sequences, FiniteSets

CONSTANTS Threads,   \* the threads
          Queues,    \* anchors of ThreadsQueues, linked both ways
          Lists,     \* anchors of ThreadsLists, linked one way
          Prio       \* p_prio of every thread

ASSUME PrioTyped == Prio \in [Threads -> Nat]
ASSUME NodesApart == IsFiniteSet(Threads) /\ Threads \cap (Queues \cup Lists) = {} /\ Queues \cap Lists = {}

VARIABLES p_next, p_prev, op

linkVars == <<p_next, p_prev, op>>
Anchors == Queues \cup Lists
Node == Threads \cup Anchors

\* queue_init and list_init: an empty list is its anchor, linked to itself.
ListsInit == /\ p_next = [n \in Node |-> n] /\ p_prev = [n \in Node |-> n]
             /\ op = <<"init">>

\* The threads of a list, from its anchor along the links of one direction.
Walk(link, l) ==
  LET W[i \in 0 .. Cardinality(Threads) + 1] ==
        IF i = 0 THEN <<link[l]>>
        ELSE LET p == W[i - 1]
             IN  IF p[Len(p)] \in Anchors THEN p ELSE Append(p, link[p[Len(p)]])
      w == W[Cardinality(Threads) + 1]
  IN  SubSeq(w, 1, Len(w) - 1)

Linked(t) == \E l \in Anchors : \E i \in 1 .. Len(Walk(p_next, l)) : Walk(p_next, l)[i] = t
isempty(l) == p_next[l] = l

\* tp goes in front of cp.
LinkBefore(t, cp) == /\ p_next' = [p_next EXCEPT ![t] = cp, ![p_prev[cp]] = t]
                     /\ p_prev' = [p_prev EXCEPT ![t] = p_prev[cp], ![cp] = t]

\* Mutant: in front of the threads of the same priority.
StopAt_equal(t, q) == {n \in Threads : Prio[n] <= Prio[t]} \cup {q}

\* Where the loop of prio_insert stops.
StopAt(t, q) == {n \in Threads : Prio[n] < Prio[t]} \cup {q}

prio_insert(t, q) ==
  LET path == Append(Walk(p_next, q), q)
      i == CHOOSE j \in 1 .. Len(path) : path[j] \in StopAt(t, q) /\ \A h \in 1 .. j - 1 : path[h] \notin StopAt(t, q)
  IN  LinkBefore(t, path[i]) /\ op' = <<"prio_insert", t>>

queue_insert(t, q) == LinkBefore(t, q) /\ op' = <<"queue_insert", t>>

fifo_remove(q) ==
  LET t == p_next[q]
  IN  /\ p_next' = [p_next EXCEPT ![q] = p_next[t]]
      /\ p_prev' = [p_prev EXCEPT ![p_next[t]] = q]
      /\ op' = <<"fifo_remove", t>>

lifo_remove(q) ==
  LET t == p_prev[q]
  IN  /\ p_prev' = [p_prev EXCEPT ![q] = p_prev[t]]
      /\ p_next' = [p_next EXCEPT ![p_prev[t]] = q]
      /\ op' = <<"lifo_remove", t>>

dequeue(t) == /\ p_next' = [p_next EXCEPT ![p_prev[t]] = p_next[t]]
              /\ p_prev' = [p_prev EXCEPT ![p_next[t]] = p_prev[t]]
              /\ op' = <<"dequeue", t>>

list_insert(t, l) == /\ p_next' = [p_next EXCEPT ![t] = p_next[l], ![l] = t]
                     /\ UNCHANGED p_prev
                     /\ op' = <<"list_insert", t>>

list_remove(l) == LET t == p_next[l]
                  IN  /\ p_next' = [p_next EXCEPT ![l] = p_next[t]]
                      /\ UNCHANGED p_prev
                      /\ op' = <<"list_remove", t>>

InQueue(t) == \E q \in Queues : \E i \in 1 .. Len(Walk(p_next, q)) : Walk(p_next, q)[i] = t

\* The kernel inserts a thread that is in no list, takes from a list that is not
\* empty, and unlinks a thread from a queue.
ListsNext ==
  \/ \E t \in Threads : /\ ~Linked(t)
                        /\ \/ \E q \in Queues : prio_insert(t, q) \/ queue_insert(t, q)
                           \/ \E l \in Lists : list_insert(t, l)
  \/ \E q \in Queues : ~isempty(q) /\ (fifo_remove(q) \/ lifo_remove(q))
  \/ \E t \in Threads : InQueue(t) /\ dequeue(t)
  \/ \E l \in Lists : ~isempty(l) /\ list_remove(l)

ListsSpec == ListsInit /\ [][ListsNext]_linkVars

-----------------------------------------------------------------------------
Abstract == INSTANCE ThreadLists WITH lists <- [l \in Anchors |-> Walk(p_next, l)]

\* The links implement sequences (chlists.c): whatever was inserted, taken and
\* unlinked before, and whatever stale links the threads carry, every operation
\* inserts the thread where its queue's order says and returns the right one.
ListsAreSequences == Abstract!Spec
=============================================================================
