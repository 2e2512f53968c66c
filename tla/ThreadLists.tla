----------------------------- MODULE ThreadLists -----------------------------
(***************************************************************************)
(* What the thread lists of ChibiOS/RT promise: a ThreadsQueue is a        *)
(* sequence of threads, a ThreadsList a stack.  op names the last          *)
(* operation and the thread it inserted or returned.                       *)
(***************************************************************************)
EXTENDS Naturals, Sequences, SequencesExt

CONSTANTS Threads, Queues, Lists, Prio

VARIABLES lists, op

Outside(t) == \A l \in Queues \cup Lists : t \notin Range(lists[l])

\* Behind every thread of the same or a higher priority.
InPriorityOrder(s, t) ==
  LET i == SelectInSeq(s, LAMBDA o : Prio[o] < Prio[t])
  IN  IF i = 0 THEN Append(s, t) ELSE InsertAt(s, i, t)

Init == lists = [l \in Queues \cup Lists |-> <<>>] /\ op = <<"init">>

\* An operation of this name on a thread, and what becomes of the one list.
Op(name) == op' \in {name} \X Threads
Becomes(l, s) == lists' = [lists EXCEPT ![l] = s]
Inserts(name, l, s(_, _)) == Op(name) /\ Outside(op'[2]) /\ Becomes(l, s(lists[l], op'[2]))
Returns(name, l, t(_), s(_)) ==
  Op(name) /\ lists[l] # <<>> /\ op'[2] = t(lists[l]) /\ Becomes(l, s(lists[l]))

Push(s, t) == <<t>> \o s

Insert ==
  \/ \E l \in Queues : Inserts("prio_insert", l, InPriorityOrder) \/ Inserts("queue_insert", l, Append)
  \/ \E l \in Lists : Inserts("list_insert", l, Push)

Take ==
  \/ \E l \in Queues : \/ Returns("fifo_remove", l, Head, Tail)
                       \/ Returns("lifo_remove", l, Last, Front)
                       \/ \E i \in DOMAIN lists[l] : Returns("dequeue", l, LAMBDA s : s[i], LAMBDA s : RemoveAt(s, i))
  \/ \E l \in Lists : Returns("list_remove", l, Head, Tail)

Next == Insert \/ Take
Spec == Init /\ [][Next]_<<lists, op>>
=============================================================================
