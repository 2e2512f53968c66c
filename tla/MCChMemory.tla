------------------------------ MODULE MCChMemory ------------------------------
(* Two tasks on a small core memory: allocation, threads in allocated memory    *)
(* and a walk through the registry; and, in a program of its own, the thread    *)
(* lists, on a queue and a list.                                                *)
EXTENDS ChMemory, ChLists

CONSTANTS ta, tb, tc

MCPrio == [t \in {ta, tb, tc} |-> IF t = ta THEN 2 ELSE 1]
MCPrograms == {{"alloc"}, {"alloc", "create", "pool", "addRef"}, {"create", "pool", "addRef", "scan"}, {"lists"}}

MCInit == Init /\ ListsInit

MCSpec == /\ MCInit
          /\ [][\/ Next /\ UNCHANGED linkVars
                \/ "lists" \in prog /\ ListsNext /\ UNCHANGED vars]_<<vars, linkVars>>
=============================================================================
