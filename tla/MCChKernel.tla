----------------------------- MODULE MCChKernel ------------------------------
(* main above two threads of the same priority; each program is one part of  *)
(* the API with what it needs to make its threads sleep and wake.            *)
EXTENDS ChKernel

CONSTANTS main, a, b, idle

MCPrio == main :> 3 @@ a :> 2 @@ b :> 2 @@ idle :> 1

Life == {"create", "exit", "wait", "addRef", "yield", "sleep"}
Life2 == {"create", "exit", "setPriority", "terminate", "yield"}
Sems == {"semWait", "semSignal", "semReset", "semSignalI"}
Sems2 == {"semWait", "semSignalWait", "semAddCounterI", "semResetI"}
Bins == {"semWait", "bsemSignal", "bsemSignalI", "semResetI"}
Mtxs == {"mtxLock", "mtxTryLock", "mtxUnlock", "mtxUnlockAll", "sleep"}
Conds == {"mtxLock", "mtxUnlock", "condWait", "condSignal", "condBroadcast", "condSignalI", "condBroadcastI"}
Evts == {"sleep", "evtWait", "evtSignal", "evtClear", "evtAdd", "evtSignalI"}
Evts2 == {"sleep", "evtWait", "evtRegister", "evtUnregister", "evtBroadcast", "evtBroadcastI"}
Msgs == {"msgSend", "msgWait", "msgRelease", "sleep"}
Mbs == {"mbPost", "mbFetch", "mbPostI"}
Mbs2 == {"mbFetch", "mbPostI", "mbFetchI"}
Mbs3 == {"mbPost", "mbFetch", "mbReset"}
Qs == {"iqRead", "iqPutI", "iqResetI"}
Qs2 == {"oqWrite", "oqGetI", "oqResetI"}

MCPrograms == {Life, Life2, Sems, Sems2, Bins, Mtxs, Conds, Evts, Evts2, Msgs, Mbs, Mbs2, Mbs3,
               Qs, Qs2}
=============================================================================
