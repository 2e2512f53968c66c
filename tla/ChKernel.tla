------------------------------ MODULE ChKernel -------------------------------
(***************************************************************************)
(* The kernel at work: the running thread makes system calls, interrupts   *)
(* make the I-class calls and end with a preemption check, and a call that *)
(* slept goes on where it left off.  A behaviour uses the calls of one     *)
(* member of Programs, so that one run covers the whole API.               *)
(***************************************************************************)
EXTENDS ChSync

CONSTANTS Programs,   \* sets of call names
          Times,      \* timeouts that are used
          Listener,   \* threads that wait for events
          Prios,      \* priorities given to chThdSetPriority
          MaxCount    \* bound on semaphore counters and references

VARIABLES k,          \* the kernel, see KInit
          calls       \* what the threads and interrupts of this behaviour call

vars == <<k, calls>>
SomeTime == Times \cup {TIME_INFINITE}
Masks == SUBSET Ev \ {{}}

\* The threads main has created, by falling priority, in every program but the
\* one that creates threads itself.
Started == SetToSortSeq(Thread \ {Main}, LAMBDA s, t : BasePrio[s] > BasePrio[t])

\* The objects as their initialisers leave them, put together.
ObjectsInit ==
  [q      |-> [o \in Queue |->              \* a thread names its message queue
                 CASE o \in Mtx -> chMtxInit.queue [] o \in Cond -> chCondInit.queue
                   [] OTHER -> chSemInit(0).queue],
   cnt    |-> [s \in Sem \cup {"mb_full", "mb_empty"} |->
                 CASE s = "mb_full" -> chMBInit.full.cnt [] s = "mb_empty" -> chMBInit.empty.cnt
                   [] OTHER -> chSemInit(0).cnt],
   owner  |-> [m \in Mtx |-> chMtxInit.owner],
   listen |-> chEvtInit.listen,
   mb     |-> [wr |-> chMBInit.wr, rd |-> chMBInit.rd, used |-> chMBInit.used],
   io     |-> [o \in {"iq", "oq"} |-> IF o = "oq" THEN chOQInit ELSE chIQInit]]

\* chSysInit, main as the first thread, and the threads main has created.
KInit(started) ==
  ThreadInit({Main, Idle} \cup Range(started)) @@ _scheduler_init(started) @@ _vt_init @@ ObjectsInit

Init == /\ calls \in Programs
        /\ k = KInit(IF "create" \in calls THEN <<>> ELSE Started)

\* What is left in p_u and in the result of a finished call is not read again.
Settled(w) ==
  LET done == {t \in All : w.cont[t] = <<>> /\ w.st[t] \in {"READY", "CURRENT", "FINAL"}}
  IN  [w EXCEPT !.u = [t \in All |-> IF t \in done THEN NoU ELSE @[t]],
                !.r = [t \in All |-> IF t \in done THEN RDY_OK ELSE @[t]]]

AtUser   == k.cont[k.cur] = <<>>
LockFree == ~AtUser => Head(k.cont[k.cur]) = Unlocked

\* A system call of the running thread, and a call from an interrupt.
Call(name, w) == name \in calls /\ k' = Settled(w) /\ UNCHANGED calls
FromISR(name, w) == Call(name, chSchPreemption(w))

-----------------------------------------------------------------------------
(* The rest of a call.                                                     *)

Resumed(w, f) ==
  CASE f[1] = "wake"    -> Wake(w)
    [] f[1] = "release" -> chThdRelease(w, f[2])
    [] f[1] = "relock"  -> Relock(w, f[2])
    [] f[1] = "evttake" -> EvtTake(w, f[2], f[3])
    [] f[1] = "msgtake" -> MsgTake(w)
    [] f[1] = "mbpost"  -> MBPosted(w, f[2])
    [] f[1] = "mbfetch" -> MBFetched(w)
    [] f[1] = "qgo"     -> QGo(w, f[2], f[3], f[4])
    [] f[1] = "qwoken"  -> QWoken(w, f[2], f[3], f[4])
    [] OTHER            -> w

Run == /\ ~AtUser
       /\ k' = Settled(Resumed([k EXCEPT !.cont[k.cur] = Tail(@)], Head(k.cont[k.cur])))
       /\ UNCHANGED calls

-----------------------------------------------------------------------------
(* Interrupts.                                                             *)

Tick == LockFree /\ k' = Settled(chSysTimerHandlerI(k)) /\ UNCHANGED calls

IrqSem == /\ LockFree
          /\ \E s \in Sem : \/ /\ k.cnt[s] < MaxCount
                               /\ \/ FromISR("semSignalI", chSemSignalI(k, s))
                                  \/ FromISR("semAddCounterI", chSemAddCounterI(k, s, 2))
                            \/ FromISR("semResetI", chSemResetI(k, s, 0))
                            \/ FromISR("bsemSignalI", chBSemSignalI(k, s))
IrqCond == /\ LockFree
           /\ \E c \in Cond : \/ FromISR("condSignalI", chCondSignalI(k, c))
                              \/ FromISR("condBroadcastI", chCondBroadcastI(k, c))
IrqEvt == /\ LockFree
          /\ \E m \in Masks : \/ \E t \in Listener : FromISR("evtSignalI", chEvtSignalFlagsI(k, t, m))
                              \/ FromISR("evtBroadcastI", chEvtBroadcastFlagsI(k, m))

\* Bound: no more mailbox calls once a counter is past the size of the mailbox,
\* which only the miscounts of chMBFetchI and chMBReset make happen.
CountsFit == \A s \in {"mb_full", "mb_empty"} : k.cnt[s] <= MbSize

IrqMailbox == /\ LockFree
              /\ CountsFit
              /\ \/ FromISR("mbPostI", chMBPostI(k))
                 \/ FromISR("mbPostI", chMBPostAheadI(k))
                 \/ FromISR("mbFetchI", chMBFetchI(k))
IrqQueue == /\ LockFree
            /\ \/ FromISR("iqPutI", chIQPutI(k))
               \/ FromISR("oqGetI", chOQGetI(k))
               \/ FromISR("iqResetI", chIQResetI(k))
               \/ FromISR("oqResetI", chOQResetI(k))

-----------------------------------------------------------------------------
(* System calls.                                                           *)

\* The idle thread waits for interrupts and calls nothing.
User == AtUser /\ k.cur # Idle

Threads ==
  /\ User
  /\ \/ \E t \in Thread : /\ k.st[t] = "FINAL" /\ k.refs[t] = 0
                          /\ Call("create", chThdCreateStatic(k, t))
     \/ \E p \in Prios : Call("setPriority", chThdSetPriority(k, p))
     \/ \E t \in Thread : k.st[t] = "SUSPENDED" /\ Call("create", chThdResume(k, t))
     \/ \E t \in Thread : /\ k.st[t] = "FINAL" /\ k.refs[t] = 0
                          /\ Call("create", _thread_init(k, t, BasePrio[t]))
     \/ \E t \in Thread : Call("terminate", chThdTerminate(k, t))
     \/ \E n \in Times : Call("sleep", chThdSleep(k, n))
     \/ Call("yield", chThdYield(k))
     \/ k.cur # Main /\ k.mtxlist[k.cur] = <<>> /\ Call("exit", chThdExitS(k))
     \/ \E t \in Thread \ {k.cur, Main} :
          /\ Cardinality({s \in Thread : Range(k.cont[s]) \cap {<<"release", t>>} # {}}) < k.refs[t]
          /\ Call("wait", chThdWait(k, t))
     \/ \E t \in Thread \ {Main} :
          k.refs[t] > 0 /\ k.refs[t] < MaxCount /\ Call("addRef", chThdAddRef(k, t))

Semaphores ==
  /\ User
  /\ \E s \in Sem :
       \/ \E n \in SomeTime \cup {TIME_IMMEDIATE} : Call("semWait", chSemWaitTimeoutS(k, s, n))
       \/ k.cnt[s] < MaxCount /\ Call("semSignal", chSemSignal(k, s))
       \/ \E n \in 0 .. 1 : Call("semReset", chSemReset(k, s, n))
       \/ \E z \in Sem \ {s} : k.cnt[s] < MaxCount /\ Call("semSignalWait", chSemSignalWait(k, s, z))
       \/ Call("bsemSignal", chBSemSignal(k, s))

Mutexes ==
  /\ User
  /\ \/ \E m \in Mtx : k.owner[m] # k.cur /\ Call("mtxLock", chMtxLockS(k, m))
     \/ \E m \in Mtx : Call("mtxTryLock", chMtxTryLockS(k, m))
     \/ k.mtxlist[k.cur] # <<>> /\ Call("mtxUnlock", chMtxUnlock(k))
     \/ Call("mtxUnlockAll", chMtxUnlockAll(k))
     \/ \E c \in Cond : \/ Call("condSignal", chCondSignal(k, c))
                        \/ Call("condBroadcast", chCondBroadcast(k, c))
                        \/ /\ k.mtxlist[k.cur] # <<>>
                           /\ \E n \in SomeTime : Call("condWait", chCondWaitTimeoutS(k, c, n))

Events ==
  /\ User
  /\ \/ \E m \in Masks :
          \/ /\ k.cur \in Listener
             /\ \/ Len(k.listen) < 2 /\ Call("evtRegister", chEvtRegisterMask(k, m))
                \/ Call("evtClear", chEvtClearFlags(k, m))
                \/ Call("evtAdd", chEvtAddFlags(k, m))
                \/ \E kind \in {"one", "any", "all"}, n \in SomeTime \cup {TIME_IMMEDIATE} :
                     Call("evtWait", chEvtWaitTimeout(k, kind, m, n))
          \/ \E t \in Listener : Call("evtSignal", chEvtSignalFlags(k, t, m))
          \/ Call("evtBroadcast", chEvtBroadcastFlags(k, m))
     \/ \E i \in DOMAIN k.listen : Call("evtUnregister", chEvtUnregister(k, k.listen[i]))

Messages ==
  /\ User
  /\ \/ \E t \in Thread \ {k.cur} : Call("msgSend", chMsgSend(k, t))
     \/ Call("msgWait", chMsgWait(k))
     \/ \E t \in Thread : /\ k.st[t] = "SNDMSG" /\ k.u[t] = Obj(k.cur)
                          /\ Call("msgRelease", chMsgRelease(k, t, RDY_OK))

Mailboxes ==
  /\ User /\ CountsFit
  /\ \/ \E n \in SomeTime \cup {TIME_IMMEDIATE} :
          \/ \E ahead \in BOOLEAN : Call("mbPost", chMBPostS(k, ahead, n))
          \/ Call("mbFetch", chMBFetchS(k, n))
     \/ Call("mbReset", chMBReset(k))

Queues ==
  /\ User
  /\ \E n \in 1 .. 2, time \in {TIME_IMMEDIATE, TIME_INFINITE, Min(Times)} :
       \/ Call("iqRead", chIQReadTimeout(k, n, time))
       \/ Call("oqWrite", chOQWriteTimeout(k, n, time))

Next == \/ Run \/ Tick
        \/ IrqSem \/ IrqCond \/ IrqEvt \/ IrqMailbox \/ IrqQueue
        \/ Threads \/ Semaphores \/ Mutexes \/ Events \/ Messages \/ Mailboxes \/ Queues

\* The processor executes, and a tick, which the timer holds pending while the
\* lock masks it, is served when the lock is free often enough: weak fairness of
\* Run and strong fairness of Tick, written out because ~AtUser is
\* ENABLED <<Run>>_vars and TickDue is ENABLED <<Tick>>_vars.
TickDue == LockFree /\ Settled(chSysTimerHandlerI(k)) # k
Fairness == /\ []<>AtUser \/ []<><<Run>>_vars
            /\ <>[]~TickDue \/ []<><<Tick>>_vars

Spec == Init /\ [][Next]_vars /\ Fairness

-----------------------------------------------------------------------------
(* Properties.                                                             *)

\* Type invariant: the structures of chschd.h, chvt.h, chsem.h, chmtx.h,
\* chcond.h, chevents.h, chmboxes.h and chqueues.h.
TypeOK ==
  /\ ReadyList(k) /\ VTList(k)
  /\ \A s \in Sem : [queue |-> k.q[s], cnt |-> k.cnt[s]] \in
       IF "bsemSignal" \in calls THEN BinarySemaphore ELSE Semaphore
  /\ \A m \in Mtx : [queue |-> k.q[m], owner |-> k.owner[m]] \in Mutex
  /\ \A c \in Cond : [queue |-> k.q[c]] \in CondVar
  /\ [listen |-> k.listen] \in EventSource
  /\ k.mb \in Mailbox
  /\ \A o \in {"iq", "oq"} : k.io[o] \in GenericQueue

\* The kernel's structures (chlists.c, chschd.c): one thread runs, the ready list is sorted, and every
\* thread that is not running is in the one list its state names, which for a
\* thread that waits for an exit is that of a thread still alive.
QueuesConsistent ==
  /\ \A t \in All : (k.st[t] = "CURRENT") <=> (t = k.cur)
  /\ \A i, j \in DOMAIN k.rl : i < j => k.rl[i] # k.rl[j] /\ k.prio[k.rl[i]] >= k.prio[k.rl[j]]
  /\ \A t \in All : (t \in Range(k.rl)) <=> (k.st[t] = "READY")
  /\ \A o \in Queue : \A t \in All :
       (t \in Range(k.q[o])) <=> /\ k.st[t] \in {"WTSEM", "WTMTX", "WTCOND", "WTQUEUE", "SNDMSGQ"}
                                 /\ k.u[t] = Obj(o)
  /\ \A t \in Thread : (k.st[t] = "WTEXIT") <=>
       \E s \in Thread : k.st[s] # "FINAL" /\ t \in Range(k.waiting[s])
  /\ \A m \in Mtx \cup Cond : \A i, j \in DOMAIN k.q[m] :
       i < j => k.q[m][i] # k.q[m][j] /\ k.prio[k.q[m][i]] >= k.prio[k.q[m][j]]

\* Outside the kernel lock no ready thread has a higher priority than the
\* running one: every call that can raise or lower a priority or wake a thread
\* reschedules before it unlocks.
HighestRuns == LockFree => \A t \in Range(k.rl) : k.prio[t] <= k.prio[k.cur]

\* A negative semaphore counter is the number of threads waiting, through
\* timeouts, resets and signals from interrupts: a thread never waits on a
\* semaphore that has units left.
SemCountsWaiters ==
  \A s \in DOMAIN k.cnt : Len(k.q[s]) = IF k.cnt[s] < 0 THEN -k.cnt[s] ELSE 0

\* A timer on the stack of a call is armed only while that call sleeps or is
\* about to go on: no timer outlives the stack frame it is in.
NoDanglingTimer ==
  \A i \in DOMAIN k.vt : LET t == k.vt[i][1]
                         IN  /\ k.vt[i][2] >= 0
                             /\ k.st[t] # "FINAL"
                             /\ k.cont[t] # <<>> /\ Head(k.cont[t]) = <<"wake">>

\* The owner of a mutex runs at least at the priority of every thread that
\* waits for it, along chains of mutexes, and a thread that owns none is back at
\* its own priority.
PriorityInherited ==
  "setPriority" \notin calls =>
    /\ \A m \in Mtx : /\ k.q[m] # <<>> => k.owner[m] # Idle
                      /\ \A t \in Range(k.q[m]) : k.prio[k.owner[m]] >= k.prio[t]
    /\ \A t \in Thread : k.mtxlist[t] = <<>> => k.prio[t] = k.real[t]
    /\ \A t \in Thread, m \in Mtx : (k.owner[m] = t) <=> (m \in Range(k.mtxlist[t]))

\* A thread sleeps for events only while what it waits for is not pending: a
\* signal between the test and the sleep, or a broadcast to it, is never missed.
NoLostEvent ==
  \A t \in Thread : /\ k.st[t] = "WTOREVT"  => k.epend[t] \cap k.u[t][2] = {}
                    /\ k.st[t] = "WTANDEVT" => ~(k.u[t][2] \subseteq k.epend[t])

\* A receiver sleeps only while no sender is in its queue.
NoLostMessage == \A t \in Thread : k.st[t] = "WTMSG" => k.q[t] = <<>>

\* Threads that have been granted what the frames of F take and have not yet
\* taken it.
Granted(F) == {t \in Thread : /\ Range(k.cont[t]) \cap F # {}
                              /\ k.st[t] \in {"READY", "CURRENT"}
                              /\ IF Head(k.cont[t]) = <<"wake">> THEN k.u[t] = RDY_OK
                                 ELSE k.r[t] = RDY_OK}

\* The messages of the mailbox fill the slots from the read to the write
\* pointer, and every message and every free slot is counted by its semaphore or
\* granted to a thread that has not run yet: nothing is overwritten, lost or
\* fetched twice.  chMBReset forgets the grants and chMBFetchI does not count.
MailboxExact ==
  calls \cap {"mbReset", "mbFetchI"} = {} =>
    LET n == Cardinality(k.mb.used)
    IN  /\ k.mb.used = {Slot(k.mb.rd + i) : i \in 0 .. n - 1}
        /\ k.mb.wr = Slot(k.mb.rd + n)
        /\ n = (IF k.cnt["mb_full"] > 0 THEN k.cnt["mb_full"] ELSE 0)
               + Cardinality(Granted({<<"mbfetch">>}))
        /\ MbSize - n = (IF k.cnt["mb_empty"] > 0 THEN k.cnt["mb_empty"] ELSE 0)
                        + Cardinality(Granted({"mbpost"} \X BOOLEAN))

\* The counter of a byte queue is what its pointers say, and when threads wait
\* although there is something for them, as many have been woken and will take
\* it: no byte and no free place is left with everybody asleep.
NoLostWakeup ==
  \A o \in {"iq", "oq"} :
    /\ k.io[o].n \in 0 .. QSize
    /\ (IF o = "iq" THEN k.io[o].wr - k.io[o].rd ELSE k.io[o].rd - k.io[o].wr) % QSize
         = k.io[o].n % QSize
    /\ k.q[o] # <<>> => k.io[o].n <= Cardinality(Granted({"qwoken"} \X {o} \X (1 .. 2) \X SomeTime))

\* The calls with a timeout end: a sleeping thread whose timer is armed becomes
\* ready.
TimeoutEnds == \A t \in Thread : []<>(~chVTIsArmedI(k, t) \/ k.st[t] \in {"READY", "CURRENT"})

\* Round robin: a thread does not stay ready for ever while threads of its own
\* or a lower priority run.
RoundRobin == \A t \in Thread : []<>~(k.st[t] = "READY" /\ k.prio[t] >= k.prio[k.cur])

\* What every list, counter and timer of the kernel says of the threads is true
\* whenever the lock is free, whoever woke whom.
KernelInv == TypeOK /\ QueuesConsistent /\ SemCountsWaiters /\ NoDanglingTimer

\* The scheduler's promise: the highest priority runs, and an owner has at least
\* the priority of those who wait for its mutexes.
PriorityRules == HighestRuns /\ PriorityInherited

\* Nobody sleeps for what is already there: event flags, messages, mailbox slots
\* and queued bytes.
NothingLost == NoLostEvent /\ NoLostMessage /\ MailboxExact /\ NoLostWakeup

\* Timed waits end, and equals take turns.
ThreadsProgress == TimeoutEnds /\ RoundRobin
=============================================================================
