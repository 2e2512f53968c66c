------------------------------- MODULE ChSched -------------------------------
(***************************************************************************)
(* The ChibiOS/RT 2.4 core: thread lists, scheduler, virtual timers, tick  *)
(* and thread life cycle (chlists.c, chschd.c, chvt.c, chsys.c,            *)
(* chthreads.c), with the options of chconf.h and no priority queues for   *)
(* semaphores and messages.                                                *)
(*                                                                         *)
(* The kernel's state is one record k, and a function of the kernel is an  *)
(* operator from such a record to the next: composition of calls is        *)
(* composition of operators.  What a call does after it has slept is kept  *)
(* in k.cont, frame by frame; while the running thread has a frame that is *)
(* not Unlocked, the kernel lock is held and nothing else can happen.      *)
(***************************************************************************)
EXTENDS Integers, Sequences, SequencesExt, FiniteSets

CONSTANTS Thread,          \* the threads of the application
          Idle,            \* the idle thread
          BasePrio,        \* the priority each thread is created with
          CH_TIME_QUANTUM, \* ticks of a round robin slot
          Sem, Mtx, Cond,  \* semaphores, mutexes, condition variables
          Ev,              \* event flags, numbered from 0
          Main,            \* the thread that runs main()
          MbSize, QSize    \* slots of the mailbox, bytes of an I/O queue

ASSUME PrioAssumption == /\ BasePrio \in [Thread \cup {Idle} -> 1 .. 127]
                         /\ \A t \in Thread : BasePrio[t] > BasePrio[Idle]
ASSUME MainAssumption == Main \in Thread /\ \A t \in Thread : BasePrio[t] <= BasePrio[Main]
ASSUME SizeAssumption == MbSize \in Nat \ {0} /\ QSize \in Nat \ {0}
ASSUME QuantumAssumption == CH_TIME_QUANTUM \in Nat \ {0}

All == Thread \cup {Idle}
Queue == Sem \cup Mtx \cup Cond \cup Thread \cup {"mb_full", "mb_empty", "iq", "oq"}

TIME_IMMEDIATE == 0
TIME_INFINITE  == -1
RDY_OK      == <<"msg", "OK">>
RDY_TIMEOUT == <<"msg", "TIMEOUT">>
RDY_RESET   == <<"msg", "RESET">>
NoU         == <<"none">>       \* p_u holds nothing anyone will read
Obj(o)      == <<"obj", o>>     \* p_u.wtobjp
Mask(m)     == <<"mask", m>>    \* p_u.ewmask
Unlocked    == <<"unlocked">>   \* frame: chSysUnlock, the call goes on

\* The thread structures: state, priorities, the union p_u, threads waiting for
\* the exit, references, owned mutexes and pending events; r is the result of the
\* call in progress and cont what is left of it.
ThreadInit(live) ==
  [st      |-> [t \in All |-> IF t = Main THEN "CURRENT"
                             ELSE IF t \in live THEN "READY" ELSE "FINAL"],
   prio    |-> BasePrio, real |-> BasePrio,
   u       |-> [t \in All |-> NoU],
   r       |-> [t \in All |-> RDY_OK],
   cont    |-> [t \in All |-> <<>>],
   waiting |-> [t \in Thread |-> <<>>],
   refs    |-> [t \in Thread |-> IF t \in live THEN 1 ELSE 0],
   term    |-> {},                         \* threads asked to terminate
   mtxlist |-> [t \in Thread |-> <<>>],
   epend   |-> [t \in Thread |-> {}]]

\* The ready list and the running thread when main has created the threads of
\* started, in the order of the ready list, and the empty timer list.
_scheduler_init(started) ==
  [rl |-> Append(started, Idle), cur |-> Main, preempt |-> CH_TIME_QUANTUM]
_vt_init == [vt |-> <<>>]                  \* delta list of <<thread, ticks>>

\* What the scheduler and the timers keep, as types.
ReadyList(k) == /\ k.cur \in All /\ k.preempt \in 0 .. CH_TIME_QUANTUM
                /\ k.rl \in Seq(All) /\ Len(k.rl) < Cardinality(All)
VTList(k) == /\ k.vt \in Seq(Thread \X Nat) /\ Len(k.vt) <= Cardinality(Thread)

-----------------------------------------------------------------------------
(* Lists.                                                                  *)

\* Behind every thread of the same or a higher priority.
prio_insert(prio, t, q) ==
  LET i == SelectInSeq(q, LAMBDA o : prio[o] < prio[t])
  IN  IF i = 0 THEN Append(q, t) ELSE InsertAt(q, i, t)

\* Unlinks t from the queue it is in: the ready list, or that of p_u.wtobjp.
dequeue(k, t) ==
  IF k.st[t] = "READY" THEN [k EXCEPT !.rl = Remove(@, t)]
                       ELSE [k EXCEPT !.q[k.u[t][2]] = Remove(@, t)]

-----------------------------------------------------------------------------
(* Scheduler.  Then adds what is left of the running thread's call.        *)

Then(k, frames) == [k EXCEPT !.cont[k.cur] = frames \o @]
Ret(k, v) == [k EXCEPT !.r[k.cur] = v]

chSchReadyI(k, t) == [k EXCEPT !.st[t] = "READY", !.rl = prio_insert(k.prio, t, @)]
ReadyWith(k, t, msg) == chSchReadyI([k EXCEPT !.u[t] = msg], t)

setcurrp(k, t) == [k EXCEPT !.cur = t, !.st[t] = "CURRENT", !.preempt = CH_TIME_QUANTUM]

chSchGoSleepS(k, newstate) ==
  setcurrp([k EXCEPT !.st[k.cur] = newstate, !.rl = Tail(@)], Head(k.rl))

chSchDoReschedule(k) == chSchReadyI(setcurrp([k EXCEPT !.rl = Tail(@)], Head(k.rl)), k.cur)

chSchIsRescRequiredI(k) == k.rl # <<>> /\ k.prio[Head(k.rl)] > k.prio[k.cur]
chSchRescheduleS(k) == IF chSchIsRescRequiredI(k) THEN chSchDoReschedule(k) ELSE k

chSchWakeupS(k, t, msg) ==
  LET w == [k EXCEPT !.u[t] = msg]
  IN  IF k.prio[t] <= k.prio[k.cur] THEN chSchReadyI(w, t)
                                    ELSE setcurrp(chSchReadyI(w, k.cur), t)

\* Mutant: never among equals.
chSchIsPreemptionRequired_strict(k) ==
  k.rl # <<>> /\ k.prio[Head(k.rl)] > k.prio[k.cur]

\* At the end of an interrupt: round robin only when the slot is used up.
chSchIsPreemptionRequired(k) ==
  /\ k.rl # <<>>
  /\ LET p1 == k.prio[Head(k.rl)]  p2 == k.prio[k.cur]
     IN  IF k.preempt > 0 THEN p1 > p2 ELSE p1 >= p2
chSchPreemption(k) == IF chSchIsPreemptionRequired(k) THEN chSchDoReschedule(k) ELSE k

chSchDoYieldS(k) ==
  IF k.rl # <<>> /\ k.prio[Head(k.rl)] >= k.prio[k.cur] THEN chSchDoReschedule(k) ELSE k

-----------------------------------------------------------------------------
(* Virtual timers: each entry counts from the one before it.               *)

chVTSetI(k, time, t) ==
  LET Sum[i \in 0 .. Len(k.vt)] == IF i = 0 THEN 0 ELSE Sum[i - 1] + k.vt[i][2]
      i == SelectInSeq([j \in 1 .. Len(k.vt) |-> Sum[j]], LAMBDA s : s >= time)
      rest == time - Sum[IF i = 0 THEN Len(k.vt) ELSE i - 1]
  IN  [k EXCEPT !.vt = IF i = 0 THEN Append(@, <<t, rest>>)
                       ELSE InsertAt([@ EXCEPT ![i][2] = @ - rest], i, <<t, rest>>)]

chVTIsArmedI(k, t) == \E i \in DOMAIN k.vt : k.vt[i][1] = t

chVTResetI(k, t) ==
  LET i == SelectInSeq(k.vt, LAMBDA e : e[1] = t)
      v == IF i = Len(k.vt) THEN k.vt ELSE [k.vt EXCEPT ![i + 1][2] = @ + k.vt[i][2]]
  IN  [k EXCEPT !.vt = RemoveAt(v, i)]

\* The timeout of a sleeping thread.  The thread may have been made ready
\* already, its timer still armed because it has not run since.
wakeup(k, t) ==
  CASE k.st[t] = "READY" -> k
    [] k.st[t] = "WTSEM" ->
         ReadyWith(dequeue([k EXCEPT !.cnt[k.u[t][2]] = @ + 1], t), t, RDY_TIMEOUT)
    [] k.st[t] \in {"WTQUEUE", "WTCOND"} -> ReadyWith(dequeue(k, t), t, RDY_TIMEOUT)
    [] OTHER -> ReadyWith(k, t, RDY_TIMEOUT)

chVTDoTickI(k) ==
  IF k.vt = <<>> THEN k
  ELSE LET v == [k.vt EXCEPT ![1][2] = @ - 1]
           i == SelectInSeq(v, LAMBDA e : e[2] > 0)
           n == IF i = 0 THEN Len(v) ELSE i - 1
       IN  FoldLeft(LAMBDA s, e : wakeup(s, e[1]),
                    [k EXCEPT !.vt = SubSeq(v, n + 1, Len(v))], SubSeq(v, 1, n))

\* The tick interrupt, with the preemption at its end.
chSysTimerHandlerI(k) ==
  chSchPreemption(chVTDoTickI([k EXCEPT !.preempt = IF @ > 0 THEN @ - 1 ELSE 0]))

\* Mutant: the timer, on the stack of the caller, stays armed.
Wake_armed(k) == Ret(k, k.u[k.cur])

\* The frame "wake" takes up a call when its sleep is over.
chSchGoSleepTimeoutS(k, newstate, time) ==
  LET w == Then(k, << <<"wake">> >>)
  IN  chSchGoSleepS(IF time = TIME_INFINITE THEN w ELSE chVTSetI(w, time, k.cur), newstate)

Wake(k) == LET w == IF chVTIsArmedI(k, k.cur) THEN chVTResetI(k, k.cur) ELSE k
           IN  Ret(w, k.u[k.cur])

-----------------------------------------------------------------------------
(* Threads.                                                                *)

\* A new life for t: every field of the structure is set.
_thread_init(k, t, prio) ==
  [k EXCEPT !.prio[t] = prio, !.real[t] = prio, !.st[t] = "SUSPENDED", !.u[t] = NoU,
            !.mtxlist[t] = <<>>, !.epend[t] = {}, !.refs[t] = 1, !.waiting[t] = <<>>,
            !.q[t] = <<>>, !.cont[t] = <<>>, !.term = @ \ {t}]

chThdCreateStatic(k, t) == chSchWakeupS(_thread_init(k, t, BasePrio[t]), t, RDY_OK)

chThdSetPriority(k, newprio) ==
  LET c == k.cur
  IN  chSchRescheduleS(
        [k EXCEPT !.prio[c] = IF @ = k.real[c] \/ newprio > @ THEN newprio ELSE @,
                  !.real[c] = newprio])

chThdResume(k, t) == chSchWakeupS(k, t, RDY_OK)
chThdTerminate(k, t) == [k EXCEPT !.term = @ \cup {t}]
chThdSleep(k, time) == chSchGoSleepTimeoutS(k, "SLEEPING", time)
chThdYield(k) == chSchDoYieldS(k)

\* The waiters become ready, the last to wait first; FINAL for good.
chThdExitS(k) ==
  LET c == k.cur
      w == FoldLeft(LAMBDA s, t : chSchReadyI(s, t), k, k.waiting[c])
  IN  chSchGoSleepS([w EXCEPT !.waiting[c] = <<>>], "FINAL")

chThdWait(k, t) ==
  LET w == Then(k, << Unlocked, <<"release", t>> >>)
  IN  IF k.st[t] = "FINAL" THEN w
      ELSE chSchGoSleepS([w EXCEPT !.waiting[t] = <<k.cur>> \o @], "WTEXIT")

\* The reference of a static thread: nothing is freed with the last one.
chThdAddRef(k, t) == [k EXCEPT !.refs[t] = @ + 1]
chThdRelease(k, t) == [k EXCEPT !.refs[t] = @ - 1]
=============================================================================
