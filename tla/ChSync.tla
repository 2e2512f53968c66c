------------------------------- MODULE ChSync -------------------------------
(***************************************************************************)
(* Synchronisation and communication in ChibiOS/RT: semaphores, mutexes    *)
(* and condition variables, events, messages, the mailbox, byte queues.    *)
(* Operators over the kernel state of ChSched.                             *)
(***************************************************************************)
EXTENDS ChSched, FiniteSetsExt

(***************************************************************************)
(* Counting and binary semaphores (chsem.c, chbsem.h).  A negative counter *)
(* is the number of threads in the queue.                                  *)
(***************************************************************************)
\* A queue and a counter.
chSemInit(n) == [queue |-> <<>>, cnt |-> n]
Semaphore == [queue : Seq(Thread), cnt : Int]
BinarySemaphore == [queue : Seq(Thread), cnt : {n \in Int : n <= 1}]

\* chSemWait is the wait without end.
chSemWaitTimeoutS(k, s, time) ==
  LET c == k.cur
      w == [k EXCEPT !.cnt[s] = @ - 1]
  IN  CASE w.cnt[s] >= 0          -> Ret(w, RDY_OK)
        [] time = TIME_IMMEDIATE  -> Ret(k, RDY_TIMEOUT)
        [] OTHER -> chSchGoSleepTimeoutS([w EXCEPT !.u[c] = Obj(s), !.q[s] = Append(@, c)],
                                         "WTSEM", time)

\* Every waiter is released, the last to come first.
chSemResetI(k, s, n) ==
  LET released == IF k.cnt[s] < 0 THEN Reverse(k.q[s]) ELSE <<>>
  IN  FoldLeft(LAMBDA w, t : ReadyWith([w EXCEPT !.q[s] = Front(@)], t, RDY_RESET),
               [k EXCEPT !.cnt[s] = n], released)
chSemReset(k, s, n) == chSchRescheduleS(chSemResetI(k, s, n))

chSemSignal(k, s) ==
  LET w == [k EXCEPT !.cnt[s] = @ + 1]
  IN  IF w.cnt[s] > 0 THEN w
      ELSE chSchWakeupS([w EXCEPT !.q[s] = Tail(@)], Head(k.q[s]), RDY_OK)

chSemSignalI(k, s) ==
  LET w == [k EXCEPT !.cnt[s] = @ + 1]
  IN  IF w.cnt[s] > 0 THEN w
      ELSE ReadyWith([w EXCEPT !.q[s] = Tail(@)], Head(k.q[s]), RDY_OK)

chSemAddCounterI(k, s, n) == FoldLeft(LAMBDA w, i : chSemSignalI(w, s), k, [i \in 1 .. n |-> i])

\* One lock around both: nobody runs between the signal and the wait.
chSemSignalWait(k, sps, spw) ==
  LET w == chSemSignalI(k, sps)
  IN  IF w.cnt[spw] > 0 THEN chSchRescheduleS([w EXCEPT !.cnt[spw] = @ - 1])
      ELSE chSemWaitTimeoutS(w, spw, TIME_INFINITE)

chBSemSignalI(k, s) == IF k.cnt[s] < 1 THEN chSemSignalI(k, s) ELSE k
chBSemSignal(k, s) == chSchRescheduleS(chBSemSignalI(k, s))

-----------------------------------------------------------------------------
(***************************************************************************)
(* Mutexes with priority inheritance and condition variables (chmtx.c,     *)
(* chcond.c).  Idle, which never locks, stands for a NULL owner.           *)
(***************************************************************************)
chMtxInit == [queue |-> <<>>, owner |-> Idle]
Mutex == [queue : Seq(Thread), owner : All]
chCondInit == [queue |-> <<>>]
CondVar == [queue : Seq(Thread)]

Owned(k, m, t) == [k EXCEPT !.owner[m] = t, !.mtxlist[t] = <<m>> \o @]
FirstWaiter(k, m) == k.q[m][1]

\* Each round raises one owner and moves it in the queue it is in; the chain
\* <<state, thread at hand>> ends with Idle.
InheritRound(a, p) ==
  LET w == a[1]  o == a[2]
      v == [w EXCEPT !.prio[o] = p]
  IN  CASE o = Idle \/ w.prio[o] >= p -> <<w, Idle>>
        [] w.st[o] = "WTMTX" ->
             <<[v EXCEPT !.q[w.u[o][2]] = prio_insert(v.prio, o, Remove(@, o))],
               w.owner[w.u[o][2]]>>
        [] w.st[o] = "WTCOND" ->
             <<[v EXCEPT !.q[w.u[o][2]] = prio_insert(v.prio, o, Remove(@, o))], Idle>>
        [] w.st[o] = "READY" -> <<chSchReadyI(dequeue(v, o), o), Idle>>
        [] OTHER -> <<v, Idle>>

\* Mutant: only the owner is raised, not the owners it waits for.
Inherit_once(k, m) == InheritRound(<<k, k.owner[m]>>, k.prio[k.cur])[1]

\* The chain of owners, from the mutex the running thread must wait for: each
\* gets the running thread's priority.
Inherit(k, m) ==
  FoldLeft(LAMBDA a, i : InheritRound(a, k.prio[k.cur]), <<k, k.owner[m]>>,
           [i \in 1 .. Cardinality(Thread) |-> i])[1]

chMtxLockS(k, m) ==
  IF k.owner[m] = Idle THEN Owned(k, m, k.cur)
  ELSE LET w == Inherit(k, m)
       IN  chSchGoSleepS([w EXCEPT !.q[m] = prio_insert(w.prio, k.cur, @),
                                   !.u[k.cur] = Obj(m)], "WTMTX")

chMtxTryLockS(k, m) == IF k.owner[m] # Idle THEN k ELSE Owned(k, m, k.cur)

\* The priority left to the running thread by the mutexes it keeps.
Disinherited(k, t, kept) ==
  FoldLeft(LAMBDA p, m : IF k.q[m] # <<>> /\ k.prio[FirstWaiter(k, m)] > p
                         THEN k.prio[FirstWaiter(k, m)] ELSE p,
           k.real[t], kept)

\* The last mutex locked goes to its first waiter, who is to be made ready.
HandOver(k) ==
  LET c == k.cur  m == Head(k.mtxlist[c])
      w == [k EXCEPT !.mtxlist[c] = Tail(@)]
  IN  IF k.q[m] = <<>> THEN [w EXCEPT !.owner[m] = Idle]
      ELSE Owned([w EXCEPT !.q[m] = Tail(@),
                           !.prio[c] = Disinherited(k, c, Tail(k.mtxlist[c]))],
                 m, FirstWaiter(k, m))

chMtxUnlock(k) ==
  LET m == Head(k.mtxlist[k.cur])
  IN  IF k.q[m] = <<>> THEN HandOver(k)
      ELSE chSchWakeupS(HandOver(k), FirstWaiter(k, m), RDY_OK)

chMtxUnlockS(k) ==
  LET m == Head(k.mtxlist[k.cur])
  IN  IF k.q[m] = <<>> THEN HandOver(k) ELSE chSchReadyI(HandOver(k), FirstWaiter(k, m))

GiveUp(k, c, m) ==
  LET w == [k EXCEPT !.mtxlist[c] = Tail(@)]
  IN  IF k.q[m] = <<>> THEN [w EXCEPT !.owner[m] = Idle]
      ELSE chSchReadyI(Owned([w EXCEPT !.q[m] = Tail(@)], m, FirstWaiter(k, m)),
                       FirstWaiter(k, m))

chMtxUnlockAll(k) ==
  IF k.mtxlist[k.cur] = <<>> THEN k
  ELSE chSchRescheduleS(
         [FoldLeft(LAMBDA w, m : GiveUp(w, k.cur, m), k, k.mtxlist[k.cur])
            EXCEPT !.prio[k.cur] = k.real[k.cur]])

-----------------------------------------------------------------------------
(* Condition variables.                                                    *)

chCondSignal(k, c) ==
  IF k.q[c] = <<>> THEN k
  ELSE chSchWakeupS([k EXCEPT !.q[c] = Tail(@)], Head(k.q[c]), RDY_OK)

chCondSignalI(k, c) ==
  IF k.q[c] = <<>> THEN k ELSE ReadyWith([k EXCEPT !.q[c] = Tail(@)], Head(k.q[c]), RDY_OK)

chCondBroadcastI(k, c) ==
  FoldLeft(LAMBDA w, t : ReadyWith(w, t, RDY_RESET), [k EXCEPT !.q[c] = <<>>], k.q[c])
chCondBroadcast(k, c) == chSchRescheduleS(chCondBroadcastI(k, c))

\* The mutex given up is taken back by the frame, but not after a timeout.
chCondWaitTimeoutS(k, c, time) ==
  LET m == Head(k.mtxlist[k.cur])
      w == chMtxUnlockS(Then(k, << <<"relock", m>> >>))
  IN  chSchGoSleepTimeoutS([w EXCEPT !.u[k.cur] = Obj(c),
                                     !.q[c] = prio_insert(w.prio, k.cur, @)], "WTCOND", time)

Relock(k, m) == IF k.r[k.cur] = RDY_TIMEOUT THEN k ELSE chMtxLockS(k, m)

-----------------------------------------------------------------------------
(***************************************************************************)
(* Event flags and sources (chevents.c).  A mask is a set of flags; the    *)
(* listeners of the one source are <<thread, mask>>, the last first.       *)
(***************************************************************************)
chEvtInit == [listen |-> <<>>]
EventSource == [listen : Seq(Thread \X SUBSET Ev)]

chEvtRegisterMask(k, mask) == [k EXCEPT !.listen = << <<k.cur, mask>> >> \o @]
chEvtUnregister(k, elp) == [k EXCEPT !.listen = RemoveFirst(@, elp)]
chEvtClearFlags(k, mask) == [k EXCEPT !.epend[k.cur] = @ \ mask]
chEvtAddFlags(k, mask) == [k EXCEPT !.epend[k.cur] = @ \cup mask]

chEvtSignalFlagsI(k, t, mask) ==
  LET w == [k EXCEPT !.epend[t] = @ \cup mask]
  IN  CASE k.st[t] = "WTOREVT"  /\ w.epend[t] \cap k.u[t][2] # {}     -> ReadyWith(w, t, RDY_OK)
        [] k.st[t] = "WTANDEVT" /\ k.u[t][2] \subseteq w.epend[t]     -> ReadyWith(w, t, RDY_OK)
        [] OTHER -> w
chEvtSignalFlags(k, t, mask) == chSchRescheduleS(chEvtSignalFlagsI(k, t, mask))

chEvtBroadcastFlagsI(k, mask) ==
  FoldLeft(LAMBDA w, l : chEvtSignalFlagsI(w, l[1], l[2] \cup mask), k, k.listen)
chEvtBroadcastFlags(k, mask) == chSchRescheduleS(chEvtBroadcastFlagsI(k, mask))

\* What chEvtWaitOne, WaitAny and WaitAll are waiting for, and what they take.
EvtReady(k, kind, mask) ==
  IF kind = "all" THEN mask \subseteq k.epend[k.cur] ELSE mask \cap k.epend[k.cur] # {}
EvtTaken(k, kind, mask) ==
  LET m == k.epend[k.cur] \cap mask
  IN  CASE kind = "one" -> {CHOOSE e \in m : \A f \in m : e <= f}
        [] kind = "any" -> m
        [] kind = "all" -> mask

\* The end of a wait: nothing is taken when it timed out.
EvtTake(k, kind, mask) ==
  IF k.r[k.cur] = RDY_OK THEN [k EXCEPT !.epend[k.cur] = @ \ EvtTaken(k, kind, mask)] ELSE k

\* The six wait functions; the ones without timeout wait without end.
chEvtWaitTimeout(k, kind, mask, time) ==
  CASE EvtReady(k, kind, mask) -> EvtTake(k, kind, mask)
    [] ~EvtReady(k, kind, mask) /\ time = TIME_IMMEDIATE -> k
    [] OTHER -> chSchGoSleepTimeoutS(
                  [Then(k, << <<"evttake", kind, mask>> >>) EXCEPT !.u[k.cur] = Mask(mask)],
                  IF kind = "all" THEN "WTANDEVT" ELSE "WTOREVT", time)

-----------------------------------------------------------------------------
(***************************************************************************)
(* Synchronous messages (chmsg.c): the sender sleeps in the receiver's     *)
(* queue until the receiver has taken and released it.                     *)
(***************************************************************************)
chMsgSend(k, t) ==
  LET c == k.cur
      w == [Then(k, << <<"wake">> >>) EXCEPT !.u[c] = Obj(t), !.q[t] = Append(@, c)]
  IN  chSchGoSleepS(IF k.st[t] = "WTMSG" THEN chSchReadyI(w, t) ELSE w, "SNDMSGQ")

chMsgWait(k) ==
  LET w == Then(k, << <<"msgtake">> >>)
  IN  IF k.q[k.cur] = <<>> THEN chSchGoSleepS(w, "WTMSG") ELSE w

MsgTake(k) == LET c == k.cur
              IN  [k EXCEPT !.q[c] = Tail(@), !.st[Head(k.q[c])] = "SNDMSG"]

chMsgRelease(k, t, msg) == chSchWakeupS(k, t, msg)

-----------------------------------------------------------------------------
(***************************************************************************)
(* The mailbox (chmboxes.c): a ring of MbSize slots between two counting   *)
(* semaphores.  used, the slots with a message nobody has fetched, is not  *)
(* in the code: it follows the contents for the properties.                *)
(***************************************************************************)

Slot(i) == i % MbSize

chMBInit == [wr |-> 0, rd |-> 0, used |-> {}, full |-> chSemInit(0), empty |-> chSemInit(MbSize)]
Mailbox == [wr : 0 .. MbSize - 1, rd : 0 .. MbSize - 1, used : SUBSET (0 .. MbSize - 1)]

chMBReset(k) ==
  LET w == [k EXCEPT !.mb = [wr |-> 0, rd |-> 0, used |-> {}]]
  IN  chSchRescheduleS(chSemResetI(chSemResetI(w, "mb_empty", MbSize), "mb_full", 0))

\* One slot filled, at the write pointer or, ahead, before the read pointer.
MBPut(k, ahead) ==
  LET i == IF ahead THEN Slot(k.mb.rd + MbSize - 1) ELSE k.mb.wr
      m == [k.mb EXCEPT !.wr = IF ahead THEN @ ELSE Slot(@ + 1),
                        !.rd = IF ahead THEN i ELSE @,
                        !.used = @ \cup {i}]
  IN  chSemSignalI([k EXCEPT !.mb = m], "mb_full")

MBTake(k) ==
  chSemSignalI([k EXCEPT !.mb = [@ EXCEPT !.rd = Slot(@ + 1), !.used = @ \ {k.mb.rd}]],
               "mb_empty")

\* chMBPost and chMBPostAhead; the frame goes on when a slot has been granted.
chMBPostS(k, ahead, time) ==
  chSemWaitTimeoutS(Then(k, << <<"mbpost", ahead>> >>), "mb_empty", time)

MBPosted(k, ahead) ==
  IF k.r[k.cur] = RDY_OK THEN chSchRescheduleS(MBPut(k, ahead)) ELSE k

chMBFetchS(k, time) == chSemWaitTimeoutS(Then(k, << <<"mbfetch">> >>), "mb_full", time)
MBFetched(k) == IF k.r[k.cur] = RDY_OK THEN chSchRescheduleS(MBTake(k)) ELSE k

\* From interrupts.
chMBPostI(k) ==
  IF k.cnt["mb_empty"] <= 0 THEN k ELSE MBPut([k EXCEPT !.cnt["mb_empty"] = @ - 1], FALSE)
chMBPostAheadI(k) ==
  IF k.cnt["mb_empty"] <= 0 THEN k ELSE MBPut([k EXCEPT !.cnt["mb_empty"] = @ - 1], TRUE)

\* The count of full slots is not taken down.
chMBFetchI(k) == IF k.cnt["mb_full"] <= 0 THEN k ELSE MBTake(k)

-----------------------------------------------------------------------------
(***************************************************************************)
(* The byte queues between threads and drivers (chqueues.c): an input      *)
(* queue "iq" counts its bytes, an output queue "oq" its free places; the  *)
(* notification callback is NULL.                                          *)
(***************************************************************************)
Next1(i) == (i + 1) % QSize

chIQInit == [n |-> 0, wr |-> 0, rd |-> 0]
chOQInit == [n |-> QSize, wr |-> 0, rd |-> 0]
GenericQueue == [n : 0 .. QSize, wr : 0 .. QSize - 1, rd : 0 .. QSize - 1]

\* The thread side waits when there is nothing for it: no byte, or no place.
QNone(k, o) == k.io[o].n <= 0

\* The driver side is refused: iq full, or oq empty.
QRefused(k, o) == k.io[o].wr = k.io[o].rd /\ k.io[o].n # 0

qwait(k, o, time) ==
  IF time = TIME_IMMEDIATE THEN Ret(k, RDY_TIMEOUT)
  ELSE chSchGoSleepTimeoutS([k EXCEPT !.u[k.cur] = Obj(o), !.q[o] = Append(@, k.cur)],
                            "WTQUEUE", time)

\* The pointers and the counter start again, every waiter is released.
chIQResetI(k) ==
  FoldLeft(LAMBDA w, t : ReadyWith(w, t, RDY_RESET),
           [k EXCEPT !.io["iq"] = chIQInit, !.q["iq"] = <<>>], k.q["iq"])
chOQResetI(k) ==
  FoldLeft(LAMBDA w, t : ReadyWith(w, t, RDY_RESET),
           [k EXCEPT !.io["oq"] = chOQInit, !.q["oq"] = <<>>], k.q["oq"])

\* Mutant: a waiter is woken only when the queue was empty.
QWake_empty(k, o) ==
  IF k.q[o] = <<>> \/ k.io[o].n > 1 THEN k
  ELSE ReadyWith([k EXCEPT !.q[o] = Tail(@)], Head(k.q[o]), RDY_OK)

QWake(k, o) ==
  IF k.q[o] = <<>> THEN k ELSE ReadyWith([k EXCEPT !.q[o] = Tail(@)], Head(k.q[o]), RDY_OK)

chIQPutI(k) ==
  IF QRefused(k, "iq") THEN k
  ELSE QWake([k EXCEPT !.io["iq"] = [@ EXCEPT !.n = @ + 1, !.wr = Next1(@)]], "iq")

chOQGetI(k) ==
  IF QRefused(k, "oq") THEN k
  ELSE QWake([k EXCEPT !.io["oq"] = [@ EXCEPT !.n = @ + 1, !.rd = Next1(@)]], "oq")

\* n bytes, the lock released between them; a woken thread looks again.
chIQReadTimeout(k, n, time) ==
  IF QNone(k, "iq") THEN qwait(Then(k, << <<"qwoken", "iq", n, time>> >>), "iq", time)
  ELSE LET w == [k EXCEPT !.io["iq"] = [@ EXCEPT !.n = @ - 1, !.rd = Next1(@)]]
       IN  IF n = 1 THEN w ELSE Then(w, << Unlocked, <<"qgo", "iq", n - 1, time>> >>)

chOQWriteTimeout(k, n, time) ==
  IF QNone(k, "oq") THEN qwait(Then(k, << <<"qwoken", "oq", n, time>> >>), "oq", time)
  ELSE LET w == [k EXCEPT !.io["oq"] = [@ EXCEPT !.n = @ - 1, !.wr = Next1(@)]]
       IN  IF n = 1 THEN w ELSE Then(w, << Unlocked, <<"qgo", "oq", n - 1, time>> >>)

QGo(k, o, n, time) == IF o = "iq" THEN chIQReadTimeout(k, n, time) ELSE chOQWriteTimeout(k, n, time)

QWoken(k, o, n, time) == IF k.r[k.cur] = RDY_OK THEN QGo(k, o, n, time) ELSE k
=============================================================================
