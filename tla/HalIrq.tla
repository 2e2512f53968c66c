------------------------------- MODULE HalIrq -------------------------------
(***************************************************************************)
(* Interrupt control of the HAL (alt_irq.h, alt_legacy_irq.h, alt_iic.c,   *)
(* alt_iic_isr_register.c, alt_irq_handler.c) one register access at a     *)
(* time: the global enable, the per-source enables kept in alt_irq_active, *)
(* handlers that are registered while sources fire, and handlers that let  *)
(* themselves be interrupted.  Hal takes the regions with interrupts off   *)
(* as single steps; here is why it may.                                    *)
(***************************************************************************)
EXTENDS Naturals, Sequences, SequencesExt

CONSTANTS Lines,      \* interrupt lines; the lowest number goes first
          MaxNest,    \* open calls of alt_irq_disable_all in one frame
          MaxOps,     \* calls the main program makes
          IsrOps      \* calls a handler makes

\* The processor has 32 lines; MAIN stands for the program no line started.
ASSUME LinesAssumption == Lines \subseteq 0 .. 31
ASSUME BoundsAssumption == MaxNest \in Nat /\ MaxOps \in Nat /\ IsrOps \in Nat

VARIABLE cpu
    \* pie, ienable: status.PIE and the IENABLE register
    \* alt_irq_active, alt_priority_mask, alt_irq: the HAL's variables
    \* raised: lines a device holds up
    \* want: the lines last asked to be enabled
    \* frames: the main program and the handlers it is interrupted by, the
    \*   running one last

\* ctx: contexts of open alt_irq_disable_all calls; op: the call in progress;
\* mask: what alt_irq_interruptible returned, {} outside of it.
Frame(line, left) == [line |-> line, left |-> left, ctx |-> <<>>, op |-> "none", id |-> line, val |-> {},
                      open |-> FALSE, mask |-> {}, reg |-> FALSE]
MAIN == 32

\* A program started anew without a reset finds IENABLE as it was left.
IrqInit == \E old \in {{}, Lines} :
    cpu = [pie |-> FALSE, ienable |-> old, alt_irq_active |-> {}, alt_priority_mask |-> Lines,
           alt_irq |-> {}, raised |-> {}, want |-> {},
           frames |-> <<[Frame(MAIN, MaxOps) EXCEPT !.op = "boot"]>>]

Me == Last(cpu.frames)
IsIsr == Me.line # MAIN
WithMe(c, f) == [c EXCEPT !.frames = Front(@) \o <<f>>]

altera_nios2_qsys_irq_init(c) == [c EXCEPT !.ienable = {}]
alt_irq_cpu_enable_interrupts(c) == [c EXCEPT !.pie = TRUE]

alt_irq_init == /\ Me.op = "boot"
                /\ cpu' = alt_irq_cpu_enable_interrupts(altera_nios2_qsys_irq_init(WithMe(cpu, [Me EXCEPT !.op = "none"])))

-----------------------------------------------------------------------------
(* Regions with interrupts off.                                            *)

\* alt_irq_disable_all returns the status it found; alt_irq_enable_all puts a
\* status back.
alt_irq_disable_all(c) == WithMe([c EXCEPT !.pie = FALSE],
                                 [Last(c.frames) EXCEPT !.ctx = Append(@, c.pie)])
alt_irq_enable_all(c) == WithMe([c EXCEPT !.pie = Last(Last(c.frames).ctx)],
                                [Last(c.frames) EXCEPT !.ctx = Front(@)])

Idle == Me.op = "none" /\ Me.left > 0
Spend(f) == [f EXCEPT !.left = @ - 1]

Off == /\ Idle /\ Len(Me.ctx) < MaxNest /\ ~ Me.open
       /\ cpu' = alt_irq_disable_all(WithMe(cpu, Spend(Me)))
On == /\ Me.op = "none" /\ Me.ctx # <<>> /\ cpu' = alt_irq_enable_all(cpu)

\* Mutant: the region remembers the status and leaves interrupts on.
OwnRegion_not(c) == WithMe(c, [Last(c.frames) EXCEPT !.ctx = Append(@, c.pie)])

\* A call about one line begins: with a region of its own, two when a handler
\* is registered.
OwnRegion(c) == alt_irq_disable_all(c)

alt_irq_enable(id) == OwnRegion(WithMe([cpu EXCEPT !.want = @ \cup {id}],
                                       [Spend(Me) EXCEPT !.op = "enable", !.id = id]))
alt_irq_disable(id) == OwnRegion(WithMe([cpu EXCEPT !.want = @ \ {id}],
                                        [Spend(Me) EXCEPT !.op = "disable", !.id = id]))

\* Registering ends with the end of its own region.
Outer(f) == IF f.reg THEN "leave" ELSE "none"

\* A handler is set, or taken away (isr is NULL); only the main program does so.
alt_iic_isr_register(id, isr) ==
    alt_irq_disable_all(WithMe(cpu, [Spend(Me) EXCEPT !.op = IF isr THEN "set" ELSE "unset", !.id = id, !.reg = TRUE]))

\* While a handler may be interrupted nobody calls what rewrites IENABLE: it is
\* written without the priority mask.
LineCall == /\ Idle /\ \A k \in DOMAIN cpu.frames : ~ cpu.frames[k].open
            /\ \E id \in Lines : \/ id \in cpu.alt_irq /\ cpu' = alt_irq_enable(id)
                                 \/ cpu' = alt_irq_disable(id)
                                 \/ ~ IsIsr /\ \E isr \in BOOLEAN : cpu' = alt_iic_isr_register(id, isr)

\* The call goes on, one access of a shared variable at a time; a handler is set
\* before alt_ic_irq_enable, in a region around its region.
LineStep ==
    \/ /\ Me.op = "set"
       /\ LET c == [cpu EXCEPT !.alt_irq = @ \cup {Me.id}, !.want = @ \cup {Me.id}]
          IN  cpu' = OwnRegion(WithMe(c, [Me EXCEPT !.op = "enable"]))
    \/ /\ Me.op = "unset"
       /\ LET c == [cpu EXCEPT !.alt_irq = @ \ {Me.id}, !.want = @ \ {Me.id}]
          IN  cpu' = OwnRegion(WithMe(c, [Me EXCEPT !.op = "disable"]))
    \/ /\ Me.op \in {"enable", "disable"}
       /\ cpu' = WithMe(cpu, [Me EXCEPT !.op = "write",
                                        !.val = IF Me.op = "enable" THEN cpu.alt_irq_active \cup {Me.id}
                                                ELSE cpu.alt_irq_active \ {Me.id}])
    \/ /\ Me.op = "write"
       /\ cpu' = WithMe([cpu EXCEPT !.alt_irq_active = Me.val, !.ienable = Me.val], [Me EXCEPT !.op = "leave"])
    \/ /\ Me.op = "leave"
       /\ cpu' = alt_irq_enable_all(WithMe(cpu, [Me EXCEPT !.op = Outer(Me), !.reg = FALSE, !.id = Me.line, !.val = {}]))

-----------------------------------------------------------------------------
(* Handlers.                                                               *)

alt_irq_pending == cpu.ienable \cap cpu.raised
Lowest(S) == CHOOSE i \in S : \A j \in S : i <= j

\* The processor turns interrupts off and alt_irq_handler calls the handler of
\* the lowest pending line; it looks again before it returns.
Take == /\ cpu.pie /\ alt_irq_pending # {}
        /\ LET i == Lowest(alt_irq_pending)
           IN  cpu' = [cpu EXCEPT !.pie = FALSE, !.frames = Append(@, Frame(i, IsrOps))]

\* The handler serves its device.
Serve == /\ IsIsr /\ Me.op = "none" /\ Me.line \in cpu.raised
         /\ cpu' = [cpu EXCEPT !.raised = @ \ {Me.line}]

HandlerEnd == /\ IsIsr /\ Me.op = "none" /\ Me.ctx = <<>> /\ ~ Me.open /\ Me.line \notin cpu.raised
              /\ cpu' = IF alt_irq_pending = {}
                        THEN [cpu EXCEPT !.frames = Front(@), !.pie = TRUE]
                        ELSE WithMe(cpu, Frame(Lowest(alt_irq_pending), IsrOps))

\* Lines that may interrupt a handler of line i.
Above(i) == {j \in Lines : j < i}

alt_irq_interruptible ==
    /\ IsIsr /\ Idle /\ Me.ctx = <<>> /\ ~ Me.open
    /\ cpu' = WithMe([cpu EXCEPT !.alt_priority_mask = Above(Me.line),
                                 !.ienable = cpu.alt_irq_active \cap Above(Me.line), !.pie = TRUE],
                     [Spend(Me) EXCEPT !.open = TRUE, !.mask = cpu.alt_priority_mask])

alt_irq_non_interruptible ==
    /\ IsIsr /\ Me.open /\ Me.op = "none"
    /\ cpu' = WithMe([cpu EXCEPT !.pie = FALSE, !.alt_priority_mask = Me.mask,
                                 !.ienable = Me.mask \cap cpu.alt_irq_active],
                     [Me EXCEPT !.open = FALSE, !.mask = {}])

Raise == \E i \in Lines : i \notin cpu.raised /\ cpu' = [cpu EXCEPT !.raised = @ \cup {i}]

IrqNext == alt_irq_init \/ Off \/ On \/ LineCall \/ LineStep \/ Take \/ Serve \/ HandlerEnd
           \/ alt_irq_interruptible \/ alt_irq_non_interruptible \/ Raise

IrqSpec == IrqInit /\ [][IrqNext]_cpu

-----------------------------------------------------------------------------
\* Interrupts stay off until the outermost region that turned them off is left,
\* whatever calls with regions of their own are made in between (contexts of
\* alt_irq_disable_all and alt_irq_enable_all).
LocksNest == Me.ctx # <<>> => ~ cpu.pie

\* No change of a line's enable is lost, whoever made it: with no call half done
\* alt_irq_active and IENABLE are what was last asked for each line, and no line
\* is served that has no handler (alt_irq_enable, alt_irq_disable,
\* alt_iic_isr_register against handlers that call them).
EnablesKept ==
    /\ (\A k \in DOMAIN cpu.frames : cpu.frames[k].op = "none") =>
           cpu.alt_irq_active = cpu.want /\ cpu.ienable = cpu.want \cap cpu.alt_priority_mask
    /\ IsIsr => Me.line \in cpu.alt_irq

\* A handler is interrupted only by lines before its own, so that there are never
\* more frames than lines (alt_irq_interruptible and its mask).
NestsUpward == \A k \in 1 .. Len(cpu.frames) - 1 : cpu.frames[k].line > cpu.frames[k + 1].line

\* Interrupt control: regions nest, the enables are the ones last asked for
\* under the mask of the running handler, handlers nest upwards only (alt_irq.h,
\* alt_legacy_irq.h, alt_irq_handler.c).
IrqInv == LocksNest /\ EnablesKept /\ NestsUpward
=============================================================================
