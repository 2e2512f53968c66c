------------------------------ MODULE HalProofs ------------------------------
(***************************************************************************)
(* Proofs about the HAL: interrupt control (module HalIrq), for every set  *)
(* of interrupt lines and any depth of nested calls and handlers, and the  *)
(* clock with its alarms, the time of day and busy waits (modules          *)
(* HalDrivers and HalLib), for every width of the tick counter, inside the *)
(* whole HAL as module MCHal puts it to work.                              *)
(*                                                                         *)
(* Interrupts first.  The inductive invariant is stated of a state of the  *)
(* processor, c, so that it can be proved of the states the HAL's          *)
(* functions return.                                                       *)
(***************************************************************************)
EXTENDS MCHal, TLAPS, SequenceTheorems, WellFoundedInduction

\* Types of a frame and of the processor with its variables.
FrameSet == [line : Lines \cup {MAIN}, left : Nat, ctx : Seq(BOOLEAN),
             op : {"none", "boot", "set", "unset", "enable", "disable", "write", "leave"},
             id : Lines \cup {MAIN}, val : SUBSET Lines, open : BOOLEAN,
             mask : SUBSET Lines, reg : BOOLEAN]
CpuSet == [pie : BOOLEAN, ienable : SUBSET Lines, alt_irq_active : SUBSET Lines,
           alt_priority_mask : SUBSET Lines, alt_irq : SUBSET Lines, raised : SUBSET Lines,
           want : SUBSET Lines, frames : Seq(FrameSet)]

\* The frame that runs, and how many there are.
Top(c) == Last(c.frames)
Depth(c) == Len(c.frames)

\* The frames below the running one were interrupted: with interrupts on, hence
\* outside of every region and call, and a handler only after it let itself be
\* interrupted.
BelowInv(c) ==
    /\ c.frames[1].line = MAIN
    /\ \A k \in 1 .. (Depth(c) - 1) : /\ c.frames[k].ctx = <<>> /\ c.frames[k].op = "none"
                                      /\ ~c.frames[k].reg /\ (k >= 2 => c.frames[k].open)

\* Handlers run for lines that have one, each before the line it interrupted.
NestInv(c) == \A k \in 2 .. Depth(c) :
    c.frames[k].line \in c.alt_irq /\ c.frames[k].line < c.frames[k - 1].line

\* The mask while the frames up to k may be interrupted.
MaskUpTo(c, k) == IF k = 1 THEN Lines ELSE Above(c.frames[k].line)

\* The mask is that of the last handler that may be interrupted, and each such
\* handler keeps the one before it.
MaskInv(c) ==
    /\ \A k \in 1 .. Depth(c) : c.frames[k].open => k >= 2 /\ c.frames[k].mask = MaskUpTo(c, k - 1)
    /\ c.alt_priority_mask = MaskUpTo(c, IF Top(c).open \/ Depth(c) = 1 THEN Depth(c) ELSE Depth(c) - 1)

\* The running frame: interrupts are on only where nothing can be upset, and a
\* region that is left turns them on only when it is the outermost.
RegionInv(c) ==
    /\ c.pie => Top(c).ctx = <<>> /\ Top(c).op = "none" /\ (Depth(c) >= 2 => Top(c).open)
    /\ \A j \in 1 .. Len(Top(c).ctx) : Top(c).ctx[j] => j = 1 /\ Depth(c) = 1
    /\ Top(c).open => Top(c).ctx = <<>> /\ Top(c).op = "none"

\* Calls in progress: the regions they opened, and how far the change of the
\* enables has got.
CallInv(c) ==
    LET me == Top(c)
    IN  /\ me.op \in {"none", "boot"} => ~me.reg
        /\ me.op \notin {"none", "boot"} => /\ me.ctx # <<>> /\ Depth(c) <= 2
                                            /\ me.reg /\ me.op \notin {"set", "unset"} => Len(me.ctx) >= 2
        /\ me.op \in {"boot", "set", "unset"} => Depth(c) = 1
        /\ me.op = "none" => c.alt_irq_active = c.want /\ c.ienable = c.want \cap c.alt_priority_mask
        /\ me.op = "boot" => me.ctx = <<>> /\ c.alt_irq_active = {} /\ c.want = {}
        /\ me.op \in {"set", "unset"} => c.alt_irq_active = c.want /\ me.id \in Lines
        /\ me.op = "enable" => c.want = c.alt_irq_active \cup {me.id} /\ me.id \in Lines
        /\ me.op = "disable" => c.want = c.alt_irq_active \ {me.id}
        /\ me.op = "write" => c.want = me.val
        /\ me.op = "leave" => c.alt_irq_active = c.want /\ c.ienable = c.want

\* The inductive invariant, of one state of the processor.
CpuInv(c) == /\ c \in CpuSet /\ c.frames # <<>>
             /\ BelowInv(c) /\ NestInv(c) /\ MaskInv(c) /\ RegionInv(c) /\ CallInv(c)
             /\ c.want \subseteq c.alt_irq

\* The inductive invariant (alt_irq.h, alt_legacy_irq.h, alt_iic.c, alt_irq_handler.c).
IrqIInv == CpuInv(cpu)

-----------------------------------------------------------------------------
(* Facts about frames                                                       *)

\* All but the last element of a sequence.
LEMMA FrontFacts ==
    ASSUME NEW S, NEW s \in Seq(S), s # <<>>
    PROVE  /\ Len(s) \in Nat /\ Len(s) >= 1
           /\ Front(s) \in Seq(S) /\ Len(Front(s)) = Len(s) - 1 /\ Last(s) \in S
           /\ \A k \in 1 .. (Len(s) - 1) : Front(s)[k] = s[k]
<1>1. Len(s) \in Nat /\ Len(s) >= 1
  BY EmptySeq, LenProperties
<1> DEFINE n == Len(s) - 1
<1>2. n \in Int /\ n \in Nat /\ \A k \in 1 .. n : s[k] \in S
  BY <1>1
<1>3. /\ SubSeq(s, 1, n) \in Seq(S) /\ Len(SubSeq(s, 1, n)) = (IF 1 <= n THEN n - 1 + 1 ELSE 0)
      /\ \A k \in 1 .. n - 1 + 1 : SubSeq(s, 1, n)[k] = s[1 + k - 1]
  <2> HIDE DEF n
  <2> QED
    BY <1>2, SubSeqProperties
<1>4. Front(s) = SubSeq(s, 1, n)
  BY DEF Front
<1>5. Last(s) \in S
  BY <1>1 DEF Last
<1> HIDE DEF n
<1>6. Len(Front(s)) = n
  BY <1>2, <1>3, <1>4
<1>7. \A k \in 1 .. n : Front(s)[k] = s[k]
  BY <1>2, <1>3, <1>4
<1> QED
  BY <1>1, <1>3, <1>4, <1>5, <1>6, <1>7 DEF n

\* The last element of a sequence is replaced.
LEMMA LastReplaced ==
    ASSUME NEW S, NEW s \in Seq(S), s # <<>>, NEW x \in S
    PROVE  LET t == Front(s) \o <<x>>
           IN  /\ t \in Seq(S) /\ Len(t) = Len(s) /\ t # <<>> /\ Last(t) = x
               /\ \A k \in 1 .. (Len(s) - 1) : t[k] = s[k]
<1>1. Len(s) \in Nat /\ Len(s) >= 1
  BY FrontFacts
<1>2. /\ Front(s) \in Seq(S) /\ Len(Front(s)) = Len(s) - 1
      /\ \A k \in 1 .. (Len(s) - 1) : Front(s)[k] = s[k]
  BY FrontFacts
<1> DEFINE t == Front(s) \o <<x>>
<1>3. <<x>> \in Seq(S) /\ Len(<<x>>) = 1 /\ <<x>>[1] = x
  OBVIOUS
<1>4. t \in Seq(S) /\ Len(t) = Len(s)
  BY <1>1, <1>2, <1>3, ConcatProperties
<1>5. \A k \in 1 .. (Len(s) - 1) : t[k] = s[k]
  BY <1>1, <1>2, <1>3, ConcatProperties
<1>6. t[Len(s)] = x
  BY <1>1, <1>2, <1>3, ConcatProperties
<1>7. t # <<>>
  BY <1>1, <1>4
<1> QED
  BY <1>4, <1>5, <1>6, <1>7 DEF Last

\* Same frames below the running one.
SameBelow(d, c) == /\ Depth(d) = Depth(c)
                   /\ \A k \in 1 .. (Depth(c) - 1) : d.frames[k] = c.frames[k]

\* All but the frames and the global enable is the same.
SameRegs(d, c) ==
    /\ d.ienable = c.ienable /\ d.alt_irq_active = c.alt_irq_active
    /\ d.alt_priority_mask = c.alt_priority_mask /\ d.alt_irq = c.alt_irq
    /\ d.raised = c.raised /\ d.want = c.want

\* A change of the running frame leaves the frames below alone.
LEMMA WithMeFacts ==
    ASSUME NEW c \in CpuSet, c.frames # <<>>, NEW f \in FrameSet
    PROVE  /\ WithMe(c, f) \in CpuSet /\ WithMe(c, f).frames # <<>>
           /\ SameRegs(WithMe(c, f), c) /\ WithMe(c, f).pie = c.pie /\ SameBelow(WithMe(c, f), c)
           /\ Top(WithMe(c, f)) = f
<1> DEFINE t == Front(c.frames) \o <<f>>
           d == WithMe(c, f)
<1>1. c.frames \in Seq(FrameSet)
  BY DEF CpuSet
<1>2. /\ t \in Seq(FrameSet) /\ Len(t) = Len(c.frames) /\ t # <<>> /\ Last(t) = f
      /\ \A k \in 1 .. (Len(c.frames) - 1) : t[k] = c.frames[k]
  BY <1>1, LastReplaced
<1>3. d = [c EXCEPT !.frames = t]
  BY DEF WithMe
<1> HIDE DEF t, d
<1>4. d \in CpuSet /\ d.frames = t /\ SameRegs(d, c) /\ d.pie = c.pie
  BY <1>2, <1>3 DEF CpuSet, SameRegs
<1> QED
  BY <1>2, <1>4 DEF SameBelow, Top, Depth, d

\* The running frame is a frame.
LEMMA TopTyped ==
    ASSUME NEW c \in CpuSet, c.frames # <<>>
    PROVE  /\ Top(c) \in FrameSet /\ Depth(c) \in Nat /\ Depth(c) >= 1 /\ Top(c) = c.frames[Depth(c)]
           /\ \A k \in 1 .. Depth(c) : c.frames[k] \in FrameSet
<1>1. c.frames \in Seq(FrameSet)
  BY DEF CpuSet
<1>2. Len(c.frames) \in Nat /\ Len(c.frames) >= 1
  BY <1>1, EmptySeq, LenProperties
<1>3. \A k \in 1 .. Len(c.frames) : c.frames[k] \in FrameSet
  BY <1>1
<1> QED
  BY <1>2, <1>3 DEF Top, Depth, Last

\* A step of the running frame alone: the invariant is about it and the
\* registers, the frames below are as they were.
LEMMA TopStep ==
    ASSUME NEW c, CpuInv(c), NEW d \in CpuSet, d.frames # <<>>, SameBelow(d, c),
           Top(d).line = Top(c).line, Top(d).open = Top(c).open, Top(d).mask = Top(c).mask,
           d.alt_priority_mask = c.alt_priority_mask,
           Depth(c) = 1 \/ c.alt_irq \subseteq d.alt_irq, d.want \subseteq d.alt_irq,
           RegionInv(d), CallInv(d)
    PROVE  CpuInv(d)
<1>1. /\ c \in CpuSet /\ c.frames # <<>> /\ BelowInv(c) /\ NestInv(c) /\ MaskInv(c)
  BY DEF CpuInv
<1>2. /\ Depth(c) \in Nat /\ Depth(c) >= 1 /\ Depth(d) = Depth(c)
      /\ Top(c) = c.frames[Depth(c)] /\ Top(d) = d.frames[Depth(c)]
  BY <1>1, TopTyped DEF SameBelow
<1>3. \A k \in 1 .. Depth(c) : /\ d.frames[k].line = c.frames[k].line
                              /\ d.frames[k].open = c.frames[k].open
                              /\ d.frames[k].mask = c.frames[k].mask
  BY <1>2 DEF SameBelow
<1>4. BelowInv(d)
  <2>1. d.frames[1].line = MAIN
    BY <1>1, <1>2, <1>3 DEF BelowInv
  <2> QED
    BY <1>1, <1>2, <2>1 DEF BelowInv, SameBelow
<1>5. NestInv(d)
  BY <1>1, <1>2, <1>3 DEF NestInv
<1>6. \A k \in 1 .. Depth(c) : MaskUpTo(d, k) = MaskUpTo(c, k)
  BY <1>3 DEF MaskUpTo
<1>7. MaskInv(d)
  <2>1. \A k \in 1 .. Depth(d) : d.frames[k].open => k >= 2 /\ d.frames[k].mask = MaskUpTo(d, k - 1)
    <3> SUFFICES ASSUME NEW k \in 1 .. Depth(c), c.frames[k].open
                 PROVE  k >= 2 /\ c.frames[k].mask = MaskUpTo(d, k - 1)
      BY <1>2, <1>3
    <3>1. k >= 2 /\ c.frames[k].mask = MaskUpTo(c, k - 1)
      BY <1>1 DEF MaskInv
    <3>2. k - 1 \in 1 .. Depth(c)
      BY <1>2, <3>1
    <3> QED
      BY <1>6, <3>1, <3>2
  <2>2. d.alt_priority_mask = MaskUpTo(d, IF Top(d).open \/ Depth(d) = 1 THEN Depth(d) ELSE Depth(d) - 1)
    <3> DEFINE m == IF Top(c).open \/ Depth(c) = 1 THEN Depth(c) ELSE Depth(c) - 1
    <3>1. m \in 1 .. Depth(c)
      BY <1>2
    <3>2. c.alt_priority_mask = MaskUpTo(c, m)
      BY <1>1 DEF MaskInv
    <3> QED
      BY <1>2, <1>6, <3>1, <3>2
  <2> QED
    BY <2>1, <2>2 DEF MaskInv
<1> QED
  BY <1>4, <1>5, <1>7 DEF CpuInv


\* Line numbers: the main program is the one frame that is not a handler's.
LEMMA MainFirst ==
    ASSUME NEW c, CpuInv(c)
    PROVE  Top(c).line # MAIN <=> Depth(c) >= 2
<1>1. c \in CpuSet /\ c.frames # <<>> /\ BelowInv(c) /\ NestInv(c)
  BY DEF CpuInv
<1>2. Depth(c) \in Nat /\ Depth(c) >= 1 /\ Top(c) = c.frames[Depth(c)]
  BY <1>1, TopTyped
<1>3. CASE Depth(c) = 1
  BY <1>1, <1>2, <1>3 DEF BelowInv
<1>4. CASE Depth(c) >= 2
  <2>1. Top(c).line \in c.alt_irq
    BY <1>1, <1>2, <1>4 DEF NestInv
  <2>2. c.alt_irq \subseteq 0 .. 31
    BY <1>1, LinesAssumption DEF CpuSet
  <2> QED
    BY <1>4, <2>1, <2>2 DEF MAIN
<1> QED
  BY <1>2, <1>3, <1>4

\* A region is entered: the status found is remembered, interrupts are off.
LEMMA RegionEntered ==
    ASSUME NEW c \in CpuSet, c.frames # <<>>
    PROVE  LET d == alt_irq_disable_all(c)
           IN  /\ d \in CpuSet /\ d.frames # <<>> /\ SameBelow(d, c) /\ SameRegs(d, c) /\ d.pie = FALSE
               /\ Top(d) = [Top(c) EXCEPT !.ctx = Append(@, c.pie)]
<1> DEFINE g == [Top(c) EXCEPT !.ctx = Append(@, c.pie)]
           e == [c EXCEPT !.pie = FALSE]
<1>1. g \in FrameSet
  <2>1. Top(c) \in FrameSet /\ Top(c).ctx \in Seq(BOOLEAN) /\ c.pie \in BOOLEAN
    BY TopTyped DEF FrameSet, CpuSet
  <2>2. Append(Top(c).ctx, c.pie) \in Seq(BOOLEAN)
    BY <2>1
  <2> QED
    BY <2>1, <2>2 DEF FrameSet
<1>2. alt_irq_disable_all(c) = WithMe(e, g)
  BY DEF alt_irq_disable_all, Top
<1> HIDE DEF g
<1>3. e \in CpuSet /\ e.frames = c.frames /\ SameRegs(e, c) /\ e.pie = FALSE
  BY DEF CpuSet, SameRegs
<1> HIDE DEF e
<1>4. /\ WithMe(e, g) \in CpuSet /\ WithMe(e, g).frames # <<>> /\ WithMe(e, g).pie = e.pie
      /\ SameRegs(WithMe(e, g), e) /\ SameBelow(WithMe(e, g), e) /\ Top(WithMe(e, g)) = g
  BY <1>1, <1>3, WithMeFacts
<1>5. SameBelow(WithMe(e, g), c) /\ SameRegs(WithMe(e, g), c)
  BY <1>3, <1>4 DEF SameBelow, SameRegs, Depth
<1> QED
  BY <1>2, <1>3, <1>4, <1>5 DEF g

\* A region is left: the status it found is put back.
LEMMA RegionLeft ==
    ASSUME NEW c \in CpuSet, c.frames # <<>>, Top(c).ctx # <<>>
    PROVE  LET d == alt_irq_enable_all(c)
           IN  /\ d \in CpuSet /\ d.frames # <<>> /\ SameBelow(d, c) /\ SameRegs(d, c)
               /\ d.pie = Last(Top(c).ctx)
               /\ Top(d) = [Top(c) EXCEPT !.ctx = Front(@)]
<1> DEFINE g == [Top(c) EXCEPT !.ctx = Front(@)]
           e == [c EXCEPT !.pie = Last(Top(c).ctx)]
<1>1. g \in FrameSet /\ Last(Top(c).ctx) \in BOOLEAN
  <2>1. Top(c) \in FrameSet /\ Top(c).ctx \in Seq(BOOLEAN)
    BY TopTyped DEF FrameSet
  <2>2. Front(Top(c).ctx) \in Seq(BOOLEAN) /\ Last(Top(c).ctx) \in BOOLEAN
    BY <2>1, FrontFacts
  <2> QED
    BY <2>1, <2>2 DEF FrameSet
<1>2. alt_irq_enable_all(c) = WithMe(e, g)
  BY DEF alt_irq_enable_all, Top
<1> HIDE DEF g
<1>3. e \in CpuSet /\ e.frames = c.frames /\ SameRegs(e, c) /\ e.pie = Last(Top(c).ctx)
  BY <1>1 DEF CpuSet, SameRegs
<1> HIDE DEF e
<1>4. /\ WithMe(e, g) \in CpuSet /\ WithMe(e, g).frames # <<>> /\ WithMe(e, g).pie = e.pie
      /\ SameRegs(WithMe(e, g), e) /\ SameBelow(WithMe(e, g), e) /\ Top(WithMe(e, g)) = g
  BY <1>1, <1>3, WithMeFacts
<1>5. SameBelow(WithMe(e, g), c) /\ SameRegs(WithMe(e, g), c)
  BY <1>3, <1>4 DEF SameBelow, SameRegs, Depth
<1> QED
  BY <1>2, <1>3, <1>4, <1>5 DEF g

\* A call enters a region: the running frame becomes f, then the region is
\* entered.
LEMMA CallEnters ==
    ASSUME NEW c \in CpuSet, c.frames # <<>>, NEW f \in FrameSet
    PROVE  LET d == alt_irq_disable_all(WithMe(c, f))
           IN  /\ d \in CpuSet /\ d.frames # <<>> /\ SameBelow(d, c) /\ SameRegs(d, c) /\ d.pie = FALSE
               /\ Top(d) = [f EXCEPT !.ctx = Append(@, c.pie)]
<1> DEFINE e == WithMe(c, f)
           d == alt_irq_disable_all(e)
<1>1. /\ e \in CpuSet /\ e.frames # <<>> /\ SameRegs(e, c) /\ SameBelow(e, c) /\ Top(e) = f
      /\ e.pie = c.pie
  BY WithMeFacts
<1> HIDE DEF e
<1>2. /\ d \in CpuSet /\ d.frames # <<>> /\ SameBelow(d, e) /\ SameRegs(d, e) /\ d.pie = FALSE
      /\ Top(d) = [Top(e) EXCEPT !.ctx = Append(@, e.pie)]
  BY <1>1, RegionEntered
<1> HIDE DEF d
<1>3. SameBelow(d, c) /\ SameRegs(d, c) /\ Top(d) = [f EXCEPT !.ctx = Append(@, c.pie)]
  BY <1>1, <1>2 DEF SameBelow, SameRegs
<1> QED
  BY <1>2, <1>3 DEF d, e

\* A region entered is nested in those before it (alt_irq_disable_all).
LEMMA EnterKeeps ==
    ASSUME NEW c, CpuInv(c), ~Top(c).open, NEW d, d.pie = FALSE, Depth(d) = Depth(c),
           Top(d).ctx = Append(Top(c).ctx, c.pie), Top(d).open = Top(c).open
    PROVE  RegionInv(d) /\ Len(Top(d).ctx) = Len(Top(c).ctx) + 1 /\ Top(d).ctx # <<>>
<1>1. Top(c).ctx \in Seq(BOOLEAN) /\ c.pie \in BOOLEAN /\ Depth(c) \in Nat /\ Depth(c) >= 1 /\ RegionInv(c)
  BY TopTyped DEF CpuInv, CpuSet, FrameSet
<1>2. /\ Len(Top(d).ctx) = Len(Top(c).ctx) + 1 /\ Top(d).ctx # <<>>
      /\ \A j \in 1 .. Len(Top(c).ctx) : Top(d).ctx[j] = Top(c).ctx[j]
      /\ Top(d).ctx[Len(Top(c).ctx) + 1] = c.pie
  BY <1>1, AppendProperties
<1>3. Len(Top(c).ctx) \in Nat /\ (Top(c).ctx = <<>> => Len(Top(c).ctx) = 0)
  BY <1>1, LenProperties
<1>4. ASSUME NEW j \in 1 .. Len(Top(d).ctx), Top(d).ctx[j] PROVE j = 1 /\ Depth(d) = 1
  <2>1. CASE j \in 1 .. Len(Top(c).ctx)
    BY <1>1, <1>2, <1>4, <2>1 DEF RegionInv
  <2>2. CASE j = Len(Top(c).ctx) + 1
    <3>1. c.pie
      BY <1>2, <1>4, <2>2
    <3>2. Top(c).ctx = <<>> /\ ~(Depth(c) >= 2)
      BY <1>1, <3>1 DEF RegionInv
    <3> QED
      BY <1>1, <1>3, <2>2, <3>2
  <2> QED
    BY <1>2, <1>3, <2>1, <2>2
<1> QED
  BY <1>2, <1>4 DEF RegionInv

\* The regions around the one that is left stay nested (alt_irq_enable_all).
LEMMA LeaveKeeps ==
    ASSUME NEW c, CpuInv(c), ~Top(c).open, Top(c).ctx # <<>>, NEW d, d.pie = Last(Top(c).ctx),
           Depth(d) = Depth(c), Top(d).ctx = Front(Top(c).ctx), Top(d).open = Top(c).open,
           Len(Top(c).ctx) >= 2 \/ Top(d).op = "none"
    PROVE  RegionInv(d) /\ Len(Top(d).ctx) = Len(Top(c).ctx) - 1
<1>1. Top(c).ctx \in Seq(BOOLEAN) /\ Depth(c) \in Nat /\ Depth(c) >= 1 /\ RegionInv(c)
  BY TopTyped DEF CpuInv, FrameSet
<1>2. /\ Len(Top(c).ctx) \in Nat /\ Len(Top(c).ctx) >= 1
      /\ Top(d).ctx \in Seq(BOOLEAN) /\ Len(Top(d).ctx) = Len(Top(c).ctx) - 1
      /\ \A j \in 1 .. (Len(Top(c).ctx) - 1) : Top(d).ctx[j] = Top(c).ctx[j]
  BY <1>1, FrontFacts
<1>3. \A j \in 1 .. Len(Top(d).ctx) : Top(d).ctx[j] => j = 1 /\ Depth(d) = 1
  BY <1>1, <1>2 DEF RegionInv
<1>4. ASSUME d.pie PROVE Top(d).ctx = <<>> /\ Top(d).op = "none" /\ ~(Depth(d) >= 2)
  <2>1. Top(c).ctx[Len(Top(c).ctx)]
    BY <1>4 DEF Last
  <2>2. Len(Top(c).ctx) = 1 /\ Depth(c) = 1
    <3>1. \A j \in 1 .. Len(Top(c).ctx) : Top(c).ctx[j] => j = 1 /\ Depth(c) = 1
      BY <1>1, Zenon DEF RegionInv
    <3>2. Len(Top(c).ctx) \in 1 .. Len(Top(c).ctx)
      BY <1>2
    <3> QED
      BY <2>1, <3>1, <3>2, Zenon
  <2>3. Top(d).ctx = <<>>
    BY <1>2, <2>2, EmptySeq
  <2> QED
    BY <2>2, <2>3
<1> QED
  BY <1>2, <1>3, <1>4 DEF RegionInv

\* A call or a region starts in the state b the call has made of c: the running
\* frame becomes f and interrupts go off.  What is left to see is how far the
\* call has got.
LEMMA CallStarts ==
    ASSUME NEW c, CpuInv(c), ~Top(c).open,
           NEW b \in CpuSet, b.frames = c.frames, b.pie = c.pie,
           b.alt_priority_mask = c.alt_priority_mask,
           Depth(c) = 1 \/ c.alt_irq \subseteq b.alt_irq, b.want \subseteq b.alt_irq,
           NEW f \in FrameSet, f.ctx = Top(c).ctx, f.line = Top(c).line, f.open = Top(c).open,
           f.mask = Top(c).mask,
           NEW d, d = alt_irq_disable_all(WithMe(b, f))
    PROVE  /\ SameRegs(d, b) /\ Depth(d) = Depth(c)
           /\ Top(d).op = f.op /\ Top(d).id = f.id /\ Top(d).reg = f.reg
           /\ Top(d).ctx # <<>> /\ Len(Top(d).ctx) = Len(Top(c).ctx) + 1
           /\ CallInv(d) => CpuInv(d)
<1>1. c \in CpuSet /\ c.frames # <<>> /\ b.frames # <<>>
  BY DEF CpuInv
<1>2. /\ d \in CpuSet /\ d.frames # <<>> /\ SameBelow(d, b) /\ SameRegs(d, b) /\ d.pie = FALSE
      /\ Top(d) = [f EXCEPT !.ctx = Append(@, b.pie)]
  BY <1>1, CallEnters
<1>3. /\ Top(d).op = f.op /\ Top(d).id = f.id /\ Top(d).reg = f.reg /\ Top(d).line = f.line
      /\ Top(d).open = f.open /\ Top(d).mask = f.mask /\ Top(d).ctx = Append(f.ctx, b.pie)
  BY <1>2 DEF FrameSet
<1>4. SameBelow(d, c) /\ Depth(d) = Depth(c)
  BY <1>2 DEF SameBelow, Depth
<1>5. RegionInv(d) /\ Len(Top(d).ctx) = Len(Top(c).ctx) + 1 /\ Top(d).ctx # <<>>
  <2>1. d.pie = FALSE /\ Top(d).ctx = Append(Top(c).ctx, c.pie) /\ Top(d).open = Top(c).open
    BY <1>2, <1>3
  <2> QED
    BY <1>4, <2>1, EnterKeeps
<1>6. d.alt_priority_mask = c.alt_priority_mask /\ d.alt_irq = b.alt_irq /\ d.want = b.want
  BY <1>2 DEF SameRegs
<1>7. ASSUME CallInv(d) PROVE CpuInv(d)
  BY <1>2, <1>3, <1>4, <1>5, <1>6, <1>7, TopStep
<1> QED
  BY <1>2, <1>3, <1>4, <1>5, <1>7

\* The frame that starts a call is a frame, whatever it calls.
LEMMA SpendTyped ==
    ASSUME NEW m \in FrameSet, m.left > 0
    PROVE  /\ Spend(m) \in FrameSet
           /\ Spend(m) = [line |-> m.line, left |-> m.left - 1, ctx |-> m.ctx, op |-> m.op, id |-> m.id,
                          val |-> m.val, open |-> m.open, mask |-> m.mask, reg |-> m.reg]
  BY DEF Spend, FrameSet

\* Frame g starts call o about line i; the second registers a handler.
Calling(g, o, i) == [g EXCEPT !.op = o, !.id = i]
Registering(g, o, i) == [g EXCEPT !.op = o, !.id = i, !.reg = TRUE]

\* A frame that starts a call is a frame.
LEMMA CallFrame ==
    ASSUME NEW g \in FrameSet, NEW i \in Lines, NEW o \in {"set", "unset", "enable", "disable"}
    PROVE  Calling(g, o, i) \in FrameSet /\ Registering(g, o, i) \in FrameSet
  BY DEF FrameSet, Calling, Registering

\* A call changes no more of the frame.
LEMMA CallingFields ==
    ASSUME NEW g \in FrameSet, NEW i, NEW o
    PROVE  LET f == Calling(g, o, i)
           IN  /\ f.ctx = g.ctx /\ f.line = g.line /\ f.open = g.open /\ f.mask = g.mask
               /\ f.op = o /\ f.reg = g.reg /\ f.id = i
  BY DEF FrameSet, Calling

\* Registering a handler changes no more of the frame either.
LEMMA RegisteringFields ==
    ASSUME NEW g \in FrameSet, NEW i, NEW o
    PROVE  LET f == Registering(g, o, i)
           IN  /\ f.ctx = g.ctx /\ f.line = g.line /\ f.open = g.open /\ f.mask = g.mask
               /\ f.op = o /\ f.reg /\ f.id = i
  BY DEF FrameSet, Registering

\* The running frame is a frame, in a stack that is not empty.
LEMMA MeTyped ==
    ASSUME CpuInv(cpu)
    PROVE  /\ Me = Top(cpu) /\ Me \in FrameSet /\ cpu \in CpuSet /\ cpu.frames # <<>>
           /\ Len(Me.ctx) \in Nat /\ (Me.ctx # <<>> => Len(Me.ctx) >= 1) /\ Depth(cpu) \in Nat /\ Depth(cpu) >= 1
<1>1. cpu \in CpuSet /\ cpu.frames # <<>>
  BY DEF CpuInv
<1>2. Me = Top(cpu) /\ Me \in FrameSet /\ Depth(cpu) \in Nat /\ Depth(cpu) >= 1
  BY <1>1, TopTyped DEF Me, Top
<1>3. Me.ctx \in Seq(BOOLEAN)
  BY <1>2 DEF FrameSet
<1>4. Len(Me.ctx) \in Nat /\ (Me.ctx # <<>> => Len(Me.ctx) >= 1)
  BY <1>3, LenProperties, EmptySeq
<1> QED
  BY <1>1, <1>2, <1>4

-----------------------------------------------------------------------------
(* The actions                                                              *)

\* A region is entered by the program or a handler.
LEMMA OffKeeps == ASSUME CpuInv(cpu), Off PROVE CpuInv(cpu')
<1>1. /\ Me = Top(cpu) /\ Me \in FrameSet /\ cpu \in CpuSet /\ cpu.frames # <<>>
  BY MeTyped
<1>2. Me.op = "none" /\ Me.left > 0 /\ ~Me.open /\ cpu' = alt_irq_disable_all(WithMe(cpu, Spend(Me)))
  BY DEF Off, Idle
<1>3. CallInv(cpu) /\ cpu.want \subseteq cpu.alt_irq
  BY DEF CpuInv
<1> DEFINE f == Spend(Me)
<1>4. /\ f \in FrameSet /\ f.ctx = Me.ctx /\ f.line = Me.line /\ f.open = Me.open /\ f.mask = Me.mask
      /\ f.op = "none" /\ f.reg = Me.reg
  BY <1>1, <1>2, SpendTyped
<1> HIDE DEF f
<1>5. /\ SameRegs(cpu', cpu) /\ Top(cpu').op = f.op /\ Top(cpu').reg = f.reg
      /\ CallInv(cpu') => CpuInv(cpu')
  <2>1. cpu' = alt_irq_disable_all(WithMe(cpu, f))
    BY <1>2 DEF f
  <2> QED
    BY <1>1, <1>2, <1>3, <1>4, <2>1, CallStarts
<1>6. CallInv(cpu')
  BY <1>1, <1>2, <1>3, <1>4, <1>5 DEF CallInv, SameRegs
<1> QED
  BY <1>5, <1>6

\* A call about one line starts, of the program or of a handler.
LEMMA LineCallKeeps == ASSUME CpuInv(cpu), LineCall PROVE CpuInv(cpu')
<1>1. /\ Me = Top(cpu) /\ Me \in FrameSet /\ cpu \in CpuSet /\ cpu.frames # <<>>
      /\ Len(Me.ctx) \in Nat /\ Depth(cpu) \in Nat /\ Depth(cpu) >= 1
  BY MeTyped
<1>2. Me.op = "none" /\ Me.left > 0 /\ \A k \in DOMAIN cpu.frames : ~cpu.frames[k].open
  BY DEF LineCall, Idle
<1>3. CallInv(cpu) /\ cpu.want \subseteq cpu.alt_irq /\ MaskInv(cpu)
  BY DEF CpuInv
<1>4. DOMAIN cpu.frames = 1 .. Depth(cpu) /\ Me = cpu.frames[Depth(cpu)]
  BY <1>1, TopTyped DEF CpuSet, Depth
<1>5. ~Me.open /\ Depth(cpu) <= 2
  <2>1. ~Me.open
    BY <1>1, <1>2, <1>4
  <2>2. ASSUME Depth(cpu) >= 3 PROVE FALSE
    <3>1. BelowInv(cpu)
      BY DEF CpuInv
    <3>2. cpu.frames[2].open
      BY <1>1, <2>2, <3>1 DEF BelowInv
    <3> QED
      BY <1>1, <1>2, <1>4, <2>2, <3>2
  <2> QED
    BY <1>1, <2>1, <2>2
<1>6. cpu.alt_priority_mask = Lines
  BY <1>1, <1>3, <1>5 DEF MaskInv, MaskUpTo
<1>7. PICK id \in Lines : \/ id \in cpu.alt_irq /\ cpu' = alt_irq_enable(id)
                          \/ cpu' = alt_irq_disable(id)
                          \/ ~ IsIsr /\ \E isr \in BOOLEAN : cpu' = alt_iic_isr_register(id, isr)
  BY DEF LineCall
<1>8. /\ cpu.alt_irq_active = cpu.want /\ ~Me.reg
      /\ cpu.want \in SUBSET Lines /\ cpu.alt_irq \in SUBSET Lines
  BY <1>1, <1>2, <1>3 DEF CallInv, CpuSet
<1>12. /\ Spend(Me) \in FrameSet /\ Spend(Me).ctx = Me.ctx /\ Spend(Me).line = Me.line
       /\ Spend(Me).open = Me.open /\ Spend(Me).mask = Me.mask /\ Spend(Me).reg = Me.reg
  BY <1>1, <1>2, SpendTyped
<1>9. CASE id \in cpu.alt_irq /\ cpu' = alt_irq_enable(id)
  <2> DEFINE b == [cpu EXCEPT !.want = @ \cup {id}]
             f == Calling(Spend(Me), "enable", id)
  <2>1. /\ b \in CpuSet /\ b.frames = cpu.frames /\ b.pie = cpu.pie
        /\ b.alt_priority_mask = cpu.alt_priority_mask /\ b.alt_irq = cpu.alt_irq
        /\ b.want = cpu.want \cup {id} /\ b.alt_irq_active = cpu.alt_irq_active
    BY <1>1, <1>7, <1>8 DEF CpuSet
  <2>2. /\ f \in FrameSet /\ f.ctx = Me.ctx /\ f.line = Me.line /\ f.open = Me.open /\ f.mask = Me.mask
        /\ f.op = "enable" /\ f.reg = Me.reg /\ f.id = id
    BY <1>12, CallFrame, CallingFields
  <2>3. cpu' = alt_irq_disable_all(WithMe(b, f))
    BY <1>9 DEF alt_irq_enable, OwnRegion, Calling
  <2> HIDE DEF b, f
  <2>4. /\ SameRegs(cpu', b) /\ Top(cpu').op = f.op /\ Top(cpu').reg = f.reg /\ Top(cpu').id = f.id
        /\ Top(cpu').ctx # <<>> /\ Depth(cpu') = Depth(cpu)
        /\ CallInv(cpu') => CpuInv(cpu')
    BY <1>1, <1>3, <1>5, <1>9, <2>1, <2>2, <2>3, CallStarts
  <2>5. CallInv(cpu')
    BY <1>5, <1>7, <1>8, <2>1, <2>2, <2>4 DEF CallInv, SameRegs
  <2> QED
    BY <2>4, <2>5
<1>10. CASE cpu' = alt_irq_disable(id)
  <2> DEFINE b == [cpu EXCEPT !.want = @ \ {id}]
             f == Calling(Spend(Me), "disable", id)
  <2>1. /\ b \in CpuSet /\ b.frames = cpu.frames /\ b.pie = cpu.pie
        /\ b.alt_priority_mask = cpu.alt_priority_mask /\ b.alt_irq = cpu.alt_irq
        /\ b.want = cpu.want \ {id} /\ b.alt_irq_active = cpu.alt_irq_active
    BY <1>1, <1>7, <1>8 DEF CpuSet
  <2>2. /\ f \in FrameSet /\ f.ctx = Me.ctx /\ f.line = Me.line /\ f.open = Me.open /\ f.mask = Me.mask
        /\ f.op = "disable" /\ f.reg = Me.reg /\ f.id = id
    BY <1>12, CallFrame, CallingFields
  <2>3. cpu' = alt_irq_disable_all(WithMe(b, f))
    BY <1>10 DEF alt_irq_disable, OwnRegion, Calling
  <2> HIDE DEF b, f
  <2>4. /\ SameRegs(cpu', b) /\ Top(cpu').op = f.op /\ Top(cpu').reg = f.reg /\ Top(cpu').id = f.id
        /\ Top(cpu').ctx # <<>> /\ Depth(cpu') = Depth(cpu)
        /\ CallInv(cpu') => CpuInv(cpu')
    BY <1>1, <1>3, <1>5, <2>1, <2>2, <2>3, CallStarts
  <2>5. CallInv(cpu')
    BY <1>5, <1>7, <1>8, <2>1, <2>2, <2>4 DEF CallInv, SameRegs
  <2> QED
    BY <2>4, <2>5
<1>11. CASE ~ IsIsr /\ \E isr \in BOOLEAN : cpu' = alt_iic_isr_register(id, isr)
  <2>1. PICK isr \in BOOLEAN : cpu' = alt_iic_isr_register(id, isr)
    BY <1>11
  <2> DEFINE op == IF isr THEN "set" ELSE "unset"
             f == Registering(Spend(Me), op, id)
  <2>2. op \in {"set", "unset"}
    OBVIOUS
  <2>3. cpu' = alt_irq_disable_all(WithMe(cpu, f))
    BY <2>1 DEF alt_iic_isr_register, Registering
  <2>4. Depth(cpu) = 1
    BY <1>1, <1>11, MainFirst DEF IsIsr
  <2> HIDE DEF op
  <2>5. /\ f \in FrameSet /\ f.ctx = Me.ctx /\ f.line = Me.line /\ f.open = Me.open /\ f.mask = Me.mask
        /\ f.op = op /\ f.id = id
    <3>1. f \in FrameSet
      BY <1>12, <2>2, CallFrame
    <3>2. /\ f.ctx = Spend(Me).ctx /\ f.line = Spend(Me).line /\ f.open = Spend(Me).open
          /\ f.mask = Spend(Me).mask /\ f.op = op /\ f.id = id
      BY <1>12, RegisteringFields
    <3> QED
      BY <1>12, <3>1, <3>2
  <2>6. f.reg
    BY <1>12, RegisteringFields
  <2> HIDE DEF f
  <2>7. /\ SameRegs(cpu', cpu) /\ Top(cpu').op = f.op /\ Top(cpu').reg = f.reg /\ Top(cpu').id = f.id
        /\ Top(cpu').ctx # <<>> /\ Depth(cpu') = Depth(cpu)
        /\ CallInv(cpu') => CpuInv(cpu')
    BY <1>1, <1>3, <1>5, <2>3, <2>5, CallStarts
  <2>8. CallInv(cpu')
    BY <1>7, <1>8, <2>2, <2>4, <2>5, <2>6, <2>7 DEF CallInv, SameRegs
  <2> QED
    BY <2>7, <2>8
<1> QED
  BY <1>7, <1>9, <1>10, <1>11

\* A region is left.
LEMMA OnKeeps == ASSUME CpuInv(cpu), On PROVE CpuInv(cpu')
<1>1. /\ Me = Top(cpu) /\ Me \in FrameSet /\ cpu \in CpuSet /\ cpu.frames # <<>>
  BY MeTyped
<1>2. Me.op = "none" /\ Me.ctx # <<>> /\ cpu' = alt_irq_enable_all(cpu)
  BY DEF On
<1>3. CallInv(cpu) /\ cpu.want \subseteq cpu.alt_irq /\ RegionInv(cpu)
  BY DEF CpuInv
<1>4. ~Me.open
  BY <1>1, <1>2, <1>3 DEF RegionInv
<1>5. /\ cpu' \in CpuSet /\ cpu'.frames # <<>> /\ SameBelow(cpu', cpu) /\ SameRegs(cpu', cpu)
      /\ cpu'.pie = Last(Me.ctx) /\ Top(cpu') = [Me EXCEPT !.ctx = Front(@)]
  BY <1>1, <1>2, RegionLeft
<1>6. /\ Top(cpu').op = "none" /\ Top(cpu').reg = Me.reg /\ Top(cpu').line = Me.line
      /\ Top(cpu').open = Me.open /\ Top(cpu').mask = Me.mask /\ Top(cpu').ctx = Front(Me.ctx)
  BY <1>1, <1>2, <1>5 DEF FrameSet
<1>7. RegionInv(cpu')
  <2>1. Depth(cpu') = Depth(cpu) /\ cpu'.pie = Last(Top(cpu).ctx)
    BY <1>1, <1>5 DEF SameBelow
  <2> QED
    BY <1>1, <1>2, <1>4, <1>6, <2>1, LeaveKeeps
<1>8. CallInv(cpu')
  <2>1. SameRegs(cpu', cpu)
    BY <1>5
  <2> QED
    BY <1>1, <1>2, <1>3, <1>6, <2>1 DEF CallInv, SameRegs
<1>9. /\ cpu'.alt_priority_mask = cpu.alt_priority_mask /\ cpu'.want \subseteq cpu'.alt_irq
      /\ cpu.alt_irq \subseteq cpu'.alt_irq
  BY <1>3, <1>5 DEF SameRegs
<1>10. cpu' \in CpuSet /\ cpu'.frames # <<>> /\ SameBelow(cpu', cpu)
  BY <1>5
<1> QED
  BY <1>1, <1>6, <1>7, <1>8, <1>9, <1>10, TopStep

\* A call goes on inside of its regions.
LEMMA CallGoesOn ==
    ASSUME NEW c, CpuInv(c), Top(c).op # "none",
           NEW b \in CpuSet, b.frames = c.frames, b.pie = c.pie,
           b.alt_priority_mask = c.alt_priority_mask, b.alt_irq = c.alt_irq, b.want = c.want,
           NEW f \in FrameSet, f.ctx = Top(c).ctx, f.line = Top(c).line, f.open = Top(c).open,
           f.mask = Top(c).mask,
           NEW d, d = WithMe(b, f)
    PROVE  /\ SameRegs(d, b) /\ Depth(d) = Depth(c) /\ Top(d) = f
           /\ CallInv(d) => CpuInv(d)
<1>1. c \in CpuSet /\ c.frames # <<>> /\ b.frames # <<>> /\ RegionInv(c) /\ c.want \subseteq c.alt_irq
  BY DEF CpuInv
<1>2. /\ d \in CpuSet /\ d.frames # <<>> /\ SameBelow(d, b) /\ SameRegs(d, b) /\ d.pie = b.pie
      /\ Top(d) = f
  BY <1>1, WithMeFacts
<1>3. SameBelow(d, c) /\ Depth(d) = Depth(c)
  BY <1>2 DEF SameBelow, Depth
<1>4. ~c.pie /\ ~Top(c).open
  BY <1>1 DEF RegionInv
<1>5. RegionInv(d)
  BY <1>1, <1>2, <1>3, <1>4 DEF RegionInv
<1>6. /\ d.alt_priority_mask = c.alt_priority_mask /\ c.alt_irq \subseteq d.alt_irq /\ d.want \subseteq d.alt_irq
  BY <1>1, <1>2 DEF SameRegs
<1>7. ASSUME CallInv(d) PROVE CpuInv(d)
  BY <1>2, <1>3, <1>5, <1>6, <1>7, TopStep
<1> QED
  BY <1>2, <1>3, <1>7

\* Outside of handlers that may be interrupted every line passes the mask.
LEMMA CallMask ==
    ASSUME NEW c, CpuInv(c), Depth(c) <= 2, ~Top(c).open
    PROVE  c.alt_priority_mask = Lines
<1>1. MaskInv(c) /\ Depth(c) \in Nat /\ Depth(c) >= 1
  BY TopTyped DEF CpuInv
<1> QED
  BY <1>1 DEF MaskInv, MaskUpTo

\* A handler is set or taken away; the change of the line's enable follows.
LEMMA SetKeeps ==
    ASSUME CpuInv(cpu), NEW o \in {"set", "unset"}, Me.op = o, NEW T \in SUBSET Lines, NEW W \in SUBSET Lines,
           \/ o = "set" /\ T = cpu.alt_irq \cup {Me.id} /\ W = cpu.want \cup {Me.id}
           \/ o = "unset" /\ T = cpu.alt_irq \ {Me.id} /\ W = cpu.want \ {Me.id},
           cpu' = OwnRegion(WithMe([cpu EXCEPT !.alt_irq = T, !.want = W],
                                   [Me EXCEPT !.op = IF o = "set" THEN "enable" ELSE "disable"]))
    PROVE  CpuInv(cpu')
<1> DEFINE p == IF o = "set" THEN "enable" ELSE "disable"
           f == [Me EXCEPT !.op = p]
           b == [cpu EXCEPT !.alt_irq = T, !.want = W]
<1>1. /\ Me = Top(cpu) /\ Me \in FrameSet /\ cpu \in CpuSet /\ cpu.frames # <<>>
      /\ Len(Me.ctx) \in Nat /\ (Me.ctx # <<>> => Len(Me.ctx) >= 1) /\ Depth(cpu) \in Nat /\ Depth(cpu) >= 1
  BY MeTyped
<1>2. CallInv(cpu) /\ cpu.want \subseteq cpu.alt_irq /\ RegionInv(cpu)
  BY DEF CpuInv
<1>3. Depth(cpu) = 1 /\ Me.ctx # <<>> /\ ~Me.open /\ Me.id \in Lines /\ cpu.alt_irq_active = cpu.want
  BY <1>1, <1>2 DEF CallInv, RegionInv
<1>4. p \in {"enable", "disable"} /\ (p = "enable" <=> o = "set")
  OBVIOUS
<1>5. cpu' = alt_irq_disable_all(WithMe(b, f))
  BY DEF OwnRegion
<1> HIDE DEF p
<1>6. /\ f \in FrameSet /\ f.ctx = Me.ctx /\ f.line = Me.line /\ f.open = Me.open /\ f.mask = Me.mask
      /\ f.op = p /\ f.reg = Me.reg /\ f.id = Me.id
  BY <1>1, <1>4 DEF FrameSet
<1>7. /\ b \in CpuSet /\ b.frames = cpu.frames /\ b.pie = cpu.pie /\ b.alt_irq = T /\ b.want = W
      /\ b.alt_priority_mask = cpu.alt_priority_mask /\ b.alt_irq_active = cpu.alt_irq_active
  BY <1>1 DEF CpuSet
<1>8. W \subseteq T
  BY <1>2
<1> HIDE DEF f, b
<1>9. /\ SameRegs(cpu', b) /\ Top(cpu').op = f.op /\ Top(cpu').reg = f.reg /\ Top(cpu').id = f.id
      /\ Top(cpu').ctx # <<>> /\ Len(Top(cpu').ctx) = Len(Me.ctx) + 1 /\ Depth(cpu') = Depth(cpu)
      /\ CallInv(cpu') => CpuInv(cpu')
  BY <1>1, <1>3, <1>5, <1>6, <1>7, <1>8, CallStarts
<1>10. Len(Top(cpu').ctx) >= 2
  BY <1>1, <1>3, <1>9
<1>11. CallInv(cpu')
  BY <1>3, <1>4, <1>6, <1>7, <1>9, <1>10 DEF CallInv, SameRegs
<1> QED
  BY <1>9, <1>11

\* The new value of the enables is made from alt_irq_active.
LEMMA ReadKeeps ==
    ASSUME CpuInv(cpu), Me.op \in {"enable", "disable"}, NEW v,
           v = IF Me.op = "enable" THEN cpu.alt_irq_active \cup {Me.id} ELSE cpu.alt_irq_active \ {Me.id},
           cpu' = WithMe(cpu, [Me EXCEPT !.op = "write", !.val = v])
    PROVE  CpuInv(cpu')
<1> DEFINE f == [Me EXCEPT !.op = "write", !.val = v]
<1>1. Me = Top(cpu) /\ Me \in FrameSet /\ cpu \in CpuSet
  BY MeTyped
<1>2. CallInv(cpu)
  BY DEF CpuInv
<1>3. cpu.alt_irq_active \subseteq Lines /\ (Me.op = "enable" => Me.id \in Lines) /\ v = cpu.want
  BY <1>1, <1>2 DEF CallInv, CpuSet
<1>4. v \in SUBSET Lines
  BY <1>1, <1>3 DEF CpuSet
<1>5. /\ f \in FrameSet /\ f.ctx = Me.ctx /\ f.line = Me.line /\ f.open = Me.open /\ f.mask = Me.mask
      /\ f.op = "write" /\ f.reg = Me.reg /\ f.val = v
  BY <1>1, <1>4 DEF FrameSet
<1> HIDE DEF f
<1>6. cpu' = WithMe(cpu, f)
  BY DEF f
<1>7. SameRegs(cpu', cpu) /\ Depth(cpu') = Depth(cpu) /\ Top(cpu') = f /\ (CallInv(cpu') => CpuInv(cpu'))
  BY <1>1, <1>5, <1>6, CallGoesOn
<1>8. CallInv(cpu')
  BY <1>1, <1>2, <1>3, <1>5, <1>7 DEF CallInv, SameRegs
<1> QED
  BY <1>7, <1>8

\* The new value is stored and written to IENABLE.
LEMMA WriteKeeps ==
    ASSUME CpuInv(cpu), Me.op = "write",
           cpu' = WithMe([cpu EXCEPT !.alt_irq_active = Me.val, !.ienable = Me.val], [Me EXCEPT !.op = "leave"])
    PROVE  CpuInv(cpu')
<1> DEFINE f == [Me EXCEPT !.op = "leave"]
           b == [cpu EXCEPT !.alt_irq_active = Me.val, !.ienable = Me.val]
<1>1. Me = Top(cpu) /\ Me \in FrameSet /\ cpu \in CpuSet
  BY MeTyped
<1>2. CallInv(cpu)
  BY DEF CpuInv
<1>3. cpu.want = Me.val /\ Me.val \in SUBSET Lines
  BY <1>1, <1>2 DEF CallInv, FrameSet
<1>4. /\ f \in FrameSet /\ f.ctx = Me.ctx /\ f.line = Me.line /\ f.open = Me.open /\ f.mask = Me.mask
      /\ f.op = "leave" /\ f.reg = Me.reg
  BY <1>1 DEF FrameSet
<1>5. /\ b \in CpuSet /\ b.frames = cpu.frames /\ b.pie = cpu.pie /\ b.alt_irq = cpu.alt_irq
      /\ b.want = cpu.want /\ b.alt_priority_mask = cpu.alt_priority_mask
      /\ b.alt_irq_active = Me.val /\ b.ienable = Me.val
  BY <1>1, <1>3 DEF CpuSet
<1> HIDE DEF f, b
<1>6. cpu' = WithMe(b, f)
  BY DEF f, b
<1>7. SameRegs(cpu', b) /\ Depth(cpu') = Depth(cpu) /\ Top(cpu') = f /\ (CallInv(cpu') => CpuInv(cpu'))
  BY <1>1, <1>4, <1>5, <1>6, CallGoesOn
<1>8. CallInv(cpu')
  BY <1>1, <1>2, <1>3, <1>4, <1>5, <1>7 DEF CallInv, SameRegs
<1> QED
  BY <1>7, <1>8

\* A region of a call is left.
LEMMA LeaveStepKeeps ==
    ASSUME CpuInv(cpu), Me.op = "leave",
           cpu' = alt_irq_enable_all(WithMe(cpu, [Me EXCEPT !.op = Outer(Me), !.reg = FALSE,
                                                            !.id = Me.line, !.val = {}]))
    PROVE  CpuInv(cpu')
<1> DEFINE f == [Me EXCEPT !.op = Outer(Me), !.reg = FALSE, !.id = Me.line, !.val = {}]
           e == WithMe(cpu, f)
<1>1. /\ Me = Top(cpu) /\ Me \in FrameSet /\ cpu \in CpuSet /\ cpu.frames # <<>>
      /\ Len(Me.ctx) \in Nat /\ Me.ctx \in Seq(BOOLEAN)
  BY MeTyped DEF FrameSet
<1>2. CallInv(cpu) /\ RegionInv(cpu) /\ cpu.want \subseteq cpu.alt_irq
  BY DEF CpuInv
<1>3. /\ ~Me.open /\ Me.ctx # <<>> /\ Depth(cpu) <= 2 /\ (Me.reg => Len(Me.ctx) >= 2)
      /\ cpu.alt_irq_active = cpu.want /\ cpu.ienable = cpu.want
  BY <1>1, <1>2 DEF CallInv, RegionInv
<1>4. Outer(Me) \in {"none", "leave"} /\ (Outer(Me) = "leave" => Me.reg) /\ Me.line \in Lines \cup {MAIN}
  BY <1>1 DEF Outer, FrameSet
<1>5. f \in FrameSet /\ f.ctx = Me.ctx /\ f.line = Me.line /\ f.mask = Me.mask /\ f.op = Outer(Me)
  BY <1>1, <1>4 DEF FrameSet
<1>6. f.open = Me.open /\ f.reg = FALSE
  BY <1>1 DEF FrameSet
<1> HIDE DEF f
<1>7. /\ e \in CpuSet /\ e.frames # <<>> /\ SameRegs(e, cpu) /\ SameBelow(e, cpu) /\ Top(e) = f
  BY <1>1, <1>5, WithMeFacts
<1>8. cpu' = alt_irq_enable_all(e)
  BY DEF f
<1> HIDE DEF e
<1>9. /\ cpu' \in CpuSet /\ cpu'.frames # <<>> /\ SameBelow(cpu', e) /\ SameRegs(cpu', e)
      /\ cpu'.pie = Last(f.ctx) /\ Top(cpu') = [f EXCEPT !.ctx = Front(@)]
  BY <1>3, <1>5, <1>7, <1>8, RegionLeft
<1>10. /\ Top(cpu').op = Outer(Me) /\ Top(cpu').line = Me.line /\ Top(cpu').mask = Me.mask
       /\ Top(cpu').ctx = Front(Me.ctx)
  BY <1>5, <1>9 DEF FrameSet
<1>11. Top(cpu').open = Me.open /\ ~Top(cpu').reg
  BY <1>5, <1>6, <1>9 DEF FrameSet
<1>12. SameBelow(cpu', cpu) /\ SameRegs(cpu', cpu) /\ cpu'.pie = Last(Me.ctx) /\ Depth(cpu') = Depth(cpu)
  <2>1. SameBelow(cpu', e) /\ SameRegs(cpu', e) /\ cpu'.pie = Last(Me.ctx)
    BY <1>5, <1>9
  <2> QED
    BY <1>7, <2>1 DEF SameBelow, SameRegs
<1>13. RegionInv(cpu') /\ Len(Top(cpu').ctx) = Len(Me.ctx) - 1
  <2>1. Len(Me.ctx) >= 2 \/ Top(cpu').op = "none"
    BY <1>3, <1>4, <1>10
  <2> QED
    BY <1>1, <1>3, <1>10, <1>11, <1>12, <2>1, LeaveKeeps
<1>14. CallInv(cpu')
  <2>1. cpu.alt_priority_mask = Lines
    BY <1>1, <1>3, CallMask
  <2>2. cpu.want \subseteq Lines
    BY <1>1 DEF CpuSet
  <2>3. /\ cpu'.alt_irq_active = cpu'.want /\ cpu'.ienable = cpu'.want
        /\ cpu'.want \cap cpu'.alt_priority_mask = cpu'.want
    BY <1>3, <1>12, <2>1, <2>2 DEF SameRegs
  <2>4. Top(cpu').op = "leave" => Top(cpu').ctx # <<>>
    <3>1. SUFFICES ASSUME Top(cpu').op = "leave", Top(cpu').ctx = <<>> PROVE FALSE
      OBVIOUS
    <3>2. Len(Me.ctx) >= 2 /\ Len(Top(cpu').ctx) = 0
      BY <1>3, <1>4, <1>10, <3>1
    <3> QED
      BY <1>1, <1>13, <3>2
  <2> QED
    BY <1>3, <1>4, <1>10, <1>11, <1>12, <2>3, <2>4 DEF CallInv
<1>15. /\ cpu'.alt_priority_mask = cpu.alt_priority_mask /\ cpu'.want \subseteq cpu'.alt_irq
       /\ cpu.alt_irq \subseteq cpu'.alt_irq
  BY <1>2, <1>12 DEF SameRegs
<1>16. cpu' \in CpuSet /\ cpu'.frames # <<>>
  BY <1>9
<1> QED
  BY <1>1, <1>10, <1>11, <1>12, <1>13, <1>14, <1>15, <1>16, TopStep

\* Every step of a call.
LEMMA LineStepKeeps == ASSUME CpuInv(cpu), LineStep PROVE CpuInv(cpu')
<1>1. Me = Top(cpu) /\ Me \in FrameSet /\ cpu \in CpuSet
  BY MeTyped
<1>2. CASE Me.op = "set" /\ LET c == [cpu EXCEPT !.alt_irq = @ \cup {Me.id}, !.want = @ \cup {Me.id}]
                             IN  cpu' = OwnRegion(WithMe(c, [Me EXCEPT !.op = "enable"]))
  <2> DEFINE T == cpu.alt_irq \cup {Me.id}
             W == cpu.want \cup {Me.id}
  <2>1. Me.id \in Lines /\ T \in SUBSET Lines /\ W \in SUBSET Lines
    BY <1>1, <1>2 DEF CpuInv, CallInv, CpuSet
  <2>2. cpu' = OwnRegion(WithMe([cpu EXCEPT !.alt_irq = T, !.want = W],
                               [Me EXCEPT !.op = IF "set" = "set" THEN "enable" ELSE "disable"]))
    BY <1>2
  <2> QED
    BY <1>2, <2>1, <2>2, SetKeeps
<1>3. CASE Me.op = "unset" /\ LET c == [cpu EXCEPT !.alt_irq = @ \ {Me.id}, !.want = @ \ {Me.id}]
                               IN  cpu' = OwnRegion(WithMe(c, [Me EXCEPT !.op = "disable"]))
  <2> DEFINE T == cpu.alt_irq \ {Me.id}
             W == cpu.want \ {Me.id}
  <2>1. T \in SUBSET Lines /\ W \in SUBSET Lines
    BY <1>1 DEF CpuSet
  <2>2. cpu' = OwnRegion(WithMe([cpu EXCEPT !.alt_irq = T, !.want = W],
                               [Me EXCEPT !.op = IF "unset" = "set" THEN "enable" ELSE "disable"]))
    BY <1>3
  <2> QED
    BY <1>3, <2>1, <2>2, SetKeeps
<1>4. CASE Me.op \in {"enable", "disable"}
           /\ cpu' = WithMe(cpu, [Me EXCEPT !.op = "write",
                                            !.val = IF Me.op = "enable" THEN cpu.alt_irq_active \cup {Me.id}
                                                    ELSE cpu.alt_irq_active \ {Me.id}])
  BY <1>4, ReadKeeps
<1>5. CASE Me.op = "write"
           /\ cpu' = WithMe([cpu EXCEPT !.alt_irq_active = Me.val, !.ienable = Me.val], [Me EXCEPT !.op = "leave"])
  BY <1>5, WriteKeeps
<1>6. CASE Me.op = "leave"
           /\ cpu' = alt_irq_enable_all(WithMe(cpu, [Me EXCEPT !.op = Outer(Me), !.reg = FALSE, !.id = Me.line, !.val = {}]))
  BY <1>6, LeaveStepKeeps
<1> QED
  BY <1>2, <1>3, <1>4, <1>5, <1>6 DEF LineStep

\* The main program turns interrupts on.
LEMMA InitKeeps == ASSUME CpuInv(cpu), alt_irq_init PROVE CpuInv(cpu')
<1> DEFINE f == [Me EXCEPT !.op = "none"]
           e == WithMe(cpu, f)
<1>1. Me = Top(cpu) /\ Me \in FrameSet /\ cpu \in CpuSet /\ cpu.frames # <<>>
  BY MeTyped
<1>2. Me.op = "boot" /\ cpu' = [[e EXCEPT !.ienable = {}] EXCEPT !.pie = TRUE]
  BY DEF alt_irq_init, alt_irq_cpu_enable_interrupts, altera_nios2_qsys_irq_init
<1>3. CallInv(cpu) /\ RegionInv(cpu) /\ cpu.want \subseteq cpu.alt_irq
  BY DEF CpuInv
<1>4. Depth(cpu) = 1 /\ Me.ctx = <<>> /\ ~Me.open /\ ~Me.reg /\ cpu.alt_irq_active = {} /\ cpu.want = {}
  BY <1>1, <1>2, <1>3 DEF CallInv, RegionInv
<1>5. /\ f \in FrameSet /\ f.ctx = Me.ctx /\ f.line = Me.line /\ f.open = Me.open /\ f.mask = Me.mask
      /\ f.op = "none" /\ f.reg = Me.reg
  BY <1>1 DEF FrameSet
<1> HIDE DEF f
<1>6. /\ e \in CpuSet /\ e.frames # <<>> /\ SameRegs(e, cpu) /\ SameBelow(e, cpu) /\ Top(e) = f
  BY <1>1, <1>5, WithMeFacts
<1> HIDE DEF e
<1>7. /\ cpu' \in CpuSet /\ cpu'.frames = e.frames /\ cpu'.ienable = {} /\ cpu'.alt_irq_active = e.alt_irq_active
      /\ cpu'.want = e.want /\ cpu'.alt_priority_mask = e.alt_priority_mask /\ cpu'.alt_irq = e.alt_irq
  BY <1>2, <1>6 DEF CpuSet
<1>8. Top(cpu') = f /\ cpu'.frames # <<>> /\ SameBelow(cpu', cpu) /\ Depth(cpu') = 1
  BY <1>4, <1>6, <1>7 DEF Top, SameBelow, Depth
<1>9. /\ cpu'.alt_irq_active = {} /\ cpu'.want = {} /\ cpu'.alt_priority_mask = cpu.alt_priority_mask
      /\ cpu'.alt_irq = cpu.alt_irq
  BY <1>4, <1>6, <1>7 DEF SameRegs
<1>10. RegionInv(cpu')
  BY <1>4, <1>5, <1>8 DEF RegionInv
<1>11. CallInv(cpu')
  BY <1>4, <1>5, <1>7, <1>8, <1>9 DEF CallInv
<1>12. Top(cpu').line = Top(cpu).line /\ Top(cpu').open = Top(cpu).open /\ Top(cpu').mask = Top(cpu).mask
  BY <1>1, <1>5, <1>8
<1>13. cpu' \in CpuSet /\ cpu'.want \subseteq cpu'.alt_irq
  BY <1>7, <1>9
<1> QED
  BY <1>4, <1>8, <1>9, <1>10, <1>11, <1>12, <1>13, TopStep

\* A device raises its line or is served: no more than that changes.
LEMMA RaisedKeeps ==
    ASSUME CpuInv(cpu), NEW R \in SUBSET Lines, cpu' = [cpu EXCEPT !.raised = R]
    PROVE  CpuInv(cpu')
<1>1. cpu \in CpuSet /\ cpu.frames # <<>> /\ CallInv(cpu) /\ RegionInv(cpu) /\ cpu.want \subseteq cpu.alt_irq
  BY DEF CpuInv
<1>2. /\ cpu' \in CpuSet /\ cpu'.frames = cpu.frames /\ cpu'.ienable = cpu.ienable /\ cpu'.pie = cpu.pie
      /\ cpu'.alt_irq_active = cpu.alt_irq_active /\ cpu'.want = cpu.want
      /\ cpu'.alt_priority_mask = cpu.alt_priority_mask /\ cpu'.alt_irq = cpu.alt_irq
  BY <1>1 DEF CpuSet
<1>3. Top(cpu') = Top(cpu) /\ Depth(cpu') = Depth(cpu) /\ SameBelow(cpu', cpu)
  BY <1>2 DEF Top, Depth, SameBelow
<1>4. RegionInv(cpu')
  BY <1>1, <1>2, <1>3, Zenon DEF RegionInv
<1>5. CallInv(cpu')
  BY <1>1, <1>2, <1>3, Zenon DEF CallInv
<1>6. cpu'.want \subseteq cpu'.alt_irq /\ cpu.alt_irq \subseteq cpu'.alt_irq /\ cpu'.frames # <<>>
  BY <1>1, <1>2
<1> QED
  BY <1>2, <1>3, <1>4, <1>5, <1>6, TopStep

\* A handler is left: the frame it interrupted runs on with interrupts on.
LEMMA ReturnKeeps ==
    ASSUME CpuInv(cpu), IsIsr, Me.op = "none", Me.ctx = <<>>, ~Me.open,
           cpu' = [cpu EXCEPT !.frames = Front(@), !.pie = TRUE]
    PROVE  CpuInv(cpu')
<1> DEFINE n == Depth(cpu) - 1
<1>1. /\ Me = Top(cpu) /\ Me \in FrameSet /\ cpu \in CpuSet /\ cpu.frames # <<>>
      /\ Depth(cpu) \in Nat /\ Depth(cpu) >= 2
  BY MeTyped, MainFirst DEF IsIsr
<1>2. /\ BelowInv(cpu) /\ NestInv(cpu) /\ MaskInv(cpu) /\ CallInv(cpu) /\ cpu.want \subseteq cpu.alt_irq
  BY DEF CpuInv
<1>3. /\ Front(cpu.frames) \in Seq(FrameSet) /\ Len(Front(cpu.frames)) = n
      /\ \A k \in 1 .. n : Front(cpu.frames)[k] = cpu.frames[k]
  BY <1>1, FrontFacts DEF CpuSet, Depth
<1>4. n \in Nat /\ n >= 1 /\ Depth(cpu) = n + 1
  BY <1>1
<1>5. /\ cpu' \in CpuSet /\ cpu'.frames = Front(cpu.frames) /\ cpu'.ienable = cpu.ienable /\ cpu'.pie = TRUE
      /\ cpu'.alt_irq_active = cpu.alt_irq_active /\ cpu'.want = cpu.want
      /\ cpu'.alt_priority_mask = cpu.alt_priority_mask /\ cpu'.alt_irq = cpu.alt_irq
  BY <1>1, <1>3 DEF CpuSet
<1> HIDE DEF n
<1>6. /\ Depth(cpu') = n /\ Top(cpu') = cpu.frames[n] /\ cpu'.frames # <<>>
      /\ \A k \in 1 .. n : cpu'.frames[k] = cpu.frames[k]
  BY <1>3, <1>4, <1>5 DEF Depth, Top, Last
<1>7. /\ Top(cpu').ctx = <<>> /\ Top(cpu').op = "none" /\ ~Top(cpu').reg
      /\ (n >= 2 => Top(cpu').open)
  BY <1>2, <1>4, <1>6 DEF BelowInv
<1>8. BelowInv(cpu')
  BY <1>2, <1>4, <1>6 DEF BelowInv
<1>9. NestInv(cpu')
  BY <1>2, <1>4, <1>5, <1>6 DEF NestInv
<1>10. \A k \in 1 .. n : MaskUpTo(cpu', k) = MaskUpTo(cpu, k)
  BY <1>6 DEF MaskUpTo
<1>11. MaskInv(cpu')
  <2>1. ASSUME NEW k \in 1 .. n, cpu.frames[k].open PROVE k >= 2 /\ cpu.frames[k].mask = MaskUpTo(cpu', k - 1)
    <3>1. k >= 2 /\ cpu.frames[k].mask = MaskUpTo(cpu, k - 1)
      BY <1>2, <1>4, <2>1 DEF MaskInv
    <3>2. k - 1 \in 1 .. n
      BY <1>4, <3>1
    <3> QED
      BY <1>10, <3>1, <3>2
  <2>2. cpu.alt_priority_mask = MaskUpTo(cpu, n)
    BY <1>1, <1>2, <1>4 DEF MaskInv
  <2>3. cpu'.alt_priority_mask = MaskUpTo(cpu', n)
    BY <1>4, <1>5, <1>10, <2>2
  <2>4. (IF Top(cpu').open \/ Depth(cpu') = 1 THEN Depth(cpu') ELSE Depth(cpu') - 1) = n
    BY <1>4, <1>6, <1>7
  <2>5. \A k \in 1 .. Depth(cpu') : cpu'.frames[k].open => k >= 2 /\ cpu'.frames[k].mask = MaskUpTo(cpu', k - 1)
    BY <1>6, <2>1
  <2> QED
    BY <2>3, <2>4, <2>5 DEF MaskInv
<1>12. RegionInv(cpu')
  BY <1>6, <1>7 DEF RegionInv
<1>13. CallInv(cpu')
  BY <1>1, <1>2, <1>5, <1>7 DEF CallInv
<1>14. cpu' \in CpuSet /\ cpu'.want \subseteq cpu'.alt_irq
  BY <1>2, <1>5
<1> QED
  BY <1>6, <1>8, <1>9, <1>11, <1>12, <1>13, <1>14 DEF CpuInv

\* The lowest of some lines is one of them.
LEMMA LowestIn == ASSUME NEW S \in SUBSET Lines, S # {} PROVE Lowest(S) \in S
<1>1. S \in SUBSET Nat
  BY LinesAssumption
<1>2. PICK x \in S : \A y \in S : ~(<<y, x>> \in OpToRel(<, Nat))
  BY <1>1, NatLessThanWellFounded, WFMin
<1>3. \A y \in S : ~(y < x)
  BY <1>1, <1>2 DEF OpToRel
<1>4. \A y \in S : x <= y
  BY <1>1, <1>3
<1> QED
  BY <1>4 DEF Lowest

\* A handler's frame.
LEMMA HandlerFrame ==
    ASSUME NEW i \in Lines
    PROVE  /\ Frame(i, IsrOps) \in FrameSet
           /\ Frame(i, IsrOps).line = i /\ Frame(i, IsrOps).ctx = <<>> /\ Frame(i, IsrOps).op = "none"
           /\ ~Frame(i, IsrOps).open /\ ~Frame(i, IsrOps).reg
<1>1. <<>> \in Seq(BOOLEAN) /\ {} \in SUBSET Lines /\ IsrOps \in Nat
  BY BoundsAssumption
<1>2. Frame(i, IsrOps) \in FrameSet
  BY <1>1 DEF Frame, FrameSet
<1> QED
  BY <1>2 DEF Frame

\* With no call half done, a pending line has a handler and is one the mask
\* passes, so it comes before every handler that may be interrupted.
LEMMA PendingAbove ==
    ASSUME CpuInv(cpu), Me.op = "none", alt_irq_pending # {}, NEW k \in 1 .. Depth(cpu),
           cpu.alt_priority_mask = MaskUpTo(cpu, k)
    PROVE  LET i == Lowest(alt_irq_pending)
           IN  i \in Lines /\ i \in cpu.alt_irq /\ i < cpu.frames[k].line
<1> DEFINE i == Lowest(alt_irq_pending)
<1>1. Me = Top(cpu) /\ cpu \in CpuSet /\ cpu.frames # <<>>
  BY MeTyped
<1>2. CallInv(cpu) /\ BelowInv(cpu) /\ cpu.want \subseteq cpu.alt_irq
  BY DEF CpuInv
<1>3. alt_irq_pending \in SUBSET Lines
  BY <1>1 DEF alt_irq_pending, CpuSet
<1>4. i \in alt_irq_pending
  BY <1>3, LowestIn
<1> HIDE DEF i
<1>5. i \in cpu.want /\ i \in cpu.alt_priority_mask /\ i \in Lines
  BY <1>1, <1>2, <1>3, <1>4 DEF CallInv, alt_irq_pending
<1>6. i < cpu.frames[k].line
  <2>1. CASE k = 1
    <3>1. cpu.frames[k].line = 32 /\ i \in 0 .. 31
      BY <1>2, <1>5, <2>1, LinesAssumption DEF BelowInv, MAIN
    <3> QED
      BY <3>1
  <2>2. CASE k # 1
    BY <1>5, <2>2 DEF MaskUpTo, Above
  <2> QED
    BY <2>1, <2>2
<1> QED
  BY <1>2, <1>5, <1>6 DEF i

\* The processor takes an interrupt.
LEMMA TakeKeeps == ASSUME CpuInv(cpu), Take PROVE CpuInv(cpu')
<1> DEFINE i == Lowest(alt_irq_pending)
           h == Frame(i, IsrOps)
           n == Depth(cpu)
<1>1. /\ Me = Top(cpu) /\ Me \in FrameSet /\ cpu \in CpuSet /\ cpu.frames # <<>> /\ n \in Nat /\ n >= 1
      /\ Me = cpu.frames[n]
  BY MeTyped, TopTyped
<1>2. /\ BelowInv(cpu) /\ NestInv(cpu) /\ MaskInv(cpu) /\ RegionInv(cpu) /\ CallInv(cpu)
      /\ cpu.want \subseteq cpu.alt_irq
  BY DEF CpuInv
<1>3. /\ cpu.pie /\ alt_irq_pending # {}
      /\ cpu' = [cpu EXCEPT !.pie = FALSE, !.frames = Append(@, h)]
  BY DEF Take
<1>4. Me.ctx = <<>> /\ Me.op = "none" /\ (n >= 2 => Me.open)
  BY <1>1, <1>2, <1>3 DEF RegionInv
<1>5. cpu.alt_priority_mask = MaskUpTo(cpu, n)
  <2>1. (IF Top(cpu).open \/ Depth(cpu) = 1 THEN Depth(cpu) ELSE Depth(cpu) - 1) = n
    BY <1>1, <1>4
  <2> QED
    BY <1>2, <2>1, Zenon DEF MaskInv
<1>6. i \in Lines /\ i \in cpu.alt_irq /\ i < cpu.frames[n].line
  BY <1>1, <1>3, <1>4, <1>5, PendingAbove
<1> HIDE DEF i
<1>7. /\ h \in FrameSet /\ h.line = i /\ h.ctx = <<>> /\ h.op = "none" /\ ~h.open /\ ~h.reg
  BY <1>6, HandlerFrame
<1> HIDE DEF h
<1>8. /\ Append(cpu.frames, h) \in Seq(FrameSet) /\ Len(Append(cpu.frames, h)) = n + 1
      /\ \A k \in 1 .. n : Append(cpu.frames, h)[k] = cpu.frames[k]
      /\ Append(cpu.frames, h)[n + 1] = h
  <2>1. cpu.frames \in Seq(FrameSet)
    BY <1>1 DEF CpuSet
  <2> QED
    BY <1>7, <2>1, AppendProperties DEF Depth
<1>9. /\ cpu' \in CpuSet /\ cpu'.frames = Append(cpu.frames, h) /\ cpu'.ienable = cpu.ienable /\ cpu'.pie = FALSE
      /\ cpu'.alt_irq_active = cpu.alt_irq_active /\ cpu'.want = cpu.want
      /\ cpu'.alt_priority_mask = cpu.alt_priority_mask /\ cpu'.alt_irq = cpu.alt_irq
  BY <1>1, <1>3, <1>8 DEF CpuSet
<1>10. /\ Depth(cpu') = n + 1 /\ Top(cpu') = h /\ cpu'.frames # <<>> /\ cpu'.frames[n + 1] = h
       /\ \A k \in 1 .. n : cpu'.frames[k] = cpu.frames[k]
  BY <1>1, <1>8, <1>9 DEF Depth, Top, Last
<1>11. ~Me.reg
  BY <1>1, <1>2, <1>4 DEF CallInv
<1> HIDE DEF n
<1>12. BelowInv(cpu')
  <2>1. cpu'.frames[1].line = MAIN
    BY <1>1, <1>2, <1>10 DEF BelowInv
  <2>2. ASSUME NEW k \in 1 .. n
        PROVE  /\ cpu.frames[k].ctx = <<>> /\ cpu.frames[k].op = "none"
               /\ ~cpu.frames[k].reg /\ (k >= 2 => cpu.frames[k].open)
    <3>1. CASE k = n
      BY <1>1, <1>4, <1>11, <3>1
    <3>2. CASE k # n
      <4>1. k \in 1 .. (n - 1)
        BY <1>1, <3>2
      <4> QED
        BY <1>2, <4>1 DEF BelowInv, n
    <3> QED
      BY <3>1, <3>2
  <2> QED
    BY <1>1, <1>10, <2>1, <2>2 DEF BelowInv
<1>13. NestInv(cpu')
  <2> SUFFICES ASSUME NEW k \in 2 .. (n + 1)
               PROVE  cpu'.frames[k].line \in cpu'.alt_irq /\ cpu'.frames[k].line < cpu'.frames[k - 1].line
    BY <1>10 DEF NestInv
  <2>1. CASE k = n + 1
    <3>1. k - 1 = n /\ n \in 1 .. n
      BY <1>1, <2>1
    <3>2. cpu'.frames[k - 1] = cpu.frames[n] /\ cpu'.frames[k] = h
      BY <1>10, <2>1, <3>1
    <3> QED
      BY <1>6, <1>7, <1>9, <3>2
  <2>2. CASE k \in 2 .. n
    <3>1. k \in 1 .. n /\ k - 1 \in 1 .. n
      BY <1>1, <2>2
    <3>2. cpu'.frames[k - 1] = cpu.frames[k - 1] /\ cpu'.frames[k] = cpu.frames[k] /\ cpu'.alt_irq = cpu.alt_irq
      BY <1>9, <1>10, <3>1
    <3>3. cpu.frames[k].line \in cpu.alt_irq /\ cpu.frames[k].line < cpu.frames[k - 1].line
      BY <1>2, <2>2 DEF NestInv, n
    <3> QED
      BY <3>2, <3>3
  <2> QED
    BY <1>1, <2>1, <2>2
<1>14. \A k \in 1 .. n : MaskUpTo(cpu', k) = MaskUpTo(cpu, k)
  BY <1>10 DEF MaskUpTo
<1>15. MaskInv(cpu')
  <2>1. ASSUME NEW k \in 1 .. n, cpu.frames[k].open PROVE k >= 2 /\ cpu.frames[k].mask = MaskUpTo(cpu', k - 1)
    <3>1. k >= 2 /\ cpu.frames[k].mask = MaskUpTo(cpu, k - 1)
      BY <1>2, <2>1 DEF MaskInv, n
    <3>2. k - 1 \in 1 .. n
      BY <1>1, <3>1
    <3> QED
      BY <1>14, <3>1, <3>2
  <2>2. cpu'.alt_priority_mask = MaskUpTo(cpu', n)
    BY <1>1, <1>5, <1>9, <1>14
  <2>3. (IF Top(cpu').open \/ Depth(cpu') = 1 THEN Depth(cpu') ELSE Depth(cpu') - 1) = n
    BY <1>1, <1>7, <1>10
  <2>4. ASSUME NEW k \in 1 .. (n + 1), cpu'.frames[k].open
        PROVE  k >= 2 /\ cpu'.frames[k].mask = MaskUpTo(cpu', k - 1)
    <3>1. k # n + 1
      BY <1>7, <1>10, <2>4
    <3>2. k \in 1 .. n
      BY <1>1, <3>1
    <3> QED
      BY <1>10, <2>1, <2>4, <3>2
  <2> QED
    BY <1>10, <2>2, <2>3, <2>4 DEF MaskInv
<1>16. RegionInv(cpu')
  BY <1>7, <1>9, <1>10 DEF RegionInv
<1>17. CallInv(cpu')
  BY <1>1, <1>2, <1>4, <1>7, <1>9, <1>10 DEF CallInv
<1>18. cpu' \in CpuSet /\ cpu'.want \subseteq cpu'.alt_irq
  BY <1>2, <1>9
<1> QED
  BY <1>10, <1>12, <1>13, <1>15, <1>16, <1>17, <1>18 DEF CpuInv

\* A handler changes the mask, or the handler of another line takes its place.
LEMMA HandlerStep ==
    ASSUME NEW c, CpuInv(c), Depth(c) >= 2, NEW d \in CpuSet, d.frames # <<>>, SameBelow(d, c),
           d.alt_irq = c.alt_irq, d.want = c.want,
           Top(d).line \in c.alt_irq, Top(d).line < c.frames[Depth(c) - 1].line,
           IF Top(d).open
           THEN Top(d).mask = MaskUpTo(c, Depth(c) - 1) /\ d.alt_priority_mask = Above(Top(d).line)
           ELSE d.alt_priority_mask = MaskUpTo(c, Depth(c) - 1),
           RegionInv(d), CallInv(d)
    PROVE  CpuInv(d)
<1> DEFINE n == Depth(c)
<1>1. /\ c \in CpuSet /\ c.frames # <<>> /\ BelowInv(c) /\ NestInv(c) /\ MaskInv(c) /\ c.want \subseteq c.alt_irq
  BY DEF CpuInv
<1>2. /\ n \in Nat /\ n >= 2 /\ Depth(d) = n /\ Top(d) = d.frames[n]
      /\ \A k \in 1 .. (n - 1) : d.frames[k] = c.frames[k]
  BY <1>1, TopTyped DEF SameBelow
<1>3. 1 \in 1 .. (n - 1) /\ n - 1 \in 1 .. (n - 1)
  BY <1>2
<1>4. BelowInv(d)
  BY <1>1, <1>2, <1>3 DEF BelowInv
<1>5. NestInv(d)
  <2> SUFFICES ASSUME NEW k \in 2 .. n
               PROVE  d.frames[k].line \in c.alt_irq /\ d.frames[k].line < d.frames[k - 1].line
    BY <1>2 DEF NestInv
  <2>1. CASE k = n
    <3>1. d.frames[k - 1] = c.frames[n - 1] /\ d.frames[k] = Top(d)
      BY <1>2, <1>3, <2>1
    <3> QED
      BY <3>1
  <2>2. CASE k # n
    <3>1. k \in 1 .. (n - 1) /\ k - 1 \in 1 .. (n - 1)
      BY <1>2, <2>2
    <3>2. d.frames[k] = c.frames[k] /\ d.frames[k - 1] = c.frames[k - 1]
      BY <1>2, <3>1
    <3>3. c.frames[k].line \in c.alt_irq /\ c.frames[k].line < c.frames[k - 1].line
      BY <1>1 DEF NestInv
    <3> QED
      BY <3>2, <3>3
  <2> QED
    BY <2>1, <2>2
<1>6. \A k \in 1 .. (n - 1) : MaskUpTo(d, k) = MaskUpTo(c, k)
  BY <1>2 DEF MaskUpTo
<1>7. MaskInv(d)
  <2>1. ASSUME NEW k \in 1 .. n, d.frames[k].open
        PROVE  k >= 2 /\ d.frames[k].mask = MaskUpTo(d, k - 1)
    <3>1. CASE k = n
      <4>1. Top(d).open /\ k - 1 = n - 1
        BY <1>2, <2>1, <3>1
      <4>2. Top(d).mask = MaskUpTo(d, n - 1)
        BY <1>3, <1>6, <4>1
      <4> QED
        BY <1>2, <3>1, <4>2
    <3>2. CASE k # n
      <4>1. k \in 1 .. (n - 1) /\ k \in 1 .. Depth(c)
        BY <1>2, <3>2
      <4>2. d.frames[k] = c.frames[k]
        BY <1>2, <4>1
      <4>3. k >= 2 /\ c.frames[k].mask = MaskUpTo(c, k - 1)
        BY <1>1, <2>1, <4>1, <4>2 DEF MaskInv
      <4>4. k - 1 \in 1 .. (n - 1)
        BY <1>2, <4>1, <4>3
      <4> QED
        BY <1>6, <4>2, <4>3, <4>4
    <3> QED
      BY <3>1, <3>2
  <2>2. d.alt_priority_mask = MaskUpTo(d, IF Top(d).open \/ Depth(d) = 1 THEN Depth(d) ELSE Depth(d) - 1)
    <3>1. CASE Top(d).open
      <4>1. (IF Top(d).open \/ Depth(d) = 1 THEN Depth(d) ELSE Depth(d) - 1) = n /\ n # 1
        BY <1>2, <3>1
      <4>2. MaskUpTo(d, n) = Above(Top(d).line)
        BY <1>2, <4>1 DEF MaskUpTo
      <4> QED
        BY <3>1, <4>1, <4>2
    <3>2. CASE ~Top(d).open
      <4>1. (IF Top(d).open \/ Depth(d) = 1 THEN Depth(d) ELSE Depth(d) - 1) = n - 1
        BY <1>2, <3>2
      <4>2. MaskUpTo(d, n - 1) = MaskUpTo(c, n - 1)
        BY <1>3, <1>6
      <4> QED
        BY <3>2, <4>1, <4>2
    <3> QED
      BY <3>1, <3>2
  <2> QED
    BY <1>2, <2>1, <2>2 DEF MaskInv
<1> QED
  BY <1>1, <1>4, <1>5, <1>7 DEF CpuInv

\* What a handler that is not half way through a call finds.
LEMMA HandlerFacts ==
    ASSUME CpuInv(cpu), IsIsr, Me.op = "none"
    PROVE  /\ Me = Top(cpu) /\ Me \in FrameSet /\ cpu \in CpuSet /\ cpu.frames # <<>>
           /\ Depth(cpu) \in Nat /\ Depth(cpu) >= 2
           /\ Me.line \in Lines /\ Me.line \in cpu.alt_irq /\ Me.line < cpu.frames[Depth(cpu) - 1].line
           /\ cpu.alt_irq_active = cpu.want /\ ~Me.reg /\ cpu.want \subseteq Lines
           /\ cpu.ienable = cpu.want \cap cpu.alt_priority_mask
           /\ (IF Me.open THEN Me.mask ELSE cpu.alt_priority_mask) = MaskUpTo(cpu, Depth(cpu) - 1)
<1>1. /\ Me = Top(cpu) /\ Me \in FrameSet /\ cpu \in CpuSet /\ cpu.frames # <<>>
      /\ Depth(cpu) \in Nat /\ Depth(cpu) >= 2 /\ Me = cpu.frames[Depth(cpu)]
  BY MeTyped, MainFirst, TopTyped DEF IsIsr
<1>2. NestInv(cpu) /\ MaskInv(cpu) /\ CallInv(cpu)
  BY DEF CpuInv
<1>3. Me.line \in cpu.alt_irq /\ Me.line < cpu.frames[Depth(cpu) - 1].line
  BY <1>1, <1>2 DEF NestInv
<1>4. cpu.alt_irq_active = cpu.want /\ ~Me.reg /\ cpu.ienable = cpu.want \cap cpu.alt_priority_mask
  BY <1>1, <1>2 DEF CallInv
<1>5. cpu.alt_irq \subseteq Lines /\ cpu.want \subseteq Lines
  BY <1>1 DEF CpuSet
<1>6. (IF Me.open THEN Me.mask ELSE cpu.alt_priority_mask) = MaskUpTo(cpu, Depth(cpu) - 1)
  <2>1. CASE Me.open
    <3>1. Depth(cpu) \in 1 .. Depth(cpu) /\ cpu.frames[Depth(cpu)].open
      BY <1>1, <2>1
    <3>2. cpu.frames[Depth(cpu)].mask = MaskUpTo(cpu, Depth(cpu) - 1)
      BY <1>2, <3>1, Zenon DEF MaskInv
    <3> QED
      BY <1>1, <2>1, <3>2
  <2>2. CASE ~Me.open
    <3>1. (IF Top(cpu).open \/ Depth(cpu) = 1 THEN Depth(cpu) ELSE Depth(cpu) - 1) = Depth(cpu) - 1
      BY <1>1, <2>2
    <3>2. cpu.alt_priority_mask = MaskUpTo(cpu, Depth(cpu) - 1)
      BY <1>2, <3>1, Zenon DEF MaskInv
    <3> QED
      BY <2>2, <3>2
  <2> QED
    BY <2>1, <2>2
<1> QED
  BY <1>1, <1>3, <1>4, <1>5, <1>6

\* alt_irq_handler finds another line pending before it returns.
LEMMA NextHandlerKeeps ==
    ASSUME CpuInv(cpu), IsIsr, Me.op = "none", Me.ctx = <<>>, ~Me.open, alt_irq_pending # {},
           cpu' = WithMe(cpu, Frame(Lowest(alt_irq_pending), IsrOps))
    PROVE  CpuInv(cpu')
<1> DEFINE i == Lowest(alt_irq_pending)
           h == Frame(i, IsrOps)
           n == Depth(cpu)
<1>1. /\ Me = Top(cpu) /\ cpu \in CpuSet /\ cpu.frames # <<>> /\ n \in Nat /\ n >= 2
      /\ cpu.alt_irq_active = cpu.want /\ cpu.ienable = cpu.want \cap cpu.alt_priority_mask
      /\ cpu.alt_priority_mask = MaskUpTo(cpu, n - 1)
  BY HandlerFacts
<1>2. RegionInv(cpu)
  BY DEF CpuInv
<1>3. n - 1 \in 1 .. n
  BY <1>1
<1>4. i \in Lines /\ i \in cpu.alt_irq /\ i < cpu.frames[n - 1].line
  BY <1>1, <1>3, PendingAbove
<1> HIDE DEF i
<1>5. /\ h \in FrameSet /\ h.line = i /\ h.ctx = <<>> /\ h.op = "none" /\ ~h.open /\ ~h.reg
  BY <1>4, HandlerFrame
<1>6. cpu' = WithMe(cpu, h)
  BY DEF i
<1> HIDE DEF h
<1>7. /\ cpu' \in CpuSet /\ cpu'.frames # <<>> /\ SameRegs(cpu', cpu) /\ SameBelow(cpu', cpu) /\ Top(cpu') = h
      /\ cpu'.pie = cpu.pie
  BY <1>1, <1>5, <1>6, WithMeFacts
<1>8. Depth(cpu') = Depth(cpu)
  BY <1>7 DEF SameBelow
<1>9. RegionInv(cpu')
  <2>1. ~cpu.pie
    BY <1>1, <1>2 DEF RegionInv
  <2> QED
    BY <1>5, <1>7, <2>1 DEF RegionInv
<1>10. CallInv(cpu')
  BY <1>1, <1>5, <1>7 DEF CallInv, SameRegs
<1>11. /\ cpu'.alt_irq = cpu.alt_irq /\ cpu'.want = cpu.want
       /\ cpu'.alt_priority_mask = MaskUpTo(cpu, Depth(cpu) - 1)
  BY <1>1, <1>7 DEF SameRegs
<1>12. /\ Top(cpu').line \in cpu.alt_irq /\ Top(cpu').line < cpu.frames[Depth(cpu) - 1].line /\ ~Top(cpu').open
       /\ Depth(cpu) >= 2
  BY <1>1, <1>4, <1>5, <1>7
<1> QED
  BY <1>7, <1>9, <1>10, <1>11, <1>12, HandlerStep

\* A handler ends: the next pending line is served, or alt_irq_handler returns.
LEMMA HandlerEndKeeps == ASSUME CpuInv(cpu), HandlerEnd PROVE CpuInv(cpu')
<1>1. IsIsr /\ Me.op = "none" /\ Me.ctx = <<>> /\ ~Me.open
  BY DEF HandlerEnd
<1>2. CASE alt_irq_pending = {}
  <2>1. cpu' = [cpu EXCEPT !.frames = Front(@), !.pie = TRUE]
    BY <1>2 DEF HandlerEnd
  <2> QED
    BY <1>1, <2>1, ReturnKeeps
<1>3. CASE alt_irq_pending # {}
  <2>1. cpu' = WithMe(cpu, Frame(Lowest(alt_irq_pending), IsrOps))
    BY <1>3 DEF HandlerEnd
  <2> QED
    BY <1>1, <1>3, <2>1, NextHandlerKeeps
<1> QED
  BY <1>2, <1>3

\* A handler lets itself be interrupted by the lines before its own.
LEMMA InterruptibleKeeps == ASSUME CpuInv(cpu), alt_irq_interruptible PROVE CpuInv(cpu')
<1> DEFINE b == [cpu EXCEPT !.alt_priority_mask = Above(Me.line),
                            !.ienable = cpu.alt_irq_active \cap Above(Me.line), !.pie = TRUE]
           f == [Spend(Me) EXCEPT !.open = TRUE, !.mask = cpu.alt_priority_mask]
<1>1. /\ IsIsr /\ Me.op = "none" /\ Me.left > 0 /\ Me.ctx = <<>> /\ cpu' = WithMe(b, f) /\ ~Me.open
  BY DEF alt_irq_interruptible, Idle
<1>2. /\ Me = Top(cpu) /\ Me \in FrameSet /\ cpu \in CpuSet /\ cpu.frames # <<>>
      /\ Depth(cpu) \in Nat /\ Depth(cpu) >= 2
      /\ Me.line \in Lines /\ Me.line \in cpu.alt_irq /\ Me.line < cpu.frames[Depth(cpu) - 1].line
      /\ cpu.alt_irq_active = cpu.want /\ ~Me.reg /\ cpu.want \subseteq Lines
      /\ cpu.alt_priority_mask = MaskUpTo(cpu, Depth(cpu) - 1)
  BY <1>1, HandlerFacts
<1>3. Above(Me.line) \subseteq Lines /\ cpu.alt_priority_mask \subseteq Lines
  BY <1>2 DEF Above, CpuSet
<1>4. /\ Spend(Me) \in FrameSet /\ Spend(Me).ctx = Me.ctx /\ Spend(Me).line = Me.line
      /\ Spend(Me).op = Me.op /\ Spend(Me).reg = Me.reg
  BY <1>1, <1>2, SpendTyped
<1>5. /\ f \in FrameSet /\ f.ctx = Spend(Me).ctx /\ f.line = Spend(Me).line /\ f.op = Spend(Me).op
      /\ f.mask = cpu.alt_priority_mask
  <2> DEFINE g == Spend(Me)
  <2>1. g \in FrameSet /\ f = [g EXCEPT !.open = TRUE, !.mask = cpu.alt_priority_mask]
    BY <1>4
  <2> HIDE DEF g, f
  <2> QED
    BY <1>3, <2>1 DEF FrameSet, g
<1>6. f.open /\ f.reg = Spend(Me).reg
  <2> DEFINE g == Spend(Me)
  <2>1. g \in FrameSet /\ f = [g EXCEPT !.open = TRUE, !.mask = cpu.alt_priority_mask]
    BY <1>4
  <2> HIDE DEF g, f
  <2> QED
    BY <1>3, <2>1 DEF FrameSet, g
<1>7. /\ b \in CpuSet /\ b.frames = cpu.frames /\ b.alt_irq = cpu.alt_irq
      /\ b.want = cpu.want /\ b.alt_priority_mask = Above(Me.line)
      /\ b.alt_irq_active = cpu.alt_irq_active /\ b.ienable = cpu.alt_irq_active \cap Above(Me.line)
  BY <1>2, <1>3 DEF CpuSet
<1> HIDE DEF b, f
<1>8. /\ cpu' \in CpuSet /\ cpu'.frames # <<>> /\ SameRegs(cpu', b) /\ SameBelow(cpu', b) /\ Top(cpu') = f
  BY <1>1, <1>2, <1>5, <1>7, WithMeFacts
<1>9. SameBelow(cpu', cpu) /\ Depth(cpu') = Depth(cpu)
  BY <1>7, <1>8 DEF SameBelow, Depth
<1>10. Top(cpu').ctx = <<>> /\ Top(cpu').op = "none" /\ Top(cpu').line = Me.line
  BY <1>1, <1>4, <1>5, <1>8
<1>11. ~Top(cpu').reg /\ Top(cpu').open
  BY <1>2, <1>4, <1>6, <1>8
<1>12. RegionInv(cpu')
  BY <1>10, <1>11 DEF RegionInv
<1>13. /\ cpu'.alt_irq = cpu.alt_irq /\ cpu'.want = cpu.want /\ cpu'.alt_irq_active = cpu.want
       /\ cpu'.alt_priority_mask = Above(Me.line)
       /\ cpu'.ienable = cpu'.want \cap cpu'.alt_priority_mask
  BY <1>2, <1>7, <1>8 DEF SameRegs
<1>14. CallInv(cpu')
  BY <1>10, <1>11, <1>13 DEF CallInv
<1>15. Top(cpu').mask = MaskUpTo(cpu, Depth(cpu) - 1)
  BY <1>2, <1>5, <1>8
<1>16. /\ Depth(cpu) >= 2 /\ cpu' \in CpuSet /\ cpu'.frames # <<>>
       /\ Top(cpu').line \in cpu.alt_irq /\ Top(cpu').line < cpu.frames[Depth(cpu) - 1].line
       /\ cpu'.alt_priority_mask = Above(Top(cpu').line)
  BY <1>2, <1>8, <1>10, <1>13
<1> QED
  BY <1>9, <1>11, <1>12, <1>13, <1>14, <1>15, <1>16, HandlerStep

\* The handler puts the mask back.
LEMMA NonInterruptibleKeeps == ASSUME CpuInv(cpu), alt_irq_non_interruptible PROVE CpuInv(cpu')
<1> DEFINE b == [cpu EXCEPT !.pie = FALSE, !.alt_priority_mask = Me.mask,
                            !.ienable = Me.mask \cap cpu.alt_irq_active]
           f == [Me EXCEPT !.open = FALSE, !.mask = {}]
<1>1. IsIsr /\ Me.op = "none" /\ Me.open /\ cpu' = WithMe(b, f)
  BY DEF alt_irq_non_interruptible
<1>2. /\ Me = Top(cpu) /\ Me \in FrameSet /\ cpu \in CpuSet /\ cpu.frames # <<>>
      /\ Depth(cpu) \in Nat /\ Depth(cpu) >= 2
      /\ Me.line \in Lines /\ Me.line \in cpu.alt_irq /\ Me.line < cpu.frames[Depth(cpu) - 1].line
      /\ cpu.alt_irq_active = cpu.want /\ ~Me.reg
      /\ Me.mask = MaskUpTo(cpu, Depth(cpu) - 1)
  BY <1>1, HandlerFacts
<1>3. Me.mask \subseteq Lines /\ {} \in SUBSET Lines
  BY <1>2 DEF FrameSet
<1>4. Me.ctx = <<>>
  BY <1>1, <1>2 DEF CpuInv, RegionInv
<1>5. f \in FrameSet /\ f.ctx = Me.ctx /\ f.line = Me.line /\ f.op = Me.op
  BY <1>2, <1>3 DEF FrameSet
<1>6. ~f.open /\ f.reg = Me.reg
  BY <1>2 DEF FrameSet
<1>7. /\ b \in CpuSet /\ b.frames = cpu.frames /\ b.alt_irq = cpu.alt_irq /\ b.pie = FALSE
      /\ b.want = cpu.want /\ b.alt_priority_mask = Me.mask
      /\ b.alt_irq_active = cpu.alt_irq_active /\ b.ienable = Me.mask \cap cpu.alt_irq_active
  BY <1>2, <1>3 DEF CpuSet
<1> HIDE DEF b, f
<1>8. /\ cpu' \in CpuSet /\ cpu'.frames # <<>> /\ SameRegs(cpu', b) /\ SameBelow(cpu', b) /\ Top(cpu') = f
      /\ cpu'.pie = b.pie
  BY <1>1, <1>2, <1>5, <1>7, WithMeFacts
<1>9. SameBelow(cpu', cpu) /\ Depth(cpu') = Depth(cpu)
  BY <1>7, <1>8 DEF SameBelow, Depth
<1>10. Top(cpu').ctx = <<>> /\ Top(cpu').op = "none" /\ Top(cpu').line = Me.line
  BY <1>1, <1>4, <1>5, <1>8
<1>11. ~Top(cpu').reg /\ ~Top(cpu').open /\ ~cpu'.pie
  BY <1>2, <1>6, <1>7, <1>8
<1>12. RegionInv(cpu')
  BY <1>10, <1>11 DEF RegionInv
<1>13. /\ cpu'.alt_irq = cpu.alt_irq /\ cpu'.want = cpu.want /\ cpu'.alt_irq_active = cpu.want
       /\ cpu'.alt_priority_mask = Me.mask
       /\ cpu'.ienable = cpu'.want \cap cpu'.alt_priority_mask
  BY <1>2, <1>7, <1>8 DEF SameRegs
<1>14. CallInv(cpu')
  BY <1>10, <1>11, <1>13 DEF CallInv
<1>15. /\ Depth(cpu) >= 2 /\ cpu' \in CpuSet /\ cpu'.frames # <<>>
       /\ Top(cpu').line \in cpu.alt_irq /\ Top(cpu').line < cpu.frames[Depth(cpu) - 1].line
       /\ cpu'.alt_priority_mask = MaskUpTo(cpu, Depth(cpu) - 1)
  BY <1>2, <1>8, <1>10, <1>13
<1> QED
  BY <1>9, <1>11, <1>12, <1>13, <1>14, <1>15, HandlerStep

-----------------------------------------------------------------------------
(* The theorem                                                              *)

\* Every step keeps the inductive invariant.
LEMMA IrqStep == IrqIInv /\ [IrqNext]_cpu => IrqIInv'
<1> SUFFICES ASSUME IrqIInv, [IrqNext]_cpu PROVE IrqIInv'
  OBVIOUS
<1>1. CpuInv(cpu)
  BY DEF IrqIInv
<1>2. CASE UNCHANGED cpu
  BY <1>2 DEF IrqIInv
<1>3. CASE alt_irq_init
  BY <1>1, <1>3, InitKeeps DEF IrqIInv
<1>4. CASE Off
  BY <1>1, <1>4, OffKeeps DEF IrqIInv
<1>5. CASE On
  BY <1>1, <1>5, OnKeeps DEF IrqIInv
<1>6. CASE LineCall
  BY <1>1, <1>6, LineCallKeeps DEF IrqIInv
<1>7. CASE LineStep
  BY <1>1, <1>7, LineStepKeeps DEF IrqIInv
<1>8. CASE Take
  BY <1>1, <1>8, TakeKeeps DEF IrqIInv
<1>9. CASE Serve
  <2>1. cpu' = [cpu EXCEPT !.raised = cpu.raised \ {Me.line}]
    BY <1>9 DEF Serve
  <2>2. cpu.raised \ {Me.line} \in SUBSET Lines
    BY <1>1, MeTyped DEF CpuSet
  <2> QED
    BY <1>1, <2>1, <2>2, RaisedKeeps DEF IrqIInv
<1>10. CASE HandlerEnd
  BY <1>1, <1>10, HandlerEndKeeps DEF IrqIInv
<1>11. CASE alt_irq_interruptible
  BY <1>1, <1>11, InterruptibleKeeps DEF IrqIInv
<1>12. CASE alt_irq_non_interruptible
  BY <1>1, <1>12, NonInterruptibleKeeps DEF IrqIInv
<1>13. CASE Raise
  <2>1. PICK i \in Lines : cpu' = [cpu EXCEPT !.raised = cpu.raised \cup {i}]
    BY <1>13 DEF Raise
  <2>2. cpu.raised \cup {i} \in SUBSET Lines
    BY <1>1, MeTyped DEF CpuSet
  <2> QED
    BY <1>1, <2>1, <2>2, RaisedKeeps DEF IrqIInv
<1> QED
  BY <1>2, <1>3, <1>4, <1>5, <1>6, <1>7, <1>8, <1>9, <1>10, <1>11, <1>12, <1>13 DEF IrqNext

\* Whatever IENABLE was left at, the HAL's variables start consistent.
LEMMA IrqStart == IrqInit => IrqIInv
<1> SUFFICES ASSUME IrqInit PROVE CpuInv(cpu)
  BY DEF IrqIInv
<1>1. PICK old \in {{}, Lines} :
        cpu = [pie |-> FALSE, ienable |-> old, alt_irq_active |-> {}, alt_priority_mask |-> Lines,
               alt_irq |-> {}, raised |-> {}, want |-> {},
               frames |-> <<[Frame(MAIN, MaxOps) EXCEPT !.op = "boot"]>>]
  BY DEF IrqInit
<1> DEFINE f == [Frame(MAIN, MaxOps) EXCEPT !.op = "boot"]
           g == Frame(MAIN, MaxOps)
<1>2. /\ g \in FrameSet /\ g.line = MAIN /\ g.ctx = <<>> /\ ~g.open /\ ~g.reg
  <2>1. <<>> \in Seq(BOOLEAN) /\ {} \in SUBSET Lines /\ MaxOps \in Nat
    BY BoundsAssumption
  <2> QED
    BY <2>1 DEF FrameSet, Frame
<1>3. f = [g EXCEPT !.op = "boot"]
  OBVIOUS
<1> HIDE DEF f, g
<1>4. f \in FrameSet /\ f.line = MAIN /\ f.ctx = <<>> /\ f.op = "boot" /\ ~f.open /\ ~f.reg
  BY <1>2, <1>3 DEF FrameSet
<1>5. cpu.frames = <<f>>
  BY <1>1 DEF f
<1>6. <<f>> \in Seq(FrameSet) /\ Len(<<f>>) = 1 /\ <<f>>[1] = f
  BY <1>4
<1>7. Depth(cpu) = 1 /\ Top(cpu) = f /\ cpu.frames[1] = f /\ cpu.frames # <<>>
  BY <1>5, <1>6 DEF Depth, Top, Last
<1>8. cpu \in CpuSet
  <2>1. {} \in SUBSET Lines /\ old \in SUBSET Lines /\ Lines \in SUBSET Lines /\ FALSE \in BOOLEAN
    OBVIOUS
  <2> QED
    BY <1>1, <1>5, <1>6, <2>1 DEF CpuSet, f
<1>9. ~cpu.pie /\ cpu.alt_irq_active = {} /\ cpu.alt_priority_mask = Lines /\ cpu.want = {}
  BY <1>1
<1>10. BelowInv(cpu) /\ NestInv(cpu)
  BY <1>4, <1>7 DEF BelowInv, NestInv
<1>11. MaskInv(cpu)
  BY <1>4, <1>7, <1>9 DEF MaskInv, MaskUpTo
<1>12. RegionInv(cpu)
  BY <1>4, <1>7, <1>9 DEF RegionInv
<1>13. CallInv(cpu)
  BY <1>4, <1>7, <1>9 DEF CallInv
<1> QED
  BY <1>7, <1>8, <1>9, <1>10, <1>11, <1>12, <1>13 DEF CpuInv

\* The inductive invariant says more than the property.
LEMMA IrqMeans == IrqIInv => IrqInv
<1> SUFFICES ASSUME CpuInv(cpu) PROVE IrqInv
  BY DEF IrqIInv
<1>1. /\ Me = Top(cpu) /\ cpu \in CpuSet /\ cpu.frames # <<>> /\ Depth(cpu) \in Nat /\ Depth(cpu) >= 1
  BY MeTyped
<1>2. NestInv(cpu) /\ RegionInv(cpu) /\ CallInv(cpu)
  BY DEF CpuInv
<1>3. Me = cpu.frames[Depth(cpu)] /\ DOMAIN cpu.frames = 1 .. Depth(cpu)
  BY <1>1, TopTyped DEF CpuSet, Depth
<1>4. LocksNest
  BY <1>1, <1>2 DEF RegionInv, LocksNest
<1>5. EnablesKept
  <2>1. ASSUME \A k \in DOMAIN cpu.frames : cpu.frames[k].op = "none"
        PROVE  cpu.alt_irq_active = cpu.want /\ cpu.ienable = cpu.want \cap cpu.alt_priority_mask
    <3>1. Me.op = "none"
      BY <1>1, <1>3, <2>1
    <3> QED
      BY <1>1, <1>2, <3>1 DEF CallInv
  <2>2. ASSUME IsIsr PROVE Me.line \in cpu.alt_irq
    <3>1. Depth(cpu) >= 2
      BY <1>1, <2>2, MainFirst DEF IsIsr
    <3> QED
      BY <1>1, <1>2, <1>3, <3>1 DEF NestInv
  <2> QED
    BY <2>1, <2>2 DEF EnablesKept
<1>6. NestsUpward
  <2> SUFFICES ASSUME NEW k \in 1 .. Depth(cpu) - 1 PROVE cpu.frames[k].line > cpu.frames[k + 1].line
    BY DEF NestsUpward, Depth
  <2>1. k + 1 \in 2 .. Depth(cpu) /\ k + 1 - 1 = k
    BY <1>1
  <2>2. cpu.frames[k + 1].line < cpu.frames[k].line
    BY <1>2, <2>1 DEF NestInv
  <2>3. cpu.frames[k].line \in Lines \cup {MAIN} /\ cpu.frames[k + 1].line \in Lines \cup {MAIN}
    BY <1>1, <2>1, TopTyped DEF FrameSet
  <2>4. Lines \cup {MAIN} \subseteq Nat
    BY LinesAssumption DEF MAIN
  <2> QED
    BY <2>2, <2>3, <2>4
<1> QED
  BY <1>4, <1>5, <1>6 DEF IrqInv

\* Interrupt control of the HAL: regions with interrupts off nest, no change of a
\* line's enable is lost and no line without a handler is served, handlers are
\* interrupted only by lines before theirs (alt_irq.h, alt_legacy_irq.h,
\* alt_iic_isr_register.c, alt_irq_handler.c).
THEOREM IrqCorrect == IrqSpec => []IrqInv
<1>1. IrqInit => IrqIInv
  BY IrqStart
<1>2. IrqIInv /\ [IrqNext]_cpu => IrqIInv'
  BY IrqStep
<1>3. IrqIInv => IrqInv
  BY IrqMeans
<1> QED
  BY <1>1, <1>2, <1>3, PTL DEF IrqSpec

-----------------------------------------------------------------------------
(* The list of alarms                                                        *)

\* A set of naturals that is not empty has a least element.
LEMMA LeastNat ==
    ASSUME NEW T \in SUBSET Nat, T # {}
    PROVE  \E x \in T : \A y \in T : x <= y
<1>1. PICK x \in T : \A y \in T : ~(<<y, x>> \in OpToRel(<, Nat))
  BY NatLessThanWellFounded, WFMin
<1>2. \A y \in T : ~(y < x)
  BY <1>1 DEF OpToRel
<1> QED
  BY <1>2

\* f is the recursive function of Unlinked(s, R) up to place n.
RestOf(f, s, R, n) ==
    f = [i \in 0..n |-> IF i = 0 THEN <<>>
                        ELSE IF s[i] \in R THEN f[i - 1] ELSE Append(f[i - 1], s[i])]

\* There is one, since there is one place further than any.
LEMMA RestExists ==
    ASSUME NEW s, NEW R, NEW n \in Nat
    PROVE  \E f : RestOf(f, s, R, n)
<1> DEFINE Bad == {k \in Nat : ~ \E f : RestOf(f, s, R, k)}
<1> SUFFICES ASSUME Bad # {} PROVE FALSE
  OBVIOUS
<1>1. PICK k \in Bad : \A j \in Bad : k <= j
  BY LeastNat
<1>2. k # 0
  <2> DEFINE f == [i \in 0..0 |-> <<>>]
  <2>1. RestOf(f, s, R, 0)
    BY DEF RestOf
  <2> QED
    BY <1>1, <2>1
<1>3. k - 1 \in Nat /\ k - 1 \notin Bad /\ k \in Nat
  BY <1>1, <1>2
<1>4. PICK f : RestOf(f, s, R, k - 1)
  BY <1>3
<1> DEFINE v == IF s[k] \in R THEN f[k - 1] ELSE Append(f[k - 1], s[k])
           g == [i \in 0..k |-> IF i = k THEN v ELSE f[i]]
<1>5. \A i \in 0..(k - 1) : f[i] = IF i = 0 THEN <<>>
                        ELSE IF s[i] \in R THEN f[i - 1] ELSE Append(f[i - 1], s[i])
  BY <1>4 DEF RestOf
<1>6. \A i \in 0..(k - 1) : g[i] = f[i]
  BY <1>3
<1>7. g[k] = v /\ k \in 0..k
  BY <1>3
<1> HIDE DEF v
<1>8. ASSUME NEW i \in 0..k
      PROVE g[i] = IF i = 0 THEN <<>>
                        ELSE IF s[i] \in R THEN g[i - 1] ELSE Append(g[i - 1], s[i])
  <2>1. CASE i = k
    <3>1. g[i - 1] = f[i - 1] /\ i - 1 = k - 1
      BY <1>3, <1>6, <2>1
    <3> HIDE DEF g
    <3> QED
      BY <1>2, <1>7, <2>1, <3>1 DEF v
  <2>2. CASE i # k
    <3>1. i \in 0..(k - 1) /\ (i # 0 => i - 1 \in 0..(k - 1))
      BY <1>3, <2>2
    <3>2. g[i] = f[i] /\ (i # 0 => g[i - 1] = f[i - 1])
      BY <3>1, <1>6
    <3> HIDE DEF g
    <3> QED
      BY <1>5, <3>1, <3>2
  <2> QED
    BY <2>1, <2>2
<1>9. RestOf(g, s, R, k)
  <2>1. g = [i \in 0..k |-> g[i]]
    OBVIOUS
  <2> HIDE DEF g
  <2> QED
    BY <1>8, <2>1 DEF RestOf
<1> QED
  BY <1>1, <1>9

\* What is left of the list are members of it, in the list's type, none of which
\* was to go.
LEMMA UnlinkedFacts ==
    ASSUME NEW A, NEW s \in Seq(A), NEW R
    PROVE  /\ Unlinked(s, R) \in Seq(A)
           /\ ToSet(Unlinked(s, R)) \subseteq ToSet(s)
           /\ \A x \in ToSet(Unlinked(s, R)) : x \notin R
<1>1. Len(s) \in Nat /\ DOMAIN s = 1..Len(s) /\ \A i \in 1..Len(s) : s[i] \in A
  BY LenProperties, ElementOfSeq
<1> DEFINE rest == CHOOSE f : RestOf(f, s, R, Len(s))
<1>2. Unlinked(s, R) = rest[Len(s)]
  BY DEF Unlinked, RestOf
<1>3. RestOf(rest, s, R, Len(s))
  BY <1>1, RestExists
<1> HIDE DEF rest
<1> DEFINE Good(y) == y \in Seq(A) /\ \A i \in 1..Len(y) : y[i] \notin R /\ \E j \in 1..Len(s) : y[i] = s[j]
<1>4. \A n \in 0..Len(s) : Good(rest[n])
  <2> DEFINE Bad == {n \in 0..Len(s) : ~ Good(rest[n])}
  <2> SUFFICES ASSUME Bad # {} PROVE FALSE
    OBVIOUS
  <2>0. Bad \in SUBSET Nat
    BY <1>1
  <2>1. PICK k \in Bad : \A j \in Bad : k <= j
    BY <2>0, LeastNat
  <2>2. rest[k] = IF k = 0 THEN <<>>
                  ELSE IF s[k] \in R THEN rest[k - 1] ELSE Append(rest[k - 1], s[k])
    BY <1>1, <1>3 DEF RestOf
  <2>3. k # 0
    <3>1. <<>> \in Seq(A) /\ Len(<<>>) = 0
      OBVIOUS
    <3>2. Good(<<>>)
      BY <3>1
    <3> HIDE DEF Good
    <3> QED
      BY <2>1, <2>2, <3>2
  <2>4. k \in 1..Len(s) /\ k - 1 \in 0..Len(s) /\ k - 1 \notin Bad
    BY <1>1, <2>1, <2>3
  <2>5. Good(rest[k - 1])
    BY <2>4
  <2>6. s[k] \notin R
    <3> HIDE DEF Good
    <3> QED
      BY <2>1, <2>2, <2>3, <2>5
  <2> DEFINE y == rest[k - 1]
             z == Append(y, s[k])
  <2>7. rest[k] = z
    BY <2>2, <2>3, <2>6
  <2>8. y \in Seq(A) /\ s[k] \in A /\ \A i \in 1..Len(y) : y[i] \notin R /\ \E j \in 1..Len(s) : y[i] = s[j]
    BY <2>4, <2>5, <1>1
  <2> HIDE DEF y
  <2>9. /\ z \in Seq(A) /\ Len(z) = Len(y) + 1 /\ Len(y) \in Nat
        /\ z[Len(y) + 1] = s[k] /\ \A i \in 1..Len(y) : z[i] = y[i]
    BY <2>8, AppendProperties, LenProperties
  <2> HIDE DEF z
  <2>10. ASSUME NEW i \in 1..Len(z) PROVE z[i] \notin R /\ \E j \in 1..Len(s) : z[i] = s[j]
    <3>1. CASE i = Len(y) + 1
      BY <3>1, <2>9, <2>6, <2>4
    <3>2. CASE i # Len(y) + 1
      <4>1. i \in 1..Len(y)
        BY <3>2, <2>9
      <4> QED
        BY <4>1, <2>9, <2>8
    <3> QED
      BY <3>1, <3>2
  <2>11. Good(z)
    BY <2>9, <2>10
  <2> HIDE DEF Good
  <2> QED
    BY <2>1, <2>7, <2>11
<1>5. Good(Unlinked(s, R))
  <2>1. Len(s) \in 0..Len(s)
    BY <1>1
  <2> HIDE DEF Good
  <2> QED
    BY <1>2, <1>4, <2>1
<1> DEFINE u == Unlinked(s, R)
<1> HIDE DEF u
<1>6. u \in Seq(A) /\ \A i \in 1..Len(u) : u[i] \notin R /\ \E j \in 1..Len(s) : u[i] = s[j]
  BY <1>5 DEF u
<1>7. DOMAIN u = 1..Len(u)
  BY <1>6, LenProperties
<1>8. /\ ToSet(u) \subseteq ToSet(s)
      /\ \A x \in ToSet(u) : x \notin R
  BY <1>1, <1>6, <1>7 DEF ToSet
<1> QED
  BY <1>6, <1>8 DEF u

-----------------------------------------------------------------------------
(* Alarms                                                                    *)

\* The second is shorter than the counter is wide, by as much as the alarms of
\* the application are longer (2^32 ticks at 1000 a second in the code).
TicksFit == TickRate + 3 <= TickMod

AlarmSet == [time : 0..(TickMod - 1), rollover : BOOLEAN, due : Int, off : Int]

\* An alarm of the list when the counter is now: what is left to wait is the
\* distance to its time, past the wrap of the counter exactly if the flag says so.
OnTime(al, now) ==
    /\ al.due >= 1 /\ al.off = 0
    /\ al.rollover => al.time < now /\ al.due = al.time + TickMod - now
    /\ ~ al.rollover => al.due = al.time - now

\* d ticks after now.
LEMMA WrapFacts ==
    ASSUME NEW now \in 0..(TickMod - 1), NEW d \in 0..(TickMod - 1)
    PROVE  /\ (now + d) % TickMod \in 0..(TickMod - 1)
           /\ now + d < TickMod => (now + d) % TickMod = now + d
           /\ now + d >= TickMod => (now + d) % TickMod = now + d - TickMod
<1>1. TickMod \in Nat \ {0}
  BY TickAssumption
<1>2. CASE now + d < TickMod
  BY <1>1, <1>2
<1>3. CASE now + d >= TickMod
  BY <1>1, <1>3
<1> QED
  BY <1>1, <1>2, <1>3

\* An alarm set d ticks ahead is on time.
LEMMA SetOnTime ==
    ASSUME NEW now \in 0..(TickMod - 1), NEW d \in 1..(TickMod - 1), NEW t, t = (now + d) % TickMod,
           NEW al \in AlarmSet, al.time = t, al.due = d, al.off = 0, al.rollover <=> t < now
    PROVE  OnTime(al, now)
<1>1. TickMod \in Nat \ {0}
  BY TickAssumption
<1>2. d \in 0..(TickMod - 1) /\ d >= 1
  BY <1>1
<1>3. CASE now + d < TickMod
  <2>1. t = now + d
    BY <1>2, <1>3, WrapFacts
  <2>2. ~(t < now)
    BY <1>1, <1>2, <2>1
  <2> QED
    BY <1>1, <1>2, <2>1, <2>2 DEF OnTime
<1>4. CASE now + d >= TickMod
  <2>1. t = now + d - TickMod
    BY <1>2, <1>4, WrapFacts
  <2>2. t < now
    BY <1>1, <1>2, <2>1
  <2> QED
    BY <1>1, <1>2, <2>1, <2>2 DEF OnTime
<1> QED
  BY <1>1, <1>2, <1>3, <1>4

\* One tick: an alarm that is on time is called when one tick is left and no
\* sooner, and stays on time unless its callback asks for nothing more.
LEMMA TickedOnTime ==
    ASSUME NEW was \in 0..(TickMod - 1), NEW now, now = (was + 1) % TickMod,
           NEW al \in AlarmSet, OnTime(al, was), NEW next \in 0..(TickMod - 1), TickMod > 1
    PROVE  /\ Ticked(al, now, next) \in AlarmSet
           /\ ~(Fires(al, now) /\ next = 0) => OnTime(Ticked(al, now, next), now)
<1>1. TickMod \in Nat \ {0}
  BY TickAssumption
<1>2. now \in 0..(TickMod - 1) /\ IF was + 1 < TickMod THEN now = was + 1 ELSE now = 0 /\ was = TickMod - 1
  <2>1. 1 \in 0..(TickMod - 1)
    BY <1>1
  <2>2. /\ (was + 1) % TickMod \in 0..(TickMod - 1)
        /\ was + 1 < TickMod => (was + 1) % TickMod = was + 1
        /\ was + 1 >= TickMod => (was + 1) % TickMod = was + 1 - TickMod
    BY <2>1, WrapFacts
  <2>3. was + 1 >= TickMod => was = TickMod - 1
    BY <1>1
  <2> DEFINE w == (was + 1) % TickMod
  <2> HIDE DEF w
  <2>4. now = w /\ (was + 1 < TickMod => w = was + 1) /\ (was + 1 >= TickMod => w = was + 1 - TickMod) /\ w \in 0..(TickMod - 1)
    BY <2>2 DEF w
  <2> QED
    BY <1>1, <2>3, <2>4
<1>3. al.time \in 0..(TickMod - 1) /\ al.rollover \in BOOLEAN /\ al.due \in Int /\ al.off \in Int
  BY DEF AlarmSet
<1>4. CASE Fires(al, now)
  <2>1. al.time = now /\ al.due = 1
    <3>1. al.time <= now /\ (~al.rollover \/ now = 0)
      BY <1>4, <1>3 DEF Fires, Rolled
    <3>2. CASE al.rollover
      BY <1>1, <1>2, <1>3, <3>1, <3>2 DEF OnTime
    <3>3. CASE ~al.rollover
      BY <1>1, <1>2, <1>3, <3>1, <3>3 DEF OnTime
    <3> QED
      BY <3>2, <3>3
  <2> DEFINE t == (now + next) % TickMod
  <2>2. t \in 0..(TickMod - 1)
    BY <1>2, WrapFacts
  <2>3. Ticked(al, now, next) = [time |-> t, rollover |-> t < now, due |-> next, off |-> 0]
    <3>1. al.due - 1 = 0
      BY <2>1
    <3> QED
      BY <1>4, <2>1, <3>1 DEF Ticked, Rearmed
  <2> HIDE DEF t
  <2> DEFINE ro == t < now
  <2>4. ro \in BOOLEAN /\ next \in Int /\ 0 \in Int
    BY <1>1, <1>2, <2>2
  <2>5. Ticked(al, now, next) \in AlarmSet
    <3>1. Ticked(al, now, next) = [time |-> t, rollover |-> ro, due |-> next, off |-> 0]
      BY <2>3
    <3> HIDE DEF ro
    <3> QED
      BY <2>2, <3>1, <2>4 DEF AlarmSet
  <2>6. ASSUME next # 0 PROVE OnTime(Ticked(al, now, next), now)
    <3>1. next \in 1..(TickMod - 1)
      BY <1>1, <2>6
    <3>2. /\ Ticked(al, now, next).time = t /\ Ticked(al, now, next).due = next
          /\ Ticked(al, now, next).off = 0 /\ (Ticked(al, now, next).rollover <=> t < now)
      <4>1. Ticked(al, now, next) = [time |-> t, rollover |-> ro, due |-> next, off |-> 0]
        BY <2>3
      <4> HIDE DEF ro
      <4>2. /\ Ticked(al, now, next).time = t /\ Ticked(al, now, next).due = next
            /\ Ticked(al, now, next).off = 0 /\ Ticked(al, now, next).rollover = ro
        BY <4>1
      <4> QED
        BY <4>2 DEF ro
    <3>3. t = (now + next) % TickMod
      BY DEF t
    <3> QED
      BY <1>2, <2>5, <3>1, <3>2, <3>3, SetOnTime
  <2> QED
    BY <2>5, <2>6, <1>4
<1>5. CASE ~Fires(al, now)
  <2>1. Ticked(al, now, next) = [al EXCEPT !.rollover = Rolled(al, now), !.due = @ - 1]
    BY <1>5 DEF Ticked
  <2>2. Rolled(al, now) \in BOOLEAN /\ (Rolled(al, now) <=> al.rollover /\ now # 0)
    BY <1>3 DEF Rolled
  <2> DEFINE b == Ticked(al, now, next)
  <2>3. b \in AlarmSet /\ b.time = al.time /\ b.due = al.due - 1 /\ b.off = al.off /\ b.rollover = Rolled(al, now)
    <3> DEFINE ro == Rolled(al, now)
               du == al.due - 1
    <3>1. b = [al EXCEPT !.rollover = ro, !.due = du] /\ ro \in BOOLEAN /\ du \in Int
      BY <1>3, <2>1, <2>2
    <3> HIDE DEF b, ro, du
    <3>2. b \in AlarmSet /\ b.time = al.time /\ b.due = du /\ b.off = al.off /\ b.rollover = ro
      BY <3>1 DEF AlarmSet
    <3> QED
      BY <3>2 DEF ro, du
  <2> HIDE DEF b
  <2>4. al.time > now \/ Rolled(al, now)
    BY <1>2, <1>3, <1>5 DEF Fires
  <2>5. OnTime(b, now)
    <3>1. CASE al.rollover /\ now # 0
      <4>1. b.rollover
        BY <2>2, <2>3, <3>1
      <4>2. al.time < was /\ al.due = al.time + TickMod - was /\ now = was + 1 /\ al.off = 0
        BY <3>1, <1>2 DEF OnTime
      <4> QED
        BY <1>1, <1>2, <1>3, <2>3, <4>1, <4>2 DEF OnTime
    <3>2. CASE al.rollover /\ now = 0
      <4>1. ~b.rollover /\ al.time > now
        BY <2>2, <2>3, <2>4, <3>2
      <4>2. al.due = al.time + TickMod - was /\ was = TickMod - 1 /\ al.off = 0
        BY <3>2, <1>2, <1>1 DEF OnTime
      <4> QED
        BY <1>1, <1>2, <1>3, <2>3, <3>2, <4>1, <4>2 DEF OnTime
    <3>3. CASE ~al.rollover
      <4>1. ~b.rollover /\ al.time > now
        BY <2>2, <2>3, <2>4, <3>3
      <4>2. al.due = al.time - was /\ al.due >= 1 /\ al.off = 0
        BY <3>3 DEF OnTime
      <4>3. now = was + 1
        BY <1>1, <1>2, <1>3, <4>2
      <4> QED
        BY <1>1, <1>2, <1>3, <2>3, <4>1, <4>2, <4>3 DEF OnTime
    <3> QED
      BY <1>3, <3>1, <3>2, <3>3
  <2> QED
    BY <2>3, <2>5 DEF b
<1> QED
  BY <1>4, <1>5

\* The clock, and all alarms of the list.
ClkInv == clk \in [nticks : 0..(TickMod - 1), rate : {0, TickRate}, on : BOOLEAN, to : BOOLEAN]
AlarmInv == /\ alarm \in [Alarms -> AlarmSet] /\ alist \in Seq(Alarms)
            /\ \A a \in Listed : OnTime(alarm[a], clk.nticks)

\* Types of the alarms in the list.
LEMMA ListedTyped ==
    ASSUME AlarmInv
    PROVE  Listed \subseteq Alarms /\ \A a \in Listed : alarm[a] \in AlarmSet
<1>1. alist \in Seq(Alarms) /\ DOMAIN alist = 1..Len(alist) /\ \A i \in 1..Len(alist) : alist[i] \in Alarms
  BY LenProperties, ElementOfSeq DEF AlarmInv
<1>2. Listed \subseteq Alarms
  BY <1>1 DEF Listed, ToSet
<1> QED
  BY <1>2 DEF AlarmInv

\* The tick interrupt.
LEMMA TickKept ==
    ASSUME ClkInv, AlarmInv, TicksFit, NEW next \in [Alarms -> 0..(TickMod - 1)], alt_tick(next)
    PROVE  AlarmInv'
<1>1. TickMod \in Nat /\ TickMod > 1
  BY TickAssumption DEF TicksFit
<1>2. clk.nticks \in 0..(TickMod - 1) /\ clk'.nticks = NowTick
  BY DEF ClkInv, alt_tick
<1>3. Listed \subseteq Alarms /\ (\A a \in Listed : alarm[a] \in AlarmSet) /\ alarm \in [Alarms -> AlarmSet]
  BY ListedTyped DEF AlarmInv
<1> DEFINE R == {a \in Fired : next[a] = 0}
<1>4. alist' = Unlinked(alist, R)
  BY DEF alt_tick
<1>5. alist' \in Seq(Alarms) /\ Listed' \subseteq Listed /\ \A a \in Listed' : a \notin R
  <2>1. alist \in Seq(Alarms)
    BY DEF AlarmInv
  <2> HIDE DEF R
  <2> QED
    BY <1>4, <2>1, UnlinkedFacts DEF Listed
<1>6. ASSUME NEW a \in Listed
      PROVE  /\ Ticked(alarm[a], NowTick, next[a]) \in AlarmSet
             /\ a \notin R => OnTime(Ticked(alarm[a], NowTick, next[a]), NowTick)
  <2>1. OnTime(alarm[a], clk.nticks) /\ alarm[a] \in AlarmSet /\ next[a] \in 0..(TickMod - 1)
    BY <1>3 DEF AlarmInv
  <2>2. NowTick = (clk.nticks + 1) % TickMod
    BY DEF NowTick
  <2>3. /\ Ticked(alarm[a], NowTick, next[a]) \in AlarmSet
        /\ ~(Fires(alarm[a], NowTick) /\ next[a] = 0) => OnTime(Ticked(alarm[a], NowTick, next[a]), NowTick)
    BY <1>1, <1>2, <2>1, <2>2, TickedOnTime
  <2>4. a \notin R => ~(Fires(alarm[a], NowTick) /\ next[a] = 0)
    BY DEF Fired
  <2> QED
    BY <2>3, <2>4
<1>7. \A a \in Alarms : alarm'[a] = IF a \in Listed THEN Ticked(alarm[a], NowTick, next[a]) ELSE alarm[a]
  BY DEF alt_tick
<1>8. alarm' \in [Alarms -> AlarmSet]
  <2>1. \A a \in Alarms : (IF a \in Listed THEN Ticked(alarm[a], NowTick, next[a]) ELSE alarm[a]) \in AlarmSet
    BY <1>3, <1>6
  <2> QED
    BY <2>1 DEF alt_tick
<1>9. \A a \in Listed' : OnTime(alarm'[a], NowTick)
  <2> HIDE DEF R
  <2> QED
    BY <1>3, <1>5, <1>6, <1>7
<1>10. \A a \in Listed' : OnTime(alarm'[a], clk'.nticks)
  BY <1>2, <1>9
<1> QED
  BY <1>5, <1>8, <1>10 DEF AlarmInv, OnTime

\* An alarm is started.
LEMMA StartKept ==
    ASSUME ClkInv, AlarmInv, NEW a \in Alarms, NEW n \in 0..(TickMod - 2),
           alt_alarm_start(a, n), UNCHANGED clk
    PROVE  AlarmInv'
<1>1. TickMod \in Nat \ {0} /\ n \in Int /\ n >= 0 /\ n <= TickMod - 2
  BY TickAssumption
<1>2. clk.nticks \in 0..(TickMod - 1) /\ clk'.nticks = clk.nticks
  BY DEF ClkInv
<1> DEFINE now == clk.nticks
           t == (now + (n + 1)) % TickMod
           ro == t < now
           al == [time |-> t, rollover |-> ro, due |-> n + 1, off |-> 0]
<1>3. n + 1 \in 1..(TickMod - 1) /\ n + 1 \in 0..(TickMod - 1) /\ n + 1 \in Int
  BY <1>1
<1>4. StartTime(n) = t
  <2>1. n + now + 1 = now + (n + 1)
    BY <1>1, <1>2
  <2> QED
    BY <2>1 DEF StartTime
<1>5. t \in 0..(TickMod - 1)
  BY <1>2, <1>3, WrapFacts
<1>6. alarm' = [alarm EXCEPT ![a] = al] /\ alist' = <<a>> \o alist
  BY <1>4 DEF alt_alarm_start
<1>7. t = (now + (n + 1)) % TickMod
  OBVIOUS
<1> HIDE DEF t
<1>8. ro \in BOOLEAN
  BY <1>1, <1>2, <1>5
<1>9. ro <=> t < now
  OBVIOUS
<1> HIDE DEF ro, now
<1>10. al \in AlarmSet /\ al.time = t /\ al.rollover = ro /\ al.due = n + 1 /\ al.off = 0
  BY <1>3, <1>5, <1>8 DEF AlarmSet
<1> HIDE DEF al
<1>11. now \in 0..(TickMod - 1)
  BY <1>2 DEF now
<1>12. OnTime(al, now)
  BY <1>3, <1>7, <1>9, <1>10, <1>11, SetOnTime
<1>13. alist \in Seq(Alarms) /\ alarm \in [Alarms -> AlarmSet]
  BY DEF AlarmInv
<1>14. alist' \in Seq(Alarms) /\ Listed' \subseteq Listed \cup {a}
  <2>1. /\ Len(alist) \in Nat /\ DOMAIN alist = 1..Len(alist)
        /\ <<a>> \in Seq(Alarms) /\ Len(<<a>>) = 1 /\ <<a>>[1] = a
    BY <1>13, LenProperties
  <2>2. /\ alist' \in Seq(Alarms) /\ Len(alist') = 1 + Len(alist)
        /\ alist'[1] = a /\ \A i \in 1..Len(alist) : alist'[1 + i] = alist[i]
    BY <1>6, <1>13, <2>1, ConcatProperties
  <2>3. DOMAIN alist' = 1..Len(alist')
    BY <2>2, LenProperties
  <2>4. ASSUME NEW i \in DOMAIN alist' PROVE alist'[i] = a \/ \E j \in DOMAIN alist : alist'[i] = alist[j]
    <3>1. CASE i = 1
      BY <2>2, <3>1
    <3>2. CASE i # 1
      <4>1. i - 1 \in 1..Len(alist) /\ 1 + (i - 1) = i
        BY <2>1, <2>2, <2>3, <3>2
      <4> QED
        BY <4>1, <2>1, <2>2
    <3> QED
      BY <3>1, <3>2
  <2>5. Listed' = {alist'[i] : i \in DOMAIN alist'}
    BY DEF Listed, ToSet
  <2> QED
    BY <2>2, <2>4, <2>5 DEF Listed, ToSet
<1>15. alarm' \in [Alarms -> AlarmSet] /\ alarm'[a] = al /\ \A b \in Alarms : b # a => alarm'[b] = alarm[b]
  BY <1>6, <1>10, <1>13
<1>16. \A b \in Listed : OnTime(alarm[b], now) /\ b \in Alarms
  BY ListedTyped DEF AlarmInv, now
<1>17. \A b \in Listed' : OnTime(alarm'[b], now)
  BY <1>12, <1>14, <1>15, <1>16
<1> QED
  BY <1>2, <1>14, <1>15, <1>17 DEF AlarmInv, now, OnTime
-----------------------------------------------------------------------------
(* The time of day                                                           *)

\* Quotient and remainder.
LEMMA DivMod ==
    ASSUME NEW n \in Nat, NEW k \in Nat \ {0}
    PROVE  n \div k \in Nat /\ n % k \in 0..(k - 1) /\ n = k * (n \div k) + (n % k)
<1>1. n \div k \in Int /\ n \div k >= 0 /\ n % k \in 0..(k - 1)
  OBVIOUS
<1> DEFINE q == n \div k
           r == n % k
           p == k * q
<1>2. q \in Int /\ r \in Int /\ q = n \div k /\ r = n % k
  BY <1>1
<1> HIDE DEF q, r
<1>3. p \in Int /\ p = k * q
  BY <1>2
<1> HIDE DEF p
<1>4. n = p + r
  BY <1>2, <1>3
<1>5. n = k * q + r
  BY <1>3, <1>4
<1>6. n = k * (n \div k) + (n % k)
  BY <1>5 DEF q, r
<1>7. n \div k \in Nat
  BY <1>1
<1> QED
  BY <1>1, <1>6, <1>7

\* They are the only ones.
LEMMA DivUnique ==
    ASSUME NEW k \in Nat \ {0}, NEW q \in Nat, NEW x \in 0..(k - 1), NEW y, y = k * q + x
    PROVE  y \div k = q /\ y % k = x
<1> DEFINE d == y \div k
           m == y % k
<1>1. y \in Nat
  <2>1. k * q \in Nat
    OBVIOUS
  <2> QED
    BY <2>1
<1>2. d \in Nat /\ m \in 0..(k - 1) /\ y = k * d + m
  BY <1>1, DivMod
<1> HIDE DEF d, m
<1>3. ASSUME d >= q + 1 PROVE FALSE
  <2>1. k * d >= k * (q + 1) /\ k * (q + 1) = k * q + k
    BY <1>2, <1>3
  <2> DEFINE kd == k * d
             kq == k * q
  <2>2. kd \in Int /\ kq \in Int /\ kd >= kq + k /\ kq + x = kd + m
    BY <1>2, <2>1
  <2> HIDE DEF kd, kq
  <2> QED
    BY <1>2, <2>2
<1>4. ASSUME q >= d + 1 PROVE FALSE
  <2>1. k * q >= k * (d + 1) /\ k * (d + 1) = k * d + k
    BY <1>2, <1>4
  <2> DEFINE kd == k * d
             kq == k * q
  <2>2. kd \in Int /\ kq \in Int /\ kq >= kd + k /\ kq + x = kd + m
    BY <1>2, <2>1
  <2> HIDE DEF kd, kq
  <2> QED
    BY <1>2, <2>2
<1>5. d = q
  BY <1>2, <1>3, <1>4
<1>6. m = x
  <2> DEFINE kd == k * d
  <2>1. kd \in Int /\ kd + x = kd + m
    BY <1>2, <1>5
  <2> HIDE DEF kd
  <2> QED
    BY <1>2, <2>1
<1> QED
  BY <1>5, <1>6 DEF d, m

\* A second is a whole number of ticks (1,000,000 and 1000 in the code).
RateDivides == Usec = TickRate * (Usec \div TickRate)
Units == Usec \div TickRate

\* The sub-second units of n ticks are those of the ticks after the last second.
LEMMA UnitsOf ==
    ASSUME RateDivides, NEW n \in Nat
    PROVE  /\ Units \in Nat \ {0} /\ n \div TickRate \in Nat
           /\ (n * Units) % Usec \in 0..(Usec - 1)
           /\ n * Units = Usec * (n \div TickRate) + ((n * Units) % Usec)
<1>1. TickRate \in Nat \ {0} /\ Usec \in Nat \ {0}
  BY TickAssumption
<1>2. Units \in Nat /\ Usec = TickRate * Units
  BY <1>1, DivMod DEF Units, RateDivides
<1>3. Units # 0
  BY <1>1, <1>2
<1> HIDE DEF Units
<1> DEFINE q == n \div TickRate
           r == n % TickRate
<1>4. q \in Nat /\ r \in 0..(TickRate - 1) /\ n = TickRate * q + r
  BY <1>1, DivMod
<1> HIDE DEF q, r
<1>5. n * Units = Usec * q + r * Units
  BY <1>1, <1>2, <1>4
<1>6. r * Units \in 0..(Usec - 1)
  <2>1. r * Units \in Nat /\ (TickRate - 1) * Units = Usec - Units
    BY <1>1, <1>2, <1>4
  <2>2. (TickRate - 1) * Units >= r * Units
    BY <1>1, <1>2, <1>4
  <2> DEFINE ru == r * Units
             tu == (TickRate - 1) * Units
  <2>3. ru \in Nat /\ tu = Usec - Units /\ tu >= ru
    BY <2>1, <2>2
  <2> HIDE DEF ru, tu
  <2>4. ru \in 0..(Usec - 1)
    BY <1>1, <1>2, <1>3, <2>3
  <2> QED
    BY <2>4 DEF ru
<1>7. (n * Units) % Usec = r * Units
  <2> DEFINE ru == r * Units
             y == n * Units
  <2>1. ru \in 0..(Usec - 1) /\ y = Usec * q + ru
    BY <1>5, <1>6
  <2> HIDE DEF ru, y
  <2>2. y % Usec = ru
    BY <1>1, <1>4, <2>1, DivUnique
  <2> QED
    BY <2>2 DEF ru, y
<1>8. n * Units = Usec * q + ((n * Units) % Usec)
  BY <1>5, <1>7
<1>9. (n * Units) % Usec \in 0..(Usec - 1)
  BY <1>6, <1>7
<1>10. Units \in Nat \ {0}
  BY <1>2, <1>3
<1> QED
  BY <1>4, <1>8, <1>9, <1>10 DEF q

\* The sub-second part is brought into range without changing a time that is
\* not negative.
LEMMA NormalKeeps ==
    ASSUME NEW s \in Int, NEW u \in Int, s * Usec + u >= 0
    PROVE  Normal(s, u).sec * Usec + Normal(s, u).usec = s * Usec + u
<1>1. Usec \in Nat \ {0}
  BY TickAssumption
<1>2. CASE u < 0
  <2>1. s > 0
    <3> SUFFICES ASSUME s <= 0 PROVE FALSE
      OBVIOUS
    <3>1. s * Usec <= 0
      BY <1>1
    <3> DEFINE su == s * Usec
    <3>2. su \in Int /\ su <= 0 /\ su + u >= 0
      BY <1>1, <3>1
    <3> HIDE DEF su
    <3> QED
      BY <1>2, <3>2
  <2>2. Normal(s, u).sec = s - 1 /\ Normal(s, u).usec = u + Usec
    BY <1>2, <2>1 DEF Normal
  <2>3. (s - 1) * Usec = s * Usec - Usec
    BY <1>1
  <2> DEFINE su == s * Usec
             sv == (s - 1) * Usec
  <2>4. su \in Int /\ sv = su - Usec
    BY <1>1, <2>3
  <2> HIDE DEF su, sv
  <2>5. sv + (u + Usec) = su + u
    BY <1>1, <2>4
  <2> QED
    BY <2>2, <2>5 DEF su, sv
<1>3. CASE ~(u < 0)
  <2>1. u \in Nat
    BY <1>3
  <2> DEFINE q == u \div Usec
             r == u % Usec
  <2>2. q \in Nat /\ r \in Int /\ u = Usec * q + r
    BY <1>1, <2>1, DivMod
  <2>3. Normal(s, u).sec = s + q /\ Normal(s, u).usec = r
    BY <1>3 DEF Normal
  <2> HIDE DEF q, r
  <2>4. (s + q) * Usec + r = s * Usec + (Usec * q + r)
    BY <1>1, <2>2
  <2>5. (s + q) * Usec + r = s * Usec + u
    BY <2>2, <2>4
  <2> QED
    BY <2>3, <2>5
<1> QED
  BY <1>2, <1>3

\* The time that was set, what settimeofday kept of it, and the counter, which is
\* where the ticks since then have brought it until it wraps.
TodInv ==
    /\ tod \in [reset : {tod.reset}, set : {tod.set}, at : Nat, ticks : Nat, valid : BOOLEAN]
    /\ tod.valid => /\ clk.rate = TickRate
                    /\ NotWrapped => clk.nticks = tod.at + tod.ticks
                    /\ tod.set.sec \in Nat /\ tod.set.usec \in Nat
                    /\ tod.reset.sec = tod.set.sec - (tod.at \div TickRate)
                    /\ tod.reset.usec = tod.set.usec - (((tod.at * Units) % TickMod) % Usec)

\* Sub-second parts of two times and the seconds between them make up the units
\* between them.
LEMMA UnitsBetween ==
    ASSUME NEW U \in Nat, NEW ss \in Int, NEW su \in Int, NEW qa \in Int, NEW qn \in Int,
           NEW ra \in Int, NEW rn \in Int
    PROVE  (ss - qa + qn) * U + (su - ra + rn) = (ss * U) + su + (U * qn + rn) - (U * qa + ra)
OBVIOUS

\* The time of day follows from what is kept.
LEMMA TodMeans ==
    ASSUME RateDivides, ClkInv, TodInv
    PROVE  ClockKeepsTime
<1> SUFFICES ASSUME tod.valid, NotWrapped, tod.at * (Usec \div clk.rate) < TickMod
             PROVE  gettimeofday.sec * Usec + gettimeofday.usec = UnitsPromised
  BY DEF ClockKeepsTime
<1>1. TickRate \in Nat \ {0} /\ Usec \in Nat \ {0} /\ TickMod \in Nat \ {0}
  BY TickAssumption
<1>2. /\ clk.rate = TickRate /\ tod.at \in Nat /\ tod.set.sec \in Nat /\ tod.set.usec \in Nat
      /\ tod.reset.sec = tod.set.sec - (tod.at \div TickRate)
      /\ tod.reset.usec = tod.set.usec - (((tod.at * Units) % TickMod) % Usec)
  BY DEF TodInv
<1>3. clk.nticks \in Nat /\ tod.ticks \in Nat /\ clk.nticks = tod.at + tod.ticks
  BY <1>1 DEF ClkInv, TodInv
<1> DEFINE n == clk.nticks
           k == tod.ticks
           a == tod.at
           ss == tod.set.sec
           su == tod.set.usec
           qa == a \div TickRate
           qn == n \div TickRate
           ra == (a * Units) % Usec
           rn == (n * Units) % Usec
<1>4. Units \in Nat \ {0} /\ qa \in Nat /\ ra \in 0..(Usec - 1) /\ a * Units = Usec * qa + ra
  BY <1>2, UnitsOf
<1>5. qn \in Nat /\ rn \in 0..(Usec - 1) /\ n * Units = Usec * qn + rn
  BY <1>3, UnitsOf
<1>6. a * Units \in Nat /\ a * Units < TickMod
  BY <1>2, <1>4 DEF Units
<1>7. (a * Units) % TickMod = a * Units
  <2> DEFINE au == a * Units
  <2>1. au \in Nat /\ au < TickMod
    BY <1>6
  <2> HIDE DEF au
  <2>2. au % TickMod = au
    BY <1>1, <2>1
  <2> QED
    BY <2>2 DEF au
<1>8. tod.reset.sec = ss - qa /\ tod.reset.usec = su - ra
  BY <1>2, <1>7
<1>9. SubSecond(clk.nticks) = rn /\ clk.nticks \div clk.rate = qn
  BY <1>2 DEF SubSecond, Units
<1> HIDE DEF Units
<1> DEFINE s == ss - qa + qn
           u == su - ra + rn
<1>10. gettimeofday = Normal(s, u)
  BY <1>8, <1>9 DEF gettimeofday
<1>11. UnitsPromised = ss * Usec + su + k * Units
  BY <1>2 DEF UnitsPromised, Units
<1>12. ss \in Nat /\ su \in Nat /\ n \in Nat /\ a \in Nat /\ k \in Nat /\ n = a + k
  BY <1>2, <1>3
<1> HIDE DEF n, a, k, ss, su, qa, qn, ra, rn
<1>18. n * Units = a * Units + k * Units
  BY <1>4, <1>12
<1>13. ss \in Int /\ su \in Int /\ qa \in Int /\ qn \in Int /\ ra \in Int /\ rn \in Int /\ Usec \in Nat
  BY <1>1, <1>4, <1>5, <1>12
<1>14. s \in Int /\ u \in Int
  BY <1>13
<1>15. s * Usec + u = ss * Usec + su + n * Units - a * Units
  BY <1>4, <1>5, <1>13, UnitsBetween
<1>16. /\ ss * Usec + su + n * Units - a * Units = ss * Usec + su + k * Units
       /\ ss * Usec + su + k * Units >= 0
  <2>1. k * Units >= 0 /\ ss * Usec >= 0
    BY <1>1, <1>4, <1>12
  <2> DEFINE x == n * Units
             y == a * Units
             z == ss * Usec
             w == k * Units
  <2>2. x \in Int /\ y \in Int /\ z \in Int /\ w \in Int /\ x = y + w /\ z >= 0 /\ w >= 0
    BY <1>1, <1>4, <1>12, <1>18, <2>1
  <2> HIDE DEF x, y, z, w
  <2>3. z + su + x - y = z + su + w /\ z + su + w >= 0
    BY <1>12, <2>2
  <2> QED
    BY <2>3 DEF x, y, z, w
<1> HIDE DEF s, u
<1>17. Normal(s, u).sec * Usec + Normal(s, u).usec = s * Usec + u
  BY <1>14, <1>15, <1>16, NormalKeeps
<1> QED
  BY <1>10, <1>11, <1>15, <1>16, <1>17

\* A time is set.
LEMMA SetKept ==
    ASSUME ClkInv, NEW t \in [sec : Nat, usec : Nat], settimeofday(t)
    PROVE  TodInv'
<1>1. clk.rate = TickRate /\ clk.nticks \in Nat /\ clk' = clk
  BY TickAssumption DEF ClkInv, settimeofday
<1>2. /\ tod'.set = t /\ tod'.at = clk.nticks /\ tod'.ticks = 0
      /\ tod' \in [reset : {tod'.reset}, set : {tod'.set}, at : Nat, ticks : Nat, valid : BOOLEAN]
      /\ tod'.reset.sec = t.sec - (clk.nticks \div clk.rate)
      /\ tod'.reset.usec = t.usec - SubSecond32(clk.nticks)
  BY <1>1 DEF settimeofday
<1>3. SubSecond32(clk.nticks) = ((clk.nticks * Units) % TickMod) % Usec
  BY <1>1 DEF SubSecond32, Units
<1>4. clk'.nticks = tod'.at + tod'.ticks
  BY <1>1, <1>2
<1> HIDE DEF Units
<1> QED
  BY <1>1, <1>2, <1>3, <1>4 DEF TodInv

\* A tick: the counter and the history go on together until the counter wraps.
LEMMA TodTick ==
    ASSUME ClkInv, TodInv, NEW next, alt_tick(next)
    PROVE  TodInv'
<1>1. TickMod \in Nat \ {0} /\ clk.nticks \in 0..(TickMod - 1)
  BY TickAssumption DEF ClkInv
<1>2. clk'.nticks = NowTick /\ clk'.rate = clk.rate
  BY DEF alt_tick, ClkInv
<1> DEFINE more == IF tod.valid /\ tod.ticks < TickMod THEN tod.ticks + 1 ELSE tod.ticks
<1>3. tod' = [tod EXCEPT !.ticks = more]
  BY DEF alt_tick
<1>4. tod \in [reset : {tod.reset}, set : {tod.set}, at : Nat, ticks : Nat, valid : BOOLEAN]
  BY DEF TodInv
<1>5. more \in Nat
  BY <1>1, <1>4
<1>6. /\ tod' \in [reset : {tod'.reset}, set : {tod'.set}, at : Nat, ticks : Nat, valid : BOOLEAN]
      /\ tod'.reset = tod.reset /\ tod'.set = tod.set /\ tod'.at = tod.at /\ tod'.ticks = more
      /\ tod'.valid = tod.valid
  <2> HIDE DEF more
  <2> QED
    BY <1>3, <1>4, <1>5
<1>7. ASSUME tod.valid, NotWrapped' PROVE clk'.nticks = tod'.at + tod'.ticks
  <2>1. tod.at \in Nat /\ tod.ticks \in Nat /\ tod.at + more < TickMod
    BY <1>4, <1>6, <1>7 DEF NotWrapped
  <2>2. tod.ticks < TickMod /\ more = tod.ticks + 1 /\ tod.at + tod.ticks + 1 < TickMod
    BY <1>1, <1>7, <2>1
  <2>3. clk.nticks = tod.at + tod.ticks
    BY <1>1, <1>7, <2>1, <2>2 DEF TodInv, NotWrapped
  <2>4. NowTick = clk.nticks + 1
    BY <1>1, <2>1, <2>2, <2>3 DEF NowTick
  <2> HIDE DEF more
  <2> QED
    BY <1>2, <1>6, <2>1, <2>2, <2>3, <2>4
<1> HIDE DEF Units, more
<1> QED
  BY <1>2, <1>6, <1>7 DEF TodInv

-----------------------------------------------------------------------------
(* Busy waiting                                                              *)

\* The longest single loop falls short of INT_MAX by less than a microsecond.
LEMMA SpanFacts == /\ BigSpan \in Nat \ {0} /\ LoopsPerUs \in Nat \ {0} /\ IntMax \in Nat
                   /\ BigSpan * LoopsPerUs <= IntMax
                   /\ IntMax < BigSpan * LoopsPerUs + LoopsPerUs
<1>1. IntMax \in Nat /\ LoopsPerUs \in Nat \ {0} /\ LoopsPerUs <= IntMax
  BY LibAssumption
<1> DEFINE r == IntMax % LoopsPerUs
<1>2. BigSpan \in Nat /\ r \in 0..(LoopsPerUs - 1) /\ IntMax = LoopsPerUs * BigSpan + r
  BY <1>1, DivMod DEF BigSpan
<1> HIDE DEF r
<1>3. BigSpan # 0
  BY <1>1, <1>2
<1>4. LoopsPerUs * BigSpan = BigSpan * LoopsPerUs
  BY <1>1, <1>2
<1> DEFINE p == BigSpan * LoopsPerUs
<1>5. p \in Int /\ IntMax = p + r
  BY <1>1, <1>2, <1>4
<1> HIDE DEF p
<1>6. p <= IntMax /\ IntMax < p + LoopsPerUs
  BY <1>1, <1>2, <1>5
<1> QED
  BY <1>1, <1>2, <1>3, <1>6 DEF p

\* The wait: after k long loops what is left is what was asked less k spans.
SleepSet == [pc : {"idle", "big", "last", "short"}, us : Nat, big : Nat, asked : Nat, spun : Nat]
Long == sl.asked \div BigSpan
SleepInv ==
    /\ sl \in SleepSet
    /\ sl.pc = "idle" => SleepAsLongAsAsked
    /\ sl.pc = "short" => sl.us = sl.asked /\ sl.spun = 0 /\ Long = 0
    /\ sl.pc \in {"big", "last"} => /\ sl.big <= Long
                                    /\ sl.asked = sl.us + (Long - sl.big) * BigSpan
                                    /\ sl.spun = (Long - sl.big) * IntMax
    /\ sl.pc = "last" => sl.big = 0

\* k long loops and one of the rest.
LEMMA LoopsBound ==
    ASSUME NEW k \in Nat, NEW us \in Nat, NEW asked, asked = us + k * BigSpan
    PROVE  /\ k * IntMax + us * LoopsPerUs >= asked * LoopsPerUs
           /\ k * IntMax + us * LoopsPerUs < asked * LoopsPerUs + LoopsPerUs * (1 + k)
<1> DEFINE L == LoopsPerUs
           p == BigSpan * L
<1>1. BigSpan \in Nat /\ L \in Nat \ {0} /\ IntMax \in Nat
  BY SpanFacts
<1>2. p \in Nat /\ p <= IntMax /\ IntMax <= p + L
  BY SpanFacts
<1> HIDE DEF L
<1>3. asked * L = us * L + k * p
  BY <1>1
<1> HIDE DEF p
<1>4. k * IntMax >= k * p /\ k * IntMax <= k * (p + L)
  BY <1>1, <1>2
<1>5. k * (p + L) = k * p + k * L /\ L * (1 + k) = L + k * L
  BY <1>1, <1>2
<1> DEFINE ki == k * IntMax
           kp == k * p
           kl == k * L
           ul == us * L
<1>6. ki \in Int /\ kp \in Int /\ kl \in Int /\ ul \in Int /\ ki >= kp /\ ki <= kp + kl
  BY <1>1, <1>2, <1>4, <1>5
<1> HIDE DEF ki, kp, kl, ul
<1>7. ki + ul >= ul + kp /\ ki + ul < (ul + kp) + (L + kl)
  BY <1>1, <1>6
<1> QED
  BY <1>3, <1>5, <1>7 DEF ki, kp, kl, ul, L

\* A wait begins, with long loops if it does not fit one.
LEMMA SleepBegun ==
    ASSUME NEW us \in Nat, alt_busy_sleep(us)
    PROVE  SleepInv'
<1>1. BigSpan \in Nat \ {0}
  BY SpanFacts
<1> DEFINE q == us \div BigSpan
           pc == IF q = 0 THEN "short" ELSE "big"
<1>2. q \in Nat
  BY <1>1, DivMod
<1>3. sl' = [pc |-> pc, us |-> us, big |-> q, asked |-> us, spun |-> 0]
  BY DEF alt_busy_sleep
<1> HIDE DEF q
<1>4. sl'.pc = pc /\ sl'.us = us /\ sl'.big = q /\ sl'.asked = us /\ sl'.spun = 0 /\ pc \in {"short", "big"}
  BY <1>3
<1>5. sl' \in SleepSet
  BY <1>2, <1>3, <1>4 DEF SleepSet
<1>6. Long' = q
  BY <1>4 DEF Long, q
<1>7. us = us + (q - q) * BigSpan /\ 0 = (q - q) * IntMax
  <2>1. q - q = 0 /\ IntMax \in Nat
    BY <1>2, SpanFacts
  <2> QED
    BY <1>1, <2>1
<1> QED
  BY <1>2, <1>4, <1>5, <1>6, <1>7 DEF SleepInv

\* A long loop.
LEMMA SleepGoesOn ==
    ASSUME SleepInv, SleepBig
    PROVE  SleepInv'
<1>1. BigSpan \in Nat \ {0} /\ IntMax \in Nat
  BY SpanFacts
<1>2. /\ sl \in SleepSet /\ sl.pc = "big" /\ sl.us \in Nat /\ sl.big \in Nat /\ sl.asked \in Nat /\ sl.spun \in Nat
      /\ sl.big <= Long /\ sl.asked = sl.us + (Long - sl.big) * BigSpan /\ sl.spun = (Long - sl.big) * IntMax
  BY DEF SleepInv, SleepBig, SleepSet
<1> DEFINE q == Long
           r == sl.asked % BigSpan
<1>3. q \in Nat /\ r \in Nat /\ sl.asked = BigSpan * q + r
  <2>1. sl.asked \in Nat
    BY <1>2
  <2>2. q \in Nat /\ r \in 0..(BigSpan - 1) /\ sl.asked = BigSpan * q + r
    BY <1>1, <2>1, DivMod DEF Long
  <2> HIDE DEF q, r
  <2> QED
    BY <1>1, <2>2
<1> HIDE DEF r
<1>4. CASE sl.big = 0
  <2>1. sl' = [sl EXCEPT !.pc = "last"]
    BY <1>4 DEF SleepBig
  <2>2. sl' \in SleepSet /\ sl'.pc = "last" /\ sl'.us = sl.us /\ sl'.big = 0 /\ sl'.asked = sl.asked /\ sl'.spun = sl.spun
    BY <1>2, <1>4, <2>1 DEF SleepSet
  <2>3. Long' = Long
    BY <2>2 DEF Long
  <2> QED
    BY <1>2, <1>4, <2>2, <2>3 DEF SleepInv
<1>5. CASE sl.big # 0
  <2> DEFINE b == sl.big - 1
             w == sl.us - BigSpan
             z == sl.spun + IntMax
  <2>1. sl' = [sl EXCEPT !.big = b, !.us = w, !.spun = z]
    BY <1>5 DEF SleepBig
  <2>2. b \in Nat /\ z \in Nat /\ b <= q
    BY <1>1, <1>2, <1>3, <1>5
  <2>3. sl.us = BigSpan * sl.big + r
    <3>1. (q - sl.big) * BigSpan = BigSpan * q - BigSpan * sl.big
      BY <1>1, <1>2, <1>3
    <3> DEFINE x == BigSpan * q
               y == BigSpan * sl.big
               v == (q - sl.big) * BigSpan
    <3>2. x \in Int /\ y \in Int /\ v = x - y
      BY <1>1, <1>2, <1>3, <3>1
    <3>3. sl.asked = x + r /\ sl.asked = sl.us + v
      BY <1>2, <1>3
    <3> HIDE DEF x, y, v, q
    <3>4. sl.us = y + r
      BY <1>2, <1>3, <3>2, <3>3
    <3> QED
      BY <3>4 DEF y
  <2>4. w \in Nat
    <3>1. BigSpan * sl.big >= BigSpan
      BY <1>1, <1>2, <1>5
    <3> DEFINE y == BigSpan * sl.big
    <3>2. y \in Int /\ y >= BigSpan /\ sl.us = y + r
      BY <1>1, <1>2, <2>3, <3>1
    <3> HIDE DEF y
    <3> QED
      BY <1>1, <1>2, <1>3, <3>2
  <2>5. (q - b) * BigSpan = (q - sl.big) * BigSpan + BigSpan /\ (q - b) * IntMax = (q - sl.big) * IntMax + IntMax
    BY <1>1, <1>2, <1>3
  <2>6. sl.asked = w + (q - b) * BigSpan /\ z = (q - b) * IntMax
    <3> DEFINE v == (q - sl.big) * BigSpan
    <3>1. v \in Int /\ sl.asked = sl.us + v /\ (q - b) * BigSpan = v + BigSpan
      BY <1>1, <1>2, <1>3, <2>5
    <3>2. sl.asked = w + (v + BigSpan)
      <4> HIDE DEF v
      <4> QED
        BY <1>1, <1>2, <3>1
    <3> QED
      BY <1>2, <2>5, <3>1, <3>2
  <2> HIDE DEF b, w, z
  <2>7. sl' \in SleepSet /\ sl'.pc = "big" /\ sl'.us = w /\ sl'.big = b /\ sl'.asked = sl.asked /\ sl'.spun = z
    BY <1>2, <2>1, <2>2, <2>4 DEF SleepSet
  <2>8. Long' = q
    BY <2>7 DEF Long
  <2> QED
    BY <2>2, <2>6, <2>7, <2>8 DEF SleepInv
<1> QED
  BY <1>4, <1>5

\* The last loop, which is the only one of a short wait.
LEMMA SleepEnds ==
    ASSUME SleepInv, SleepEnd
    PROVE  SleepInv'
<1>1. BigSpan \in Nat \ {0} /\ IntMax \in Nat /\ LoopsPerUs \in Nat \ {0}
  BY SpanFacts
<1>2. sl \in SleepSet /\ sl.us \in Nat /\ sl.big \in Nat /\ sl.asked \in Nat /\ sl.spun \in Nat
  BY DEF SleepInv, SleepSet
<1> DEFINE n == sl.us * LoopsPerUs
           m == IF sl.pc = "last" THEN LastLoops(n) ELSE ShortLoops(n)
           z == sl.spun + m
<1>3. sl' = [sl EXCEPT !.pc = "idle", !.spun = z]
  BY DEF SleepEnd
<1>4. n \in Nat /\ m \in Nat
  BY <1>1, <1>2 DEF LastLoops, ShortLoops
<1>5. z \in Nat
  <2> HIDE DEF m
  <2> QED
    BY <1>2, <1>4
<1>6. sl.us # 0 => n # 0
  BY <1>1, <1>2
<1>7. sl.us # 0 => m = n
  BY <1>6 DEF LastLoops, ShortLoops
<1>8. n = 0 => m >= 0
  BY <1>4
<1> DEFINE k == Long
           r == sl.asked % BigSpan
<1>9. k \in Nat /\ r \in 0..(BigSpan - 1) /\ sl.asked = BigSpan * k + r
  BY <1>1, <1>2, DivMod DEF Long
<1>10. sl.asked = sl.us + k * BigSpan /\ sl.spun = k * IntMax
  <2>1. CASE sl.pc = "short"
    BY <1>1, <1>2, <2>1 DEF SleepInv
  <2>2. CASE sl.pc = "last"
    <3>1. sl.big = 0 /\ sl.asked = sl.us + (k - sl.big) * BigSpan /\ sl.spun = (k - sl.big) * IntMax
      BY <2>2 DEF SleepInv
    <3>2. k - sl.big = k
      BY <1>9, <3>1
    <3> QED
      BY <3>1, <3>2
  <2> QED
    BY <2>1, <2>2 DEF SleepEnd
<1>11. sl.us = r
  <2>1. k * BigSpan = BigSpan * k
    BY <1>1, <1>9
  <2> DEFINE x == BigSpan * k
  <2>2. x \in Int /\ sl.asked = sl.us + x /\ sl.asked = x + r
    BY <1>1, <1>9, <1>10, <2>1
  <2> HIDE DEF x, k, r
  <2> QED
    BY <1>1, <1>2, <1>9, <2>2
<1> HIDE DEF k, n
<1>12. /\ k * IntMax + n >= sl.asked * LoopsPerUs
       /\ k * IntMax + n < sl.asked * LoopsPerUs + LoopsPerUs * (1 + k)
  BY <1>2, <1>9, <1>10, LoopsBound DEF n
<1>13. z >= sl.asked * LoopsPerUs
  <2> DEFINE x == sl.asked * LoopsPerUs
             y == k * IntMax
  <2>1. x \in Int /\ y \in Int /\ y = sl.spun /\ y + n >= x /\ n >= 0 /\ (n # 0 => m = n)
    BY <1>1, <1>2, <1>4, <1>9, <1>10, <1>12 DEF LastLoops, ShortLoops
  <2>2. m >= n
    BY <1>4, <2>1
  <2> HIDE DEF x, y, m
  <2>3. z >= x
    BY <1>4, <2>1, <2>2
  <2> QED
    BY <2>3 DEF x
<1>14. r # 0 => z < sl.asked * LoopsPerUs + LoopsPerUs * (1 + k)
  <2> HIDE DEF m, r
  <2> QED
    BY <1>7, <1>10, <1>11, <1>12
<1> HIDE DEF z
<1>15. sl' \in SleepSet /\ sl'.pc = "idle" /\ sl'.asked = sl.asked /\ sl'.spun = z
  BY <1>2, <1>3, <1>5 DEF SleepSet
<1>16. SleepAsLongAsAsked'
  BY <1>13, <1>14, <1>15 DEF SleepAsLongAsAsked, k, Long
<1> QED
  BY <1>15, <1>16 DEF SleepInv

-----------------------------------------------------------------------------
(* The clock among the rest of the HAL                                       *)

\* The inductive invariant.
TimeIInv == ClkInv /\ AlarmInv /\ TodInv /\ SleepInv

\* What the HAL does to the clock, the alarms, the time of day and a busy wait,
\* with any callbacks, alarms, times and waits the counters have room for.
TimeStep ==
    \/ /\ \E next \in [Alarms -> 0..(TickMod - 1)] : alt_tick(next)
       /\ UNCHANGED sl
    \/ TimerExpires /\ UNCHANGED sl
    \/ alt_avalon_timer_sc_init /\ UNCHANGED sl
    \/ /\ \E a \in Alarms, n \in 0..(TickMod - 2) : alt_alarm_start(a, n)
       /\ UNCHANGED <<clk, tod, sl>>
    \/ (\E a \in Alarms : alt_alarm_stop(a)) /\ UNCHANGED <<clk, tod, sl>>
    \/ (\E t \in [sec : Nat, usec : Nat] : settimeofday(t)) /\ UNCHANGED sl
    \/ (\E us \in Nat : alt_busy_sleep(us)) /\ UNCHANGED tickVars
    \/ (SleepBig \/ SleepEnd) /\ UNCHANGED tickVars

\* What the rest of the HAL does to them.
TimeQuiet == UNCHANGED <<clk, alarm, alist, tod, sl>>

\* The clock keeps its type and, once it has one, its rate.
LEMMA ClockTyped ==
    ASSUME ClkInv, TimeStep
    PROVE  ClkInv' /\ (clk.rate = TickRate => clk'.rate = TickRate)
<1>1. TickMod \in Nat \ {0} /\ TickRate \in Nat \ {0}
  BY TickAssumption
<1>2. /\ clk.nticks \in 0..(TickMod - 1) /\ clk.rate \in {0, TickRate}
      /\ clk.on \in BOOLEAN /\ clk.to \in BOOLEAN
  BY DEF ClkInv
<1>3. CASE \E next \in [Alarms -> 0..(TickMod - 1)] : alt_tick(next)
  <2>1. clk' = [clk EXCEPT !.nticks = NowTick, !.to = FALSE]
    BY <1>3 DEF alt_tick
  <2>2. NowTick \in 0..(TickMod - 1)
    BY <1>1, <1>2 DEF NowTick
  <2> QED
    BY <2>1, <2>2 DEF ClkInv
<1>4. CASE TimerExpires
  BY <1>4 DEF TimerExpires, ClkInv
<1>5. CASE alt_avalon_timer_sc_init
  <2>1. clk' = [clk EXCEPT !.rate = TickRate, !.on = TRUE]
    BY <1>2, <1>5 DEF alt_avalon_timer_sc_init
  <2> QED
    BY <2>1 DEF ClkInv
<1>6. CASE clk' = clk
  BY <1>6 DEF ClkInv
<1>7. clk' = clk \/ TimerExpires \/ alt_avalon_timer_sc_init \/ \E next \in [Alarms -> 0..(TickMod - 1)] : alt_tick(next)
  BY DEF TimeStep, settimeofday, tickVars
<1> QED
  BY <1>3, <1>4, <1>5, <1>6, <1>7

\* What a step does not touch.
LEMMA AlarmsSame ==
    ASSUME AlarmInv, UNCHANGED <<alarm, alist>>, clk'.nticks = clk.nticks
    PROVE  AlarmInv'
<1>1. Listed' = Listed
  BY DEF Listed
<1> QED
  BY <1>1 DEF AlarmInv, OnTime

LEMMA TodSame ==
    ASSUME TodInv, UNCHANGED tod, clk.rate = TickRate => clk'.rate = TickRate,
           clk'.nticks = clk.nticks
    PROVE  TodInv'
<1> HIDE DEF Units
<1> QED
  BY DEF TodInv, NotWrapped

LEMMA SleepSame ==
    ASSUME SleepInv, UNCHANGED sl
    PROVE  SleepInv'
<1>1. Long' = Long /\ SleepAsLongAsAsked' = SleepAsLongAsAsked
  BY DEF Long, SleepAsLongAsAsked
<1> QED
  BY <1>1 DEF SleepInv

\* An alarm is stopped.
LEMMA StopKept ==
    ASSUME AlarmInv, NEW a, alt_alarm_stop(a), UNCHANGED clk
    PROVE  AlarmInv'
<1>1. alist' = Unlinked(alist, {a}) /\ alarm' = alarm /\ alist \in Seq(Alarms)
  BY DEF alt_alarm_stop, AlarmInv
<1>2. alist' \in Seq(Alarms) /\ Listed' \subseteq Listed
  BY <1>1, UnlinkedFacts DEF Listed
<1> QED
  BY <1>1, <1>2 DEF AlarmInv, OnTime

\* Every step keeps the invariant.
LEMMA TimeInvStep ==
    ASSUME TicksFit, TimeIInv, TimeStep \/ TimeQuiet
    PROVE  TimeIInv'
<1>1. ClkInv /\ AlarmInv /\ TodInv /\ SleepInv
  BY DEF TimeIInv
<1>2. CASE TimeQuiet
  <2>1. UNCHANGED <<clk, alarm, alist, tod, sl>>
    BY <1>2 DEF TimeQuiet
  <2>2. ClkInv'
    BY <1>1, <2>1 DEF ClkInv
  <2>3. AlarmInv' /\ TodInv' /\ SleepInv'
    BY <1>1, <2>1, AlarmsSame, TodSame, SleepSame
  <2> QED
    BY <2>2, <2>3 DEF TimeIInv
<1>3. CASE TimeStep
  <2>1. ClkInv' /\ (clk.rate = TickRate => clk'.rate = TickRate)
    BY <1>1, <1>3, ClockTyped
  <2>2. AlarmInv'
    <3>1. CASE \E next \in [Alarms -> 0..(TickMod - 1)] : alt_tick(next)
      BY <1>1, <3>1, TickKept
    <3>2. CASE TimerExpires \/ alt_avalon_timer_sc_init
      <4>1. UNCHANGED <<alarm, alist>> /\ clk'.nticks = clk.nticks
        BY <1>1, <3>2 DEF TimerExpires, alt_avalon_timer_sc_init, ClkInv
      <4> QED
        BY <1>1, <4>1, AlarmsSame
    <3>3. CASE UNCHANGED clk /\ \E a \in Alarms, n \in 0..(TickMod - 2) : alt_alarm_start(a, n)
      BY <1>1, <3>3, StartKept
    <3>4. CASE UNCHANGED clk /\ \E a \in Alarms : alt_alarm_stop(a)
      BY <1>1, <3>4, StopKept
    <3>5. CASE UNCHANGED <<clk, alarm, alist>>
      BY <1>1, <3>5, AlarmsSame
    <3> QED
      BY <1>3, <3>1, <3>2, <3>3, <3>4, <3>5 DEF TimeStep, settimeofday, tickVars
  <2>3. TodInv'
    <3>1. CASE \E t \in [sec : Nat, usec : Nat] : settimeofday(t)
      BY <1>1, <3>1, SetKept
    <3>2. CASE UNCHANGED tod /\ clk'.nticks = clk.nticks
      BY <1>1, <2>1, <3>2, TodSame
    <3>3. CASE \E next \in [Alarms -> 0..(TickMod - 1)] : alt_tick(next)
      BY <1>1, <3>3, TodTick
    <3>4. CASE TimerExpires \/ alt_avalon_timer_sc_init
      <4>1. UNCHANGED tod /\ clk'.nticks = clk.nticks
        BY <1>1, <3>4 DEF TimerExpires, alt_avalon_timer_sc_init, ClkInv
      <4> QED
        BY <4>1, <3>2
    <3> QED
      BY <1>3, <3>1, <3>2, <3>3, <3>4 DEF TimeStep, tickVars
  <2>4. SleepInv'
    <3>1. CASE \E us \in Nat : alt_busy_sleep(us)
      BY <3>1, SleepBegun
    <3>2. CASE SleepBig \/ SleepEnd
      BY <1>1, <3>2, SleepGoesOn, SleepEnds
    <3>3. CASE UNCHANGED sl
      BY <1>1, <3>3, SleepSame
    <3> QED
      BY <1>3, <3>1, <3>2, <3>3 DEF TimeStep
  <2> QED
    BY <2>1, <2>2, <2>3, <2>4 DEF TimeIInv
<1> QED
  BY <1>2, <1>3

\* The invariant says more than the property.
LEMMA TimeMeans ==
    ASSUME RateDivides, TimeIInv
    PROVE  TimeKept
<1>1. ClkInv /\ AlarmInv /\ TodInv /\ SleepInv
  BY DEF TimeIInv
<1>2. AlarmsOnTime
  BY <1>1 DEF AlarmInv, OnTime, AlarmsOnTime
<1>3. ClockKeepsTime
  BY <1>1, TodMeans
<1>4. SleepAsLongAsAsked
  <2>1. sl.pc = "idle" => SleepAsLongAsAsked
    BY <1>1 DEF SleepInv
  <2> QED
    BY <2>1 DEF SleepAsLongAsAsked
<1> QED
  BY <1>2, <1>3, <1>4 DEF TimeKept

\* It holds at first.
LEMMA TimeStarts == MCInit => TimeIInv
<1> SUFFICES ASSUME MCInit PROVE TimeIInv
  OBVIOUS
<1>1. /\ clk = [nticks |-> 0, rate |-> 0, on |-> FALSE, to |-> FALSE]
      /\ alarm = [a \in Alarms |-> [time |-> 0, rollover |-> FALSE, due |-> 0, off |-> 0]]
      /\ alist = <<>> /\ sl = NoSleep
      /\ tod = [reset |-> NoTime, set |-> NoTime, at |-> 0, ticks |-> 0, valid |-> FALSE]
  BY DEF MCInit, HalInit, TickInit, LibInit
<1>2. TickMod \in Nat \ {0} /\ 0 \in 0..(TickMod - 1)
  BY TickAssumption
<1>3. ClkInv
  BY <1>1, <1>2 DEF ClkInv
<1>4. AlarmInv
  <2>1. alarm \in [Alarms -> AlarmSet]
    BY <1>1, <1>2 DEF AlarmSet
  <2>2. alist \in Seq(Alarms) /\ DOMAIN alist = {}
    BY <1>1
  <2>3. Listed = {}
    BY <2>2 DEF Listed, ToSet
  <2> QED
    BY <2>1, <2>2, <2>3 DEF AlarmInv
<1>5. TodInv
  BY <1>1 DEF TodInv
<1>6. SleepInv
  <2>1. sl.pc = "idle" /\ sl.asked = 0 /\ sl \in SleepSet
    BY <1>1 DEF NoSleep, SleepSet
  <2> QED
    BY <2>1 DEF SleepInv, SleepAsLongAsAsked
<1> QED
  BY <1>3, <1>4, <1>5, <1>6 DEF TimeIInv

\* The alarms of the program: the JTAG UART's and one of the application.
AlarmsThere == {"jtag", "app"} \subseteq Alarms

\* The application's calls.
LEMMA AppTime ==
    ASSUME TicksFit, AlarmsThere, App
    PROVE  TimeStep \/ TimeQuiet
<1> USE DEF TimeQuiet, tickVars, sysVars, libs, libVars
<1>1. CASE FileCall
  <2>1. \A fd, op, n : Transfer(fd, op, n) => TimeQuiet
    BY DEF Transfer
  <2>2. \A fd, r : Close(fd, r) => TimeQuiet
    BY DEF Close
  <2>3. \A d, acc, nb : Open(d, acc, nb) => TimeQuiet
    BY DEF Open
  <2>4. \A fd, nb : SetFlags(fd, nb) => TimeQuiet
    BY DEF SetFlags
  <2>5. \A fd, on : Lock(fd, on) => TimeQuiet
    BY DEF Lock
  <2>6. \A fd, t : SetTimeout(fd, t) => TimeQuiet
    BY DEF SetTimeout
  <2> HIDE DEF TimeQuiet
  <2> QED
    BY <1>1, <2>1, <2>2, <2>3, <2>4, <2>5, <2>6, Zenon DEF FileCall
<1>2. CASE TimeApp
  <2>1. ASSUME NEW n \in {0, TickRate + 1, TickMod - 2}, AlarmStart("app", n) PROVE TimeStep
    <3>1. n \in 0..(TickMod - 2)
      BY TickAssumption DEF TicksFit
    <3>2. alt_alarm_start("app", n) /\ UNCHANGED <<clk, tod, sl>> /\ "app" \in Alarms
      BY <2>1 DEF AlarmStart, AlarmsThere
    <3> QED
      BY <3>1, <3>2 DEF TimeStep
  <2>2. ASSUME AlarmStop("app") PROVE TimeStep
    <3>1. alt_alarm_stop("app") /\ UNCHANGED <<clk, tod, sl>> /\ "app" \in Alarms
      BY <2>2 DEF AlarmStop, AlarmsThere
    <3> QED
      BY <3>1 DEF TimeStep
  <2>3. ASSUME NEW t \in TimesSet, SetTime(t) PROVE TimeStep
    <3>1. Usec - 1 \in Nat
      BY TickAssumption
    <3>2. t \in [sec : Nat, usec : Nat]
      BY <3>1 DEF TimesSet
    <3>3. settimeofday(t) /\ UNCHANGED sl
      BY <2>3 DEF SetTime
    <3> QED
      BY <3>2, <3>3 DEF TimeStep
  <2> QED
    BY <1>2, <2>1, <2>2, <2>3 DEF TimeApp
<1>3. CASE SpiApp \/ PerfApp \/ HeapApp \/ CallsApp
  <2>1. \A w, r, m : SpiCommand(w, r, m) => TimeQuiet
    BY DEF SpiCommand
  <2>2. \A op, s : PerfCall(op, s) => TimeQuiet
    BY DEF PerfCall
  <2>3. \A n : sbrk(n) => TimeQuiet
    BY DEF sbrk
  <2>4. \A c, fd : Query(c, fd) => TimeQuiet
    BY DEF Query
  <2>5. (Stub => TimeQuiet) /\ (Times => TimeQuiet)
    BY DEF Stub, Times
  <2>6. \A d : Stat(d) => TimeQuiet
    BY DEF Stat
  <2>7. \A pid, sig : Kill(pid, sig) => TimeQuiet
    BY DEF Kill
  <2> HIDE DEF TimeQuiet
  <2> QED
    BY <1>3, <2>1, <2>2, <2>3, <2>4, <2>5, <2>6, <2>7, Zenon DEF SpiApp, PerfApp, HeapApp, CallsApp
<1>4. CASE LibApp
  <2>1. ASSUME NEW us \in 0..(3 * BigSpan), Usleep(us) PROVE TimeStep
    <3>1. us \in Nat
      BY SpanFacts
    <3>2. alt_busy_sleep(us) /\ UNCHANGED tickVars
      BY <2>1 DEF Usleep
    <3> QED
      BY <3>1, <3>2 DEF TimeStep
  <2>2. \A fmt : Printf(fmt) => TimeQuiet
    BY DEF Printf
  <2>3. \A m : RegisterFs(m) => TimeQuiet
    BY DEF RegisterFs
  <2>4. \A c : FifoCall(c) => TimeQuiet
    BY DEF FifoCall
  <2> HIDE DEF TimeQuiet
  <2> QED
    BY <1>4, <2>1, <2>2, <2>3, <2>4, Zenon DEF LibApp
<1> QED
  BY <1>1, <1>2, <1>3, <1>4 DEF App

\* Boot.
LEMMA BootTime ==
    ASSUME TicksFit, AlarmsThere, ClkInv, Boot
    PROVE  TimeStep \/ TimeQuiet
<1> USE DEF tickVars, sysVars, libs, libVars
<1>1. CASE BootLoad \/ BootIrq \/ BootUart \/ BootRedirect
  BY <1>1 DEF BootLoad, alt_load, BootIrq, BootUart, BootRedirect, TimeQuiet
<1>2. CASE BootTimer
  BY <1>2 DEF BootTimer, TimeStep
<1>3. CASE BootJtag
  <2>1. clk.rate \in 0..(TickMod - 2)
    BY TickAssumption DEF TicksFit, ClkInv
  <2>2. alt_alarm_start("jtag", clk.rate) /\ UNCHANGED <<clk, tod, sl>> /\ "jtag" \in Alarms
    BY <1>3 DEF BootJtag, AlarmsThere
  <2> QED
    BY <2>1, <2>2 DEF TimeStep
<1> QED
  BY <1>1, <1>2, <1>3 DEF Boot

\* Interrupts, the thread inside a call, and the devices.
LEMMA RunTime ==
    ASSUME TicksFit, ClkInv, Thread \/ Library \/ CloseDone \/ TakeInterrupt \/ Devs
    PROVE  TimeStep \/ TimeQuiet
<1> USE DEF tickVars, sysVars, libs, libVars
<1>1. CASE Thread \/ CloseDone
  BY <1>1 DEF Thread, CloseDone, TimeQuiet
<1>2. CASE Library
  <2>1. FifoDriver => TimeQuiet
    BY DEF FifoDriver, TimeQuiet
  <2>2. ASSUME NEW v, NEW str, LibThread(v, str) PROVE TimeStep \/ TimeQuiet
    <3>1. CASE SleepStep
      BY <2>2, <3>1 DEF LibThread, SleepStep, TimeStep
    <3>2. CASE PrintStep(v, str)
      BY <2>2, <3>2 DEF LibThread, PrintStep, TimeQuiet
    <3> QED
      BY <2>2, <3>1, <3>2 DEF LibThread
  <2> QED
    BY <1>2, <2>1, <2>2 DEF Library
<1>3. CASE TakeInterrupt
  <2>1. (JtagInterrupt => TimeQuiet) /\ (UartInterrupt => TimeQuiet)
    BY DEF JtagInterrupt, UartInterrupt, TimeQuiet
  <2>2. ASSUME NEW again \in {0, 2}, TimerInterrupt(again) PROVE TimeStep
    <3> DEFINE next == [a \in Alarms |-> IF a = "jtag" THEN clk.rate ELSE again]
    <3>1. clk.rate \in 0..(TickMod - 1) /\ again \in 0..(TickMod - 1)
      BY TickAssumption DEF TicksFit, ClkInv
    <3>2. next \in [Alarms -> 0..(TickMod - 1)]
      BY <3>1
    <3>3. alt_tick(next) /\ UNCHANGED sl
      BY <2>2 DEF TimerInterrupt
    <3> HIDE DEF next
    <3> QED
      BY <3>2, <3>3 DEF TimeStep
  <2> QED
    BY <1>3, <2>1, <2>2 DEF TakeInterrupt
<1>4. CASE Devs
  <2>1. /\ HostActs => TimeQuiet
        /\ WireActs => TimeQuiet
        /\ SpiActs => TimeQuiet
        /\ PerfActs => TimeQuiet
        /\ FifoActs => TimeQuiet
    BY DEF HostActs, WireActs, SpiActs, PerfActs, FifoActs, TimeQuiet
  <2>2. TimerMoves => TimeStep
    BY DEF TimerMoves, TimeStep
  <2> QED
    BY <1>4, <2>1, <2>2, Zenon DEF Devs
<1> QED
  BY <1>1, <1>2, <1>3, <1>4

\* The clock keeps its promises whatever else the HAL is doing, for every width of
\* the tick counter, rate, set of alarms and length of a wait: an alarm is called
\* in the tick it was set for, across the wrap of the counter; the time of day is
\* the time set and every tick since until the counter wraps; and a busy wait is
\* never shorter than asked, and longer only by what is rounded off unless the
\* time is a multiple of the longest loop (alt_tick, alt_alarm_start, alt_settod,
\* alt_gettod, alt_busy_sleep).
THEOREM TimeIsKept ==
    ASSUME TicksFit, RateDivides, AlarmsThere
    PROVE  MCSpec => []TimeKept
<1>1. MCInit => TimeIInv
  BY TimeStarts
<1>2. TimeIInv /\ [MCNext]_mcVars => TimeIInv'
  <2> SUFFICES ASSUME TimeIInv, [MCNext]_mcVars PROVE TimeIInv'
    OBVIOUS
  <2>1. ClkInv
    BY DEF TimeIInv
  <2>2. CASE UNCHANGED mcVars
    <3>1. TimeQuiet
      BY <2>2 DEF mcVars, halVars, tickVars, sysVars, libs, libVars, TimeQuiet
    <3> QED
      BY <3>1, TimeInvStep
  <2>3. CASE MCNext
    <3>1. CASE App
      BY <3>1, AppTime, TimeInvStep
    <3>2. CASE UNCHANGED halVars
      <4>1. TimeQuiet
        BY <3>2 DEF halVars, tickVars, sysVars, libs, libVars, TimeQuiet
      <4> QED
        BY <4>1, TimeInvStep
    <3>3. CASE Boot
      BY <2>1, <3>3, BootTime, TimeInvStep
    <3>4. CASE Thread \/ Library \/ CloseDone \/ TakeInterrupt \/ Devs
      BY <2>1, <3>4, RunTime, TimeInvStep
    <3> QED
      BY <2>3, <3>1, <3>2, <3>3, <3>4 DEF MCNext
  <2> QED
    BY <2>2, <2>3
<1>3. TimeIInv => TimeKept
  BY TimeMeans
<1> QED
  BY <1>1, <1>2, <1>3, PTL DEF MCSpec
=============================================================================
