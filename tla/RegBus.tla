------------------------------- MODULE RegBus -------------------------------
(***************************************************************************)
(* What the register path promises the host: a memory of registers where   *)
(* every access takes effect in the order the host made it, and where      *)
(* every read, and nothing else, is answered, in order.                    *)
(***************************************************************************)
EXTENDS Sequences

CONSTANTS Op,               \* the accesses a host can make
          IsRead(_),        \* is this access a read?
          Answer(_, _),     \* Answer(r, op): what read op returns from registers r
          Effect(_, _),     \* Effect(r, op): the registers after write op
          Reset             \* the registers after power-on

VARIABLES regs,             \* the registers, as the host's program sees them
          answers,          \* answers owed to the host, oldest first
          out               \* the answer of this clock: <<>> or <<v>>

vars == <<regs, answers, out>>

Init == regs = Reset /\ answers = <<>> /\ out = <<>>

\* The accesses of one host clock: none, or one.
Access == {<<>>} \cup {<<op>> : op \in Op}

Owed(acc) == IF acc # <<>> /\ IsRead(acc[1])
             THEN Append(answers, Answer(regs, acc[1])) ELSE answers

\* One clock of the host: it may make an access, and it may be answered.
Clock(acc) ==
    /\ regs' = IF acc # <<>> /\ ~IsRead(acc[1]) THEN Effect(regs, acc[1]) ELSE regs
    /\ \/ out' = <<>> /\ answers' = Owed(acc)
       \/ /\ answers # <<>>
          /\ out' = <<Head(answers)>>
          /\ answers' = Tail(Owed(acc))

Next == \E acc \in Access : Clock(acc)

Spec == Init /\ [][Next]_vars
=============================================================================
