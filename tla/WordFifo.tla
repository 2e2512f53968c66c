------------------------------ MODULE WordFifo ------------------------------
(***************************************************************************)
(* What the SRAM path promises its two users: a bounded FIFO of words, as  *)
(* seen on its ports.  in, out, lost and rst are what the users see; q is  *)
(* internal.  The words out are the words in, in order, each exactly once, *)
(* but for those that arrive when the FIFO has no room, and then the loss  *)
(* is reported, and for those that a reset of the host discards.           *)
(***************************************************************************)
EXTENDS Sequences, Integers

CONSTANTS Word,
          Room,       \* words the FIFO takes for certain
          Capacity    \* words it can hold at most

VARIABLES q,        \* words taken and not yet delivered
          in,       \* what the source put in with the last clock: <<>> or <<w>>
          out,      \* what was delivered with the last clock: <<>> or <<w>>
          lost,     \* a word was refused since the last reset
          rst       \* the last clock was one of reset

Init == q = <<>> /\ in = <<>> /\ out = <<>> /\ lost = FALSE /\ rst = FALSE

\* The word that the source puts in goes behind the ones that are left.
Accept(w, left) == Len(q) < Capacity /\ q' = Append(left, w) /\ lost' = lost

\* Without room it is lost, which is reported.
Refuse(left) == Len(q) >= Room /\ q' = left /\ lost' = TRUE

Put(left) == \/ in' = <<>> /\ q' = left /\ lost' = lost
             \/ \E w \in Word : in' = <<w>> /\ (Accept(w, left) \/ Refuse(left))

Clock == /\ rst' = FALSE
         /\ \/ out' = <<>> /\ Put(q)
            \/ q # <<>> /\ out' = <<Head(q)>> /\ Put(Tail(q))

\* What is put in during the reset is lost with the rest.
Reset == /\ rst' = TRUE
         /\ in' = <<>> \/ \E w \in Word : in' = <<w>>
         /\ q' = <<>> /\ out' = <<>> /\ lost' = FALSE

Next == Clock \/ Reset

Spec == Init /\ [][Next]_<<q, in, out, lost, rst>>
=============================================================================
