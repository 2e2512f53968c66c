----------------------------- MODULE MCSramPath -----------------------------
(***************************************************************************)
(* SramPath for TLC, with two history variables: the word the SRAM held at *)
(* the host's address when its MM read was granted, and the clocks the bus *)
(* has been busy with one access.                                          *)
(***************************************************************************)
EXTENDS SramPath

VARIABLES granted, waited

HistInit == Init /\ granted = 0 /\ waited = 0
MCInit == HistInit /\ mem = [a \in Addr |-> 0]

MCNext == /\ Next
          /\ granted' = IF lb_mm_arb_grant_oh /\ lb.rd_en
                        THEN WordAt(lb.addr) ELSE granted
          /\ waited' = IF bus'.busy THEN waited + 1 ELSE 0

\* The path with its history; for TLC, with one content of the SRAM to begin with.
HistSpec == HistInit /\ [][MCNext]_<<vars, granted, waited>>
MCSpec == MCInit /\ [][MCNext]_<<vars, granted, waited>>

\* The same without the history, for the properties that need none.
MCFifoSpec == MCInit /\ [][Next /\ UNCHANGED <<granted, waited>>]_<<vars, granted, waited>>

\* When an MM read is acknowledged the data register holds the word that was
\* at the address when the read was granted, not a word of the stream that
\* shares the read pipeline (sram_lb, rd_valid_1d "give time for sram_data_f
\* to update").
MmReadReturnsWord ==
    lb.wr_valid /\ AtCtrl /\ bus.data = "rd" => lb.data = granted

\* No MM access starves: whatever the stream and the parser do, the host has
\* its acknowledge after at most one long slot of the TDM wheel and the seven
\* clocks of the request, grant and read-valid registers (sram_arb, sram_lb).
MmAccessPrompt == waited <= P_ARB_LEN + 7

\* The host's reads of the SRAM are served: the right word, in time.
MmReadServed == MmReadReturnsWord /\ MmAccessPrompt
=============================================================================
