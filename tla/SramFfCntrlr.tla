---------------------------- MODULE SramFfCntrlr ----------------------------
(***************************************************************************)
(* sram_ff_cntrlr.v: the pointers and the status flags that turn the       *)
(* external SRAM into a FIFO of 2^P_SRAM_ADDR_W words.  The pointers carry *)
(* one bit more than an address (the wrap bit); the flags are registers    *)
(* computed, in the same clock that moves the pointers, by comparing the   *)
(* Gray codes of the next pointers.  One step is one clock edge.           *)
(***************************************************************************)
EXTENDS Integers

CONSTANT P_SRAM_ADDR_W      \* address width of the SRAM (18 on the board)

\* The part-selects [W:W-1] and [W-2:0] of the RTL need at least two bits.
ASSUME AddrWidth == P_SRAM_ADDR_W \in Nat \ {0, 1}

\* Arithmetic of the powers of two in use, for the proofs: the provers know
\* no fact about 2 ^ n.
ASSUME PowersOfTwo ==
    /\ 2 ^ 0 = 1
    /\ \A i \in 0 .. (P_SRAM_ADDR_W + 1) :
           2 ^ i \in Nat \ {0} /\ 2 ^ (i + 1) = 2 * 2 ^ i

Depth  == 2 ^ P_SRAM_ADDR_W           \* words in the SRAM
PtrMod == 2 * Depth                   \* pointers have W + 1 bits
Ptr    == 0 .. (PtrMod - 1)

VARIABLES sram_rd_ptr_f, sram_wr_ptr_f,              \* (W+1)-bit pointers
          sram_empty_oh, sram_full_oh, sram_aempty_oh \* registered flags

ffVars == <<sram_rd_ptr_f, sram_wr_ptr_f,
            sram_empty_oh, sram_full_oh, sram_aempty_oh>>

-----------------------------------------------------------------------------
(* Gray code: p ^ {1'b0, p[W:1]}, as the function from bit index to bit.   *)

Bit(p, i) == (p \div 2 ^ i) % 2

Gray(p) == [i \in 0 .. P_SRAM_ADDR_W |-> (Bit(p, i) + Bit(p, i + 1)) % 2]

\* The two most significant bits, p[W:W-1].
TopBits == {P_SRAM_ADDR_W - 1, P_SRAM_ADDR_W}

\* The comparisons that feed the three flags.
GrayEmpty(rd, wr) == Gray(rd) = Gray(wr)

\* Mutant: full compared as for binary pointers, the wrap bit alone inverted.
GrayFullWrapBit(rd, wr) ==
    Gray(wr) = [Gray(rd) EXCEPT ![P_SRAM_ADDR_W] = 1 - @]

GrayFull(rd, wr) ==
    Gray(wr) = [i \in 0 .. P_SRAM_ADDR_W |->
                   IF i \in TopBits THEN 1 - Gray(rd)[i] ELSE Gray(rd)[i]]

GrayAempty(rd, wr) == \A i \in TopBits : Gray(wr)[i] = Gray(rd)[i]

-----------------------------------------------------------------------------
sram_rd_addr_od == sram_rd_ptr_f % Depth
sram_wr_addr_od == sram_wr_ptr_f % Depth

\* Mutant: a write ignores the full flag.
NextWrUnguarded(wr_en) == IF wr_en THEN (sram_wr_ptr_f + 1) % PtrMod
                          ELSE sram_wr_ptr_f

\* sram_rd_ptr_n / sram_wr_ptr_n: a request against the flag is ignored.
NextRd(rd_en) == IF rd_en /\ ~sram_empty_oh
                 THEN (sram_rd_ptr_f + 1) % PtrMod ELSE sram_rd_ptr_f
NextWr(wr_en) == IF wr_en /\ ~sram_full_oh
                 THEN (sram_wr_ptr_f + 1) % PtrMod ELSE sram_wr_ptr_f

FfInit == /\ sram_rd_ptr_f = 0
          /\ sram_wr_ptr_f = 0
          /\ sram_empty_oh = TRUE
          /\ sram_full_oh = FALSE
          /\ sram_aempty_oh = TRUE

\* One clock with the two enables of the control interface.
FfClk(rd_en, wr_en) ==
    LET rd == NextRd(rd_en)
        wr == NextWr(wr_en)
    IN  /\ sram_rd_ptr_f' = rd
        /\ sram_wr_ptr_f' = wr
        /\ sram_empty_oh' = GrayEmpty(rd, wr)
        /\ sram_full_oh' = GrayFull(rd, wr)
        /\ sram_aempty_oh' = GrayAempty(rd, wr)

\* rst_il low: the host's acortex reset clears the controller at any time.
FfReset == /\ sram_rd_ptr_f' = 0
           /\ sram_wr_ptr_f' = 0
           /\ sram_empty_oh' = TRUE
           /\ sram_full_oh' = FALSE
           /\ sram_aempty_oh' = TRUE

\* The controller on its own: any enables, reset at any clock.
FfNext == \/ \E rd_en, wr_en \in BOOLEAN : FfClk(rd_en, wr_en)
          \/ FfReset

FfSpec == FfInit /\ [][FfNext]_ffVars

-----------------------------------------------------------------------------
\* Words held, from the pointers alone.
Occupancy == (sram_wr_ptr_f - sram_rd_ptr_f) % PtrMod

\* Type invariant: both pointers have P_SRAM_ADDR_W + 1 bits and the flags are
\* single bits (the registers of sram_ff_cntrlr.v).
FfTypeOK == /\ sram_rd_ptr_f \in Ptr
            /\ sram_wr_ptr_f \in Ptr
            /\ sram_empty_oh \in BOOLEAN
            /\ sram_full_oh \in BOOLEAN
            /\ sram_aempty_oh \in BOOLEAN

\* The FIFO never holds more words than the SRAM has: the write pointer never
\* laps the read pointer, whatever enables arrive (sram_ff_cntrlr, the guards
\* inc_rd_addr_c and inc_wr_addr_c against flags computed a clock earlier).
NoOverrun == Occupancy <= Depth

\* The registered Gray-code flags are never stale and never wrong: empty and
\* full are asserted exactly when the pointers say so (sram_ff_cntrlr,
\* Full/Empty logic).
FlagsExact == /\ sram_empty_oh <=> Occupancy = 0
              /\ sram_full_oh <=> Occupancy = Depth

\* What the almost-empty flag really bounds: asserted, fewer than half of the
\* words are in use (sram_ff_cntrlr, comparison of the two top Gray bits).
AemptyBound == sram_aempty_oh => 2 * Occupancy < Depth
=============================================================================
