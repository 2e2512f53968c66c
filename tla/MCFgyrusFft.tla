---------------------------- MODULE MCFgyrusFft -----------------------------
(***************************************************************************)
(* FgyrusFft for TLC, with a history variable: the buffers filled whose    *)
(* ready pulse has not come out of the synchroniser yet; or, in behaviours *)
(* of their own, the transforms of the testbench.                          *)
(***************************************************************************)
EXTENDS FgyrusFft, FftReference

VARIABLES filled, bench

MCInit == Init /\ filled = 0 /\ RefInit /\ bench \in BOOLEAN

EngineNext == \/ FgClk /\ filled' = IF fgyrus_pcm_rdy_ih THEN filled - 1 ELSE filled
              \/ /\ AcWrite
                 /\ filled' = IF ram_wptr_f % P_NO_SAMPLES = P_NO_SAMPLES - 1
                              THEN filled + 1 ELSE filled
              \/ /\ AcReset \/ \E en \in BOOLEAN : HostEnable(en)
                 /\ UNCHANGED filled

MCNext == \/ ~ bench /\ EngineNext /\ UNCHANGED <<rf, bench>>
          \/ bench /\ RefNext /\ UNCHANGED <<vars, filled, bench>>
          \/ bench /\ rf.lg = MaxLg /\ UNCHANGED <<vars, filled, rf, bench>>

MCSpec == MCInit /\ [][MCNext]_<<vars, filled, rf, bench>>

MCFairSpec == MCSpec /\ WF_vars(~ bench /\ FgClk)

\* The ready pulse comes once for each buffer that was filled, and not without
\* one (acortex2fgyrus_bffr, "1->PCM samples ready for FFT").
ReadyMeansFull == fgyrus_pcm_rdy_ih => filled = 1

\* What holds of the engine in every clock: types, the right word written to the
\* right place, a frame reported done complete and of one buffer, a ready pulse
\* only for a filled buffer (fgyrus_fsm, butterfly_wing, acortex2fgyrus_bffr).
EngineInv == TypeOK /\ WritesInPlace /\ ResultsComplete /\ ReadyMeansFull

\* The scoreboard's recursion computes the transform, and the engine's order of
\* samples, stages and twiddle factors amounts to the same (fft.c, twiddle_ram).
EngineIsDft == ReferenceIsDft /\ EngineMatchesReference
=============================================================================
