----------------------------- MODULE MCWavPrsr ------------------------------
(***************************************************************************)
(* WavPrsr for TLC: streams of small files, and a history variable for the *)
(* frames that entered the PCM FIFO since the last reset.                  *)
(***************************************************************************)
EXTENDS WavPrsr, SequencesExt

VARIABLE sent

MCInit == Init /\ sent = <<>>

MCNext == \/ /\ \E im, mm \in BOOLEAN : Clk(im, mm)
             /\ sent' = IF pcm.wr_en THEN Append(sent, <<pcm.l, pcm.r>>) ELSE sent
          \/ /\ Fill \/ DacTake \/ (\E en \in BOOLEAN : HostEnable(en))
             /\ UNCHANGED sent
          \/ HostReset /\ sent' = <<>>

MCSpec == MCInit /\ [][MCNext]_<<vars, sent>>

MCFairSpec == MCSpec /\ Fairness

\* Every format, the first file longer than the PCM FIFO: narrow mono, narrow
\* dual with the long header, wide mono with the long header, wide dual.  The
\* formats of two words a frame have an even number of frames: the toggle
\* tggl_f is not cleared between files, and an odd number would leave it in
\* the middle of a frame of the wide dual file that follows.
MixFiles == <<[ext |-> FALSE, dual |-> FALSE, wide |-> FALSE, size |-> 14],
              [ext |-> TRUE, dual |-> TRUE, wide |-> FALSE, size |-> 8],
              [ext |-> TRUE, dual |-> FALSE, wide |-> TRUE, size |-> 8],
              [ext |-> FALSE, dual |-> TRUE, wide |-> TRUE, size |-> 8]>>

\* What enters the PCM FIFO are the frames of the files, in order, each once
\* and whole: no word is lost, doubled or put in the wrong channel where a
\* read is held up, at the almost-full mark or between two files (wav_prsr,
\* "Logic for formatting PCM data").
FramesInOrder == IsPrefix(sent, FramesUpTo[Len(Files)])
=============================================================================
