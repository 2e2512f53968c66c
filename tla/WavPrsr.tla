------------------------------ MODULE WavPrsr -------------------------------
(***************************************************************************)
(* wav_prsr.v with the PCM FIFO behind it (acortex_top.v): WAV files       *)
(* arrive one after the other as 16-bit words from the SRAM path, the      *)
(* parser walks their header and turns the rest into PCM frames.  Clk is   *)
(* one edge of acortex_clk_ir; between two edges the stream may fill the   *)
(* SRAM, the DAC may take a frame and the host may write a register.       *)
(*                                                                         *)
(* The SRAM path is its promise (module WordFifo): words in order, three   *)
(* clocks after the request.  A word is named by its file and its index in *)
(* it; what it contains is what the header says at that place.             *)
(***************************************************************************)
EXTENDS Integers, Sequences

CONSTANTS Files,        \* the stream: [ext, dual, wide : BOOLEAN, size : Nat]
          MaxAvail,     \* bound on the words waiting in the SRAM
          PcmDepth,     \* entries of the PCM FIFO (256 on the board)
          Afull,        \* its almost-full mark (192: both top bits of usedw)
          MmFiles,      \* files during which the host also reads the SRAM
          HostResets    \* does the host reset the audio cortex?

File == [ext : BOOLEAN, dual : BOOLEAN, wide : BOOLEAN, size : Nat]

ASSUME FilesAssumption == Files \in Seq(File) /\ Files # <<>>
\* Files below 2^16 bytes, header included: the high half of a size is 0.
ASSUME SizeBound == \A f \in DOMAIN Files : Files[f].size + 40 <= 65536
\* Between a request and its entry in the PCM FIFO there are five clocks.
ASSUME PcmMargin == PcmDepth \in Nat /\ Afull \in 1 .. (PcmDepth - 5)
ASSUME FlagsAssumption == MaxAvail \in Nat \ {0} /\ MmFiles \subseteq DOMAIN Files /\ HostResets \in BOOLEAN

-----------------------------------------------------------------------------
(* The files: a header, with an extra word in the "fmt " chunk when it is   *)
(* 18 bytes long, then the PCM data, padded to a word.                      *)

FmtEnd(f)    == IF Files[f].ext THEN 18 ELSE 17       \* last word of "fmt "
DataStart(f) == FmtEnd(f) + 5                         \* first PCM word
DataWords(f) == (Files[f].size + 1) \div 2
FileWords(f) == DataStart(f) + DataWords(f)

\* The stream ends after the last word of the last file.
EndOfStream == <<Len(Files) + 1, 0>>
Succ(w) == IF w[2] + 1 = FileWords(w[1]) THEN <<w[1] + 1, 0>> ELSE <<w[1], w[2] + 1>>

Junk == 65535           \* a half of a size no word count reaches

\* The number a word holds where the parser takes it for half of a size.
Half(w) == LET f == w[1] IN
           CASE w[2] = 2 -> 2 * FileWords(f) - 8
             [] w[2] = 8 -> IF Files[f].ext THEN 18 ELSE 16
             [] w[2] = FmtEnd(f) + 3 -> Files[f].size
             [] w[2] \in {3, 9, FmtEnd(f) + 4} -> 0
             [] OTHER -> Junk

-----------------------------------------------------------------------------
VARIABLES
    avail, rd_pipe,      \* SRAM path: words waiting; requests on their way
    pos,                 \* the next word of the stream to be read
    rd_data,             \* sram_rd_data_id: the last word read, by whomever
    prsr_en_f,
    fsm,                 \* fsm_pstate: [status, chunk, field]
    pst,                 \* pst_vec_f: place of its one bit, 12: none
    word_cntr_f, pcm_data_size_f, last_word_f, fmt_chnk_end_ptr_f,
    num_chnnls_f, bps_f, tggl_f,
    pcm,                 \* pcm_ff_wr_en_oh, pcm_ff_ldata_od, pcm_ff_rdata_od
    hdr_ram,             \* wav_hdr_ram, the words that hold the header
    used                 \* frames in the PCM FIFO

parseVars == <<fsm, pst, word_cntr_f, pcm_data_size_f, last_word_f,
               fmt_chnk_end_ptr_f, num_chnnls_f, bps_f, tggl_f, pcm>>
vars == <<avail, rd_pipe, pos, rd_data, prsr_en_f, parseVars, hdr_ram, used>>

None == <<0, 0>>          \* no word of the stream: reset value, or host's word
Zero == <<None, None>>    \* a channel: its upper and its lower half

\* Mutants: the almost-full mark one frame late; its polarity inverted.
AfullLate     == used % PcmDepth >= Afull + 1
AfullInverted == used % PcmDepth < Afull

sram_rd_data_valid_ih == rd_pipe[3]
pcm_ff_afull_ih       == used % PcmDepth >= Afull
sram_rd_en_oh         == fsm.status = "ACTIV" /\ ~pcm_ff_afull_ih
end_of_file_c         == last_word_f /\ sram_rd_data_valid_ih

-----------------------------------------------------------------------------
(* The FSM                                                                  *)

Starts == fsm.status = "IDLE" /\ prsr_en_f /\ avail > 0

NextStatus == IF Starts THEN "ACTIV"
              ELSE IF fsm.status = "ACTIV" /\ end_of_file_c THEN "IDLE"
              ELSE fsm.status

\* The last word of a header chunk is on the bus.
ChunkEnds ==
    /\ sram_rd_data_valid_ih
    /\ \/ fsm.chunk = "WAVE" /\ word_cntr_f % 8 = 5
       \/ fsm.chunk = "FMT"  /\ word_cntr_f % 32 = fmt_chnk_end_ptr_f
       \/ fsm.chunk = "DATA" /\ word_cntr_f % 32 = fmt_chnk_end_ptr_f + 4

NextChunk == IF ChunkEnds
             THEN [WAVE |-> "FMT", FMT |-> "DATA", DATA |-> "PCM"][fsm.chunk]
             ELSE IF fsm.chunk = "PCM" /\ end_of_file_c THEN "WAVE"
             ELSE fsm.chunk

rst_field_c == Starts \/ ChunkEnds \/ fsm.chunk = "PCM"

NextField ==
    IF rst_field_c THEN "ID"
    ELSE IF ~sram_rd_data_valid_ih THEN fsm.field
    ELSE CASE fsm.field = "ID"     -> IF pst = 1 THEN "SIZE" ELSE "ID"
           [] fsm.field = "SIZE"   -> IF pst = 3 THEN "FMT" ELSE "SIZE"
           [] fsm.field = "FMT"    -> IF fsm.chunk = "FMT" THEN "NCHNNL" ELSE "FMT"
           [] fsm.field = "NCHNNL" -> "FS"
           [] fsm.field = "FS"     -> IF pst = 7 THEN "BRATE" ELSE "FS"
           [] fsm.field = "BRATE"  -> IF pst = 9 THEN "BLKA" ELSE "BRATE"
           [] fsm.field = "BLKA"   -> "BPS"
           [] fsm.field = "BPS"    -> "ID"

FsmClk ==
    /\ fsm' = [status |-> NextStatus, chunk |-> NextChunk, field |-> NextField]
    /\ pst' = IF rst_field_c THEN 0
              ELSE IF sram_rd_data_valid_ih /\ pst < 12 THEN pst + 1 ELSE pst

-----------------------------------------------------------------------------
(* Word counter, size of the data, end of file                              *)

NextWordCntr == IF end_of_file_c THEN 0
                ELSE word_cntr_f + (IF sram_rd_data_valid_ih THEN 1 ELSE 0)

\* The word before the last one.  A size whose high half is not 0 is beyond
\* every word count (SizeBound).
LastButOne == LET size == pcm_data_size_f IN
    /\ size[1] = 0 /\ sram_rd_data_valid_ih
    /\ word_cntr_f = size[2] \div 2 + (size[2] % 2) + fmt_chnk_end_ptr_f + 3

CountClk ==
    /\ word_cntr_f' = NextWordCntr
    /\ pcm_data_size_f' =
          IF end_of_file_c THEN <<Junk, Junk>>
          ELSE IF sram_rd_data_valid_ih /\ fsm.field = "SIZE"
          THEN <<Half(rd_data), pcm_data_size_f[1]>> ELSE pcm_data_size_f
    /\ last_word_f' = IF last_word_f THEN ~end_of_file_c ELSE LastButOne
    /\ fmt_chnk_end_ptr_f' =
          IF word_cntr_f = 8 /\ sram_rd_data_valid_ih
          THEN IF Half(rd_data) = 18 THEN 18 ELSE 17 ELSE fmt_chnk_end_ptr_f

-----------------------------------------------------------------------------
(* Header fields and PCM formatting                                         *)

hdr_ram_wr_en_c == /\ sram_rd_data_valid_ih
                   /\ fsm.status = "ACTIV"
                   /\ fsm.chunk # "PCM"

HeaderClk ==
    /\ num_chnnls_f' = IF fsm.field = "NCHNNL" /\ sram_rd_data_valid_ih
                       THEN rd_data[2] = 11 /\ Files[rd_data[1]].dual ELSE num_chnnls_f
    /\ bps_f' = IF fsm.field = "BPS" /\ sram_rd_data_valid_ih
                THEN rd_data[2] = 17 /\ Files[rd_data[1]].wide ELSE bps_f
    /\ hdr_ram' = IF hdr_ram_wr_en_c
                  THEN [hdr_ram EXCEPT ![word_cntr_f] = rd_data] ELSE hdr_ram

\* Frames are complete with every, every second or every fourth word.
WordsPerFrame == (IF num_chnnls_f THEN 2 ELSE 1) * (IF bps_f THEN 2 ELSE 1)

\* A narrow sample is sign-extended, a wide one shifted in from below.  The
\* channel registers follow the data bus every clock, valid or not.
Sample(ch) == IF bps_f THEN <<ch[2], rd_data>> ELSE <<None, rd_data>>

\* Mutant: the half of the frame the word belongs to is off by one channel.
ToRightSwapped == num_chnnls_f /\ (tggl_f \div (IF bps_f THEN 2 ELSE 1)) % 2 = 0

ToRight == num_chnnls_f /\ (tggl_f \div (IF bps_f THEN 2 ELSE 1)) % 2 = 1

NextTggl == IF WordsPerFrame > 1 /\ sram_rd_data_valid_ih THEN (tggl_f + 1) % 4 ELSE tggl_f

PcmClk ==
    IF fsm.chunk = "PCM"
    THEN /\ pcm' = [wr_en |-> /\ sram_rd_data_valid_ih
                              /\ tggl_f % WordsPerFrame = WordsPerFrame - 1,
                    l |-> IF ToRight THEN pcm.l ELSE Sample(pcm.l),
                    r |-> IF ~num_chnnls_f THEN Zero
                          ELSE IF ToRight THEN Sample(pcm.r) ELSE pcm.r]
         /\ tggl_f' = NextTggl
    ELSE /\ pcm' = [wr_en |-> FALSE, l |-> pcm.l, r |-> pcm.r]
         /\ tggl_f' = tggl_f

-----------------------------------------------------------------------------
(* One clock.  im: the arbiter's slot is the parser's; mm: a host read of   *)
(* the SRAM leaves its word on the data bus.                                *)

Clk(im, mm) ==
    LET fetch == im /\ sram_rd_en_oh /\ avail > 0
    IN  /\ mm => pos[1] \in MmFiles /\ ~rd_pipe[2]
        /\ rd_pipe' = <<fetch, rd_pipe[1], rd_pipe[2]>>
        /\ avail' = IF fetch THEN avail - 1 ELSE avail
        /\ rd_data' = IF rd_pipe[2] THEN pos ELSE IF mm THEN None ELSE rd_data
        /\ pos' = IF rd_pipe[2] THEN Succ(pos) ELSE pos
        /\ FsmClk /\ CountClk /\ HeaderClk /\ PcmClk
        /\ used' = IF pcm.wr_en THEN used + 1 ELSE used
        /\ UNCHANGED prsr_en_f

\* Words of the stream not yet in the SRAM: those beyond pos, the ones on
\* their way to the parser and the ones waiting.
Bit(b) == IF b THEN 1 ELSE 0
InFlight == Bit(rd_pipe[1]) + Bit(rd_pipe[2]) + avail

WordsBefore[f \in 1 .. Len(Files) + 1] ==
    IF f = 1 THEN 0 ELSE WordsBefore[f - 1] + FileWords(f - 1)

Fill == /\ avail < MaxAvail
        /\ WordsBefore[pos[1]] + pos[2] + InFlight < WordsBefore[Len(Files) + 1]
        /\ avail' = avail + 1
        /\ UNCHANGED <<rd_pipe, pos, rd_data, prsr_en_f, parseVars, hdr_ram, used>>

DacTake == /\ used > 0
           /\ used' = used - 1
           /\ UNCHANGED <<avail, rd_pipe, pos, rd_data, prsr_en_f, parseVars, hdr_ram>>

HostEnable(en) == /\ prsr_en_f' = en
                  /\ UNCHANGED <<avail, rd_pipe, pos, rd_data, parseVars, hdr_ram, used>>

Init == /\ avail = 0 /\ rd_pipe = <<FALSE, FALSE, FALSE>> /\ pos = <<1, 0>>
        /\ rd_data = None /\ prsr_en_f = FALSE
        /\ fsm = [status |-> "IDLE", chunk |-> "WAVE", field |-> "ID"]
        /\ pst = 12 /\ word_cntr_f = 0 /\ pcm_data_size_f = <<Junk, Junk>>
        /\ last_word_f = FALSE /\ fmt_chnk_end_ptr_f = 0
        /\ num_chnnls_f = FALSE /\ bps_f = FALSE /\ tggl_f = 0
        /\ pcm = [wr_en |-> FALSE, l |-> Zero, r |-> Zero] /\ used = 0
        /\ hdr_ram = [a \in 0 .. 22 |-> None]

\* acortex reset: every register is cleared, the header RAM is not; the SRAM
\* FIFO is emptied too, and the source starts over.
HostReset == /\ HostResets
             /\ avail' = 0 /\ rd_pipe' = <<FALSE, FALSE, FALSE>>
             /\ pos' = <<1, 0>> /\ rd_data' = None /\ prsr_en_f' = FALSE
             /\ fsm' = [status |-> "IDLE", chunk |-> "WAVE", field |-> "ID"]
             /\ pst' = 12 /\ word_cntr_f' = 0 /\ pcm_data_size_f' = <<Junk, Junk>>
             /\ last_word_f' = FALSE /\ fmt_chnk_end_ptr_f' = 0
             /\ num_chnnls_f' = FALSE /\ bps_f' = FALSE /\ tggl_f' = 0
             /\ pcm' = [wr_en |-> FALSE, l |-> Zero, r |-> Zero] /\ used' = 0
             /\ UNCHANGED hdr_ram

Next == \/ \E im, mm \in BOOLEAN : Clk(im, mm)
        \/ Fill \/ DacTake \/ HostReset
        \/ \E en \in BOOLEAN : HostEnable(en)

Spec == Init /\ [][Next]_vars

\* The clock runs and the arbiter's wheel comes round (module SramPath), the
\* source fills, the DAC plays.
Fairness == WF_vars(Clk(TRUE, FALSE)) /\ WF_vars(Fill) /\ WF_vars(DacTake)

FairSpec == Spec /\ Fairness

-----------------------------------------------------------------------------
\* Type invariant: the parser state, counters, latched header fields and the PCM
\* FIFO occupancy of wav_prsr.v keep values of their declared width.
TypeOK ==
    /\ avail \in 0 .. MaxAvail
    /\ rd_pipe \in BOOLEAN \X BOOLEAN \X BOOLEAN
    /\ pos[1] \in 1 .. (Len(Files) + 1)
    /\ fsm \in [status : {"IDLE", "ACTIV"}, chunk : {"WAVE", "FMT", "DATA", "PCM"},
                field : {"ID", "SIZE", "FMT", "NCHNNL", "FS", "BRATE", "BLKA", "BPS"}]
    /\ pst \in 0 .. 12
    /\ word_cntr_f \in Nat
    /\ pcm_data_size_f \in (0 .. Junk) \X (0 .. Junk)
    /\ fmt_chnk_end_ptr_f \in {0, 17, 18}
    /\ tggl_f \in 0 .. 3 /\ last_word_f \in BOOLEAN
    /\ used \in Nat

\* The frames of a file, from its header: which words make its channels.
FrameWords(f) == (IF Files[f].dual THEN 2 ELSE 1) * (IF Files[f].wide THEN 2 ELSE 1)

Channel(f, i) == IF Files[f].wide THEN <<<<f, i>>, <<f, i + 1>>>> ELSE <<None, <<f, i>>>>

Frame(f, k) ==
    LET i == DataStart(f) + k * FrameWords(f)
    IN  <<Channel(f, i),
          IF Files[f].dual THEN Channel(f, i + (FrameWords(f) \div 2)) ELSE Zero>>

FramesOf(f) == [k \in 1 .. (DataWords(f) \div FrameWords(f)) |-> Frame(f, k - 1)]

FramesUpTo[f \in 0 .. Len(Files)] ==
    IF f = 0 THEN <<>> ELSE FramesUpTo[f - 1] \o FramesOf(f)

\* The PCM FIFO never overflows: the reads still on their way when it gets
\* almost full fit into the rest of it (acortex_top, pcm_ff_afull_c; the FIFO
\* itself drops a frame silently).
PcmFits == used <= PcmDepth

\* The end of a file is found with its last word, neither sooner nor later,
\* from a size that arrives while words are already being counted (wav_prsr,
\* "Last word flag gives early indication of end of file").
EofOnTime ==
    end_of_file_c <=> /\ sram_rd_data_valid_ih
                      /\ rd_data # None
                      /\ rd_data[2] = FileWords(rd_data[1]) - 1

\* While PCM data is parsed, the header RAM holds the header of this file, the
\* one wave_parse reads through get_wav_hdr_frm_prsr.  Up to three words of a
\* file that follows another one are read ahead, arrive while the parser is
\* idle and are not stored: the first words (the "RIFF" tag, half the size).
HeaderKept ==
    fsm.status = "ACTIV" /\ fsm.chunk = "PCM" /\ rd_data # None =>
        \A i \in (IF rd_data[1] = 1 THEN 0 ELSE 3) .. (DataStart(rd_data[1]) - 1) : hdr_ram[i] = <<rd_data[1], i>>

\* If the parser stays enabled, the whole stream is read: the almost-full mark
\* and the restart between two files never leave it waiting for ever.
StreamRead == <>[]prsr_en_f => <>(pos = EndOfStream)

\* What holds of the parser in every clock: types, the end of each file found
\* on its last word, room in the PCM FIFO for the reads on their way, and the
\* header kept for the host (wav_prsr, acortex_top).
ParserInv == TypeOK /\ EofOnTime /\ PcmFits /\ HeaderKept
=============================================================================
