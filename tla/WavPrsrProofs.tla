--------------------------- MODULE WavPrsrProofs ----------------------------
(***************************************************************************)
(* Proofs about module WavPrsr, for every stream of files, every PCM FIFO  *)
(* with room for five frames above its mark, and every behaviour of the    *)
(* arbiter, the host and the DAC.  The inductive invariant follows the     *)
(* parser word by word: where in the file the next word stands is the same *)
(* as what the word counter, the FSM, the place in the chunk and the size  *)
(* register say.  The second part, on the frames that enter the PCM FIFO   *)
(* (MCWavPrsr), adds the format registers, the toggle and the halves of    *)
(* the frame that is not complete yet.                                     *)
(***************************************************************************)
EXTENDS MCWavPrsr, TLAPS, WellFoundedInduction, SequenceTheorems

\* The PCM data of a file is at least two words long.  One word is too few for
\* the early flag last_word_f: the word before the last one is then the upper
\* half of the size itself.
TwoWords == \A f \in DOMAIN Files : Files[f].size >= 3

\* A word of the stream.
Place == {w \in (1 .. Len(Files)) \X Nat : w[2] < FileWords(w[1])}

\* The word the parser takes next: the one on the bus or the one after it.
Cur == IF rd_pipe[3] THEN rd_data ELSE pos

\* Words on their way from the SRAM to the parser.
OnTheWay == Bit(rd_pipe[1]) + Bit(rd_pipe[2]) + Bit(rd_pipe[3])

-----------------------------------------------------------------------------
(* The inductive invariant                                                  *)

\* The stream: a word that was read is the one before pos, and no word beyond
\* the last file is on its way.
StreamInv ==
    /\ pos \in Place \cup {EndOfStream}
    /\ rd_data = None \/ (rd_data \in Place /\ Succ(rd_data) = pos)
    /\ rd_pipe[3] => rd_data # None
    /\ WordsBefore[pos[1]] + pos[2] + InFlight <= WordsBefore[Len(Files) + 1]

\* No half-read size lets the flag last_word_f rise inside a header.
Quiet == pcm_data_size_f[1] = 0 =>
    \/ pcm_data_size_f[2] >= 40
    \/ pcm_data_size_f[2] >= 16 /\ fmt_chnk_end_ptr_f >= 17

\* Idle between two files: at most three words of the next one are on their
\* way or were passed over, none of the first one.
IdleInv ==
    /\ fsm.chunk = "WAVE" /\ ~last_word_f
    /\ Cur[2] + OnTheWay <= 3
    /\ Cur[1] = 1 => Cur[2] = 0 /\ OnTheWay = 0
    /\ pcm_data_size_f[1] >= 40

\* Fields of the two chunks that begin with an ID and a size.
IdThenSize == /\ pst <= 1 => fsm.field = "ID"
              /\ pst \in {2, 3} => fsm.field = "SIZE"
              /\ pst >= 4 => fsm.field # "SIZE"

\* In the RIFF header.
WaveInv == /\ Cur[2] <= 5
           /\ Cur[2] <= 3 => pcm_data_size_f[1] >= 40

\* In the "fmt " chunk.
FmtInv == /\ Cur[2] >= 6 /\ Cur[2] <= FmtEnd(Cur[1])
          /\ pst = Cur[2] - 6 /\ IdThenSize
          /\ Cur[2] >= 9 => fmt_chnk_end_ptr_f = FmtEnd(Cur[1])
          /\ Cur[2] = 9 => pcm_data_size_f[1] >= 16

\* In the header of the "data" chunk.
DataInv == /\ Cur[2] > FmtEnd(Cur[1]) /\ Cur[2] < DataStart(Cur[1])
           /\ pst = Cur[2] - FmtEnd(Cur[1]) - 1 /\ IdThenSize
           /\ fmt_chnk_end_ptr_f = FmtEnd(Cur[1])
           /\ pst = 3 => pcm_data_size_f[1] = Files[Cur[1]].size

\* In the PCM data.
PcmInv == /\ Cur[2] >= DataStart(Cur[1])
          /\ fsm.field = "ID"
          /\ fmt_chnk_end_ptr_f = FmtEnd(Cur[1])
          /\ pcm_data_size_f = <<0, Files[Cur[1]].size>>
          /\ last_word_f <=> Cur[2] = FileWords(Cur[1]) - 1

\* First word of the header that is stored: of the first file all are, of the
\* others those that may arrive while the parser is idle are not.
FirstKept(f) == IF f = 1 THEN 0 ELSE 3

\* The header RAM holds the words of the header that have passed.
HdrInv ==
    \A i \in FirstKept(Cur[1]) .. (DataStart(Cur[1]) - 1) :
        i < Cur[2] => hdr_ram[i] = <<Cur[1], i>>

\* Where the parser is in a file, by the state of its FSM.
ActivInv ==
    /\ Cur \in Place
    /\ fsm.chunk # "PCM" => ~last_word_f /\ Quiet
    /\ fsm.chunk = "WAVE" => WaveInv
    /\ fsm.chunk = "FMT" => FmtInv
    /\ fsm.chunk = "DATA" => DataInv
    /\ fsm.chunk = "PCM" => PcmInv
    /\ HdrInv

\* The word counter and the FSM follow the word that comes next.
ParseInv == /\ word_cntr_f = Cur[2]
            /\ fsm.status = "IDLE" => IdleInv
            /\ fsm.status = "ACTIV" => ActivInv

\* A request is made only below the mark, and five clocks later its frame is in
\* the FIFO.
RoomInv == used + Bit(pcm.wr_en) + OnTheWay <= Afull + 4

\* The inductive invariant.
ParserIInv == TypeOK /\ StreamInv /\ ParseInv /\ RoomInv /\ DOMAIN hdr_ram = 0 .. 22
-----------------------------------------------------------------------------
(* Facts about the files                                                    *)

\* A set of naturals that is not empty has a least element.
LEMMA LeastNat ==
    ASSUME NEW T \in SUBSET Nat, T # {}
    PROVE  \E x \in T : \A y \in T : x <= y
<1>1. PICK x \in T : \A y \in T : ~(<<y, x>> \in OpToRel(<, Nat))
  BY NatLessThanWellFounded, WFMin
<1>2. \A y \in T : ~(y < x)
  BY <1>1 DEF OpToRel
<1> QED
  BY <1>2

\* Sizes and places of a file's parts.
LEMMA FileFacts ==
    ASSUME TwoWords, NEW f \in 1 .. Len(Files)
    PROVE  /\ Files[f].size \in Nat /\ Files[f].size >= 3
           /\ FmtEnd(f) \in {17, 18} /\ (FmtEnd(f) = 18 <=> Files[f].ext)
           /\ DataStart(f) = FmtEnd(f) + 5 /\ DataStart(f) \in {22, 23}
           /\ DataWords(f) \in Nat /\ DataWords(f) >= 2
           /\ FileWords(f) = FmtEnd(f) + 5 + DataWords(f)
           /\ FileWords(f) \in Nat /\ FileWords(f) >= 24
           /\ FileWords(f) >= DataStart(f) + 2
<1>1. Len(Files) \in Nat /\ DOMAIN Files = 1 .. Len(Files) /\ Files[f] \in File
  BY FilesAssumption
<1>2. Files[f].size \in Nat /\ Files[f].size >= 3
  BY <1>1 DEF TwoWords, File
<1>3. FmtEnd(f) \in {17, 18} /\ (FmtEnd(f) = 18 <=> Files[f].ext)
  BY DEF FmtEnd
<1>4. DataWords(f) \in Nat /\ DataWords(f) >= 2
  BY <1>2 DEF DataWords
<1>5. DataStart(f) = FmtEnd(f) + 5 /\ FileWords(f) = DataStart(f) + DataWords(f)
  BY DEF DataStart, FileWords
<1>6. DataStart(f) \in {22, 23}
  BY <1>3, <1>5
<1>7. FileWords(f) = FmtEnd(f) + 5 + DataWords(f)
  BY <1>3, <1>5
<1>8. FileWords(f) \in Nat /\ FileWords(f) >= 24 /\ FileWords(f) >= DataStart(f) + 2
  BY <1>4, <1>5, <1>6
<1>9. /\ DataStart(f) = FmtEnd(f) + 5 /\ DataStart(f) \in {22, 23}
      /\ DataWords(f) \in Nat /\ DataWords(f) >= 2
  BY <1>4, <1>5, <1>6
<1> QED
  BY <1>2, <1>3, <1>7, <1>8, <1>9

\* A half that is none of the size is beyond every word count.
LEMMA JunkBig == Junk \in Nat /\ Junk >= 65535
  BY DEF Junk

\* What SizeBound leaves for the PCM data, in bytes and in words.
MaxSize == 65496
MaxWords == 32748

\* Both sizes in a header fit into one half.
LEMMA SizeFits ==
    ASSUME TwoWords, NEW f \in 1 .. Len(Files)
    PROVE  Files[f].size \in 0 .. Junk /\ 2 * FileWords(f) - 8 \in 0 .. Junk
<1>1. Files[f].size \in Nat /\ FmtEnd(f) \in {17, 18}
  BY FileFacts
<1>2. Files[f].size <= MaxSize
  BY <1>1, FilesAssumption, SizeBound DEF MaxSize
<1>3. \A n \in Nat : n <= MaxSize => n <= Junk /\ (n + 1) \div 2 \in Nat /\ (n + 1) \div 2 <= MaxWords
  BY SMT DEF MaxSize, MaxWords, Junk
<1>4. \A d \in Nat : d <= MaxWords => \A e \in {17, 18} : /\ 2 * (e + 5 + d) - 8 \in Nat
                                                         /\ 2 * (e + 5 + d) - 8 <= Junk
  BY SMT DEF MaxWords, Junk
<1>5. FileWords(f) = FmtEnd(f) + 5 + ((Files[f].size + 1) \div 2)
  BY DEF FileWords, DataStart, DataWords
<1>6. /\ Files[f].size <= Junk
      /\ 2 * FileWords(f) - 8 \in Nat /\ 2 * FileWords(f) - 8 <= Junk
  BY <1>1, <1>2, <1>3, <1>4, <1>5, Zenon
<1> QED
  BY <1>1, <1>6, JunkBig

\* The parser's own rounding up of the size to words.
LEMMA RoundedUp ==
    ASSUME TwoWords, NEW f \in 1 .. Len(Files)
    PROVE  (Files[f].size \div 2) + (Files[f].size % 2) = DataWords(f)
<1>1. Files[f].size \in Nat
  BY FileFacts
<1> QED
  BY <1>1 DEF DataWords

\* What the words of a header hold where they are taken for half of a size.
LEMMA HalfFacts ==
    ASSUME TwoWords, NEW w \in Place
    PROVE  /\ Half(w) \in 0 .. Junk
           /\ w[2] \in 0 .. 7 /\ w[2] # 3 => Half(w) >= 40
           /\ w[2] = 8 => Half(w) = (IF Files[w[1]].ext THEN 18 ELSE 16)
           /\ w[2] = FmtEnd(w[1]) + 3 => Half(w) = Files[w[1]].size
           /\ w[2] = FmtEnd(w[1]) + 4 => Half(w) = 0
<1>1. w[1] \in 1 .. Len(Files) /\ w[2] \in Nat
  BY DEF Place
<1>2. /\ Files[w[1]].size \in Nat /\ FmtEnd(w[1]) \in {17, 18}
      /\ FileWords(w[1]) \in Nat /\ FileWords(w[1]) >= 24
  BY <1>1, FileFacts
<1>3. w[2] = 2 => Half(w) = 2 * FileWords(w[1]) - 8
  BY <1>2 DEF Half
<1>4. w[2] = 8 => Half(w) = (IF Files[w[1]].ext THEN 18 ELSE 16)
  BY <1>2 DEF Half
<1>5. w[2] = FmtEnd(w[1]) + 3 => Half(w) = Files[w[1]].size
  BY <1>2 DEF Half
<1>6. w[2] \in {3, 9, FmtEnd(w[1]) + 4} => Half(w) = 0
  BY <1>2 DEF Half
<1>7. w[2] \notin {2, 3, 8, 9, FmtEnd(w[1]) + 3, FmtEnd(w[1]) + 4} => Half(w) = Junk
  BY DEF Half
<1>8. Half(w) \in 0 .. Junk
  <2>1. 2 * FileWords(w[1]) - 8 \in 0 .. Junk /\ Files[w[1]].size \in 0 .. Junk
    BY <1>1, SizeFits
  <2>2. (IF Files[w[1]].ext THEN 18 ELSE 16) \in 0 .. Junk /\ 0 \in 0 .. Junk /\ Junk \in 0 .. Junk
    BY JunkBig
  <2>3. CASE w[2] \in {2, 8, FmtEnd(w[1]) + 3}
    BY <1>3, <1>4, <1>5, <2>1, <2>2, <2>3, Zenon
  <2> QED
    BY <1>6, <1>7, <2>2, <2>3, Zenon
<1>9. w[2] \in 0 .. 7 /\ w[2] # 3 => Half(w) >= 40
  <2>1. CASE w[2] = 2
    BY <1>2, <1>3, <2>1
  <2>2. CASE w[2] \in {0, 1, 4, 5, 6, 7}
    BY <1>2, <1>7, <2>2, JunkBig
  <2> QED
    BY <2>1, <2>2
<1> QED
  BY <1>4, <1>5, <1>6, <1>8, <1>9, Zenon

\* Succ is the next word, and after the last one the stream ends.
LEMMA SuccFacts ==
    ASSUME TwoWords, NEW w \in Place
    PROVE  /\ Succ(w) \in Place \cup {EndOfStream}
           /\ Succ(w) = IF w[2] = FileWords(w[1]) - 1 THEN <<w[1] + 1, 0>> ELSE <<w[1], w[2] + 1>>
<1>1. w[1] \in 1 .. Len(Files) /\ w[2] \in Nat /\ w[2] < FileWords(w[1]) /\ Len(Files) \in Nat
  BY FilesAssumption DEF Place
<1>2. FileWords(w[1]) \in Nat
  BY <1>1, FileFacts
<1>3. CASE w[2] + 1 = FileWords(w[1])
  <2>1. Succ(w) = <<w[1] + 1, 0>> /\ w[2] = FileWords(w[1]) - 1
    BY <1>1, <1>2, <1>3 DEF Succ
  <2>2. CASE w[1] = Len(Files)
    BY <2>1, <2>2 DEF EndOfStream
  <2>3. CASE w[1] # Len(Files)
    <3>1. w[1] + 1 \in 1 .. Len(Files)
      BY <1>1, <2>3
    <3>2. FileWords(w[1] + 1) \in Nat /\ FileWords(w[1] + 1) >= 24
      BY <3>1, FileFacts
    <3>3. \A v \in (1 .. Len(Files)) \X Nat : v[2] < FileWords(v[1]) => v \in Place
      BY DEF Place
    <3>4. <<w[1] + 1, 0>> \in (1 .. Len(Files)) \X Nat
      BY <3>1
    <3> QED
      BY <2>1, <3>2, <3>3, <3>4
  <2> QED
    BY <2>2, <2>3
<1>4. CASE w[2] + 1 # FileWords(w[1])
  BY <1>1, <1>2, <1>4 DEF Succ, Place
<1> QED
  BY <1>3, <1>4

\* The recursion of WordsBefore does define a function.
LEMMA WordsBeforeRec ==
    ASSUME TwoWords
    PROVE  /\ WordsBefore[1] = 0
           /\ \A f \in 1 .. (Len(Files) + 1) : WordsBefore[f] \in Nat
           /\ \A f \in 1 .. Len(Files) : WordsBefore[f + 1] = WordsBefore[f] + FileWords(f)
<1> DEFINE N == Len(Files) + 1
           Rec(g, n) == g = [f \in 1 .. n |-> IF f = 1 THEN 0 ELSE g[f - 1] + FileWords(f - 1)]
<1>1. N \in Nat \ {0}
  BY FilesAssumption
<1>2. \A n \in 1 .. N : \E g : Rec(g, n)
  <2> DEFINE T == {n \in 1 .. N : ~ \E g : Rec(g, n)}
  <2> SUFFICES ASSUME T # {} PROVE FALSE
    OBVIOUS
  <2>0. T \in SUBSET Nat
    BY <1>1
  <2>1. PICK n \in T : \A m \in T : n <= m
    BY <2>0, LeastNat
  <2>2. n # 1
    <3>1. ASSUME n = 1 PROVE Rec([f \in 1 .. 1 |-> 0], n)
      BY <3>1
    <3> QED
      BY <2>1, <3>1
  <2>3. n \in 1 .. N /\ n - 1 \in 1 .. N /\ n - 1 \notin T
    BY <1>1, <2>1, <2>2
  <2>4. PICK g : Rec(g, n - 1)
    BY <2>3
  <2> DEFINE h == [f \in 1 .. n |-> IF f = 1 THEN 0 ELSE g[f - 1] + FileWords(f - 1)]
  <2>5. \A f \in 1 .. (n - 1) : h[f] = g[f]
    BY <2>3, <2>4
  <2>6. Rec(h, n)
    <3>1. \A f \in 2 .. n : h[f - 1] = g[f - 1]
      <4> HIDE DEF h
      <4> QED
        BY <2>3, <2>5
    <3>2. h = [f \in 1 .. n |-> IF f = 1 THEN 0 ELSE h[f - 1] + FileWords(f - 1)]
      <4>1. \A f \in 1 .. n : (IF f = 1 THEN 0 ELSE g[f - 1] + FileWords(f - 1))
                              = (IF f = 1 THEN 0 ELSE h[f - 1] + FileWords(f - 1))
        <5> HIDE DEF h
        <5> QED
          BY <2>3, <3>1
      <4> HIDE DEF h
      <4>2. h = [f \in 1 .. n |-> IF f = 1 THEN 0 ELSE g[f - 1] + FileWords(f - 1)]
        BY DEF h
      <4> QED
        BY <4>1, <4>2
    <3> QED
      BY <3>2
  <2> QED
    BY <2>1, <2>6
<1>3. Rec(WordsBefore, N)
  <2>1. PICK g : Rec(g, N)
    BY <1>1, <1>2
  <2> QED
    BY <2>1 DEF WordsBefore
<1>4. \A f \in 1 .. Len(Files) : WordsBefore[f + 1] = WordsBefore[f] + FileWords(f)
  BY <1>1, <1>3, FilesAssumption
<1>6. WordsBefore[1] = 0
  <2>1. 1 \in 1 .. N
    BY <1>1
  <2> HIDE DEF N
  <2> QED
    BY <1>3, <2>1
<1>5. \A f \in 1 .. N : WordsBefore[f] \in Nat
  <2> DEFINE T == {n \in 1 .. N : WordsBefore[n] \notin Nat}
  <2> SUFFICES ASSUME T # {} PROVE FALSE
    OBVIOUS
  <2>0. T \in SUBSET Nat
    BY <1>1
  <2>1. PICK n \in T : \A m \in T : n <= m
    BY <2>0, LeastNat
  <2>2. n # 1
    BY <1>6, <2>1
  <2>3. n - 1 \in 1 .. Len(Files) /\ n - 1 \notin T
    BY <1>1, <2>1, <2>2
  <2>4. WordsBefore[n - 1] \in Nat /\ FileWords(n - 1) \in Nat
    BY <2>3, <1>1, FileFacts
  <2>5. WordsBefore[n] = WordsBefore[n - 1] + FileWords(n - 1)
    BY <1>1, <1>4, <2>1, <2>3
  <2> QED
    BY <2>1, <2>4, <2>5
<1> QED
  BY <1>4, <1>5, <1>6

-----------------------------------------------------------------------------
(* A clock, part by part                                                    *)

\* Clock in which the arbiter's slot and the host's read are arbitrary.
AnyClk == \E im, mm \in BOOLEAN : Clk(im, mm)

\* The word taken after a clock is the one pos named before it.
LEMMA CurMoves ==
    ASSUME StreamInv, TypeOK, AnyClk
    PROVE  /\ Cur' = pos
           /\ rd_pipe[3] => Cur = rd_data /\ Cur \in Place /\ pos = Succ(Cur)
           /\ ~rd_pipe[3] => Cur = pos
<1>1. PICK im, mm \in BOOLEAN : Clk(im, mm)
  BY DEF AnyClk
<1>2. rd_pipe'[3] = rd_pipe[2]
  BY <1>1 DEF Clk
<1>3. rd_pipe[2] => rd_data' = pos
  BY <1>1 DEF Clk
<1>4. ~rd_pipe[2] => pos' = pos
  BY <1>1 DEF Clk
<1>5. Cur' = pos
  BY <1>2, <1>3, <1>4 DEF Cur
<1>6. rd_pipe[3] => rd_data \in Place /\ Succ(rd_data) = pos
  BY DEF StreamInv
<1> QED
  BY <1>5, <1>6 DEF Cur

\* How far the stream has been read, one word further with each word.
LEMMA GlobalSucc ==
    ASSUME TwoWords, NEW w \in Place
    PROVE  /\ WordsBefore[Succ(w)[1]] + Succ(w)[2] = WordsBefore[w[1]] + w[2] + 1
           /\ WordsBefore[w[1]] \in Nat /\ w[2] \in Nat
<1>1. w[1] \in 1 .. Len(Files) /\ w[2] \in Nat /\ w[2] < FileWords(w[1]) /\ Len(Files) \in Nat
  BY FilesAssumption DEF Place
<1>2. /\ WordsBefore[w[1]] \in Nat /\ FileWords(w[1]) \in Nat
      /\ WordsBefore[w[1] + 1] = WordsBefore[w[1]] + FileWords(w[1])
  BY <1>1, WordsBeforeRec, FileFacts
<1>3. CASE w[2] = FileWords(w[1]) - 1
  <2>1. Succ(w) = <<w[1] + 1, 0>>
    BY <1>3, SuccFacts
  <2>2. Succ(w)[1] = w[1] + 1 /\ Succ(w)[2] = 0
    BY <2>1
  <2> QED
    BY <1>1, <1>2, <1>3, <2>2
<1>4. CASE w[2] # FileWords(w[1]) - 1
  <2>1. Succ(w) = <<w[1], w[2] + 1>>
    BY <1>4, SuccFacts
  <2>2. Succ(w)[1] = w[1] /\ Succ(w)[2] = w[2] + 1
    BY <2>1
  <2> QED
    BY <1>1, <1>2, <2>2
<1> QED
  BY <1>3, <1>4

\* With words on their way or waiting, the stream is not at its end.
LEMMA NotAtEnd ==
    ASSUME TwoWords, StreamInv, TypeOK, rd_pipe[2] \/ avail > 0
    PROVE  pos \in Place
<1>1. InFlight \in Nat /\ InFlight > 0
  BY DEF TypeOK, InFlight, Bit
<1>2. ASSUME pos = EndOfStream PROVE FALSE
  <2>1. pos[1] = Len(Files) + 1 /\ pos[2] = 0
    BY <1>2 DEF EndOfStream
  <2>2. WordsBefore[Len(Files) + 1] \in Nat
    BY FilesAssumption, WordsBeforeRec
  <2> QED
    BY <1>1, <2>1, <2>2 DEF StreamInv
<1> QED
  BY <1>2 DEF StreamInv

\* A clock reads words in the order of the stream.
LEMMA StreamClk ==
    ASSUME TwoWords, StreamInv, TypeOK, AnyClk
    PROVE  StreamInv'
<1>1. PICK im, mm \in BOOLEAN : Clk(im, mm)
  BY DEF AnyClk
<1> DEFINE fetch == im /\ sram_rd_en_oh /\ avail > 0
<1>2. /\ rd_pipe' = <<fetch, rd_pipe[1], rd_pipe[2]>>
      /\ avail' = IF fetch THEN avail - 1 ELSE avail
      /\ rd_data' = IF rd_pipe[2] THEN pos ELSE IF mm THEN None ELSE rd_data
      /\ pos' = IF rd_pipe[2] THEN Succ(pos) ELSE pos
  BY <1>1 DEF Clk
<1>3. InFlight' = InFlight - Bit(rd_pipe[2]) /\ InFlight \in Nat
  <2>1. avail \in Nat /\ \A b : Bit(b) \in {0, 1}
    BY FlagsAssumption DEF TypeOK, Bit
  <2>2. rd_pipe'[1] = fetch /\ rd_pipe'[2] = rd_pipe[1] /\ avail' = avail - Bit(fetch)
    BY <1>2, <2>1 DEF Bit
  <2>3. InFlight' = Bit(fetch) + Bit(rd_pipe[1]) + avail'
    BY <2>2 DEF InFlight
  <2> HIDE DEF fetch
  <2> QED
    BY <2>1, <2>2, <2>3 DEF InFlight
<1>4. CASE rd_pipe[2]
  <2>1. pos \in Place /\ pos' = Succ(pos) /\ rd_data' = pos /\ InFlight' = InFlight - 1
    BY <1>2, <1>3, <1>4, NotAtEnd DEF Bit
  <2>2. pos # None
    BY <2>1 DEF Place, None
  <2>3. pos' \in Place \cup {EndOfStream}
    BY <2>1, SuccFacts
  <2>4. WordsBefore[pos'[1]] + pos'[2] = WordsBefore[pos[1]] + pos[2] + 1
    BY <2>1, GlobalSucc
  <2>5. WordsBefore[pos[1]] \in Nat /\ pos[2] \in Nat /\ WordsBefore[Len(Files) + 1] \in Nat
    BY <2>1, GlobalSucc, WordsBeforeRec, FilesAssumption
  <2>6. WordsBefore[pos'[1]] + pos'[2] + InFlight' <= WordsBefore[Len(Files) + 1]
    BY <1>3, <2>1, <2>4, <2>5 DEF StreamInv
  <2> QED
    BY <2>1, <2>2, <2>3, <2>6 DEF StreamInv, EndOfStream
<1>5. CASE ~rd_pipe[2]
  <2>1. pos' = pos /\ rd_pipe'[3] = FALSE /\ (rd_data' = None \/ rd_data' = rd_data) /\ InFlight' = InFlight
    BY <1>2, <1>3, <1>5 DEF Bit, TypeOK
  <2> QED
    BY <2>1 DEF StreamInv, EndOfStream
<1> QED
  BY <1>4, <1>5

\* Room in the PCM FIFO: a request is made only below the mark.
LEMMA RoomClk ==
    ASSUME RoomInv, TypeOK, AnyClk
    PROVE  RoomInv' /\ used' \in Nat
<1>1. PICK im, mm \in BOOLEAN : Clk(im, mm)
  BY DEF AnyClk
<1> DEFINE fetch == im /\ sram_rd_en_oh /\ avail > 0
<1>2. rd_pipe' = <<fetch, rd_pipe[1], rd_pipe[2]>> /\ used' = used + Bit(pcm.wr_en)
  BY <1>1 DEF Clk, Bit, TypeOK
<1>3. Bit(pcm.wr_en)' <= Bit(rd_pipe[3]) /\ Bit(pcm.wr_en)' \in {0, 1}
  <2>1. pcm'.wr_en => rd_pipe[3]
    BY <1>1 DEF Clk, PcmClk, sram_rd_data_valid_ih
  <2> QED
    BY <2>1 DEF Bit
<1>4. /\ PcmDepth \in Nat /\ Afull \in Nat /\ Afull >= 1 /\ Afull <= PcmDepth - 5 /\ used \in Nat
      /\ \A b : Bit(b) \in {0, 1}
  BY PcmMargin DEF TypeOK, Bit
<1>5. OnTheWay' = Bit(fetch) + Bit(rd_pipe[1]) + Bit(rd_pipe[2])
  BY <1>2 DEF OnTheWay
<1>6. used < PcmDepth
  BY <1>4 DEF RoomInv, OnTheWay
<1>7. used % PcmDepth = used
  BY <1>4, <1>6
<1>8. fetch => used < Afull
  BY <1>4, <1>7 DEF sram_rd_en_oh, pcm_ff_afull_ih
<1>9. used' \in Nat
  BY <1>2, <1>4
<1>10. CASE fetch
  <2>1. Bit(fetch) = 1
    BY <1>10 DEF Bit
  <2> QED
    BY <1>2, <1>3, <1>4, <1>5, <1>8, <1>9, <1>10, <2>1 DEF RoomInv
<1>11. CASE ~fetch
  <2>1. Bit(fetch) = 0
    BY <1>11 DEF Bit
  <2> QED
    BY <1>2, <1>3, <1>4, <1>5, <1>9, <2>1 DEF RoomInv, OnTheWay
<1> QED
  BY <1>10, <1>11


\* Types of what the parser reads in a clock.
LEMMA Typed ==
    ASSUME TypeOK
    PROVE  /\ rd_pipe[1] \in BOOLEAN /\ rd_pipe[2] \in BOOLEAN /\ rd_pipe[3] \in BOOLEAN
           /\ pcm_data_size_f[1] \in Nat /\ pcm_data_size_f[2] \in Nat
           /\ pcm_data_size_f = <<pcm_data_size_f[1], pcm_data_size_f[2]>>
           /\ fmt_chnk_end_ptr_f \in {0, 17, 18} /\ pst \in 0 .. 12
           /\ fsm.status \in {"IDLE", "ACTIV"} /\ fsm.chunk \in {"WAVE", "FMT", "DATA", "PCM"}
  BY JunkBig DEF TypeOK

\* The parser's registers after a clock.
LEMMA ParserClk ==
    ASSUME AnyClk
    PROVE  FsmClk /\ CountClk /\ HeaderClk /\ PcmClk
  BY DEF AnyClk, Clk

\* Without a request the words on their way get fewer.
LEMMA OnTheWayClk ==
    ASSUME AnyClk, TypeOK, fsm.status = "IDLE"
    PROVE  OnTheWay' = OnTheWay - Bit(rd_pipe[3]) /\ OnTheWay \in Nat /\ OnTheWay >= Bit(rd_pipe[3])
<1>1. PICK im, mm \in BOOLEAN : Clk(im, mm)
  BY DEF AnyClk
<1>2. rd_pipe' = <<FALSE, rd_pipe[1], rd_pipe[2]>>
  BY <1>1 DEF Clk, sram_rd_en_oh
<1>3. Bit(FALSE) = 0 /\ \A b : Bit(b) \in {0, 1}
  BY DEF Bit
<1>4. OnTheWay' = Bit(rd_pipe[1]) + Bit(rd_pipe[2])
  <2>1. OnTheWay' = 0 + Bit(rd_pipe[1]) + Bit(rd_pipe[2])
    BY <1>2 DEF OnTheWay, Bit
  <2> QED
    BY <1>3, <2>1
<1> QED
  BY <1>3, <1>4 DEF OnTheWay

\* A clock without a word on the bus: only the FSM may start.
LEMMA NoWordClk ==
    ASSUME TwoWords, TypeOK, StreamInv, ParseInv, AnyClk, ~rd_pipe[3]
    PROVE  ParseInv'
<1>1. Cur' = Cur /\ Cur = pos
  BY CurMoves
<1>2. /\ word_cntr_f' = word_cntr_f /\ pcm_data_size_f' = pcm_data_size_f
      /\ last_word_f' = last_word_f /\ fmt_chnk_end_ptr_f' = fmt_chnk_end_ptr_f
  <2>1. word_cntr_f \in Nat
    BY DEF TypeOK
  <2>2. CountClk
    BY ParserClk
  <2>3. word_cntr_f' = word_cntr_f /\ pcm_data_size_f' = pcm_data_size_f
    BY <2>1, <2>2 DEF CountClk, end_of_file_c, sram_rd_data_valid_ih, NextWordCntr
  <2>4. last_word_f' = last_word_f
    <3>1. last_word_f' = IF last_word_f THEN TRUE ELSE FALSE
      BY <2>2 DEF CountClk, end_of_file_c, LastButOne, sram_rd_data_valid_ih
    <3> QED
      BY <3>1 DEF TypeOK
  <2> QED
    BY <2>2, <2>3, <2>4 DEF CountClk, sram_rd_data_valid_ih
<1>3. hdr_ram' = hdr_ram
  BY ParserClk DEF HeaderClk, hdr_ram_wr_en_c, sram_rd_data_valid_ih
<1>4. ~ChunkEnds /\ ~end_of_file_c
  BY DEF ChunkEnds, end_of_file_c, sram_rd_data_valid_ih
<1>5. /\ fsm'.chunk = fsm.chunk
      /\ fsm'.status = IF Starts THEN "ACTIV" ELSE fsm.status
      /\ fsm'.field = IF Starts \/ fsm.chunk = "PCM" THEN "ID" ELSE fsm.field
      /\ pst' = IF Starts \/ fsm.chunk = "PCM" THEN 0 ELSE pst
  BY <1>4, ParserClk DEF FsmClk, NextStatus, NextChunk, NextField, rst_field_c, sram_rd_data_valid_ih
<1>6. CASE Starts
  <2>1. fsm.status = "IDLE" /\ IdleInv /\ fsm'.status = "ACTIV"
    BY <1>5, <1>6 DEF Starts, ParseInv
  <2>2. Cur' \in Place /\ Cur[1] \in Nat /\ Cur[2] \in Nat
    <3>1. pos \in Place
      BY <1>6, NotAtEnd DEF Starts
    <3> QED
      BY <1>1, <3>1, FilesAssumption DEF Place
  <2>3. Cur[2] <= 3 /\ (Cur[1] = 1 => Cur[2] = 0)
    BY <2>1, <2>2, OnTheWayClk, Typed DEF IdleInv, Bit
  <2>4. HdrInv'
    BY <1>1, <2>2, <2>3 DEF HdrInv, FirstKept
  <2>5. Quiet'
    BY <1>2, <2>1, Typed DEF Quiet, IdleInv
  <2>6. ActivInv'
    BY <1>1, <1>2, <1>5, <2>1, <2>2, <2>3, <2>4, <2>5 DEF ActivInv, IdleInv, WaveInv
  <2> QED
    BY <1>1, <1>2, <2>1, <2>6 DEF ParseInv
<1>7. CASE ~Starts /\ fsm.status = "IDLE"
  <2>1. OnTheWay' = OnTheWay
    BY <1>7, OnTheWayClk DEF Bit
  <2>2. IdleInv'
    BY <1>1, <1>2, <1>5, <1>7, <2>1 DEF ParseInv, IdleInv
  <2> QED
    BY <1>1, <1>2, <1>5, <1>7, <2>2 DEF ParseInv
<1>8. CASE fsm.status = "ACTIV"
  <2>1. ActivInv /\ ~Starts
    BY <1>8 DEF ParseInv, Starts
  <2>2. HdrInv'
    BY <1>1, <1>3, <2>1 DEF ActivInv, HdrInv
  <2>3. Quiet => Quiet'
    BY <1>2 DEF Quiet
  <2>4. WaveInv => WaveInv'
    BY <1>1, <1>2 DEF WaveInv
  <2>5. fsm.chunk # "PCM" => pst' = pst /\ fsm'.field = fsm.field
    BY <1>5, <2>1
  <2>6. fsm.chunk # "PCM" /\ FmtInv => FmtInv'
    BY <1>1, <1>2, <2>5 DEF FmtInv, IdThenSize
  <2>7. fsm.chunk # "PCM" /\ DataInv => DataInv'
    BY <1>1, <1>2, <2>5 DEF DataInv, IdThenSize
  <2>8. fsm.chunk = "PCM" /\ PcmInv => PcmInv'
    BY <1>1, <1>2, <1>5 DEF PcmInv
  <2>9. ActivInv'
    BY <1>1, <1>2, <1>5, <2>1, <2>2, <2>3, <2>4, <2>6, <2>7, <2>8 DEF ActivInv
  <2> QED
    BY <1>1, <1>2, <1>5, <1>8, <2>1, <2>9 DEF ParseInv
<1> QED
  BY <1>6, <1>7, <1>8, Typed


\* A word on the bus: what the counter, the size register and the flag for the
\* last word make of it.
LEMMA WordClk ==
    ASSUME TypeOK, StreamInv, ParseInv, AnyClk, rd_pipe[3]
    PROVE  /\ Cur \in Place /\ Cur = rd_data /\ Cur' = Succ(Cur) /\ word_cntr_f = Cur[2]
           /\ word_cntr_f' = IF last_word_f THEN 0 ELSE Cur[2] + 1
           /\ pcm_data_size_f' = IF last_word_f THEN <<Junk, Junk>>
                                 ELSE IF fsm.field = "SIZE" THEN <<Half(Cur), pcm_data_size_f[1]>>
                                 ELSE pcm_data_size_f
           /\ last_word_f' = IF last_word_f THEN FALSE
                             ELSE /\ pcm_data_size_f[1] = 0
                                  /\ Cur[2] = (pcm_data_size_f[2] \div 2) + (pcm_data_size_f[2] % 2)
                                              + fmt_chnk_end_ptr_f + 3
           /\ fmt_chnk_end_ptr_f' = IF Cur[2] = 8 THEN IF Half(Cur) = 18 THEN 18 ELSE 17
                                    ELSE fmt_chnk_end_ptr_f
<1>1. Cur \in Place /\ Cur = rd_data /\ Cur' = Succ(Cur)
  BY CurMoves
<1>2. word_cntr_f = Cur[2]
  BY DEF ParseInv
<1>3. CountClk
  BY ParserClk
<1>4. word_cntr_f' = IF last_word_f THEN 0 ELSE Cur[2] + 1
  BY <1>2, <1>3 DEF CountClk, NextWordCntr, end_of_file_c, sram_rd_data_valid_ih
<1>5. pcm_data_size_f' = IF last_word_f THEN <<Junk, Junk>>
                         ELSE IF fsm.field = "SIZE" THEN <<Half(Cur), pcm_data_size_f[1]>>
                         ELSE pcm_data_size_f
  BY <1>1, <1>3 DEF CountClk, end_of_file_c, sram_rd_data_valid_ih
<1>6. last_word_f' = IF last_word_f THEN FALSE
                     ELSE /\ pcm_data_size_f[1] = 0
                          /\ Cur[2] = (pcm_data_size_f[2] \div 2) + (pcm_data_size_f[2] % 2)
                                      + fmt_chnk_end_ptr_f + 3
  BY <1>2, <1>3 DEF CountClk, LastButOne, end_of_file_c, sram_rd_data_valid_ih
<1>7. fmt_chnk_end_ptr_f' = IF Cur[2] = 8 THEN IF Half(Cur) = 18 THEN 18 ELSE 17
                            ELSE fmt_chnk_end_ptr_f
  BY <1>1, <1>2, <1>3 DEF CountClk, sram_rd_data_valid_ih
<1> QED
  BY <1>1, <1>2, <1>4, <1>5, <1>6, <1>7, Zenon

\* The FSM on a word in the midst of a file.
LEMMA FsmWordClk ==
    ASSUME AnyClk, rd_pipe[3], ~last_word_f, fsm.status = "ACTIV"
    PROVE  /\ fsm'.status = "ACTIV"
           /\ ~ChunkEnds => /\ fsm'.chunk = fsm.chunk
                            /\ fsm.chunk # "PCM" => fsm'.field = NextField
                            /\ fsm.chunk # "PCM" => pst' = IF pst < 12 THEN pst + 1 ELSE pst
           /\ ChunkEnds \/ fsm.chunk = "PCM" => fsm'.field = "ID" /\ pst' = 0
           /\ ChunkEnds => fsm'.chunk = [WAVE |-> "FMT", FMT |-> "DATA", DATA |-> "PCM"][fsm.chunk]
<1>1. ~end_of_file_c /\ ~Starts /\ sram_rd_data_valid_ih
  BY DEF end_of_file_c, Starts, sram_rd_data_valid_ih
<1>2. FsmClk
  BY ParserClk
<1>3. fsm'.status = "ACTIV" /\ fsm'.chunk = NextChunk /\ fsm'.field = NextField
  BY <1>1, <1>2 DEF FsmClk, NextStatus
<1>4. rst_field_c <=> ChunkEnds \/ fsm.chunk = "PCM"
  BY <1>1 DEF rst_field_c
<1>5. pst' = IF rst_field_c THEN 0 ELSE IF pst < 12 THEN pst + 1 ELSE pst
  BY <1>1, <1>2 DEF FsmClk
<1>6. rst_field_c => NextField = "ID"
  BY DEF NextField
<1> QED
  BY <1>1, <1>3, <1>4, <1>5, <1>6 DEF NextChunk

\* Fields follow the place in the chunk.
LEMMA FieldStep ==
    ASSUME TypeOK, IdThenSize, ~rst_field_c, rd_pipe[3],
           fsm'.field = NextField, pst < 12, pst' = pst + 1
    PROVE  IdThenSize'
<1>1. pst \in 0 .. 12
  BY DEF TypeOK
<1>2. sram_rd_data_valid_ih
  BY DEF sram_rd_data_valid_ih
<1>3. CASE pst = 0
  <2>1. NextField = "ID"
    BY <1>2, <1>3 DEF NextField, IdThenSize
  <2> QED
    BY <1>3, <2>1 DEF IdThenSize
<1>4. CASE pst = 1
  <2>1. NextField = "SIZE"
    BY <1>2, <1>4 DEF NextField, IdThenSize
  <2> QED
    BY <1>4, <2>1 DEF IdThenSize
<1>5. CASE pst = 2
  <2>1. NextField = "SIZE"
    BY <1>2, <1>5 DEF NextField, IdThenSize
  <2> QED
    BY <1>5, <2>1 DEF IdThenSize
<1>6. CASE pst = 3
  <2>1. NextField = "FMT"
    BY <1>2, <1>6 DEF NextField, IdThenSize
  <2> QED
    BY <1>6, <2>1 DEF IdThenSize
<1>7. CASE pst >= 4
  <2>1. fsm.field # "SIZE" /\ fsm.field \in {"ID", "FMT", "NCHNNL", "FS", "BRATE", "BLKA", "BPS"}
    BY <1>1, <1>7 DEF TypeOK, IdThenSize
  <2>2. NextField # "SIZE"
    BY <1>2, <1>7, <2>1 DEF NextField
  <2> QED
    BY <1>1, <1>7, <2>2 DEF IdThenSize
<1> QED
  BY <1>1, <1>3, <1>4, <1>5, <1>6, <1>7

\* A word of the header is stored at its place, a word of the data is not.
LEMMA HdrClk ==
    ASSUME TwoWords, StreamInv, TypeOK, ParseInv, AnyClk, rd_pipe[3], fsm.status = "ACTIV",
           DOMAIN hdr_ram = 0 .. 22, Cur' = <<Cur[1], Cur[2] + 1>>,
           fsm.chunk # "PCM" => Cur[2] < DataStart(Cur[1]),
           fsm.chunk = "PCM" => Cur[2] >= DataStart(Cur[1])
    PROVE  HdrInv'
<1>1. /\ Cur \in Place /\ Cur = rd_data /\ word_cntr_f = Cur[2] /\ HdrInv
  BY CurMoves DEF ParseInv, ActivInv
<1>2. /\ Cur[1] \in 1 .. Len(Files) /\ Cur[2] \in Nat /\ Cur = <<Cur[1], Cur[2]>>
      /\ Cur'[1] = Cur[1] /\ Cur'[2] = Cur[2] + 1
  BY <1>1 DEF Place
<1>3. DataStart(Cur[1]) \in {22, 23}
  BY <1>2, FileFacts
<1> SUFFICES ASSUME NEW i \in FirstKept(Cur[1]) .. (DataStart(Cur[1]) - 1), i < Cur[2] + 1
             PROVE  hdr_ram'[i] = <<Cur[1], i>>
  BY <1>2 DEF HdrInv
<1>4. i \in 0 .. 22
  BY <1>3 DEF FirstKept
<1>5. HeaderClk
  BY ParserClk
<1>6. CASE fsm.chunk = "PCM"
  <2>1. hdr_ram' = hdr_ram
    BY <1>5, <1>6 DEF HeaderClk, hdr_ram_wr_en_c
  <2>2. i < Cur[2]
    BY <1>2, <1>3, <1>4, <1>6
  <2> QED
    BY <1>1, <2>1, <2>2 DEF HdrInv
<1>7. CASE fsm.chunk # "PCM"
  <2>1. hdr_ram' = [hdr_ram EXCEPT ![Cur[2]] = Cur]
    BY <1>1, <1>5, <1>7 DEF HeaderClk, hdr_ram_wr_en_c, sram_rd_data_valid_ih
  <2>2. CASE i = Cur[2]
    BY <1>2, <1>4, <2>1, <2>2
  <2>3. CASE i # Cur[2]
    <3>1. i < Cur[2] /\ hdr_ram'[i] = hdr_ram[i]
      BY <1>2, <1>4, <2>1, <2>3
    <3> QED
      BY <1>1, <3>1 DEF HdrInv
  <2> QED
    BY <2>2, <2>3
<1> QED
  BY <1>6, <1>7


\* A word that arrives while the parser is idle is passed over.
LEMMA IdleWordClk ==
    ASSUME TwoWords, TypeOK, StreamInv, ParseInv, AnyClk, rd_pipe[3], fsm.status = "IDLE"
    PROVE  ParseInv'
<1>1. IdleInv /\ Cur \in Place /\ Cur' = Succ(Cur) /\ Cur' = pos /\ word_cntr_f = Cur[2]
  BY CurMoves DEF ParseInv
<1>2. Cur[1] \in 1 .. Len(Files) /\ Cur[2] \in Nat /\ Cur[1] \in Nat
  BY <1>1, FilesAssumption DEF Place
<1>3. OnTheWay' = OnTheWay - 1 /\ OnTheWay \in Nat /\ OnTheWay >= 1
  BY OnTheWayClk DEF Bit
<1>4. Cur[2] <= 2 /\ Cur[1] # 1
  BY <1>1, <1>2, <1>3 DEF IdleInv
<1>5. Cur' = <<Cur[1], Cur[2] + 1>> /\ Cur' \in Place
  <2>1. FileWords(Cur[1]) \in Nat /\ FileWords(Cur[1]) >= 24
    BY <1>2, FileFacts
  <2>2. Cur[2] # FileWords(Cur[1]) - 1
    BY <1>2, <1>4, <2>1
  <2>3. Cur' = <<Cur[1], Cur[2] + 1>>
    BY <1>1, <2>2, SuccFacts
  <2>4. Cur' # EndOfStream
    BY <1>2, <2>3 DEF EndOfStream
  <2>5. Cur' \in Place
    BY <1>1, <2>4, SuccFacts
  <2> QED
    BY <2>3, <2>5
<1>6. Cur'[1] = Cur[1] /\ Cur'[2] = Cur[2] + 1
  BY <1>5
<1>7. /\ word_cntr_f' = Cur'[2] /\ ~last_word_f' /\ pcm_data_size_f'[1] >= 40
  <2>1. ~last_word_f /\ pcm_data_size_f[1] >= 40
    BY <1>1 DEF IdleInv
  <2>2. Half(Cur) >= 40
    BY <1>1, <1>2, <1>4, HalfFacts
  <2>3. word_cntr_f' = Cur[2] + 1
    BY <2>1, WordClk
  <2>4. pcm_data_size_f[1] # 0
    BY <2>1, Typed
  <2>5. ~last_word_f'
    BY <2>1, <2>4, WordClk
  <2>6. pcm_data_size_f' = IF fsm.field = "SIZE" THEN <<Half(Cur), pcm_data_size_f[1]>>
                           ELSE pcm_data_size_f
    BY <2>1, WordClk
  <2> QED
    BY <1>6, <2>1, <2>2, <2>3, <2>5, <2>6
<1>8. fsm'.chunk = "WAVE" /\ fsm'.status = IF Starts THEN "ACTIV" ELSE "IDLE"
  <2>1. fsm.chunk = "WAVE" /\ ~ChunkEnds /\ ~end_of_file_c
    BY <1>1, <1>2, <1>4 DEF IdleInv, ChunkEnds, end_of_file_c
  <2> QED
    BY <2>1, ParserClk DEF FsmClk, NextStatus, NextChunk
<1>9. CASE Starts
  <2>1. HdrInv'
    BY <1>2, <1>4, <1>6 DEF HdrInv, FirstKept
  <2>2. Quiet'
    <3>1. pcm_data_size_f'[1] # 0
      <4>1. pcm_data_size_f'[1] = Half(Cur) \/ pcm_data_size_f'[1] = pcm_data_size_f[1]
        BY <1>1, WordClk DEF IdleInv
      <4>2. Half(Cur) \in Nat /\ Half(Cur) >= 40
        BY <1>1, <1>2, <1>4, HalfFacts, JunkBig
      <4> QED
        BY <1>1, <4>1, <4>2, Typed DEF IdleInv
    <3> QED
      BY <3>1 DEF Quiet
  <2>3. WaveInv'
    BY <1>2, <1>4, <1>6, <1>7 DEF WaveInv
  <2>4. ActivInv'
    BY <1>5, <1>7, <1>8, <2>1, <2>2, <2>3 DEF ActivInv
  <2> QED
    BY <1>7, <1>8, <1>9, <2>4 DEF ParseInv
<1>10. CASE ~Starts
  <2>1. IdleInv'
    BY <1>1, <1>2, <1>3, <1>4, <1>6, <1>7, <1>8 DEF IdleInv
  <2> QED
    BY <1>7, <1>8, <1>10, <2>1 DEF ParseInv
<1> QED
  BY <1>9, <1>10

\* What every word of a header but the last of a chunk has in common.
LEMMA HeaderWordClk ==
    ASSUME TwoWords, TypeOK, StreamInv, ParseInv, AnyClk, rd_pipe[3], fsm.status = "ACTIV",
           DOMAIN hdr_ram = 0 .. 22, fsm.chunk # "PCM", Cur[2] < DataStart(Cur[1])
    PROVE  /\ Cur \in Place /\ Cur[1] \in 1 .. Len(Files) /\ Cur[2] \in Nat
           /\ Cur' \in Place /\ Cur'[1] = Cur[1] /\ Cur'[2] = Cur[2] + 1
           /\ ~last_word_f /\ word_cntr_f' = Cur'[2] /\ HdrInv'
           /\ pcm_data_size_f' = IF fsm.field = "SIZE" THEN <<Half(Cur), pcm_data_size_f[1]>>
                                 ELSE pcm_data_size_f
           /\ ~last_word_f'
<1>1. Cur \in Place /\ Cur' = Succ(Cur) /\ ~last_word_f /\ Quiet
  BY CurMoves DEF ParseInv, ActivInv
<1>2. Cur[1] \in 1 .. Len(Files) /\ Cur[2] \in Nat
  BY <1>1 DEF Place
<1>3. DataStart(Cur[1]) \in {22, 23} /\ FileWords(Cur[1]) \in Nat /\ FileWords(Cur[1]) >= DataStart(Cur[1]) + 2
  BY <1>2, FileFacts
<1>4. Cur' = <<Cur[1], Cur[2] + 1>>
  BY <1>1, <1>2, <1>3, SuccFacts
<1>5. Cur' \in Place /\ Cur'[1] = Cur[1] /\ Cur'[2] = Cur[2] + 1
  <2>1. <<Cur[1], Cur[2] + 1>> # EndOfStream
    BY <1>2 DEF EndOfStream
  <2>2. Cur' \in Place
    BY <1>1, <1>4, <2>1, SuccFacts
  <2> QED
    BY <1>4, <2>2
<1>6. HdrInv'
  BY <1>4, HdrClk
<1>7. word_cntr_f' = Cur[2] + 1
  BY <1>1, WordClk
<1>8. pcm_data_size_f' = IF fsm.field = "SIZE" THEN <<Half(Cur), pcm_data_size_f[1]>>
                         ELSE pcm_data_size_f
  BY <1>1, WordClk
<1>9. ~last_word_f'
  <2> SUFFICES ASSUME pcm_data_size_f[1] = 0,
                      Cur[2] = (pcm_data_size_f[2] \div 2) + (pcm_data_size_f[2] % 2) + fmt_chnk_end_ptr_f + 3
               PROVE  FALSE
    BY <1>1, WordClk
  <2>1. pcm_data_size_f[2] \in Nat /\ fmt_chnk_end_ptr_f \in Nat
    BY Typed
  <2>2. CASE pcm_data_size_f[2] >= 40
    BY <1>2, <1>3, <2>1, <2>2
  <2>3. CASE pcm_data_size_f[2] >= 16 /\ fmt_chnk_end_ptr_f >= 17
    BY <1>2, <1>3, <2>1, <2>3
  <2> QED
    BY <1>1, <2>2, <2>3 DEF Quiet
<1> QED
  BY <1>1, <1>2, <1>5, <1>6, <1>7, <1>8, <1>9


\* The RIFF header, six words.
LEMMA WaveWordClk ==
    ASSUME TwoWords, TypeOK, StreamInv, ParseInv, AnyClk, rd_pipe[3], fsm.status = "ACTIV",
           DOMAIN hdr_ram = 0 .. 22, fsm.chunk = "WAVE"
    PROVE  ParseInv'
<1>1. ActivInv /\ WaveInv /\ Quiet /\ word_cntr_f = Cur[2]
  BY DEF ParseInv, ActivInv
<1>2. Cur[2] <= 5 /\ Cur[2] \in Nat /\ Cur \in Place /\ Cur[1] \in 1 .. Len(Files)
  BY <1>1 DEF WaveInv, ActivInv, Place
<1>3. FmtEnd(Cur[1]) \in {17, 18} /\ DataStart(Cur[1]) \in {22, 23}
  BY <1>2, FileFacts
<1>4. Cur[2] < DataStart(Cur[1])
  BY <1>2, <1>3
<1>5. /\ Cur' \in Place /\ Cur'[1] = Cur[1] /\ Cur'[2] = Cur[2] + 1
      /\ ~last_word_f /\ word_cntr_f' = Cur'[2] /\ HdrInv' /\ ~last_word_f'
      /\ pcm_data_size_f' = IF fsm.field = "SIZE" THEN <<Half(Cur), pcm_data_size_f[1]>>
                            ELSE pcm_data_size_f
  BY <1>4, HeaderWordClk
<1>6. fmt_chnk_end_ptr_f' = fmt_chnk_end_ptr_f
  BY <1>2, WordClk
<1>7. Half(Cur) \in Nat /\ (Cur[2] # 3 => Half(Cur) >= 40)
  BY <1>2, HalfFacts, JunkBig
<1>8. Quiet'
  <2>1. CASE fsm.field # "SIZE"
    BY <1>1, <1>5, <1>6, <2>1 DEF Quiet
  <2>2. CASE fsm.field = "SIZE"
    <3>1. pcm_data_size_f'[1] = Half(Cur) /\ pcm_data_size_f'[2] = pcm_data_size_f[1]
      BY <1>5, <2>2
    <3>2. Half(Cur) = 0 => pcm_data_size_f[1] >= 40
      BY <1>1, <1>2, <1>7 DEF WaveInv
    <3> QED
      BY <3>1, <3>2 DEF Quiet
  <2> QED
    BY <2>1, <2>2
<1>9. ChunkEnds <=> Cur[2] = 5
  <2>1. ChunkEnds <=> Cur[2] % 8 = 5
    BY <1>1 DEF ChunkEnds, sram_rd_data_valid_ih
  <2>2. Cur[2] \in 0 .. 5
    BY <1>1, <1>2 DEF WaveInv
  <2>3. Cur[2] % 8 = Cur[2]
    BY <2>2
  <2> QED
    BY <2>1, <2>3
<1>10. CASE Cur[2] = 5
  <2>1. ChunkEnds
    BY <1>9, <1>10
  <2>2. fsm'.status = "ACTIV" /\ fsm'.chunk = "FMT" /\ fsm'.field = "ID" /\ pst' = 0
    BY <1>5, <2>1, FsmWordClk
  <2>3. FmtInv'
    BY <1>3, <1>5, <1>10, <2>2 DEF FmtInv, IdThenSize
  <2>4. ActivInv'
    BY <1>5, <1>8, <2>2, <2>3 DEF ActivInv
  <2> QED
    BY <1>5, <2>2, <2>4 DEF ParseInv
<1>11. CASE Cur[2] # 5
  <2>1. fsm'.status = "ACTIV" /\ fsm'.chunk = "WAVE"
    BY <1>5, <1>9, <1>11, FsmWordClk
  <2>2. Cur'[2] <= 3 => pcm_data_size_f'[1] >= 40
    <3>1. ASSUME Cur'[2] <= 3 PROVE Half(Cur) >= 40 /\ pcm_data_size_f[1] >= 40
      BY <1>1, <1>2, <1>5, <1>7, <3>1 DEF WaveInv
    <3> QED
      BY <1>5, <3>1
  <2>3. WaveInv'
    BY <1>2, <1>5, <1>11, <2>2 DEF WaveInv
  <2>4. ActivInv'
    BY <1>5, <1>8, <2>1, <2>3 DEF ActivInv
  <2> QED
    BY <1>5, <2>1, <2>4 DEF ParseInv
<1> QED
  BY <1>10, <1>11

\* The "fmt " chunk: the file's format and where the chunk ends.
LEMMA FmtWordClk ==
    ASSUME TwoWords, TypeOK, StreamInv, ParseInv, AnyClk, rd_pipe[3], fsm.status = "ACTIV",
           DOMAIN hdr_ram = 0 .. 22, fsm.chunk = "FMT"
    PROVE  ParseInv'
<1>1. ActivInv /\ FmtInv /\ Quiet /\ word_cntr_f = Cur[2]
  BY DEF ParseInv, ActivInv
<1>2. Cur[2] \in Nat /\ Cur \in Place /\ Cur[1] \in 1 .. Len(Files)
  BY <1>1 DEF ActivInv, Place
<1>3. FmtEnd(Cur[1]) \in {17, 18} /\ DataStart(Cur[1]) = FmtEnd(Cur[1]) + 5
  BY <1>2, FileFacts
<1>4. Cur[2] \in 6 .. 18 /\ Cur[2] <= FmtEnd(Cur[1]) /\ Cur[2] < DataStart(Cur[1])
  <2>1. Cur[2] >= 6 /\ Cur[2] <= FmtEnd(Cur[1])
    BY <1>1 DEF FmtInv
  <2>2. \A n \in Nat, e \in {17, 18} : n >= 6 /\ n <= e => n \in 6 .. 18 /\ n < e + 5
    OBVIOUS
  <2> QED
    BY <1>2, <1>3, <2>1, <2>2, Zenon
<1>5. /\ Cur' \in Place /\ Cur'[1] = Cur[1] /\ Cur'[2] = Cur[2] + 1
      /\ ~last_word_f /\ word_cntr_f' = Cur'[2] /\ HdrInv' /\ ~last_word_f'
      /\ pcm_data_size_f' = IF fsm.field = "SIZE" THEN <<Half(Cur), pcm_data_size_f[1]>>
                            ELSE pcm_data_size_f
  BY <1>4, HeaderWordClk
<1>6. Cur[2] >= 8 => fmt_chnk_end_ptr_f' = FmtEnd(Cur[1])
  <2>1. CASE Cur[2] = 8
    <3>1. Half(Cur) = IF Files[Cur[1]].ext THEN 18 ELSE 16
      BY <1>2, <2>1, HalfFacts
    <3>2. fmt_chnk_end_ptr_f' = IF Half(Cur) = 18 THEN 18 ELSE 17
      BY <2>1, WordClk
    <3> QED
      BY <3>1, <3>2 DEF FmtEnd
  <2>2. CASE Cur[2] > 8
    <3>1. fmt_chnk_end_ptr_f' = fmt_chnk_end_ptr_f
      BY <2>2, <1>4, WordClk
    <3> QED
      BY <1>1, <1>4, <2>2, <3>1 DEF FmtInv
  <2> QED
    BY <1>4, <2>1, <2>2
<1>7. Cur[2] \in {6, 7} => fmt_chnk_end_ptr_f' = fmt_chnk_end_ptr_f
  BY WordClk
<1>8. pst = Cur[2] - 6 /\ pst \in 0 .. 12 /\ IdThenSize
  BY <1>1, <1>4 DEF FmtInv
<1>9. /\ Cur[2] \in {6, 7} => fsm.field = "ID"
      /\ Cur[2] \in {8, 9} => fsm.field = "SIZE"
      /\ Cur[2] \notin {8, 9} => fsm.field # "SIZE"
  BY <1>4, <1>8 DEF IdThenSize
<1>10. Cur[2] = 8 => Half(Cur) \in {16, 18}
  BY <1>2, HalfFacts
<1>11. Quiet'
  <2>1. CASE Cur[2] \in {6, 7}
    BY <1>1, <1>5, <1>7, <1>9, <2>1 DEF Quiet
  <2>2. CASE Cur[2] = 8
    <3>1. pcm_data_size_f'[1] = Half(Cur)
      BY <1>5, <1>9, <2>2
    <3> QED
      BY <1>10, <2>2, <3>1 DEF Quiet
  <2>3. CASE Cur[2] = 9
    <3>1. pcm_data_size_f'[2] = pcm_data_size_f[1] /\ pcm_data_size_f[1] >= 16
      BY <1>1, <1>5, <1>9, <2>3 DEF FmtInv
    <3>2. fmt_chnk_end_ptr_f' >= 17
      BY <1>3, <1>6, <2>3
    <3> QED
      BY <3>1, <3>2 DEF Quiet
  <2>4. CASE Cur[2] > 9
    <3>1. pcm_data_size_f' = pcm_data_size_f
      BY <1>4, <1>5, <1>9, <2>4
    <3>2. fmt_chnk_end_ptr_f' = fmt_chnk_end_ptr_f
      BY <1>4, <2>4, WordClk
    <3> QED
      BY <1>1, <3>1, <3>2 DEF Quiet
  <2> QED
    BY <1>4, <2>1, <2>2, <2>3, <2>4
<1>12. ChunkEnds <=> Cur[2] = FmtEnd(Cur[1])
  <2>1. ChunkEnds <=> Cur[2] % 32 = fmt_chnk_end_ptr_f
    BY <1>1 DEF ChunkEnds, sram_rd_data_valid_ih
  <2>2. Cur[2] % 32 = Cur[2]
    BY <1>4
  <2>3. CASE Cur[2] >= 9
    BY <1>1, <2>1, <2>2, <2>3 DEF FmtInv
  <2>4. CASE Cur[2] \in 6 .. 8
    <3>1. fmt_chnk_end_ptr_f \in {0, 17, 18}
      BY Typed
    <3> QED
      BY <1>3, <2>1, <2>2, <2>4, <3>1
  <2> QED
    BY <1>4, <2>3, <2>4
<1>13. CASE Cur[2] = FmtEnd(Cur[1])
  <2>1. ChunkEnds
    BY <1>12, <1>13
  <2>2. fsm'.status = "ACTIV" /\ fsm'.chunk = "DATA" /\ fsm'.field = "ID" /\ pst' = 0
    BY <1>5, <2>1, FsmWordClk
  <2>3. FmtEnd(Cur[1])' = FmtEnd(Cur[1]) /\ DataStart(Cur[1])' = DataStart(Cur[1])
    BY <1>5 DEF FmtEnd, DataStart
  <2>4. DataInv'
    BY <1>3, <1>5, <1>6, <1>13, <2>2, <2>3 DEF DataInv, IdThenSize
  <2>5. ActivInv'
    BY <1>5, <1>11, <2>2, <2>4 DEF ActivInv
  <2> QED
    BY <1>5, <2>2, <2>5 DEF ParseInv
<1>14. CASE Cur[2] # FmtEnd(Cur[1])
  <2>1. fsm'.status = "ACTIV" /\ fsm'.chunk = "FMT" /\ fsm'.field = NextField /\ pst' = IF pst < 12 THEN pst + 1 ELSE pst
    BY <1>5, <1>12, <1>14, FsmWordClk
  <2>2. pst < 12 /\ pst' = pst + 1
    BY <1>3, <1>4, <1>8, <1>14, <2>1
  <2>3. ~rst_field_c
    BY <1>12, <1>14 DEF rst_field_c, Starts
  <2>4. IdThenSize'
    BY <1>8, <2>1, <2>2, <2>3, FieldStep
  <2>5. FmtEnd(Cur[1])' = FmtEnd(Cur[1])
    BY <1>5 DEF FmtEnd
  <2>6. Cur'[2] = 9 => pcm_data_size_f'[1] >= 16
    BY <1>4, <1>5, <1>9, <1>10
  <2>7. FmtInv'
    BY <1>3, <1>4, <1>5, <1>6, <1>8, <1>14, <2>2, <2>4, <2>5, <2>6 DEF FmtInv
  <2>8. ActivInv'
    BY <1>5, <1>11, <2>1, <2>7 DEF ActivInv
  <2> QED
    BY <1>5, <2>1, <2>8 DEF ParseInv
<1> QED
  BY <1>13, <1>14


\* The header of the "data" chunk: the size of the PCM data.
LEMMA DataWordClk ==
    ASSUME TwoWords, TypeOK, StreamInv, ParseInv, AnyClk, rd_pipe[3], fsm.status = "ACTIV",
           DOMAIN hdr_ram = 0 .. 22, fsm.chunk = "DATA"
    PROVE  ParseInv'
<1>1. ActivInv /\ DataInv /\ Quiet /\ word_cntr_f = Cur[2]
  BY DEF ParseInv, ActivInv
<1>2. Cur[2] \in Nat /\ Cur \in Place /\ Cur[1] \in 1 .. Len(Files)
  BY <1>1 DEF ActivInv, Place
<1>3. /\ FmtEnd(Cur[1]) \in {17, 18} /\ DataStart(Cur[1]) = FmtEnd(Cur[1]) + 5
      /\ Files[Cur[1]].size \in Nat /\ Files[Cur[1]].size >= 3
      /\ FileWords(Cur[1]) \in Nat /\ FileWords(Cur[1]) >= DataStart(Cur[1]) + 2
  BY <1>2, FileFacts
<1>4. /\ Cur[2] \in (FmtEnd(Cur[1]) + 1) .. (FmtEnd(Cur[1]) + 4) /\ Cur[2] < DataStart(Cur[1])
      /\ Cur[2] \in 18 .. 22
  <2>1. Cur[2] > FmtEnd(Cur[1]) /\ Cur[2] < DataStart(Cur[1])
    BY <1>1 DEF DataInv
  <2>2. \A c \in Nat, e \in {17, 18} : c > e /\ c < e + 5 => c \in (e + 1) .. (e + 4) /\ c \in 18 .. 22
    OBVIOUS
  <2> QED
    BY <1>2, <1>3, <2>1, <2>2
<1>5. /\ Cur' \in Place /\ Cur'[1] = Cur[1] /\ Cur'[2] = Cur[2] + 1
      /\ ~last_word_f /\ word_cntr_f' = Cur'[2] /\ HdrInv' /\ ~last_word_f'
      /\ pcm_data_size_f' = IF fsm.field = "SIZE" THEN <<Half(Cur), pcm_data_size_f[1]>>
                            ELSE pcm_data_size_f
  BY <1>4, HeaderWordClk
<1>6. fmt_chnk_end_ptr_f' = FmtEnd(Cur[1]) /\ fmt_chnk_end_ptr_f = FmtEnd(Cur[1])
  <2>1. Cur[2] # 8
    BY <1>4
  <2> QED
    BY <1>1, <2>1, WordClk DEF DataInv
<1>7. pst = Cur[2] - FmtEnd(Cur[1]) - 1 /\ pst \in 0 .. 3 /\ IdThenSize
  BY <1>1, <1>3, <1>4 DEF DataInv
<1>8. /\ FmtEnd(Cur[1])' = FmtEnd(Cur[1]) /\ DataStart(Cur[1])' = DataStart(Cur[1])
      /\ FileWords(Cur[1])' = FileWords(Cur[1]) /\ Files[Cur[1]]' = Files[Cur[1]]
  BY <1>5 DEF FmtEnd, DataStart, FileWords, DataWords
<1>9. ChunkEnds <=> pst = 3
  <2>1. ChunkEnds <=> Cur[2] % 32 = fmt_chnk_end_ptr_f + 4
    BY <1>1 DEF ChunkEnds, sram_rd_data_valid_ih
  <2>2. Cur[2] % 32 = Cur[2]
    BY <1>4
  <2> QED
    BY <1>3, <1>4, <1>6, <1>7, <2>1, <2>2
<1>10. CASE pst = 3
  <2>1. Cur[2] = FmtEnd(Cur[1]) + 4
    BY <1>3, <1>4, <1>7, <1>10
  <2>2. fsm'.status = "ACTIV" /\ fsm'.chunk = "PCM" /\ fsm'.field = "ID"
    BY <1>5, <1>9, <1>10, FsmWordClk
  <2>3. fsm.field = "SIZE" /\ Half(Cur) = 0 /\ pcm_data_size_f[1] = Files[Cur[1]].size
    BY <1>1, <1>2, <1>7, <1>10, <2>1, HalfFacts DEF IdThenSize, DataInv
  <2>4. pcm_data_size_f' = <<0, Files[Cur[1]].size>>
    BY <1>5, <2>3
  <2>5. PcmInv'
    BY <1>3, <1>5, <1>6, <1>8, <2>1, <2>2, <2>4 DEF PcmInv
  <2>6. ActivInv'
    BY <1>5, <2>2, <2>5 DEF ActivInv
  <2> QED
    BY <1>5, <2>2, <2>6 DEF ParseInv
<1>11. CASE pst # 3
  <2>1. /\ fsm'.status = "ACTIV" /\ fsm'.chunk = "DATA" /\ fsm'.field = NextField
        /\ pst' = IF pst < 12 THEN pst + 1 ELSE pst
    BY <1>5, <1>9, <1>11, FsmWordClk
  <2>2. pst < 12 /\ pst' = pst + 1 /\ pst \in 0 .. 2
    BY <1>7, <1>11, <2>1
  <2>3. ~rst_field_c
    BY <1>9, <1>11 DEF rst_field_c, Starts
  <2>4. IdThenSize'
    BY <1>7, <2>1, <2>2, <2>3, FieldStep
  <2>5. pst = 2 => fsm.field = "SIZE" /\ Half(Cur) = Files[Cur[1]].size
    <3>1. ASSUME pst = 2 PROVE Cur[2] = FmtEnd(Cur[1]) + 3
      BY <1>3, <1>4, <1>7, <3>1
    <3> QED
      BY <1>2, <1>7, <3>1, HalfFacts DEF IdThenSize
  <2>6. pst = 2 => pcm_data_size_f'[1] = Files[Cur[1]].size
    BY <1>5, <2>5
  <2>7. pst # 2 => pcm_data_size_f' = pcm_data_size_f
    BY <1>5, <1>7, <2>2 DEF IdThenSize
  <2>8. Quiet'
    BY <1>1, <1>3, <1>6, <2>6, <2>7 DEF Quiet
  <2>9. DataInv'
    BY <1>3, <1>4, <1>5, <1>6, <1>7, <1>8, <2>2, <2>4, <2>6 DEF DataInv
  <2>10. ActivInv'
    BY <1>5, <2>1, <2>8, <2>9 DEF ActivInv
  <2> QED
    BY <1>5, <2>1, <2>10 DEF ParseInv
<1> QED
  BY <1>10, <1>11

\* The PCM data: the flag for the last word rises one word early, the word with
\* the flag ends the file.
LEMMA PcmWordClk ==
    ASSUME TwoWords, TypeOK, StreamInv, StreamInv', ParseInv, AnyClk, rd_pipe[3], fsm.status = "ACTIV",
           DOMAIN hdr_ram = 0 .. 22, fsm.chunk = "PCM"
    PROVE  ParseInv'
<1>1. ActivInv /\ PcmInv /\ word_cntr_f = Cur[2] /\ Cur' = Succ(Cur)
  BY CurMoves DEF ParseInv, ActivInv
<1>2. /\ Cur[2] \in Nat /\ Cur \in Place /\ Cur[1] \in 1 .. Len(Files) /\ Cur[1] \in Nat
      /\ Cur[2] < FileWords(Cur[1])
  BY <1>1, FilesAssumption DEF ActivInv, Place
<1>3. /\ FmtEnd(Cur[1]) \in {17, 18} /\ DataStart(Cur[1]) = FmtEnd(Cur[1]) + 5
      /\ Files[Cur[1]].size \in Nat
      /\ DataWords(Cur[1]) \in Nat
      /\ FileWords(Cur[1]) \in Nat /\ FileWords(Cur[1]) = FmtEnd(Cur[1]) + 5 + DataWords(Cur[1])
  BY <1>2, FileFacts
<1>4. CASE last_word_f
  <2>1. Cur' = <<Cur[1] + 1, 0>>
    BY <1>1, <1>2, <1>4, SuccFacts DEF PcmInv
  <2>2. Cur'[1] = Cur[1] + 1 /\ Cur'[2] = 0
    BY <2>1
  <2>3. end_of_file_c /\ ~ChunkEnds
    BY <1>4 DEF end_of_file_c, ChunkEnds, sram_rd_data_valid_ih
  <2>4. fsm'.status = "IDLE" /\ fsm'.chunk = "WAVE"
    BY <2>3, ParserClk DEF FsmClk, NextStatus, NextChunk, Starts
  <2>5. word_cntr_f' = 0 /\ pcm_data_size_f'[1] >= 40 /\ ~last_word_f'
    BY <1>4, WordClk, JunkBig
  <2>6. OnTheWay' \in 0 .. 3
    <3>1. \A b : Bit(b) \in {0, 1}
      BY DEF Bit
    <3> QED
      BY <3>1 DEF OnTheWay
  <2>7. Cur'[1] # 1 /\ Cur'[2] + OnTheWay' <= 3
    <3>1. Cur[1] \in Nat /\ Cur[1] >= 1
      BY <1>2, FilesAssumption
    <3>2. Cur[1] + 1 # 1
      BY <3>1
    <3>3. \A n \in 0 .. 3 : 0 + n <= 3
      OBVIOUS
    <3>4. Cur'[2] + OnTheWay' <= 3
      BY <2>2, <2>6, <3>3, Zenon
    <3> QED
      BY <2>2, <3>2, <3>4, Zenon
  <2>8. IdleInv'
    BY <2>4, <2>5, <2>7 DEF IdleInv
  <2> QED
    BY <2>2, <2>4, <2>5, <2>8 DEF ParseInv
<1>5. CASE ~last_word_f
  <2>1. Cur[2] # FileWords(Cur[1]) - 1
    BY <1>1, <1>5 DEF PcmInv
  <2>2. Cur' = <<Cur[1], Cur[2] + 1>>
    BY <1>1, <1>2, <2>1, SuccFacts
  <2>3. Cur' \in Place /\ Cur'[1] = Cur[1] /\ Cur'[2] = Cur[2] + 1
    <3>1. <<Cur[1], Cur[2] + 1>> # EndOfStream
      BY <1>2 DEF EndOfStream
    <3>2. Cur' \in Place
      BY <1>1, <1>2, <2>2, <3>1, SuccFacts
    <3> QED
      BY <2>2, <3>2
  <2>4. HdrInv'
    BY <1>1, <2>2, HdrClk DEF PcmInv
  <2>5. /\ FmtEnd(Cur[1])' = FmtEnd(Cur[1]) /\ DataStart(Cur[1])' = DataStart(Cur[1])
        /\ FileWords(Cur[1])' = FileWords(Cur[1]) /\ Files[Cur[1]]' = Files[Cur[1]]
    BY <2>3 DEF FmtEnd, DataStart, FileWords, DataWords
  <2>6. /\ fsm'.status = "ACTIV" /\ fsm'.chunk = "PCM" /\ fsm'.field = "ID"
    <3>1. ~ChunkEnds
      BY DEF ChunkEnds
    <3> QED
      BY <1>5, <3>1, FsmWordClk
  <2>7. word_cntr_f' = Cur'[2] /\ pcm_data_size_f' = pcm_data_size_f /\ fmt_chnk_end_ptr_f' = fmt_chnk_end_ptr_f
    <3>1. Cur[2] # 8
      BY <1>1, <1>2, <1>3 DEF PcmInv
    <3>2. fsm.field # "SIZE"
      BY <1>1 DEF PcmInv
    <3> QED
      BY <1>5, <2>3, <3>1, <3>2, WordClk
  <2>8. last_word_f' <=> Cur'[2] = FileWords(Cur[1]) - 1
    <3>1. /\ pcm_data_size_f[1] = 0 /\ pcm_data_size_f[2] = Files[Cur[1]].size
          /\ fmt_chnk_end_ptr_f = FmtEnd(Cur[1])
      BY <1>1 DEF PcmInv
    <3>2. last_word_f' <=> Cur[2] = (Files[Cur[1]].size \div 2) + (Files[Cur[1]].size % 2) + FmtEnd(Cur[1]) + 3
      BY <1>5, <3>1, WordClk
    <3>3. (Files[Cur[1]].size \div 2) + (Files[Cur[1]].size % 2) = DataWords(Cur[1])
      BY <1>2, RoundedUp
    <3>4. last_word_f' <=> Cur[2] = DataWords(Cur[1]) + FmtEnd(Cur[1]) + 3
      BY <3>2, <3>3
    <3>5. Cur'[2] = FileWords(Cur[1]) - 1 <=> Cur[2] = DataWords(Cur[1]) + FmtEnd(Cur[1]) + 3
      <4>1. FileWords(Cur[1]) - 1 = (DataWords(Cur[1]) + FmtEnd(Cur[1]) + 3) + 1
        BY <1>3
      <4>2. DataWords(Cur[1]) + FmtEnd(Cur[1]) + 3 \in Nat /\ Cur[2] \in Nat
        BY <1>2, <1>3
      <4>3. Cur'[2] = Cur[2] + 1
        BY <2>3
      <4>4. \A a, b \in Nat : a + 1 = b + 1 <=> a = b
        OBVIOUS
      <4> QED
        BY <4>1, <4>2, <4>3, <4>4, Zenon
    <3> QED
      BY <3>4, <3>5
  <2>9. PcmInv'
    <3>1. Cur'[2] >= DataStart(Cur[1])
      BY <1>1, <1>2, <1>3, <2>3 DEF PcmInv
    <3> QED
      BY <1>1, <2>3, <2>5, <2>6, <2>7, <2>8, <3>1 DEF PcmInv
  <2>10. ActivInv'
    BY <2>3, <2>4, <2>6, <2>9 DEF ActivInv
  <2> QED
    BY <2>6, <2>7, <2>10 DEF ParseInv
<1> QED
  BY <1>4, <1>5

\* A clock keeps the place in the file, whatever the word on the bus.
LEMMA ParseClk ==
    ASSUME TwoWords, TypeOK, StreamInv, StreamInv', ParseInv, AnyClk, DOMAIN hdr_ram = 0 .. 22
    PROVE  ParseInv'
<1>1. fsm.status \in {"IDLE", "ACTIV"} /\ fsm.chunk \in {"WAVE", "FMT", "DATA", "PCM"}
  BY Typed
<1> QED
  BY <1>1, NoWordClk, IdleWordClk, WaveWordClk, FmtWordClk, DataWordClk, PcmWordClk


\* Registers keep their types in a clock.
LEMMA TypeClk ==
    ASSUME TwoWords, TypeOK, StreamInv, StreamInv', ParseInv, RoomInv, AnyClk, DOMAIN hdr_ram = 0 .. 22
    PROVE  TypeOK' /\ DOMAIN hdr_ram' = 0 .. 22
<1>1. PICK im, mm \in BOOLEAN : Clk(im, mm)
  BY DEF AnyClk
<1>2. FsmClk /\ CountClk /\ HeaderClk /\ PcmClk
  BY ParserClk
<1>3. avail' \in 0 .. MaxAvail
  BY <1>1, FlagsAssumption DEF Clk, TypeOK
<1>4. rd_pipe' \in BOOLEAN \X BOOLEAN \X BOOLEAN
  <2>1. rd_pipe[1] \in BOOLEAN /\ rd_pipe[2] \in BOOLEAN
    BY Typed
  <2>2. (im /\ sram_rd_en_oh /\ avail > 0) \in BOOLEAN
    BY DEF sram_rd_en_oh
  <2>3. rd_pipe' = <<im /\ sram_rd_en_oh /\ avail > 0, rd_pipe[1], rd_pipe[2]>>
    BY <1>1 DEF Clk
  <2> QED
    BY <2>1, <2>2, <2>3
<1>5. pos'[1] \in 1 .. (Len(Files) + 1)
  BY FilesAssumption DEF StreamInv, Place, EndOfStream
<1>6. fsm' \in [status : {"IDLE", "ACTIV"}, chunk : {"WAVE", "FMT", "DATA", "PCM"},
                field : {"ID", "SIZE", "FMT", "NCHNNL", "FS", "BRATE", "BLKA", "BPS"}]
  <2>1. NextStatus \in {"IDLE", "ACTIV"}
    BY Typed DEF NextStatus
  <2>2. NextChunk \in {"WAVE", "FMT", "DATA", "PCM"}
    BY Typed DEF NextChunk, ChunkEnds
  <2>3. NextField \in {"ID", "SIZE", "FMT", "NCHNNL", "FS", "BRATE", "BLKA", "BPS"}
    <3>1. fsm.field \in {"ID", "SIZE", "FMT", "NCHNNL", "FS", "BRATE", "BLKA", "BPS"}
      BY DEF TypeOK
    <3> QED
      BY <3>1 DEF NextField
  <2> QED
    BY <1>2, <2>1, <2>2, <2>3 DEF FsmClk
<1>7. pst' \in 0 .. 12
  BY <1>2, Typed DEF FsmClk
<1>8. /\ word_cntr_f' \in Nat /\ fmt_chnk_end_ptr_f' \in {0, 17, 18} /\ last_word_f' \in BOOLEAN
  <2>1. word_cntr_f' \in Nat
    BY <1>2 DEF CountClk, NextWordCntr, TypeOK
  <2>2. fmt_chnk_end_ptr_f' \in {0, 17, 18}
    BY <1>2, Typed DEF CountClk
  <2>3. LastButOne \in BOOLEAN /\ (~end_of_file_c) \in BOOLEAN
    BY DEF LastButOne, end_of_file_c
  <2>4. last_word_f' \in BOOLEAN
    BY <1>2, <2>3 DEF CountClk
  <2> QED
    BY <2>1, <2>2, <2>4
<1>9. pcm_data_size_f' \in (0 .. Junk) \X (0 .. Junk)
  <2>1. pcm_data_size_f \in (0 .. Junk) \X (0 .. Junk) /\ <<Junk, Junk>> \in (0 .. Junk) \X (0 .. Junk)
    BY JunkBig DEF TypeOK
  <2>2. ASSUME rd_pipe[3] PROVE Half(rd_data) \in 0 .. Junk
    <3>1. rd_data \in Place
      BY <2>2 DEF StreamInv
    <3> QED
      BY <3>1, HalfFacts
  <2>3. ASSUME rd_pipe[3] PROVE <<Half(rd_data), pcm_data_size_f[1]>> \in (0 .. Junk) \X (0 .. Junk)
    BY <2>1, <2>2, <2>3
  <2> QED
    BY <1>2, <2>1, <2>3 DEF CountClk, sram_rd_data_valid_ih
<1>10. tggl_f' \in 0 .. 3
  BY <1>2 DEF PcmClk, NextTggl, TypeOK
<1>11. used' \in Nat
  BY RoomClk
<1>12. DOMAIN hdr_ram' = 0 .. 22
  BY <1>2 DEF HeaderClk
<1> QED
  BY <1>3, <1>4, <1>5, <1>6, <1>7, <1>8, <1>9, <1>10, <1>11, <1>12 DEF TypeOK

-----------------------------------------------------------------------------
(* The steps between two clocks, and the theorems                           *)

\* Steps that leave the parser alone.
LEMMA ParseKept ==
    ASSUME ParseInv, UNCHANGED <<rd_pipe, pos, rd_data, parseVars, hdr_ram>>
    PROVE  ParseInv'
<1>1. Cur' = Cur /\ OnTheWay' = OnTheWay
  BY DEF Cur, OnTheWay
<1>2. /\ fsm' = fsm /\ pst' = pst /\ word_cntr_f' = word_cntr_f /\ pcm_data_size_f' = pcm_data_size_f
      /\ last_word_f' = last_word_f /\ fmt_chnk_end_ptr_f' = fmt_chnk_end_ptr_f /\ hdr_ram' = hdr_ram
  BY DEF parseVars
<1>3. (IdleInv => IdleInv') /\ (WaveInv => WaveInv') /\ (PcmInv => PcmInv')
  BY <1>1, <1>2 DEF IdleInv, WaveInv, PcmInv
<1>4. (Quiet => Quiet') /\ (FmtInv => FmtInv') /\ (DataInv => DataInv') /\ (HdrInv => HdrInv')
  BY <1>1, <1>2 DEF Quiet, FmtInv, DataInv, IdThenSize, HdrInv
<1> QED
  BY <1>1, <1>2, <1>3, <1>4 DEF ParseInv, ActivInv

\* The registers after a reset: all but the header RAM.
Cleared ==
    /\ avail = 0 /\ rd_pipe = <<FALSE, FALSE, FALSE>> /\ pos = <<1, 0>> /\ rd_data = None
    /\ fsm = [status |-> "IDLE", chunk |-> "WAVE", field |-> "ID"]
    /\ pst = 12 /\ word_cntr_f = 0 /\ pcm_data_size_f = <<Junk, Junk>>
    /\ last_word_f = FALSE /\ fmt_chnk_end_ptr_f = 0 /\ tggl_f = 0
    /\ pcm = [wr_en |-> FALSE, l |-> Zero, r |-> Zero] /\ used = 0
    /\ DOMAIN hdr_ram = 0 .. 22

\* A cleared parser is before the first word of the stream.
LEMMA ParserCleared == ASSUME TwoWords PROVE Cleared => ParserIInv
<1> SUFFICES ASSUME Cleared PROVE ParserIInv
  OBVIOUS
<1>1. Len(Files) \in Nat \ {0}
  BY FilesAssumption
<1>2. pos \in Place
  <2>1. FileWords(1) \in Nat /\ FileWords(1) >= 24
    BY <1>1, FileFacts
  <2>2. <<1, 0>> \in (1 .. Len(Files)) \X Nat
    BY <1>1
  <2> QED
    BY <2>1, <2>2 DEF Cleared, Place
<1>3. Cur = <<1, 0>> /\ OnTheWay = 0 /\ InFlight = 0
  BY DEF Cleared, Cur, OnTheWay, Bit, InFlight
<1>4. TypeOK
  <2>1. pcm_data_size_f \in (0 .. Junk) \X (0 .. Junk)
    BY JunkBig DEF Cleared
  <2>2. pos[1] \in 1 .. (Len(Files) + 1) /\ avail \in 0 .. MaxAvail
    BY <1>1, FlagsAssumption DEF Cleared
  <2>3. rd_pipe \in BOOLEAN \X BOOLEAN \X BOOLEAN
    BY DEF Cleared
  <2>4. fsm \in [status : {"IDLE", "ACTIV"}, chunk : {"WAVE", "FMT", "DATA", "PCM"},
                field : {"ID", "SIZE", "FMT", "NCHNNL", "FS", "BRATE", "BLKA", "BPS"}]
    BY DEF Cleared
  <2>5. /\ pst \in 0 .. 12 /\ word_cntr_f \in Nat /\ fmt_chnk_end_ptr_f \in {0, 17, 18}
        /\ tggl_f \in 0 .. 3 /\ used \in Nat
    BY DEF Cleared
  <2>6. last_word_f \in BOOLEAN
    BY DEF Cleared
  <2> QED
    BY <2>1, <2>2, <2>3, <2>4, <2>5, <2>6 DEF TypeOK
<1>5. StreamInv
  <2>1. WordsBefore[1] = 0 /\ WordsBefore[Len(Files) + 1] \in Nat
    BY <1>1, WordsBeforeRec
  <2> QED
    BY <1>2, <1>3, <2>1 DEF Cleared, StreamInv
<1>6. ParseInv
  BY <1>3, JunkBig DEF Cleared, ParseInv, IdleInv
<1>7. RoomInv
  BY <1>3, PcmMargin DEF Cleared, RoomInv, Bit
<1> QED
  BY <1>4, <1>5, <1>6, <1>7 DEF ParserIInv, Cleared


\* Every step keeps the inductive invariant.
LEMMA ParserStep ==
    ASSUME TwoWords, ParserIInv, [Next]_vars
    PROVE  ParserIInv'
<1> USE DEF ParserIInv
<1>1. CASE AnyClk
  <2>1. StreamInv'
    BY <1>1, StreamClk
  <2>2. ParseInv' /\ RoomInv' /\ TypeOK' /\ DOMAIN hdr_ram' = 0 .. 22
    BY <1>1, <2>1, ParseClk, RoomClk, TypeClk
  <2> QED
    BY <2>1, <2>2
<1>2. CASE Fill
  <2>1. /\ UNCHANGED <<rd_pipe, pos, rd_data, parseVars, hdr_ram, used>>
        /\ avail < MaxAvail /\ avail' = avail + 1
        /\ WordsBefore[pos[1]] + pos[2] + InFlight < WordsBefore[Len(Files) + 1]
    BY <1>2 DEF Fill
  <2>2. ParseInv'
    BY <2>1, ParseKept
  <2>3. StreamInv'
    <3>1. pos[1] \in 1 .. (Len(Files) + 1) /\ pos[2] \in Nat
      BY FilesAssumption DEF StreamInv, Place, EndOfStream
    <3>2. WordsBefore[pos[1]] \in Nat /\ WordsBefore[Len(Files) + 1] \in Nat
      BY <3>1, WordsBeforeRec, FilesAssumption
    <3>3. InFlight \in Nat /\ InFlight' = InFlight + 1
      <4>1. avail \in Nat /\ \A b : Bit(b) \in {0, 1}
        BY FlagsAssumption DEF TypeOK, Bit
      <4> QED
        BY <2>1, <4>1 DEF InFlight
    <3>4. WordsBefore[pos'[1]] + pos'[2] + InFlight' <= WordsBefore[Len(Files) + 1]
      BY <2>1, <3>1, <3>2, <3>3
    <3> QED
      BY <2>1, <3>4 DEF StreamInv, EndOfStream
  <2>4. RoomInv' /\ TypeOK'
    BY <2>1, FlagsAssumption DEF RoomInv, OnTheWay, TypeOK, parseVars
  <2> QED
    BY <2>1, <2>2, <2>3, <2>4
<1>3. CASE DacTake
  <2>1. /\ UNCHANGED <<avail, rd_pipe, pos, rd_data, parseVars, hdr_ram>>
        /\ used > 0 /\ used' = used - 1
    BY <1>3 DEF DacTake
  <2>2. ParseInv'
    BY <2>1, ParseKept
  <2>3. StreamInv'
    BY <2>1 DEF StreamInv, EndOfStream, InFlight
  <2>4. TypeOK'
    BY <2>1 DEF TypeOK, parseVars
  <2>5. RoomInv'
    <3>1. \A b : Bit(b) \in {0, 1}
      BY DEF Bit
    <3>2. OnTheWay' = OnTheWay /\ OnTheWay \in Nat /\ Bit(pcm.wr_en)' = Bit(pcm.wr_en)
      BY <2>1, <3>1 DEF OnTheWay, parseVars
    <3>3. used \in Nat /\ Afull \in Nat /\ used + Bit(pcm.wr_en) + OnTheWay <= Afull + 4
      BY PcmMargin DEF RoomInv, TypeOK
    <3>4. used' + Bit(pcm.wr_en) + OnTheWay <= Afull + 4
      BY <2>1, <3>1, <3>2, <3>3
    <3> QED
      BY <3>2, <3>4 DEF RoomInv
  <2> QED
    BY <2>1, <2>2, <2>3, <2>4, <2>5
<1>4. ASSUME NEW en \in BOOLEAN, HostEnable(en) PROVE ParserIInv'
  <2>1. UNCHANGED <<avail, rd_pipe, pos, rd_data, parseVars, hdr_ram, used>>
    BY <1>4 DEF HostEnable
  <2>2. ParseInv'
    BY <2>1, ParseKept
  <2>3. StreamInv' /\ TypeOK' /\ RoomInv'
    BY <2>1 DEF StreamInv, EndOfStream, InFlight, TypeOK, parseVars, RoomInv, OnTheWay
  <2> QED
    BY <2>1, <2>2, <2>3
<1>5. CASE HostReset
  <2>1. Cleared'
    BY <1>5 DEF HostReset, Cleared
  <2>2. Cleared' => ParserIInv'
    BY ParserCleared, PTL
  <2> QED
    BY <2>1, <2>2
<1>6. CASE UNCHANGED vars
  <2>1. UNCHANGED <<avail, rd_pipe, pos, rd_data, parseVars, hdr_ram, used>>
    BY <1>6 DEF vars
  <2>2. ParseInv'
    BY <2>1, ParseKept
  <2>3. StreamInv' /\ TypeOK' /\ RoomInv'
    BY <2>1 DEF StreamInv, EndOfStream, InFlight, TypeOK, parseVars, RoomInv, OnTheWay
  <2> QED
    BY <2>1, <2>2, <2>3
<1> QED
  BY <1>1, <1>2, <1>3, <1>4, <1>5, <1>6 DEF Next, AnyClk

\* The parser's invariant says what the host and the PCM FIFO rely on.
LEMMA ParserImplied == ASSUME TwoWords, ParserIInv PROVE ParserInv
<1> USE DEF ParserIInv
<1>1. EofOnTime
  <2>1. CASE ~rd_pipe[3]
    BY <2>1 DEF EofOnTime, end_of_file_c, sram_rd_data_valid_ih
  <2>2. CASE rd_pipe[3]
    <3>1. rd_data # None /\ rd_data \in Place /\ Cur = rd_data
      BY <2>2 DEF StreamInv, Cur
    <3>2. Cur[1] \in 1 .. Len(Files) /\ Cur[2] \in Nat
      BY <3>1 DEF Place
    <3>3. FileWords(Cur[1]) \in Nat /\ FileWords(Cur[1]) >= DataStart(Cur[1]) + 2 /\ DataStart(Cur[1]) \in {22, 23}
          /\ FmtEnd(Cur[1]) \in {17, 18}
      BY <3>2, FileFacts
    <3>4. last_word_f <=> Cur[2] = FileWords(Cur[1]) - 1
      <4>1. CASE fsm.status = "IDLE"
        <5>1. ~last_word_f /\ Cur[2] + OnTheWay <= 3 /\ OnTheWay \in Nat
          <6>1. \A b : Bit(b) \in {0, 1}
            BY DEF Bit
          <6> QED
            BY <4>1, <6>1 DEF ParseInv, IdleInv, OnTheWay
        <5> QED
          BY <3>2, <3>3, <5>1
      <4>2. CASE fsm.status = "ACTIV" /\ fsm.chunk # "PCM"
        <5>1. ~last_word_f /\ (Cur[2] <= 5 \/ Cur[2] <= FmtEnd(Cur[1]) \/ Cur[2] < DataStart(Cur[1]))
          BY <4>2, Typed DEF ParseInv, ActivInv, WaveInv, FmtInv, DataInv
        <5> QED
          BY <3>2, <3>3, <5>1
      <4>3. CASE fsm.status = "ACTIV" /\ fsm.chunk = "PCM"
        BY <4>3 DEF ParseInv, ActivInv, PcmInv
      <4> QED
        BY <4>1, <4>2, <4>3, Typed
    <3> QED
      BY <2>2, <3>1, <3>4 DEF EofOnTime, end_of_file_c, sram_rd_data_valid_ih
  <2> QED
    BY <2>1, <2>2, Typed
<1>2. PcmFits
  <2>1. \A b : Bit(b) \in {0, 1}
    BY DEF Bit
  <2> QED
    BY <2>1, PcmMargin DEF PcmFits, RoomInv, OnTheWay, TypeOK
<1>3. HeaderKept
  <2> SUFFICES ASSUME fsm.status = "ACTIV", fsm.chunk = "PCM", rd_data # None,
                      NEW i \in (IF rd_data[1] = 1 THEN 0 ELSE 3) .. (DataStart(rd_data[1]) - 1)
               PROVE  hdr_ram[i] = <<rd_data[1], i>>
    BY DEF HeaderKept
  <2>1. ActivInv /\ PcmInv /\ HdrInv
    BY DEF ParseInv, ActivInv
  <2>2. Cur \in Place /\ Cur[1] \in 1 .. Len(Files) /\ Cur[2] \in Nat
    BY <2>1 DEF ActivInv, Place
  <2>3. DataStart(Cur[1]) \in {22, 23} /\ Cur[2] >= DataStart(Cur[1])
    BY <2>1, <2>2, FileFacts DEF PcmInv
  <2>4. rd_data[1] = Cur[1]
    <3>1. CASE rd_pipe[3]
      BY <3>1 DEF Cur
    <3>2. CASE ~rd_pipe[3]
      <4>1. rd_data \in Place /\ Succ(rd_data) = Cur
        BY <3>2 DEF StreamInv, Cur
      <4>2. Cur[2] # 0
        BY <2>2, <2>3
      <4>3. CASE rd_data[2] = FileWords(rd_data[1]) - 1
        <5>1. Cur = <<rd_data[1] + 1, 0>>
          BY <4>1, <4>3, SuccFacts
        <5> QED
          BY <4>2, <5>1
      <4>4. CASE rd_data[2] # FileWords(rd_data[1]) - 1
        <5>1. Cur = <<rd_data[1], rd_data[2] + 1>>
          BY <4>1, <4>4, SuccFacts
        <5> QED
          BY <5>1
      <4> QED
        BY <4>3, <4>4
    <3> QED
      BY <3>1, <3>2
  <2>5. i \in FirstKept(Cur[1]) .. (DataStart(Cur[1]) - 1)
    BY <2>4 DEF FirstKept
  <2>6. i < Cur[2]
    BY <2>2, <2>3, <2>5 DEF FirstKept
  <2> QED
    BY <2>1, <2>4, <2>5, <2>6 DEF HdrInv
<1> QED
  BY <1>1, <1>2, <1>3 DEF ParserInv

\* In every clock, for every stream of files with two words of data or more: the
\* end of each file is found on its last word, the reads on their way fit into
\* the PCM FIFO, and the header RAM holds the header of the file being played
\* (wav_prsr, acortex_top).
THEOREM ParserCorrect == ASSUME TwoWords PROVE Spec => []ParserInv
<1>1. Init => ParserIInv
  BY ParserCleared DEF Init, Cleared
<1>2. ParserIInv /\ [Next]_vars => ParserIInv'
  BY ParserStep
<1>3. ParserIInv => ParserInv
  BY ParserImplied
<1> QED
  BY <1>1, <1>2, <1>3, PTL DEF Spec

-----------------------------------------------------------------------------
(* The frames: what the proofs assume of the stream and of the host         *)

\* Where the toggle tggl_f stands when a file begins: it counts the words of the files
\* with more than one word a frame, is two bits wide and is not cleared in between.
TogglesOf(tg) ==
    /\ tg \in [1 .. (Len(Files) + 1) -> 0 .. 3] /\ tg[1] = 0
    /\ \A f \in 1 .. Len(Files) :
          tg[f + 1] = (tg[f] + (IF FrameWords(f) > 1 THEN DataWords(f) ELSE 0)) % 4

\* No file begins while the toggle is in the middle of one of its frames.
InStep(tg) == TogglesOf(tg) /\ \A f \in 1 .. Len(Files) : tg[f] % FrameWords(f) = 0
Aligned == \E tg \in [1 .. (Len(Files) + 1) -> 0 .. 3] : InStep(tg)

\* The host does not read the SRAM while a file of 32-bit samples is played: its word
\* would pass through the channel registers, which follow the bus in every clock.
NarrowReads == \A f \in MmFiles : ~Files[f].wide

-----------------------------------------------------------------------------
(* The frames: the inductive invariant                                      *)

\* Words of data taken of the file, and the frames they complete.
Passed == IF fsm.chunk = "PCM" THEN Cur[2] - DataStart(Cur[1]) ELSE 0
Complete == IF fsm.chunk = "PCM" THEN Passed \div FrameWords(Cur[1]) ELSE 0

\* Fields of the "fmt " chunk by their place in it.
FmtFields ==
    /\ pst <= 1 => fsm.field = "ID"
    /\ pst \in {2, 3} => fsm.field = "SIZE"
    /\ pst = 4 => fsm.field = "FMT"
    /\ pst = 5 => fsm.field = "NCHNNL"
    /\ pst \in {6, 7} => fsm.field = "FS"
    /\ pst \in {8, 9} => fsm.field = "BRATE"
    /\ pst = 10 => fsm.field = "BLKA"
    /\ pst = 11 => fsm.field = "BPS"
    /\ pst = 12 => fsm.field = "ID"

\* The format registers hold what the header said, from its place on.
DualKnown == num_chnnls_f = Files[Cur[1]].dual
WideKnown == bps_f = Files[Cur[1]].wide
FormatInv ==
    /\ fsm.chunk # "FMT" => fsm.field \in {"ID", "SIZE", "FMT"}
    /\ fsm.chunk = "FMT" => /\ FmtFields
                            /\ pst > 5 => DualKnown
                            /\ pst > 11 => WideKnown
    /\ fsm.chunk \in {"DATA", "PCM"} => DualKnown /\ WideKnown

\* The toggle counts the words of the data.
ToggleInv(tg) ==
    /\ fsm.chunk # "PCM" => tggl_f = tg[Cur[1]]
    /\ fsm.chunk = "PCM" => tggl_f = (tg[Cur[1]] + (IF FrameWords(Cur[1]) > 1 THEN Passed ELSE 0)) % 4

\* What the channel registers hold of a frame that is not complete, with n words of the
\* data of file f taken and word i the next one.
WideHalf(f, i, n) ==
    /\ n > 0 /\ ~rd_pipe[3] => rd_data = <<f, i - 1>>
    /\ n % 2 = 1 /\ ~(Files[f].dual /\ n % 4 = 3) => pcm.l[2] = <<f, i - 1>>
    /\ n % 2 = 1 /\ Files[f].dual /\ n % 4 = 3 => pcm.r[2] = <<f, i - 1>>
    /\ n % 4 = 2 /\ Files[f].dual => pcm.l = <<<<f, i - 2>>, <<f, i - 1>>>>
    /\ n % 4 = 3 /\ Files[f].dual => pcm.l = <<<<f, i - 3>>, <<f, i - 2>>>>
ChannelInv ==
    fsm.chunk = "PCM" =>
        /\ Files[Cur[1]].wide => WideHalf(Cur[1], Cur[2], Passed)
        /\ ~Files[Cur[1]].wide /\ Files[Cur[1]].dual /\ Passed % 2 = 1
              => pcm.l = <<None, <<Cur[1], Cur[2] - 1>>>>

\* The frames of all files, and those that have been made.
AllFrames == {Frame(f, k) : f \in 1 .. Len(Files), k \in Nat}
Whole == FramesUpTo[Len(Files)]
Out == IF pcm.wr_en THEN Append(sent, <<pcm.l, pcm.r>>) ELSE sent

OutInv ==
    /\ sent \in Seq(AllFrames) /\ pcm.wr_en \in BOOLEAN
    /\ pcm.wr_en => <<pcm.l, pcm.r>> \in AllFrames
    /\ Len(Out) = Len(FramesUpTo[Cur[1] - 1]) + Complete
    /\ \A i \in 1 .. Len(Out) : Out[i] = Whole[i]

FrameInv(tg) == FormatInv /\ ToggleInv(tg) /\ ChannelInv /\ OutInv

-----------------------------------------------------------------------------
(* The frames of the files                                                  *)

\* The format of a file and the words of one of its frames.
LEMMA FormatFacts ==
    ASSUME TwoWords, NEW f \in 1 .. Len(Files)
    PROVE  /\ Files[f].dual \in BOOLEAN /\ Files[f].wide \in BOOLEAN
           /\ FrameWords(f) = IF Files[f].dual THEN IF Files[f].wide THEN 4 ELSE 2
                              ELSE IF Files[f].wide THEN 2 ELSE 1
           /\ FrameWords(f) \in {1, 2, 4}
           /\ DataWords(f) \div FrameWords(f) \in Nat
<1>1. Files[f] \in File
  BY FilesAssumption
<1>2. Files[f].dual \in BOOLEAN /\ Files[f].wide \in BOOLEAN
  BY <1>1 DEF File
<1>3. FrameWords(f) = IF Files[f].dual THEN IF Files[f].wide THEN 4 ELSE 2
                      ELSE IF Files[f].wide THEN 2 ELSE 1
  BY <1>2 DEF FrameWords
<1>4. FrameWords(f) \in {1, 2, 4}
  BY <1>3
<1>5. DataWords(f) \in Nat
  BY FileFacts
<1>6. \A d \in Nat : d \div 1 \in Nat /\ d \div 2 \in Nat /\ d \div 4 \in Nat
  OBVIOUS
<1>7. DataWords(f) \div FrameWords(f) \in Nat
  BY <1>4, <1>5, <1>6
<1> QED
  BY <1>2, <1>3, <1>4, <1>7

\* The frames of one file.
LEMMA FramesOfFacts ==
    ASSUME TwoWords, NEW f \in 1 .. Len(Files)
    PROVE  /\ FramesOf(f) \in Seq(AllFrames)
           /\ Len(FramesOf(f)) = DataWords(f) \div FrameWords(f)
           /\ \A k \in 1 .. (DataWords(f) \div FrameWords(f)) : FramesOf(f)[k] = Frame(f, k - 1)
<1> DEFINE n == DataWords(f) \div FrameWords(f)
<1>1. n \in Nat
  BY FormatFacts
<1> HIDE DEF n
<1>2. FramesOf(f) = [k \in 1 .. n |-> Frame(f, k - 1)]
  BY DEF FramesOf, n
<1>3. \A k \in 1 .. n : Frame(f, k - 1) \in AllFrames
  BY <1>1 DEF AllFrames
<1>4. FramesOf(f) \in [1 .. n -> AllFrames]
  BY <1>2, <1>3
<1>5. FramesOf(f) \in Seq(AllFrames) /\ Len(FramesOf(f)) = n
  BY <1>1, <1>4
<1> QED
  BY <1>2, <1>5 DEF n

\* The recursion of FramesUpTo does define a function.
LEMMA FramesRec ==
    ASSUME TwoWords
    PROVE  /\ FramesUpTo[0] = <<>>
           /\ \A f \in 0 .. Len(Files) : FramesUpTo[f] \in Seq(AllFrames)
           /\ \A f \in 1 .. Len(Files) : FramesUpTo[f] = FramesUpTo[f - 1] \o FramesOf(f)
<1> DEFINE N == Len(Files)
           Rec(g, n) == g = [f \in 0 .. n |-> IF f = 0 THEN <<>> ELSE g[f - 1] \o FramesOf(f)]
<1>1. N \in Nat
  BY FilesAssumption
<1> HIDE DEF N
<1>2. \A n \in 0 .. N : \E g : Rec(g, n)
  <2> DEFINE T == {n \in 0 .. N : ~ \E g : Rec(g, n)}
  <2> SUFFICES ASSUME T # {} PROVE FALSE
    OBVIOUS
  <2>0. T \in SUBSET Nat
    BY <1>1
  <2>1. PICK n \in T : \A m \in T : n <= m
    BY <2>0, LeastNat
  <2>2. n # 0
    <3>1. ASSUME n = 0 PROVE Rec([f \in 0 .. 0 |-> <<>>], n)
      BY <3>1
    <3> QED
      BY <2>1, <3>1
  <2>3. n \in 0 .. N /\ n - 1 \in 0 .. N /\ n - 1 \notin T
    <3>1. n \in 0 .. N
      BY Zenon
    <3> HIDE DEF T
    <3> QED
      BY <1>1, <2>1, <2>2, <3>1
  <2>4. PICK g : Rec(g, n - 1)
    BY <2>3, Zenon
  <2> DEFINE h == [f \in 0 .. n |-> IF f = 0 THEN <<>> ELSE g[f - 1] \o FramesOf(f)]
  <2>5. \A f \in 0 .. (n - 1) : h[f] = g[f]
    <3>1. \A f \in 0 .. (n - 1) : g[f] = IF f = 0 THEN <<>> ELSE g[f - 1] \o FramesOf(f)
      BY <2>4, Zenon
    <3>2. \A f \in 0 .. (n - 1) : f \in 0 .. n
      BY <1>1, <2>3
    <3>3. \A f \in 0 .. n : h[f] = IF f = 0 THEN <<>> ELSE g[f - 1] \o FramesOf(f)
      BY Zenon
    <3> QED
      BY <3>1, <3>2, <3>3, Zenon
  <2>6. Rec(h, n)
    <3>1. \A f \in 1 .. n : h[f - 1] = g[f - 1]
      <4> HIDE DEF h
      <4> QED
        BY <2>3, <2>5
    <3>2. h = [f \in 0 .. n |-> IF f = 0 THEN <<>> ELSE h[f - 1] \o FramesOf(f)]
      <4>1. \A f \in 0 .. n : (IF f = 0 THEN <<>> ELSE g[f - 1] \o FramesOf(f))
                              = (IF f = 0 THEN <<>> ELSE h[f - 1] \o FramesOf(f))
        <5> HIDE DEF h
        <5> QED
          BY <2>3, <3>1
      <4> HIDE DEF h
      <4>2. h = [f \in 0 .. n |-> IF f = 0 THEN <<>> ELSE g[f - 1] \o FramesOf(f)]
        BY DEF h
      <4> QED
        BY <4>1, <4>2
    <3> QED
      BY <3>2
  <2> QED
    BY <2>1, <2>6
<1>3. Rec(FramesUpTo, N)
  <2>0. N \in 0 .. N
    BY <1>1
  <2>1. PICK g : Rec(g, N)
    BY <1>2, <2>0, Zenon
  <2> QED
    BY <2>1, Zenon DEF FramesUpTo, N
<1>4. \A f \in 1 .. N : FramesUpTo[f] = FramesUpTo[f - 1] \o FramesOf(f)
  <2>1. \A f \in 1 .. N : f \in 0 .. N /\ f # 0
    BY <1>1
  <2> QED
    BY <1>3, <2>1, Zenon
<1>5. FramesUpTo[0] = <<>>
  <2>1. 0 \in 0 .. N
    BY <1>1
  <2> QED
    BY <1>3, <2>1, Zenon
<1>6. \A f \in 0 .. N : FramesUpTo[f] \in Seq(AllFrames)
  <2> DEFINE T == {n \in 0 .. N : FramesUpTo[n] \notin Seq(AllFrames)}
  <2> SUFFICES ASSUME T # {} PROVE FALSE
    OBVIOUS
  <2>0. T \in SUBSET Nat
    BY <1>1
  <2>1. PICK n \in T : \A m \in T : n <= m
    BY <2>0, LeastNat
  <2>2. n # 0
    <3>1. <<>> \in Seq(AllFrames)
      OBVIOUS
    <3> QED
      BY <1>5, <2>1, <3>1, Zenon
  <2>3. n \in 1 .. N /\ n - 1 \in 0 .. N /\ n - 1 \notin T
    BY <1>1, <2>1, <2>2
  <2>4. FramesUpTo[n - 1] \in Seq(AllFrames) /\ FramesOf(n) \in Seq(AllFrames)
    BY <2>3, FramesOfFacts DEF N
  <2>5. FramesUpTo[n] \in Seq(AllFrames)
    BY <1>4, <2>3, <2>4, ConcatProperties
  <2> QED
    BY <2>1, <2>5
<1> QED
  BY <1>4, <1>5, <1>6 DEF N

\* Frames of a file follow those of the files before it.
LEMMA UpToFacts ==
    ASSUME TwoWords, NEW f \in 1 .. Len(Files)
    PROVE  /\ Len(FramesUpTo[f - 1]) \in Nat
           /\ Len(FramesUpTo[f]) = Len(FramesUpTo[f - 1]) + (DataWords(f) \div FrameWords(f))
           /\ \A i \in 1 .. Len(FramesUpTo[f - 1]) : FramesUpTo[f][i] = FramesUpTo[f - 1][i]
           /\ \A k \in 0 .. ((DataWords(f) \div FrameWords(f)) - 1) :
                 FramesUpTo[f][Len(FramesUpTo[f - 1]) + k + 1] = Frame(f, k)
<1> DEFINE a == FramesUpTo[f - 1]
           b == FramesOf(f)
           n == DataWords(f) \div FrameWords(f)
<1>1. f - 1 \in 0 .. Len(Files)
  BY FilesAssumption
<1>2. a \in Seq(AllFrames) /\ FramesUpTo[f] = a \o b
  BY <1>1, FramesRec
<1>3. b \in Seq(AllFrames) /\ Len(b) = n /\ (\A k \in 1 .. n : b[k] = Frame(f, k - 1)) /\ n \in Nat
  BY FramesOfFacts, FormatFacts
<1> HIDE DEF a, b, n
<1>4. /\ Len(a \o b) = Len(a) + n /\ Len(a) \in Nat
      /\ \A i \in 1 .. Len(a) + n : (a \o b)[i] = IF i <= Len(a) THEN a[i] ELSE b[i - Len(a)]
  BY <1>2, <1>3, ConcatProperties, LenProperties
<1>5. \A i \in 1 .. Len(a) : (a \o b)[i] = a[i]
  BY <1>3, <1>4
<1>6. ASSUME NEW k \in 0 .. (n - 1) PROVE (a \o b)[Len(a) + k + 1] = Frame(f, k)
  <2>1. /\ Len(a) + k + 1 \in 1 .. Len(a) + n /\ ~(Len(a) + k + 1 <= Len(a))
        /\ (Len(a) + k + 1) - Len(a) = k + 1 /\ k + 1 \in 1 .. n /\ (k + 1) - 1 = k
    BY <1>3, <1>4
  <2>2. (a \o b)[Len(a) + k + 1] = b[k + 1]
    BY <1>4, <2>1
  <2>3. b[k + 1] = Frame(f, k)
    BY <1>3, <2>1
  <2> QED
    BY <2>2, <2>3
<1> QED
  BY <1>2, <1>4, <1>5, <1>6 DEF a, n

\* The frames of the first files are the first frames of all.
LEMMA UpToPrefix ==
    ASSUME TwoWords
    PROVE  \A f \in 0 .. Len(Files) :
              /\ Len(FramesUpTo[f]) \in Nat /\ Len(FramesUpTo[f]) <= Len(Whole) /\ Len(Whole) \in Nat
              /\ \A i \in 1 .. Len(FramesUpTo[f]) : FramesUpTo[f][i] = Whole[i]
<1> DEFINE N == Len(Files)
           P(f) == /\ Len(FramesUpTo[f]) <= Len(Whole)
                   /\ \A i \in 1 .. Len(FramesUpTo[f]) : FramesUpTo[f][i] = Whole[i]
           T == {d \in 0 .. N : ~P(N - d)}
<1>1. N \in Nat /\ \A f \in 0 .. N : Len(FramesUpTo[f]) \in Nat
  BY FilesAssumption, FramesRec, LenProperties
<1>2. Whole = FramesUpTo[N] /\ Len(Whole) \in Nat
  BY <1>1 DEF Whole
<1>3. T = {}
  <2>0. T \in SUBSET Nat
    BY <1>1
  <2> HIDE DEF P
  <2> SUFFICES ASSUME T # {} PROVE FALSE
    OBVIOUS
  <2>1. PICK d \in T : \A m \in T : d <= m
    <3> HIDE DEF T
    <3> QED
      BY <2>0, LeastNat
  <2>2. d # 0
    <3>1. P(N)
      BY <1>1, <1>2 DEF P
    <3> QED
      BY <1>1, <2>1, <3>1
  <2>3. d \in 0 .. N /\ d - 1 \in 0 .. N /\ d - 1 \notin T /\ N - (d - 1) = (N - d) + 1
    <3>1. d \in 0 .. N
      BY Zenon
    <3> HIDE DEF T
    <3> QED
      BY <1>1, <2>1, <2>2, <3>1
  <2> DEFINE f == (N - d) + 1
  <2>4. P(f) /\ f \in 1 .. N /\ f - 1 = N - d
    <3>1. P(N - (d - 1))
      BY <2>3, Zenon
    <3> QED
      BY <1>1, <2>2, <2>3, <3>1
  <2> HIDE DEF f
  <2>5. /\ Len(FramesUpTo[f - 1]) \in Nat /\ Len(FramesUpTo[f - 1]) <= Len(FramesUpTo[f])
        /\ \A i \in 1 .. Len(FramesUpTo[f - 1]) : FramesUpTo[f][i] = FramesUpTo[f - 1][i]
    <3>1. f \in 1 .. Len(Files)
      BY <2>4
    <3>2. DataWords(f) \div FrameWords(f) \in Nat
      BY <3>1, FormatFacts
    <3> DEFINE a == FramesUpTo[f - 1]
               b == FramesUpTo[f]
               k == DataWords(f) \div FrameWords(f)
    <3>3. /\ Len(a) \in Nat /\ Len(b) = Len(a) + k
          /\ \A i \in 1 .. Len(a) : b[i] = a[i]
      BY <3>1, UpToFacts, Zenon
    <3> HIDE DEF a, b, k, N, T
    <3>4. k \in Nat
      BY <3>2 DEF k
    <3>5. Len(a) <= Len(b)
      BY <3>3, <3>4
    <3> QED
      BY <3>3, <3>5, Zenon DEF a, b
  <2>6. P(f - 1)
    <3>1. Len(FramesUpTo[f]) \in Nat
      BY <1>1, <2>4
    <3>2. /\ Len(FramesUpTo[f]) <= Len(Whole)
          /\ \A i \in 1 .. Len(FramesUpTo[f]) : FramesUpTo[f][i] = Whole[i]
      BY <2>4 DEF P
    <3> QED
      BY <1>2, <2>5, <3>1, <3>2 DEF P
  <2> QED
    BY <2>1, <2>4, <2>6
<1>4. ASSUME NEW f \in 0 .. N PROVE P(f)
  <2>1. N - f \in 0 .. N /\ N - (N - f) = f
    BY <1>1
  <2> HIDE DEF P
  <2> QED
    BY <1>3, <2>1
<1> QED
  BY <1>1, <1>2, <1>4

\* Where the frames of a file are among all.
LEMMA FrameAt ==
    ASSUME TwoWords, NEW f \in 1 .. Len(Files), NEW k \in 0 .. ((DataWords(f) \div FrameWords(f)) - 1)
    PROVE  Whole[Len(FramesUpTo[f - 1]) + k + 1] = Frame(f, k)
<1> DEFINE n == DataWords(f) \div FrameWords(f)
           m == Len(FramesUpTo[f - 1])
<1>1. n \in Nat
  BY FormatFacts
<1>2. m \in Nat /\ Len(FramesUpTo[f]) = m + n /\ FramesUpTo[f][m + k + 1] = Frame(f, k)
  BY UpToFacts
<1>3. f \in 0 .. Len(Files) /\ k \in 0 .. (n - 1)
  BY FilesAssumption
<1> HIDE DEF m, n
<1>4. m + k + 1 \in 1 .. Len(FramesUpTo[f])
  BY <1>1, <1>2, <1>3
<1>5. FramesUpTo[f][m + k + 1] = Whole[m + k + 1]
  BY <1>3, <1>4, UpToPrefix
<1> QED
  BY <1>2, <1>5 DEF m

-----------------------------------------------------------------------------
(* The format                                                               *)

\* Outside of the PCM state the next word is one of a header.
LEMMA HeaderPlace ==
    ASSUME TwoWords, ParserIInv, fsm.chunk # "PCM", Cur \in Place
    PROVE  Cur[2] < DataStart(Cur[1])
<1>1. Cur[1] \in 1 .. Len(Files) /\ Cur[2] \in Nat
  BY DEF Place
<1>2. FmtEnd(Cur[1]) \in {17, 18} /\ DataStart(Cur[1]) = FmtEnd(Cur[1]) + 5
  BY <1>1, FileFacts
<1>3. ParseInv /\ TypeOK
  BY DEF ParserIInv
<1>4. CASE fsm.status = "IDLE"
  <2>1. Cur[2] + OnTheWay <= 3
    BY <1>3, <1>4 DEF ParseInv, IdleInv
  <2>2. OnTheWay \in Nat
    BY DEF OnTheWay, Bit
  <2> QED
    BY <1>1, <1>2, <2>1, <2>2
<1>5. CASE fsm.status = "ACTIV"
  <2>1. Cur[2] <= 5 \/ Cur[2] <= FmtEnd(Cur[1]) \/ Cur[2] < DataStart(Cur[1])
    BY <1>3, <1>5, Typed DEF ParseInv, ActivInv, WaveInv, FmtInv, DataInv
  <2> QED
    BY <1>1, <1>2, <2>1
<1> QED
  BY <1>3, <1>4, <1>5, Typed

\* A clock in a header leaves the parser in the file, at most one word further.
LEMMA HeaderMoves ==
    ASSUME TwoWords, ParserIInv, ParserIInv', AnyClk, fsm.chunk # "PCM"
    PROVE  /\ Cur'[1] = Cur[1]
           /\ rd_pipe[3] => Cur'[2] = Cur[2] + 1
           /\ fsm'.chunk = "PCM" => Cur' \in Place /\ Cur'[2] = DataStart(Cur[1])
<1>0. StreamInv /\ TypeOK /\ TypeOK' /\ ParseInv'
  BY DEF ParserIInv
<1>1. CASE ~rd_pipe[3]
  <2>1. Cur' = Cur
    BY <1>0, <1>1, CurMoves
  <2>2. ~ChunkEnds
    BY <1>1 DEF ChunkEnds, sram_rd_data_valid_ih
  <2>3. fsm'.chunk = fsm.chunk
    BY <2>2, ParserClk DEF FsmClk, NextChunk
  <2> QED
    BY <1>1, <2>1, <2>3
<1>2. CASE rd_pipe[3]
  <2>1. Cur \in Place /\ Cur' = Succ(Cur)
    BY <1>0, <1>2, CurMoves
  <2>2. Cur[1] \in 1 .. Len(Files) /\ Cur[2] \in Nat
    BY <2>1 DEF Place
  <2>3. Cur[2] < DataStart(Cur[1])
    BY <2>1, HeaderPlace
  <2>4. FileWords(Cur[1]) >= DataStart(Cur[1]) + 2 /\ DataStart(Cur[1]) \in {22, 23} /\ FileWords(Cur[1]) \in Nat
    BY <2>2, FileFacts
  <2>5. Cur' = <<Cur[1], Cur[2] + 1>>
    <3>1. Cur[2] # FileWords(Cur[1]) - 1
      BY <2>2, <2>3, <2>4
    <3> QED
      BY <2>1, <3>1, SuccFacts
  <2>6. Cur'[1] = Cur[1] /\ Cur'[2] = Cur[2] + 1
    BY <2>5
  <2>7. ASSUME fsm'.chunk = "PCM" PROVE Cur' \in Place /\ Cur'[2] >= DataStart(Cur'[1])
    <3>1. fsm'.status \in {"IDLE", "ACTIV"}
      BY <1>0 DEF TypeOK
    <3>2. fsm'.status # "IDLE"
      BY <1>0, <2>7 DEF ParseInv, IdleInv
    <3> QED
      BY <1>0, <2>7, <3>1, <3>2 DEF ParseInv, ActivInv, PcmInv
  <2>8. ASSUME fsm'.chunk = "PCM" PROVE Cur'[2] = DataStart(Cur[1])
    <3>1. Cur'[2] >= DataStart(Cur[1])
      BY <2>6, <2>7, <2>8
    <3> QED
      BY <2>2, <2>3, <2>4, <2>6, <3>1
  <2> QED
    BY <2>6, <2>7, <2>8
<1> QED
  BY <1>1, <1>2

\* Outside of the "fmt " chunk no field is one of the format.
LEMMA OtherFields ==
    ASSUME fsm.chunk # "FMT", fsm.field \in {"ID", "SIZE", "FMT"}
    PROVE  NextField \in {"ID", "SIZE", "FMT"}
<1>1. CASE rst_field_c
  BY <1>1 DEF NextField
<1>2. CASE ~rst_field_c /\ ~sram_rd_data_valid_ih
  BY <1>2 DEF NextField
<1>3. CASE ~rst_field_c /\ sram_rd_data_valid_ih /\ fsm.field = "ID"
  BY <1>3 DEF NextField
<1>4. CASE ~rst_field_c /\ sram_rd_data_valid_ih /\ fsm.field = "SIZE"
  BY <1>4 DEF NextField
<1>5. CASE ~rst_field_c /\ sram_rd_data_valid_ih /\ fsm.field = "FMT"
  BY <1>5 DEF NextField
<1> QED
  BY <1>1, <1>2, <1>3, <1>4, <1>5

\* A word of the "fmt " chunk takes the field one place further.
LEMMA FmtFieldStep ==
    ASSUME FmtFields, fsm.chunk = "FMT", ~rst_field_c, sram_rd_data_valid_ih, pst \in 0 .. 11,
           fsm'.field = NextField, pst' = pst + 1
    PROVE  FmtFields'
<1>1. CASE pst = 0
  BY <1>1 DEF FmtFields, NextField
<1>2. CASE pst = 1
  BY <1>2 DEF FmtFields, NextField
<1>3. CASE pst = 2
  BY <1>3 DEF FmtFields, NextField
<1>4. CASE pst = 3
  BY <1>4 DEF FmtFields, NextField
<1>5. CASE pst = 4
  BY <1>5 DEF FmtFields, NextField
<1>6. CASE pst = 5
  BY <1>6 DEF FmtFields, NextField
<1>7. CASE pst = 6
  BY <1>7 DEF FmtFields, NextField
<1>8. CASE pst = 7
  BY <1>8 DEF FmtFields, NextField
<1>9. CASE pst = 8
  BY <1>9 DEF FmtFields, NextField
<1>10. CASE pst = 9
  BY <1>10 DEF FmtFields, NextField
<1>11. CASE pst = 10
  BY <1>11 DEF FmtFields, NextField
<1>12. CASE pst = 11
  BY <1>12 DEF FmtFields, NextField
<1> QED
  BY <1>1, <1>2, <1>3, <1>4, <1>5, <1>6, <1>7, <1>8, <1>9, <1>10, <1>11, <1>12

\* The place in a file and its format, in a clock.
LEMMA FormatClk ==
    ASSUME TwoWords, ParserIInv, ParserIInv', FormatInv, AnyClk
    PROVE  FormatInv'
<1>0. TypeOK /\ TypeOK' /\ StreamInv /\ ParseInv /\ ParseInv'
  BY DEF ParserIInv
<1>1. FsmClk /\ HeaderClk
  BY ParserClk
<1>2. fsm'.chunk = NextChunk /\ fsm'.field = NextField /\ fsm'.status = NextStatus
  BY <1>1 DEF FsmClk
<1>3. fsm.status \in {"IDLE", "ACTIV"} /\ fsm.chunk \in {"WAVE", "FMT", "DATA", "PCM"} /\ pst \in 0 .. 12
  BY <1>0, Typed
<1>4. fsm.chunk # "WAVE" => fsm.status = "ACTIV" /\ ActivInv /\ ~Starts
  BY <1>0, <1>3 DEF ParseInv, IdleInv, Starts
<1>5. CASE ~rd_pipe[3]
  <2>1. Cur' = Cur
    BY <1>0, <1>5, CurMoves
  <2>2. num_chnnls_f' = num_chnnls_f /\ bps_f' = bps_f
    BY <1>1, <1>5 DEF HeaderClk, sram_rd_data_valid_ih
  <2>3. ~ChunkEnds /\ ~end_of_file_c
    BY <1>5 DEF ChunkEnds, end_of_file_c, sram_rd_data_valid_ih
  <2>4. fsm'.chunk = fsm.chunk
    BY <1>2, <2>3 DEF NextChunk
  <2>5. CASE fsm.chunk = "FMT"
    <3>1. fsm'.field = fsm.field /\ pst' = pst
      BY <1>1, <1>2, <1>4, <1>5, <2>3, <2>5 DEF FsmClk, NextField, rst_field_c, sram_rd_data_valid_ih
    <3> QED
      BY <2>1, <2>2, <2>4, <2>5, <3>1 DEF FormatInv, FmtFields, DualKnown, WideKnown
  <2>6. CASE fsm.chunk # "FMT"
    <3>1. fsm'.field \in {"ID", "SIZE", "FMT"}
      BY <1>2, <2>6, OtherFields DEF FormatInv
    <3> QED
      BY <2>1, <2>2, <2>4, <2>6, <3>1 DEF FormatInv, DualKnown, WideKnown
  <2> QED
    BY <2>5, <2>6
<1>6. CASE rd_pipe[3] /\ fsm.chunk = "FMT"
  <2>1. ActivInv /\ FmtInv /\ fsm.status = "ACTIV" /\ ~last_word_f
    BY <1>4, <1>6 DEF ActivInv
  <2>2. rd_data = Cur /\ sram_rd_data_valid_ih
    BY <1>0, <1>6, CurMoves DEF sram_rd_data_valid_ih
  <2>3. Cur'[1] = Cur[1] /\ Cur'[2] = Cur[2] + 1
    BY <1>6, HeaderMoves
  <2>4. Cur[1] \in 1 .. Len(Files) /\ Cur[2] \in Nat
    BY <2>1 DEF ActivInv, Place
  <2>5. FmtEnd(Cur[1]) \in {17, 18} /\ Files[Cur[1]].dual \in BOOLEAN /\ Files[Cur[1]].wide \in BOOLEAN
    BY <2>4, FileFacts, FormatFacts
  <2>6. pst = Cur[2] - 6 /\ FmtFields /\ (pst > 5 => DualKnown) /\ (pst > 11 => WideKnown)
    BY <1>6, <2>1 DEF FmtInv, FormatInv
  <2>7. fsm'.status = "ACTIV" /\ ActivInv'
    <3>1. fsm'.status = "ACTIV"
      BY <1>6, <2>1, FsmWordClk
    <3> QED
      BY <1>0, <3>1 DEF ParseInv
  <2>8. /\ num_chnnls_f' = IF fsm.field = "NCHNNL" THEN Cur[2] = 11 /\ Files[Cur[1]].dual ELSE num_chnnls_f
        /\ bps_f' = IF fsm.field = "BPS" THEN Cur[2] = 17 /\ Files[Cur[1]].wide ELSE bps_f
    BY <1>1, <2>2 DEF HeaderClk
  <2>9. pst >= 5 => DualKnown'
    <3>1. CASE pst = 5
      <4>1. Cur[2] = 11 /\ fsm.field = "NCHNNL"
        BY <2>4, <2>6, <3>1 DEF FmtFields
      <4> QED
        BY <2>3, <2>5, <2>8, <4>1 DEF DualKnown
    <3>2. CASE pst > 5
      <4>1. fsm.field # "NCHNNL"
        BY <1>3, <2>6, <3>2 DEF FmtFields
      <4> QED
        BY <2>3, <2>6, <2>8, <3>2, <4>1 DEF DualKnown
    <3> QED
      BY <1>3, <3>1, <3>2
  <2>10. pst >= 11 => WideKnown'
    <3>1. CASE pst = 11
      <4>1. Cur[2] = 17 /\ fsm.field = "BPS"
        BY <2>4, <2>6, <3>1 DEF FmtFields
      <4> QED
        BY <2>3, <2>5, <2>8, <4>1 DEF WideKnown
    <3>2. CASE pst = 12
      <4>1. fsm.field # "BPS"
        BY <1>3, <2>6, <3>2 DEF FmtFields
      <4> QED
        BY <2>3, <2>6, <2>8, <3>2, <4>1 DEF WideKnown
    <3> QED
      BY <1>3, <3>1, <3>2
  <2>11. CASE ~ChunkEnds
    <3>1. /\ fsm'.chunk = "FMT" /\ fsm'.field = NextField
          /\ pst' = IF pst < 12 THEN pst + 1 ELSE pst
      BY <1>6, <2>1, <2>11, FsmWordClk
    <3>2. pst' = Cur'[2] - 6
      BY <2>7, <3>1 DEF ActivInv, FmtInv
    <3>3. pst' = pst + 1 /\ pst \in 0 .. 11
      BY <1>3, <2>3, <2>4, <2>6, <3>1, <3>2
    <3>4. ~rst_field_c
      BY <1>4, <1>6, <2>11 DEF rst_field_c
    <3>5. FmtFields'
      BY <1>6, <2>2, <2>6, <3>1, <3>3, <3>4, FmtFieldStep
    <3>6. (pst' > 5 => DualKnown') /\ (pst' > 11 => WideKnown')
      BY <2>9, <2>10, <3>3
    <3> QED
      BY <3>1, <3>5, <3>6 DEF FormatInv
  <2>12. CASE ChunkEnds
    <3>1. fsm'.chunk = "DATA" /\ fsm'.field = "ID"
      BY <1>6, <2>1, <2>12, FsmWordClk
    <3>2. Cur'[2] > FmtEnd(Cur[1])
      <4>1. DataInv'
        BY <2>7, <3>1 DEF ActivInv
      <4>2. Cur'[2] > FmtEnd(Cur'[1])
        BY <4>1 DEF DataInv, FmtEnd
      <4> QED
        BY <2>3, <4>2
    <3>3. pst >= 11 /\ pst >= 5
      BY <1>3, <2>3, <2>4, <2>5, <2>6, <3>2
    <3> QED
      BY <2>9, <2>10, <3>1, <3>3 DEF FormatInv
  <2> QED
    BY <2>11, <2>12
<1>7. CASE rd_pipe[3] /\ fsm.chunk # "FMT"
  <2>1. num_chnnls_f' = num_chnnls_f /\ bps_f' = bps_f
    BY <1>1, <1>7 DEF HeaderClk, FormatInv
  <2>2. fsm'.field \in {"ID", "SIZE", "FMT"}
    BY <1>2, <1>7, OtherFields DEF FormatInv
  <2>3. CASE fsm.chunk = "WAVE"
    <3>1. CASE ChunkEnds
      <4>1. fsm'.chunk = "FMT" /\ fsm'.field = "ID" /\ pst' = 0
        BY <1>1, <1>2, <2>3, <3>1 DEF FsmClk, NextChunk, NextField, rst_field_c
      <4> QED
        BY <4>1 DEF FormatInv, FmtFields
    <3>2. CASE ~ChunkEnds
      <4>1. fsm'.chunk = "WAVE"
        BY <1>2, <2>3, <3>2 DEF NextChunk
      <4> QED
        BY <2>2, <4>1 DEF FormatInv
    <3> QED
      BY <3>1, <3>2
  <2>4. CASE fsm.chunk = "DATA"
    <3>1. Cur'[1] = Cur[1]
      BY <2>4, HeaderMoves
    <3>2. fsm'.chunk \in {"DATA", "PCM"}
      BY <1>2, <2>4 DEF NextChunk
    <3> QED
      BY <2>1, <2>2, <2>4, <3>1, <3>2 DEF FormatInv, DualKnown, WideKnown
  <2>5. CASE fsm.chunk = "PCM"
    <3>1. ~ChunkEnds
      BY <2>5 DEF ChunkEnds
    <3>2. CASE last_word_f
      <4>1. fsm'.chunk = "WAVE"
        BY <1>2, <1>7, <2>5, <3>1, <3>2 DEF NextChunk, end_of_file_c, sram_rd_data_valid_ih
      <4> QED
        BY <2>2, <4>1 DEF FormatInv
    <3>3. CASE ~last_word_f
      <4>1. fsm'.chunk = "PCM"
        BY <1>2, <2>5, <3>1, <3>3 DEF NextChunk, end_of_file_c
      <4>2. Cur \in Place /\ Cur' = Succ(Cur) /\ Cur[2] # FileWords(Cur[1]) - 1
        BY <1>0, <1>4, <1>7, <2>5, <3>3, CurMoves DEF ActivInv, PcmInv
      <4>3. Cur'[1] = Cur[1]
        BY <4>2, SuccFacts
      <4> QED
        BY <2>1, <2>2, <2>5, <4>1, <4>3 DEF FormatInv, DualKnown, WideKnown
    <3> QED
      BY <3>2, <3>3, <1>0 DEF TypeOK
  <2> QED
    BY <1>3, <1>7, <2>3, <2>4, <2>5
<1> QED
  BY <1>5, <1>6, <1>7

-----------------------------------------------------------------------------
(* A clock in a header                                                      *)

\* The derived values after a step.
LEMMA Primed ==
    /\ Passed' = IF fsm'.chunk = "PCM" THEN Cur'[2] - DataStart(Cur'[1]) ELSE 0
    /\ Complete' = IF fsm'.chunk = "PCM" THEN Passed' \div FrameWords(Cur'[1]) ELSE 0
    /\ Out' = IF pcm'.wr_en THEN Append(sent', <<pcm'.l, pcm'.r>>) ELSE sent'
    /\ Whole' = Whole /\ AllFrames' = AllFrames
<1>1. Passed' = IF fsm'.chunk = "PCM" THEN Cur'[2] - DataStart(Cur'[1]) ELSE 0
  BY DEF Passed, DataStart, FmtEnd
<1>2. Complete' = IF fsm'.chunk = "PCM" THEN Passed' \div FrameWords(Cur'[1]) ELSE 0
  BY DEF Complete, FrameWords
<1>3. Out' = IF pcm'.wr_en THEN Append(sent', <<pcm'.l, pcm'.r>>) ELSE sent'
  BY DEF Out
<1>4. Whole' = Whole /\ AllFrames' = AllFrames
  BY DEF Whole, AllFrames
<1> QED
  BY <1>1, <1>2, <1>3, <1>4

\* The frames made so far.
LEMMA OutFacts ==
    ASSUME OutInv
    PROVE  Out \in Seq(AllFrames) /\ Len(Out) \in Nat
<1>1. CASE pcm.wr_en
  BY <1>1, AppendProperties DEF OutInv, Out
<1>2. CASE ~pcm.wr_en
  BY <1>2 DEF OutInv, Out
<1> QED
  BY <1>1, <1>2 DEF OutInv

\* A step that makes no frame and completes none.
LEMMA NoFrame ==
    ASSUME OutInv, sent' = Out, pcm'.wr_en = FALSE,
           Cur'[1] = Cur[1], Complete' = Complete
    PROVE  OutInv'
<1>1. Out' = Out /\ sent' \in Seq(AllFrames)
  BY Primed, OutFacts
<1>2. Len(Out)' = Len(Out)
  BY <1>1
<1>3. Len(FramesUpTo[Cur[1] - 1])' = Len(FramesUpTo[Cur[1] - 1])
  OBVIOUS
<1>4. (\A i \in 1 .. Len(Out) : Out[i] = Whole[i])' = (\A i \in 1 .. Len(Out) : Out[i] = Whole[i])
  BY <1>1, Primed
<1> QED
  BY <1>1, <1>2, <1>3, <1>4, Primed DEF OutInv

\* The toggle and the channel registers before the first word of the data.
LEMMA NothingPassed ==
    ASSUME NEW tg, tg \in [1 .. (Len(Files) + 1) -> 0 .. 3], Passed' = 0, Cur'[1] \in 1 .. (Len(Files) + 1),
           tggl_f' = tg[Cur'[1]]
    PROVE  ToggleInv(tg)' /\ ChannelInv'
<1>1. tg[Cur'[1]] \in 0 .. 3
  OBVIOUS
<1>2. \A t \in 0 .. 3 : t = (t + 0) % 4
  OBVIOUS
<1>3. ToggleInv(tg)'
  BY <1>1, <1>2 DEF ToggleInv
<1>4. ~(0 > 0) /\ 0 % 2 = 0 /\ 0 % 4 = 0
  OBVIOUS
<1>5. ChannelInv'
  BY <1>4 DEF ChannelInv, WideHalf
<1> QED
  BY <1>3, <1>5

\* A clock in a header makes no frame.
LEMMA HeaderFrames ==
    ASSUME TwoWords, NEW tg, tg \in [1 .. (Len(Files) + 1) -> 0 .. 3], ParserIInv, ParserIInv',
           ToggleInv(tg), OutInv, AnyClk, sent' = Out, fsm.chunk # "PCM"
    PROVE  ToggleInv(tg)' /\ ChannelInv' /\ OutInv'
<1>1. pcm' = [wr_en |-> FALSE, l |-> pcm.l, r |-> pcm.r] /\ tggl_f' = tggl_f
  BY ParserClk DEF PcmClk
<1>2. /\ Cur'[1] = Cur[1]
      /\ fsm'.chunk = "PCM" => Cur' \in Place /\ Cur'[2] = DataStart(Cur[1])
  BY HeaderMoves
<1>3. Cur'[1] \in 1 .. (Len(Files) + 1) /\ (fsm'.chunk = "PCM" => Cur'[1] \in 1 .. Len(Files))
  <2>1. Cur' = pos
    BY CurMoves DEF ParserIInv
  <2>2. pos[1] \in 1 .. (Len(Files) + 1)
    BY DEF ParserIInv, TypeOK
  <2> QED
    BY <1>2, <2>1, <2>2 DEF Place
<1>4. Passed' = 0
  <2>1. CASE fsm'.chunk = "PCM"
    <3>1. DataStart(Cur'[1]) \in {22, 23}
      BY <1>3, <2>1, FileFacts
    <3>2. Cur'[2] = DataStart(Cur'[1])
      BY <1>2, <2>1
    <3> QED
      BY <2>1, <3>1, <3>2, Primed
  <2> QED
    BY <2>1, Primed
<1>5. Complete' = 0 /\ Complete = 0
  <2>1. CASE fsm'.chunk = "PCM"
    <3>1. FrameWords(Cur'[1]) \in {1, 2, 4}
      BY <1>3, <2>1, FormatFacts
    <3>2. \A w \in {1, 2, 4} : 0 \div w = 0
      OBVIOUS
    <3> QED
      BY <1>4, <2>1, <3>1, <3>2, Primed DEF Complete
  <2> QED
    BY <2>1, Primed DEF Complete
<1>6. OutInv'
  BY <1>1, <1>2, <1>5, NoFrame
<1>7. tggl_f' = tg[Cur'[1]]
  BY <1>1, <1>2 DEF ToggleInv
<1>8. ToggleInv(tg)' /\ ChannelInv'
  BY <1>3, <1>4, <1>7, NothingPassed
<1> QED
  BY <1>6, <1>8

-----------------------------------------------------------------------------
(* A clock in the PCM data                                                  *)

\* Where in the data of its file the parser is.
LEMMA PcmPlace ==
    ASSUME TwoWords, ParserIInv, fsm.chunk = "PCM"
    PROVE  /\ fsm.status = "ACTIV" /\ Cur \in Place /\ Cur[1] \in 1 .. Len(Files) /\ Cur[1] \in Nat
           /\ Cur[2] \in Nat /\ Passed \in Nat /\ Cur[2] = DataStart(Cur[1]) + Passed
           /\ DataStart(Cur[1]) \in {22, 23}
           /\ DataWords(Cur[1]) \in Nat /\ Passed < DataWords(Cur[1])
           /\ last_word_f <=> Cur[2] = FileWords(Cur[1]) - 1
           /\ last_word_f <=> Passed + 1 = DataWords(Cur[1])
<1>1. TypeOK /\ ParseInv
  BY DEF ParserIInv
<1>2. fsm.status = "ACTIV"
  BY <1>1, Typed DEF ParseInv, IdleInv
<1>3. ActivInv /\ PcmInv
  BY <1>1, <1>2 DEF ParseInv, ActivInv
<1>4. Cur \in Place /\ Cur[1] \in 1 .. Len(Files) /\ Cur[2] \in Nat /\ Cur[2] < FileWords(Cur[1]) /\ Cur[1] \in Nat
  BY <1>3, FilesAssumption DEF ActivInv, Place
<1>5. DataStart(Cur[1]) \in {22, 23} /\ DataWords(Cur[1]) \in Nat
  BY <1>4, FileFacts
<1>6. FileWords(Cur[1]) = DataStart(Cur[1]) + DataWords(Cur[1])
  BY DEF FileWords
<1>7. Passed = Cur[2] - DataStart(Cur[1]) /\ Cur[2] >= DataStart(Cur[1])
  BY <1>3 DEF Passed, PcmInv
<1>8. /\ Passed \in Nat /\ Cur[2] = DataStart(Cur[1]) + Passed /\ Passed < DataWords(Cur[1])
      /\ Cur[2] = FileWords(Cur[1]) - 1 <=> Passed + 1 = DataWords(Cur[1])
  BY <1>4, <1>5, <1>6, <1>7
<1>9. last_word_f <=> Cur[2] = FileWords(Cur[1]) - 1
  BY <1>3 DEF PcmInv
<1> QED
  BY <1>2, <1>4, <1>5, <1>8, <1>9

\* The toggle in step with the words of the data.
LEMMA PcmFormat ==
    ASSUME TwoWords, NEW tg, InStep(tg), ParserIInv, FormatInv, ToggleInv(tg), fsm.chunk = "PCM"
    PROVE  /\ num_chnnls_f = Files[Cur[1]].dual /\ bps_f = Files[Cur[1]].wide
           /\ WordsPerFrame = FrameWords(Cur[1])
           /\ tggl_f \in 0 .. 3 /\ tggl_f % FrameWords(Cur[1]) = Passed % FrameWords(Cur[1])
           /\ ToRight <=> /\ Files[Cur[1]].dual
                          /\ IF Files[Cur[1]].wide THEN Passed % 4 \in {2, 3} ELSE Passed % 2 = 1
<1> DEFINE f == Cur[1]
           n == Passed
<1>1. f \in 1 .. Len(Files) /\ n \in Nat
  BY PcmPlace
<1>2. num_chnnls_f = Files[f].dual /\ bps_f = Files[f].wide
  BY DEF FormatInv, DualKnown, WideKnown
<1>3. /\ Files[f].dual \in BOOLEAN /\ Files[f].wide \in BOOLEAN
      /\ FrameWords(f) = IF Files[f].dual THEN IF Files[f].wide THEN 4 ELSE 2
                         ELSE IF Files[f].wide THEN 2 ELSE 1
  BY <1>1, FormatFacts
<1>4. WordsPerFrame = FrameWords(f)
  BY <1>2 DEF WordsPerFrame, FrameWords
<1>0. \A m \in Nat : ((0 + m) % 4) % 2 = m % 2 /\ ((2 + m) % 4) % 2 = m % 2 /\ (0 + m) % 4 \in 0 .. 3 /\ (2 + m) % 4 \in 0 .. 3
  OBVIOUS
<1>5. tg[f] \in 0 .. 3 /\ tg[f] % FrameWords(f) = 0
  BY <1>1, FilesAssumption DEF InStep, TogglesOf
<1>6. tggl_f = (tg[f] + (IF FrameWords(f) > 1 THEN n ELSE 0)) % 4
  BY DEF ToggleInv
<1> HIDE DEF f, n
<1>7. CASE ~Files[f].dual /\ ~Files[f].wide
  <2>1. FrameWords(f) = 1
    BY <1>3, <1>7
  <2>2. tggl_f = tg[f] % 4 /\ tggl_f \in 0 .. 3
    BY <1>5, <1>6, <2>1
  <2>3. tggl_f % 1 = n % 1
    BY <1>1, <2>2
  <2>4. ~ToRight
    BY <1>2, <1>7 DEF ToRight
  <2> QED
    BY <1>2, <1>4, <1>7, <2>1, <2>2, <2>3, <2>4 DEF f, n
<1>8. CASE Files[f].dual /\ ~Files[f].wide
  <2>1. FrameWords(f) = 2
    BY <1>3, <1>8
  <2>2. tggl_f = (tg[f] + n) % 4 /\ tg[f] % 2 = 0
    BY <1>5, <1>6, <2>1
  <2>3. tggl_f \in 0 .. 3 /\ tggl_f % 2 = n % 2
    <3>1. tg[f] \in {0, 2}
      BY <1>5, <2>2
    <3> QED
      BY <1>0, <1>1, <2>2, <3>1
  <2>4. ToRight <=> (tggl_f \div 1) % 2 = 1
    BY <1>2, <1>8 DEF ToRight
  <2>5. ToRight <=> n % 2 = 1
    BY <2>3, <2>4
  <2> QED
    BY <1>2, <1>4, <1>8, <2>1, <2>3, <2>5 DEF f, n
<1>9. CASE ~Files[f].dual /\ Files[f].wide
  <2>1. FrameWords(f) = 2
    BY <1>3, <1>9
  <2>2. tggl_f = (tg[f] + n) % 4 /\ tg[f] % 2 = 0
    BY <1>5, <1>6, <2>1
  <2>3. tggl_f \in 0 .. 3 /\ tggl_f % 2 = n % 2
    <3>1. tg[f] \in {0, 2}
      BY <1>5, <2>2
    <3> QED
      BY <1>0, <1>1, <2>2, <3>1
  <2>4. ~ToRight
    BY <1>2, <1>9 DEF ToRight
  <2> QED
    BY <1>2, <1>4, <1>9, <2>1, <2>3, <2>4 DEF f, n
<1>10. CASE Files[f].dual /\ Files[f].wide
  <2>1. FrameWords(f) = 4
    BY <1>3, <1>10
  <2>2. tggl_f = (tg[f] + n) % 4 /\ tg[f] = 0
    BY <1>5, <1>6, <2>1
  <2>3. tggl_f \in 0 .. 3 /\ tggl_f = n % 4 /\ tggl_f % 4 = n % 4
    BY <1>1, <2>2
  <2>4. ToRight <=> (tggl_f \div 2) % 2 = 1
    BY <1>2, <1>10 DEF ToRight
  <2>5. ToRight <=> n % 4 \in {2, 3}
    BY <2>3, <2>4
  <2> QED
    BY <1>2, <1>4, <1>10, <2>1, <2>3, <2>5 DEF f, n
<1> QED
  BY <1>3, <1>7, <1>8, <1>9, <1>10

\* What a clock in the data does to the toggle and the channel registers.
LEMMA PcmWrites ==
    ASSUME TwoWords, NEW tg, InStep(tg), ParserIInv, FormatInv, ToggleInv(tg), AnyClk, fsm.chunk = "PCM"
    PROVE  /\ pcm'.wr_en = (rd_pipe[3] /\ (Passed + 1) % FrameWords(Cur[1]) = 0)
           /\ pcm'.l = IF ToRight THEN pcm.l
                       ELSE IF Files[Cur[1]].wide THEN <<pcm.l[2], rd_data>> ELSE <<None, rd_data>>
           /\ pcm'.r = IF ~Files[Cur[1]].dual THEN Zero ELSE IF ~ToRight THEN pcm.r
                       ELSE IF Files[Cur[1]].wide THEN <<pcm.r[2], rd_data>> ELSE <<None, rd_data>>
           /\ tggl_f' = (tg[Cur[1]] + (IF FrameWords(Cur[1]) > 1
                                       THEN IF rd_pipe[3] THEN Passed + 1 ELSE Passed ELSE 0)) % 4
<1> DEFINE f == Cur[1]
           n == Passed
           w == FrameWords(f)
<1>1. f \in 1 .. Len(Files) /\ n \in Nat
  BY PcmPlace
<1>2. w \in {1, 2, 4} /\ Files[f].dual \in BOOLEAN
  BY <1>1, FormatFacts
<1>3. /\ num_chnnls_f = Files[f].dual /\ bps_f = Files[f].wide /\ WordsPerFrame = w
      /\ tggl_f \in 0 .. 3 /\ tggl_f % w = n % w
  BY PcmFormat
<1>4. /\ pcm' = [wr_en |-> /\ sram_rd_data_valid_ih
                           /\ tggl_f % WordsPerFrame = WordsPerFrame - 1,
                 l |-> IF ToRight THEN pcm.l ELSE Sample(pcm.l),
                 r |-> IF ~num_chnnls_f THEN Zero
                       ELSE IF ToRight THEN Sample(pcm.r) ELSE pcm.r]
      /\ tggl_f' = NextTggl
  BY ParserClk DEF PcmClk
<1>5. \A ch : Sample(ch) = IF Files[f].wide THEN <<ch[2], rd_data>> ELSE <<None, rd_data>>
  BY <1>3 DEF Sample
<1>6. pcm'.l = IF ToRight THEN pcm.l ELSE IF Files[f].wide THEN <<pcm.l[2], rd_data>> ELSE <<None, rd_data>>
  BY <1>3, <1>4, <1>5
<1>7. pcm'.r = IF ~Files[f].dual THEN Zero ELSE IF ~ToRight THEN pcm.r
               ELSE IF Files[f].wide THEN <<pcm.r[2], rd_data>> ELSE <<None, rd_data>>
  BY <1>3, <1>4, <1>5
<1>8. tggl_f = (tg[f] + (IF w > 1 THEN n ELSE 0)) % 4 /\ tg[f] \in 0 .. 3
  BY <1>1, FilesAssumption DEF ToggleInv, InStep, TogglesOf
<1>9. pcm'.wr_en = (rd_pipe[3] /\ n % w = w - 1)
  <2>1. pcm'.wr_en = (sram_rd_data_valid_ih /\ tggl_f % WordsPerFrame = WordsPerFrame - 1)
    BY <1>4, Zenon
  <2>2. (tggl_f % WordsPerFrame = WordsPerFrame - 1) = (n % w = w - 1)
    BY <1>3
  <2> QED
    BY <2>1, <2>2, Zenon DEF sram_rd_data_valid_ih
<1>10. tggl_f' = IF w > 1 /\ rd_pipe[3] THEN (tggl_f + 1) % 4 ELSE tggl_f
  BY <1>3, <1>4 DEF NextTggl, sram_rd_data_valid_ih
<1> HIDE DEF f, n, w
<1>11. n % w = w - 1 <=> (n + 1) % w = 0
  <2>1. \A m \in Nat : (m % 1 = 1 - 1) <=> ((m + 1) % 1 = 0)
    OBVIOUS
  <2>2. \A m \in Nat : (m % 2 = 2 - 1) <=> ((m + 1) % 2 = 0)
    OBVIOUS
  <2>3. \A m \in Nat : (m % 4 = 4 - 1) <=> ((m + 1) % 4 = 0)
    OBVIOUS
  <2> QED
    BY <1>1, <1>2, <2>1, <2>2, <2>3
<1>12. tggl_f' = (tg[f] + (IF w > 1 THEN IF rd_pipe[3] THEN n + 1 ELSE n ELSE 0)) % 4
  <2>1. \A t, m \in Nat : (((t + m) % 4) + 1) % 4 = (t + (m + 1)) % 4
    OBVIOUS
  <2>2. CASE w > 1 /\ rd_pipe[3]
    <3>1. tggl_f' = (((tg[f] + n) % 4) + 1) % 4
      BY <1>8, <1>10, <2>2
    <3>2. tg[f] \in Nat /\ n \in Nat
      BY <1>1, <1>8
    <3>3. tggl_f' = (tg[f] + (n + 1)) % 4
      BY <2>1, <3>1, <3>2, Zenon
    <3> QED
      BY <2>2, <3>3
  <2>3. CASE ~(w > 1 /\ rd_pipe[3])
    BY <1>8, <1>10, <2>3
  <2> QED
    BY <2>2, <2>3
<1>13. pcm'.wr_en = (rd_pipe[3] /\ (n + 1) % w = 0)
  BY <1>9, <1>11
<1> QED
  BY <1>6, <1>7, <1>12, <1>13 DEF f, n, w

\* A word that has been taken stays on the bus until the next one of the file arrives,
\* when the host reads nothing in between.
LEMMA BusKept ==
    ASSUME AnyClk, ~rd_pipe[2], pos[1] \notin MmFiles
    PROVE  rd_data' = rd_data /\ ~rd_pipe'[3]
  BY DEF AnyClk, Clk

\* A clock without a word keeps the halves of an incomplete frame, though the channel
\* registers follow the bus.
LEMMA ChannelKept ==
    ASSUME TwoWords, NarrowReads, NEW tg, InStep(tg), ParserIInv, FormatInv, ToggleInv(tg), ChannelInv,
           AnyClk, fsm.chunk = "PCM", ~rd_pipe[3], Cur' = Cur, Passed' = Passed
    PROVE  ChannelInv'
<1> DEFINE f == Cur[1]
           i == Cur[2]
           n == Passed
<1>1. f \in 1 .. Len(Files) /\ n \in Nat /\ i \in Nat
  BY PcmPlace
<1>2. /\ pcm'.l = IF ToRight THEN pcm.l
                  ELSE IF Files[f].wide THEN <<pcm.l[2], rd_data>> ELSE <<None, rd_data>>
      /\ pcm'.r = IF ~Files[f].dual THEN Zero ELSE IF ~ToRight THEN pcm.r
                  ELSE IF Files[f].wide THEN <<pcm.r[2], rd_data>> ELSE <<None, rd_data>>
  BY PcmWrites
<1>10. ToRight <=> Files[f].dual /\ IF Files[f].wide THEN n % 4 \in {2, 3} ELSE n % 2 = 1
  BY PcmFormat
<1>3. /\ Files[f].wide => WideHalf(f, i, n)
      /\ ~Files[f].wide /\ Files[f].dual /\ n % 2 = 1 => pcm.l = <<None, <<f, i - 1>>>>
  BY DEF ChannelInv
<1>4. pos = Cur /\ rd_pipe'[3] = rd_pipe[2]
  BY CurMoves DEF ParserIInv, AnyClk, Clk
<1>5. ASSUME Files[f].wide, n > 0, ~rd_pipe'[3] PROVE rd_data' = <<f, i - 1>>
  <2>1. pos[1] \notin MmFiles
    BY <1>4, <1>5 DEF NarrowReads
  <2>2. rd_data = <<f, i - 1>>
    BY <1>3, <1>5 DEF WideHalf
  <2> QED
    BY <1>4, <1>5, <2>1, <2>2, BusKept
<1> HIDE DEF f, i, n
<1>6. ASSUME Files[f].wide
      PROVE  /\ n % 2 = 1 /\ ~(Files[f].dual /\ n % 4 = 3) => pcm'.l[2] = <<f, i - 1>>
             /\ n % 2 = 1 /\ Files[f].dual /\ n % 4 = 3 => pcm'.r[2] = <<f, i - 1>>
             /\ n % 4 = 2 /\ Files[f].dual => pcm'.l = <<<<f, i - 2>>, <<f, i - 1>>>>
             /\ n % 4 = 3 /\ Files[f].dual => pcm'.l = <<<<f, i - 3>>, <<f, i - 2>>>>
  <2>1. n > 0 => rd_data = <<f, i - 1>>
    BY <1>3, <1>6 DEF WideHalf
  <2>2. n % 2 = 1 => n > 0 /\ n % 4 \in {1, 3}
    BY <1>1
  <2>3. n % 2 = 1 /\ ~(Files[f].dual /\ n % 4 = 3) => pcm'.l = <<pcm.l[2], rd_data>>
    BY <1>2, <1>10, <1>6, <2>2
  <2>4. n % 2 = 1 /\ Files[f].dual /\ n % 4 = 3 => pcm'.r = <<pcm.r[2], rd_data>>
    BY <1>2, <1>10, <1>6
  <2>5. n % 4 \in {2, 3} /\ Files[f].dual => pcm'.l = pcm.l
    BY <1>2, <1>10, <1>6
  <2> QED
    BY <1>3, <1>6, <2>1, <2>2, <2>3, <2>4, <2>5 DEF WideHalf
<1>7. ~Files[f].wide /\ Files[f].dual /\ n % 2 = 1 => pcm'.l = <<None, <<f, i - 1>>>>
  BY <1>2, <1>3, <1>10
<1>8. Cur'[1] = f /\ Cur'[2] = i /\ Passed' = n
  BY DEF f, i, n
<1> QED
  BY <1>5, <1>6, <1>7, <1>8 DEF ChannelInv, WideHalf

\* A word inside the data puts its half where the frame needs it.
LEMMA ChannelWord ==
    ASSUME TwoWords, NarrowReads, NEW tg, InStep(tg), ParserIInv, FormatInv, ToggleInv(tg), ChannelInv,
           AnyClk, fsm.chunk = "PCM", rd_pipe[3], Cur' = <<Cur[1], Cur[2] + 1>>, Passed' = Passed + 1
    PROVE  ChannelInv'
<1> DEFINE f == Cur[1]
           i == Cur[2]
           n == Passed
<1>1. f \in 1 .. Len(Files) /\ n \in Nat /\ i \in Nat
  BY PcmPlace
<1>2. /\ pcm'.l = IF ToRight THEN pcm.l
                  ELSE IF Files[f].wide THEN <<pcm.l[2], rd_data>> ELSE <<None, rd_data>>
      /\ pcm'.r = IF ~Files[f].dual THEN Zero ELSE IF ~ToRight THEN pcm.r
                  ELSE IF Files[f].wide THEN <<pcm.r[2], rd_data>> ELSE <<None, rd_data>>
  BY PcmWrites
<1>3. ToRight <=> Files[f].dual /\ IF Files[f].wide THEN n % 4 \in {2, 3} ELSE n % 2 = 1
  BY PcmFormat
<1>4. /\ Files[f].wide => WideHalf(f, i, n)
      /\ ~Files[f].wide /\ Files[f].dual /\ n % 2 = 1 => pcm.l = <<None, <<f, i - 1>>>>
  BY DEF ChannelInv
<1>5. rd_data = <<f, i>> /\ pos = <<f, i + 1>> /\ rd_pipe'[3] = rd_pipe[2]
  <2>1. rd_data = Cur /\ pos = Cur' /\ rd_pipe'[3] = rd_pipe[2] /\ Cur \in Place
    BY CurMoves DEF ParserIInv, AnyClk, Clk
  <2> QED
    BY <2>1 DEF Place
<1>6. ASSUME Files[f].wide, ~rd_pipe'[3] PROVE rd_data' = <<f, i>>
  <2>1. pos[1] \notin MmFiles
    BY <1>5, <1>6 DEF NarrowReads
  <2> QED
    BY <1>5, <1>6, <2>1, BusKept
<1>7. Cur'[1] = f /\ Cur'[2] = i + 1 /\ Passed' = n + 1
  OBVIOUS
<1> HIDE DEF f, i, n
<1>8. (i + 1) - 1 = i /\ (i + 1) - 2 = i - 1 /\ (i + 1) - 3 = i - 2
  BY <1>1
<1>9. /\ (n + 1) % 2 = 1 => n % 2 = 0 /\ n % 4 \in {0, 2}
      /\ (n + 1) % 4 = 3 => n % 4 = 2
      /\ (n + 1) % 4 = 2 => n % 4 = 1 /\ n % 2 = 1
      /\ (n + 1) % 2 = 1 /\ (n + 1) % 4 # 3 => n % 4 = 0
  BY <1>1
<1>10. ASSUME Files[f].wide
       PROVE  /\ (n + 1) % 2 = 1 /\ ~(Files[f].dual /\ (n + 1) % 4 = 3) => pcm'.l[2] = <<f, i>>
              /\ (n + 1) % 2 = 1 /\ Files[f].dual /\ (n + 1) % 4 = 3 => pcm'.r[2] = <<f, i>>
              /\ (n + 1) % 4 = 2 /\ Files[f].dual => pcm'.l = <<<<f, i - 1>>, <<f, i>>>>
              /\ (n + 1) % 4 = 3 /\ Files[f].dual => pcm'.l = <<<<f, i - 2>>, <<f, i - 1>>>>
  <2>1. (n + 1) % 2 = 1 /\ ~(Files[f].dual /\ (n + 1) % 4 = 3) => pcm'.l = <<pcm.l[2], rd_data>>
    BY <1>2, <1>3, <1>9, <1>10
  <2>2. Files[f].dual /\ (n + 1) % 4 = 3 => pcm'.r = <<pcm.r[2], rd_data>> /\ pcm'.l = pcm.l
    BY <1>2, <1>3, <1>9, <1>10
  <2>3. (n + 1) % 4 = 2 /\ Files[f].dual => pcm'.l = <<pcm.l[2], rd_data>>
    BY <1>2, <1>3, <1>9, <1>10
  <2>4. (n + 1) % 4 = 2 /\ Files[f].dual => pcm.l[2] = <<f, i - 1>>
    BY <1>4, <1>9, <1>10 DEF WideHalf
  <2>5. (n + 1) % 4 = 3 /\ Files[f].dual => pcm.l = <<<<f, i - 2>>, <<f, i - 1>>>>
    BY <1>4, <1>9, <1>10 DEF WideHalf
  <2> QED
    BY <1>5, <2>1, <2>2, <2>3, <2>4, <2>5
<1>11. ~Files[f].wide /\ Files[f].dual /\ (n + 1) % 2 = 1 => pcm'.l = <<None, <<f, i>>>>
  BY <1>2, <1>3, <1>5, <1>9
<1> QED
  BY <1>6, <1>7, <1>8, <1>10, <1>11 DEF ChannelInv, WideHalf

\* The word that completes a frame leaves the whole frame in the channel registers.
LEMMA FrameMade ==
    ASSUME TwoWords, NEW tg, InStep(tg), ParserIInv, FormatInv, ToggleInv(tg), ChannelInv,
           AnyClk, fsm.chunk = "PCM", rd_pipe[3], (Passed + 1) % FrameWords(Cur[1]) = 0
    PROVE  <<pcm'.l, pcm'.r>> = Frame(Cur[1], Passed \div FrameWords(Cur[1]))
<1> DEFINE f == Cur[1]
           i == Cur[2]
           n == Passed
           s == DataStart(f)
<1>1. f \in 1 .. Len(Files) /\ n \in Nat /\ i \in Nat /\ i = s + n /\ s \in Nat
  BY PcmPlace
<1>2. /\ pcm'.l = IF ToRight THEN pcm.l
                  ELSE IF Files[f].wide THEN <<pcm.l[2], rd_data>> ELSE <<None, rd_data>>
      /\ pcm'.r = IF ~Files[f].dual THEN Zero ELSE IF ~ToRight THEN pcm.r
                  ELSE IF Files[f].wide THEN <<pcm.r[2], rd_data>> ELSE <<None, rd_data>>
  BY PcmWrites
<1>3. ToRight <=> Files[f].dual /\ IF Files[f].wide THEN n % 4 \in {2, 3} ELSE n % 2 = 1
  BY PcmFormat
<1>4. /\ Files[f].wide => WideHalf(f, i, n)
      /\ ~Files[f].wide /\ Files[f].dual /\ n % 2 = 1 => pcm.l = <<None, <<f, i - 1>>>>
  BY DEF ChannelInv
<1>5. rd_data = <<f, i>>
  <2>1. rd_data = Cur /\ Cur \in Place
    BY CurMoves DEF ParserIInv
  <2> QED
    BY <2>1 DEF Place
<1>6. /\ FrameWords(f) = IF Files[f].dual THEN IF Files[f].wide THEN 4 ELSE 2
                         ELSE IF Files[f].wide THEN 2 ELSE 1
      /\ Files[f].dual \in BOOLEAN /\ Files[f].wide \in BOOLEAN
  BY <1>1, FormatFacts
<1>7. (n + 1) % FrameWords(f) = 0
  OBVIOUS
<1>8. \A k : Frame(f, k) = <<Channel(f, s + k * FrameWords(f)),
                             IF Files[f].dual THEN Channel(f, (s + k * FrameWords(f)) + (FrameWords(f) \div 2)) ELSE Zero>>
  BY DEF Frame
<1>9. \A j : Channel(f, j) = IF Files[f].wide THEN <<<<f, j>>, <<f, j + 1>>>> ELSE <<None, <<f, j>>>>
  BY DEF Channel
<1> HIDE DEF f, i, n, s
<1>10. CASE ~Files[f].dual /\ ~Files[f].wide
  <2>1. FrameWords(f) = 1 /\ s + (n \div 1) * 1 = i
    BY <1>1, <1>6, <1>10
  <2>2. pcm'.l = <<None, <<f, i>>>> /\ pcm'.r = Zero
    BY <1>2, <1>3, <1>5, <1>10
  <2>3. Frame(f, n \div 1) = <<<<None, <<f, i>>>>, Zero>>
    BY <1>8, <1>9, <1>10, <2>1
  <2> QED
    BY <2>1, <2>2, <2>3 DEF f, n
<1>11. CASE Files[f].dual /\ ~Files[f].wide
  <2>1. FrameWords(f) = 2 /\ n % 2 = 1
    BY <1>1, <1>6, <1>7, <1>11
  <2>2. s + (n \div 2) * 2 = i - 1 /\ (i - 1) + (2 \div 2) = i
    BY <1>1, <2>1
  <2>3. pcm'.l = <<None, <<f, i - 1>>>> /\ pcm'.r = <<None, <<f, i>>>>
    BY <1>2, <1>3, <1>4, <1>5, <1>11, <2>1
  <2>4. Frame(f, n \div 2) = <<<<None, <<f, i - 1>>>>, <<None, <<f, i>>>>>>
    BY <1>8, <1>9, <1>11, <2>1, <2>2
  <2> QED
    BY <2>1, <2>3, <2>4 DEF f, n
<1>12. CASE ~Files[f].dual /\ Files[f].wide
  <2>1. FrameWords(f) = 2 /\ n % 2 = 1
    BY <1>1, <1>6, <1>7, <1>12
  <2>2. s + (n \div 2) * 2 = i - 1 /\ (i - 1) + 1 = i
    BY <1>1, <2>1
  <2>3. pcm.l[2] = <<f, i - 1>>
    BY <1>4, <1>12, <2>1 DEF WideHalf
  <2>4. pcm'.l = <<<<f, i - 1>>, <<f, i>>>> /\ pcm'.r = Zero
    BY <1>2, <1>3, <1>5, <1>12, <2>3
  <2>5. Frame(f, n \div 2) = <<<<<<f, i - 1>>, <<f, i>>>>, Zero>>
    BY <1>8, <1>9, <1>12, <2>1, <2>2
  <2> QED
    BY <2>1, <2>4, <2>5 DEF f, n
<1>13. CASE Files[f].dual /\ Files[f].wide
  <2>1. FrameWords(f) = 4 /\ n % 4 = 3 /\ n % 2 = 1
    BY <1>1, <1>6, <1>7, <1>13
  <2>2. s + (n \div 4) * 4 = i - 3 /\ (i - 3) + (4 \div 2) = i - 1 /\ (i - 3) + 1 = i - 2 /\ (i - 1) + 1 = i
    BY <1>1, <2>1
  <2>3. pcm.l = <<<<f, i - 3>>, <<f, i - 2>>>> /\ pcm.r[2] = <<f, i - 1>>
    BY <1>4, <1>13, <2>1 DEF WideHalf
  <2>4. pcm'.l = <<<<f, i - 3>>, <<f, i - 2>>>> /\ pcm'.r = <<<<f, i - 1>>, <<f, i>>>>
    BY <1>2, <1>3, <1>5, <1>13, <2>1, <2>3
  <2>5. Frame(f, n \div 4) = <<<<<<f, i - 3>>, <<f, i - 2>>>>, <<<<f, i - 1>>, <<f, i>>>>>>
    BY <1>8, <1>9, <1>13, <2>1, <2>2
  <2> QED
    BY <2>1, <2>4, <2>5 DEF f, n
<1> QED
  BY <1>6, <1>10, <1>11, <1>12, <1>13

\* Frames complete after one more word.
LEMMA OneMoreWord ==
    ASSUME NEW n \in Nat, NEW w \in {1, 2, 4}
    PROVE  /\ n \div w \in Nat /\ (n + 1) \div w \in Nat
           /\ (n + 1) % w = 0 => (n + 1) \div w = (n \div w) + 1
           /\ (n + 1) % w # 0 => (n + 1) \div w = n \div w
           /\ \A d \in Nat : n + 1 <= d => (n + 1) \div w <= d \div w /\ d \div w \in Nat
<1>1. CASE w = 1
  BY <1>1
<1>2. CASE w = 2
  BY <1>2
<1>3. CASE w = 4
  BY <1>3
<1> QED
  BY <1>1, <1>2, <1>3

\* A word of the data makes the frame that comes next, or none.
LEMMA OutWord ==
    ASSUME TwoWords, NEW tg, InStep(tg), ParserIInv, FormatInv, ToggleInv(tg), ChannelInv, OutInv,
           AnyClk, sent' = Out, fsm.chunk = "PCM", rd_pipe[3]
    PROVE  /\ sent' \in Seq(AllFrames) /\ pcm'.wr_en \in BOOLEAN
           /\ pcm'.wr_en => <<pcm'.l, pcm'.r>> \in AllFrames
           /\ Len(Out') = Len(FramesUpTo[Cur[1] - 1]) + ((Passed + 1) \div FrameWords(Cur[1]))
           /\ \A i \in 1 .. Len(Out') : Out'[i] = Whole[i]
<1> DEFINE f == Cur[1]
           n == Passed
           w == FrameWords(f)
           m == Len(FramesUpTo[f - 1])
           k == n \div w
           d == DataWords(f)
<1>1. f \in 1 .. Len(Files) /\ n \in Nat /\ d \in Nat /\ n + 1 <= d
  <2>1. f \in 1 .. Len(Files) /\ n \in Nat /\ d \in Nat /\ n < d
    BY PcmPlace
  <2> HIDE DEF f, n, d
  <2> QED
    BY <2>1
<1>2. w \in {1, 2, 4}
  BY <1>1, FormatFacts
<1>3. m \in Nat
  BY <1>1, UpToFacts
<1>4. Out \in Seq(AllFrames) /\ Len(Out) = m + k /\ (\A j \in 1 .. Len(Out) : Out[j] = Whole[j])
  BY OutFacts DEF OutInv, Complete
<1>5. pcm'.wr_en = ((n + 1) % w = 0)
  <2>1. pcm'.wr_en = (rd_pipe[3] /\ (n + 1) % w = 0)
    BY PcmWrites
  <2> QED
    BY <2>1, Zenon
<1>6. (n + 1) % w = 0 => <<pcm'.l, pcm'.r>> = Frame(f, k)
  BY FrameMade
<1>7. \A x \in 0 .. ((d \div w) - 1) : Whole[m + x + 1] = Frame(f, x)
  BY <1>1, FrameAt
<1>8. \A x \in Nat : Frame(f, x) \in AllFrames
  BY <1>1 DEF AllFrames
<1>9. Out' = IF pcm'.wr_en THEN Append(sent', <<pcm'.l, pcm'.r>>) ELSE sent'
  BY Primed
<1> HIDE DEF f, n, w, m, d
<1>10. /\ k \in Nat /\ (n + 1) \div w \in Nat
       /\ (n + 1) % w = 0 => (n + 1) \div w = k + 1
       /\ (n + 1) % w # 0 => (n + 1) \div w = k
       /\ (n + 1) \div w <= d \div w /\ d \div w \in Nat
  BY <1>1, <1>2, OneMoreWord
<1> HIDE DEF k
<1>11. CASE (n + 1) % w = 0
  <2>1. pcm'.wr_en = TRUE
    BY <1>5, <1>11, Zenon
  <2>2. Out' = Append(Out, Frame(f, k)) /\ Frame(f, k) \in AllFrames /\ <<pcm'.l, pcm'.r>> = Frame(f, k)
    BY <1>6, <1>8, <1>9, <1>10, <1>11, <2>1
  <2>3. /\ Len(Append(Out, Frame(f, k))) = Len(Out) + 1
        /\ \A j \in 1 .. Len(Out) : Append(Out, Frame(f, k))[j] = Out[j]
        /\ Append(Out, Frame(f, k))[Len(Out) + 1] = Frame(f, k)
    BY <1>4, <2>2, AppendProperties
  <2>4. Len(Out') = m + (k + 1) /\ Len(Out) + 1 = m + k + 1
    BY <1>3, <1>4, <1>10, <2>2, <2>3
  <2>5. Whole[m + k + 1] = Frame(f, k)
    <3>1. k \in 0 .. ((d \div w) - 1)
      <4>1. k + 1 <= d \div w
        BY <1>10, <1>11
      <4> QED
        BY <1>10, <4>1
    <3> QED
      BY <1>7, <3>1
  <2>6. ASSUME NEW j \in 1 .. Len(Out') PROVE Out'[j] = Whole[j]
    <3>1. j \in 1 .. Len(Out) \/ j = m + k + 1
      BY <1>3, <1>4, <1>10, <2>4, <2>6
    <3>2. CASE j \in 1 .. Len(Out)
      BY <1>4, <2>2, <2>3, <3>2
    <3>3. CASE j = m + k + 1
      BY <2>2, <2>3, <2>4, <2>5, <3>3
    <3> QED
      BY <3>1, <3>2, <3>3
  <2>7. Len(Out') = m + ((n + 1) \div w)
    BY <1>10, <1>11, <2>4
  <2> QED
    BY <1>4, <2>1, <2>2, <2>6, <2>7 DEF f, n, w, m
<1>12. CASE (n + 1) % w # 0
  <2>1. pcm'.wr_en = FALSE
    BY <1>5, <1>12, Zenon
  <2>2. Out' = Out
    BY <1>9, <2>1
  <2>3. Len(Out') = m + ((n + 1) \div w)
    BY <1>4, <1>10, <1>12, <2>2
  <2> QED
    BY <1>4, <2>1, <2>2, <2>3 DEF f, n, w, m
<1> QED
  BY <1>11, <1>12

\* A clock in the data keeps the frames in order.
LEMMA PcmFrames ==
    ASSUME TwoWords, NarrowReads, NEW tg, InStep(tg), ParserIInv, ParserIInv', FormatInv, ToggleInv(tg),
           ChannelInv, OutInv, AnyClk, sent' = Out, fsm.chunk = "PCM"
    PROVE  ToggleInv(tg)' /\ ChannelInv' /\ OutInv'
<1>0. TypeOK /\ StreamInv /\ FsmClk
  BY ParserClk DEF ParserIInv
<1>1. /\ Cur \in Place /\ Cur[1] \in 1 .. Len(Files) /\ Cur[1] \in Nat /\ Cur[2] \in Nat
      /\ Passed \in Nat /\ Cur[2] = DataStart(Cur[1]) + Passed /\ DataStart(Cur[1]) \in {22, 23}
      /\ last_word_f <=> Cur[2] = FileWords(Cur[1]) - 1
      /\ last_word_f <=> Passed + 1 = DataWords(Cur[1])
  BY PcmPlace
<1>2. ~ChunkEnds /\ fsm'.chunk = NextChunk
  BY <1>0 DEF ChunkEnds, FsmClk
<1>3. tggl_f' = (tg[Cur[1]] + (IF FrameWords(Cur[1]) > 1
                               THEN IF rd_pipe[3] THEN Passed + 1 ELSE Passed ELSE 0)) % 4
  BY PcmWrites
<1>4. FrameWords(Cur[1])' = FrameWords(Cur'[1])
  BY DEF FrameWords
<1>5. CASE ~rd_pipe[3]
  <2>1. Cur' = Cur
    BY <1>0, <1>5, CurMoves
  <2>2. fsm'.chunk = "PCM"
    BY <1>2, <1>5 DEF NextChunk, end_of_file_c, sram_rd_data_valid_ih
  <2>3. Passed' = Passed /\ Complete' = Complete
    BY <2>1, <2>2, Primed DEF Passed, Complete
  <2>4. pcm'.wr_en = FALSE
    <3>1. pcm'.wr_en = (rd_pipe[3] /\ (Passed + 1) % FrameWords(Cur[1]) = 0)
      BY PcmWrites
    <3> QED
      BY <1>5, <3>1, Zenon
  <2>5. OutInv'
    BY <2>1, <2>3, <2>4, NoFrame
  <2>6. ToggleInv(tg)'
    BY <1>3, <1>4, <1>5, <2>1, <2>2, <2>3 DEF ToggleInv
  <2>7. ChannelInv'
    BY <1>5, <2>1, <2>3, ChannelKept
  <2> QED
    BY <2>5, <2>6, <2>7
<1>6. CASE rd_pipe[3]
  <2>1. Cur' = Succ(Cur)
    BY <1>0, <1>6, CurMoves
  <2>2. /\ sent' \in Seq(AllFrames) /\ pcm'.wr_en \in BOOLEAN
        /\ pcm'.wr_en => <<pcm'.l, pcm'.r>> \in AllFrames
        /\ Len(Out') = Len(FramesUpTo[Cur[1] - 1]) + ((Passed + 1) \div FrameWords(Cur[1]))
        /\ \A i \in 1 .. Len(Out') : Out'[i] = Whole[i]
    BY <1>6, OutWord
  <2>3. SUFFICES ToggleInv(tg)' /\ ChannelInv' /\ Len(Out') = Len(FramesUpTo[Cur'[1] - 1]) + Complete'
    BY <2>2, Primed DEF OutInv
  <2>4. CASE ~last_word_f
    <3>1. fsm'.chunk = "PCM"
      BY <1>2, <2>4 DEF NextChunk, end_of_file_c
    <3>2. Cur' = <<Cur[1], Cur[2] + 1>>
      BY <1>1, <2>1, <2>4, SuccFacts
    <3>3. Cur'[1] = Cur[1] /\ Cur'[2] = Cur[2] + 1
      BY <3>2
    <3>4. Passed' = Passed + 1
      <4>1. Passed' = (Cur[2] + 1) - DataStart(Cur[1])
        BY <3>1, <3>3, Primed
      <4> QED
        BY <1>1, <4>1
    <3>5. Complete' = (Passed + 1) \div FrameWords(Cur[1])
      BY <3>1, <3>3, <3>4, Primed
    <3>6. ToggleInv(tg)'
      BY <1>3, <1>4, <1>6, <3>1, <3>3, <3>4 DEF ToggleInv
    <3>7. ChannelInv'
      BY <1>6, <3>2, <3>4, ChannelWord
    <3> QED
      BY <2>2, <3>3, <3>5, <3>6, <3>7
  <2>5. CASE last_word_f
    <3>1. fsm'.chunk = "WAVE"
      BY <1>2, <1>6, <2>5 DEF NextChunk, end_of_file_c, sram_rd_data_valid_ih
    <3>2. Cur' = <<Cur[1] + 1, 0>>
      BY <1>1, <2>1, <2>5, SuccFacts
    <3>3. Cur'[1] = Cur[1] + 1 /\ Cur'[1] - 1 = Cur[1]
      BY <1>1, <3>2
    <3>4. Complete' = 0
      BY <3>1, Primed
    <3>5. /\ Len(FramesUpTo[Cur[1]]) = Len(FramesUpTo[Cur[1] - 1]) + (DataWords(Cur[1]) \div FrameWords(Cur[1]))
          /\ Len(FramesUpTo[Cur[1]]) \in Nat
      <4>1. Cur[1] \in 0 .. Len(Files)
        BY <1>1, FilesAssumption
      <4> QED
        BY <1>1, <4>1, UpToFacts, UpToPrefix
    <3>6. Len(Out') = Len(FramesUpTo[Cur'[1] - 1]) + Complete'
      <4>1. Passed + 1 = DataWords(Cur[1])
        BY <1>1, <2>5
      <4>2. Len(Out') = Len(FramesUpTo[Cur[1]])
        BY <2>2, <3>5, <4>1
      <4> QED
        BY <3>3, <3>4, <3>5, <4>2
    <3>7. tggl_f' = tg[Cur'[1]]
      <4>1. tg[Cur[1] + 1] = (tg[Cur[1]] + (IF FrameWords(Cur[1]) > 1 THEN DataWords(Cur[1]) ELSE 0)) % 4
        BY <1>1 DEF InStep, TogglesOf
      <4>2. Passed + 1 = DataWords(Cur[1])
        BY <1>1, <2>5
      <4> QED
        BY <1>3, <1>6, <3>3, <4>1, <4>2
    <3>8. ToggleInv(tg)'
      BY <3>1, <3>7 DEF ToggleInv
    <3>9. ChannelInv'
      BY <3>1 DEF ChannelInv
    <3> QED
      BY <3>6, <3>8, <3>9
  <2> QED
    BY <2>4, <2>5
<1> QED
  BY <1>5, <1>6

-----------------------------------------------------------------------------
(* The other steps, and the theorem                                         *)

\* Steps that leave the parser and its frames alone.
LEMMA FramesLeft ==
    ASSUME NEW tg, FrameInv(tg), UNCHANGED <<rd_pipe, pos, rd_data, parseVars, sent>>
    PROVE  FrameInv(tg)'
<1>1. /\ fsm' = fsm /\ pst' = pst /\ num_chnnls_f' = num_chnnls_f /\ bps_f' = bps_f /\ tggl_f' = tggl_f
      /\ pcm' = pcm /\ rd_pipe' = rd_pipe /\ rd_data' = rd_data /\ sent' = sent
  BY DEF parseVars
<1>2. Cur' = Cur
  BY DEF Cur
<1>3. Passed' = Passed /\ Complete' = Complete /\ Out' = Out
  BY <1>1, <1>2, Primed DEF Passed, Complete, Out
<1>4. FormatInv'
  BY <1>1, <1>2 DEF FrameInv, FormatInv, FmtFields, DualKnown, WideKnown
<1>5. ToggleInv(tg)'
  <2>1. FrameWords(Cur[1])' = FrameWords(Cur[1])
    BY <1>2 DEF FrameWords
  <2> QED
    BY <1>1, <1>2, <1>3, <2>1 DEF FrameInv, ToggleInv
<1>6. ChannelInv'
  BY <1>1, <1>2, <1>3 DEF FrameInv, ChannelInv, WideHalf
<1>7. OutInv'
  <2>1. Whole' = Whole /\ AllFrames' = AllFrames
    BY Primed
  <2> QED
    BY <1>1, <1>2, <1>3, <2>1 DEF FrameInv, OutInv
<1> QED
  BY <1>4, <1>5, <1>6, <1>7 DEF FrameInv

\* A cleared parser has made no frame.
FramesCleared ==
    /\ rd_pipe = <<FALSE, FALSE, FALSE>> /\ pos = <<1, 0>>
    /\ fsm = [status |-> "IDLE", chunk |-> "WAVE", field |-> "ID"]
    /\ tggl_f = 0 /\ pcm = [wr_en |-> FALSE, l |-> Zero, r |-> Zero] /\ sent = <<>>

\* A cleared parser, before a step and after it, is in order.
LEMMA FramesStart ==
    ASSUME TwoWords, NEW tg, InStep(tg)
    PROVE  (FramesCleared => FrameInv(tg)) /\ (FramesCleared' => FrameInv(tg)')
<1>1. tg[1] = 0 /\ FramesUpTo[0] = <<>> /\ Len(<<>>) = 0 /\ 1 - 1 = 0
  BY FramesRec DEF InStep, TogglesOf
<1>2. ASSUME FramesCleared PROVE FrameInv(tg)
  <2>1. Cur = <<1, 0>> /\ Out = <<>> /\ Complete = 0 /\ fsm.chunk = "WAVE" /\ fsm.field = "ID"
    BY <1>2 DEF FramesCleared, Cur, Out, Complete
  <2>2. Cur[1] = 1
    BY <2>1
  <2>3. OutInv
    <3>1. sent \in Seq(AllFrames) /\ pcm.wr_en = FALSE
      BY <1>2 DEF FramesCleared
    <3>2. Len(FramesUpTo[Cur[1] - 1]) = 0
      BY <1>1, <2>2
    <3>3. Len(Out) = 0 /\ 1 .. 0 = {} /\ 0 + 0 = 0
      BY <2>1
    <3> QED
      BY <2>1, <3>1, <3>2, <3>3 DEF OutInv
  <2> QED
    BY <1>1, <1>2, <2>1, <2>2, <2>3 DEF FramesCleared, FrameInv, FormatInv, ToggleInv, ChannelInv
<1>3. ASSUME FramesCleared' PROVE FrameInv(tg)'
  <2>1. Cur' = <<1, 0>> /\ Out' = <<>> /\ Complete' = 0 /\ fsm'.chunk = "WAVE" /\ fsm'.field = "ID"
    BY <1>3 DEF FramesCleared, Cur, Out, Complete
  <2>2. Cur'[1] = 1
    BY <2>1
  <2>3. OutInv'
    <3>1. sent' \in Seq(AllFrames) /\ pcm'.wr_en = FALSE
      BY <1>3 DEF FramesCleared
    <3>2. Len(FramesUpTo[Cur'[1] - 1]) = 0
      BY <1>1, <2>2
    <3>3. Len(Out') = 0 /\ 1 .. 0 = {} /\ 0 + 0 = 0
      BY <2>1
    <3> QED
      BY <2>1, <3>1, <3>2, <3>3, Primed DEF OutInv
  <2> QED
    BY <1>1, <1>3, <2>1, <2>2, <2>3 DEF FramesCleared, FrameInv, FormatInv, ToggleInv, ChannelInv
<1> QED
  BY <1>2, <1>3

\* Every step keeps the frames in order.
LEMMA FrameStep ==
    ASSUME TwoWords, NarrowReads, NEW tg, InStep(tg), ParserIInv, FrameInv(tg), [MCNext]_<<vars, sent>>
    PROVE  ParserIInv' /\ FrameInv(tg)'
<1>1. ParserIInv'
  <2>1. [Next]_vars
    BY DEF MCNext, Next, vars
  <2> QED
    BY <2>1, ParserStep
<1>2. CASE AnyClk /\ sent' = Out
  <2>1. FormatInv /\ ToggleInv(tg) /\ ChannelInv /\ OutInv /\ tg \in [1 .. (Len(Files) + 1) -> 0 .. 3]
    BY DEF FrameInv, InStep, TogglesOf
  <2>2. FormatInv'
    BY <1>1, <1>2, <2>1, FormatClk
  <2>3. ToggleInv(tg)' /\ ChannelInv' /\ OutInv'
    BY <1>1, <1>2, <2>1, HeaderFrames, PcmFrames
  <2> QED
    BY <1>1, <2>2, <2>3 DEF FrameInv
<1>3. CASE (Fill \/ DacTake \/ (\E en \in BOOLEAN : HostEnable(en))) /\ UNCHANGED sent
  <2>1. UNCHANGED <<rd_pipe, pos, rd_data, parseVars, sent>>
    BY <1>3 DEF Fill, DacTake, HostEnable
  <2> QED
    BY <1>1, <2>1, FramesLeft
<1>4. CASE HostReset /\ sent' = <<>>
  <2>1. FramesCleared'
    BY <1>4 DEF HostReset, FramesCleared
  <2> QED
    BY <1>1, <2>1, FramesStart
<1>5. CASE UNCHANGED <<vars, sent>>
  <2>1. UNCHANGED <<rd_pipe, pos, rd_data, parseVars, sent>>
    BY <1>5 DEF vars
  <2> QED
    BY <1>1, <2>1, FramesLeft
<1> QED
  BY <1>2, <1>3, <1>4, <1>5 DEF MCNext, AnyClk, Out

\* The frames made are the first ones of all.
LEMMA FramesImplied ==
    ASSUME TwoWords, NEW tg, ParserIInv, FrameInv(tg)
    PROVE  FramesInOrder
<1>1. Whole \in Seq(AllFrames) /\ Len(Whole) \in Nat
  <2>1. Len(Files) \in 0 .. Len(Files)
    BY FilesAssumption
  <2> QED
    BY <2>1, FramesRec DEF Whole
<1>2. OutInv
  BY DEF FrameInv
<1>3. Out \in Seq(AllFrames) /\ Len(Out) \in Nat /\ sent \in Seq(AllFrames) /\ Len(sent) \in Nat
  BY <1>2, OutFacts DEF OutInv
<1>4. Len(Out) <= Len(Whole)
  <2>1. CASE fsm.chunk = "PCM"
    <3> DEFINE f == Cur[1]
               w == FrameWords(f)
    <3>1. f \in 1 .. Len(Files) /\ Passed \in Nat /\ DataWords(f) \in Nat /\ Passed < DataWords(f)
      BY <2>1, PcmPlace
    <3>2. w \in {1, 2, 4}
      BY <3>1, FormatFacts
    <3>3. Complete = Passed \div w
      BY <2>1 DEF Complete
    <3>4. Len(Out) = Len(FramesUpTo[f - 1]) + Complete
      BY <1>2 DEF OutInv
    <3>5. /\ Len(FramesUpTo[f - 1]) \in Nat
          /\ Len(FramesUpTo[f]) = Len(FramesUpTo[f - 1]) + (DataWords(f) \div w)
      BY <3>1, UpToFacts
    <3>6. Len(FramesUpTo[f]) <= Len(Whole) /\ Len(FramesUpTo[f]) \in Nat
      <4>1. f \in 0 .. Len(Files)
        BY <3>1, FilesAssumption
      <4> QED
        BY <4>1, UpToPrefix
    <3> HIDE DEF f, w
    <3>7. Passed + 1 \in Nat /\ Passed + 1 <= DataWords(f)
      BY <3>1
    <3>8. /\ Passed \div w \in Nat /\ (Passed + 1) \div w \in Nat /\ DataWords(f) \div w \in Nat
          /\ (Passed + 1) \div w \in {Passed \div w, (Passed \div w) + 1}
          /\ (Passed + 1) \div w <= DataWords(f) \div w
      BY <3>1, <3>2, <3>7, OneMoreWord, Zenon
    <3> QED
      BY <1>1, <3>3, <3>4, <3>5, <3>6, <3>8
  <2>2. CASE fsm.chunk # "PCM"
    <3>1. Complete = 0 /\ Len(Out) = Len(FramesUpTo[Cur[1] - 1]) + Complete
      BY <1>2, <2>2 DEF OutInv, Complete
    <3>2. Cur[1] \in 1 .. (Len(Files) + 1)
      BY FilesAssumption DEF ParserIInv, StreamInv, Cur, Place, EndOfStream
    <3>3. Cur[1] - 1 \in 0 .. Len(Files)
      BY <3>2, FilesAssumption
    <3>4. Len(FramesUpTo[Cur[1] - 1]) \in Nat /\ Len(FramesUpTo[Cur[1] - 1]) <= Len(Whole)
      BY <3>3, UpToPrefix
    <3> QED
      BY <3>1, <3>4
  <2> QED
    BY <2>1, <2>2
<1>5. Len(sent) <= Len(Out) /\ \A i \in 1 .. Len(sent) : sent[i] = Out[i]
  <2>1. CASE pcm.wr_en
    BY <1>2, <2>1, AppendProperties DEF OutInv, Out
  <2>2. CASE ~pcm.wr_en
    BY <1>3, <2>2 DEF Out
  <2> QED
    BY <1>2, <2>1, <2>2 DEF OutInv
<1>6. Len(sent) <= Len(Whole) /\ \A i \in 1 .. Len(sent) : sent[i] = Whole[i]
  BY <1>1, <1>2, <1>3, <1>4, <1>5 DEF OutInv
<1>7. SubSeq(sent, 1, Len(sent)) = SubSeq(Whole, 1, Len(sent))
  <2>1. /\ SubSeq(sent, 1, Len(sent)) = [i \in 1 .. Len(sent) |-> sent[i]]
        /\ SubSeq(Whole, 1, Len(sent)) = [i \in 1 .. Len(sent) |-> Whole[i]]
    BY <1>1, <1>3, <1>6
  <2> QED
    BY <1>6, <2>1
<1> QED
  BY <1>6, <1>7 DEF FramesInOrder, IsPrefix, Whole

\* For every stream of files with two words of data or more, none of which begins with
\* the toggle in the middle of a frame, and a host that leaves the SRAM alone while
\* 32-bit samples are played: whatever the arbiter, the DAC and the host's enables and
\* resets do, what has entered the PCM FIFO are the first frames of the files, in
\* order, each once and whole (wav_prsr, "Logic for formatting PCM data").
THEOREM FramesKept ==
    ASSUME TwoWords, Aligned, NarrowReads
    PROVE  MCSpec => []FramesInOrder
<1>1. PICK tg \in [1 .. (Len(Files) + 1) -> 0 .. 3] : InStep(tg)
  BY DEF Aligned
<1>2. MCInit => ParserIInv /\ FrameInv(tg)
  <2>1. MCInit => Cleared /\ FramesCleared
    BY DEF MCInit, Init, Cleared, FramesCleared
  <2> QED
    BY <1>1, <2>1, ParserCleared, FramesStart
<1>3. ParserIInv /\ FrameInv(tg) /\ [MCNext]_<<vars, sent>> => ParserIInv' /\ FrameInv(tg)'
  BY <1>1, FrameStep
<1>4. ParserIInv /\ FrameInv(tg) => FramesInOrder
  BY <1>1, FramesImplied
<1> QED
  BY <1>2, <1>3, <1>4, PTL DEF MCSpec
=============================================================================
