---------------------------- MODULE LedosProofs ----------------------------
(***************************************************************************)
(* Proofs about module MCLedos, in which the parts of LEDOS meet, for      *)
(* every value of its constants: the shell and the visualisation thread    *)
(* (ShellCorrect), the register maps and the drivers' use of them          *)
(* (RegistersCorrect), and the table of open files (SharingCorrect).       *)
(***************************************************************************)
EXTENDS MCLedos, TLAPS, FiniteSetTheorems, SequenceTheorems, WellFoundedInduction

\* A set of naturals that is not empty has a least element.
LEMMA LeastNat ==
    ASSUME NEW T \in SUBSET Nat, T # {}
    PROVE  \E x \in T : \A y \in T : x <= y
<1>1. PICK x \in T : \A y \in T : ~(<<y, x>> \in OpToRel(<, Nat))
  BY NatLessThanWellFounded, WFMin
<1>2. \A y \in T : ~(y < x)
  BY <1>1 DEF OpToRel
<1> QED
  BY <1>2

-----------------------------------------------------------------------------
(* The shell, the visualisation thread and the audio drivers under them      *)

\* The fields, words and register writes that occur in a driver call.
CallFields == {ADC_HPD, DAC_MU, DAC_SEL, LINEINPD, ADCPD, DACPD, OUTPD, PWROFF, IWL, SR, IF_ACTIVE}
QuietRegs == {"reset", "i2c_clk", "bps", "div", "mclk_off", "mclk_sel", "mclk_en", "norm_l", "norm_r",
              "vcortex", "dac"}
RegNames == {"dac", "adc", "bps", "div", "mclk_sel", "mclk_en", "i2c_clk", "norm_l", "norm_r",
             "vcortex", "fg_l", "fg_r"}

\* A word of the codec.
NineBits == 0 .. 511

BusAccesses == [k : {"reset"}] \cup [k : {"word"}, i : 0 .. 9, v : NineBits]
               \cup [k : {"field"}, f : CallFields, v : Nat]

\* The accesses of the initialisation, and those of every call.
QuietAccesses == BusAccesses \cup [k : {"io"}, r : QuietRegs, v : Nat]
Accesses == QuietAccesses \cup [k : {"io"}, r : {"fg_l", "fg_r", "capture"}, v : Nat]
            \cup [k : {"capwait"}] \cup [k : {"half"}, a : 0 .. (2 * CapDepth - 1)]

LEMMA NineBitsAre == \A x : x \in NineBits <=> x \in Nat /\ x < 512
  BY DEF NineBits

\* The words that codec_init sends.
LEMMA InitWordsFit == {0, 1, 15, 16, 23, 249} \subseteq NineBits
  BY NineBitsAre

\* What the kind of an access says about it.
LEMMA AccessKinds ==
    ASSUME NEW s \in Accesses
    PROVE  /\ s.k = "word" => s.i \in 0 .. 9 /\ s.v \in NineBits
           /\ s.k = "field" => s.f \in CallFields /\ s.v \in Nat
           /\ s.k = "io" => /\ s.v \in Nat
                            /\ s.r \in QuietRegs \cup {"fg_l", "fg_r", "capture"}
  BY DEF Accesses, QuietAccesses, BusAccesses

\* What the initialisation leaves alone: the enables of the engines.
LEMMA QuietKinds ==
    ASSUME NEW s \in QuietAccesses
    PROVE  s \in Accesses /\ (s.k = "io" => s.r \in QuietRegs)
  BY DEF Accesses, QuietAccesses, BusAccesses

\* The fields of codec.h that are written, in numbers.
LEMMA FieldValues ==
    /\ ADC_HPD = [idx |-> 5, off |-> 1, msk |-> 2] /\ DAC_MU = [idx |-> 5, off |-> 8, msk |-> 2]
    /\ DAC_SEL = [idx |-> 4, off |-> 16, msk |-> 2] /\ LINEINPD = [idx |-> 6, off |-> 1, msk |-> 2]
    /\ ADCPD = [idx |-> 6, off |-> 4, msk |-> 2] /\ DACPD = [idx |-> 6, off |-> 8, msk |-> 2]
    /\ OUTPD = [idx |-> 6, off |-> 16, msk |-> 2] /\ PWROFF = [idx |-> 6, off |-> 128, msk |-> 2]
    /\ IWL = [idx |-> 7, off |-> 4, msk |-> 4] /\ SR = [idx |-> 8, off |-> 4, msk |-> 16]
    /\ IF_ACTIVE = [idx |-> 9, off |-> 1, msk |-> 2]
  BY DEF ADC_HPD, DAC_MU, DAC_SEL, LINEINPD, ADCPD, DACPD, OUTPD, PWROFF, IWL, SR, IF_ACTIVE, F,
         DIGITAL_AUD_PATH, ANALOG_AUD_PATH, POWER_DOWN, DIGITAL_AUD_IF_FMT, SAMPLING_CTRL, ACTIVE_CTRL

\* A field written into a word of nine bits leaves nine bits.
LEMMA SetFieldFits ==
    ASSUME NEW w \in Nat, w < 512, NEW f \in CallFields, NEW v \in Nat
    PROVE  SetField(w, f, v) \in Nat /\ SetField(w, f, v) < 512 /\ f.idx \in 4 .. 9
<1>1. CASE f = ADC_HPD
  <2>1. f.idx = 5 /\ f.off = 1 /\ f.msk = 2
    BY <1>1, FieldValues
  <2> QED
    BY <2>1 DEF SetField, Field
<1>2. CASE f = DAC_MU
  <2>1. f.idx = 5 /\ f.off = 8 /\ f.msk = 2
    BY <1>2, FieldValues
  <2> QED
    BY <2>1 DEF SetField, Field
<1>3. CASE f = DAC_SEL
  <2>1. f.idx = 4 /\ f.off = 16 /\ f.msk = 2
    BY <1>3, FieldValues
  <2> QED
    BY <2>1 DEF SetField, Field
<1>4. CASE f = LINEINPD
  <2>1. f.idx = 6 /\ f.off = 1 /\ f.msk = 2
    BY <1>4, FieldValues
  <2> QED
    BY <2>1 DEF SetField, Field
<1>5. CASE f = ADCPD
  <2>1. f.idx = 6 /\ f.off = 4 /\ f.msk = 2
    BY <1>5, FieldValues
  <2> QED
    BY <2>1 DEF SetField, Field
<1>6. CASE f = DACPD
  <2>1. f.idx = 6 /\ f.off = 8 /\ f.msk = 2
    BY <1>6, FieldValues
  <2> QED
    BY <2>1 DEF SetField, Field
<1>7. CASE f = OUTPD
  <2>1. f.idx = 6 /\ f.off = 16 /\ f.msk = 2
    BY <1>7, FieldValues
  <2> QED
    BY <2>1 DEF SetField, Field
<1>8. CASE f = PWROFF
  <2>1. f.idx = 6 /\ f.off = 128 /\ f.msk = 2
    BY <1>8, FieldValues
  <2> QED
    BY <2>1 DEF SetField, Field
<1>9. CASE f = IWL
  <2>1. f.idx = 7 /\ f.off = 4 /\ f.msk = 4
    BY <1>9, FieldValues
  <2> QED
    BY <2>1 DEF SetField, Field
<1>10. CASE f = SR
  <2>1. f.idx = 8 /\ f.off = 4 /\ f.msk = 16
    BY <1>10, FieldValues
  <2> QED
    BY <2>1 DEF SetField, Field
<1>11. CASE f = IF_ACTIVE
  <2>1. f.idx = 9 /\ f.off = 1 /\ f.msk = 2
    BY <1>11, FieldValues
  <2> QED
    BY <2>1 DEF SetField, Field
<1> QED
  BY <1>1, <1>2, <1>3, <1>4, <1>5, <1>6, <1>7, <1>8, <1>9, <1>10, <1>11 DEF CallFields

\* The power-on words of the codec have nine bits.
LEMMA PorFits == Por \in [0 .. 9 -> NineBits]
<1>1. \A i \in 0 .. 9 : PorWord[i + 1] \in Nat
  BY DEF PorWord
<1>2. \A x \in Nat : x % 512 \in NineBits
  BY NineBitsAre
<1> QED
  BY <1>1, <1>2 DEF Por

-----------------------------------------------------------------------------
(* The calls are made of typed accesses.                                     *)

\* A call of one access.
LEMMA OneAccess ==
    ASSUME NEW S, NEW x \in S
    PROVE  <<x>> \in Seq(S)
  OBVIOUS

\* A sampling rate indexes the three look-up tables.
LEMMA RateFacts ==
    ASSUME NEW fs \in Rates
    PROVE  /\ fs \in 0 .. 5
           /\ At(fs2sr_lookup, fs) \in Nat /\ At(fs2mclk_lookup, fs) \in Nat
           /\ At(fs2div_lookup, fs) \in Nat
<1>1. fs \in 0 .. 5
  BY AudioConstants DEF FS_T
<1> QED
  BY <1>1 DEF At, fs2sr_lookup, fs2mclk_lookup, fs2div_lookup

\* The single accesses.
LEMMA Singles ==
    /\ codec_reset \in Seq(QuietAccesses)
    /\ \A f \in CallFields, v \in Nat : codec_config_reg(f, v) \in Seq(QuietAccesses)
    /\ \A i \in 0 .. 9, v \in NineBits : SendWord(i, v) \in Seq(QuietAccesses)
    /\ \A r \in QuietRegs, v \in Nat : Io(r, v) \in Seq(QuietAccesses)
    /\ \A r \in {"fg_l", "fg_r", "capture"}, v \in Nat : Io(r, v) \in Seq(Accesses)
<1>1. [k |-> "reset"] \in QuietAccesses
  BY DEF QuietAccesses, BusAccesses
<1>2. ASSUME NEW f \in CallFields, NEW v \in Nat
      PROVE  [k |-> "field", f |-> f, v |-> v] \in QuietAccesses
  BY DEF QuietAccesses, BusAccesses
<1>3. ASSUME NEW i \in 0 .. 9, NEW v \in NineBits
      PROVE  [k |-> "word", i |-> i, v |-> v] \in QuietAccesses
  BY DEF QuietAccesses, BusAccesses
<1>4. ASSUME NEW r \in QuietRegs, NEW v \in Nat
      PROVE  [k |-> "io", r |-> r, v |-> v] \in QuietAccesses
  BY DEF QuietAccesses
<1>5. ASSUME NEW r \in {"fg_l", "fg_r", "capture"}, NEW v \in Nat
      PROVE  [k |-> "io", r |-> r, v |-> v] \in Accesses
  BY DEF Accesses
<1> QED
  BY <1>1, <1>2, <1>3, <1>4, <1>5, OneAccess, Zenon
     DEF codec_reset, codec_config_reg, SendWord, Io

\* Two typed parts make a typed whole.
LEMMA Joined ==
    ASSUME NEW S, NEW a \in Seq(S), NEW b \in Seq(S)
    PROVE  a \o b \in Seq(S)
  BY ConcatProperties, Zenon

\* What the initialisation may do, a call may do.
LEMMA Widened ==
    ASSUME NEW a \in Seq(QuietAccesses)
    PROVE  a \in Seq(Accesses)
  BY SeqMonotonic, QuietKinds

\* codec_init.
LEMMA CodecInitTyped ==
    ASSUME NEW fs \in Rates, NEW bps \in {0, 1}
    PROVE  codec_init(bps, fs) \in Seq(QuietAccesses)
<1> DEFINE Q == Seq(QuietAccesses)
<1> DEFINE a1 == SendWord(6, 16)   a2 == SendWord(0, 23)   a3 == SendWord(1, 23)
           a4 == SendWord(2, 249)  a5 == SendWord(3, 249)  a6 == SendWord(5, 0)
           a7 == SendWord(7, 15)   a8 == SendWord(9, 1)    a9 == SendWord(6, 0)
<1>1. a1 \in Q /\ a2 \in Q /\ a3 \in Q /\ a4 \in Q /\ a5 \in Q /\ a6 \in Q /\ a7 \in Q /\ a8 \in Q /\ a9 \in Q
  <2>1. \A i \in 0 .. 9, v \in NineBits : SendWord(i, v) \in Q
    BY Singles, Zenon
  <2> DEFINE V == {0, 1, 15, 16, 23, 249}
  <2>2. V \subseteq NineBits
    BY InitWordsFit
  <2> HIDE DEF Q, V
  <2>3. \A i \in 0 .. 9, v \in V : SendWord(i, v) \in Q
    BY <2>1, <2>2, Zenon
  <2> QED
    BY <2>3 DEF V
<1>2. codec_reset \in Q
  BY Singles
<1>3. bps2iwl_lookup[bps] \in Nat
  BY DEF bps2iwl_lookup
<1>4. IWL \in CallFields /\ SR \in CallFields
  BY DEF CallFields
<1>5. codec_iwl_update(bps2iwl_lookup[bps]) \in Q
  BY <1>3, <1>4, Singles DEF codec_iwl_update
<1>6. codec_sr_update(At(fs2sr_lookup, fs)) \in Q
  BY <1>4, RateFacts, Singles DEF codec_sr_update
<1> HIDE DEF Q, a1, a2, a3, a4, a5, a6, a7, a8, a9
<1>7. \A a, b \in Q : a \o b \in Q
  BY Joined DEF Q
<1> DEFINE c1 == codec_reset \o a1 \o a2
           c2 == c1 \o a3 \o a4 \o a5
           c3 == c2 \o a6 \o a7
           c4 == c3 \o codec_iwl_update(bps2iwl_lookup[bps]) \o codec_sr_update(At(fs2sr_lookup, fs))
<1>8. c1 \in Q
  BY <1>1, <1>2, <1>7, Zenon
<1> HIDE DEF c1
<1>9. c2 \in Q
  BY <1>1, <1>8, <1>7, Zenon
<1> HIDE DEF c2
<1>10. c3 \in Q
  BY <1>1, <1>9, <1>7, Zenon
<1> HIDE DEF c3
<1>11. c4 \in Q
  BY <1>5, <1>6, <1>10, <1>7, Zenon
<1> HIDE DEF c4
<1>12. c4 \o a8 \o a9 \in Q
  BY <1>1, <1>11, <1>7, Zenon
<1> QED
  BY <1>12 DEF codec_init, c4, c3, c2, c1, a1, a2, a3, a4, a5, a6, a7, a8, a9, Q

\* update_mclk.
LEMMA MclkTyped ==
    ASSUME NEW fs \in 0 .. 5
    PROVE  update_mclk(fs) \in Seq(QuietAccesses)
<1>1. At(fs2mclk_lookup, fs) \in Nat
  BY DEF At, fs2mclk_lookup
<1>2. "mclk_off" \in QuietRegs /\ "mclk_sel" \in QuietRegs /\ "mclk_en" \in QuietRegs /\ 0 \in Nat /\ 1 \in Nat
  BY DEF QuietRegs
<1>3. /\ Io("mclk_off", 0) \in Seq(QuietAccesses) /\ Io("mclk_en", 1) \in Seq(QuietAccesses)
      /\ Io("mclk_sel", At(fs2mclk_lookup, fs)) \in Seq(QuietAccesses)
  BY <1>1, <1>2, Singles, Zenon
<1> QED
  BY <1>3, Joined, Zenon DEF update_mclk

\* The initialisation does not touch the enables of the transform engines.
LEMMA InitLedosTyped ==
    ASSUME NEW fs \in Rates, NEW bps \in {0, 1}
    PROVE  init_ledos(fs, bps) \in Seq(QuietAccesses)
<1> DEFINE Q == Seq(QuietAccesses)
<1>1. update_mclk(fs) \in Q
  BY MclkTyped, RateFacts
<1>2. codec_init(bps, fs) \in Q
  BY CodecInitTyped
<1>3. /\ "reset" \in QuietRegs /\ "i2c_clk" \in QuietRegs /\ "bps" \in QuietRegs /\ "div" \in QuietRegs
      /\ "norm_l" \in QuietRegs /\ "norm_r" \in QuietRegs /\ "vcortex" \in QuietRegs
  BY DEF QuietRegs
<1>4. /\ 0 \in Nat /\ 1 \in Nat /\ 5 \in Nat /\ 100 \in Nat /\ bps \in Nat
      /\ At(fs2div_lookup, fs) \in Nat
  BY RateFacts
<1>5. /\ Io("reset", 0) \in Q /\ Io("i2c_clk", 100) \in Q /\ Io("bps", bps) \in Q
      /\ Io("div", At(fs2div_lookup, fs)) \in Q /\ Io("norm_l", 5) \in Q /\ Io("norm_r", 5) \in Q
      /\ Io("vcortex", 1) \in Q
  BY <1>3, <1>4, Singles, Zenon
<1> HIDE DEF Q
<1>6. \A a, b \in Q : a \o b \in Q
  BY Joined DEF Q
<1>7. acortex_init(fs, bps) \in Q
  BY <1>1, <1>5, <1>6, Zenon DEF acortex_init
<1>8. cortex_init(fs, bps) \in Q
  BY <1>5, <1>6, <1>7, Zenon DEF cortex_init
<1>9. init_ledos(fs, bps) \in Q
  BY <1>2, <1>6, <1>8, Zenon DEF init_ledos
<1> QED
  BY <1>9 DEF Q

\* codec_dac_activate and codec_dac_inactivate.
LEMMA DacTyped == codec_dac_activate \in Seq(QuietAccesses) /\ codec_dac_inactivate \in Seq(QuietAccesses)
<1>1. DACPD \in CallFields /\ DAC_SEL \in CallFields /\ DAC_MU \in CallFields /\ 0 \in Nat /\ 1 \in Nat
  BY DEF CallFields
<1>2. \A v \in {0, 1} : /\ codec_config_reg(DACPD, v) \in Seq(QuietAccesses)
                        /\ codec_config_reg(DAC_SEL, v) \in Seq(QuietAccesses)
                        /\ codec_config_reg(DAC_MU, v) \in Seq(QuietAccesses)
  BY <1>1, Singles, Zenon
<1> QED
  BY <1>2, Joined, Zenon DEF codec_dac_activate, codec_dac_inactivate

\* prep_cortex: the one call that starts the engines.
LEMMA PrepTyped ==
    ASSUME NEW fs \in Rates, NEW bps \in {0, 1}, NEW stereo \in BOOLEAN
    PROVE  prep_cortex(fs, bps, stereo) \in Seq(Accesses)
<1> DEFINE A == Seq(Accesses)
           w == IF bps = 0 THEN 0 ELSE 3
           m == IF fs \in {2, 4} THEN 3 ELSE 2
           e == IF stereo THEN Io("fg_r", 1) ELSE <<>>
<1>1. w \in Nat /\ m \in 0 .. 5 /\ fs \in Nat /\ 0 \in Nat /\ 1 \in Nat
  BY RateFacts
<1> HIDE DEF w, m
<1>2. /\ IF_ACTIVE \in CallFields /\ IWL \in CallFields /\ SR \in CallFields /\ "dac" \in QuietRegs
  BY DEF CallFields, QuietRegs
<1>3. /\ codec_config_reg(IF_ACTIVE, 0) \in Seq(QuietAccesses)
      /\ codec_iwl_update(w) \in Seq(QuietAccesses)
      /\ codec_config_reg(SR, fs) \in Seq(QuietAccesses)
      /\ Io("dac", 1) \in Seq(QuietAccesses)
  BY <1>1, <1>2, Singles, Zenon DEF codec_iwl_update
<1>4. /\ codec_config_reg(IF_ACTIVE, 0) \in A /\ codec_iwl_update(w) \in A
      /\ codec_config_reg(SR, fs) \in A /\ Io("dac", 1) \in A /\ codec_dac_inactivate \in A
      /\ update_mclk(m) \in A
  BY <1>1, <1>3, DacTyped, MclkTyped, Widened, Zenon
<1>5. Io("fg_l", 1) \in A /\ Io("fg_r", 1) \in A
  BY <1>1, Singles, Zenon
<1>6. e \in A
  BY <1>5
<1> HIDE DEF A, e
<1>7. \A a, b \in A : a \o b \in A
  BY Joined DEF A
<1>8. codec_config_reg(IF_ACTIVE, 0) \o codec_dac_inactivate \o codec_iwl_update(w)
        \o codec_config_reg(SR, fs) \in A
  BY <1>4, <1>7, Zenon
<1>9. codec_config_reg(IF_ACTIVE, 0) \o codec_dac_inactivate \o codec_iwl_update(w)
        \o codec_config_reg(SR, fs) \o update_mclk(m) \o Io("fg_l", 1) \o e \o Io("dac", 1) \in A
  BY <1>4, <1>5, <1>6, <1>7, <1>8, Zenon
<1> QED
  BY <1>9 DEF prep_cortex, A, w, m, e

\* adc_cap.
LEMMA CapTyped == adc_cap \in Seq(Accesses)
<1> DEFINE halves == [i \in 1 .. (2 * CapDepth) |-> [k |-> "half", a |-> i - 1]]
<1>1. 2 * CapDepth \in Nat
  BY AudioConstants
<1>2. ASSUME NEW i \in 1 .. (2 * CapDepth)
      PROVE  [k |-> "half", a |-> i - 1] \in Accesses
  BY <1>1, i - 1 \in 0 .. (2 * CapDepth - 1) DEF Accesses
<1>3. halves \in [1 .. (2 * CapDepth) -> Accesses]
  BY <1>2
<1> HIDE DEF halves
<1>4. halves \in Seq(Accesses)
  <2>1. \E n \in Nat : halves \in [1 .. n -> Accesses]
    BY <1>1, <1>3
  <2> QED
    BY <2>1, SeqDef, Zenon
<1>5. [k |-> "capwait"] \in Accesses
  BY DEF Accesses
<1>6. <<[k |-> "capwait"]>> \in Seq(Accesses)
  BY <1>5, OneAccess, Zenon
<1>7. Io("capture", 1) \in Seq(Accesses)
  BY Singles
<1>8. Io("capture", 1) \o <<[k |-> "capwait"]>> \o halves \in Seq(Accesses)
  BY <1>4, <1>6, <1>7, Joined, Zenon
<1> QED
  BY <1>8 DEF adc_cap, halves

\* Every call is made of typed accesses.
LEMMA StepsTyped ==
    ASSUME NEW c \in Calls
    PROVE  Steps(c) \in Seq(Accesses)
<1>1. c.v \in {0, 1} /\ c.v \in Nat /\ bps2iwl_lookup[c.v] \in Nat
  BY DEF Calls, bps2iwl_lookup
<1>2. c.n \in {"codec_init", "sr", "prep"} => c.fs \in Rates
  BY DEF Calls
<1>3. c.n \in {"codec_init", "dsp_if", "pwr_off", "linein", "lineout", "adc_hpf", "adc_pwr", "iwl",
               "sr", "prep", "dac_on", "dac_off", "adc_cap"}
  BY DEF Calls
<1>4. \A f \in CallFields, v \in Nat : codec_config_reg(f, v) \in Seq(Accesses)
  BY Singles, Widened, Zenon
<1>5. /\ codec_config_reg(IF_ACTIVE, c.v) \in Seq(Accesses) /\ codec_config_reg(PWROFF, c.v) \in Seq(Accesses)
      /\ codec_config_reg(LINEINPD, c.v) \in Seq(Accesses) /\ codec_config_reg(OUTPD, c.v) \in Seq(Accesses)
      /\ codec_config_reg(ADC_HPD, c.v) \in Seq(Accesses) /\ codec_config_reg(ADCPD, c.v) \in Seq(Accesses)
      /\ codec_iwl_update(bps2iwl_lookup[c.v]) \in Seq(Accesses)
  BY <1>1, <1>4 DEF CallFields, codec_iwl_update
<1>6. ASSUME c.n = "sr"
      PROVE  codec_sr_update(At(fs2sr_lookup, c.fs)) \in Seq(Accesses)
  BY <1>2, <1>4, <1>6, RateFacts DEF CallFields, codec_sr_update
<1>7. ASSUME c.n = "codec_init"
      PROVE  codec_init(c.v, c.fs) \in Seq(Accesses)
  BY <1>1, <1>2, <1>7, CodecInitTyped, Widened
<1>8. ASSUME c.n = "prep"
      PROVE  prep_cortex(c.fs, c.v, c.v = 1) \in Seq(Accesses)
  <2>1. (c.v = 1) \in BOOLEAN
    OBVIOUS
  <2> QED
    BY <1>1, <1>2, <1>8, <2>1, PrepTyped
<1>9. codec_dac_activate \in Seq(Accesses) /\ codec_dac_inactivate \in Seq(Accesses)
  BY DacTyped, Widened, Zenon
<1> QED
  BY <1>3, <1>5, <1>6, <1>7, <1>8, <1>9, CapTyped DEF Steps

\* The driver and its hardware: types, and a bus write is under way only for an
\* access that makes one.
AudioTypes ==
    /\ shadow \in [Idx -> NineBits] /\ dev \in [0 .. 9 -> NineBits]
    /\ i2c \in [data : [i : Idx, v : NineBits], busy : BOOLEAN, nack : BOOLEAN]
    /\ regs \in [RegNames -> Nat]
    /\ drv \in [call : {drv.call}, todo : Seq(Accesses), pc : {"step", "free", "done"},
                res : {"OK", "NACK"}, calls : Nat]
    /\ drv.pc # "step" => drv.todo # <<>> /\ Step \in BusAccesses

\* The states of the shell's rendezvous with the visualisation thread.
QuietPcs == {"prompt", "getc", "parse", "overrun", "pause", "exec"} \cup Calls_
ShellPcs == {"off", "send1", "sent1", "play", "send2", "sent2", "stopped"} \cup QuietPcs
AcidPcs == {"off", "start", "wait1", "rel1", "check", "paint", "sleep", "wait2", "rel2"}
Painting == {"check", "paint", "sleep"}

EnginesAre(v) == regs.fg_l = v /\ regs.fg_r = v /\ regs.adc = v

Rendezvous ==
    /\ sh.pc = "off" => acid.pc = "off" /\ msgq = <<>>
    /\ sh.pc = "prompt" => acid.pc \in {"start", "wait1"} /\ msgq = <<>>
    /\ sh.pc \in QuietPcs \ {"prompt"} => acid.pc = "wait1" /\ msgq = <<>>
    /\ sh.pc = "send1" => acid.pc = "wait1" /\ msgq = <<>>
    /\ sh.pc = "sent1" => \/ acid.pc = "wait1" /\ msgq = <<"shell">>
                          \/ acid.pc = "rel1" /\ msgq = <<>>
    /\ sh.pc \in {"play", "send2"} => acid.pc \in Painting /\ msgq = <<>>
    /\ sh.pc = "sent2" => \/ acid.pc \in Painting \cup {"wait2"} /\ msgq = <<"shell">>
                          \/ acid.pc = "rel2" /\ msgq = <<>>
    /\ sh.pc = "stopped" => acid.pc = "wait1" /\ msgq = <<>>
    /\ acid.pc \notin {"off", "start"} => acid.known

\* The engines run from the start of a plugin to its end.
EnginesFollow ==
    /\ sh.pc \in QuietPcs \/ (sh.pc = "off" /\ app = "shell") => EnginesAre(0)
    /\ sh.pc \in {"send1", "sent1", "play", "send2", "sent2", "stopped"} => EnginesAre(1)

\* The shell comes after the initialisation, and only in its own scenario.
InOrder == /\ app = "shell" => drv.todo \in Seq(QuietAccesses)
           /\ app # "shell" => sh.pc = "off"
           /\ sh.pc # "off" => drv.pc = "step" /\ drv.todo = <<>>

ShellTypes ==
    /\ sh \in [pc : ShellPcs, p : 0 .. (LineLen - 1), cmd : {sh.cmd}, argc : 0 .. MaxArgs,
               arg : {sh.arg}, reads : {sh.reads}, i : {sh.i}, eof : BOOLEAN]
    /\ line \in [0 .. (LineLen - 1) -> Chars]
    /\ fil \in [file : BOOLEAN, dir : BOOLEAN, kept : BOOLEAN]
    /\ sh.pc \notin OnFile /\ fil.file => fil.kept
    /\ acid \in [pc : AcidPcs, known : BOOLEAN, plugin : acid_box \cup {"none"}]
    /\ keys \in 0 .. MaxKeys

ShellInd == AudioTypes /\ ShellTypes /\ Rendezvous /\ EnginesFollow /\ InOrder

\* The invariant holds at power-on.
LEMMA ShellBegins == Init => ShellInd
<1> SUFFICES ASSUME Init PROVE ShellInd
  OBVIOUS
<1>1. PICK fs \in Rates, bps \in {0, 1} :
         /\ AudioInit([n |-> "codec_init", fs |-> fs, v |-> bps], init_ledos(fs, bps))
         /\ ShellInit
  BY DEF Init
<1> DEFINE c == [n |-> "codec_init", fs |-> fs, v |-> bps]
<1>2. init_ledos(fs, bps) \in Seq(QuietAccesses) /\ init_ledos(fs, bps) \in Seq(Accesses)
  BY InitLedosTyped, Widened
<1> HIDE DEF c
<1>3. drv = [call |-> c, todo |-> init_ledos(fs, bps), pc |-> "step", res |-> "OK", calls |-> 0]
  BY <1>1 DEF AudioInit, c
<1>4. drv \in [call : {drv.call}, todo : Seq(Accesses), pc : {"step", "free", "done"},
                res : {"OK", "NACK"}, calls : Nat]
  BY <1>2, <1>3
<1>5. regs \in [RegNames -> Nat] /\ EnginesAre(0)
  BY <1>1 DEF AudioInit, Regs0, RegNames, EnginesAre
<1>6. i2c \in [data : [i : Idx, v : NineBits], busy : BOOLEAN, nack : BOOLEAN]
  BY <1>1, InitWordsFit DEF AudioInit, Idx
<1>7. AudioTypes
  BY <1>1, <1>3, <1>4, <1>5, <1>6, PorFits DEF AudioInit, AudioTypes, Idx
<1>8. ShellTypes
  BY <1>1, ShellConstants
     DEF ShellInit, ShellTypes, ShellPcs, AcidPcs, acid_box
<1>9. Rendezvous /\ EnginesFollow /\ InOrder
  <2>1. sh.pc = "off" /\ acid.pc = "off" /\ msgq = <<>>
    BY <1>1 DEF ShellInit
  <2> QED
    BY <1>2, <1>3, <1>5, <2>1 DEF Rendezvous, EnginesFollow, InOrder, QuietPcs, Calls_, OnFile
<1> QED
  BY <1>7, <1>8, <1>9 DEF ShellInd

\* What comes off a call.
LEMMA StepTyped ==
    ASSUME AudioTypes, drv.todo # <<>>
    PROVE  Step \in Accesses /\ Tail(drv.todo) \in Seq(Accesses)
<1>1. drv.todo \in Seq(Accesses)
  BY DEF AudioTypes
<1> QED
  BY <1>1, HeadTailProperties DEF Step

\* What comes off the initialisation.
LEMMA QuietStep ==
    ASSUME drv.todo \in Seq(QuietAccesses), drv.todo # <<>>
    PROVE  Step \in QuietAccesses /\ Tail(drv.todo) \in Seq(QuietAccesses)
  BY HeadTailProperties DEF Step

\* Going on with the rest of the call.
LEMMA AdvanceTyped ==
    ASSUME AudioTypes, drv.todo # <<>>, drv' = Advance(drv)
    PROVE  /\ drv' \in [call : {drv'.call}, todo : Seq(Accesses), pc : {"step", "free", "done"},
                        res : {"OK", "NACK"}, calls : Nat]
           /\ drv'.pc = "step" /\ drv'.todo = Tail(drv.todo) /\ drv'.calls = drv.calls
<1>1. Tail(drv.todo) \in Seq(Accesses)
  BY StepTyped
<1>2. drv \in [call : {drv.call}, todo : Seq(Accesses), pc : {"step", "free", "done"},
               res : {"OK", "NACK"}, calls : Nat]
  BY DEF AudioTypes
<1> QED
  BY <1>1, <1>2 DEF Advance

\* The new shadow and the register it is sent to.
LEMMA ShadowTyped ==
    ASSUME AudioTypes, NEW s \in BusAccesses
    PROVE  NewShadow(s) \in [Idx -> NineBits] /\ Target(s) \in Idx /\ s.k \in {"reset", "word", "field"}
<1>1. s \in Accesses /\ s.k \in {"reset", "word", "field"}
  BY DEF BusAccesses, Accesses, QuietAccesses
<1>2. shadow \in [Idx -> NineBits]
  BY DEF AudioTypes
<1>3. CASE s.k = "reset"
  <2>1. [i \in Idx |-> IF i = 10 THEN 0 ELSE Por[i]] \in [Idx -> NineBits]
    BY PorFits, InitWordsFit DEF Idx
  <2> QED
    BY <1>1, <1>3, <2>1 DEF NewShadow, Target, Idx
<1>4. CASE s.k = "word"
  BY <1>1, <1>2, <1>4, AccessKinds DEF NewShadow, Target, Idx
<1>5. CASE s.k = "field"
  <2>1. s.f \in CallFields /\ s.v \in Nat
    BY <1>1, <1>5, AccessKinds
  <2>2. s.f.idx \in 4 .. 9
    BY <2>1, 0 < 512, SetFieldFits
  <2>3. s.f.idx \in Idx
    BY <2>2 DEF Idx
  <2>4. SetField(shadow[s.f.idx], s.f, s.v) \in NineBits
    <3>1. shadow[s.f.idx] \in Nat /\ shadow[s.f.idx] < 512
      BY <1>2, <2>3, NineBitsAre
    <3>2. /\ SetField(shadow[s.f.idx], s.f, s.v) \in Nat
          /\ SetField(shadow[s.f.idx], s.f, s.v) < 512
      BY <2>1, <3>1, SetFieldFits
    <3> QED
      BY <3>2, NineBitsAre
  <2> QED
    BY <1>2, <1>5, <2>3, <2>4 DEF NewShadow, Target
<1> QED
  BY <1>1, <1>3, <1>4, <1>5

\* A register write keeps the registers typed, and the engines as they are unless
\* it names one.
LEMMA IoTyped ==
    ASSUME AudioTypes, NEW s \in Accesses, s.k = "io", s.r # "capture"
    PROVE  /\ IoEffect(s) \in [RegNames -> Nat]
           /\ EnginesAre(0) /\ s.r \in QuietRegs =>
                IoEffect(s).fg_l = 0 /\ IoEffect(s).fg_r = 0 /\ IoEffect(s).adc = 0
<1>1. s.v \in Nat /\ s.r \in (QuietRegs \cup {"fg_l", "fg_r"})
  BY AccessKinds
<1>2. regs \in [RegNames -> Nat]
  BY DEF AudioTypes
<1>3. CASE s.r = "reset"
  BY <1>2, <1>3 DEF IoEffect, AcReset, RegNames, EnginesAre
<1>4. CASE s.r = "mclk_off"
  BY <1>2, <1>4 DEF IoEffect, RegNames, EnginesAre
<1>5. CASE s.r = "mclk_sel"
  BY <1>1, <1>2, <1>5 DEF IoEffect, RegNames, EnginesAre
<1>6. CASE s.r \notin {"reset", "mclk_off", "mclk_sel"}
  <2>1. IoEffect(s) = [regs EXCEPT ![s.r] = s.v]
    BY <1>6 DEF IoEffect
  <2>2. s.r \in RegNames
    BY <1>1, <1>6 DEF QuietRegs, RegNames
  <2>3. s.r \in QuietRegs => s.r # "fg_l" /\ s.r # "fg_r" /\ s.r # "adc"
    BY DEF QuietRegs
  <2> QED
    BY <1>1, <1>2, <2>1, <2>2, <2>3 DEF RegNames, EnginesAre
<1> QED
  BY <1>3, <1>4, <1>5, <1>6

\* A step of the driver keeps the types.
LEMMA DriverKept ==
    ASSUME AudioTypes, DriverStep
    PROVE  AudioTypes'
<1> USE DEF AudioTypes
<1>1. CASE ShadowStep
  <2>1. Step \in BusAccesses
    <3>1. Step \in Accesses /\ Step.k \in {"reset", "word", "field"}
      BY <1>1, StepTyped DEF ShadowStep
    <3> QED
      BY <3>1 DEF Accesses, QuietAccesses, BusAccesses
  <2>2. shadow' \in [Idx -> NineBits]
    BY <1>1, <2>1, ShadowTyped DEF ShadowStep
  <2>3. drv' = [drv EXCEPT !.pc = "free"] /\ drv.todo # <<>>
    BY <1>1 DEF ShadowStep
  <2>4. drv'.todo = drv.todo /\ Step' = Step
    BY <2>3 DEF Step
  <2> QED
    BY <1>1, <2>1, <2>2, <2>3, <2>4 DEF ShadowStep
<1>2. CASE Trigger
  <2>1. Step \in BusAccesses /\ drv.todo # <<>>
    BY <1>2 DEF Trigger
  <2>2. Target(Step) \in Idx
    BY <2>1, ShadowTyped
  <2>3. shadow[Target(Step)] \in NineBits
    <3>1. shadow \in [Idx -> NineBits]
      OBVIOUS
    <3> HIDE DEF AudioTypes
    <3> QED
      BY <2>2, <3>1
  <2>4. i2c' \in [data : [i : Idx, v : NineBits], busy : BOOLEAN, nack : BOOLEAN]
    BY <1>2, <2>2, <2>3 DEF Trigger
  <2>5. drv' = [drv EXCEPT !.pc = "done"]
    BY <1>2 DEF Trigger
  <2>6. drv'.todo = drv.todo /\ Step' = Step
    BY <2>5 DEF Step
  <2>7. drv' \in [call : {drv'.call}, todo : Seq(Accesses), pc : {"step", "free", "done"},
                  res : {"OK", "NACK"}, calls : Nat]
    BY <2>5
  <2>8. UNCHANGED <<shadow, dev, regs>>
    BY <1>2 DEF Trigger
  <2> QED
    BY <2>1, <2>4, <2>6, <2>7, <2>8
<1>3. CASE Finish
  <2>1. drv.todo # <<>>
    BY <1>3 DEF Finish
  <2>2. UNCHANGED <<shadow, dev, i2c, regs>>
    BY <1>3 DEF Finish
  <2>3. CASE i2c.nack
    <3>1. drv' = [drv EXCEPT !.todo = <<>>, !.pc = "step", !.res = "NACK"]
      BY <1>3, <2>3 DEF Finish
    <3>2. <<>> \in Seq(Accesses)
      BY EmptySeq
    <3> QED
      BY <2>2, <3>1, <3>2
  <2>4. CASE ~i2c.nack
    <3>1. drv' = Advance(drv)
      BY <1>3, <2>4 DEF Finish
    <3> QED
      BY <2>1, <2>2, <3>1, AdvanceTyped
  <2> QED
    BY <2>3, <2>4
<1>4. CASE IoStep
  <2>1. drv.todo # <<>> /\ Step.k = "io" /\ Step.r # "capture" /\ drv' = Advance(drv) /\ regs' = IoEffect(Step)
    BY <1>4 DEF IoStep, Running
  <2>2. regs' \in [RegNames -> Nat]
    BY <2>1, StepTyped, IoTyped
  <2>3. UNCHANGED <<shadow, dev, i2c>>
    BY <1>4 DEF IoStep
  <2> QED
    BY <2>1, <2>2, <2>3, AdvanceTyped
<1>5. CASE CaptureStart \/ CaptureWait \/ ReadHalf
  <2>1. drv.todo # <<>> /\ drv' = Advance(drv) /\ UNCHANGED <<shadow, dev, i2c, regs>>
    BY <1>5 DEF CaptureStart, CaptureWait, ReadHalf, Running
  <2> QED
    BY <2>1, AdvanceTyped
<1> QED
  BY <1>1, <1>2, <1>3, <1>4, <1>5 DEF DriverStep

\* So do the hardware and the next call.
LEMMA HardwareKept ==
    ASSUME AudioTypes, AudioHw
    PROVE  AudioTypes' /\ UNCHANGED <<regs, drv>>
<1>1. UNCHANGED <<shadow, regs, drv>>
  BY DEF AudioHw, I2cDone, CaptureSample
<1>2. Step' = Step
  BY <1>1 DEF Step
<1>3. dev' \in [0 .. 9 -> NineBits] /\ i2c' \in [data : [i : Idx, v : NineBits], busy : BOOLEAN, nack : BOOLEAN]
  <2>1. CASE CaptureSample
    BY <2>1 DEF CaptureSample, AudioTypes
  <2>2. ASSUME NEW n \in BOOLEAN, I2cDone(n)
        PROVE  /\ dev' \in [0 .. 9 -> NineBits]
               /\ i2c' \in [data : [i : Idx, v : NineBits], busy : BOOLEAN, nack : BOOLEAN]
    <3>1. i2c \in [data : [i : Idx, v : NineBits], busy : BOOLEAN, nack : BOOLEAN]
      BY DEF AudioTypes
    <3>2. i2c' \in [data : [i : Idx, v : NineBits], busy : BOOLEAN, nack : BOOLEAN]
      BY <2>2, <3>1 DEF I2cDone
    <3>3. i2c.data.i # 10 => i2c.data.i \in 0 .. 9
      BY <3>1 DEF Idx
    <3>4. i2c.data.v \in NineBits
      BY <3>1
    <3> QED
      BY <2>2, <3>2, <3>3, <3>4, PorFits DEF I2cDone, AudioTypes
  <2> QED
    BY <2>1, <2>2 DEF AudioHw
<1> QED
  BY <1>1, <1>2, <1>3 DEF AudioTypes

\* So does the next call of the application.
LEMMA CallKept ==
    ASSUME AudioTypes, NEW c \in Calls, Call(c)
    PROVE  AudioTypes'
<1>1. Steps(c) \in Seq(Accesses)
  BY StepsTyped
<1>2. drv' = [call |-> c, todo |-> Steps(c), pc |-> "step", res |-> "OK", calls |-> drv.calls + 1]
  BY DEF Call
<1>3. UNCHANGED <<shadow, dev, i2c, regs>> /\ drv.calls \in Nat
  BY DEF Call, AudioTypes
<1>4. drv' \in [call : {drv'.call}, todo : Seq(Accesses), pc : {"step", "free", "done"},
                res : {"OK", "NACK"}, calls : Nat]
  BY <1>1, <1>2, <1>3
<1>5. drv'.pc = "step"
  BY <1>2
<1> QED
  BY <1>3, <1>4, <1>5 DEF AudioTypes

\* A step of one of the threads leaves the driver and the scenario alone.
LEMMA DriverAtRest ==
    ASSUME ShellInd, app = "shell", app' = app, sh.pc # "off", UNCHANGED <<shadow, dev, i2c, drv>>
    PROVE  /\ regs' \in [RegNames -> Nat] => AudioTypes'
           /\ InOrder'
<1>1. drv.pc = "step" /\ drv.todo = <<>> /\ app = "shell" /\ drv.todo \in Seq(QuietAccesses)
  BY DEF ShellInd, InOrder
<1>2. InOrder'
  BY <1>1 DEF InOrder
<1>3. ASSUME regs' \in [RegNames -> Nat] PROVE AudioTypes'
  BY <1>1, <1>3 DEF ShellInd, AudioTypes
<1> QED
  BY <1>2, <1>3

\* The engines are as they were when no register was written.
LEMMA SameRegs ==
    ASSUME UNCHANGED regs
    PROVE  (EnginesAre(0) <=> EnginesAre(0)') /\ (EnginesAre(1) <=> EnginesAre(1)')
  BY DEF EnginesAre

\* The thread that steps is one that runs: the shell is not off.
LEMMA Goes ==
    ASSUME ShellInd, acid.pc # "off"
    PROVE  sh.pc # "off"
  BY DEF ShellInd, Rendezvous

\* The shell goes on to another place.
LEMMA GotoTyped ==
    ASSUME ShellTypes, NEW q \in ShellPcs, Goto(q)
    PROVE  /\ sh' \in [pc : ShellPcs, p : 0 .. (LineLen - 1), cmd : {sh'.cmd}, argc : 0 .. MaxArgs,
                       arg : {sh'.arg}, reads : {sh'.reads}, i : {sh'.i}, eof : BOOLEAN]
           /\ sh'.pc = q
<1>1. sh \in [pc : ShellPcs, p : 0 .. (LineLen - 1), cmd : {sh.cmd}, argc : 0 .. MaxArgs,
              arg : {sh.arg}, reads : {sh.reads}, i : {sh.i}, eof : BOOLEAN]
  BY DEF ShellTypes
<1> QED
  BY <1>1 DEF Goto

\* The places at which the plugin is stopped and the shell is past its prompt.
Working == QuietPcs \ {"prompt"}

\* A step between two such places, with the registers, the plugin and the message
\* queue as they are: all there is to see to are the types.
LEMMA WorkingStep ==
    ASSUME ShellInd, app = "shell", app' = app, sh.pc \in QuietPcs, AcidWaits,
           sh'.pc \in QuietPcs, sh'.pc # "prompt" \/ sh.pc # "prompt",
           ShellTypes', UNCHANGED <<acid, msgq, audioVars>>
    PROVE  ShellInd'
<1>1. sh.pc # "off"
  BY DEF QuietPcs, Calls_, OnFile
<1>2. UNCHANGED <<shadow, dev, i2c, drv, regs>>
  BY DEF audioVars
<1>3. AudioTypes' /\ InOrder'
  <2>1. regs' \in [RegNames -> Nat]
    BY <1>2 DEF ShellInd, AudioTypes
  <2> QED
    BY <1>1, <1>2, <2>1, DriverAtRest
<1>4. EnginesFollow'
  <2>1. EnginesAre(0)
    BY DEF ShellInd, EnginesFollow
  <2>2. EnginesAre(0)'
    BY <1>2, <2>1, SameRegs
  <2> QED
    BY <2>2 DEF EnginesFollow, QuietPcs, Calls_, OnFile
<1>5. acid.pc = "wait1" /\ msgq = <<>> /\ acid.known
  BY DEF ShellInd, Rendezvous, AcidWaits
<1>6. acid'.pc = "wait1" /\ msgq' = <<>> /\ acid'.known
  BY <1>5
<1>7. Rendezvous'
  BY <1>6 DEF Rendezvous, QuietPcs, Calls_, OnFile
<1> QED
  BY <1>3, <1>4, <1>7 DEF ShellInd

\* Only the place changes.
LEMMA WorkingGoto ==
    ASSUME ShellInd, app = "shell", app' = app, sh.pc \in QuietPcs \ OnFile, AcidWaits,
           NEW q \in QuietPcs, q # "prompt" \/ sh.pc # "prompt", Goto(q),
           UNCHANGED <<line, fil, acid, msgq, keys, audioVars>>
    PROVE  ShellInd'
<1>1. q \in ShellPcs
  BY DEF ShellPcs
<1>2. ShellTypes /\ (fil.file => fil.kept)
  BY DEF ShellInd, ShellTypes
<1>3. /\ sh' \in [pc : ShellPcs, p : 0 .. (LineLen - 1), cmd : {sh'.cmd}, argc : 0 .. MaxArgs,
                  arg : {sh'.arg}, reads : {sh'.reads}, i : {sh'.i}, eof : BOOLEAN]
      /\ sh'.pc = q
  BY <1>1, <1>2, GotoTyped
<1>4. ShellTypes'
  BY <1>2, <1>3 DEF ShellTypes
<1> QED
  BY <1>3, <1>4, WorkingStep

\* The end of the line is the first NUL, or the end of the buffer.
LEMMA EndIsFirst == End \in 0 .. LineLen /\ \A j \in 0 .. (End - 1) : line[j] # Nul
<1> DEFINE T == {i \in 0 .. LineLen : i = LineLen \/ line[i] = Nul}
<1>1. LineLen \in Nat
  BY ShellConstants
<1>2. LineLen \in T /\ T \in SUBSET Nat
  BY <1>1
<1>3. PICK x \in T : \A y \in T : x <= y
  BY <1>2, LeastNat
<1>4. \A j \in 0 .. (x - 1) : line[j] # Nul
  BY <1>1, <1>3
<1>5. \E i \in 0 .. LineLen : /\ i = LineLen \/ line[i] = Nul
                              /\ \A j \in 0 .. (i - 1) : line[j] # Nul
  BY <1>3, <1>4
<1> QED
  BY <1>5 DEF End

\* The words of a line are finitely many.
LEMMA WordsCount == NWords \in Nat
<1>1. LineLen \in Nat
  BY ShellConstants
<1>6. End \in 0 .. LineLen
  BY EndIsFirst
<1>7. IsFiniteSet(0 .. (End - 1))
  BY <1>1, <1>6, FS_Interval
<1>8. Taken \subseteq 0 .. (End - 1)
  BY DEF Taken, Starts
<1>9. IsFiniteSet(Taken)
  BY <1>7, <1>8, FS_Subset
<1> QED
  BY <1>9, FS_CardinalityType DEF NWords

\* The shell prompts.
LEMMA PromptKept ==
    ASSUME ShellInd, app = "shell", app' = app, Prompt
    PROVE  ShellInd'
<1>1. sh.pc = "prompt" /\ AcidWaits /\ sh' = [sh EXCEPT !.pc = "getc", !.p = 0]
  BY DEF Prompt, At_, ShellRuns
<1>2. UNCHANGED <<line, fil, acid, msgq, keys, audioVars>>
  BY DEF Prompt
<1>3. "getc" \in QuietPcs /\ "prompt" \in QuietPcs /\ "prompt" \notin OnFile /\ "getc" \in ShellPcs
  BY DEF QuietPcs, ShellPcs, OnFile
<1>4. sh \in [pc : ShellPcs, p : 0 .. (LineLen - 1), cmd : {sh.cmd}, argc : 0 .. MaxArgs,
              arg : {sh.arg}, reads : {sh.reads}, i : {sh.i}, eof : BOOLEAN]
  BY DEF ShellInd, ShellTypes
<1>z. 0 \in 0 .. (LineLen - 1)
  BY ShellConstants
<1>5. /\ sh' \in [pc : ShellPcs, p : 0 .. (LineLen - 1), cmd : {sh'.cmd}, argc : 0 .. MaxArgs,
                  arg : {sh'.arg}, reads : {sh'.reads}, i : {sh'.i}, eof : BOOLEAN]
      /\ sh'.pc = "getc"
  BY <1>1, <1>3, <1>4, <1>z
<1>6. ShellTypes'
  BY <1>1, <1>2, <1>3, <1>5 DEF ShellInd, ShellTypes
<1> QED
  BY <1>1, <1>2, <1>3, <1>5, <1>6, WorkingStep

\* A character is typed: the index stays in the buffer.
LEMMA TypeKept ==
    ASSUME ShellInd, app = "shell", app' = app, NEW c \in Letters \cup {Space}, Type(c)
    PROVE  ShellInd'
<1>1. sh.pc = "getc" /\ AcidWaits /\ UNCHANGED <<fil, acid, msgq, audioVars>>
  BY DEF Type, At_, ShellRuns
<1>2. "getc" \in QuietPcs /\ "getc" \notin OnFile
  BY DEF QuietPcs, OnFile
<1>3. keys' \in 0 .. MaxKeys
  BY ShellConstants DEF Type, Press, ShellInd, ShellTypes
<1>4. sh \in [pc : ShellPcs, p : 0 .. (LineLen - 1), cmd : {sh.cmd}, argc : 0 .. MaxArgs,
              arg : {sh.arg}, reads : {sh.reads}, i : {sh.i}, eof : BOOLEAN]
  BY DEF ShellInd, ShellTypes
<1>5. CASE Fits
  <2>1. line' = [line EXCEPT ![sh.p] = c] /\ sh' = [sh EXCEPT !.p = @ + 1]
    BY <1>5 DEF Type
  <2>2. sh.p \in 0 .. (LineLen - 1) /\ sh.p + 1 \in 0 .. (LineLen - 1) /\ sh.p < LineLen - 1
    BY <1>4, <1>5, ShellConstants DEF Fits
  <2>3. line' \in [0 .. (LineLen - 1) -> Chars]
    BY <2>1 DEF ShellInd, ShellTypes, Chars
  <2>4. /\ sh' \in [pc : ShellPcs, p : 0 .. (LineLen - 1), cmd : {sh'.cmd}, argc : 0 .. MaxArgs,
                    arg : {sh'.arg}, reads : {sh'.reads}, i : {sh'.i}, eof : BOOLEAN]
        /\ sh'.pc = "getc"
    BY <1>1, <1>4, <2>1, <2>2
  <2>5. ShellTypes'
    BY <1>1, <1>2, <1>3, <2>3, <2>4 DEF ShellInd, ShellTypes
  <2> QED
    BY <1>1, <1>2, <2>4, <2>5, WorkingStep
<1>6. CASE ~Fits
  <2>1. UNCHANGED <<line, sh>>
    BY <1>6 DEF Type
  <2>2. ShellTypes'
    BY <1>1, <1>3, <2>1 DEF ShellInd, ShellTypes
  <2> QED
    BY <1>1, <1>2, <2>1, <2>2, WorkingStep
<1> QED
  BY <1>5, <1>6

\* A character is erased.
LEMMA BackspaceKept ==
    ASSUME ShellInd, app = "shell", app' = app, Backspace
    PROVE  ShellInd'
<1>1. sh.pc = "getc" /\ AcidWaits /\ sh.p > 0 /\ sh' = [sh EXCEPT !.p = @ - 1]
      /\ UNCHANGED <<line, fil, acid, msgq, audioVars>>
  BY DEF Backspace, At_, ShellRuns
<1>2. "getc" \in QuietPcs /\ "getc" \notin OnFile
  BY DEF QuietPcs, OnFile
<1>3. keys' \in 0 .. MaxKeys
  BY ShellConstants DEF Backspace, Press, ShellInd, ShellTypes
<1>4. sh \in [pc : ShellPcs, p : 0 .. (LineLen - 1), cmd : {sh.cmd}, argc : 0 .. MaxArgs,
              arg : {sh.arg}, reads : {sh.reads}, i : {sh.i}, eof : BOOLEAN]
  BY DEF ShellInd, ShellTypes
<1>5. sh.p - 1 \in 0 .. (LineLen - 1)
  BY <1>1, <1>4, ShellConstants
<1>6. /\ sh' \in [pc : ShellPcs, p : 0 .. (LineLen - 1), cmd : {sh'.cmd}, argc : 0 .. MaxArgs,
                  arg : {sh'.arg}, reads : {sh'.reads}, i : {sh'.i}, eof : BOOLEAN]
      /\ sh'.pc = "getc"
  BY <1>1, <1>4, <1>5
<1>7. ShellTypes'
  BY <1>1, <1>2, <1>3, <1>6 DEF ShellInd, ShellTypes
<1> QED
  BY <1>1, <1>2, <1>6, <1>7, WorkingStep

\* The line ends with a carriage return or control-D.
LEMMA LineEndKept ==
    ASSUME ShellInd, app = "shell", app' = app, Enter \/ CtrlD
    PROVE  ShellInd'
<1>1. /\ sh.pc = "getc" /\ AcidWaits /\ UNCHANGED <<fil, acid, msgq, audioVars>>
      /\ \E e \in BOOLEAN : sh' = [sh EXCEPT !.pc = "parse", !.eof = e]
  BY DEF Enter, CtrlD, At_, ShellRuns
<1>2. /\ "getc" \in QuietPcs /\ "getc" \notin OnFile /\ "parse" \in QuietPcs /\ "parse" \in ShellPcs
      /\ "parse" # "prompt"
  BY DEF QuietPcs, OnFile, ShellPcs
<1>3. keys' \in 0 .. MaxKeys
  BY ShellConstants DEF Enter, CtrlD, Press, ShellInd, ShellTypes
<1>4. /\ sh \in [pc : ShellPcs, p : 0 .. (LineLen - 1), cmd : {sh.cmd}, argc : 0 .. MaxArgs,
                 arg : {sh.arg}, reads : {sh.reads}, i : {sh.i}, eof : BOOLEAN]
      /\ line \in [0 .. (LineLen - 1) -> Chars] /\ ShellTypes
  BY DEF ShellInd, ShellTypes
<1>5. line' \in [0 .. (LineLen - 1) -> Chars]
  BY <1>4 DEF Enter, CtrlD, Chars
<1>6. /\ sh' \in [pc : ShellPcs, p : 0 .. (LineLen - 1), cmd : {sh'.cmd}, argc : 0 .. MaxArgs,
                  arg : {sh'.arg}, reads : {sh'.reads}, i : {sh'.i}, eof : BOOLEAN]
      /\ sh'.pc = "parse"
  BY <1>1, <1>2, <1>4
<1>7. ShellTypes'
  BY <1>1, <1>2, <1>3, <1>4, <1>5, <1>6 DEF ShellTypes
<1> QED
  BY <1>1, <1>2, <1>6, <1>7, WorkingStep

\* The line is cut into a command and its arguments.
LEMMA ParseKept ==
    ASSUME ShellInd, app = "shell", app' = app, Parse
    PROVE  ShellInd'
<1>1. sh.pc = "parse" /\ AcidWaits /\ line' = Cut /\ UNCHANGED <<fil, acid, msgq, keys, audioVars>>
  BY DEF Parse, At_, ShellRuns
<1>2. /\ "parse" \in QuietPcs /\ "pause" \in QuietPcs /\ "exec" \in QuietPcs /\ "parse" \notin OnFile
      /\ "pause" \in ShellPcs /\ "exec" \in ShellPcs /\ "parse" # "prompt"
  BY DEF QuietPcs, OnFile, ShellPcs
<1>3. ShellTypes
  BY DEF ShellInd
<1>4. line' \in [0 .. (LineLen - 1) -> Chars]
  <2>1. line \in [0 .. (LineLen - 1) -> Chars] /\ Nul \in Chars
    BY <1>3 DEF ShellTypes, Chars
  <2> QED
    BY <1>1, <2>1 DEF Cut
<1>5. sh \in [pc : ShellPcs, p : 0 .. (LineLen - 1), cmd : {sh.cmd}, argc : 0 .. MaxArgs,
              arg : {sh.arg}, reads : {sh.reads}, i : {sh.i}, eof : BOOLEAN]
  BY <1>3 DEF ShellTypes
<1> DEFINE a == IF NWords > 1 THEN Word(2) ELSE "none"
<1>6. /\ sh' \in [pc : ShellPcs, p : 0 .. (LineLen - 1), cmd : {sh'.cmd}, argc : 0 .. MaxArgs,
                  arg : {sh'.arg}, reads : {sh'.reads}, i : {sh'.i}, eof : BOOLEAN]
      /\ sh'.pc \in {"pause", "exec"}
  <2>1. CASE NWords = 0 \/ TooMany
    <3>1. sh' = [sh EXCEPT !.pc = "pause"]
      BY <2>1 DEF Parse
    <3> QED
      BY <1>2, <1>5, <3>1
  <2>2. CASE ~(NWords = 0 \/ TooMany)
    <3> HIDE DEF a
    <3>1. sh' = [sh EXCEPT !.pc = "exec", !.cmd = Word(1), !.argc = NWords - 1, !.arg = a,
                           !.i = 0, !.reads = 0]
      BY <2>2 DEF Parse, a
    <3>2. NWords - 1 \in 0 .. MaxArgs
      BY <2>2, WordsCount, ShellConstants DEF TooMany
    <3> QED
      BY <1>2, <1>5, <3>1, <3>2
  <2> QED
    BY <2>1, <2>2
<1>7. ShellTypes'
  BY <1>1, <1>2, <1>3, <1>4, <1>6 DEF ShellTypes
<1> QED
  BY <1>1, <1>2, <1>6, <1>7, WorkingStep

\* Steps that only move the shell to another place.
LEMMA PauseKept ==
    ASSUME ShellInd, app = "shell", app' = app, Overrun \/ Pause \/ ExecNothing \/ DropUsage
    PROVE  ShellInd'
<1>1. /\ sh.pc \in {"parse", "pause", "exec"} /\ AcidWaits
      /\ (Goto("prompt") \/ Goto("pause") \/ Goto("overrun"))
      /\ UNCHANGED <<line, fil, acid, msgq, keys, audioVars>>
  BY DEF Overrun, Pause, ExecNothing, DropUsage, At_, ShellRuns
<1>2. /\ {"parse", "pause", "exec"} \subseteq QuietPcs \ OnFile
      /\ "prompt" \in QuietPcs /\ "pause" \in QuietPcs /\ "overrun" \in QuietPcs
      /\ sh.pc # "prompt"
  BY <1>1 DEF QuietPcs, OnFile
<1> QED
  BY <1>1, <1>2, WorkingGoto

\* A command on files starts.
LEMMA ExecFileKept ==
    ASSUME ShellInd, app = "shell", app' = app, NEW c \in FileCmds, ExecFile(c)
    PROVE  ShellInd'
<1>1. /\ sh.pc = "exec" /\ AcidWaits
      /\ sh' = [sh EXCEPT !.pc = First[c], !.cmd = c, !.i = 1, !.reads = 0]
      /\ UNCHANGED <<line, fil, acid, msgq, keys, audioVars>>
  BY DEF ExecFile, At_, ShellRuns
<1>2. First[c] \in {"pause", "create", "rename", "chdir", "getcwd", "llcwd", "open", "popen"}
  BY DEF FileCmds, LocalCmds, First
<1>3. First[c] \in QuietPcs /\ First[c] \in ShellPcs /\ "exec" \in QuietPcs /\ "exec" \notin OnFile
  BY <1>2 DEF QuietPcs, ShellPcs, Calls_, OnFile
<1>4. sh \in [pc : ShellPcs, p : 0 .. (LineLen - 1), cmd : {sh.cmd}, argc : 0 .. MaxArgs,
              arg : {sh.arg}, reads : {sh.reads}, i : {sh.i}, eof : BOOLEAN]
  BY DEF ShellInd, ShellTypes
<1>5. /\ sh' \in [pc : ShellPcs, p : 0 .. (LineLen - 1), cmd : {sh'.cmd}, argc : 0 .. MaxArgs,
                  arg : {sh'.arg}, reads : {sh'.reads}, i : {sh'.i}, eof : BOOLEAN]
      /\ sh'.pc = First[c]
  BY <1>1, <1>3, <1>4
<1>6. ShellTypes'
  BY <1>1, <1>3, <1>5 DEF ShellInd, ShellTypes
<1> QED
  BY <1>1, <1>3, <1>5, <1>6, WorkingStep

\* A call of the file system: the commands end with their file closed or given up.
LEMMA FatCallKept ==
    ASSUME ShellInd, app = "shell", app' = app, NEW ok \in BOOLEAN, NEW more \in BOOLEAN,
           FatCall(ok, more)
    PROVE  ShellInd'
<1> DEFINE r == IF more THEN sh.reads + 1 ELSE IF sh.pc = "pclose" THEN 0 ELSE sh.reads
           n == IF sh.pc = "pclose" THEN sh.i + 1 ELSE sh.i
           q == After(sh.pc, ok, more)
<1>1. /\ sh.pc \in Calls_ /\ AcidWaits
      /\ UNCHANGED <<line, acid, msgq, keys, audioVars>>
  BY DEF FatCall, ShellRuns
<1>2. sh' = [sh EXCEPT !.pc = q, !.reads = r, !.i = n]
  BY DEF FatCall
<1>3. sh \in [pc : ShellPcs, p : 0 .. (LineLen - 1), cmd : {sh.cmd}, argc : 0 .. MaxArgs,
              arg : {sh.arg}, reads : {sh.reads}, i : {sh.i}, eof : BOOLEAN]
  BY DEF ShellInd, ShellTypes
<1>4. q \in Calls_ \cup {"pause"}
  BY <1>1 DEF After, AfterRead, Calls_, OnFile
<1>5. q \in QuietPcs /\ q \in ShellPcs /\ q # "prompt" /\ sh.pc \in QuietPcs
  BY <1>1, <1>4 DEF QuietPcs, ShellPcs, Calls_, OnFile
<1> HIDE DEF r, n, q
<1>6. /\ sh' \in [pc : ShellPcs, p : 0 .. (LineLen - 1), cmd : {sh'.cmd}, argc : 0 .. MaxArgs,
                  arg : {sh'.arg}, reads : {sh'.reads}, i : {sh'.i}, eof : BOOLEAN]
      /\ sh'.pc = q
  BY <1>2, <1>3, <1>5
<1>7. fil \in [file : BOOLEAN, dir : BOOLEAN, kept : BOOLEAN] /\ (sh.pc \notin OnFile /\ fil.file => fil.kept)
  BY DEF ShellInd, ShellTypes
<1>8. fil' = [file |-> CASE sh.pc \in {"create", "open", "popen"} -> ok
                         [] sh.pc \in {"close", "pclose"} -> fil.file /\ ~ok
                         [] OTHER -> fil.file,
              dir |-> fil.dir \/ (sh.pc = "opendir" /\ ok),
              kept |-> CASE sh.pc \in {"create", "open", "popen"} -> FALSE
                         [] sh.pc \in {"close", "pclose"} \/ (sh.pc = "pread" /\ ~(ok /\ more)) -> TRUE
                         [] OTHER -> fil.kept]
  BY DEF FatCall
<1>9. CASE sh.pc \in {"create", "open", "popen"}
  <2>1. fil'.file = ok /\ fil'.kept = FALSE /\ fil' \in [file : BOOLEAN, dir : BOOLEAN, kept : BOOLEAN]
    BY <1>7, <1>8, <1>9
  <2>2. ok => q \in OnFile
    BY <1>9 DEF q, After, OnFile
  <2>3. ShellTypes'
    BY <1>1, <1>6, <2>1, <2>2 DEF ShellInd, ShellTypes
  <2> QED
    BY <1>1, <1>5, <1>6, <2>3, WorkingStep
<1>10. CASE sh.pc \in {"close", "pclose"} \/ (sh.pc = "pread" /\ ~(ok /\ more))
  <2>1. fil'.kept = TRUE /\ fil' \in [file : BOOLEAN, dir : BOOLEAN, kept : BOOLEAN]
    BY <1>7, <1>8, <1>10
  <2>2. ShellTypes'
    BY <1>1, <1>6, <2>1 DEF ShellInd, ShellTypes
  <2> QED
    BY <1>1, <1>5, <1>6, <2>2, WorkingStep
<1>11. CASE /\ sh.pc \notin {"create", "open", "popen", "close", "pclose"}
            /\ ~(sh.pc = "pread" /\ ~(ok /\ more))
  <2>1. /\ fil'.kept = fil.kept /\ fil'.file = fil.file
        /\ fil' \in [file : BOOLEAN, dir : BOOLEAN, kept : BOOLEAN]
    BY <1>7, <1>8, <1>11
  <2>2. sh.pc \in OnFile => q \in OnFile
    BY <1>11 DEF q, After, AfterRead, OnFile
  <2>3. ShellTypes'
    BY <1>1, <1>6, <1>7, <2>1, <2>2 DEF ShellInd, ShellTypes
  <2> QED
    BY <1>1, <1>5, <1>6, <2>3, WorkingStep
<1> QED
  BY <1>9, <1>10, <1>11

\* The places of a plugin that plays are apart from those of the other commands.
LEMMA PcsApart ==
    /\ {"send1", "sent1", "play", "send2", "sent2", "stopped", "off"} \cap QuietPcs = {}
    /\ {"send1", "sent1", "play", "send2", "sent2", "stopped", "off"} \cap OnFile = {}
    /\ {"send1", "sent1", "play", "send2", "sent2", "stopped", "off", "prompt", "pause", "exec"} \subseteq ShellPcs
    /\ {"prompt", "pause", "exec"} \subseteq QuietPcs \ OnFile
  BY DEF QuietPcs, ShellPcs, Calls_, OnFile

\* The threads start: the plugin is chosen and its thread runs first.
LEMMA StartKept ==
    ASSUME ShellInd, app = "shell", app' = app, StartThreads
    PROVE  ShellInd'
<1>1. /\ drv.pc = "step" /\ drv.todo = <<>> /\ sh.pc = "off" /\ acid.pc = "off"
      /\ sh' = [sh EXCEPT !.pc = "prompt"]
      /\ acid' = [update_acid("s") EXCEPT !.pc = "start"]
      /\ UNCHANGED <<line, fil, msgq, keys, audioVars>>
  BY DEF StartThreads, Idle, acidThreadCreateStatic, shellCreateStatic
<1>2. UNCHANGED <<shadow, dev, i2c, drv, regs>>
  BY <1>1 DEF audioVars
<1>3. sh'.pc = "prompt" /\ sh' \in [pc : ShellPcs, p : 0 .. (LineLen - 1), cmd : {sh'.cmd}, argc : 0 .. MaxArgs,
                  arg : {sh'.arg}, reads : {sh'.reads}, i : {sh'.i}, eof : BOOLEAN]
  <2>1. "prompt" \in ShellPcs
    BY PcsApart
  <2> QED
    BY <1>1, <2>1, GotoTyped DEF Goto, ShellInd
<1>4. acid \in [pc : AcidPcs, known : BOOLEAN, plugin : acid_box \cup {"none"}]
  BY DEF ShellInd, ShellTypes
<1>5. /\ acid' \in [pc : AcidPcs, known : BOOLEAN, plugin : acid_box \cup {"none"}]
      /\ acid'.pc = "start"
  BY <1>1, <1>4 DEF update_acid, acid_box, AcidPcs
<1>6. ShellTypes'
  BY <1>1, <1>3, <1>5, PcsApart DEF ShellInd, ShellTypes
<1>7. AudioTypes'
  BY <1>1, <1>2 DEF ShellInd, AudioTypes
<1>8. InOrder'
  BY <1>1, <1>2 DEF ShellInd, InOrder
<1>9. EnginesFollow'
  <2>1. EnginesAre(0)'
    BY <1>1, <1>2, SameRegs DEF ShellInd, EnginesFollow
  <2> QED
    BY <1>3, <2>1, PcsApart DEF EnginesFollow
<1>10. Rendezvous'
  <2>1. msgq' = <<>>
    BY <1>1 DEF ShellInd, Rendezvous
  <2> QED
    BY <1>3, <1>5, <2>1, PcsApart DEF Rendezvous
<1> QED
  BY <1>6, <1>7, <1>8, <1>9, <1>10 DEF ShellInd

\* drop_acid: a known plugin or none is named, the engines start.
LEMMA DropStartKept ==
    ASSUME ShellInd, app = "shell", app' = app, DropStart
    PROVE  ShellInd'
<1>1. /\ sh.pc = "exec" /\ AcidWaits /\ sh.pc # "off"
      /\ UNCHANGED <<line, fil, msgq, keys, shadow, dev, i2c, drv>>
      /\ acid' = IF sh.argc = 1 THEN update_acid(sh.arg) ELSE acid
  BY DEF DropStart, At_, ShellRuns
<1>2. acid \in [pc : AcidPcs, known : BOOLEAN, plugin : acid_box \cup {"none"}] /\ ShellTypes
  BY DEF ShellInd, ShellTypes
<1>3. acid.pc = "wait1" /\ msgq = <<>> /\ acid.known
  BY <1>1, PcsApart DEF ShellInd, Rendezvous
<1>4. /\ acid' \in [pc : AcidPcs, known : BOOLEAN, plugin : acid_box \cup {"none"}]
      /\ acid'.pc = "wait1" /\ acid'.known /\ msgq' = <<>>
  BY <1>1, <1>2, <1>3 DEF update_acid
<1>5. regs \in [RegNames -> Nat] /\ EnginesAre(0)
  BY <1>1, PcsApart DEF ShellInd, AudioTypes, EnginesFollow
<1>6. CASE sh.argc = 1 /\ sh.arg \notin acid_box
  <2>1. Goto("pause") /\ UNCHANGED regs
    BY <1>6 DEF DropStart
  <2>2. sh'.pc = "pause" /\ sh' \in [pc : ShellPcs, p : 0 .. (LineLen - 1), cmd : {sh'.cmd}, argc : 0 .. MaxArgs,
                  arg : {sh'.arg}, reads : {sh'.reads}, i : {sh'.i}, eof : BOOLEAN]
    BY <1>2, <2>1, GotoTyped, PcsApart
  <2>3. ShellTypes'
    BY <1>1, <1>2, <1>4, <2>2, PcsApart DEF ShellTypes
  <2>4. AudioTypes' /\ InOrder'
    BY <1>1, <1>5, <2>1, DriverAtRest
  <2>5. EnginesFollow'
    <3>1. EnginesAre(0)'
      BY <1>5, <2>1, SameRegs
    <3> QED
      BY <2>2, <3>1, PcsApart DEF EnginesFollow
  <2>6. Rendezvous'
    BY <1>4, <2>2, PcsApart DEF Rendezvous
  <2> QED
    BY <2>3, <2>4, <2>5, <2>6 DEF ShellInd
<1>7. CASE ~(sh.argc = 1 /\ sh.arg \notin acid_box)
  <2>1. Goto("send1") /\ regs' = [regs EXCEPT !.fg_l = 1, !.fg_r = 1, !.adc = 1]
    BY <1>3, <1>7 DEF DropStart
  <2>2. sh'.pc = "send1" /\ sh' \in [pc : ShellPcs, p : 0 .. (LineLen - 1), cmd : {sh'.cmd}, argc : 0 .. MaxArgs,
                  arg : {sh'.arg}, reads : {sh'.reads}, i : {sh'.i}, eof : BOOLEAN]
    BY <1>2, <2>1, GotoTyped, PcsApart
  <2>3. ShellTypes'
    BY <1>1, <1>2, <1>4, <2>2, PcsApart DEF ShellTypes
  <2>4. regs' \in [RegNames -> Nat] /\ EnginesAre(1)'
    BY <1>5, <2>1 DEF EnginesAre, RegNames
  <2>5. AudioTypes' /\ InOrder'
    BY <1>1, <2>4, DriverAtRest
  <2>6. EnginesFollow'
    BY <2>2, <2>4, PcsApart DEF EnginesFollow
  <2>7. Rendezvous'
    BY <1>4, <2>2, PcsApart DEF Rendezvous
  <2> QED
    BY <2>3, <2>5, <2>6, <2>7 DEF ShellInd
<1> QED
  BY <1>6, <1>7

\* A step while the engines run and the driver is at rest.
LEMMA PlayingStep ==
    ASSUME ShellInd, app = "shell", app' = app, UNCHANGED audioVars,
           sh.pc \in {"send1", "sent1", "play", "send2", "sent2", "stopped"},
           sh'.pc \in {"send1", "sent1", "play", "send2", "sent2", "stopped"},
           ShellTypes', Rendezvous'
    PROVE  ShellInd'
<1>1. UNCHANGED <<shadow, dev, i2c, drv, regs>>
  BY DEF audioVars
<1>2. regs \in [RegNames -> Nat] /\ EnginesAre(1)
  BY DEF ShellInd, AudioTypes, EnginesFollow
<1>3. AudioTypes' /\ InOrder'
  BY <1>1, <1>2, DriverAtRest
<1>4. EnginesFollow'
  <2>1. EnginesAre(1)'
    BY <1>1, <1>2, SameRegs
  <2> QED
    BY <2>1, PcsApart DEF EnginesFollow
<1> QED
  BY <1>3, <1>4 DEF ShellInd

\* The shell sends its message to the visualisation thread.
LEMMA SendKept ==
    ASSUME ShellInd, app = "shell", app' = app, Send
    PROVE  ShellInd'
<1> DEFINE q == IF sh.pc = "send1" THEN "sent1" ELSE "sent2"
<1>1. /\ sh.pc \in {"send1", "send2"} /\ Goto(q) /\ msgq' = Append(msgq, "shell")
      /\ UNCHANGED <<line, fil, acid, keys, audioVars>>
  BY DEF Send
<1>2. ShellTypes
  BY DEF ShellInd
<1>3. q \in ShellPcs /\ q \notin OnFile
  BY PcsApart
<1> HIDE DEF q
<1>4. sh'.pc = q /\ sh' \in [pc : ShellPcs, p : 0 .. (LineLen - 1), cmd : {sh'.cmd}, argc : 0 .. MaxArgs,
                  arg : {sh'.arg}, reads : {sh'.reads}, i : {sh'.i}, eof : BOOLEAN]
  BY <1>1, <1>2, <1>3, GotoTyped
<1>5. ShellTypes'
  BY <1>1, <1>2, <1>3, <1>4, PcsApart DEF ShellTypes
<1>6. msgq = <<>> /\ acid.known
  BY <1>1 DEF ShellInd, Rendezvous, Painting
<1>7. msgq' = <<"shell">>
  BY <1>1, <1>6
<1>8. acid.pc = acid'.pc /\ acid'.known
  BY <1>1, <1>6
<1>9. CASE sh.pc = "send1"
  <2>1. acid.pc = "wait1" /\ sh'.pc = "sent1"
    BY <1>4, <1>9 DEF ShellInd, Rendezvous, q
  <2>2. Rendezvous'
    BY <1>7, <1>8, <2>1, PcsApart DEF Rendezvous
  <2> QED
    BY <1>1, <1>5, <2>1, <2>2, PlayingStep
<1>10. CASE sh.pc = "send2"
  <2>1. acid.pc \in Painting /\ sh'.pc = "sent2"
    BY <1>4, <1>10 DEF ShellInd, Rendezvous, q
  <2>2. Rendezvous'
    BY <1>7, <1>8, <2>1, PcsApart DEF Rendezvous
  <2> QED
    BY <1>1, <1>5, <2>1, <2>2, PlayingStep
<1> QED
  BY <1>1, <1>9, <1>10

\* The shell waits for the key that ends the plugin.
LEMMA PlayKeyKept ==
    ASSUME ShellInd, app = "shell", app' = app, NEW k \in BOOLEAN, PlayKey(k)
    PROVE  ShellInd'
<1> DEFINE q == IF k THEN "send2" ELSE "play"
<1>1. sh.pc = "play" /\ Goto(q) /\ UNCHANGED <<line, fil, acid, msgq, audioVars>>
  BY DEF PlayKey, At_
<1>2. ShellTypes
  BY DEF ShellInd
<1>3. q \in {"play", "send2"} /\ q \in ShellPcs /\ q \notin OnFile
  BY PcsApart
<1> HIDE DEF q
<1>4. sh'.pc = q /\ sh' \in [pc : ShellPcs, p : 0 .. (LineLen - 1), cmd : {sh'.cmd}, argc : 0 .. MaxArgs,
                  arg : {sh'.arg}, reads : {sh'.reads}, i : {sh'.i}, eof : BOOLEAN]
  BY <1>1, <1>2, <1>3, GotoTyped
<1>5. keys' \in 0 .. MaxKeys
  BY <1>2, ShellConstants DEF PlayKey, Press, ShellTypes
<1>6. ShellTypes'
  BY <1>1, <1>2, <1>3, <1>4, <1>5, PcsApart DEF ShellTypes
<1>7. acid'.pc \in Painting /\ acid'.known /\ msgq' = <<>>
  BY <1>1 DEF ShellInd, Rendezvous, Painting
<1>8. Rendezvous'
  BY <1>3, <1>4, <1>7, PcsApart DEF Rendezvous
<1> QED
  BY <1>1, <1>3, <1>4, <1>6, <1>8, PlayingStep

\* The plugin has answered: the engines stop.
LEMMA DropEndKept ==
    ASSUME ShellInd, app = "shell", app' = app, DropEnd
    PROVE  ShellInd'
<1>1. /\ sh.pc = "stopped" /\ Goto("pause") /\ regs' = EnginesOff
      /\ UNCHANGED <<line, fil, acid, msgq, keys, shadow, dev, i2c, drv>>
  BY DEF DropEnd, At_
<1>2. ShellTypes
  BY DEF ShellInd
<1>3. sh'.pc = "pause" /\ sh' \in [pc : ShellPcs, p : 0 .. (LineLen - 1), cmd : {sh'.cmd}, argc : 0 .. MaxArgs,
                  arg : {sh'.arg}, reads : {sh'.reads}, i : {sh'.i}, eof : BOOLEAN]
  BY <1>1, <1>2, PcsApart, GotoTyped
<1>4. ShellTypes'
  BY <1>1, <1>2, <1>3, PcsApart DEF ShellTypes
<1>5. regs \in [RegNames -> Nat]
  BY DEF ShellInd, AudioTypes
<1>6. regs' \in [RegNames -> Nat] /\ EnginesAre(0)'
  BY <1>1, <1>5 DEF EnginesOff, EnginesAre, RegNames
<1>7. AudioTypes' /\ InOrder'
  BY <1>1, <1>6, DriverAtRest
<1>8. EnginesFollow'
  BY <1>3, <1>6, PcsApart DEF EnginesFollow
<1>9. acid'.pc = "wait1" /\ acid'.known /\ msgq' = <<>>
  BY <1>1 DEF ShellInd, Rendezvous
<1>10. Rendezvous'
  BY <1>3, <1>9, PcsApart DEF Rendezvous
<1> QED
  BY <1>4, <1>7, <1>8, <1>10 DEF ShellInd

\* The visualisation thread starts and waits.
LEMMA AcidStartKept ==
    ASSUME ShellInd, app = "shell", app' = app, AcidStart
    PROVE  ShellInd'
<1>1. /\ acid.pc = "start" /\ acid' = [acid EXCEPT !.pc = "wait1", !.known = TRUE]
      /\ UNCHANGED <<sh, line, fil, msgq, keys, audioVars>>
  BY DEF AcidStart
<1>2. acid \in [pc : AcidPcs, known : BOOLEAN, plugin : acid_box \cup {"none"}] /\ ShellTypes
  BY DEF ShellInd, ShellTypes
<1>3. /\ acid' \in [pc : AcidPcs, known : BOOLEAN, plugin : acid_box \cup {"none"}]
      /\ acid'.pc = "wait1" /\ acid'.known
  BY <1>1, <1>2 DEF AcidPcs
<1>4. ShellTypes'
  BY <1>1, <1>2, <1>3 DEF ShellTypes
<1>5. sh.pc = "prompt" /\ msgq = <<>>
  BY <1>1, <1>2 DEF ShellInd, Rendezvous, ShellTypes, ShellPcs, Painting
<1>6. UNCHANGED <<shadow, dev, i2c, drv, regs>>
  BY <1>1 DEF audioVars
<1>7. AudioTypes' /\ InOrder'
  <2>1. regs' \in [RegNames -> Nat]
    BY <1>6 DEF ShellInd, AudioTypes
  <2> QED
    BY <1>5, <1>6, <2>1, DriverAtRest
<1>8. EnginesFollow'
  <2>1. EnginesAre(0)'
    BY <1>5, <1>6, SameRegs, PcsApart DEF ShellInd, EnginesFollow
  <2> QED
    BY <1>1, <1>5, <2>1, PcsApart DEF EnginesFollow
<1>9. Rendezvous'
  BY <1>1, <1>3, <1>5, PcsApart DEF Rendezvous
<1> QED
  BY <1>4, <1>7, <1>8, <1>9 DEF ShellInd

\* A step of the visualisation thread alone, from q to r, while a plugin plays.
LEMMA AcidMoves ==
    ASSUME ShellInd, app = "shell", app' = app, NEW r \in AcidPcs,
           acid' = [acid EXCEPT !.pc = r], UNCHANGED <<line, fil, keys, audioVars>>,
           sh.pc \in {"sent1", "play", "send2", "sent2"},
           sh' = sh \/ \E q \in {"play", "stopped"} : Goto(q), acid.known, Rendezvous'
    PROVE  ShellInd'
<1>1. acid \in [pc : AcidPcs, known : BOOLEAN, plugin : acid_box \cup {"none"}] /\ ShellTypes
  BY DEF ShellInd, ShellTypes
<1>2. acid' \in [pc : AcidPcs, known : BOOLEAN, plugin : acid_box \cup {"none"}]
  BY <1>1
<1>3. /\ sh' \in [pc : ShellPcs, p : 0 .. (LineLen - 1), cmd : {sh'.cmd}, argc : 0 .. MaxArgs,
                  arg : {sh'.arg}, reads : {sh'.reads}, i : {sh'.i}, eof : BOOLEAN]
      /\ sh'.pc \in {"sent1", "play", "send2", "sent2", "stopped"}
  <2>1. CASE sh' = sh
    BY <1>1, <2>1 DEF ShellTypes
  <2>2. ASSUME NEW q \in {"play", "stopped"}, Goto(q)
        PROVE  <1>3
    <3>1. q \in ShellPcs
      BY PcsApart
    <3> QED
      BY <1>1, <2>2, <3>1, GotoTyped
  <2> QED
    BY <2>1, <2>2
<1>4. sh.pc \notin OnFile
  BY PcsApart
<1>5. ShellTypes'
  BY <1>1, <1>2, <1>3, <1>4 DEF ShellTypes
<1> QED
  BY <1>3, <1>5, PlayingStep

\* The visualisation thread takes the message.
LEMMA AcidWaitKept ==
    ASSUME ShellInd, app = "shell", app' = app, AcidWait
    PROVE  ShellInd'
<1> DEFINE r == IF acid.pc = "wait1" THEN "rel1" ELSE "rel2"
<1>1. /\ acid.pc \in {"wait1", "wait2"} /\ msgq # <<>> /\ msgq' = Tail(msgq)
      /\ acid' = [acid EXCEPT !.pc = r]
      /\ UNCHANGED <<sh, line, fil, keys, audioVars>>
  BY DEF AcidWait
<1>2. acid \in [pc : AcidPcs, known : BOOLEAN, plugin : acid_box \cup {"none"}] /\ sh.pc \in ShellPcs
  BY DEF ShellInd, ShellTypes
<1>3. /\ msgq = <<"shell">> /\ acid.known
      /\ acid.pc = "wait1" => sh.pc = "sent1"
      /\ acid.pc = "wait2" => sh.pc = "sent2"
  BY <1>1, <1>2, PcsApart DEF ShellInd, Rendezvous, ShellPcs, Painting
<1>4. msgq' = <<>>
  BY <1>1, <1>3
<1>5. r \in AcidPcs /\ (acid.pc = "wait1" => r = "rel1") /\ (acid.pc = "wait2" => r = "rel2")
  BY DEF AcidPcs
<1> HIDE DEF r
<1>6. acid'.pc = r /\ acid'.known
  BY <1>1, <1>2, <1>3
<1>7. Rendezvous'
  BY <1>1, <1>3, <1>4, <1>5, <1>6, PcsApart DEF Rendezvous
<1> QED
  BY <1>1, <1>3, <1>5, <1>7, AcidMoves

\* It answers: the sender goes on.
LEMMA AcidReleaseKept ==
    ASSUME ShellInd, app = "shell", app' = app, AcidRelease
    PROVE  ShellInd'
<1> DEFINE r == IF acid.pc = "rel1" THEN "check" ELSE "wait1"
           q == CASE sh.pc = "sent1" -> "play" [] sh.pc = "sent2" -> "stopped" [] OTHER -> sh.pc
<1>1. /\ acid.pc \in {"rel1", "rel2"} /\ acid' = [acid EXCEPT !.pc = r] /\ Goto(q)
      /\ UNCHANGED <<line, fil, msgq, keys, audioVars>>
  BY DEF AcidRelease
<1>2. acid \in [pc : AcidPcs, known : BOOLEAN, plugin : acid_box \cup {"none"}] /\ sh.pc \in ShellPcs
      /\ ShellTypes
  BY DEF ShellInd, ShellTypes
<1>3. /\ msgq = <<>> /\ acid.known
      /\ acid.pc = "rel1" => sh.pc = "sent1"
      /\ acid.pc = "rel2" => sh.pc = "sent2"
  BY <1>1, <1>2, PcsApart DEF ShellInd, Rendezvous, ShellPcs, Painting
<1>4. /\ r \in AcidPcs /\ q \in {"play", "stopped"}
      /\ acid.pc = "rel1" => r = "check" /\ q = "play"
      /\ acid.pc = "rel2" => r = "wait1" /\ q = "stopped"
  BY <1>1, <1>3 DEF AcidPcs
<1> HIDE DEF r, q
<1>5. acid'.pc = r /\ acid'.known
  BY <1>1, <1>2, <1>3
<1>6. sh'.pc = q
  BY <1>1, <1>2, <1>4, PcsApart, GotoTyped
<1>7. Rendezvous'
  BY <1>1, <1>3, <1>4, <1>5, <1>6, PcsApart DEF Rendezvous, Painting
<1> QED
  BY <1>1, <1>3, <1>4, <1>7, AcidMoves

\* It looks at the queue, paints, sleeps and wakes.
LEMMA AcidPaintKept ==
    ASSUME ShellInd, app = "shell", app' = app, AcidCheck \/ AcidPaint \/ AcidWake
    PROVE  ShellInd'
<1>1. PICK r \in Painting \cup {"wait2"} :
         /\ acid.pc \in Painting /\ acid' = [acid EXCEPT !.pc = r]
         /\ r = "wait2" => msgq # <<>>
  BY DEF AcidCheck, AcidPaint, AcidWake, Painting, Pending, AfterStop
<1>2. UNCHANGED <<sh, line, fil, msgq, keys, audioVars>>
  BY DEF AcidCheck, AcidPaint, AcidWake
<1>3. acid \in [pc : AcidPcs, known : BOOLEAN, plugin : acid_box \cup {"none"}] /\ sh.pc \in ShellPcs
  BY DEF ShellInd, ShellTypes
<1>4. /\ acid.known /\ sh.pc \in {"play", "send2", "sent2"}
      /\ sh.pc # "sent2" => msgq = <<>>
      /\ sh.pc = "sent2" => msgq = <<"shell">>
  BY <1>1, <1>3, PcsApart DEF ShellInd, Rendezvous, ShellPcs, Painting
<1>5. acid'.pc = r /\ acid'.known /\ r \in AcidPcs
  BY <1>1, <1>3, <1>4 DEF AcidPcs, Painting
<1>6. Rendezvous'
  BY <1>1, <1>2, <1>4, <1>5, PcsApart DEF Rendezvous, Painting
<1> QED
  BY <1>1, <1>2, <1>4, <1>5, <1>6, AcidMoves

-----------------------------------------------------------------------------
\* A step of the audio drivers keeps it: before the shell starts they leave the
\* engines off, after it they are at rest.
LEMMA AudioKept ==
    ASSUME ShellInd, app' = app, UNCHANGED shellVars,
           DriverStep \/ AudioHw \/ (app = "audio" /\ \E c \in Calls : Call(c))
    PROVE  ShellInd'
<1>1. UNCHANGED <<sh, line, fil, acid, msgq, keys>>
  BY DEF shellVars
<1>2. ShellTypes' /\ Rendezvous'
  BY <1>1 DEF ShellInd, ShellTypes, Rendezvous
<1>3. AudioTypes
  BY DEF ShellInd
<1>4. CASE AudioHw
  <2>1. AudioTypes' /\ UNCHANGED <<regs, drv>>
    BY <1>3, <1>4, HardwareKept
  <2>2. InOrder' /\ EnginesFollow'
    BY <1>1, <2>1 DEF ShellInd, InOrder, EnginesFollow, EnginesAre
  <2> QED
    BY <1>2, <2>1, <2>2 DEF ShellInd
<1>5. CASE app = "audio" /\ \E c \in Calls : Call(c)
  <2>1. AudioTypes'
    BY <1>3, <1>5, CallKept
  <2>2. sh.pc = "off" /\ app' # "shell"
    BY <1>5 DEF ShellInd, InOrder
  <2>3. InOrder' /\ EnginesFollow'
    BY <1>1, <2>2, PcsApart DEF InOrder, EnginesFollow
  <2> QED
    BY <1>2, <2>1, <2>3 DEF ShellInd
<1>6. CASE DriverStep
  <2>1. AudioTypes'
    BY <1>3, <1>6, DriverKept
  <2>2. sh.pc = "off"
    <3>1. drv.pc # "step" \/ drv.todo # <<>>
      BY <1>6 DEF DriverStep, ShadowStep, Trigger, Finish, IoStep, CaptureStart, CaptureWait, ReadHalf, Running
    <3> QED
      BY <3>1 DEF ShellInd, InOrder
  <2>3. ASSUME app = "shell"
        PROVE  drv'.todo \in Seq(QuietAccesses) /\ EnginesAre(0)'
    <3>1. drv.todo \in Seq(QuietAccesses) /\ EnginesAre(0)
      BY <2>2, <2>3 DEF ShellInd, InOrder, EnginesFollow
    <3>2. drv.todo # <<>>
      BY <1>3, <1>6 DEF AudioTypes, DriverStep, ShadowStep, Trigger, Finish, IoStep, CaptureStart,
                       CaptureWait, ReadHalf, Running
    <3>3. Step \in QuietAccesses /\ Tail(drv.todo) \in Seq(QuietAccesses)
      BY <3>1, <3>2, QuietStep
    <3>4. drv'.todo \in {drv.todo, <<>>, Tail(drv.todo)}
      <4>1. \/ drv' = [drv EXCEPT !.pc = "free"] \/ drv' = [drv EXCEPT !.pc = "done"]
            \/ drv' = [drv EXCEPT !.todo = <<>>, !.pc = "step", !.res = "NACK"]
            \/ drv' = Advance(drv)
        BY <1>6, Zenon DEF DriverStep, ShadowStep, Trigger, Finish, IoStep, CaptureStart, CaptureWait, ReadHalf
      <4>2. drv \in [call : {drv.call}, todo : Seq(Accesses), pc : {"step", "free", "done"},
                     res : {"OK", "NACK"}, calls : Nat]
        BY <1>3 DEF AudioTypes
      <4> QED
        BY <4>1, <4>2 DEF Advance
    <3>5. drv'.todo \in Seq(QuietAccesses)
      BY <3>1, <3>3, <3>4, EmptySeq
    <3>6. EnginesAre(0)'
      <4>1. CASE IoStep
        <5>1. Step \in Accesses /\ Step.k = "io" /\ Step.r # "capture" /\ Step.r \in QuietRegs
          BY <3>3, <4>1, QuietKinds DEF IoStep, Running
        <5>2. IoEffect(Step).fg_l = 0 /\ IoEffect(Step).fg_r = 0 /\ IoEffect(Step).adc = 0
          BY <1>3, <3>1, <5>1, IoTyped
        <5>3. regs' = IoEffect(Step)
          BY <4>1 DEF IoStep
        <5> QED
          BY <5>2, <5>3 DEF EnginesAre
      <4>2. CASE ~IoStep
        <5>1. UNCHANGED regs
          BY <1>6, <4>2 DEF DriverStep, ShadowStep, Trigger, Finish, CaptureStart, CaptureWait, ReadHalf
        <5> QED
          BY <3>1, <5>1, SameRegs
      <4> QED
        BY <4>1, <4>2
    <3> QED
      BY <3>5, <3>6
  <2>4. InOrder' /\ EnginesFollow'
    BY <1>1, <2>2, <2>3, PcsApart DEF InOrder, EnginesFollow
  <2> QED
    BY <1>2, <2>1, <2>4 DEF ShellInd
<1> QED
  BY <1>4, <1>5, <1>6

\* Every step keeps the invariant.
LEMMA ShellNext == ShellInd /\ [Next]_vars => ShellInd'
<1> SUFFICES ASSUME ShellInd, [Next]_vars PROVE ShellInd'
  OBVIOUS
<1>1. CASE UNCHANGED <<audioVars, shellVars, app>>
  <2>1. UNCHANGED <<shadow, dev, i2c, regs, drv, sh, line, fil, acid, msgq, keys, app>>
    BY <1>1 DEF audioVars, shellVars
  <2>2. AudioTypes'
    BY <2>1 DEF ShellInd, AudioTypes, Step
  <2>3. ShellTypes' /\ Rendezvous' /\ EnginesFollow' /\ InOrder'
    BY <2>1 DEF ShellInd, ShellTypes, Rendezvous, EnginesFollow, InOrder, EnginesAre
  <2> QED
    BY <2>2, <2>3 DEF ShellInd
<1>2. CASE AudioStep(DriverStep) \/ AudioStep(AudioHw) \/ (app = "audio" /\ AudioStep(\E c \in Calls : Call(c)))
  <2>1. UNCHANGED shellVars /\ app' = app
    BY <1>2 DEF AudioStep
  <2>2. DriverStep \/ AudioHw \/ (app = "audio" /\ \E c \in Calls : Call(c))
    BY <1>2 DEF AudioStep
  <2> QED
    BY <2>1, <2>2, AudioKept
<1>3. ASSUME app = "shell", app' = app, StartThreads \/ ShellStep \/ Keyboard \/ AcidStep \/ AcidWake
      PROVE  ShellInd'
  <2>1. CASE StartThreads
    BY <1>3, <2>1, StartKept
  <2>2. CASE ShellStep
    BY <1>3, <2>2, PromptKept, ParseKept, PauseKept, DropStartKept, SendKept, DropEndKept,
       ExecFileKept, FatCallKept DEF ShellStep
  <2>3. CASE Keyboard
    BY <1>3, <2>3, TypeKept, BackspaceKept, LineEndKept, PlayKeyKept DEF Keyboard
  <2>4. CASE AcidStep \/ AcidWake
    BY <1>3, <2>4, AcidStartKept, AcidWaitKept, AcidReleaseKept, AcidPaintKept DEF AcidStep
  <2> QED
    BY <1>3, <2>1, <2>2, <2>3, <2>4
<1>4. \/ UNCHANGED <<audioVars, shellVars, app>>
      \/ AudioStep(DriverStep) \/ AudioStep(AudioHw) \/ (app = "audio" /\ AudioStep(\E c \in Calls : Call(c)))
      \/ app = "shell" /\ app' = app /\ (StartThreads \/ ShellStep \/ Keyboard \/ AcidStep \/ AcidWake)
  <2>1. CASE UNCHANGED vars
    BY <2>1 DEF vars
  <2>2. CASE Next
    BY <2>2 DEF Next
  <2> QED
    BY <2>1, <2>2
<1> QED
  BY <1>1, <1>2, <1>3, <1>4

\* A line ended by Enter has its NUL where the user stopped typing; only a line
\* broken off makes _strtok leave the buffer.
LineInd == /\ sh.pc = "parse" /\ ~sh.eof => line[sh.p] = Nul
           /\ sh.pc = "overrun" => sh.eof

\* No other step comes to the tokeniser or touches the line in front of it.
LEMMA LineKept ==
    ASSUME ShellInd, LineInd, StartThreads \/ ShellStep \/ Keyboard \/ AcidStep \/ AcidWake
    PROVE  LineInd'
<1>1. /\ sh.p \in 0 .. (LineLen - 1) /\ line \in [0 .. (LineLen - 1) -> Chars]
      /\ sh \in [pc : ShellPcs, p : 0 .. (LineLen - 1), cmd : {sh.cmd}, argc : 0 .. MaxArgs,
                 arg : {sh.arg}, reads : {sh.reads}, i : {sh.i}, eof : BOOLEAN]
  BY DEF ShellInd, ShellTypes
<1>2. CASE StartThreads
  <2>1. sh'.pc = "prompt"
    BY <1>1, <1>2 DEF StartThreads, shellCreateStatic
  <2> QED
    BY <2>1 DEF LineInd
<1>3. CASE Enter
  <2>1. sh'.pc = "parse" /\ sh'.p = sh.p /\ line' = [line EXCEPT ![sh.p] = Nul]
    BY <1>1, <1>3 DEF Enter
  <2> QED
    BY <1>1, <2>1 DEF LineInd
<1>4. CASE CtrlD
  <2>1. sh'.pc = "parse" /\ sh'.eof
    BY <1>1, <1>4 DEF CtrlD
  <2> QED
    BY <2>1 DEF LineInd
<1>5. CASE Overrun
  <2>1. sh.pc = "parse" /\ sh'.pc = "overrun" /\ sh'.eof = sh.eof /\ ~Ended
    BY <1>1, <1>5 DEF Overrun, At_, Goto
  <2>2. line[sh.p] # Nul
    BY <1>1, <2>1 DEF Ended
  <2> QED
    BY <2>1, <2>2 DEF LineInd
<1>6. CASE Parse
  <2>1. sh'.pc \in {"pause", "exec"}
    BY <1>1, <1>6 DEF Parse
  <2> QED
    BY <2>1 DEF LineInd
<1>7. CASE \/ Prompt \/ Pause \/ ExecNothing \/ DropUsage \/ DropStart \/ Send \/ DropEnd \/ Backspace
           \/ \E c \in Letters \cup {Space} : Type(c)
           \/ \E q \in BOOLEAN : PlayKey(q)
  <2>1. sh'.pc \in {"getc", "prompt", "pause", "send1", "sent1", "sent2", "send2", "play"}
    BY <1>1, <1>7 DEF Prompt, Pause, ExecNothing, DropUsage, DropStart, Send, DropEnd, Backspace, Type,
                      PlayKey, At_, Goto
  <2> QED
    BY <2>1 DEF LineInd
<1>8. CASE \E c \in FileCmds : ExecFile(c)
  <2>1. PICK c \in FileCmds : sh' = [sh EXCEPT !.pc = First[c], !.cmd = c, !.i = 1, !.reads = 0]
    BY <1>8 DEF ExecFile
  <2>2. First[c] \in {"pause", "create", "rename", "chdir", "getcwd", "llcwd", "open", "popen"}
    BY DEF FileCmds, LocalCmds, First
  <2>3. sh'.pc = First[c]
    BY <1>1, <2>1
  <2> QED
    BY <2>2, <2>3 DEF LineInd
<1>9. CASE \E ok, more \in BOOLEAN : FatCall(ok, more)
  <2>1. PICK ok \in BOOLEAN, more \in BOOLEAN : FatCall(ok, more)
    BY <1>9
  <2>2. sh'.pc = After(sh.pc, ok, more) /\ sh.pc \in Calls_
    BY <1>1, <2>1 DEF FatCall
  <2>3. sh'.pc \in Calls_ \cup {"pause"}
    BY <2>2 DEF After, AfterRead, Calls_, OnFile
  <2> QED
    BY <2>3 DEF LineInd, Calls_, OnFile
<1>10. CASE AcidStep \/ AcidWake
  <2>1. CASE AcidRelease
    <3>1. line' = line /\ sh' = [sh EXCEPT !.pc = CASE sh.pc = "sent1" -> "play" [] sh.pc = "sent2" -> "stopped"
                                                    [] OTHER -> sh.pc]
      BY <2>1 DEF AcidRelease, Goto
    <3>2. sh'.pc \in {"play", "stopped"} \/ sh' = sh
      BY <1>1, <3>1
    <3> QED
      BY <3>1, <3>2 DEF LineInd
  <2>2. CASE AcidStart \/ AcidWait \/ AcidCheck \/ AcidPaint \/ AcidWake
    BY <2>2 DEF AcidStart, AcidWait, AcidCheck, AcidPaint, AcidWake, LineInd
  <2> QED
    BY <1>10, <2>1, <2>2 DEF AcidStep
<1> QED
  BY <1>2, <1>3, <1>4, <1>5, <1>6, <1>7, <1>8, <1>9, <1>10 DEF ShellStep, Keyboard

\* Nor does a step of another part.
LEMMA LineNext == ShellInd /\ LineInd /\ [Next]_vars => LineInd'
<1> SUFFICES ASSUME ShellInd, LineInd, [Next]_vars PROVE LineInd'
  OBVIOUS
<1>1. CASE UNCHANGED shellVars
  BY <1>1 DEF shellVars, LineInd
<1>2. UNCHANGED shellVars \/ (StartThreads \/ ShellStep \/ Keyboard \/ AcidStep \/ AcidWake)
  <2>1. CASE UNCHANGED vars
    BY <2>1 DEF vars
  <2>2. CASE Next
    <3>1. ASSUME NEW A, AudioStep(A) PROVE UNCHANGED shellVars
      BY <3>1 DEF AudioStep
    <3> QED
      BY <2>2, <3>1 DEF Next
  <2> QED
    BY <2>1, <2>2
<1> QED
  BY <1>1, <1>2, LineKept

\* What the invariant says of the shell.
LEMMA ShellIndEnough == ShellInd /\ LineInd => ShellInv
<1> SUFFICES ASSUME ShellInd, LineInd PROVE ShellInv
  OBVIOUS
<1>1. sh.pc \in ShellPcs /\ LineLen - 1 \in 0 .. (LineLen - 1)
  BY ShellConstants DEF ShellInd, ShellTypes
<1>2. Len(msgq) <= 1
  <2>1. msgq = <<>> \/ msgq = <<"shell">>
    <3>1. CASE sh.pc \in QuietPcs \cup {"off", "send1", "play", "send2", "stopped"}
      BY <3>1 DEF ShellInd, Rendezvous
    <3>2. CASE sh.pc \in {"sent1", "sent2"}
      BY <3>2 DEF ShellInd, Rendezvous
    <3> QED
      BY <1>1, <3>1, <3>2 DEF ShellPcs
  <2>2. CASE msgq = <<>>
    BY <2>2, EmptySeq
  <2>3. CASE msgq = <<"shell">>
    <3>1. Len(<<"shell">>) = 1
      OBVIOUS
    <3> QED
      BY <2>3, <3>1, 1 <= 1, Zenon
  <2> QED
    BY <2>1, <2>2, <2>3, Zenon
<1>3. TypeOK
  BY <1>2 DEF ShellInd, AudioTypes, ShellTypes, TypeOK, AcidPcs, NineBits
<1>4. LineEnds
  <2>1. ASSUME sh.pc = "parse", ~sh.eof PROVE Ended /\ End <= sh.p
    <3>1. line[sh.p] = Nul /\ sh.p \in 0 .. (LineLen - 1) /\ DOMAIN line = 0 .. (LineLen - 1)
      BY <2>1 DEF LineInd, ShellInd, ShellTypes
    <3>2. End \in 0 .. LineLen /\ \A j \in 0 .. (End - 1) : line[j] # Nul
      BY EndIsFirst
    <3>3. Ended
      BY <3>1 DEF Ended
    <3> HIDE DEF End
    <3>4. End <= sh.p
      BY <3>1, <3>2, ShellConstants
    <3> QED
      BY <3>3, <3>4
  <2> QED
    BY <2>1 DEF LineEnds, LineInd
<1>5. PaintsLiveData
  BY <1>1, PcsApart DEF ShellInd, Rendezvous, EnginesFollow, EnginesAre, ShellPcs, PaintsLiveData
<1>6. PromptQuiet
  BY DEF ShellInd, Rendezvous, EnginesFollow, EnginesAre, QuietPcs, PromptQuiet
<1>7. AnswersSender
  BY <1>1, PcsApart DEF ShellInd, Rendezvous, ShellPcs, Painting, AnswersSender
<1>8. HandleClosed
  BY DEF ShellInd, ShellTypes, OnFile, HandleClosed
<1> QED
  BY <1>3, <1>4, <1>5, <1>6, <1>7, <1>8 DEF ShellInv

\* The shell and the visualisation thread, for every content of the line buffer
\* at the start, every length of it, number of arguments, sampling rate and way
\* the file system answers: a line ended by Enter ends inside its buffer, where
\* the user stopped typing; only one broken off with control-D can make _strtok
\* leave the buffer.  The plugin paints only between start and stop with the
\* capture and both engines on, and they are off at the prompt; each message is
\* answered to the thread that waits for it; and a file is open at the prompt
\* only if closing it failed or perf was broken off (shell.c, bash.c).
THEOREM ShellCorrect == Spec => []ShellInv
<1>1. Init => ShellInd /\ LineInd
  <2>1. Init => sh.pc = "off"
    BY DEF Init, ShellInit
  <2> QED
    BY <2>1, ShellBegins DEF LineInd
<1>2. ShellInd /\ LineInd /\ [Next]_vars => (ShellInd /\ LineInd)'
  BY ShellNext, LineNext
<1>3. ShellInd /\ LineInd => ShellInv
  BY ShellIndEnough
<1> QED
  BY <1>1, <1>2, <1>3, PTL DEF Spec

-----------------------------------------------------------------------------
(* The register maps and the drivers' use of them                             *)

\* What the router compares: an address matches a slave exactly in its span.
LEMMA RouterValues ==
    /\ DOMAIN RouterSpan = {"sdram", "cortex_mm_sl", "fft_cache_mm_sl", "debug", "perf_cntr", "uart_0",
          "timer_0", "sdcard_spi", "timer_1us", "jtag_uart", "sysid", "acortex_dc_fifo"}
    /\ RouterSpan["sdram"][1] = 8388608 /\ RouterSpan["sdram"][2] = 8388608
    /\ RouterSpan["cortex_mm_sl"][1] = 16777216 /\ RouterSpan["cortex_mm_sl"][2] = 1048576
    /\ RouterSpan["fft_cache_mm_sl"][1] = 17825792 /\ RouterSpan["fft_cache_mm_sl"][2] = 4096
    /\ RouterSpan["debug"][1] = 17831936 /\ RouterSpan["debug"][2] = 2048
    /\ RouterSpan["perf_cntr"][1] = 17833984 /\ RouterSpan["perf_cntr"][2] = 64
    /\ RouterSpan["uart_0"][1] = 17834048 /\ RouterSpan["uart_0"][2] = 32
    /\ RouterSpan["timer_0"][1] = 17834080 /\ RouterSpan["timer_0"][2] = 32
    /\ RouterSpan["sdcard_spi"][1] = 17834112 /\ RouterSpan["sdcard_spi"][2] = 32
    /\ RouterSpan["timer_1us"][1] = 17834144 /\ RouterSpan["timer_1us"][2] = 32
    /\ RouterSpan["jtag_uart"][1] = 17834176 /\ RouterSpan["jtag_uart"][2] = 8
    /\ RouterSpan["sysid"][1] = 17834184 /\ RouterSpan["sysid"][2] = 8
    /\ RouterSpan["acortex_dc_fifo"][1] = 17834192 /\ RouterSpan["acortex_dc_fifo"][2] = 8
  BY DEF RouterSpan

Within(s, addr) == RouterSpan[s][1] <= addr /\ addr < RouterSpan[s][1] + RouterSpan[s][2]

\* The mask of the router cuts out the span of the slave.
LEMMA MatchIsWithin ==
    ASSUME NEW addr \in Nat, NEW s \in DOMAIN RouterSpan
    PROVE  addr - (addr % RouterSpan[s][2]) = RouterSpan[s][1] <=> Within(s, addr)
<1>1. CASE s = "sdram"
  BY <1>1, RouterValues DEF Within
<1>2. CASE s = "cortex_mm_sl"
  BY <1>2, RouterValues DEF Within
<1>3. CASE s = "fft_cache_mm_sl"
  BY <1>3, RouterValues DEF Within
<1>4. CASE s = "debug"
  BY <1>4, RouterValues DEF Within
<1>5. CASE s = "perf_cntr"
  BY <1>5, RouterValues DEF Within
<1>6. CASE s = "uart_0"
  BY <1>6, RouterValues DEF Within
<1>7. CASE s = "timer_0"
  BY <1>7, RouterValues DEF Within
<1>8. CASE s = "sdcard_spi"
  BY <1>8, RouterValues DEF Within
<1>9. CASE s = "timer_1us"
  BY <1>9, RouterValues DEF Within
<1>10. CASE s = "jtag_uart"
  BY <1>10, RouterValues DEF Within
<1>11. CASE s = "sysid"
  BY <1>11, RouterValues DEF Within
<1>12. CASE s = "acortex_dc_fifo"
  BY <1>12, RouterValues DEF Within
<1> QED
  BY <1>1, <1>2, <1>3, <1>4, <1>5, <1>6, <1>7, <1>8, <1>9, <1>10, <1>11, <1>12, RouterValues

\* No two slaves overlap.
LEMMA OneSlave ==
    ASSUME NEW addr \in Nat, NEW s \in DOMAIN RouterSpan, Within(s, addr)
    PROVE  Matches(addr) = {s}
<1>1. ASSUME NEW t \in DOMAIN RouterSpan, Within(t, addr)
      PROVE  t = s
  BY <1>1, RouterValues DEF Within
<1> QED
  BY <1>1, MatchIsWithin DEF Matches

\* An access that is taken by its device alone and answered by its register.
Lands(a) == /\ a.addr \in Nat /\ a.pc = "issued"
            /\ Matches(a.addr) = {a.dev}
            /\ Decode(a.dev, a.rw, a.addr) = a.want
            /\ a \in [pc : {"issued"}, rw : {"rd", "wr"}, want : {a.want}, dev : {a.dev}, addr : Nat,
                      slaves : {{}}, got : {a.got}]

\* What it takes for an access to land.
LEMMA AccessIs ==
    ASSUME NEW rw \in {"rd", "wr"}, NEW d \in DOMAIN RouterSpan, NEW want, NEW addr \in Nat,
           Within(d, addr), Decode(d, rw, addr) = want
    PROVE  Lands(Access(rw, d, want, addr))
<1>1. Access(rw, d, want, addr) = [pc |-> "issued", rw |-> rw, want |-> want, dev |-> d, addr |-> addr,
                                   slaves |-> {}, got |-> NoAccess.got]
  BY DEF Access
<1>2. Matches(addr) = {d}
  BY OneSlave
<1> QED
  BY <1>1, <1>2 DEF Lands

Number(d, r) == Native(d, NumberOf[d][r])

\* The registers of the devices whose headers give register numbers: the UART,
LEMMA UartLands ==
    ASSUME NEW r \in DOMAIN NumberOf["uart_0"], NEW rw
    PROVE  /\ Number("uart_0", r) \in Nat /\ Within("uart_0", Number("uart_0", r))
           /\ Decode("uart_0", rw, Number("uart_0", r)) = <<r, "-", 0>>
  BY RouterValues, SMT DEF Number, Within, Native, System, UART_0, NumberOf, ALTERA_AVALON_UART, Decode, Table,
                      UartDecode

\* the system timer,
LEMMA TimerLands ==
    ASSUME NEW r \in DOMAIN NumberOf["timer_0"], NEW rw
    PROVE  /\ Number("timer_0", r) \in Nat /\ Within("timer_0", Number("timer_0", r))
           /\ Decode("timer_0", rw, Number("timer_0", r)) = <<r, "-", 0>>
<1> DEFINE n == NumberOf["timer_0"][r]
<1>1. n \in 0 .. 5 /\ TimerDecode[n + 1] = r /\ Len(TimerDecode) = 6
  BY SMT DEF NumberOf, ALTERA_AVALON_TIMER, TimerDecode
<1>2. Number("timer_0", r) = RouterSpan["timer_0"][1] + 4 * n
  BY RouterValues, SMT DEF Number, Native, System, TIMER_0
<1> HIDE DEF n
<1>3. Number("timer_0", r) \in Nat /\ Within("timer_0", Number("timer_0", r))
  BY <1>1, <1>2, RouterValues, SMT DEF Within
<1>4. Decode("timer_0", rw, Number("timer_0", r))
        = Table(TimerDecode, (Number("timer_0", r) - RouterSpan["timer_0"][1]) \div 4)
  BY SMT DEF Decode
<1>5. (Number("timer_0", r) - RouterSpan["timer_0"][1]) \div 4 = n
  BY <1>1, <1>2, RouterValues, SMT
<1> QED
  BY <1>1, <1>3, <1>4, <1>5, SMT DEF Table

\* the microsecond timer,
LEMMA Timer1usLands ==
    ASSUME NEW r \in DOMAIN NumberOf["timer_1us"], NEW rw
    PROVE  /\ Number("timer_1us", r) \in Nat /\ Within("timer_1us", Number("timer_1us", r))
           /\ Decode("timer_1us", rw, Number("timer_1us", r)) = <<r, "-", 0>>
<1> DEFINE n == NumberOf["timer_1us"][r]
<1>1. n \in 0 .. 5 /\ TimerDecode[n + 1] = r /\ Len(TimerDecode) = 6
  BY SMT DEF NumberOf, ALTERA_AVALON_TIMER, TimerDecode
<1>2. Number("timer_1us", r) = RouterSpan["timer_1us"][1] + 4 * n
  BY RouterValues, SMT DEF Number, Native, System, TIMER_1US
<1> HIDE DEF n
<1>3. Number("timer_1us", r) \in Nat /\ Within("timer_1us", Number("timer_1us", r))
  BY <1>1, <1>2, RouterValues, SMT DEF Within
<1>4. Decode("timer_1us", rw, Number("timer_1us", r))
        = Table(TimerDecode, (Number("timer_1us", r) - RouterSpan["timer_1us"][1]) \div 4)
  BY SMT DEF Decode
<1>5. (Number("timer_1us", r) - RouterSpan["timer_1us"][1]) \div 4 = n
  BY <1>1, <1>2, RouterValues, SMT
<1> QED
  BY <1>1, <1>3, <1>4, <1>5, SMT DEF Table

\* the SPI core of the card,
LEMMA SpiLands ==
    ASSUME NEW r \in DOMAIN NumberOf["sdcard_spi"], NEW rw
    PROVE  /\ Number("sdcard_spi", r) \in Nat /\ Within("sdcard_spi", Number("sdcard_spi", r))
           /\ Decode("sdcard_spi", rw, Number("sdcard_spi", r)) = <<r, "-", 0>>
  BY RouterValues, SMT DEF Number, Within, Native, System, SDCARD_SPI, NumberOf, ALTERA_AVALON_SPI, Decode, Table,
                      SpiDecode

\* the JTAG UART,
LEMMA JtagLands ==
    ASSUME NEW r \in DOMAIN NumberOf["jtag_uart"], NEW rw
    PROVE  /\ Number("jtag_uart", r) \in Nat /\ Within("jtag_uart", Number("jtag_uart", r))
           /\ Decode("jtag_uart", rw, Number("jtag_uart", r)) = <<r, "-", 0>>
  BY RouterValues, SMT DEF Number, Within, Native, System, JTAG_UART, NumberOf, ALTERA_AVALON_JTAG_UART, Decode,
                      Table, JtagDecode

\* the system identifier,
LEMMA SysidLands ==
    ASSUME NEW r \in DOMAIN NumberOf["sysid"], NEW rw
    PROVE  /\ Number("sysid", r) \in Nat /\ Within("sysid", Number("sysid", r))
           /\ Decode("sysid", rw, Number("sysid", r)) = <<r, "-", 0>>
  BY RouterValues, SMT DEF Number, Within, Native, System, SYSID, NumberOf, ALTERA_AVALON_SYSID_QSYS, Decode,
                      Table, SysidDecode

\* and the FIFO of the captured samples.
LEMMA FifoLands ==
    ASSUME NEW r \in DOMAIN NumberOf["acortex_dc_fifo"], NEW rw
    PROVE  /\ Number("acortex_dc_fifo", r) \in Nat /\ Within("acortex_dc_fifo", Number("acortex_dc_fifo", r))
           /\ Decode("acortex_dc_fifo", rw, Number("acortex_dc_fifo", r)) = <<r, "-", 0>>
  BY RouterValues, SMT DEF Number, Within, Native, System, ACORTEX_DC_FIFO, NumberOf, ALTERA_AVALON_FIFO, Decode,
                      Table

\* All of them.
LEMMA ByNumberLands == \A a \in ByNumber : Lands(a)
<1> SUFFICES ASSUME NEW a \in ByNumber PROVE Lands(a)
  OBVIOUS
<1>a. PICK d \in DOMAIN NumberOf : \E r \in DOMAIN NumberOf[d], rw \in {"rd", "wr"} :
          a = Access(rw, d, <<r, "-", 0>>, Native(d, NumberOf[d][r]))
  BY SMT DEF ByNumber
<1>b. PICK r \in DOMAIN NumberOf[d], rw \in {"rd", "wr"} :
          a = Access(rw, d, <<r, "-", 0>>, Native(d, NumberOf[d][r]))
  BY <1>a
<1>1. d \in {"uart_0", "timer_0", "timer_1us", "sdcard_spi", "jtag_uart", "sysid", "acortex_dc_fifo"}
  BY DEF NumberOf
<1>2. d \in DOMAIN RouterSpan
  BY <1>1, RouterValues
<1>3. Number(d, r) \in Nat /\ Within(d, Number(d, r)) /\ Decode(d, rw, Number(d, r)) = <<r, "-", 0>>
  BY <1>1, UartLands, TimerLands, Timer1usLands, SpiLands, JtagLands, SysidLands, FifoLands
<1> QED
  BY <1>2, <1>3, <1>b, AccessIs DEF Number

\* The offsets the cortex decodes.
CortexOffsets == {n \in Nat : n < 1048576}

\* The cortex decodes the offset.
LEMMA CortexAt ==
    ASSUME NEW off \in CortexOffsets, NEW rw
    PROVE  /\ Dynamic("cortex_mm_sl", off) \in Nat
           /\ Within("cortex_mm_sl", Dynamic("cortex_mm_sl", off))
           /\ Decode("cortex_mm_sl", rw, Dynamic("cortex_mm_sl", off)) = CortexDecode(off)
<1>0. off \in Nat /\ off < 1048576
  BY SMT DEF CortexOffsets
<1>1. Dynamic("cortex_mm_sl", off) = 16777216 + off
  BY SMT DEF Dynamic, System, CORTEX_MM_SL
<1>2. Decode("cortex_mm_sl", rw, Dynamic("cortex_mm_sl", off))
        = CortexDecode(Dynamic("cortex_mm_sl", off) - RouterSpan["cortex_mm_sl"][1])
  BY SMT DEF Decode
<1>3. Dynamic("cortex_mm_sl", off) - RouterSpan["cortex_mm_sl"][1] = off
  BY <1>0, <1>1, RouterValues, SMT
<1> QED
  BY <1>0, <1>1, <1>2, <1>3, RouterValues, SMT DEF Within

\* An offset that the cortex decodes to a register lands there.
LEMMA CortexLands ==
    ASSUME NEW off \in CortexOffsets, NEW rw \in {"rd", "wr"}, NEW want, CortexDecode(off) = want
    PROVE  Lands(Access(rw, "cortex_mm_sl", want, Dynamic("cortex_mm_sl", off)))
<1>1. "cortex_mm_sl" \in DOMAIN RouterSpan
  BY RouterValues, SMT
<1> QED
  BY <1>1, CortexAt, AccessIs

\* An offset of the audio part: block 2, its code within the block, its register.
AcortexAt(sub, reg) == 131072 + 4096 * sub + 16 * reg

\* The audio block divides its range among its five parts.
LEMMA AcortexOffset ==
    ASSUME NEW sub \in 0 .. 15, NEW reg \in 0 .. 255
    PROVE  CortexDecode(AcortexAt(sub, reg)) = <<AcortexDecode(sub, reg), "-", 0>>
<1> DEFINE w == CortexWord(AcortexAt(sub, reg))
<1>1. w = 8192 + 256 * sub + reg
  BY SMT DEF CortexWord, AcortexAt
<1> HIDE DEF w
<1>2. BlockCode(w) = 2 /\ SubCode(w) = sub /\ RegCode(w) = reg
  BY <1>1, SMT DEF BlockCode, SubCode, RegCode
<1> QED
  BY <1>2, SMT DEF CortexDecode, w

\* The registers of the I2C master,
LEMMA I2cLands ==
    ASSUME NEW r \in DOMAIN I2C_DRIVER
    PROVE  I2C_DRIVER[r] \in CortexOffsets /\ CortexDecode(I2C_DRIVER[r]) = <<r, "-", 0>>
<1>1. PICK reg \in 0 .. 3 : I2C_DRIVER[r] = AcortexAt(0, reg) /\ AcortexDecode(0, reg) = r
  BY SMT DEF I2C_DRIVER, AcortexDecode, AcortexAt
<1>4. 0 \in 0 .. 15 /\ reg \in 0 .. 255
  BY SMT
<1>2. CortexDecode(AcortexAt(0, reg)) = <<AcortexDecode(0, reg), "-", 0>>
  BY <1>4, AcortexOffset, Zenon
<1>3. I2C_DRIVER[r] \in CortexOffsets
  BY <1>1, SMT DEF CortexOffsets, AcortexAt
<1> QED
  BY <1>1, <1>2, <1>3, SMT

\* of the SRAM block,
LEMMA SramLands ==
    ASSUME NEW r \in DOMAIN SRAM
    PROVE  SRAM[r] \in CortexOffsets /\ CortexDecode(SRAM[r]) = <<r, "-", 0>>
<1>1. PICK reg \in 0 .. 4 : SRAM[r] = AcortexAt(1, reg) /\ AcortexDecode(1, reg) = r
  BY SMT DEF SRAM, AcortexDecode, AcortexAt
<1>4. 1 \in 0 .. 15 /\ reg \in 0 .. 255
  BY SMT
<1>2. CortexDecode(AcortexAt(1, reg)) = <<AcortexDecode(1, reg), "-", 0>>
  BY <1>4, AcortexOffset, Zenon
<1>3. SRAM[r] \in CortexOffsets
  BY <1>1, SMT DEF CortexOffsets, AcortexAt
<1> QED
  BY <1>1, <1>2, <1>3, SMT

\* of the WAV parser,
LEMMA PrsrLands ==
    ASSUME NEW r \in DOMAIN PRSR
    PROVE  PRSR[r] \in CortexOffsets /\ CortexDecode(PRSR[r]) = <<r, "-", 0>>
<1>1. PICK reg \in 0 .. 5 : PRSR[r] = AcortexAt(2, reg) /\ AcortexDecode(2, reg) = r
  BY SMT DEF PRSR, AcortexDecode, AcortexAt
<1>4. 2 \in 0 .. 15 /\ reg \in 0 .. 255
  BY SMT
<1>2. CortexDecode(AcortexAt(2, reg)) = <<AcortexDecode(2, reg), "-", 0>>
  BY <1>4, AcortexOffset, Zenon
<1>3. PRSR[r] \in CortexOffsets
  BY <1>1, SMT DEF CortexOffsets, AcortexAt
<1> QED
  BY <1>1, <1>2, <1>3, SMT

\* of the codec driver,
LEMMA DacLands ==
    ASSUME NEW r \in DOMAIN DAC_DRVR
    PROVE  DAC_DRVR[r] \in CortexOffsets /\ CortexDecode(DAC_DRVR[r]) = <<r, "-", 0>>
<1>1. PICK reg \in 0 .. 3 : DAC_DRVR[r] = AcortexAt(3, reg) /\ AcortexDecode(3, reg) = r
  BY SMT DEF DAC_DRVR, AcortexDecode, AcortexAt
<1>4. 3 \in 0 .. 15 /\ reg \in 0 .. 255
  BY SMT
<1>2. CortexDecode(AcortexAt(3, reg)) = <<AcortexDecode(3, reg), "-", 0>>
  BY <1>4, AcortexOffset, Zenon
<1>3. DAC_DRVR[r] \in CortexOffsets
  BY <1>1, SMT DEF CortexOffsets, AcortexAt
<1> QED
  BY <1>1, <1>2, <1>3, SMT

\* and of the audio block itself.
LEMMA AcortexLands ==
    ASSUME NEW r \in DOMAIN ACORTEX
    PROVE  ACORTEX[r] \in CortexOffsets /\ CortexDecode(ACORTEX[r]) = <<r, "-", 0>>
<1>1. PICK sub \in 4 .. 8 : ACORTEX[r] = AcortexAt(sub, 0) /\ AcortexDecode(sub, 0) = r
  BY SMT DEF ACORTEX, AcortexDecode, AcortexAt
<1>4. sub \in 0 .. 15 /\ 0 \in 0 .. 255
  BY SMT
<1>2. CortexDecode(AcortexAt(sub, 0)) = <<AcortexDecode(sub, 0), "-", 0>>
  BY <1>4, AcortexOffset, Zenon
<1>3. ACORTEX[r] \in CortexOffsets
  BY <1>1, SMT DEF CortexOffsets, AcortexAt
<1> QED
  BY <1>1, <1>2, <1>3, SMT

\* All of them.
LEMMA ByOffsetLands == \A a \in ByOffset : Lands(a)
<1> SUFFICES ASSUME NEW a \in ByOffset PROVE Lands(a)
  OBVIOUS
<1>1. PICK m \in DOMAIN AcortexMap : \E r \in DOMAIN AcortexMap[m], rw \in {"rd", "wr"} :
          a = Access(rw, "cortex_mm_sl", <<r, "-", 0>>, Dynamic("cortex_mm_sl", AcortexMap[m][r]))
  BY SMT DEF ByOffset
<1>2. PICK r \in DOMAIN AcortexMap[m], rw \in {"rd", "wr"} :
          a = Access(rw, "cortex_mm_sl", <<r, "-", 0>>, Dynamic("cortex_mm_sl", AcortexMap[m][r]))
  BY <1>1
<1>3. AcortexMap[m] \in {I2C_DRIVER, SRAM, PRSR, DAC_DRVR, ACORTEX}
  BY SMT DEF AcortexMap
<1>4. AcortexMap[m][r] \in CortexOffsets /\ CortexDecode(AcortexMap[m][r]) = <<r, "-", 0>>
  BY <1>2, <1>3, I2cLands, SramLands, PrsrLands, DacLands, AcortexLands
<1> QED
  BY <1>2, <1>4, CortexLands

\* The transform engines: blocks 0 and 1.
LEMMA FgyrusLands == \A a \in OfFgyrus : Lands(a)
<1> SUFFICES ASSUME NEW a \in OfFgyrus PROVE Lands(a)
  OBVIOUS
<1>a. PICK left \in BOOLEAN, r \in DOMAIN FGYRUS, rw \in {"rd", "wr"} :
          a = FgyrusAccess(left, r, rw)
  BY SMT DEF OfFgyrus
<1>1. PICK reg \in {0, 2, 4, 6} : FGYRUS[r] = 16 * reg /\ FgyrusDecode(0, reg) = r
  BY SMT DEF FGYRUS, FgyrusDecode
<1>2. CASE left
  <2>1. get_full_fgyrus_addr(left, FGYRUS[r]) = 16 * reg
    BY <1>1, <1>2, SMT DEF get_full_fgyrus_addr
  <2>2. CortexWord(16 * reg) = reg
    BY <1>1, SMT DEF CortexWord
  <2>3. BlockCode(reg) = 0 /\ SubCode(reg) = 0 /\ RegCode(reg) = reg
    BY <1>1, SMT DEF BlockCode, SubCode, RegCode
  <2>4. CortexDecode(16 * reg) = <<r, "L", 0>>
    BY <1>1, <2>2, <2>3, SMT DEF CortexDecode
  <2>5. 16 * reg \in CortexOffsets
    BY <1>1, SMT DEF CortexOffsets
  <2>6. Lands(Access(rw, "cortex_mm_sl", <<r, "L", 0>>, Dynamic("cortex_mm_sl", 16 * reg)))
    BY <2>4, <2>5, CortexLands, Zenon
  <2> QED
    BY <1>a, <1>2, <2>1, <2>6, Zenon DEF FgyrusAccess
<1>3. CASE ~left
  <2>1. get_full_fgyrus_addr(left, FGYRUS[r]) = 65536 + 16 * reg
    BY <1>1, <1>3, SMT DEF get_full_fgyrus_addr
  <2>2. CortexWord(65536 + 16 * reg) = 4096 + reg
    BY <1>1, SMT DEF CortexWord
  <2>3. BlockCode(4096 + reg) = 1 /\ SubCode(4096 + reg) = 0 /\ RegCode(4096 + reg) = reg
    BY <1>1, SMT DEF BlockCode, SubCode, RegCode
  <2> DEFINE off == 65536 + 16 * reg
  <2>4. CortexDecode(off) = <<r, "R", 0>>
    BY <1>1, <2>2, <2>3, SMT DEF CortexDecode
  <2>5. off \in CortexOffsets
    BY <1>1, SMT DEF CortexOffsets
  <2>6. get_full_fgyrus_addr(left, FGYRUS[r]) = off
    BY <2>1, SMT
  <2> HIDE DEF off
  <2>7. Lands(Access(rw, "cortex_mm_sl", <<r, "R", 0>>, Dynamic("cortex_mm_sl", off)))
    BY <2>4, <2>5, CortexLands, Zenon
  <2> QED
    BY <1>a, <1>3, <2>6, <2>7, Zenon DEF FgyrusAccess
<1> QED
  BY <1>2, <1>3

\* The LEDs: block 3.
LEMMA VcortexLands == \A a \in OfVcortex : Lands(a)
<1>1. Lands(Access("wr", "cortex_mm_sl", <<"VCORTEX_CONTROL", "-", 0>>,
                   Dynamic("cortex_mm_sl", VCORTEX_CONTROL)))
  <2>1. VCORTEX_CONTROL \in CortexOffsets
    BY SMT DEF VCORTEX_CONTROL, CortexOffsets
  <2>2. CortexWord(VCORTEX_CONTROL) = 12288
    BY SMT DEF VCORTEX_CONTROL, CortexWord
  <2>3. BlockCode(12288) = 3 /\ SubCode(12288) = 0
    BY SMT DEF BlockCode, SubCode
  <2>4. CortexDecode(VCORTEX_CONTROL) = <<"VCORTEX_CONTROL", "-", 0>>
    BY <2>2, <2>3, SMT DEF CortexDecode
  <2> QED
    BY <2>1, <2>4, CortexLands, SMT
<1>2. ASSUME NEW i \in 0 .. 15
      PROVE  Lands(Access("wr", "cortex_mm_sl", <<"PWM_RAM", "-", i>>, Dynamic("cortex_mm_sl", pwm_paint(i))))
  <2>1. pwm_paint(i) \in CortexOffsets
    BY SMT DEF pwm_paint, CortexOffsets
  <2>2. CortexWord(pwm_paint(i)) = 12544 + i
    BY SMT DEF pwm_paint, CortexWord
  <2>3. BlockCode(12544 + i) = 3 /\ SubCode(12544 + i) = 1 /\ RegCode(12544 + i) % 16 = i
    BY SMT DEF BlockCode, SubCode, RegCode
  <2>4. CortexDecode(pwm_paint(i)) = <<"PWM_RAM", "-", i>>
    BY <2>2, <2>3, SMT DEF CortexDecode
  <2> QED
    BY <2>1, <2>4, CortexLands, SMT
<1>3. ASSUME NEW a \in OfVcortex PROVE Lands(a)
  BY <1>1, <1>2, SMT DEF OfVcortex
<1> QED
  BY <1>3

\* The transform results.
LEMMA FftCacheLands == \A a \in OfFftCache : Lands(a)
<1> SUFFICES ASSUME NEW a \in OfFftCache PROVE Lands(a)
  OBVIOUS
<1>a. PICK left \in BOOLEAN, i \in 0 .. 127 :
          a = CacheAccess(left, i)
  BY SMT DEF OfFftCache
<1> DEFINE addr == Dynamic("fft_cache_mm_sl", read_fft_cache(left, i))
           off == addr - RouterSpan["fft_cache_mm_sl"][1]
<1>1. read_fft_cache(left, i) \in Nat /\ read_fft_cache(left, i) < 4096
      /\ (left => read_fft_cache(left, i) = 16 * (i + 128)) /\ (~left => read_fft_cache(left, i) = 16 * i)
  <2>1. CASE left
    BY <2>1, SMT DEF read_fft_cache
  <2>2. CASE ~left
    BY <2>2, SMT DEF read_fft_cache
  <2> QED
    BY <2>1, <2>2, SMT
<1>2. addr \in Nat /\ off = read_fft_cache(left, i) /\ Within("fft_cache_mm_sl", addr)
  BY <1>1, RouterValues, SMT DEF Dynamic, System, FFT_CACHE_MM_SL, Within
<1>3. "fft_cache_mm_sl" \in DOMAIN RouterSpan
  BY RouterValues, SMT
<1>4. Decode("fft_cache_mm_sl", "rd", addr) = FftCacheDecode(off)
  BY SMT DEF Decode
<1> HIDE DEF addr, off
<1>5. CASE left
  <2>3. off = 16 * (i + 128)
    BY <1>1, <1>2, <1>5, Zenon
  <2>4. off = 16 * i + 2048
    BY <2>3, SMT
  <2>5. off \div 4 = 4 * i + 512
    BY <2>4, SMT
  <2>6. (4 * i + 512) \div 512 = 1 /\ (4 * i + 512) \div 4 = i + 128
    BY SMT
  <2>7. (i + 128) % 128 = i
    BY SMT
  <2>1. off \div 4 = 4 * i + 512 /\ (4 * i + 512) \div 512 = 1 /\ ((4 * i + 512) \div 4) % 128 = i
    BY <2>5, <2>6, <2>7, SMT
  <2>2. FftCacheDecode(off) = <<"FFT_CACHE", "L", i>>
    BY <2>1, SMT DEF FftCacheDecode
  <2>8. Lands(Access("rd", "fft_cache_mm_sl", <<"FFT_CACHE", "L", i>>, addr))
    BY <1>2, <1>3, <1>4, <2>2, AccessIs, Zenon
  <2> QED
    BY <1>a, <1>5, <2>8, Zenon DEF addr, CacheAccess
<1>6. CASE ~left
  <2>1. off \div 4 = 4 * i /\ (4 * i) \div 512 # 1 /\ ((4 * i) \div 4) % 128 = i
    BY <1>1, <1>2, <1>6, SMT
  <2>2. FftCacheDecode(off) = <<"FFT_CACHE", "R", i>>
    BY <2>1, SMT DEF FftCacheDecode
  <2>3. Lands(Access("rd", "fft_cache_mm_sl", <<"FFT_CACHE", "R", i>>, addr))
    BY <1>2, <1>3, <1>4, <2>2, AccessIs, Zenon
  <2> QED
    BY <1>a, <1>6, <2>3, Zenon DEF addr, CacheAccess
<1> QED
  BY <1>5, <1>6

\* The performance counters.
LEMMA PerfLands == \A a \in OfPerf : Lands(a)
<1> SUFFICES ASSUME NEW a \in OfPerf PROVE Lands(a)
  OBVIOUS
<1>a. PICK s \in 0 .. 3, r \in {"begin", "end", "time_lo", "time_hi", "starts"} :
          a = PerfAccess(s, r)
  BY SMT DEF OfPerf
<1> DEFINE rw == IF r \in {"begin", "end"} THEN "wr" ELSE "rd"
           n == CASE r \in {"end", "time_lo"} -> 0 [] r \in {"begin", "time_hi"} -> 1 [] r = "starts" -> 2
           addr == Native("perf_cntr", PerfNumber(s, r))
           off == addr - RouterSpan["perf_cntr"][1]
<1>1. rw \in {"rd", "wr"} /\ n \in 0 .. 2 /\ PerfNumber(s, r) = 4 * s + n
  BY SMT DEF PerfNumber
<1>2. /\ rw = "wr" => <<"end", "begin", "none", "none">>[n + 1] = r
      /\ rw # "wr" => <<"time_lo", "time_hi", "starts", "none">>[n + 1] = r
  BY SMT
<1> HIDE DEF rw, n
<1>3. addr \in Nat /\ off = 4 * (4 * s + n) /\ Within("perf_cntr", addr)
  BY <1>1, RouterValues, SMT DEF Native, System, PERF_CNTR, Within
<1>4. Decode("perf_cntr", rw, addr) = PerfDecode(rw, off \div 4)
  BY SMT DEF Decode
<1> HIDE DEF off
<1>5. off \div 4 = 4 * s + n /\ (4 * s + n) % 4 = n /\ (4 * s + n) \div 4 = s
  BY <1>1, <1>3, SMT
<1>6. PerfDecode(rw, 4 * s + n) = <<r, "-", s>>
  BY <1>1, <1>2, <1>5, SMT DEF PerfDecode
<1>7. Decode("perf_cntr", rw, addr) = <<r, "-", s>>
  BY <1>4, <1>5, <1>6, SMT
<1>8. "perf_cntr" \in DOMAIN RouterSpan
  BY RouterValues, SMT
<1> HIDE DEF addr
<1>9. Lands(Access(rw, "perf_cntr", <<r, "-", s>>, addr))
  BY <1>1, <1>3, <1>7, <1>8, AccessIs, Zenon
<1> QED
  BY <1>a, <1>9, Zenon DEF rw, addr, PerfAccess

\* The mask of a flag meets the bit that carries it, and no other.
FlagMet(hf, sw) == \A i \in DOMAIN sw, g \in DOMAIN hf :
                     sw[i] # "0" => (hf[g] < Len(sw) /\ sw[hf[g] + 1] = sw[i] <=> g = sw[i])

\* The bits of the status words, one device at a time.
LEMMA UartStatusMet == FlagMet(UART_STATUS, UartStatusReg)
  BY SMTT(30) DEF FlagMet, UART_STATUS, UartStatusReg
LEMMA UartControlMet == FlagMet(UART_CONTROL, UartControlReg)
  BY SMTT(30) DEF FlagMet, UART_CONTROL, UartControlReg
LEMMA TimerMet == FlagMet(TIMER_STATUS, TimerStatusReg)
  BY SMTT(30) DEF FlagMet, TIMER_STATUS, TimerStatusReg
LEMMA SpiMet == FlagMet(SPI_STATUS, SpiStatusReg)
  BY SMTT(30) DEF FlagMet, SPI_STATUS, SpiStatusReg
LEMMA JtagControlMet == FlagMet(JTAG_CONTROL, JtagControlReg)
  BY SMTT(30) DEF FlagMet, JTAG_CONTROL, JtagControlReg
LEMMA JtagDataMet == FlagMet(JTAG_DATA, JtagDataReg)
  BY SMTT(30) DEF FlagMet, JTAG_DATA, JtagDataReg
LEMMA I2cMet == FlagMet(I2C_STATUS, I2cStatusReg)
  BY SMTT(30) DEF FlagMet, I2C_STATUS, I2cStatusReg
LEMMA SramMet == FlagMet(SRAM_STATUS, SramStatusReg)
  BY SMTT(30) DEF FlagMet, SRAM_STATUS, SramStatusReg
LEMMA FgyrusMet == FlagMet(FGYRUS_STATUS, FgyrusStatusReg)
  BY SMTT(30) DEF FlagMet, FGYRUS_STATUS, FgyrusStatusReg

\* All of them.
LEMMA FlagsMet == \A d \in DOMAIN StatusWord : FlagMet(HeaderFlags[d], StatusWord[d])
  BY UartStatusMet, UartControlMet, TimerMet, SpiMet, JtagControlMet, JtagDataMet, I2cMet, SramMet, FgyrusMet,
     SMT DEF StatusWord, HeaderFlags

\* The number of an interrupt in system.h belongs to one device, the one on that line.
LEMMA IrqMet ==
    ASSUME NEW k \in 0 .. (Len(IrqLine) - 1)
    PROVE  (CHOOSE d \in DOMAIN System : System[d].irq = k) = IrqLine[k + 1]
<1>1. k \in 0 .. 5
  BY SMT DEF IrqLine
<1>2. IrqLine[k + 1] \in DOMAIN System /\ System[IrqLine[k + 1]].irq = k
  BY <1>1, SMT DEF IrqLine, System, JTAG_UART, UART_0, TIMER_0, SDCARD_SPI, TIMER_1US, CORTEX_MM_SL
<1>3. ASSUME NEW d \in DOMAIN System, System[d].irq = k PROVE d = IrqLine[k + 1]
  BY <1>1, <1>3, SMT DEF IrqLine, System, JTAG_UART, UART_0, TIMER_0, SDCARD_SPI, TIMER_1US, CORTEX_MM_SL,
       ACORTEX_DC_FIFO, FFT_CACHE_MM_SL, PERF_CNTR, SDRAM, SYSID
<1> HIDE DEF IrqLine
<1> QED
  BY <1>2, <1>3

BusInd ==
    /\ bus \in [pc : {"idle", "issued", "routed", "answered"}, rw : {bus.rw}, want : {bus.want},
                dev : {bus.dev}, addr : {bus.addr}, slaves : {bus.slaves}, got : {bus.got}]
    /\ bus.pc # "idle" => Matches(bus.addr) = {bus.dev} /\ Decode(bus.dev, bus.rw, bus.addr) = bus.want
    /\ AccessLands

\* The header RAM holds the words of the header that were counted, but for those
\* that came while the parser was idle.
PrsrInd ==
    /\ prs \in [words : Nat, active : BOOLEAN, ended : BOOLEAN, hdr : Nat, stored : SUBSET Nat,
                missed : SUBSET Nat]
    /\ \A w \in Nat : w < prs.hdr /\ w < prs.words => w \in prs.stored \cup prs.missed

\* While no file ends, the two halves that were read belong to counts that are not
\* larger than the present one, as far as the comparison goes.
FetchInd ==
    /\ fch \in [pc : {"idle", "first", "second", "test", "copy"}, h : Nat, l : Nat, first : {"h", "l"},
                i : Nat, clean : BOOLEAN, stale : SUBSET Nat]
    /\ fch.pc \in {"first", "second", "test"} => fch.i = 0
    /\ fch.pc = "copy" => fch.i <= HdrWords
    /\ fch.clean =>
         /\ fch.pc = "second" /\ fch.first = "h" => fch.h * Half <= Bytes
         /\ fch.pc = "second" /\ fch.first = "l" /\ Bytes < Half => fch.l <= Bytes
         /\ fch.pc = "test" /\ HeaderThere => Bytes >= HdrBytes
         /\ fch.pc = "copy" => Bytes >= HdrBytes

HeaderInd == PrsrInd /\ FetchInd /\ HeaderComplete

RegsInd == BusInd /\ FlagsAgree /\ IrqReachesDriver /\ HeaderInd

\* An access in flight stays the one that was meant.
LEMMA BusKept ==
    ASSUME BusInd, BusActs
    PROVE  BusInd'
<1>1. ASSUME NEW a \in ByNumber \cup ByOffset \cup OfFgyrus \cup OfVcortex \cup OfFftCache \cup OfPerf, Issue(a)
      PROVE  BusInd'
  <2>1. Lands(a)
    BY ByNumberLands, ByOffsetLands, FgyrusLands, VcortexLands, FftCacheLands, PerfLands
  <2>2. bus' = a
    BY <1>1 DEF Issue
  <2> QED
    BY <2>1, <2>2 DEF Lands, BusInd, AccessLands
<1>2. CASE Route
  <2>1. bus.pc = "issued" /\ bus' = [bus EXCEPT !.pc = "routed", !.slaves = Matches(bus.addr)]
    BY <1>2 DEF Route
  <2>2. /\ bus' \in [pc : {"idle", "issued", "routed", "answered"}, rw : {bus'.rw}, want : {bus'.want},
                     dev : {bus'.dev}, addr : {bus'.addr}, slaves : {bus'.slaves}, got : {bus'.got}]
        /\ bus'.pc = "routed" /\ bus'.slaves = Matches(bus.addr) /\ bus'.addr = bus.addr
        /\ bus'.dev = bus.dev /\ bus'.rw = bus.rw /\ bus'.want = bus.want
    BY <2>1 DEF BusInd
  <2> QED
    BY <2>1, <2>2 DEF BusInd, AccessLands
<1>3. CASE Answer
  <2>1. PICK s \in bus.slaves : bus' = [bus EXCEPT !.pc = "answered", !.got = Decode(s, bus.rw, bus.addr)]
    BY <1>3 DEF Answer
  <2>2. bus.pc = "routed" /\ s = bus.dev /\ Matches(bus.addr) = {bus.dev}
        /\ Decode(bus.dev, bus.rw, bus.addr) = bus.want
    BY <1>3 DEF Answer, BusInd, AccessLands
  <2>3. /\ bus' \in [pc : {"idle", "issued", "routed", "answered"}, rw : {bus'.rw}, want : {bus'.want},
                     dev : {bus'.dev}, addr : {bus'.addr}, slaves : {bus'.slaves}, got : {bus'.got}]
        /\ bus'.pc = "answered" /\ bus'.got = bus.want /\ bus'.addr = bus.addr
        /\ bus'.dev = bus.dev /\ bus'.rw = bus.rw /\ bus'.want = bus.want
    BY <2>1, <2>2 DEF BusInd
  <2> QED
    BY <2>2, <2>3 DEF BusInd, AccessLands
<1>4. CASE Answered
  BY <1>4 DEF Answered, NoAccess, BusInd, AccessLands
<1> QED
  BY <1>1, <1>2, <1>3, <1>4 DEF BusActs

\* A status word is read as it was set, and an interrupt is served by its driver.
LEMMA StatusKept ==
    ASSUME FlagsAgree, IrqReachesDriver, StatusActs
    PROVE  FlagsAgree' /\ IrqReachesDriver'
<1>1. ASSUME NEW d \in DOMAIN StatusWord, NEW i \in DOMAIN StatusWord[d], StatusWord[d][i] # "0",
             ReadStatus(d, StatusWord[d][i])
      PROVE  FlagsAgree' /\ IrqReachesDriver'
  <2> DEFINE f == StatusWord[d][i]
             seen == {g \in DOMAIN HeaderFlags[d] : /\ HeaderFlags[d][g] < Len(StatusWord[d])
                                                    /\ StatusWord[d][HeaderFlags[d][g] + 1] = f}
  <2>1. FlagMet(HeaderFlags[d], StatusWord[d])
    BY FlagsMet
  <2>2. seen = {f} \cap DOMAIN HeaderFlags[d]
    BY <1>1, <2>1 DEF FlagMet
  <2>3. flg' = [word |-> d, driven |-> {f}, seen |-> seen] /\ isr' = isr
    BY <1>1 DEF ReadStatus
  <2> HIDE DEF f, seen
  <2> QED
    BY <2>2, <2>3 DEF FlagsAgree, IrqReachesDriver
<1>2. ASSUME NEW k \in 0 .. (Len(IrqLine) - 1), Interrupt(k)
      PROVE  FlagsAgree' /\ IrqReachesDriver'
  BY <1>2, IrqMet DEF Interrupt, FlagsAgree, IrqReachesDriver
<1> QED
  BY <1>1, <1>2 DEF StatusActs

-----------------------------------------------------------------------------
\* A count is its two halves.
LEMMA Halves ==
    ASSUME NEW n \in Nat, NEW k \in Nat \ {0}
    PROVE  n \div k \in Nat /\ n % k \in 0..(k - 1) /\ n = k * (n \div k) + (n % k)
<1>1. n \div k \in Int /\ n \div k >= 0 /\ n % k \in 0..(k - 1)
  OBVIOUS
<1> DEFINE q == n \div k
           r == n % k
           p == k * q
<1>2. q \in Int /\ r \in Int /\ q = n \div k /\ r = n % k
  BY <1>1
<1> HIDE DEF q, r
<1>3. p \in Int /\ p = k * q
  BY <1>2
<1> HIDE DEF p
<1>4. n = p + r
  BY <1>2, <1>3
<1>5. n = k * q + r
  BY <1>3, <1>4
<1>6. n = k * (n \div k) + (n % k)
  BY <1>5 DEF q, r
<1>7. n \div k \in Nat
  BY <1>1
<1> QED
  BY <1>1, <1>6, <1>7

\* A high half of an earlier count and the low half of the present one make no
\* more than the present count.
LEMMA OldHigh ==
    ASSUME NEW n \in Nat, NEW k \in Nat \ {0}, NEW h \in Nat, h * k <= n
    PROVE  h * k + (n % k) <= n
<1> DEFINE q == n \div k
           r == n % k
<1>1. q \in Nat /\ r \in 0 .. (k - 1) /\ n = k * q + r
  BY Halves
<1> HIDE DEF q, r
<1>2. h <= q
  <2> SUFFICES ASSUME h >= q + 1 PROVE FALSE
    BY <1>1
  <2>1. h * k >= (q + 1) * k
    BY <1>1
  <2>2. (q + 1) * k = k * q + k
    BY <1>1
  <2>3. k * q \in Int /\ h * k \in Int /\ (q + 1) * k \in Int
    BY <1>1
  <2> QED
    BY <1>1, <2>1, <2>2, <2>3
<1>3. h * k <= k * q
  BY <1>1, <1>2
<1>4. h * k \in Int /\ k * q \in Int
  BY <1>1
<1>5. h * k + r <= n
  BY <1>1, <1>3, <1>4
<1> QED
  BY <1>5 DEF r

\* A word is counted: what was read of the count before stays behind it.
LEMMA WordKept ==
    ASSUME HeaderInd, ParserReads
    PROVE  HeaderInd'
<1> DEFINE st == IF prs.active /\ prs.words < prs.hdr THEN prs.stored \cup {prs.words} ELSE prs.stored
           ms == IF ~prs.active THEN prs.missed \cup {prs.words} ELSE prs.missed
           n == prs.words + 1
<1>1. prs \in [words : Nat, active : BOOLEAN, ended : BOOLEAN, hdr : Nat, stored : SUBSET Nat,
               missed : SUBSET Nat]
  BY DEF HeaderInd, PrsrInd
<1>2. prs' = [prs EXCEPT !.words = n, !.stored = st, !.missed = ms] /\ fch' = fch
  BY DEF ParserReads
<1>3. /\ st \in SUBSET Nat /\ ms \in SUBSET Nat /\ prs.stored \subseteq st /\ prs.missed \subseteq ms
      /\ prs.words < prs.hdr => prs.words \in st \cup ms
      /\ n \in Nat /\ n = prs.words + 1
  BY <1>1
<1> HIDE DEF st, ms, n
<1>4. /\ prs' \in [words : Nat, active : BOOLEAN, ended : BOOLEAN, hdr : Nat, stored : SUBSET Nat,
                   missed : SUBSET Nat]
      /\ prs'.words = prs.words + 1 /\ prs'.hdr = prs.hdr /\ prs'.stored = st /\ prs'.missed = ms
  BY <1>1, <1>2, <1>3
<1>5. PrsrInd'
  <2>1. ASSUME NEW w \in Nat, w < prs'.hdr, w < prs'.words PROVE w \in prs'.stored \cup prs'.missed
    <3>1. w < prs.words \/ w = prs.words
      BY <1>1, <1>4, <2>1
    <3> QED
      BY <1>3, <1>4, <2>1, <3>1 DEF HeaderInd, PrsrInd
  <2> QED
    BY <1>4, <2>1 DEF PrsrInd
<1>6. Bytes \in Nat /\ Bytes' = Bytes + 2
  BY <1>1, <1>4 DEF Bytes
<1>7. FetchInd'
  <2>1. fch.h \in Nat /\ fch.l \in Nat
    BY DEF HeaderInd, FetchInd
  <2> DEFINE p == fch.h * Half
  <2>2. p \in Int
    BY <2>1, RegConstants
  <2>3. fch.clean /\ fch.pc = "second" /\ fch.first = "h" => p <= Bytes
    BY DEF HeaderInd, FetchInd
  <2>4. fch'.h * Half = p
    BY <1>2
  <2> HIDE DEF p
  <2>5. fch'.clean /\ fch'.pc = "second" /\ fch'.first = "h" => fch'.h * Half <= Bytes'
    BY <1>2, <1>6, <2>2, <2>3, <2>4
  <2>6. HeaderThere' <=> HeaderThere
    BY <1>2 DEF HeaderThere, prsr_get_bytes_read
  <2> HIDE DEF Bytes, HeaderThere
  <2>7. fch'.clean =>
          /\ fch'.pc = "second" /\ fch'.first = "l" /\ Bytes' < Half => fch'.l <= Bytes'
          /\ fch'.pc = "test" /\ HeaderThere' => Bytes' >= HdrBytes
          /\ fch'.pc = "copy" => Bytes' >= HdrBytes
    BY <1>2, <1>6, <2>1, <2>6, RegConstants DEF HeaderInd, FetchInd
  <2> QED
    BY <1>2, <2>5, <2>7 DEF HeaderInd, FetchInd
<1>8. HeaderComplete'
  BY <1>2, <1>3, <1>4 DEF HeaderInd, HeaderComplete
<1> QED
  BY <1>5, <1>7, <1>8 DEF HeaderInd

\* A file begins or ends.  At its end nothing is counted, and what the fetch has
\* read means nothing any more.
LEMMA FileKept ==
    ASSUME HeaderInd, Activate \/ EndOfFile
    PROVE  HeaderInd'
<1>1. CASE Activate
  <2>1. prs' = [prs EXCEPT !.active = TRUE] /\ fch' = fch
    BY <1>1 DEF Activate
  <2>2. /\ prs' \in [words : Nat, active : BOOLEAN, ended : BOOLEAN, hdr : Nat, stored : SUBSET Nat,
                     missed : SUBSET Nat]
        /\ prs'.words = prs.words /\ prs'.hdr = prs.hdr /\ prs'.stored = prs.stored /\ prs'.missed = prs.missed
    BY <2>1 DEF HeaderInd, PrsrInd
  <2>3. PrsrInd'
    BY <2>2 DEF HeaderInd, PrsrInd
  <2>4. Bytes' = Bytes /\ (HeaderThere' <=> HeaderThere)
    BY <2>1, <2>2 DEF Bytes, HeaderThere, prsr_get_bytes_read
  <2>5. FetchInd'
    BY <2>1, <2>4 DEF HeaderInd, FetchInd
  <2>6. HeaderComplete'
    BY <2>1, <2>2 DEF HeaderInd, HeaderComplete
  <2> QED
    BY <2>3, <2>5, <2>6 DEF HeaderInd
<1>2. CASE EndOfFile
  <2>1. PICK n \in HdrLens : prs' = [words |-> 0, active |-> FALSE, ended |-> TRUE, hdr |-> n,
                                     stored |-> {}, missed |-> {}]
    BY <1>2 DEF EndOfFile
  <2>2. n \in Nat
    BY RegConstants DEF HdrLens
  <2>3. PrsrInd'
    BY <2>1, <2>2 DEF PrsrInd
  <2>4. fch' = [fch EXCEPT !.clean = FALSE]
    BY <1>2 DEF EndOfFile
  <2>5. /\ fch' \in [pc : {"idle", "first", "second", "test", "copy"}, h : Nat, l : Nat, first : {"h", "l"},
                     i : Nat, clean : BOOLEAN, stale : SUBSET Nat]
        /\ fch'.clean = FALSE /\ fch'.pc = fch.pc /\ fch'.i = fch.i
    BY <2>4 DEF HeaderInd, FetchInd
  <2>6. FetchInd' /\ HeaderComplete'
    BY <2>5 DEF HeaderInd, FetchInd, HeaderComplete
  <2> QED
    BY <2>3, <2>6 DEF HeaderInd
<1> QED
  BY <1>1, <1>2

\* The fetch: the count is read half by half, and then the header word by word.
LEMMA FetchKept ==
    ASSUME HeaderInd, FetchHeader \/ ReadFirst \/ ReadSecond \/ TestBytes \/ CopyWord
    PROVE  HeaderInd'
<1> DEFINE T == [pc : {"idle", "first", "second", "test", "copy"}, h : Nat, l : Nat, first : {"h", "l"},
                 i : Nat, clean : BOOLEAN, stale : SUBSET Nat]
<1>0. /\ fch \in T /\ fch.h \in Nat /\ fch.l \in Nat /\ fch.i \in Nat /\ fch.first \in {"h", "l"}
      /\ fch.stale \subseteq Nat
  BY DEF HeaderInd, FetchInd
<1>p. prs' = prs
  BY DEF FetchHeader, ReadFirst, ReadSecond, TestBytes, CopyWord
<1>q. PrsrInd' /\ prs.words \in Nat
  BY <1>p DEF HeaderInd, PrsrInd
<1>b. Bytes \in Nat /\ Bytes' = Bytes
  BY <1>p, <1>q DEF Bytes
<1>c. Half \in Nat \ {0} /\ HdrBytes \in Nat /\ HdrWords \in Nat /\ 2 * HdrWords <= HdrBytes /\ HdrBytes <= Half
  BY RegConstants, HeaderFits
<1>h. HighHalf \in Nat /\ LowHalf \in 0 .. (Half - 1) /\ Bytes = Half * HighHalf + LowHalf
  BY <1>b, <1>c, Halves DEF HighHalf, LowHalf
<1>i. HighHalf \in Nat /\ LowHalf \in Nat
  BY <1>c, <1>h
\* A fetch that has copied nothing more is as complete as before.
<1>k. ASSUME fch'.stale = fch.stale, fch'.clean = fch.clean, FetchInd' PROVE HeaderInd'
  BY <1>k, <1>p, <1>q DEF HeaderInd, HeaderComplete
<1>2. CASE FetchHeader
  <2>1. PICK o \in {"h", "l"} : fch' = [fch EXCEPT !.pc = "first", !.first = o, !.i = 0, !.clean = TRUE,
                                                   !.stale = {}]
    BY <1>2 DEF FetchHeader
  <2>2. fch' \in T /\ fch'.pc = "first" /\ fch'.i = 0 /\ fch'.stale = {}
    BY <1>0, <2>1
  <2> QED
    BY <1>q, <2>2 DEF HeaderInd, FetchInd, HeaderComplete
<1>3. CASE ReadFirst
  <2>1. fch.pc = "first" /\ fch.i = 0
    BY <1>3 DEF ReadFirst, HeaderInd, FetchInd
  <2>2. CASE fch.first = "h"
    <3>1. fch' = [fch EXCEPT !.pc = "second", !.h = HighHalf]
      BY <1>3, <2>2 DEF ReadFirst
    <3>2. /\ fch' \in T /\ fch'.pc = "second" /\ fch'.first = "h" /\ fch'.h = HighHalf /\ fch'.i = 0
          /\ fch'.stale = fch.stale /\ fch'.clean = fch.clean
      BY <1>0, <1>i, <2>1, <2>2, <3>1
    <3>3. HighHalf * Half = Half * HighHalf /\ Half * HighHalf \in Int
      BY <1>c, <1>h
    <3>4. fch'.h * Half <= Bytes'
      BY <1>b, <1>c, <1>h, <3>2, <3>3
    <3>5. FetchInd'
      BY <3>2, <3>4 DEF FetchInd
    <3> QED
      BY <1>k, <3>2, <3>5
  <2>3. CASE fch.first = "l"
    <3>1. fch' = [fch EXCEPT !.pc = "second", !.l = LowHalf]
      BY <1>3, <2>3 DEF ReadFirst
    <3>2. /\ fch' \in T /\ fch'.pc = "second" /\ fch'.first = "l" /\ fch'.l = LowHalf /\ fch'.i = 0
          /\ fch'.stale = fch.stale /\ fch'.clean = fch.clean
      BY <1>0, <1>i, <2>1, <2>3, <3>1
    <3>3. Half * HighHalf >= 0 /\ Half * HighHalf \in Int
      BY <1>c, <1>h
    <3>4. fch'.l <= Bytes'
      BY <1>b, <1>h, <3>2, <3>3
    <3>5. FetchInd'
      BY <3>2, <3>4 DEF FetchInd
    <3> QED
      BY <1>k, <3>2, <3>5
  <2> QED
    BY <1>0, <2>2, <2>3
<1>4. CASE ReadSecond
  <2>1. fch.pc = "second" /\ fch.i = 0
    BY <1>4 DEF ReadSecond, HeaderInd, FetchInd
  <2>2. CASE fch.first = "h"
    <3>1. fch' = [fch EXCEPT !.pc = "test", !.l = LowHalf]
      BY <1>4, <2>2 DEF ReadSecond
    <3>2. /\ fch' \in T /\ fch'.pc = "test" /\ fch'.h = fch.h /\ fch'.l = LowHalf /\ fch'.i = 0
          /\ fch'.stale = fch.stale /\ fch'.clean = fch.clean
      BY <1>0, <1>i, <2>1, <2>2, <3>1
    <3>3. ASSUME fch.clean, HeaderThere' PROVE Bytes' >= HdrBytes
      <4>1. fch.h * Half <= Bytes
        BY <2>1, <2>2, <3>3 DEF HeaderInd, FetchInd
      <4>2. fch.h * Half + LowHalf <= Bytes
        BY <1>0, <1>b, <1>c, <4>1, OldHigh DEF LowHalf
      <4>3. fch.h * Half \in Int
        BY <1>0, <1>c
      <4> QED
        BY <1>b, <1>c, <1>h, <3>2, <3>3, <4>2, <4>3 DEF HeaderThere, prsr_get_bytes_read
    <3>4. FetchInd'
      BY <3>2, <3>3 DEF FetchInd
    <3> QED
      BY <1>k, <3>2, <3>4
  <2>3. CASE fch.first = "l"
    <3>1. fch' = [fch EXCEPT !.pc = "test", !.h = HighHalf]
      BY <1>4, <2>3 DEF ReadSecond
    <3>2. /\ fch' \in T /\ fch'.pc = "test" /\ fch'.h = HighHalf /\ fch'.l = fch.l /\ fch'.i = 0
          /\ fch'.stale = fch.stale /\ fch'.clean = fch.clean
      BY <1>0, <1>i, <2>1, <2>3, <3>1
    <3>3. ASSUME fch.clean, HeaderThere' PROVE Bytes' >= HdrBytes
      <4>1. CASE Bytes < Half
        <5>1. HighHalf = 0
          <6> SUFFICES ASSUME HighHalf >= 1 PROVE FALSE
            BY <1>h
          <6>1. Half * HighHalf >= Half /\ Half * HighHalf \in Int
            BY <1>c, <1>h
          <6> QED
            BY <1>b, <1>c, <1>h, <4>1, <6>1
        <5>2. fch.l <= Bytes
          BY <2>1, <2>3, <3>3, <4>1 DEF HeaderInd, FetchInd
        <5>3. 0 * Half = 0
          BY <1>c
        <5> QED
          BY <1>0, <1>b, <1>c, <3>2, <3>3, <5>1, <5>2, <5>3 DEF HeaderThere, prsr_get_bytes_read
      <4>2. CASE Bytes >= Half
        BY <1>b, <1>c, <4>2
      <4> QED
        BY <1>b, <1>c, <4>1, <4>2
    <3>4. FetchInd'
      BY <3>2, <3>3 DEF FetchInd
    <3> QED
      BY <1>k, <3>2, <3>4
  <2> QED
    BY <1>0, <2>2, <2>3
<1>5. CASE TestBytes
  <2>1. fch.pc = "test" /\ fch.i = 0 /\ (fch.clean /\ HeaderThere => Bytes >= HdrBytes)
    BY <1>5 DEF TestBytes, HeaderInd, FetchInd
  <2>2. CASE HeaderThere
    <3>1. fch' = [fch EXCEPT !.pc = "copy"]
      BY <1>5, <2>2 DEF TestBytes
    <3>2. fch' \in T /\ fch'.pc = "copy" /\ fch'.i = 0 /\ fch'.stale = fch.stale /\ fch'.clean = fch.clean
      BY <1>0, <2>1, <3>1
    <3>3. 0 <= HdrWords /\ (fch'.clean => Bytes' >= HdrBytes)
      BY <1>b, <1>c, <2>1, <2>2, <3>2
    <3>4. FetchInd'
      BY <3>2, <3>3 DEF FetchInd
    <3> QED
      BY <1>k, <3>2, <3>4
  <2>3. CASE ~HeaderThere
    <3>1. fch' = [fch EXCEPT !.pc = "first"]
      BY <1>5, <2>3 DEF TestBytes
    <3>2. fch' \in T /\ fch'.pc = "first" /\ fch'.i = 0 /\ fch'.stale = fch.stale /\ fch'.clean = fch.clean
      BY <1>0, <2>1, <3>1
    <3>3. FetchInd'
      BY <3>2 DEF FetchInd
    <3> QED
      BY <1>k, <3>2, <3>3
  <2> QED
    BY <2>2, <2>3
<1>6. CASE CopyWord
  <2>1. fch.pc = "copy" /\ fch.i <= HdrWords /\ (fch.clean => Bytes >= HdrBytes)
    BY <1>6 DEF CopyWord, HeaderInd, FetchInd
  <2>2. CASE fch.i = HdrWords
    <3>1. fch' = [fch EXCEPT !.pc = "idle"]
      BY <1>6, <2>2 DEF CopyWord
    <3>2. fch' \in T /\ fch'.pc = "idle" /\ fch'.stale = fch.stale /\ fch'.clean = fch.clean
      BY <1>0, <3>1
    <3>3. FetchInd'
      BY <3>2 DEF FetchInd
    <3> QED
      BY <1>k, <3>2, <3>3
  <2>3. CASE fch.i # HdrWords
    <3> DEFINE more == IF fch.i \in prs.stored THEN fch.stale ELSE fch.stale \cup {fch.i}
    <3>1. fch.i + 1 <= HdrWords /\ fch.i + 1 \in Nat /\ more \in SUBSET Nat
      BY <1>0, <1>c, <2>1, <2>3
    <3>m. more = fch.stale \/ (fch.i \notin prs.stored /\ more = fch.stale \cup {fch.i})
      OBVIOUS
    <3>2. fch' = [fch EXCEPT !.i = fch.i + 1, !.stale = more]
      BY <1>6, <2>3 DEF CopyWord
    <3> HIDE DEF more
    <3>3. fch' \in T /\ fch'.pc = "copy" /\ fch'.i = fch.i + 1 /\ fch'.stale = more /\ fch'.clean = fch.clean
      BY <1>0, <2>1, <3>1, <3>2
    <3>4. FetchInd'
      BY <1>b, <2>1, <3>1, <3>3 DEF FetchInd
    <3>5. HeaderComplete'
      <4>1. ASSUME fch.clean, fch.i \notin prs.stored PROVE fch.i >= prs.hdr \/ fch.i \in prs.missed
        <5>1. fch.i < prs.words
          BY <1>0, <1>c, <1>q, <2>1, <3>1, <4>1 DEF Bytes
        <5>2. prs.hdr \in Nat /\ (fch.i < prs.hdr => fch.i \in prs.stored \cup prs.missed)
          BY <1>0, <5>1 DEF HeaderInd, PrsrInd
        <5> QED
          BY <1>0, <4>1, <5>2
      <4>2. fch.clean => \A w \in fch.stale : w >= prs.hdr \/ w \in prs.missed
        BY DEF HeaderInd, HeaderComplete
      <4> QED
        BY <1>p, <3>m, <3>3, <4>1, <4>2 DEF HeaderComplete
    <3> QED
      BY <1>q, <3>4, <3>5 DEF HeaderInd
  <2> QED
    BY <2>2, <2>3
<1> QED
  BY <1>2, <1>3, <1>4, <1>5, <1>6

\* The parser and the fetch together.
LEMMA PrsrKept ==
    ASSUME HeaderInd, PrsrActs
    PROVE  HeaderInd'
  BY WordKept, FileKept, FetchKept DEF PrsrActs

-----------------------------------------------------------------------------
\* Every step keeps the invariant.
LEMMA RegsNext == RegsInd /\ [Next]_vars => RegsInd'
<1> SUFFICES ASSUME RegsInd, [Next]_vars PROVE RegsInd'
  OBVIOUS
<1>1. CASE UNCHANGED regVars
  BY <1>1 DEF regVars, RegsInd, BusInd, AccessLands, FlagsAgree, IrqReachesDriver, HeaderInd, PrsrInd, FetchInd,
              HeaderComplete, Bytes, HeaderThere, prsr_get_bytes_read
<1>2. CASE BusActs
  <2>1. UNCHANGED <<flg, isr, prs, fch>>
    BY <1>2 DEF BusActs, Issue, Route, Answer, Answered
  <2>2. BusInd'
    BY <1>2, BusKept DEF RegsInd
  <2> QED
    BY <2>1, <2>2 DEF RegsInd, FlagsAgree, IrqReachesDriver, HeaderInd, PrsrInd, FetchInd,
                      HeaderComplete, Bytes, HeaderThere, prsr_get_bytes_read
<1>3. CASE StatusActs
  <2>1. UNCHANGED <<bus, prs, fch>>
    BY <1>3 DEF StatusActs, ReadStatus, Interrupt
  <2>2. FlagsAgree' /\ IrqReachesDriver'
    BY <1>3, StatusKept DEF RegsInd
  <2> QED
    BY <2>1, <2>2 DEF RegsInd, BusInd, AccessLands, HeaderInd, PrsrInd, FetchInd, HeaderComplete, Bytes,
                      HeaderThere, prsr_get_bytes_read
<1>4. CASE PrsrActs
  <2>1. UNCHANGED <<bus, flg, isr>>
    BY <1>4 DEF PrsrActs, FetchHeader, ReadFirst, ReadSecond, TestBytes, CopyWord, Activate,
                 ParserReads, EndOfFile
  <2>2. HeaderInd'
    BY <1>4, PrsrKept DEF RegsInd
  <2> QED
    BY <2>1, <2>2 DEF RegsInd, BusInd, AccessLands, FlagsAgree, IrqReachesDriver
<1>5. UNCHANGED regVars \/ BusActs \/ StatusActs \/ PrsrActs
  <2>1. CASE UNCHANGED vars
    BY <2>1 DEF vars, otherVars
  <2>2. CASE Next
    <3>1. ASSUME NEW A, AudioStep(A) PROVE UNCHANGED regVars
      BY <3>1 DEF AudioStep, otherVars
    <3> QED
      BY <2>2, <3>1 DEF Next, AudioStep, otherVars
  <2> QED
    BY <2>1, <2>2
<1> QED
  BY <1>1, <1>2, <1>3, <1>4, <1>5

\* The invariant holds after reset.
LEMMA RegsBegin == Init => RegsInd
<1> SUFFICES ASSUME Init PROVE RegsInd
  OBVIOUS
<1>1. RegsInit
  BY DEF Init
<1>2. BusInd
  BY <1>1 DEF RegsInit, NoAccess, BusInd, AccessLands
<1>3. HeaderInd
  BY <1>1, RegConstants DEF RegsInit, HeaderInd, PrsrInd, FetchInd, HeaderComplete, HdrLens
<1>4. FlagsAgree /\ IrqReachesDriver
  BY <1>1 DEF RegsInit, FlagsAgree, IrqReachesDriver
<1> QED
  BY <1>2, <1>3, <1>4 DEF RegsInd

\* The register maps: every access the drivers make by the names of their headers
\* (system.h, the *_regs.h and the driver headers) is taken by one slave of the
\* router and answered there by the register that was meant; the bits of a status
\* word mean in software what the RTL sets, an interrupt reaches the driver of its
\* line, and, unless a file ends meanwhile, the WAV header that is copied is in the
\* parser's RAM but for the words behind a short header and those that came while
\* the parser was idle, even though the count is read in two halves while it grows
\* (prsr.c, wav_prsr.v).
THEOREM RegistersCorrect == Spec => []RegistersAgree
<1>1. Init => RegsInd
  BY RegsBegin
<1>2. RegsInd /\ [Next]_vars => RegsInd'
  BY RegsNext
<1>3. RegsInd => RegistersAgree
  BY DEF RegsInd, BusInd, HeaderInd, RegistersAgree
<1> QED
  BY <1>1, <1>2, <1>3, PTL DEF Spec

-----------------------------------------------------------------------------
(* The table of open files                                                   *)

\* Types of a slot, of a file object and of the whole state.
SemSet == [f : Places \cup {NoFile}, ctr : Nat]
FilSet == [f : Places \cup {NoFile}, id : Nat, lockid : Nat, acc : {0, 1}]
LockSet == [sem : [Slots -> SemSet], fil : [FilObjs -> FilSet], type : BOOLEAN, id : Nat,
            used : SUBSET Places, int_err : BOOLEAN]

\* The file objects that are open, and those that are counted in slot i.
Live(l) == {h \in FilObjs : validate(l, h)}
CountedIn(l, i) == {h \in Live(l) : l.fil[h].lockid = i}

\* File objects that outlived a mount have an older identifier.
IdsOld(l) == \A h \in FilObjs : l.fil[h].id <= l.id

\* An open file object names the slot of its file, and its entry is in use.
Placed(l) == \A h \in Live(l) : /\ l.fil[h].lockid \in Slots /\ l.fil[h].f \in l.used
                                /\ l.sem[l.fil[h].lockid].f = l.fil[h].f

\* A file has one slot.
OneSlot(l) == \A i, j \in Slots : l.sem[i].f = l.sem[j].f /\ l.sem[i].f # NoFile => i = j

\* A writer is alone in its slot.
Alone(l) == \A h, j \in Live(l) : l.fil[h].lockid = l.fil[j].lockid /\ h # j => l.fil[h].acc = 0

\* What a slot counts.
Writing(l, i) == \E h \in CountedIn(l, i) : l.fil[h].acc = 1
Counts(l, i) == IF CountedIn(l, i) = {} THEN l.sem[i].f = NoFile
                ELSE l.sem[i].ctr = IF Writing(l, i) THEN WriteMode ELSE Cardinality(CountedIn(l, i))

LockGood(l) == /\ l \in LockSet /\ IdsOld(l) /\ Placed(l) /\ OneSlot(l) /\ Alone(l)
               /\ \A i \in Slots : Counts(l, i)

LockInv == LockGood(lk) /\ ~lk.int_err

-----------------------------------------------------------------------------
(* Facts about the table                                                     *)

\* Slots count from 1: 0 says that there is none.
LEMMA SlotNotZero == \A i \in Slots : i # 0
  BY ReadersFit DEF Slots

\* The least slot of a set is one of its slots.
LEMMA LowestIn ==
    ASSUME NEW S \in SUBSET Slots, S # {}
    PROVE  LowestSlot(S) \in S
<1>0. S \in SUBSET Nat
  BY DEF Slots
<1>1. PICK x \in S : \A y \in S : x <= y
  BY <1>0, LeastNat
<1> QED
  BY <1>1 DEF LowestSlot

\* The file objects of a slot are finitely many, fewer than WriteMode.
LEMMA AtFinite ==
    ASSUME NEW l, NEW i
    PROVE  /\ IsFiniteSet(CountedIn(l, i)) /\ Cardinality(CountedIn(l, i)) \in Nat /\ Cardinality(CountedIn(l, i)) < WriteMode
           /\ (CountedIn(l, i) = {} <=> Cardinality(CountedIn(l, i)) = 0)
<1>1. CountedIn(l, i) \in SUBSET FilObjs
  BY DEF CountedIn, Live
<1>2. IsFiniteSet(CountedIn(l, i)) /\ Cardinality(CountedIn(l, i)) <= Cardinality(FilObjs)
  BY <1>1, FS_Subset, ReadersFit
<1>3. Cardinality(CountedIn(l, i)) \in Nat /\ Cardinality(FilObjs) \in Nat
  BY <1>2, FS_CardinalityType, ReadersFit
<1>4. CountedIn(l, i) = {} <=> Cardinality(CountedIn(l, i)) = 0
  BY <1>2, FS_EmptySet
<1>5. Cardinality(CountedIn(l, i)) < WriteMode
  BY <1>2, <1>3, ReadersFit
<1> QED
  BY <1>2, <1>3, <1>4, <1>5

\* A slot is free exactly when no file object is counted in it, and a file has a
\* slot only while its entry is in use.
LEMMA SlotFacts ==
    ASSUME NEW l, LockGood(l)
    PROVE  /\ \A i \in Slots : CountedIn(l, i) = {} <=> l.sem[i].f = NoFile
           /\ \A i \in Slots : l.sem[i].f # NoFile => l.sem[i].f \in l.used
<1>1. ASSUME NEW i \in Slots, NEW h \in CountedIn(l, i) PROVE l.sem[i].f # NoFile /\ l.sem[i].f \in l.used
  <2>1. h \in Live(l) /\ l.fil[h].lockid = i
    BY <1>1 DEF CountedIn
  <2>2. l.sem[i].f = l.fil[h].f /\ l.fil[h].f \in l.used
    BY <2>1 DEF LockGood, Placed
  <2>3. l.fil[h].f # NoFile
    BY <2>1 DEF Live, validate
  <2> QED
    BY <2>2, <2>3
<1>2. ASSUME NEW i \in Slots, CountedIn(l, i) = {} PROVE l.sem[i].f = NoFile
  BY <1>2 DEF LockGood, Counts
<1> QED
  BY <1>1, <1>2

-----------------------------------------------------------------------------
(* What the parts of a call do to the table                                  *)

\* A state that differs in nothing the table is about is as good.
LEMMA SameTable ==
    ASSUME NEW l, LockGood(l), NEW m \in LockSet,
           m.sem = l.sem, Live(m) = Live(l), IdsOld(m),
           \A h \in Live(l) : m.fil[h] = l.fil[h] /\ l.fil[h].f \in m.used
    PROVE  LockGood(m)
<1>1. \A i : CountedIn(m, i) = CountedIn(l, i)
  BY DEF CountedIn
<1>2. Placed(m) /\ Alone(m) /\ OneSlot(m)
  BY DEF LockGood, Placed, Alone, OneSlot
<1>3. ASSUME NEW i \in Slots PROVE Counts(m, i)
  <2>1. Writing(m, i) <=> Writing(l, i)
    BY <1>1 DEF Writing, CountedIn
  <2>2. Counts(l, i)
    BY DEF LockGood
  <2> QED
    BY <1>1, <2>1, <2>2 DEF Counts
<1> QED
  BY <1>2, <1>3 DEF LockGood

\* With no file object open, a cleared table is good.
LEMMA ClearGood ==
    ASSUME NEW m \in LockSet, Live(m) = {}, IdsOld(m), \A i \in Slots : m.sem[i].f = NoFile
    PROVE  LockGood(m)
<1>1. \A i : CountedIn(m, i) = {}
  BY DEF CountedIn
<1> QED
  BY <1>1 DEF LockGood, Placed, OneSlot, Alone, Counts

\* f_mount and chk_mounted: no file object survives them.
LEMMA ClearLock ==
    ASSUME NEW l \in LockSet
    PROVE  /\ clear_lock(l) \in LockSet
           /\ \A i \in Slots : clear_lock(l).sem[i].f = NoFile
           /\ clear_lock(l).fil = l.fil /\ clear_lock(l).type = l.type /\ clear_lock(l).id = l.id
           /\ clear_lock(l).used = l.used /\ clear_lock(l).int_err = l.int_err
<1>1. l.sem \in [Slots -> SemSet]
  BY DEF LockSet
<1> DEFINE s == [i \in Slots |-> [l.sem[i] EXCEPT !.f = NoFile]]
<1>2. s \in [Slots -> SemSet] /\ \A i \in Slots : s[i].f = NoFile
  BY <1>1 DEF SemSet
<1>3. clear_lock(l) = [l EXCEPT !.sem = s]
  BY DEF clear_lock
<1> HIDE DEF s
<1>4. clear_lock(l).sem = s
  BY <1>3 DEF LockSet
<1> QED
  BY <1>2, <1>3, <1>4 DEF LockSet

\* A volume that was mounted already keeps its table; one that is mounted now has
\* a new identifier.
LEMMA MountKeeps ==
    ASSUME NEW l, LockGood(l), l.type \/ l.id < MaxMounts
    PROVE  /\ LockGood(MountedAgain(l)) /\ MountedAgain(l).type
           /\ MountedAgain(l).int_err = l.int_err /\ MountedAgain(l).used = l.used
           /\ \A h \in FilObjs : ~validate(l, h) => ~validate(MountedAgain(l), h)
<1>1. l \in LockSet
  BY DEF LockGood
<1>2. CASE l.type
  BY <1>2 DEF MountedAgain
<1>3. CASE ~l.type
  <2> DEFINE k == [l EXCEPT !.type = TRUE, !.id = l.id + 1]
             m == clear_lock(k)
  <2>2. l.id + 1 \in Nat
    BY <1>1 DEF LockSet
  <2>i. (l.id + 1) % IdMod = l.id + 1
    <3> DEFINE n == l.id + 1
    <3>1. n \in Nat /\ n < IdMod /\ IdMod \in Nat
      BY <1>1, <1>3, IdsFit DEF LockSet
    <3> HIDE DEF n
    <3>2. n % IdMod = n
      BY <3>1
    <3> QED
      BY <3>2 DEF n
  <2>1. MountedAgain(l) = m
    BY <1>3, <2>i DEF MountedAgain
  <2>3. k \in LockSet
    BY <1>1, <2>2 DEF LockSet
  <2>4. k.type = TRUE /\ k.id = l.id + 1
    BY <1>1, Zenon DEF LockSet
  <2>5. k.fil = l.fil /\ k.int_err = l.int_err /\ k.used = l.used
    BY <1>1 DEF LockSet
  <2>6. /\ k \in LockSet /\ k.type /\ k.id = l.id + 1 /\ k.fil = l.fil
        /\ k.int_err = l.int_err /\ k.used = l.used
    BY <2>3, <2>4, <2>5, Zenon
  <2> HIDE DEF k
  <2>7. /\ m \in LockSet /\ (\A i \in Slots : m.sem[i].f = NoFile)
        /\ m.fil = k.fil /\ m.type = k.type /\ m.id = k.id /\ m.used = k.used /\ m.int_err = k.int_err
    BY <2>6, ClearLock, Zenon
  <2>8. m.type /\ m.id = l.id + 1 /\ m.fil = l.fil /\ m.int_err = l.int_err /\ m.used = l.used
    BY <2>6, <2>7, Zenon
  <2> HIDE DEF m
  <2>9. \A h \in FilObjs : l.fil[h].id \in Nat /\ l.fil[h].id <= l.id /\ l.id \in Nat
    BY <1>1 DEF LockSet, FilSet, LockGood, IdsOld
  <2>10. \A h \in FilObjs : m.fil[h].id <= m.id /\ m.fil[h].id # m.id
    BY <2>8, <2>9
  <2>11. Live(m) = {} /\ IdsOld(m) /\ \A h \in FilObjs : ~validate(m, h)
    BY <2>10 DEF Live, validate, IdsOld
  <2> QED
    BY <2>1, <2>7, <2>8, <2>11, ClearGood
<1> QED
  BY <1>2, <1>3

\* f_open clears a file object that is not open.
LEMMA ForgetKeeps ==
    ASSUME NEW l, LockGood(l), NEW h \in FilObjs, ~validate(l, h)
    PROVE  /\ LockGood([l EXCEPT !.fil[h] = NoFil]) /\ ~validate([l EXCEPT !.fil[h] = NoFil], h)
           /\ [l EXCEPT !.fil[h] = NoFil].type = l.type
           /\ [l EXCEPT !.fil[h] = NoFil].int_err = l.int_err
<1> DEFINE m == [l EXCEPT !.fil[h] = NoFil]
<1>0. l \in LockSet
  BY DEF LockGood
<1>1. NoFil \in FilSet /\ NoFil.f = NoFile /\ NoFil.id = 0
  BY DEF NoFil, FilSet
<1>2. /\ m.sem = l.sem /\ m.used = l.used /\ m.type = l.type /\ m.id = l.id /\ m.int_err = l.int_err
      /\ m.fil = [l.fil EXCEPT ![h] = NoFil]
  BY <1>0 DEF LockSet
<1>3. m \in LockSet
  BY <1>0, <1>1 DEF LockSet
<1> HIDE DEF m
<1>4. m.fil[h] = NoFil /\ \A j \in FilObjs : j # h => m.fil[j] = l.fil[j]
  BY <1>0, <1>2 DEF LockSet
<1>5. ~validate(m, h) /\ \A j \in FilObjs : j # h => (validate(m, j) <=> validate(l, j))
  BY <1>1, <1>2, <1>4 DEF validate
<1>6. Live(m) = Live(l)
  BY <1>5 DEF Live
<1>7. \A j \in Live(l) : m.fil[j] = l.fil[j] /\ l.fil[j].f \in m.used
  BY <1>2, <1>4 DEF Live, LockGood, Placed
<1>8. IdsOld(m)
  <2>1. l.id \in Nat
    BY <1>0 DEF LockSet
  <2> QED
    BY <1>1, <1>2, <1>4, <2>1 DEF LockGood, IdsOld
<1> QED
  BY <1>2, <1>3, <1>5, <1>6, <1>7, <1>8, SameTable DEF m

\* An entry appears, or one goes away that no open file object has.
LEMMA UsedKeeps ==
    ASSUME NEW l, LockGood(l), NEW U \in SUBSET Places, \A h \in Live(l) : l.fil[h].f \in U
    PROVE  LockGood([l EXCEPT !.used = U])
<1> DEFINE m == [l EXCEPT !.used = U]
<1>1. l \in LockSet
  BY DEF LockGood
<1>2. m \in LockSet /\ m.sem = l.sem /\ m.used = U /\ m.type = l.type /\ m.id = l.id /\ m.fil = l.fil
  BY <1>1 DEF LockSet
<1> HIDE DEF m
<1>3. Live(m) = Live(l) /\ IdsOld(m)
  BY <1>2 DEF Live, validate, LockGood, IdsOld
<1> QED
  BY <1>2, <1>3, SameTable DEF m

\* Whether the call failed internally is not part of the table.
LEMMA ErrKeeps ==
    ASSUME NEW l, LockGood(l), NEW b \in BOOLEAN
    PROVE  /\ LockGood([l EXCEPT !.int_err = b]) /\ [l EXCEPT !.int_err = b].int_err = b
<1> DEFINE m == [l EXCEPT !.int_err = b]
<1>1. l \in LockSet
  BY DEF LockGood
<1>2. /\ m \in LockSet /\ m.sem = l.sem /\ m.used = l.used /\ m.type = l.type /\ m.id = l.id
      /\ m.fil = l.fil /\ m.int_err = b
  BY <1>1 DEF LockSet
<1> HIDE DEF m
<1>3. Live(m) = Live(l) /\ IdsOld(m) /\ \A h \in Live(l) : l.fil[h].f \in m.used
  BY <1>2 DEF Live, validate, LockGood, IdsOld, Placed
<1> QED
  BY <1>2, <1>3, SameTable DEF m

\* h is opened in slot i of l, which was free or counted readers of f, and m is
\* what comes of it.
OpenedIn(l, m, h, f, i, n, acc) ==
    /\ m.sem = [l.sem EXCEPT ![i] = [f |-> f, ctr |-> n]]
    /\ m.fil = [l.fil EXCEPT ![h] = [f |-> f, id |-> l.id, lockid |-> i, acc |-> acc]]
    /\ m.type = TRUE /\ l.type = TRUE /\ m.id = l.id /\ m.used = l.used

FreeSlot(l, f, i, n, acc) ==
    /\ l.sem[i].f = NoFile /\ \A j \in Slots : l.sem[j].f # f
    /\ (acc = 1 => n = WriteMode) /\ (acc = 0 => n = 1)
ReadersSlot(l, f, i, n, acc) ==
    l.sem[i].f = f /\ acc = 0 /\ l.sem[i].ctr # WriteMode /\ n = l.sem[i].ctr + 1

\* Opening a file object in such a slot keeps the table right.
LEMMA CountIn ==
    ASSUME NEW l, LockGood(l), NEW m \in LockSet, NEW h \in FilObjs, h \notin Live(l),
           NEW f \in l.used, NEW i \in Slots, NEW n \in Nat, NEW acc \in {0, 1},
           OpenedIn(l, m, h, f, i, n, acc),
           FreeSlot(l, f, i, n, acc) \/ ReadersSlot(l, f, i, n, acc)
    PROVE  LockGood(m)
<1>0. l \in LockSet /\ l.sem \in [Slots -> SemSet] /\ l.fil \in [FilObjs -> FilSet] /\ l.id \in Nat /\ f \in Places
  BY DEF LockSet, LockGood
<1>1. f # NoFile
  BY <1>0, PlacesAreFiles
<1>2. /\ m.fil[h].f = f /\ m.fil[h].id = l.id /\ m.fil[h].lockid = i /\ m.fil[h].acc = acc
      /\ \A j \in FilObjs : j # h => m.fil[j] = l.fil[j]
  BY <1>0 DEF OpenedIn
<1>3. m.sem[i].f = f /\ m.sem[i].ctr = n /\ \A j \in Slots : j # i => m.sem[j] = l.sem[j]
  BY <1>0 DEF OpenedIn
<1>4. validate(m, h) /\ \A j \in FilObjs : j # h => (validate(m, j) <=> validate(l, j))
  BY <1>1, <1>2, Zenon DEF validate, OpenedIn
<1>5. Live(m) = Live(l) \cup {h}
  BY <1>4 DEF Live
<1>6. CountedIn(m, i) = CountedIn(l, i) \cup {h} /\ \A j : j # i => CountedIn(m, j) = CountedIn(l, j)
  BY <1>2, <1>5 DEF CountedIn, Live
<1>7. IdsOld(m)
  BY <1>0, <1>2 DEF LockGood, IdsOld, OpenedIn
<1>8. Placed(m)
  <2>1. ASSUME NEW j \in Live(l)
        PROVE  m.fil[j] = l.fil[j] /\ l.fil[j].lockid \in Slots /\ l.fil[j].f \in m.used
               /\ m.sem[l.fil[j].lockid].f = l.fil[j].f
    <3>1. j \in FilObjs /\ j # h /\ l.fil[j].f # NoFile
      BY DEF Live, validate
    <3>2. l.fil[j].lockid \in Slots /\ l.fil[j].f \in l.used /\ l.sem[l.fil[j].lockid].f = l.fil[j].f
      BY DEF LockGood, Placed
    <3>3. l.fil[j].lockid = i => l.sem[i].f = f
      BY <3>1, <3>2 DEF FreeSlot, ReadersSlot
    <3> QED
      BY <1>2, <1>3, <3>1, <3>2, <3>3 DEF OpenedIn
  <2> QED
    BY <1>2, <1>3, <1>5, <2>1 DEF Placed, OpenedIn
<1>9. OneSlot(m)
  <2>1. \A j \in Slots : l.sem[j].f = f => j = i
    BY <1>1 DEF LockGood, OneSlot, FreeSlot, ReadersSlot
  <2>2. \A j, k \in Slots : l.sem[j].f = l.sem[k].f /\ l.sem[j].f # NoFile => j = k
    BY DEF LockGood, OneSlot
  <2> QED
    BY <1>3, <2>1, <2>2 DEF OneSlot
<1>10. \A j : \A x \in CountedIn(l, j) : m.fil[x] = l.fil[x]
  BY <1>2 DEF CountedIn, Live
<1>11. ASSUME NEW j \in Slots, j # i PROVE Counts(m, j)
  <2>1. Counts(l, j) /\ CountedIn(m, j) = CountedIn(l, j) /\ m.sem[j] = l.sem[j]
    BY <1>3, <1>6, <1>11 DEF LockGood
  <2>2. Writing(m, j) <=> Writing(l, j)
    BY <1>10, <2>1 DEF Writing
  <2> QED
    BY <2>1, <2>2 DEF Counts
<1>12. Cardinality(CountedIn(l, i) \cup {h}) = Cardinality(CountedIn(l, i)) + 1
  <2>1. h \notin CountedIn(l, i)
    BY DEF CountedIn
  <2>2. IsFiniteSet(CountedIn(l, i))
    BY AtFinite
  <2>3. \A S : IsFiniteSet(S) /\ h \notin S => Cardinality(S \cup {h}) = Cardinality(S) + 1
    BY FS_AddElement
  <2> QED
    BY <2>1, <2>2, <2>3, Zenon
<1>13. CASE FreeSlot(l, f, i, n, acc)
  <2>1. CountedIn(l, i) = {}
    BY <1>13, SlotFacts DEF FreeSlot
  <2>2. CountedIn(m, i) = {h}
    BY <1>6, <2>1
  <2>3. Alone(m)
    <3>1. \A j \in Live(l) : l.fil[j].lockid # i /\ m.fil[j] = l.fil[j]
      BY <1>2, <2>1 DEF CountedIn, Live
    <3> QED
      BY <1>2, <1>5, <3>1 DEF LockGood, Alone
  <2>4. Cardinality({h}) = 1
    BY FS_Singleton
  <2>5. Writing(m, i) <=> acc = 1
    BY <1>2, <2>2 DEF Writing
  <2>6. Counts(m, i)
    BY <1>3, <1>13, <2>2, <2>4, <2>5 DEF Counts, FreeSlot
  <2> QED
    BY <1>7, <1>8, <1>9, <1>11, <2>3, <2>6 DEF LockGood
<1>14. CASE ReadersSlot(l, f, i, n, acc)
  <2>1. CountedIn(l, i) # {} /\ Counts(l, i)
    BY <1>1, <1>14, SlotFacts DEF LockGood, ReadersSlot
  <2>2. ~Writing(l, i) /\ l.sem[i].ctr = Cardinality(CountedIn(l, i))
    BY <1>14, <2>1 DEF Counts, ReadersSlot
  <2>3. Alone(m)
    <3>1. \A j \in Live(l) : m.fil[j] = l.fil[j] /\ l.fil[j].acc \in {0, 1}
      BY <1>0, <1>2 DEF Live, FilSet
    <3>2. \A j \in Live(l) : l.fil[j].lockid = i => l.fil[j].acc = 0
      BY <2>2, <3>1 DEF Writing, CountedIn
    <3> QED
      BY <1>2, <1>5, <1>14, <3>1, <3>2 DEF LockGood, Alone, ReadersSlot
  <2>4. ~Writing(m, i)
    BY <1>2, <1>6, <1>10, <1>14, <2>2 DEF Writing, ReadersSlot
  <2>5. m.sem[i].ctr = Cardinality(CountedIn(m, i)) /\ CountedIn(m, i) # {}
    BY <1>3, <1>6, <1>12, <1>14, <2>2 DEF ReadersSlot
  <2>6. Counts(m, i)
    BY <2>4, <2>5 DEF Counts
  <2> QED
    BY <1>7, <1>8, <1>9, <1>11, <2>3, <2>6 DEF LockGood
<1> QED
  BY <1>13, <1>14

\* The rest of f_open, once chk_lock or enq_lock let it: it finds a slot.
LEMMA OpenKeeps ==
    ASSUME NEW l, LockGood(l), l.type = TRUE, NEW h \in FilObjs, ~validate(l, h), NEW f \in l.used,
           NEW acc \in {0, 1},
           \/ SlotsOf(l, f) = {} /\ SlotsOf(l, NoFile) # {}
           \/ SlotsOf(l, f) # {} /\ acc = 0 /\ l.sem[LowestSlot(SlotsOf(l, f))].ctr # WriteMode
    PROVE  /\ inc_slot(l, f, acc) \in Slots
           /\ LockGood([inc_lock(l, f, acc) EXCEPT
                  !.fil[h] = [f |-> f, id |-> l.id, lockid |-> inc_slot(l, f, acc), acc |-> acc],
                  !.int_err = FALSE])
           /\ ~[inc_lock(l, f, acc) EXCEPT
                  !.fil[h] = [f |-> f, id |-> l.id, lockid |-> inc_slot(l, f, acc), acc |-> acc],
                  !.int_err = FALSE].int_err
<1> DEFINE S == IF SlotsOf(l, f) # {} THEN SlotsOf(l, f) ELSE SlotsOf(l, NoFile)
           i == inc_slot(l, f, acc)
           c == IF SlotsOf(l, f) = {} THEN 0 ELSE l.sem[i].ctr
           n == IF acc > 0 THEN WriteMode ELSE c + 1
           obj == [f |-> f, id |-> l.id, lockid |-> i, acc |-> acc]
           m == [inc_lock(l, f, acc) EXCEPT !.fil[h] = obj, !.int_err = FALSE]
<1>0. l \in LockSet /\ l.sem \in [Slots -> SemSet] /\ l.id \in Nat /\ f \in Places /\ l.fil \in [FilObjs -> FilSet]
  BY DEF LockGood, LockSet
<1>1. S \in SUBSET Slots /\ S # {}
  BY DEF SlotsOf
<1>2. LowestSlot(S) \in S
  BY <1>1, LowestIn
<1>3. i = LowestSlot(S)
  <2>1. ~(SlotsOf(l, f) # {} /\ acc > 0)
    OBVIOUS
  <2> QED
    BY <1>1, <2>1 DEF inc_slot
<1> HIDE DEF i
<1>4. i \in Slots /\ i # 0
  BY <1>1, <1>2, <1>3, SlotNotZero, Zenon
<1>5. \/ /\ SlotsOf(l, f) = {} /\ l.sem[i].f = NoFile /\ \A j \in Slots : l.sem[j].f # f
      \/ /\ SlotsOf(l, f) # {} /\ l.sem[i].f = f /\ acc = 0 /\ l.sem[i].ctr # WriteMode
  BY <1>2, <1>3 DEF SlotsOf
<1>6. l.sem[i].ctr \in Nat /\ WriteMode \in Nat
  BY <1>0, <1>4, ReadersFit DEF SemSet
<1>7. n \in Nat
  BY <1>6
<1>9. inc_lock(l, f, acc) = [l EXCEPT !.sem[i] = [f |-> f, ctr |-> n]]
  BY <1>4 DEF inc_lock, i
<1>10. FreeSlot(l, f, i, n, acc) \/ ReadersSlot(l, f, i, n, acc)
  BY <1>5 DEF FreeSlot, ReadersSlot
<1> HIDE DEF n
<1>11. [f |-> f, ctr |-> n] \in SemSet /\ obj \in FilSet
  BY <1>0, <1>4, <1>7 DEF SemSet, FilSet, Slots
<1> DEFINE k == [l EXCEPT !.sem[i] = [f |-> f, ctr |-> n]]
<1>12. /\ k \in LockSet /\ k.sem = [l.sem EXCEPT ![i] = [f |-> f, ctr |-> n]]
       /\ k.fil = l.fil /\ k.type = l.type /\ k.id = l.id /\ k.used = l.used
  BY <1>0, <1>11 DEF LockSet
<1>13. m = [k EXCEPT !.fil[h] = obj, !.int_err = FALSE]
  BY <1>9
<1> HIDE DEF k, obj, m
<1>14. m \in LockSet
  BY <1>11, <1>12, <1>13 DEF LockSet
<1>15. m.sem = k.sem /\ m.fil = [k.fil EXCEPT ![h] = obj] /\ m.type = k.type /\ m.id = k.id /\ m.used = k.used
  BY <1>12, <1>13 DEF LockSet
<1>16. h \notin Live(l)
  BY DEF Live
<1>17. OpenedIn(l, m, h, f, i, n, acc)
  BY <1>12, <1>15, Zenon DEF obj, OpenedIn
<1>18. LockGood(m)
  BY <1>4, <1>7, <1>10, <1>14, <1>16, <1>17, CountIn, Zenon
<1>19. ~m.int_err
  BY <1>12, <1>13 DEF LockSet
<1> QED
  BY <1>4, <1>18, <1>19 DEF m, obj, i

\* f_close takes an open file object out of its slot.
LEMMA CloseKeeps ==
    ASSUME NEW l, LockGood(l), NEW h \in FilObjs, validate(l, h)
    PROVE  LockGood([dec_lock(l, l.fil[h].lockid) EXCEPT !.fil[h] = NoFil, !.int_err = FALSE])
<1> DEFINE i == l.fil[h].lockid
           n == IF l.sem[i].ctr \in {0, WriteMode} THEN 0 ELSE l.sem[i].ctr - 1
           g == IF n = 0 THEN NoFile ELSE l.sem[i].f
           m == [dec_lock(l, i) EXCEPT !.fil[h] = NoFil, !.int_err = FALSE]
           k == [l EXCEPT !.sem[i] = [f |-> g, ctr |-> n]]
<1>0. l \in LockSet /\ l.sem \in [Slots -> SemSet] /\ l.id \in Nat /\ l.fil \in [FilObjs -> FilSet]
  BY DEF LockGood, LockSet
<1>1. h \in Live(l) /\ i \in Slots /\ h \in CountedIn(l, i)
  BY DEF Live, LockGood, Placed, CountedIn
<1>2. l.sem[i].f \in Places \cup {NoFile} /\ l.sem[i].ctr \in Nat /\ NoFil \in FilSet /\ NoFil.f = NoFile /\ NoFil.id = 0
  BY <1>0, <1>1 DEF SemSet, FilSet, NoFil
<1>3. n \in Nat
  BY <1>2
<1>4. dec_lock(l, i) = k
  BY <1>0, <1>1 DEF dec_lock, LockSet
<1>5. IF l.fil[h].acc = 1 THEN CountedIn(l, i) = {h} ELSE ~Writing(l, i)
  <2>1. \A j \in CountedIn(l, i) : j \in Live(l) /\ l.fil[j].lockid = i
    BY DEF CountedIn
  <2>2. \A j \in CountedIn(l, i) : j # h => l.fil[h].acc = 0 /\ l.fil[j].acc = 0
    BY <1>1, <2>1 DEF LockGood, Alone
  <2>3. l.fil[h].acc = 1 => CountedIn(l, i) = {h}
    BY <1>1, <2>2
  <2>4. l.fil[h].acc # 1 => ~Writing(l, i)
    BY <2>2 DEF Writing
  <2> QED
    BY <2>3, <2>4
<1>6. Counts(l, i)
  BY <1>1 DEF LockGood
<1>7. n = IF l.fil[h].acc = 1 THEN 0 ELSE Cardinality(CountedIn(l, i)) - 1
  <2>1. l.fil[h].acc = 1 => l.sem[i].ctr = WriteMode
    BY <1>1, <1>6 DEF Counts, Writing
  <2>2. l.fil[h].acc # 1 => l.sem[i].ctr = Cardinality(CountedIn(l, i))
    BY <1>1, <1>5, <1>6 DEF Counts
  <2>3. Cardinality(CountedIn(l, i)) \in Nat /\ Cardinality(CountedIn(l, i)) < WriteMode /\ Cardinality(CountedIn(l, i)) # 0
    BY <1>1, AtFinite
  <2> QED
    BY <2>1, <2>2, <2>3
<1> HIDE DEF n
<1>8. [f |-> g, ctr |-> n] \in SemSet
  BY <1>2, <1>3 DEF SemSet
<1> HIDE DEF g
<1>9. /\ k \in LockSet /\ k.sem = [l.sem EXCEPT ![i] = [f |-> g, ctr |-> n]]
      /\ k.fil = l.fil /\ k.type = l.type /\ k.id = l.id /\ k.used = l.used
  BY <1>0, <1>8 DEF LockSet
<1> HIDE DEF k
<1>10. m = [k EXCEPT !.fil[h] = NoFil, !.int_err = FALSE]
  BY <1>4
<1> HIDE DEF m
<1>11. m \in LockSet
  BY <1>2, <1>9, <1>10 DEF LockSet
<1>12. m.sem = k.sem /\ m.fil = [k.fil EXCEPT ![h] = NoFil] /\ m.type = k.type /\ m.id = k.id /\ m.used = k.used
  BY <1>9, <1>10 DEF LockSet
<1>13. m.fil[h] = NoFil /\ \A j \in FilObjs : j # h => m.fil[j] = l.fil[j]
  BY <1>0, <1>9, <1>12
<1>14. m.sem[i].f = g /\ m.sem[i].ctr = n /\ \A j \in Slots : j # i => m.sem[j] = l.sem[j]
  BY <1>0, <1>1, <1>9, <1>12
<1>15. ~validate(m, h) /\ \A j \in FilObjs : j # h => (validate(m, j) <=> validate(l, j))
  <2>1. ~validate(m, h)
    BY <1>2, <1>13, Zenon DEF validate
  <2>2. m.type = l.type /\ m.id = l.id
    BY <1>9, <1>12, Zenon
  <2> QED
    BY <1>13, <2>1, <2>2, Zenon DEF validate
<1>16. Live(m) = Live(l) \ {h}
  BY <1>15 DEF Live
<1>17. CountedIn(m, i) = CountedIn(l, i) \ {h} /\ \A j : j # i => CountedIn(m, j) = CountedIn(l, j)
  BY <1>13, <1>16 DEF CountedIn, Live
<1>18. IdsOld(m)
  BY <1>0, <1>2, <1>9, <1>12, <1>13 DEF LockGood, IdsOld
<1>19. Cardinality(CountedIn(m, i)) = Cardinality(CountedIn(l, i)) - 1 /\ (CountedIn(m, i) = {} <=> Cardinality(CountedIn(m, i)) = 0)
  <2>1. \A S : IsFiniteSet(S) /\ h \in S => Cardinality(S \ {h}) = Cardinality(S) - 1
    BY FS_RemoveElement
  <2>2. IsFiniteSet(CountedIn(l, i)) /\ (CountedIn(m, i) = {} <=> Cardinality(CountedIn(m, i)) = 0)
    BY AtFinite
  <2> QED
    BY <1>1, <1>17, <2>1, <2>2, Zenon
<1>20. n = 0 <=> CountedIn(m, i) = {}
  <2>1. l.fil[h].acc = 1 => CountedIn(m, i) = {}
    BY <1>5, <1>17
  <2> QED
    BY <1>7, <1>19, <2>1
<1>21. Placed(m)
  <2>1. ASSUME NEW j \in Live(m)
        PROVE  m.fil[j].lockid \in Slots /\ m.fil[j].f \in m.used /\ m.sem[m.fil[j].lockid].f = m.fil[j].f
    <3>1. j \in Live(l) /\ j # h /\ j \in FilObjs /\ m.fil[j] = l.fil[j]
      BY <1>13, <1>16 DEF Live
    <3>2. l.fil[j].lockid \in Slots /\ l.fil[j].f \in l.used /\ l.sem[l.fil[j].lockid].f = l.fil[j].f
      BY <3>1 DEF LockGood, Placed
    <3>3. ASSUME l.fil[j].lockid = i PROVE g = l.sem[i].f
      <4>1. CountedIn(m, i) # {}
        BY <3>1, <3>3 DEF CountedIn
      <4> QED
        BY <1>20, <4>1 DEF g
    <3> QED
      BY <1>9, <1>12, <1>14, <3>1, <3>2, <3>3
  <2> QED
    BY <2>1 DEF Placed
<1>22. OneSlot(m)
  <2>1. g = NoFile \/ g = l.sem[i].f
    BY DEF g
  <2>2. \A j, x \in Slots : l.sem[j].f = l.sem[x].f /\ l.sem[j].f # NoFile => j = x
    BY DEF LockGood, OneSlot
  <2>3. ASSUME NEW j \in Slots, NEW x \in Slots, m.sem[j].f = m.sem[x].f, m.sem[j].f # NoFile
        PROVE  l.sem[j].f = l.sem[x].f /\ l.sem[j].f # NoFile
    BY <1>14, <2>1, <2>3
  <2> QED
    BY <2>2, <2>3 DEF OneSlot
<1>23. Alone(m)
  <2>1. \A j \in Live(m) : j \in Live(l) /\ m.fil[j] = l.fil[j]
    BY <1>13, <1>16 DEF Live
  <2> QED
    BY <2>1 DEF LockGood, Alone
<1>24. \A j : \A x \in CountedIn(m, j) : m.fil[x] = l.fil[x] /\ x \in CountedIn(l, j)
  BY <1>13, <1>16 DEF CountedIn, Live
<1>25. Counts(m, i)
  <2>1. CASE CountedIn(m, i) = {}
    BY <1>14, <1>20, <2>1 DEF Counts, g
  <2>2. CASE CountedIn(m, i) # {}
    <3>1. l.fil[h].acc # 1
      BY <1>5, <1>17, <2>2
    <3>2. ~Writing(m, i)
      BY <1>5, <1>24, <3>1 DEF Writing
    <3> QED
      BY <1>7, <1>14, <1>19, <2>2, <3>1, <3>2 DEF Counts
  <2> QED
    BY <2>1, <2>2
<1>26. ASSUME NEW j \in Slots, j # i PROVE Counts(m, j)
  <2>1. Counts(l, j) /\ CountedIn(m, j) = CountedIn(l, j) /\ m.sem[j] = l.sem[j]
    BY <1>14, <1>17, <1>26 DEF LockGood
  <2>2. Writing(m, j) <=> Writing(l, j)
    BY <1>24, <2>1 DEF Writing
  <2> QED
    BY <2>1, <2>2 DEF Counts
<1>27. LockGood(m)
  BY <1>11, <1>18, <1>21, <1>22, <1>23, <1>25, <1>26 DEF LockGood
<1> QED
  BY <1>27 DEF m

-----------------------------------------------------------------------------
(* The calls                                                                 *)

\* A file that may be removed has no open file object.
LEMMA RemoveFree ==
    ASSUME NEW l, LockGood(l), NEW f \in Places, chk_lock(l, f, 2) = "FR_OK"
    PROVE  \A h \in Live(l) : l.fil[h].f \in l.used \ {f}
<1>1. SlotsOf(l, f) = {}
  BY DEF chk_lock
<1>2. \A i \in Slots : l.sem[i].f # f
  BY <1>1 DEF SlotsOf
<1> QED
  BY <1>2 DEF LockGood, Placed

\* An empty table.
LEMMA InitKeeps == LockInit => LockInv
<1> SUFFICES ASSUME LockInit PROVE LockInv
  OBVIOUS
<1>1. NoFil \in FilSet /\ NoFil.f = NoFile /\ NoFil.id = 0 /\ [f |-> NoFile, ctr |-> 0] \in SemSet
  BY DEF NoFil, FilSet, SemSet
<1>2. lk \in LockSet
  BY <1>1 DEF LockInit, LockSet, Slots
<1>3. lk.type = FALSE /\ lk.id = 0 /\ lk.int_err = FALSE
  BY DEF LockInit
<1>4. (\A h \in FilObjs : lk.fil[h] = NoFil) /\ \A i \in Slots : lk.sem[i].f = NoFile
  BY DEF LockInit, Slots
<1>5. Live(lk) = {}
  BY <1>1, <1>4 DEF Live, validate
<1>6. IdsOld(lk)
  BY <1>1, <1>3, <1>4 DEF IdsOld
<1> QED
  BY <1>2, <1>3, <1>4, <1>5, <1>6, ClearGood DEF LockInv

\* f_open keeps the invariant, and never finds the table full after chk_lock or
\* enq_lock found room.
LEMMA OpenStep ==
    ASSUME LockInv, NEW h \in FilObjs, NEW f \in Places, NEW acc \in 0 .. 1, NEW create \in BOOLEAN,
           NEW ok \in BOOLEAN, f_open(h, f, acc, create, ok)
    PROVE  LockInv'
<1>0. acc \in {0, 1}
  OBVIOUS
<1> DEFINE a == MountedAgain(lk)
           l == [a EXCEPT !.fil[h] = NoFil]
           r == IF f \in l.used THEN chk_lock(l, f, acc)
                ELSE IF ~ create THEN "FR_NO_FILE" ELSE IF enq_lock(l) THEN "FR_OK" ELSE "FR_TOO_MANY_OPEN_FILES"
           m == IF r = "FR_OK" THEN [l EXCEPT !.used = @ \cup {f}] ELSE l
           i == inc_slot(m, f, acc)
           d == [inc_lock(m, f, acc) EXCEPT !.fil[h] = [f |-> f, id |-> m.id, lockid |-> i, acc |-> acc],
                                            !.int_err = FALSE]
<1>1. ~validate(lk, h) /\ lk' = IF r # "FR_OK" \/ ~ ok THEN Returned(m)
                                ELSE IF i = 0 THEN [m EXCEPT !.int_err = TRUE] ELSE d
  BY DEF f_open
<1>2. LockGood(a) /\ a.type /\ ~validate(a, h)
  <2>1. lk.type \/ lk.id < MaxMounts
    BY DEF f_open, CanMount
  <2> QED
    BY <1>1, <2>1, MountKeeps DEF LockInv
<1> HIDE DEF a
<1>3. LockGood(l) /\ l.type = TRUE /\ ~validate(l, h)
  <2>1. a.type = TRUE
    BY <1>2 DEF LockGood, LockSet
  <2> QED
    BY <1>2, <2>1, ForgetKeeps
<1> HIDE DEF l
<1>4. l \in LockSet /\ l.used \in SUBSET Places /\ \A j \in Live(l) : l.fil[j].f \in l.used
  BY <1>3 DEF LockGood, LockSet, Placed
<1>5. CASE r # "FR_OK"
  <2>1. lk' = [l EXCEPT !.int_err = FALSE]
    BY <1>1, <1>5 DEF Returned
  <2> QED
    BY <1>3, <2>1, ErrKeeps DEF LockInv
<1>6. CASE r = "FR_OK"
  <2> DEFINE k == [l EXCEPT !.used = l.used \cup {f}]
  <2>1. m = k
    BY <1>6
  <2>2. LockGood(k)
    BY <1>3, <1>4, UsedKeeps
  <2>3. k.sem = l.sem /\ k.fil = l.fil /\ k.type = l.type /\ k.id = l.id /\ f \in k.used
    BY <1>4 DEF LockSet
  <2>4. \/ SlotsOf(l, f) = {} /\ SlotsOf(l, NoFile) # {}
        \/ SlotsOf(l, f) # {} /\ acc = 0 /\ l.sem[LowestSlot(SlotsOf(l, f))].ctr # WriteMode
    <3>1. CASE f \in l.used
      BY <1>6, <3>1 DEF chk_lock
    <3>2. CASE f \notin l.used
      <4>1. f # NoFile
        BY PlacesAreFiles
      <4>2. SlotsOf(l, f) = {}
        BY <1>3, <3>2, <4>1, SlotFacts DEF SlotsOf
      <4>3. enq_lock(l)
        BY <1>6, <3>2
      <4> QED
        BY <4>2, <4>3 DEF enq_lock
    <3> QED
      BY <3>1, <3>2
  <2> HIDE DEF k, r
  <2>5. SlotsOf(k, f) = SlotsOf(l, f) /\ SlotsOf(k, NoFile) = SlotsOf(l, NoFile)
    BY <2>3 DEF SlotsOf
  <2>6. k.type = TRUE /\ ~validate(k, h)
    BY <1>3, <2>3, Zenon DEF validate
  <2>7. \/ SlotsOf(k, f) = {} /\ SlotsOf(k, NoFile) # {}
        \/ SlotsOf(k, f) # {} /\ acc = 0 /\ k.sem[LowestSlot(SlotsOf(k, f))].ctr # WriteMode
    BY <2>3, <2>4, <2>5, Zenon
  <2> DEFINE c == inc_slot(k, f, acc)
             e == [inc_lock(k, f, acc) EXCEPT !.fil[h] = [f |-> f, id |-> k.id, lockid |-> c, acc |-> acc],
                                              !.int_err = FALSE]
  <2>9. c \in Slots /\ LockGood(e) /\ ~e.int_err
    BY <2>2, <2>3, <2>6, <2>7, <1>0, OpenKeeps
  <2>10. c # 0
    BY <2>9, SlotNotZero
  <2>11. CASE ~ok
    <3>1. lk' = [k EXCEPT !.int_err = FALSE]
      BY <1>1, <2>1, <2>11 DEF Returned
    <3> QED
      BY <2>2, <3>1, ErrKeeps DEF LockInv
  <2>12. CASE ok
    <3>1. lk' = e
      BY <1>1, <1>6, <2>1, <2>10, <2>12
    <3> QED
      BY <2>9, <3>1 DEF LockInv
  <2> QED
    BY <2>11, <2>12
<1> QED
  BY <1>5, <1>6

\* f_close, of an open file object or a stale one.
LEMMA CloseStep ==
    ASSUME LockInv, NEW h \in FilObjs, NEW ok \in BOOLEAN, f_close(h, ok)
    PROVE  LockInv'
<1>1. CASE ~validate(lk, h) \/ ~ok
  <2>1. lk' = [lk EXCEPT !.int_err = FALSE]
    BY <1>1 DEF f_close, Returned
  <2> QED
    BY <2>1, ErrKeeps DEF LockInv
<1>2. CASE validate(lk, h) /\ ok
  <2>1. lk' = [dec_lock(lk, lk.fil[h].lockid) EXCEPT !.fil[h] = NoFil, !.int_err = FALSE]
    BY <1>2 DEF f_close
  <2>2. LockGood(lk')
    BY <1>2, <2>1, CloseKeeps DEF LockInv
  <2>3. ~lk'.int_err
    <3>1. lk \in LockSet
      BY DEF LockInv, LockGood
    <3> QED
      BY <2>1, <3>1 DEF dec_lock, LockSet
  <2> QED
    BY <2>2, <2>3 DEF LockInv
<1> QED
  BY <1>1, <1>2

\* f_unlink and f_rename: only entries that no open file object has.
LEMMA EntryStep ==
    ASSUME LockInv, NEW f \in Places, NEW g \in Places, NEW ok \in BOOLEAN,
           f_unlink(f, ok) \/ f_rename(f, g)
    PROVE  LockInv'
<1> DEFINE l == MountedAgain(lk)
           r == IF f \notin l.used THEN "FR_NO_FILE" ELSE chk_lock(l, f, 2)
<1>1. \/ lk' = [l EXCEPT !.int_err = FALSE]
      \/ r = "FR_OK" /\ lk' = Returned([l EXCEPT !.used = l.used \ {f}])
      \/ r = "FR_OK" /\ lk' = Returned([l EXCEPT !.used = (l.used \ {f}) \cup {g}])
  BY DEF f_unlink, f_rename, Returned
<1>2. LockGood(l)
  <2>1. lk.type \/ lk.id < MaxMounts
    BY DEF f_unlink, f_rename, CanMount
  <2> QED
    BY <2>1, MountKeeps DEF LockInv
<1> HIDE DEF l
<1>3. l.used \in SUBSET Places
  BY <1>2 DEF LockGood, LockSet
<1>4. CASE lk' = [l EXCEPT !.int_err = FALSE]
  BY <1>2, <1>4, ErrKeeps DEF LockInv
<1>5. ASSUME r = "FR_OK", NEW U \in SUBSET Places, l.used \ {f} \subseteq U,
             lk' = Returned([l EXCEPT !.used = U])
      PROVE  LockInv'
  <2>1. chk_lock(l, f, 2) = "FR_OK"
    BY <1>5
  <2>2. \A h \in Live(l) : l.fil[h].f \in U
    BY <1>2, <1>5, <2>1, RemoveFree
  <2> DEFINE m == [l EXCEPT !.used = U]
  <2>3. LockGood(m)
    BY <1>2, <2>2, UsedKeeps
  <2> HIDE DEF m
  <2>4. lk' = [m EXCEPT !.int_err = FALSE]
    BY <1>5 DEF Returned, m
  <2> QED
    BY <2>3, <2>4, ErrKeeps DEF LockInv
<1>6. l.used \ {f} \in SUBSET Places /\ (l.used \ {f}) \cup {g} \in SUBSET Places
  BY <1>3
<1> HIDE DEF r
<1> QED
  BY <1>1, <1>4, <1>5, <1>6

\* f_mount: every file object becomes stale.
LEMMA MountStep == LockInv /\ f_mount => LockInv'
<1> SUFFICES ASSUME LockInv, f_mount PROVE LockInv'
  OBVIOUS
<1> DEFINE k == clear_lock(lk)
<1>1. lk \in LockSet /\ IdsOld(lk)
  BY DEF LockInv, LockGood
<1>2. k \in LockSet /\ (\A i \in Slots : k.sem[i].f = NoFile) /\ k.fil = lk.fil /\ k.id = lk.id
  BY <1>1, ClearLock
<1>3. lk' = [k EXCEPT !.type = FALSE, !.int_err = FALSE]
  BY DEF f_mount
<1> HIDE DEF k
<1>4. lk' \in LockSet
  BY <1>2, <1>3 DEF LockSet
<1>5. lk'.sem = k.sem /\ lk'.fil = k.fil /\ lk'.id = k.id
  BY <1>2, <1>3 DEF LockSet
<1>6. lk'.type = FALSE /\ lk'.int_err = FALSE
  BY <1>2, <1>3, Zenon DEF LockSet
<1>7. Live(lk') = {}
  BY <1>6, Zenon DEF Live, validate
<1>8. IdsOld(lk')
  BY <1>1, <1>2, <1>5 DEF IdsOld
<1>9. LockGood(lk')
  BY <1>2, <1>4, <1>5, <1>7, <1>8, ClearGood
<1> QED
  BY <1>6, <1>9 DEF LockInv

\* No step breaks the invariant.
LEMMA NextKeeps == LockInv /\ [LockNext]_lk => LockInv'
<1> SUFFICES ASSUME LockInv, [LockNext]_lk PROVE LockInv'
  OBVIOUS
<1>1. CASE UNCHANGED lk
  BY <1>1 DEF LockInv
<1>2. CASE \E h \in FilObjs, f \in Places, acc \in 0 .. 1, create, ok \in BOOLEAN : f_open(h, f, acc, create, ok)
  BY <1>2, OpenStep
<1>3. CASE \E h \in FilObjs, ok \in BOOLEAN : f_close(h, ok)
  BY <1>3, CloseStep
<1>4. CASE \E f \in Places, ok \in BOOLEAN : f_unlink(f, ok)
  BY <1>4, EntryStep
<1>5. CASE \E f, g \in Places : f_rename(f, g)
  BY <1>5, EntryStep
<1>6. CASE f_mount
  BY <1>6, MountStep
<1> QED
  BY <1>1, <1>2, <1>3, <1>4, <1>5, <1>6 DEF LockNext

\* What the invariant says of the file objects and of the table.
LEMMA InvEnough == LockInv => SharingHolds /\ LocksExact
<1> SUFFICES ASSUME LockInv PROVE SharingHolds /\ LocksExact
  OBVIOUS
<1>1. LockGood(lk) /\ ~lk.int_err /\ Placed(lk) /\ Alone(lk) /\ OneSlot(lk)
  BY DEF LockInv, LockGood
<1>2. LiveFils = Live(lk)
  BY DEF LiveFils, Live
<1>3. \A h \in Live(lk) : lk.fil[h].f # NoFile
  BY DEF Live, validate
<1>4. SharingHolds
  <2>1. ASSUME NEW h \in Live(lk), NEW j \in Live(lk), h # j, lk.fil[h].f = lk.fil[j].f
        PROVE  lk.fil[h].acc = 0
    <3>1. lk.fil[h].lockid = lk.fil[j].lockid
      BY <1>1, <1>3, <2>1 DEF Placed, OneSlot
    <3> QED
      BY <1>1, <2>1, <3>1 DEF Alone
  <2>2. \A h \in Live(lk) : lk.fil[h].f \in lk.used
    BY <1>1 DEF Placed
  <2> QED
    BY <1>2, <2>1, <2>2 DEF SharingHolds
<1>5. LocksExact
  <2> DEFINE Of(i) == {h \in LiveFils : lk.fil[h].lockid = i}
  <2>1. \A i : Of(i) = CountedIn(lk, i)
    BY <1>2 DEF CountedIn
  <2>2. ASSUME NEW i \in Slots
        PROVE  IF Of(i) = {} THEN lk.sem[i].f = NoFile
               ELSE /\ \A h \in Of(i) : lk.fil[h].f = lk.sem[i].f
                    /\ lk.sem[i].ctr = IF \E h \in Of(i) : lk.fil[h].acc = 1 THEN WriteMode ELSE Cardinality(Of(i))
    <3>1. Counts(lk, i) /\ Of(i) = CountedIn(lk, i)
      BY <1>1, <2>1 DEF LockGood
    <3>2. \A h \in Of(i) : lk.fil[h].f = lk.sem[i].f
      BY <1>1, <1>2 DEF Placed
    <3> HIDE DEF Of
    <3> QED
      BY <3>1, <3>2 DEF Counts, Writing
  <2> QED
    BY <1>1, <2>2 DEF LocksExact
<1> QED
  BY <1>4, <1>5

-----------------------------------------------------------------------------
\* For every set of directory entries and file objects and every size of the
\* table: a file that is written has one file object, no entry goes away under an
\* open one, and the table counts exactly the open file objects, over any opens,
\* failed opens, closes, removals and remounts, as long as the volume is mounted
\* fewer times than its 16-bit identifier can tell apart (IdsFit; chk_lock,
\* inc_lock, dec_lock, clear_lock and the calls that use them).
THEOREM SharingCorrect == LockSpec => [](SharingHolds /\ LocksExact)
<1>1. LockInit => LockInv
  BY InitKeeps
<1>2. LockInv /\ [LockNext]_lk => LockInv'
  BY NextKeeps
<1>3. LockInv => SharingHolds /\ LocksExact
  BY InvEnough
<1> QED
  BY <1>1, <1>2, <1>3, PTL DEF LockSpec

=============================================================================
