----------------------------- MODULE LedosCodec -----------------------------
(***************************************************************************)
(* The audio drivers of LEDOS as one thread runs them: the shadow          *)
(* registers of the WM8731 (codec.c) that are sent over the I2C master     *)
(* (i2c_drvr.c), the registers of the audio cortex (dac_drvr.c, acortex.c, *)
(* cortex.c), the ADC capture, and the two callers that put them together, *)
(* init_ledos and prep_cortex (ledos.c).  A function of the drivers is the *)
(* sequence of register accesses it makes; it returns at the first I2C     *)
(* write that is not acknowledged.                                         *)
(***************************************************************************)
EXTENDS Naturals, Sequences, FiniteSets

(***************************************************************************)
(* The fields of the WM8731's registers as codec.h lays them out, and the  *)
(* word that is sent for a register: its number above nine bits of value.  *)
(* A word is configured field by field, in any order, from its value after *)
(* a reset.                                                                *)
(***************************************************************************)
VARIABLE fld    \* a register, its shadow word and the values last asked for

\* A field: its register, the weight of its lowest bit, the number of its values.
F(idx, offst, msk) == [idx |-> idx, off |-> 2 ^ offst, msk |-> msk + 1]

LEFT_LINE_IN == [LINVOL |-> F(0, 0, 31), LIN_MUTE |-> F(0, 7, 1), LRIN_BOTH |-> F(0, 8, 1)]
RIGHT_LINE_IN == [RINVOL |-> F(1, 0, 31), RIN_MUTE |-> F(1, 7, 1), RLIN_BOTH |-> F(1, 8, 1)]
LEFT_HP_OUT == [LHPVOL |-> F(2, 0, 127), LZCEN |-> F(2, 7, 1), LRHP_BOTH |-> F(2, 8, 1)]
RIGHT_HP_OUT == [RHPVOL |-> F(3, 0, 127), RZCEN |-> F(3, 7, 1), RLHP_BOTH |-> F(3, 8, 1)]
ANALOG_AUD_PATH ==
    [MIC_BOOST |-> F(4, 0, 1), MUTE_MIC |-> F(4, 1, 1), INSEL |-> F(4, 2, 1), BYPASS |-> F(4, 3, 1),
     DAC_SEL |-> F(4, 4, 1), SIDE_TONE |-> F(4, 5, 1), SIDE_ATT |-> F(4, 6, 3)]

DIGITAL_AUD_PATH ==
    [ADC_HPD |-> F(5, 0, 1), DEEMPH |-> F(5, 1, 3), DAC_MU |-> F(5, 3, 1), HPOR |-> F(5, 4, 1)]
POWER_DOWN ==
    [LINEINPD |-> F(6, 0, 1), MICPD |-> F(6, 1, 1), ADCPD |-> F(6, 2, 1), DACPD |-> F(6, 3, 1),
     OUTPD |-> F(6, 4, 1), OSCPD |-> F(6, 5, 1), CLKOUTPD |-> F(6, 6, 1), PWROFF |-> F(6, 7, 1)]
DIGITAL_AUD_IF_FMT ==
    [FORMAT |-> F(7, 0, 3), IWL |-> F(7, 2, 3), LRP |-> F(7, 4, 1), LRSWAP |-> F(7, 5, 1),
     MS |-> F(7, 6, 1), BCLK_INV |-> F(7, 7, 1)]
SAMPLING_CTRL ==
    [USB_NORM |-> F(8, 0, 1), BOSR |-> F(8, 1, 1), SR |-> F(8, 2, 15), CLKI_DIV2 |-> F(8, 6, 1),
     CLKO_DIV2 |-> F(8, 7, 1)]
ACTIVE_CTRL == [ACTIVE |-> F(9, 0, 1)]

\* By the index of the shadow register.
Fields == <<LEFT_LINE_IN, RIGHT_LINE_IN, LEFT_HP_OUT, RIGHT_HP_OUT, ANALOG_AUD_PATH,
            DIGITAL_AUD_PATH, POWER_DOWN, DIGITAL_AUD_IF_FMT, SAMPLING_CTRL, ACTIVE_CTRL>>

\* The shadow words a reset leaves.
PorWord == <<\h97, \h297, \h479, \h679, \h80a, \ha08, \hc9f, \he0a, \h1000, \h1200, \h1e00>>

\* The value of a field in a word; the word with a new value in the field.
Field(w, f) == (w \div f.off) % f.msk
SetField(w, f, v) == w - Field(w, f) * f.off + (v % f.msk) * f.off

\* What the header says the interface format and the power switches mean.
CODEC_DAC_FMT == [RIGHT_JUST |-> 0, LEFT_JUST |-> 1, I2S |-> 2, DSP |-> 3]
CODEC_PWR_ON_OFF == [ON |-> 0, OFF |-> 1]

\* Values a caller passes: small ones, the largest that fits and one above it.
Asked(f) == {0, 1, f.msk \div 2, f.msk - 1, f.msk}

FieldsInit == fld \in {[i |-> i, word |-> PorWord[i],
                        want |-> [f \in DOMAIN Fields[i] |-> Field(PorWord[i], Fields[i][f])]] :
                       i \in 1 .. Len(Fields)}

FieldsNext == \E f \in DOMAIN Fields[fld.i] : \E v \in Asked(Fields[fld.i][f]) :
                fld' = [fld EXCEPT !.word = SetField(@, Fields[fld.i][f], v),
                                   !.want[f] = v % Fields[fld.i][f].msk]

\* However a register's word was put together, it still carries the register's
\* number, so the write lands where it is meant, and every field holds the value
\* last asked for: no two fields of codec.h share a bit or reach out of the nine
\* (codec_config_reg).
FieldsApart ==
    /\ fld.word \div 512 = PorWord[fld.i] \div 512
    /\ \A f \in DOMAIN Fields[fld.i] : /\ Field(fld.word, Fields[fld.i][f]) = fld.want[f]
                                       /\ Fields[fld.i][f].idx = fld.i - 1

-----------------------------------------------------------------------------
CONSTANTS Rates,       \* sample rates a caller asks for, a subset of FS_T
          CapDepth,    \* samples of a capture (ACORTEX_ADC_CAP_DEPTH, 128)
          MaxNacks,    \* bound: writes the codec does not acknowledge
          MaxCalls     \* bound: driver calls after the initialisation

VARIABLES shadow,   \* codec_shadow_reg: the words last meant for the codec
          dev,      \* the registers of the codec itself
          i2c,      \* the I2C master: data register and status flags
          regs,     \* the registers of the audio cortex
          cap,      \* the capture RAM, its state and the caller's buffers
          drv,      \* the driver call: what it is, its steps, its result
          hist      \* what the properties remember

audioVars == <<shadow, dev, i2c, regs, cap, drv, hist>>

\* FS_8KHZ, FS_32KHZ, FS_44KHZ, FS_48KHZ, FS_88KHZ, FS_96KHZ.
FS_T == 0 .. 5

ASSUME AudioConstants == /\ Rates \subseteq FS_T /\ Rates # {}
                         /\ CapDepth \in Nat \ {0}
                         /\ MaxNacks \in Nat /\ MaxCalls \in Nat

bps2iwl_lookup == [b \in {0, 1} |-> IF b = 1 THEN 3 ELSE 0]
fs2sr_lookup == <<3, 6, 8, 0, 15, 7>>
fs2mclk_lookup == <<2, 2, 3, 2, 3, 2>>
fs2div_lookup == <<781, 195, 142, 130, 71, 65>>

\* The tables are indexed from 0.
At(table, fs) == table[fs + 1]

-----------------------------------------------------------------------------
(* The codec's registers.  A word is the register number and nine bits of   *)
(* value; the shadow of register 15, reset, is entry 10.                    *)

Idx == 0 .. 10

\* The values a reset gives the codec's registers 0 to 9.
Por == [i \in 0 .. 9 |-> PorWord[i + 1] % 512]

\* The fields the driver functions write.
ADC_HPD  == DIGITAL_AUD_PATH.ADC_HPD
DAC_MU   == DIGITAL_AUD_PATH.DAC_MU
DAC_SEL  == ANALOG_AUD_PATH.DAC_SEL
LINEINPD == POWER_DOWN.LINEINPD
ADCPD    == POWER_DOWN.ADCPD
DACPD    == POWER_DOWN.DACPD
OUTPD    == POWER_DOWN.OUTPD
PWROFF   == POWER_DOWN.PWROFF
IWL      == DIGITAL_AUD_IF_FMT.IWL
SR       == SAMPLING_CTRL.SR
IF_ACTIVE == ACTIVE_CTRL.ACTIVE

-----------------------------------------------------------------------------
(* Driver functions, as the accesses they make.                             *)

\* Shadow registers as a reset leaves them, then the reset word.
codec_reset == <<[k |-> "reset"]>>

\* codec_config_reg: change a field of the shadow and send the word.
codec_config_reg(f, v) == <<[k |-> "field", f |-> f, v |-> v]>>

\* A whole word into the shadow, and send it.
SendWord(i, v) == <<[k |-> "word", i |-> i, v |-> v]>>

\* A write to a register of the cortex.
Io(r, v) == <<[k |-> "io", r |-> r, v |-> v]>>

codec_iwl_update(v) == codec_config_reg(IWL, v)
codec_sr_update(v) == codec_config_reg(SR, v)

\* "Read Power On Sequence spec": everything but the outputs is powered up,
\* configured and activated, the outputs come last.
codec_init(bps, fs) ==
    codec_reset \o SendWord(6, 16) \o SendWord(0, 23) \o SendWord(1, 23)
      \o SendWord(2, 249) \o SendWord(3, 249) \o SendWord(5, 0) \o SendWord(7, 15)
      \o codec_iwl_update(bps2iwl_lookup[bps])
      \o codec_sr_update(At(fs2sr_lookup, fs)) \o SendWord(9, 1) \o SendWord(6, 0)

\* Mutant: the converter is powered up after it is selected and unmuted.
dac_activate_late ==
    codec_config_reg(DAC_SEL, 1) \o codec_config_reg(DAC_MU, 0) \o codec_config_reg(DACPD, 0)

codec_dac_activate ==
    codec_config_reg(DACPD, 0) \o codec_config_reg(DAC_SEL, 1) \o codec_config_reg(DAC_MU, 0)

codec_dac_inactivate ==
    codec_config_reg(DAC_MU, 1) \o codec_config_reg(DAC_SEL, 0) \o codec_config_reg(DACPD, 1)

\* disable_mclk clears the selection with the enable.
update_mclk(fs) ==
    Io("mclk_off", 0) \o Io("mclk_sel", At(fs2mclk_lookup, fs)) \o Io("mclk_en", 1)

acortex_init(fs, bps) ==
    Io("reset", 0) \o Io("i2c_clk", 100) \o Io("bps", bps)
      \o Io("div", At(fs2div_lookup, fs)) \o update_mclk(fs)

cortex_init(fs, bps) == acortex_init(fs, bps) \o Io("norm_l", 5) \o Io("norm_r", 5) \o Io("vcortex", 1)

\* The first part of init_ledos, the rest starts threads (module LedosShell).
\* The result of codec_init is not looked at.
init_ledos(fs, bps) == cortex_init(fs, bps) \o codec_init(bps, fs)

\* prep_cortex writes the codec's rate field with the index of the rate, and
\* asks for the master clock with a value of MCLK_SEL_VAL (11 MHz is 3, 12 MHz
\* is 2) where update_mclk takes an index of rates.
prep_cortex(fs, bps, stereo) ==
    codec_config_reg(IF_ACTIVE, 0) \o codec_dac_inactivate
      \o codec_iwl_update(IF bps = 0 THEN 0 ELSE 3) \o codec_config_reg(SR, fs)
      \o update_mclk(IF fs \in {2, 4} THEN 3 ELSE 2)
      \o Io("fg_l", 1) \o (IF stereo THEN Io("fg_r", 1) ELSE <<>>) \o Io("dac", 1)

\* adc_cap: start, wait for the capture, then read every sample as two
\* halves; one channel stands for both.
adc_cap == Io("capture", 1) \o <<[k |-> "capwait"]>>
             \o [i \in 1 .. (2 * CapDepth) |-> [k |-> "half", a |-> i - 1]]

\* The calls the drivers offer, apart from the initialisation.
Calls == [n : {"codec_init"}, fs : Rates, v : {0, 1}]
         \cup [n : {"dsp_if", "pwr_off", "linein", "lineout", "adc_hpf", "adc_pwr", "iwl"}, fs : {0}, v : {0, 1}]
         \cup [n : {"sr", "prep"}, fs : Rates, v : {0, 1}]
         \cup [n : {"dac_on", "dac_off", "adc_cap"}, fs : {0}, v : {0}]

Steps(c) ==
    CASE c.n = "codec_init" -> codec_init(c.v, c.fs)
      [] c.n = "dsp_if"  -> codec_config_reg(IF_ACTIVE, c.v)
      [] c.n = "pwr_off" -> codec_config_reg(PWROFF, c.v)
      [] c.n = "linein"  -> codec_config_reg(LINEINPD, c.v)
      [] c.n = "lineout" -> codec_config_reg(OUTPD, c.v)
      [] c.n = "adc_hpf" -> codec_config_reg(ADC_HPD, c.v)
      [] c.n = "adc_pwr" -> codec_config_reg(ADCPD, c.v)
      [] c.n = "iwl"     -> codec_iwl_update(bps2iwl_lookup[c.v])
      [] c.n = "sr"      -> codec_sr_update(At(fs2sr_lookup, c.fs))
      [] c.n = "prep"    -> prep_cortex(c.fs, c.v, c.v = 1)
      [] c.n = "dac_on"  -> codec_dac_activate
      [] c.n = "dac_off" -> codec_dac_inactivate
      [] c.n = "adc_cap" -> adc_cap

-----------------------------------------------------------------------------
(* The thread.                                                              *)

\* Registers of the cortex after a reset of its audio part: the enables, the
\* sample width, the divider and the clock selection are cleared.
AcReset(r) == [r EXCEPT !.dac = 0, !.adc = 0, !.bps = 0, !.div = 0,
                        !.mclk_sel = 0, !.mclk_en = 0, !.i2c_clk = 0]

Regs0 == [dac |-> 0, adc |-> 0, bps |-> 0, div |-> 0, mclk_sel |-> 0, mclk_en |-> 0,
          i2c_clk |-> 0, norm_l |-> 0, norm_r |-> 0, vcortex |-> 0, fg_l |-> 0, fg_r |-> 0]

\* A register write: most replace one field of their register.
IoEffect(s) ==
    CASE s.r = "reset" -> AcReset(regs)
      [] s.r = "mclk_off" -> [regs EXCEPT !.mclk_sel = 0, !.mclk_en = 0]
      [] s.r = "mclk_sel" -> [regs EXCEPT !.mclk_sel = s.v]
      [] OTHER -> [regs EXCEPT ![s.r] = s.v]

AudioInit(call, steps) ==
    /\ shadow = [i \in Idx |-> 0] /\ dev = Por
    /\ i2c = [data |-> [i |-> 0, v |-> 0], busy |-> FALSE, nack |-> FALSE]
    /\ regs = Regs0
    /\ cap = [busy |-> FALSE, left |-> 0, gen |-> 0, ram |-> [a \in 0 .. (CapDepth - 1) |-> 0],
              buf |-> [a \in 0 .. (2 * CapDepth - 1) |-> 0]]
    /\ drv = [call |-> call, todo |-> steps, pc |-> "step", res |-> "OK", calls |-> 0]
    /\ hist = [nacked |-> Idx, refused |-> TRUE, wasReset |-> FALSE, nacks |-> 0]

Step == Head(drv.todo)
Running(k) == drv.pc = "step" /\ drv.todo # <<>> /\ Step.k = k
Advance(d) == [d EXCEPT !.todo = Tail(@), !.pc = "step"]

\* The shadow changes first, whatever becomes of the write.
NewShadow(s) ==
    CASE s.k = "reset" -> [i \in Idx |-> IF i = 10 THEN 0 ELSE Por[i]]
      [] s.k = "word"  -> [shadow EXCEPT ![s.i] = s.v]
      [] s.k = "field" -> [shadow EXCEPT ![s.f.idx] = SetField(@, s.f, s.v)]

Target(s) == CASE s.k = "reset" -> 10 [] s.k = "word" -> s.i [] s.k = "field" -> s.f.idx

\* A driver function changes the shadow and enters i2c_xtn_write16, which
\* waits until the master is free.
ShadowStep ==
    /\ drv.pc = "step" /\ drv.todo # <<>> /\ Step.k \in {"reset", "word", "field"}
    /\ shadow' = NewShadow(Step)
    /\ drv' = [drv EXCEPT !.pc = "free"]
    /\ UNCHANGED <<dev, i2c, regs, cap, hist>>

\* i2c_xtn_write16: data, address and the trigger.
Trigger ==
    /\ drv.pc = "free" /\ ~i2c.busy
    /\ i2c' = [data |-> [i |-> Target(Step), v |-> shadow[Target(Step)]], busy |-> TRUE, nack |-> FALSE]
    /\ drv' = [drv EXCEPT !.pc = "done"]
    /\ UNCHANGED <<shadow, dev, regs, cap, hist>>

I2cIdle == ~i2c.busy

\* The transfer is over: a missing acknowledge ends the whole call.
Finish ==
    /\ drv.pc = "done" /\ I2cIdle
    /\ drv' = IF i2c.nack
              THEN [drv EXCEPT !.todo = <<>>, !.pc = "step", !.res = "NACK"]
              ELSE Advance(drv)
    /\ hist' = [hist EXCEPT
                 !.nacked = IF i2c.nack THEN @ \cup (IF i2c.data.i = 10 THEN Idx ELSE {i2c.data.i})
                            ELSE IF i2c.data.i = 10 THEN {} ELSE @ \ {i2c.data.i},
                 !.refused = IF i2c.data.i = 10 THEN i2c.nack ELSE @,
                 !.wasReset = @ \/ (i2c.data.i = 10 /\ ~i2c.nack)]
    /\ UNCHANGED <<shadow, dev, i2c, regs, cap>>

IoStep ==
    /\ Running("io") /\ Step.r # "capture"
    /\ regs' = IoEffect(Step)
    /\ drv' = Advance(drv)
    /\ UNCHANGED <<shadow, dev, i2c, cap, hist>>

\* A start while a capture runs is not seen.
CaptureStart ==
    /\ Running("io") /\ Step.r = "capture"
    /\ cap' = IF cap.busy THEN cap
              ELSE [cap EXCEPT !.busy = TRUE, !.left = CapDepth, !.gen = @ + 1]
    /\ drv' = Advance(drv)
    /\ UNCHANGED <<shadow, dev, i2c, regs, hist>>

CaptureWait ==
    /\ Running("capwait") /\ ~cap.busy
    /\ drv' = Advance(drv)
    /\ UNCHANGED <<shadow, dev, i2c, regs, cap, hist>>

ReadHalf ==
    /\ Running("half")
    /\ cap' = [cap EXCEPT !.buf[Step.a] = cap.ram[Step.a \div 2]]
    /\ drv' = Advance(drv)
    /\ UNCHANGED <<shadow, dev, i2c, regs, hist>>

Idle == drv.pc = "step" /\ drv.todo = <<>>

\* The next call of a client of the drivers.
Call(c) ==
    /\ Idle /\ drv.calls < MaxCalls
    /\ drv' = [call |-> c, todo |-> Steps(c), pc |-> "step", res |-> "OK", calls |-> drv.calls + 1]
    /\ hist' = [hist EXCEPT !.wasReset = FALSE]
    /\ UNCHANGED <<shadow, dev, i2c, regs, cap>>

DriverStep == ShadowStep \/ Trigger \/ Finish \/ IoStep \/ CaptureStart \/ CaptureWait \/ ReadHalf

-----------------------------------------------------------------------------
(* The hardware.                                                            *)

\* The master ends a transfer; the codec takes the word if it acknowledges.
I2cDone(nack) ==
    /\ i2c.busy
    /\ nack => hist.nacks < MaxNacks
    /\ i2c' = [i2c EXCEPT !.busy = FALSE, !.nack = nack]
    /\ hist' = [hist EXCEPT !.nacks = IF nack THEN @ + 1 ELSE @]
    /\ dev' = IF nack THEN dev
              ELSE IF i2c.data.i = 10 THEN Por ELSE [dev EXCEPT ![i2c.data.i] = i2c.data.v]
    /\ UNCHANGED <<shadow, regs, cap, drv>>

\* A sample of the running capture enters the RAM.
CaptureSample ==
    /\ cap.busy
    /\ cap' = [cap EXCEPT !.ram[CapDepth - cap.left] = cap.gen,
                          !.left = @ - 1, !.busy = cap.left > 1]
    /\ UNCHANGED <<shadow, dev, i2c, regs, drv, hist>>

AudioHw == (\E n \in BOOLEAN : I2cDone(n)) \/ CaptureSample

-----------------------------------------------------------------------------
\* Whenever no write is under way, the codec holds what the shadow says in every
\* register, except those whose last write it refused and told so: no refused
\* write goes by as a success, and no later write repairs another register
\* (codec_config_reg, which changes the shadow first; i2c_xtn_write16).
ShadowIsDevice ==
    drv.pc = "step" => \A i \in 0 .. 9 : dev[i] = shadow[i] \/ i \in hist.nacked

\* A codec_init that succeeds leaves a codec that plays what was asked: word
\* length and rate, interface active, everything powered, converter unmuted.
\* One that fails after its reset was accepted leaves the outputs off: they are
\* the last thing to be powered (codec_init, "Read Power On Sequence spec").
InitPowersLast ==
    Idle /\ drv.call.n = "codec_init" =>
        IF drv.res = "OK"
        THEN /\ Field(dev[7], IWL) = bps2iwl_lookup[drv.call.v]
             /\ Field(dev[8], SR) = At(fs2sr_lookup, drv.call.fs)
             /\ dev[9] = 1 /\ dev[6] = 0 /\ Field(dev[5], DAC_MU) = 0
        ELSE hist.wasReset => Field(dev[6], OUTPD) = 1

\* The converter is never selected and unmuted while it is powered down, at any
\* point of codec_dac_activate and codec_dac_inactivate, after any refused
\* write and whatever other field of the same registers is written later; only
\* a refused reset, which leaves the shadow at values the codec does not have,
\* can undo it.
DacQuietWhenOff ==
    ~hist.refused =>
        ~(Field(dev[4], DAC_SEL) = 1 /\ Field(dev[5], DAC_MU) = 0 /\ Field(dev[6], DACPD) = 1)

\* adc_cap returns the samples of one capture, both halves of each: the one it
\* started (acortex.c, "wait for capture to complete").
CaptureWhole ==
    Idle /\ drv.call.n = "adc_cap" => \A a \in DOMAIN cap.buf : cap.buf[a] = cap.gen
=============================================================================
