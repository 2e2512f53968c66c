------------------------------- MODULE MCLedos ------------------------------
(***************************************************************************)
(* LEDOS for TLC: the initialisation, then either a client that calls the  *)
(* audio drivers or a user at the shell; or the register accesses of all   *)
(* drivers on the bus; or a file name that is typed; or a drive that is    *)
(* formatted; or files that are shared; or a codec word that is            *)
(* configured.  They share no state but the engine enables, and the        *)
(* firmware calls the drivers from one thread.                             *)
(***************************************************************************)
EXTENDS LedosShell, LedosRegs, FatName, FatFormat, FatLock

VARIABLE app

otherVars == <<regVars, nameVars, fld, formatVars, lk>>
vars == <<audioVars, shellVars, otherVars, app>>

FirstDrive == [cap |-> 127, blk |-> 1, cfg |-> "one"]

FilledWith(c) == [i \in 0 .. (LineLen - 1) |-> c]

Init == \E fs \in Rates, bps \in {0, 1} :
          /\ AudioInit([n |-> "codec_init", fs |-> fs, v |-> bps], init_ledos(fs, bps))
          /\ ShellInit
          /\ RegsInit /\ NameInit /\ FieldsInit /\ FormatInit /\ LockInit
          /\ app \in {"audio", "shell", "bus", "status", "prsr", "name", "field", "format", "share"}
          \* The others do not depend on the formats: one of them is enough.
          /\ app # "audio" => bps = 0
          /\ app # "field" => fld.i = 1
          /\ app # "format" => drive = FirstDrive
          /\ app # "prsr" => prs.hdr = HdrWords

\* Nothing in the shell depends on what the codec took.
AudioStep(A) == /\ app \in {"audio", "shell"} /\ A
                /\ app = "shell" => ~i2c'.nack
                /\ UNCHANGED <<shellVars, otherVars, app>>

Next == \/ AudioStep(DriverStep) \/ AudioStep(AudioHw)
        \/ app = "audio" /\ AudioStep(\E c \in Calls : Call(c))
        \/ /\ app = "shell"
           /\ StartThreads \/ ShellStep \/ Keyboard \/ AcidStep \/ AcidWake
           /\ UNCHANGED <<otherVars, app>>
        \/ /\ \/ app = "bus" /\ BusActs
              \/ app = "status" /\ StatusActs
              \/ app = "prsr" /\ PrsrActs
           /\ UNCHANGED <<audioVars, shellVars, nameVars, fld, formatVars, lk, app>>
        \/ app = "name" /\ NameNext /\ UNCHANGED <<audioVars, shellVars, regVars, fld, formatVars, lk, app>>
        \/ app = "field" /\ FieldsNext /\ UNCHANGED <<audioVars, shellVars, regVars, nameVars, formatVars, lk, app>>
        \/ app = "format" /\ FormatNext /\ UNCHANGED <<audioVars, shellVars, regVars, nameVars, fld, lk, app>>
        \/ app = "share" /\ LockNext /\ UNCHANGED <<audioVars, shellVars, regVars, nameVars, fld, formatVars, app>>

\* The I2C master and the capture logic run; a ready thread runs; sleeps end;
\* and the shell, which has the processor again and again while the
\* visualisation thread sleeps its millisecond, gets something done in it.
Fairness == /\ WF_vars(AudioStep(DriverStep))
            /\ WF_vars(AudioStep(AudioHw))
            /\ SF_vars(app = "shell" /\ (StartThreads \/ ShellStep) /\ UNCHANGED <<otherVars, app>>)
            /\ WF_vars(app = "shell" /\ AcidStep /\ UNCHANGED <<otherVars, app>>)
            /\ WF_vars(app = "shell" /\ AcidWake /\ UNCHANGED <<otherVars, app>>)

Spec == Init /\ [][Next]_vars /\ Fairness

\* For TLC the stack under the line buffer has no NUL anywhere, the worst case.
MCInit == line = FilledWith("f") /\ Init
MCSpec == MCInit /\ [][Next]_vars /\ Fairness

\* The audio drivers: shadow and codec differ only where a write was refused,
\* outputs are powered last, the converter is never audible while powered down,
\* a capture is whole, and a field never changes its neighbour (codec.c,
\* acortex.c, codec.h).
AudioInv == ShadowIsDevice /\ InitPowersLast /\ DacQuietWhenOff /\ CaptureWhole /\ FieldsApart

\* The shell and the visualisation thread: a line ended by Enter is executed and
\* nothing behind it, the plugin runs exactly between start and stop with the
\* engines on, answers meet their sender, and at the prompt a file is still open
\* only if closing it failed or perf was broken off (shell.c, bash.c).
ShellInv == TypeOK /\ LineEnds /\ PaintsLiveData /\ PromptQuiet /\ AnswersSender /\ HandleClosed

\* Headers and RTL mean the same register, bit and line in every access of every
\* driver, and the WAV header is fetched only when it is there, unless a file
\* ends meanwhile (system.h, the reg maps, prsr.c, wav_prsr.v).
RegistersAgree == AccessLands /\ FlagsAgree /\ IrqReachesDriver /\ HeaderComplete

\* A name that is typed comes back in listings, and a listed name opens its file
\* (create_name, get_fileinfo).
NamesAgree == NameComesBack /\ ListedNameOpens

\* The options of FatFs this build leaves out: what f_mkfs and f_fdisk make
\* mounts as what they meant, and the table of open files is exact (f_mkfs,
\* f_fdisk, inc_lock, dec_lock).
OptionsSound == FormatMounts /\ MountTrue /\ PartitionsApart /\ SharingHolds /\ LocksExact
=============================================================================
