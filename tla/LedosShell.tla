----------------------------- MODULE LedosShell -----------------------------
(***************************************************************************)
(* The shell of LEDOS (shell.c, bash.c) and the visualisation thread it    *)
(* starts and stops: the line editor, the tokeniser, the commands as the   *)
(* file-system and kernel calls they make, and the rendezvous over         *)
(* synchronous messages between cmd_drop_acid and acid_thread.             *)
(* A character is a letter or a space, or a NUL; the words are the       *)
(* commands and plugins, one letter each.  The kernel's part is what       *)
(* module ChSync shows of it: a sender sleeps in the receiver's queue until*)
(* it is released, and a ready thread of higher priority runs first.       *)
(***************************************************************************)
EXTENDS Naturals, Sequences, FiniteSets, LedosCodec

CONSTANTS LineLen,   \* SHELL_MAX_LINE_LENGTH, 64
          MaxArgs,   \* SHELL_MAX_ARGUMENTS, 4
          MaxKeys,   \* bound: keys the user presses
          MaxReads   \* bound: chunks of a file, entries of a directory

VARIABLES sh,     \* the shell thread
          line,   \* its line buffer
          fil,    \* bash_Fil, bash_dir: what they stand for
          acid,   \* the visualisation thread
          msgq,   \* senders queued at the visualisation thread
          keys    \* keys pressed so far

shellVars == <<sh, line, fil, acid, msgq, keys>>

ASSUME ShellConstants == /\ LineLen \in Nat \ {0} /\ MaxArgs \in Nat
                         /\ MaxKeys \in Nat /\ MaxReads \in Nat

Nul == "nul"
Space == " "
\* "d" is drop_acid and "s" the plugin sunshine; "f" stands for the other
\* commands, "x" and longer words are known to nobody.
Letters == {"d", "f", "s"}
Chars == Letters \cup {Space, Nul}
\* Commands of the shell itself: they print, or refuse an argument.
LocalCmds == {"info", "systime", "help"}
FileCmds == {"mem", "touch", "mv", "cd", "pwd", "ll", "cat", "perf"} \cup LocalCmds

-----------------------------------------------------------------------------
(* _strtok: the words of the buffer up to its first NUL, and the buffer     *)
(* with the space behind every word it has returned overwritten.            *)

End == CHOOSE i \in 0 .. LineLen : /\ i = LineLen \/ line[i] = Nul
                                   /\ \A j \in 0 .. (i - 1) : line[j] # Nul
Starts == {i \in 0 .. (End - 1) : line[i] # Space /\ (i = 0 \/ line[i - 1] = Space)}
WordEnd(i) == CHOOSE j \in (i + 1) .. End : /\ j = End \/ line[j] = Space
                                            /\ \A k \in i .. (j - 1) : line[k] # Space
WordAt(i) == IF WordEnd(i) = i + 1 THEN line[i] ELSE "x"

\* The words in order; at most the command, its arguments and the one that is
\* too many are taken.
Taken == {i \in Starts : Cardinality({j \in Starts : j < i}) <= MaxArgs + 1}
Word(n) == LET S == {i \in Taken : Cardinality({j \in Taken : j < i}) = n - 1}
           IN  WordAt(CHOOSE i \in S : TRUE)
NWords == Cardinality(Taken)
Cut == [j \in DOMAIN line |-> IF \E i \in Taken : j = WordEnd(i) THEN Nul ELSE line[j]]

-----------------------------------------------------------------------------
\* The buffer is an automatic array: it begins with what is on the stack.
ShellInit ==
    /\ sh = [pc |-> "off", p |-> 0, cmd |-> "none", argc |-> 0, arg |-> "none",
             reads |-> 0, i |-> 0, eof |-> FALSE]
    /\ line \in [0 .. (LineLen - 1) -> Chars]
    /\ fil = [file |-> FALSE, dir |-> FALSE, kept |-> FALSE]
    /\ acid = [pc |-> "off", known |-> FALSE, plugin |-> "none"]
    /\ msgq = <<>> /\ keys = 0

\* The visualisation thread has the higher priority: the shell runs while it
\* waits for a message or sleeps.
AcidWaits == acid.pc \in {"off", "sleep"} \/ (acid.pc \in {"wait1", "wait2"} /\ msgq = <<>>)
ShellRuns == AcidWaits

At_(p) == sh.pc = p /\ ShellRuns
Goto(p) == sh' = [sh EXCEPT !.pc = p]

\* The threads as they are created, ready to run.
acidThreadCreateStatic(a) == [a EXCEPT !.pc = "start"]
shellCreateStatic(s) == [s EXCEPT !.pc = "prompt"]

\* The plugins, and the choice of one by name; an unknown name changes nothing.
acid_box == {"s"}
update_acid(name) == [acid EXCEPT !.plugin = IF name \in acid_box THEN name ELSE @]

\* The rest of init_ledos: the default plugin, then the two threads.  The
\* visualisation thread preempts its creator and stores acid_tp at once.
StartThreads ==
    /\ Idle /\ drv.calls = 0 /\ sh.pc = "off" /\ acid.pc = "off"
    /\ acid' = acidThreadCreateStatic(update_acid("s"))
    /\ sh' = shellCreateStatic(sh)
    /\ UNCHANGED <<line, fil, msgq, keys, audioVars>>

-----------------------------------------------------------------------------
(* shellGetLine.                                                            *)

Prompt == At_("prompt") /\ sh' = [sh EXCEPT !.pc = "getc", !.p = 0] /\ UNCHANGED <<line, fil, acid, msgq, keys, audioVars>>

Press == keys < MaxKeys /\ keys' = keys + 1

Fits == sh.p < LineLen - 1

Type(c) == /\ At_("getc") /\ Press
           /\ IF Fits
              THEN /\ line' = [line EXCEPT ![sh.p] = c]
                   /\ sh' = [sh EXCEPT !.p = @ + 1]
              ELSE UNCHANGED <<line, sh>>
           /\ UNCHANGED <<fil, acid, msgq, audioVars>>

Backspace == /\ At_("getc") /\ Press /\ sh.p > 0
             /\ sh' = [sh EXCEPT !.p = @ - 1]
             /\ UNCHANGED <<line, fil, acid, msgq, audioVars>>

Enter == /\ At_("getc") /\ Press
         /\ line' = [line EXCEPT ![sh.p] = Nul]
         /\ sh' = [sh EXCEPT !.pc = "parse", !.eof = FALSE]
         /\ UNCHANGED <<fil, acid, msgq, audioVars>>

\* Control-D, or no more input: the line ends without its NUL, and the shell
\* goes on with whatever the buffer holds.
CtrlD == /\ At_("getc") /\ Press
         /\ sh' = [sh EXCEPT !.pc = "parse", !.eof = TRUE]
         /\ UNCHANGED <<line, fil, acid, msgq, audioVars>>

-----------------------------------------------------------------------------
(* shell_thread: the words, then the command.                               *)

TooMany == NWords > MaxArgs + 1
Ended == \E i \in DOMAIN line : line[i] = Nul

\* No NUL in the buffer: strpbrk reads on behind it, and _strtok may write there.
\* What the shell does from here on is undefined; the model stops it.
Overrun == /\ At_("parse") /\ ~Ended
           /\ Goto("overrun")
           /\ UNCHANGED <<line, fil, acid, msgq, keys, audioVars>>

Parse ==
    /\ At_("parse") /\ Ended
    /\ line' = Cut
    /\ sh' = IF NWords = 0 \/ TooMany THEN [sh EXCEPT !.pc = "pause"]
             ELSE [sh EXCEPT !.pc = "exec", !.cmd = Word(1), !.argc = NWords - 1,
                             !.arg = IF NWords > 1 THEN Word(2) ELSE "none",
                             !.i = 0, !.reads = 0]
    /\ UNCHANGED <<fil, acid, msgq, keys, audioVars>>

\* chThdSleepMilliseconds(100) between two lines.
Pause == At_("pause") /\ Goto("prompt") /\ UNCHANGED <<line, fil, acid, msgq, keys, audioVars>>

\* cmdexec: unknown words are reported, a wrong number of arguments prints the
\* usage; either way nothing else happens.
ExecNothing ==
    /\ At_("exec")
    /\ sh.cmd # "d"
    /\ Goto("pause")
    /\ UNCHANGED <<line, fil, acid, msgq, keys, audioVars>>

First == [mem |-> "pause", info |-> "pause", systime |-> "pause", help |-> "pause", touch |-> "create",
          mv |-> "rename", cd |-> "chdir", pwd |-> "getcwd", ll |-> "llcwd",
          cat |-> "open", perf |-> "popen"]
Argc == [mem |-> 0, info |-> 0, systime |-> 0, help |-> 0, touch |-> 1, mv |-> 2, cd |-> 1, pwd |-> 0,
         ll |-> 0, cat |-> 1, perf |-> 1]

ExecFile(c) ==
    /\ At_("exec") /\ sh.cmd = "f" /\ sh.argc = Argc[c]
    /\ sh' = [sh EXCEPT !.pc = First[c], !.cmd = c, !.i = 1, !.reads = 0]
    /\ UNCHANGED <<line, fil, acid, msgq, keys, audioVars>>

-----------------------------------------------------------------------------
(* The file commands: one call of FatFs after the other (module FatFs), each *)
(* with a result.  An error is printed; what it changes is which call comes  *)
(* next.                                                                     *)

\* Calls that use the file object or the directory object of an earlier call.
OnFile == {"read", "close", "pread", "pclose"}
Looping == {"read", "readdir", "pread"}
Calls_ == {"rename", "chdir", "getcwd", "create", "open", "llcwd", "opendir", "readdir", "popen"} \cup OnFile

\* cat reads until an error or the end of the file, and closes it either way.
AfterRead(ok, more) == IF ok /\ more THEN "read" ELSE "close"

\* A failed f_open or f_opendir does not end touch, cat and ll; the three rounds
\* of perf end at the first failure, or empty read, without closing the file.
After(pc, ok, more) ==
    CASE pc \in {"rename", "chdir", "getcwd", "close"} -> "pause"
      [] pc = "create"  -> "close"
      [] pc = "open"    -> "read"
      [] pc = "read"    -> AfterRead(ok, more)
      [] pc = "llcwd"   -> IF ok THEN "opendir" ELSE "pause"
      [] pc = "opendir" -> "readdir"
      [] pc = "readdir" -> IF ok /\ more THEN "readdir" ELSE "pause"
      [] pc = "popen"   -> IF ok THEN "pread" ELSE "pause"
      [] pc = "pread"   -> IF ok /\ more THEN "pclose" ELSE "pause"
      [] pc = "pclose"  -> IF ok /\ sh.i < 3 THEN "popen" ELSE "pause"

\* f_open clears the object before anything else; an object that is not open is
\* refused.  A failed f_opendir leaves the volume and identifier of the
\* directory opened before in the object, which then is not refused.
FatCall(ok, more) ==
    /\ sh.pc \in Calls_ /\ ShellRuns
    /\ sh.pc \in OnFile /\ ~fil.file => ~ok
    /\ sh.pc = "readdir" /\ ~fil.dir => ~ok
    /\ more => sh.pc \in Looping /\ sh.reads < MaxReads
    /\ sh' = [sh EXCEPT !.pc = After(sh.pc, ok, more),
                        !.reads = IF more THEN @ + 1 ELSE IF sh.pc = "pclose" THEN 0 ELSE @,
                        !.i = IF sh.pc = "pclose" THEN @ + 1 ELSE @]
    /\ fil' = [file |-> CASE sh.pc \in {"create", "open", "popen"} -> ok
                          [] sh.pc \in {"close", "pclose"} -> fil.file /\ ~ok
                          [] OTHER -> fil.file,
               dir |-> fil.dir \/ (sh.pc = "opendir" /\ ok),
               kept |-> CASE sh.pc \in {"create", "open", "popen"} -> FALSE
                          [] sh.pc \in {"close", "pclose"} \/ (sh.pc = "pread" /\ ~(ok /\ more)) -> TRUE
                          [] OTHER -> fil.kept]
    /\ UNCHANGED <<line, acid, msgq, keys, audioVars>>

-----------------------------------------------------------------------------
(* cmd_drop_acid.                                                           *)

\* argv[0] is compared with "--help" even when it is a null pointer: what lies
\* at address 0 decides.
DropUsage == /\ At_("exec") /\ sh.cmd = "d" /\ sh.argc # 1
             /\ Goto("pause")
             /\ UNCHANGED <<line, fil, acid, msgq, keys, audioVars>>

\* A plugin by name, or the present one; then the engines.
DropStart ==
    /\ At_("exec") /\ sh.cmd = "d" /\ sh.argc <= 1
    /\ acid' = IF sh.argc = 1 THEN update_acid(sh.arg) ELSE acid
    /\ IF sh.argc = 1 /\ sh.arg \notin acid_box
       THEN Goto("pause") /\ UNCHANGED regs
       ELSE /\ regs' = [regs EXCEPT !.fg_l = 1, !.fg_r = 1, !.adc = 1]
            /\ Goto(IF acid.known THEN "send1" ELSE "pause")
    /\ UNCHANGED <<line, fil, msgq, keys, shadow, dev, i2c, cap, drv, hist>>

\* chMsgSend: queue at the receiver and sleep until released.
Send == /\ sh.pc \in {"send1", "send2"} /\ ShellRuns
        /\ msgq' = Append(msgq, "shell")
        /\ Goto(IF sh.pc = "send1" THEN "sent1" ELSE "sent2")
        /\ UNCHANGED <<line, fil, acid, keys, audioVars>>

EnginesOff == [regs EXCEPT !.fg_l = 0, !.fg_r = 0, !.adc = 0]

\* Mutant: the engines are switched off before the plugin is told to stop.
PlayKey_off(q) == /\ At_("play") /\ Press
                  /\ Goto(IF q THEN "send2" ELSE "play")
                  /\ regs' = IF q THEN EnginesOff ELSE regs
                  /\ UNCHANGED <<line, fil, acid, msgq, shadow, dev, i2c, cap, drv, hist>>

\* 'q' stops the plugin, any other key is ignored.
PlayKey(q) == /\ At_("play") /\ Press
              /\ Goto(IF q THEN "send2" ELSE "play")
              /\ UNCHANGED <<line, fil, acid, msgq, audioVars>>

DropEnd == /\ At_("stopped")
           /\ regs' = EnginesOff
           /\ Goto("pause")
           /\ UNCHANGED <<line, fil, acid, msgq, keys, shadow, dev, i2c, cap, drv, hist>>

-----------------------------------------------------------------------------
(* acid_thread.                                                             *)

AcidStart == /\ acid.pc = "start"
             /\ acid' = [acid EXCEPT !.pc = "wait1", !.known = TRUE]
             /\ UNCHANGED <<sh, line, fil, msgq, keys, audioVars>>

\* chMsgWait takes the first sender off the queue, or waits for one.
AcidWait == /\ acid.pc \in {"wait1", "wait2"} /\ msgq # <<>>
            /\ msgq' = Tail(msgq)
            /\ acid' = [acid EXCEPT !.pc = IF @ = "wait1" THEN "rel1" ELSE "rel2"]
            /\ UNCHANGED <<sh, line, fil, keys, audioVars>>

\* chMsgRelease wakes bash_tp, the shell, wherever it sleeps.
AcidRelease ==
    /\ acid.pc \in {"rel1", "rel2"}
    /\ acid' = [acid EXCEPT !.pc = IF @ = "rel1" THEN "check" ELSE "wait1"]
    /\ Goto(CASE sh.pc = "sent1" -> "play" [] sh.pc = "sent2" -> "stopped" [] OTHER -> sh.pc)
    /\ UNCHANGED <<line, fil, msgq, keys, audioVars>>

\* The stop message is taken by the second chMsgWait.
AfterStop == "wait2"

\* Mutant: the queue is not looked at.
Pending_never == FALSE
Pending == msgq # <<>>

\* chMsgIsPendingI, then one picture and a millisecond of sleep.
AcidCheck == /\ acid.pc = "check"
             /\ acid' = [acid EXCEPT !.pc = IF Pending THEN AfterStop ELSE "paint"]
             /\ UNCHANGED <<sh, line, fil, msgq, keys, audioVars>>

AcidPaint == /\ acid.pc = "paint"
             /\ acid' = [acid EXCEPT !.pc = "sleep"]
             /\ UNCHANGED <<sh, line, fil, msgq, keys, audioVars>>

AcidWake == /\ acid.pc = "sleep"
            /\ acid' = [acid EXCEPT !.pc = "check"]
            /\ UNCHANGED <<sh, line, fil, msgq, keys, audioVars>>

AcidStep == AcidStart \/ AcidWait \/ AcidRelease \/ AcidCheck \/ AcidPaint

ShellStep == \/ Prompt \/ Parse \/ Overrun \/ Pause \/ ExecNothing \/ DropUsage \/ DropStart \/ Send \/ DropEnd
             \/ \E c \in FileCmds : ExecFile(c)
             \/ \E ok, more \in BOOLEAN : FatCall(ok, more)
Keyboard == \/ \E c \in Letters \cup {Space} : Type(c)
            \/ Backspace \/ Enter \/ CtrlD
            \/ \E q \in BOOLEAN : PlayKey(q)

-----------------------------------------------------------------------------
\* Type invariant of both parts: the registers keep to nine bits, the line, its
\* index and the argument count to their arrays, the threads to their steps.
TypeOK ==
    /\ shadow \in [Idx -> 0 .. 511] /\ dev \in [0 .. 9 -> 0 .. 511]
    /\ drv.pc \in {"step", "free", "done"} /\ drv.res \in {"OK", "NACK"}
    /\ line \in [0 .. (LineLen - 1) -> Chars]
    /\ sh.p \in 0 .. (LineLen - 1) /\ sh.argc \in 0 .. MaxArgs
    /\ acid.pc \in {"off", "start", "wait1", "rel1", "check", "paint", "sleep", "wait2", "rel2"}
    /\ acid.plugin \in acid_box \cup {"none"}
    /\ Len(msgq) <= 1 /\ keys \in 0 .. MaxKeys

\* Whatever the buffer held, and however much is typed and erased, a line that is
\* ended by Enter is executed up to its last character and nothing behind it: its
\* NUL is in the buffer (shellGetLine keeps the last place for it).  _strtok leaves
\* the buffer only after a line broken off with control-D, which puts no NUL.
LineEnds == /\ sh.pc = "parse" /\ ~sh.eof => Ended /\ End <= sh.p
            /\ sh.pc = "overrun" => sh.eof

\* A picture is painted only while both transform engines and the ADC run: the
\* start and the stop of the plugin are ordered with the engines through the
\* messages, whenever 'q' comes (cmd_drop_acid, acid_thread).
PaintsLiveData == acid.pc = "paint" => regs.fg_l = 1 /\ regs.fg_r = 1 /\ regs.adc = 1

\* At the prompt the plugin is stopped, waiting for its next start, and the
\* engines are off, even after a wrong plugin name or a repeated command.
PromptQuiet == sh.pc = "getc" => /\ acid.pc = "wait1" /\ msgq = <<>>
                                 /\ regs.fg_l = 0 /\ regs.fg_r = 0 /\ regs.adc = 0

\* The visualisation thread answers through the global bash_tp: when it does,
\* the shell sleeps in the matching send, the start in the first answer and the
\* stop in the second, and is no longer queued.
AnswersSender == /\ acid.pc = "rel1" => sh.pc = "sent1" /\ msgq = <<>>
                 /\ acid.pc = "rel2" => sh.pc = "sent2" /\ msgq = <<>>

\* At the prompt no file is open, unless closing it failed or perf was broken
\* off by an error: a read error in the middle of cat closes it all the same.
HandleClosed == sh.pc = "getc" /\ fil.file => fil.kept

\* No rendezvous hangs: a plugin that is started does run, and one that is
\* stopped with 'q' stops and the shell comes back, however the millisecond
\* sleeps fall (the two pairs of chMsgSend and chMsgWait, chMsgRelease).
DropReturns == sh.pc \in {"send1", "sent1", "send2", "sent2", "stopped"} ~> sh.pc \in {"play", "getc"}
=============================================================================
