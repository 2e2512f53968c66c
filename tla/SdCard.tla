------------------------------- MODULE SdCard -------------------------------
(***************************************************************************)
(* The disk driver of LEDOS (fatfs/diskio.c): an SD or MMC card on the SPI *)
(* port.  A step is one command with its answer, or one data block.  The   *)
(* card can be pulled and another one plugged between any two steps; it is *)
(* modelled from what the driver sends it.  drv is always 0 (_VOLUMES = 1).*)
(***************************************************************************)
EXTENDS Integers, Sequences, FiniteSets

CONSTANTS Cards,        \* the cards that can be in the slot
          Kind,         \* Kind[k] \in {"MMC", "SD1", "SD2", "SDHC"}
          CSD,          \* CSD[k]: the fields of the card specific data register
          InitTries,    \* polls of ACMD41 and CMD1 before giving up; 1000 in the code
          MaxFaults     \* commands and blocks that go wrong in a behaviour

ASSUME CardAssumption ==
  /\ \A k \in Cards : Kind[k] \in {"MMC", "SD1", "SD2", "SDHC"}
  /\ InitTries \in Nat \ {0} /\ MaxFaults \in Nat

VARIABLES slot,         \* the card in the slot, with its own state, or NoCard
          shelf,        \* contents of every card that is not in the slot
          faults,       \* faults still to come
          Stat, CardType,
          io            \* the disk_* call in progress and its progress

sdVars == <<slot, shelf, faults, Stat, CardType, io>>

NOINIT == "STA_NOINIT"
Blank == [t |-> "blank"]
Stop == [t |-> "stop"]
NoCard == [id |-> 0]
Fresh(k, mem) == [id |-> k, mode |-> "native", xfer |-> "none", blk |-> 0, prog |-> <<>>, mem |-> mem]
At(mem, s) == IF s \in DOMAIN mem THEN mem[s] ELSE Blank
Store(mem, s, x) == [q \in DOMAIN mem \cup {s} |-> IF q = s THEN x ELSE mem[q]]

-----------------------------------------------------------------------------
(* The card.  CSD[k] = [v, c_size, mult, bl_len]: version and size fields. *)

BlockAddressed(k) == Kind[k] = "SDHC"
IsSD(k) == Kind[k] # "MMC"
Capacity(k) == IF CSD[k].v = 1 THEN (CSD[k].c_size + 1) * 1024
               ELSE (CSD[k].c_size + 1) * 2 ^ (CSD[k].mult + 2) * (2 ^ CSD[k].bl_len \div 512)

\* The sector an address names, or -1: byte addresses must be aligned.
Block(k, arg) == IF BlockAddressed(k) THEN (IF arg < Capacity(k) THEN arg ELSE -1)
                 ELSE IF arg % 512 = 0 /\ arg \div 512 < Capacity(k) THEN arg \div 512 ELSE -1

Settled(c) == IF c.prog = <<>> THEN c
              ELSE [c EXCEPT !.prog = <<>>, !.mem = Store(@, c.prog[1], c.prog[2])]
Out(r, c, cost) == [r |-> r, c |-> c, cost |-> cost]

\* R1 of a card that hears the command: bit 0 idle, bit 2 illegal, bit 6 bad address.
Idle(c) == IF c.mode = "idle" THEN 1 ELSE 0
Obey(c, cmd, arg) ==
  LET same == {Out(Idle(c), c, 0)}
      illegal == {Out(Idle(c) + 4, c, 0)}
      polled == {Out(Idle(c), c, 0), Out(0, [c EXCEPT !.mode = "ready"], 0)}
      b == Block(c.id, arg)
      access(x) == IF b = -1 THEN {Out(64, c, 0)}
                   ELSE {Out(0, [c EXCEPT !.xfer = x, !.blk = b], 0)}
  IN CASE cmd = "CMD0" -> {Out(1, [c EXCEPT !.mode = "idle", !.xfer = "none"], 0)}
       [] c.mode = "native" -> {Out(255, c, 0)}
       [] cmd = "CMD8" -> IF Kind[c.id] \in {"SD2", "SDHC"} THEN same ELSE illegal
       [] cmd = "CMD55" -> IF IsSD(c.id) THEN same ELSE illegal
       [] cmd = "CMD41" -> IF BlockAddressed(c.id) /\ arg = 0 THEN same ELSE polled
       [] cmd = "CMD1" -> polled
       [] cmd = "CMD12" -> {Out(Idle(c), [c EXCEPT !.xfer = "none"], 0)}
       [] cmd \in {"CMD13", "CMD16", "CMD58", "CMD23"} -> same
       [] c.mode = "idle" -> illegal
       [] cmd = "CMD9" -> {Out(0, [c EXCEPT !.xfer = "csd"], 0)}
       [] cmd = "CMD17" -> access("read1")
       [] cmd = "CMD18" -> access("readN")
       [] cmd = "CMD24" -> access("write1")
       [] cmd = "CMD25" -> access("writeN")

-----------------------------------------------------------------------------
(* The SPI primitives: sets of outcomes [r, c, cost], cost 1 for a fault.  *)

\* xmit_mmc, rcvr_mmc and wait_on_spi move whole bytes; the empty slot reads 0xFF, which
\* wait_ready takes for a card that is ready.  A busy card may stay busy for too long.
wait_ready(c) ==
  IF c = NoCard THEN {Out(1, c, 0)}
  ELSE {Out(1, Settled(c), 0)} \cup (IF c.prog = <<>> THEN {} ELSE {Out(0, c, 1)})

\* deselect and select around one command; 255 when the card never answers.  A card that
\* waits for the next block of a write, or still sends the blocks of a read whose CMD12 it
\* missed, may take the command (and end the transfer) or take no notice of it.
send_one(c, cmd, arg) ==
  UNION {IF w.r = 0 THEN {Out(255, w.c, w.cost)}
         ELSE IF c = NoCard THEN {Out(255, c, 0)}
         ELSE LET heard == Obey([w.c EXCEPT !.xfer = IF cmd = "CMD12" THEN @ ELSE "none"], cmd, arg)
              IN (IF w.c.xfer = "writeN" \/ (w.c.xfer = "readN" /\ cmd # "CMD12") THEN heard \cup {Out(255, w.c, 0)} ELSE heard)
                 \cup {Out(255, w.c, 1)}
         : w \in wait_ready(c)}

Acmd(cmd) == cmd \in {"ACMD41", "ACMD23"}
Plain(cmd) == CASE cmd = "ACMD41" -> "CMD41" [] cmd = "ACMD23" -> "CMD23" [] OTHER -> cmd
send_cmd(c, cmd, arg) ==
  IF ~ Acmd(cmd) THEN send_one(c, cmd, arg)
  ELSE UNION {IF o.r > 1 THEN {o}
              ELSE {[p EXCEPT !.cost = @ + o.cost] : p \in send_one(o.c, Plain(cmd), arg)}
              : o \in send_one(c, "CMD55", 0)}

\* The start token and the block: r is 1 with the data, or 0 and the buffer is left alone.
rcvr_datablock(c) ==
  LET none == [r |-> 0, c |-> c, cost |-> 0, data |-> Blank]
      got(x, d) == {[r |-> 1, c |-> x, cost |-> 0, data |-> d], [none EXCEPT !.cost = 1]}
  IN IF c = NoCard THEN {none}
     ELSE CASE c.xfer = "csd" -> got([c EXCEPT !.xfer = "none"], CSD[c.id])
            [] c.xfer = "read1" -> got([c EXCEPT !.xfer = "none"], At(c.mem, c.blk))
            [] c.xfer = "readN" /\ c.blk < Capacity(c.id)
               -> got([c EXCEPT !.blk = @ + 1], At(c.mem, c.blk))
            [] OTHER -> {none}

\* Token, block and data response; Stop is the token 0xFD, which nobody acknowledges.
xmit_datablock(c, data) ==
  UNION {IF w.r = 0 THEN {w}
         ELSE IF w.c = NoCard THEN {[w EXCEPT !.r = IF data = Stop THEN 1 ELSE 0]}
         ELSE IF data = Stop THEN {[w EXCEPT !.c.xfer = "none"]}
         ELSE IF w.c.xfer \notin {"write1", "writeN"} \/ w.c.blk >= Capacity(w.c.id) THEN {[w EXCEPT !.r = 0]}
         ELSE {[w EXCEPT !.c.prog = <<w.c.blk, data>>,
                         !.c.blk = @ + 1,
                         !.c.xfer = IF @ = "write1" THEN "none" ELSE @],
               [w EXCEPT !.r = 0, !.cost = @ + 1]}
         : w \in wait_ready(c)}

-----------------------------------------------------------------------------
(* The disk_* calls.                                                       *)

NoCall == [fn |-> "none", pc |-> "ret", sector |-> 0, count |-> 0, buf |-> <<>>, k |-> 0, ty |-> "", res |-> ""]
SdInit == /\ slot = NoCard /\ faults = MaxFaults
          /\ Stat = NOINIT /\ CardType = "none" /\ io = NoCall

Returned == io.pc = "ret"
Return(i, r) == [i EXCEPT !.pc = "ret", !.res = r]

\* What a caller passes; buf is the data to write, and the data read comes back in it.
Request(fn, s, n, data) ==
  [NoCall EXCEPT !.fn = fn, !.sector = s, !.count = n, !.buf = data,
                 !.pc = IF fn = "disk_initialize" THEN "cmd0" ELSE "status"]

Spend(o) == o.cost <= faults /\ faults' = faults - o.cost /\ slot' = o.c
Multi == io.count > 1

AfterStatus(s) ==
  CASE io.fn = "disk_status" -> Return(io, s)
    [] s = NOINIT -> Return(io, "RES_NOTRDY")
    [] io.fn = "disk_write" /\ Multi /\ CardType \in {"SD1", "SD2", "SD2_BLOCK"} -> [io EXCEPT !.pc = "acmd23"]
    [] io.fn = "GET_BLOCK_SIZE" -> Return([io EXCEPT !.buf = <<128>>], "RES_OK")
    [] OTHER -> [io EXCEPT !.pc = "cmd"]

disk_status ==
  /\ io.pc = "status"
  /\ IF Stat = NOINIT THEN io' = AfterStatus(Stat) /\ UNCHANGED <<slot, faults, Stat>>
     ELSE \E o \in send_cmd(slot, "CMD13", 0) :
            /\ Spend(o)
            /\ Stat' = IF o.r # 0 THEN NOINIT ELSE Stat
            /\ io' = AfterStatus(Stat')
  /\ UNCHANGED <<shelf, CardType>>

\* The type found, or none; the last deselect changes nothing here.
Identified(ty) == /\ CardType' = ty
                  /\ Stat' = IF ty = "none" THEN NOINIT ELSE "0"
                  /\ io' = Return(io, Stat')

\* Mutant: the tries are not counted.
Again_forever == UNCHANGED <<io, Stat, CardType>>

\* The two polling loops: after the last try the card is given up.
Again == IF io.k = 1 THEN Identified("none")
         ELSE io' = [io EXCEPT !.k = @ - 1] /\ UNCHANGED <<Stat, CardType>>

InitCmd == CASE io.pc = "cmd0" -> "CMD0" [] io.pc = "cmd8" -> "CMD8" [] io.pc = "cmd16" -> "CMD16"
             [] io.pc = "cmd58" -> "CMD58"
             [] io.pc \in {"hcs", "probe"} -> "ACMD41"
             [] io.pc = "poll" -> IF io.ty = "MMC" THEN "CMD1" ELSE "ACMD41"

\* A card that answers CMD8 echoes its argument 0x1AA, unless the supply does not suit it
\* or the four bytes arrive wrong: then no type is tried and the card is given up.
disk_initialize ==
  /\ io.fn = "disk_initialize" /\ ~ Returned
  /\ \E o \in send_cmd(slot, InitCmd, IF io.pc = "hcs" THEN 2 ^ 30 ELSE 0), bad \in 0 .. 1 :
       LET goto(p) == io' = [io EXCEPT !.pc = p, !.k = InitTries] /\ UNCHANGED <<Stat, CardType>>
       IN /\ bad = 1 => io.pc = "cmd8" /\ o.r = 1
          /\ Spend([o EXCEPT !.cost = @ + bad])
          /\ CASE io.pc = "cmd0" -> IF o.r = 1 THEN goto("cmd8") ELSE Identified("none")
               [] io.pc = "cmd8" -> IF bad = 1 THEN Identified("none")
                                    ELSE goto(IF o.r = 1 THEN "hcs" ELSE "probe")
               [] io.pc = "hcs" -> IF o.r = 0 THEN goto("cmd58") ELSE Again
               [] io.pc = "cmd58" -> Identified(IF o.r # 0 THEN "none"
                                                ELSE IF BlockAddressed(o.c.id) THEN "SD2_BLOCK" ELSE "SD2")
               [] io.pc = "probe" -> /\ io' = [io EXCEPT !.pc = "poll", !.k = InitTries,
                                                         !.ty = IF o.r <= 1 THEN "SD1" ELSE "MMC"]
                                     /\ UNCHANGED <<Stat, CardType>>
               [] io.pc = "poll" -> IF o.r = 0 THEN goto("cmd16") ELSE Again
               [] io.pc = "cmd16" -> Identified(IF o.r # 0 THEN "none" ELSE io.ty)
  /\ UNCHANGED shelf

\* The argument of a data command: a byte address unless the card counts in blocks.
Address(s) == IF CardType = "SD2_BLOCK" THEN s ELSE s * 512
Failed(i) == Return(i, "RES_ERROR")

disk_read ==
  /\ io.fn = "disk_read" /\ io.pc \in {"cmd", "data", "stop"}
  /\ CASE io.pc = "cmd" ->
          \E o \in send_cmd(slot, IF Multi THEN "CMD18" ELSE "CMD17", Address(io.sector)) :
            /\ Spend(o)
            /\ io' = IF o.r # 0 THEN Failed(io) ELSE [io EXCEPT !.pc = "data", !.k = io.count, !.buf = <<>>]
       [] io.pc = "data" ->
          \E o \in rcvr_datablock(slot) :
            LET i == IF o.r = 1 THEN [io EXCEPT !.k = @ - 1, !.buf = Append(@, o.data)] ELSE io
            IN /\ Spend(o)
               /\ io' = IF Multi THEN (IF o.r = 1 /\ i.k > 0 THEN i ELSE [i EXCEPT !.pc = "stop"])
                        ELSE IF o.r = 1 THEN Return(i, "RES_OK") ELSE Failed(i)
       [] io.pc = "stop" ->
          \E o \in send_cmd(slot, "CMD12", 0) :          \* the answer is not looked at
            /\ Spend(o)
            /\ io' = IF io.k > 0 THEN Failed(io) ELSE Return(io, "RES_OK")
  /\ UNCHANGED <<shelf, Stat, CardType>>

disk_write ==
  /\ io.fn = "disk_write" /\ io.pc \in {"acmd23", "cmd", "data", "stop"}
  /\ CASE io.pc = "acmd23" ->
          \E o \in send_cmd(slot, "ACMD23", io.count) : Spend(o) /\ io' = [io EXCEPT !.pc = "cmd"]
       [] io.pc = "cmd" ->
          \E o \in send_cmd(slot, IF Multi THEN "CMD25" ELSE "CMD24", Address(io.sector)) :
            /\ Spend(o)
            /\ io' = IF o.r # 0 THEN Failed(io) ELSE [io EXCEPT !.pc = "data", !.k = io.count]
       [] io.pc = "data" ->
          \E o \in xmit_datablock(slot, io.buf[io.count - io.k + 1]) :
            LET i == IF o.r = 1 THEN [io EXCEPT !.k = @ - 1] ELSE io
            IN /\ Spend(o)
               /\ io' = IF Multi THEN (IF o.r = 1 /\ i.k > 0 THEN i ELSE [i EXCEPT !.pc = "stop"])
                        ELSE IF o.r = 1 THEN Return(i, "RES_OK") ELSE Failed(i)
       [] io.pc = "stop" ->
          \E o \in xmit_datablock(slot, Stop) :
            Spend(o) /\ io' = IF o.r = 0 \/ io.k > 0 THEN Failed(io) ELSE Return(io, "RES_OK")
  /\ UNCHANGED <<shelf, Stat, CardType>>

\* GET_SECTOR_COUNT reads the size from the CSD fields; version 1 has 16 bits of c_size.
SectorCount(csd) ==
  IF csd.v = 1 THEN (((csd.c_size % 65536) + 1) % 65536) * 1024
  ELSE ((csd.c_size + 1) % 65536) * 2 ^ (csd.bl_len + csd.mult + 2 - 9)

disk_ioctl ==
  /\ io.fn \in {"CTRL_SYNC", "GET_SECTOR_COUNT"} /\ io.pc \in {"cmd", "data"}
  /\ CASE io.fn = "CTRL_SYNC" ->
          \E o \in wait_ready(slot) :
            Spend(o) /\ io' = IF o.r = 1 THEN Return(io, "RES_OK") ELSE Failed(io)
       [] io.pc = "cmd" ->
          \E o \in send_cmd(slot, "CMD9", 0) :
            Spend(o) /\ io' = IF o.r # 0 THEN Failed(io) ELSE [io EXCEPT !.pc = "data"]
       [] OTHER ->
          \E o \in rcvr_datablock(slot) :
            /\ Spend(o)
            /\ io' = IF o.r = 0 THEN Failed(io)
                     ELSE Return([io EXCEPT !.buf = <<SectorCount(o.data)>>], "RES_OK")
  /\ UNCHANGED <<shelf, Stat, CardType>>

-----------------------------------------------------------------------------
(* The user.  A card pulled while it programs a block may lose that block. *)

Pull == /\ slot # NoCard
        /\ \E m \in {slot.mem, Settled(slot).mem} : shelf' = [shelf EXCEPT ![slot.id] = m]
        /\ slot' = NoCard
        /\ UNCHANGED <<faults, Stat, CardType, io>>

Plug(k) == /\ slot = NoCard
           /\ slot' = Fresh(k, shelf[k])
           /\ UNCHANGED <<shelf, faults, Stat, CardType, io>>

DiskStep == disk_status \/ disk_initialize \/ disk_read \/ disk_write \/ disk_ioctl
=============================================================================
