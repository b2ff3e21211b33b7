------------------------------- MODULE Meter -------------------------------
(***************************************************************************)
(* The task that works the CS5463 metering chip, app/user/cs5463.c, down   *)
(* to the edges it drives on the pins (app/driver/gpio.c).  The task is a  *)
(* list of transfers; a transfer selects the chip, clocks bits out and in, *)
(* and deselects it.  Callbacks and the HTTP task preempt the cs5463 task  *)
(* between any two bits and read the bytes it is filling.                  *)
(*                                                                         *)
(* The chip is external: it takes a bit at each rising edge while it is    *)
(* selected, gives one at each falling edge, and sets DRDY at the end of a *)
(* conversion or of a calibration.                                         *)
(***************************************************************************)
EXTENDS Integers, Sequences, FiniteSets

CONSTANTS
    None,
    IRMS, PACTIVE,   \* the words the chip may measure for I_RMS and for P_ACTIVE
    THRESHOLD,       \* fCurrentThreshold as a word of the chip
    POLLS,           \* polls of waitDataReady, 50 in the code
    EARLY,           \* bound: stages read too early
    Calib,           \* register of a stage -> the word saved in flash for it
    Result           \* register of a stage -> the word its calibration measures

(* CS5463_CMD_t: a register's number; read is 2 * n, write is 64 + 2 * n. *)
DC_I_OFFSET == 1     I_GAIN == 2          DC_V_OFFSET == 3    V_GAIN == 4
CYCLE_COUNT == 5     PULSE_RATE == 6      P_ACTIVE == 10      I_RMS == 11
V_RMS == 12          STATUS == 15         AC_I_OFFSET == 16   AC_V_OFFSET == 17
MODE == 18           T == 19              MASK == 26          CTRL == 28
CONFIG == 0
RD(reg) == 2 * reg
WR(reg) == 64 + 2 * reg
POWER_UP_HALT == 160    START_CNTN_CNVS == 232    SYNC_0 == 254    SYNC_1 == 255
STARTS == { 201, 205, 206, 209, 213, 214 }    \* CS5463_CMD_START_..._CALIB

Registers == { CONFIG, DC_I_OFFSET, I_GAIN, DC_V_OFFSET, V_GAIN, CYCLE_COUNT, PULSE_RATE,
               P_ACTIVE, I_RMS, V_RMS, STATUS, AC_I_OFFSET, AC_V_OFFSET, MODE, T, MASK, CTRL }

(* Those that a calibration measures. *)
CalibRegisters == { DC_I_OFFSET, I_GAIN, DC_V_OFFSET, V_GAIN, AC_I_OFFSET, AC_V_OFFSET }

Words == {w \in Nat : w < 16777216}    \* 24 bits

ASSUME MeterAssumption ==
    /\ IRMS \subseteq Words /\ PACTIVE \subseteq Words /\ THRESHOLD \in Words
    /\ Calib \in [CalibRegisters -> Words] /\ Result \in [CalibRegisters -> Words]
    /\ None \notin Registers
    /\ POLLS \in Nat \ {0} /\ EARLY \in Nat

Bit(word, i)    == (word \div 2^i) % 2
Bytes(word)     == <<word \div 65536, (word \div 256) % 256, word % 256>>
Word(bytes)     == bytes[1] * 65536 + bytes[2] * 256 + bytes[3]
WordBits(word)  == [k \in 1..24 |-> Bit(word, 24 - k)]
DRDY == 2^23

(* From the bits, the first bit highest. *)
Byte(bits) == bits[1] * 128 + bits[2] * 64 + bits[3] * 32 + bits[4] * 16
                  + bits[5] * 8 + bits[6] * 4 + bits[7] * 2 + bits[8]
Decoded(bits) == Word([b \in 1..3 |-> Byte([k \in 1..8 |-> bits[8 * b - 8 + k]])])

VARIABLES
    pins,     \* the GPIO registers
    mode,     \* what CS5463_Manager runs: CS5463IF_Calib or CS5463IF_Routine
    step,     \* the transfer of Program[mode] the task is at
    bus,      \* how far that transfer is
    polls,    \* polls left of waitDataReady
    mem,      \* the bytes read: unCS5463_I_RMS, unCS5463_P_Active, unPara
    saved,    \* the calibration in tSmartSocketParameter
    plugStatus,   \* the relay, as user_plug_set_status left it
    chip      \* the CS5463

(* History. *)
VARIABLES
    last,     \* the last word of I_RMS read to its end
    incoming, \* the word of I_RMS the chip answered last
    early     \* DRDY was set between clearDRDY and the halt behind it

cs5463 == <<mode, step, bus, polls, mem, saved>>
metervars == <<pins, cs5463, plugStatus, chip, last, incoming, early>>

-----------------------------------------------------------------------------
(* gpio.c *)
Pins == {"RST", "MISO", "MOSI", "CLK"}

gpio_output_conf(p, set, clear, enable, disable) ==
    [p EXCEPT !.out = (@ \cup set) \ clear, !.enabled = (@ \cup enable) \ disable]

GPIO_OUTPUT_SET(p, pin, bit) ==
    IF bit = 1 THEN gpio_output_conf(p, {pin}, {}, {pin}, {})
               ELSE gpio_output_conf(p, {}, {pin}, {pin}, {})

gpio_config(p, c) ==
    LET q == gpio_output_conf(p, {}, {}, IF c.mode = "Output" THEN c.pins ELSE {},
                                         IF c.mode = "Input"  THEN c.pins ELSE {})
    IN  [q EXCEPT !.pullup = IF c.pullup THEN @ \cup c.pins ELSE @ \ c.pins,
                  !.drain  = IF c.mode = "Out_OD" THEN @ \cup c.pins ELSE @,
                  !.sigma  = IF c.mode = "Sigma_Delta" THEN @ \cup c.pins ELSE @,
                  !.intr   = [i \in Pins |-> IF i \in c.pins THEN c.intr ELSE @[i]]]

gpio16_output_conf(p)     == [p EXCEPT !.enabled = @ \cup {"CS"}]
gpio16_output_set(p, bit) == [p EXCEPT !.out = IF bit = 1 THEN @ \cup {"CS"} ELSE @ \ {"CS"}]

Reset == [out |-> {}, enabled |-> {}, pullup |-> {}, drain |-> {}, sigma |-> {},
          intr |-> [i \in Pins |-> "DISABLE"]]

CS5463IF_Init(p) ==
    LET conf(m, pin) == [mode |-> m, pins |-> {pin}, pullup |-> FALSE, intr |-> "DISABLE"]
        a == gpio_config(p, conf("Output", "RST"))
        b == gpio_config(a, conf("Output", "MOSI"))
        c == gpio_config(b, conf("Output", "CLK"))
        d == gpio_config(c, conf("Input", "MISO"))
    IN  gpio16_output_set(gpio16_output_conf(d), 1)

(* CS5463_SELECT and CS5463_DESELECT *)
Selected(p) == "CS" \in p.enabled /\ "CS" \notin p.out
CS5463_SELECT(p)   == gpio16_output_set(p, 0)
CS5463_DESELECT(p) == gpio16_output_set(p, 1)

-----------------------------------------------------------------------------
(* The CS5463. *)
Zero    == [r \in Registers |-> 0]
PowerUp == [regs |-> [Zero EXCEPT ![CONFIG] = 1], to |-> None, sh |-> <<>>, out |-> <<>>,
            running |-> FALSE, calibrating |-> None]

StageOf(cmd) == CASE cmd = 201 -> DC_I_OFFSET [] cmd = 206 -> I_GAIN [] cmd = 205 -> AC_I_OFFSET
                  [] cmd = 209 -> DC_V_OFFSET [] cmd = 214 -> V_GAIN [] cmd = 213 -> AC_V_OFFSET

(* A byte that is not the data of a write is a command. *)
Commanded(c, cmd) ==
    LET d == [c EXCEPT !.sh = <<>>]
    IN  CASE cmd = START_CNTN_CNVS -> [d EXCEPT !.running = TRUE]
          [] cmd = POWER_UP_HALT   -> [d EXCEPT !.running = FALSE, !.calibrating = None]
          [] cmd \in STARTS        -> [d EXCEPT !.calibrating = StageOf(cmd)]
          [] cmd < 64              -> [d EXCEPT !.out = WordBits(c.regs[cmd \div 2])]
          [] cmd \in 64..127       -> [d EXCEPT !.to = (cmd - 64) \div 2]
          [] OTHER                 -> d    \* SYNC_0, SYNC_1

(* A one written to a bit of the status clears it. *)
Written(c, word) ==
    [c EXCEPT !.sh = <<>>, !.to = None,
              !.regs[c.to] = IF c.to # STATUS THEN word
                             ELSE IF Bit(word, 23) = 1 THEN 0 ELSE @]

Rises(c, bit) ==
    LET sh == Append(c.sh, bit)
    IN  CASE c.to = None /\ Len(sh) = 8  -> Commanded(c, Byte(sh))
          [] c.to # None /\ Len(sh) = 24 -> Written(c, Decoded(sh))
          [] OTHER                       -> [c EXCEPT !.sh = sh]

(* The clock goes low and high again: the chip shifts out, then in. *)
MISO(c)        == IF c.out = <<>> THEN 1 ELSE Head(c.out)
Clocked(c, p)  ==
    IF ~Selected(p) THEN c
    ELSE Rises([c EXCEPT !.out = IF @ = <<>> THEN @ ELSE Tail(@)],
               IF "MOSI" \in p.out THEN 1 ELSE 0)

-----------------------------------------------------------------------------
(* user_data.c: a value of the calibration has a getter and a setter.      *)
DAT_unGet(reg)       == saved[reg]
DAT_unSet(reg, word) == [saved EXCEPT ![reg] = word]
DAT_fGetCurrentThrhld == THRESHOLD

-----------------------------------------------------------------------------
(* What the task sends: a word, what it read last, or the saved word.      *)
Transfer(kind, byte) == [kind |-> kind, byte |-> byte, from |-> "word", data |-> 0,
                         into |-> "unPara", reg |-> None]
Write(reg, word)  == [Transfer("write", WR(reg)) EXCEPT !.data = word]
WriteBack(reg)    == [Transfer("write", WR(reg)) EXCEPT !.from = "unPara"]
WriteSaved(reg)   == [Transfer("write", WR(reg)) EXCEPT !.from = "saved", !.data = reg]
Cmd(byte)         == Transfer("cmd", byte)
Raw(byte)         == Transfer("raw", byte)
RST(bit)          == Transfer("reset", bit)
Read(reg, into)   == [Transfer("read", RD(reg)) EXCEPT !.into = into]
ReadStage(reg)    == [Transfer("read", RD(reg)) EXCEPT !.reg = reg]
waitDataReady     == Transfer("poll", RD(STATUS))

initCS5463 ==
    << Write(STATUS, DRDY), Write(CONFIG, 1), Write(CYCLE_COUNT, 800), Write(MASK, 0),
       Write(MODE, 1), Read(MODE, "unPara"), Write(CTRL, 0), Write(PULSE_RATE, 13468),
       Read(STATUS, "unPara"), WriteBack(STATUS) >>

writeCS5463Calib_twice ==    \* mutant: the gain of the current is not written
    << WriteSaved(DC_V_OFFSET), WriteSaved(V_GAIN), WriteSaved(AC_V_OFFSET),
       WriteSaved(DC_I_OFFSET), WriteSaved(V_GAIN), WriteSaved(AC_I_OFFSET) >>

writeCS5463Calib ==
    << WriteSaved(DC_V_OFFSET), WriteSaved(V_GAIN), WriteSaved(AC_V_OFFSET),
       WriteSaved(DC_I_OFFSET), WriteSaved(I_GAIN), WriteSaved(AC_I_OFFSET) >>

(* The four sync bytes are sent with the chip deselected. *)
Boot == << RST(0), RST(1), Raw(SYNC_1), Raw(SYNC_1), Raw(SYNC_1), Raw(SYNC_0) >> \o initCS5463

Measures == << Read(T, "unPara"), Read(STATUS, "unPara"), Read(I_RMS, "I_RMS"),
               Read(V_RMS, "V_RMS"), Read(P_ACTIVE, "P_Active") >>

CS5463IF_Routine == Boot \o writeCS5463Calib \o <<Cmd(START_CNTN_CNVS)>> \o Measures

clearDRDY_not == Cmd(SYNC_1)    \* mutant: DRDY stays as it was

clearDRDY == Write(STATUS, 16777215)

Stage(reg, cmd, first) ==
    << clearDRDY, Cmd(POWER_UP_HALT), Write(reg, first), Cmd(cmd), waitDataReady,
       ReadStage(reg), Cmd(START_CNTN_CNVS) >>

CS5463IF_Calib ==
    Boot \o <<Cmd(START_CNTN_CNVS)>>
         \o Stage(DC_I_OFFSET, 201, 4194304) \o Stage(I_GAIN, 206, 4194304)
         \o Stage(AC_I_OFFSET, 205, 0)       \o Stage(DC_V_OFFSET, 209, 0)
         \o Stage(V_GAIN, 214, 4194304)      \o Stage(AC_V_OFFSET, 213, 0)

Program == IF mode = "calib" THEN CS5463IF_Calib ELSE CS5463IF_Routine
Op      == Program[step]

Data ==
    CASE Op.from = "word"   -> Op.data
      [] Op.from = "unPara" -> Word(mem.unPara)
      [] Op.from = "saved"  -> DAT_unGet(Op.data)
Length  == IF Op.kind = "write" THEN 32 ELSE 8
Sent(k) == IF k < 8 THEN Bit(Op.byte, 7 - k) ELSE Bit(Data, 31 - k)
Reads == Op.kind \in {"read", "poll"}

(* CS5463IF_WriteReg and CS5463IF_Read refuse a command of the other kind; *)
(* no transfer of the task is (MeterInv).                                  *)
CS5463_RW_REG_CMD_BITS(cmd) == cmd - (cmd % 64)
Refused == \/ Op.kind = "write" /\ CS5463_RW_REG_CMD_BITS(Op.byte) # 64
           \/ Reads /\ CS5463_RW_REG_CMD_BITS(Op.byte) # 0

Idle == [at |-> "idle", n |-> 0]

MeterInit ==
    /\ pins = CS5463IF_Init(Reset)
    /\ mode \in {"calib", "routine"} /\ step = 1 /\ bus = Idle /\ polls = POLLS
    /\ mem = [f \in {"I_RMS", "V_RMS", "P_Active", "unPara"} |-> <<0, 0, 0>>]
    /\ saved = [r \in CalibRegisters |-> IF mode = "calib" THEN 0 ELSE Calib[r]]
    /\ plugStatus = "OPEN" /\ chip = PowerUp
    /\ last = 0 /\ incoming = 0 /\ early = FALSE

(* CS5463_Manager: the loop of the routine never ends; a calibration that  *)
(* gave up is begun again; one that came to its end is used.               *)
Goes(to) == mode' = to /\ step' = 1
Advances ==
    \/ step < Len(Program) /\ step' = step + 1 /\ UNCHANGED mode
    \/ step = Len(Program) /\ mode = "routine"
       /\ step' = Len(Program) - Len(Measures) + 1 /\ UNCHANGED mode
    \/ step = Len(Program) /\ mode = "calib" /\ Goes("routine")

Begins ==
    /\ bus.at = "idle" /\ Op.kind # "reset" /\ ~Refused
    /\ bus' = [at |-> "send", n |-> 0]
    /\ pins' = IF Op.kind = "raw" THEN pins ELSE CS5463_SELECT(pins)
    /\ UNCHANGED <<mode, step, polls, mem, saved, plugStatus, chip, last, incoming, early>>

(* The reset pin goes low, and the chip forgets; it goes high again. *)
Resets ==
    /\ bus.at = "idle" /\ Op.kind = "reset"
    /\ pins' = GPIO_OUTPUT_SET(pins, "RST", Op.byte)
    /\ chip' = IF Op.byte = 0 THEN PowerUp ELSE chip
    /\ Advances
    /\ UNCHANGED <<bus, polls, mem, saved, plugStatus, last, incoming, early>>

(* readCS5463SPI sets a byte to zero, then adds its bits one by one. *)
Zeroed(m, f, k) == [m EXCEPT ![f][k] = 0]

(* CS5463IF_Read keeps MOSI high while it reads: to the chip, SYNC_1.      *)
Filler == 1

(* writeCS5463SPI: clock low, the bit on MOSI, clock high. *)
writeCS5463SPI ==
    /\ bus.at = "send"
    /\ LET low  == GPIO_OUTPUT_SET(pins, "CLK", 0)
           bit  == GPIO_OUTPUT_SET(low, "MOSI", Sent(bus.n))
           done == bus.n + 1 = Length
       IN  /\ pins' = GPIO_OUTPUT_SET(IF done /\ Reads THEN GPIO_OUTPUT_SET(bit, "MOSI", Filler) ELSE bit,
                                      "CLK", 1)
           /\ chip' = Clocked(chip, bit)
           /\ bus' = IF done THEN [at |-> IF Reads THEN "recv" ELSE "end", n |-> 0]
                     ELSE [bus EXCEPT !.n = @ + 1]
           /\ mem' = IF done /\ Reads THEN Zeroed(mem, Op.into, 1) ELSE mem
           /\ incoming' = IF done /\ Op.into = "I_RMS" THEN Decoded(chip'.out) ELSE incoming
    /\ UNCHANGED <<mode, step, polls, saved, plugStatus, last, early>>

(* readCS5463SPI: clock low, clock high, then the bit is read. *)
readCS5463SPI ==
    /\ bus.at = "recv"
    /\ LET byte == bus.n \div 8 + 1
           bit  == MISO(chip)
           m    == [mem EXCEPT ![Op.into][byte] = @ + bit * 2^(7 - (bus.n % 8))]
       IN  /\ mem' = IF bus.n \in {7, 15} THEN Zeroed(m, Op.into, byte + 1) ELSE m
           /\ bus' = IF bus.n = 23 THEN [at |-> "end", n |-> 0] ELSE [bus EXCEPT !.n = @ + 1]
    /\ chip' = Clocked(chip, pins)
    /\ pins' = GPIO_OUTPUT_SET(GPIO_OUTPUT_SET(pins, "CLK", 0), "CLK", 1)
    /\ UNCHANGED <<mode, step, polls, saved, plugStatus, last, incoming, early>>

getCS5463RegBit(bytes, i) == Bit(bytes[3 - i \div 8], i % 8) = 1

(* The transfer is over.  waitDataReady reads again until the bit is set, *)
(* and gives up after POLLS reads; a stage keeps what it has read.         *)
Ends ==
    /\ bus.at = "end"
    /\ bus' = Idle
    /\ pins' = IF Op.kind = "raw" THEN pins ELSE CS5463_DESELECT(pins)
    /\ LET ready == Op.kind # "poll" \/ getCS5463RegBit(mem.unPara, 23)
       IN  \/ ready /\ Advances /\ polls' = POLLS
           \/ ~ready /\ polls > 1 /\ polls' = polls - 1 /\ UNCHANGED <<mode, step>>
           \/ ~ready /\ polls = 1 /\ Goes("calib") /\ polls' = POLLS
    /\ saved' = IF Op.reg = None THEN saved ELSE DAT_unSet(Op.reg, Word(mem.unPara))
    /\ last' = IF Op.into = "I_RMS" THEN Word(mem.I_RMS) ELSE last
    /\ early' = (early /\ Op.reg = None)
    /\ UNCHANGED <<mem, plugStatus, chip, incoming>>

Manager == Begins \/ Resets \/ writeCS5463SPI \/ readCS5463SPI \/ Ends

-----------------------------------------------------------------------------
(* The chip on its own.  What it ends in the window between clearDRDY and  *)
(* the halt makes the stage read too early.                                *)
Window ==
    \/ Op.kind = "cmd" /\ Op.byte = POWER_UP_HALT
    \/ Op = clearDRDY /\ mode = "calib" /\ bus.at = "end"

Premature == {r \in CalibRegisters : saved[r] \notin {0, Calib[r], Result[r]}}
InBounds  == Window => Cardinality(Premature) < EARLY

Converts ==
    /\ chip.running /\ InBounds
    /\ \E i \in IRMS, p \in PACTIVE :
           chip' = [chip EXCEPT !.regs = [@ EXCEPT ![I_RMS] = i, ![P_ACTIVE] = p, ![STATUS] = DRDY]]
    /\ chip' # chip
    /\ early' = (early \/ Window)
    /\ UNCHANGED <<pins, cs5463, plugStatus, last, incoming>>

Calibrated ==
    /\ chip.calibrating # None /\ InBounds
    /\ chip' = [chip EXCEPT !.regs = [@ EXCEPT ![chip.calibrating] = Result[chip.calibrating],
                                               ![STATUS] = DRDY],
                            !.calibrating = None]
    /\ early' = (early \/ Window)
    /\ UNCHANGED <<pins, cs5463, plugStatus, last, incoming>>

(* fConvert24BitToFloat: bit i counts 2^-(i+1); in units of 2^-24. *)
fConvert24BitToFloat_reversed(bytes) ==    \* mutant: lowest bit first
    Decoded([i \in 1..24 |-> Bit(bytes[(i - 1) \div 8 + 1], (i - 1) % 8)])

fConvert24BitToFloat(bytes) ==
    Decoded([i \in 1..24 |-> Bit(bytes[(i - 1) \div 8 + 1], 7 - ((i - 1) % 8))])

(* The current, on the scale of the chip: fI_Max / 0.6 is part of the      *)
(* threshold.                                                              *)
CS5463_fGetI_RMS == fConvert24BitToFloat(mem.I_RMS)

(* check_current_timer_cb, between any two bits. *)
check_current_timer_cb ==
    /\ CS5463_fGetI_RMS > DAT_fGetCurrentThrhld
    /\ plugStatus' = "OPEN"
    /\ UNCHANGED <<pins, cs5463, chip, last, incoming, early>>

(* By the key or a command; while it calibrates the relay is Calibration's. *)
Closes == mode = "routine" /\ plugStatus' = "CLOSE" /\ UNCHANGED <<pins, cs5463, chip, last, incoming, early>>

MeterNext == Manager \/ Converts \/ Calibrated \/ check_current_timer_cb \/ Closes

MeterSpec == MeterInit /\ [][MeterNext]_metervars

-----------------------------------------------------------------------------
(* fConvert24BitToCmpltFloat: the bits after the first, negated when the   *)
(* first is set; in units of 2^-23.                                        *)
fConvert24BitToCmpltFloat(bytes) ==
    LET sum == fConvert24BitToFloat(bytes) - 2^23 * Bit(bytes[1], 7)
    IN  IF Bit(bytes[1], 7) = 1 THEN -sum ELSE sum

(* CS5463_fGetActivePower, as a share of the largest power. *)
CS5463_fGetActivePower(bytes) ==
    LET result == fConvert24BitToCmpltFloat(bytes)
    IN  IF result < 0 THEN result + 2^23 ELSE result

(* The readings are taken while the chip measures with the registers the   *)
(* program meant it to have and with the calibration that was saved, bit   *)
(* for bit, whatever was in it before (initCS5463, writeCS5463Calib).      *)
MeasuresAsSet ==
    mode = "routine" /\ step > Len(Program) - Len(Measures) =>
        /\ chip.running /\ chip.regs[CONFIG] = 1 /\ chip.regs[MODE] = 1 /\ chip.regs[MASK] = 0
        /\ chip.regs[CTRL] = 0 /\ chip.regs[CYCLE_COUNT] = 800 /\ chip.regs[PULSE_RATE] = 13468
        /\ \A r \in CalibRegisters : chip.regs[r] = saved[r]

(* A reading that was read to its end is one the chip had measured, though *)
(* the chip may end a conversion between two of its bits.                  *)
WholeWords ==
    /\ incoming \in IRMS \cup {0}
    /\ bus.at = "end" /\ Op.into = "I_RMS" => Word(mem.I_RMS) = incoming

(* The power that is reported is the magnitude of what the chip measured,  *)
(* a word in two's complement; its sign is lost.  The conversion, which    *)
(* the code describes as one to "signed -1~1 complement" (cs5463.c:93), is *)
(* not that for a negative word: it takes the first bit for a sign and the *)
(* rest for a magnitude.  What is added to a negative result (:778) makes  *)
(* a magnitude of it.  One word is left, the most negative one, which is   *)
(* reported as 0.  It holds of the torn words too.                         *)
TwosComplement(word) == IF word < 2^23 THEN word ELSE word - 2^24
Magnitude(n) == IF n < 0 THEN -n ELSE n
PowerIsMagnitude ==
    LET word == Word(mem.P_Active)
    IN  CS5463_fGetActivePower(mem.P_Active) =
            IF word = 2^23 THEN 0 ELSE Magnitude(TwosComplement(word))

(* Every transfer leaves the chip between two bytes and deselected, with   *)
(* nothing left to send: the bits of a read that is cut short, or a byte   *)
(* sent while it answers, would be taken for a command.                    *)
Between ==
    bus.at = "idle" =>
        /\ ~Selected(pins)
        /\ chip.sh = <<>> /\ chip.to = None /\ chip.out = <<>>

(* The bus carries whole words between the two ends, nothing is left of a  *)
(* command for the next, the chip works with the constants that are set,   *)
(* and the power it measures keeps its magnitude when it is converted.     *)
MeterInv ==
    /\ pins.enabled = {"RST", "MOSI", "CLK", "CS"}
    /\ step \in 1..Len(Program) /\ polls \in 1..POLLS
    /\ bus.at \in {"idle", "send", "recv", "end"} /\ bus.n \in 0..31
    /\ \A f \in DOMAIN mem : mem[f] \in Seq(0..255) /\ Len(mem[f]) = 3
    /\ plugStatus \in {"OPEN", "CLOSE"}
    /\ ~Refused
    /\ Between
    /\ MeasuresAsSet /\ WholeWords /\ PowerIsMagnitude

Over(word) == word + 65535 > THRESHOLD

(* The callback of the protection reads unCS5463_I_RMS while its bytes are *)
(* being replaced.  It may see a word above the threshold that was never   *)
(* measured; but it opens the relay only when the word before or the word  *)
(* being read is above it, or less than 2^16 below it.                     *)
TripsNearThreshold ==
    [][plugStatus = "CLOSE" /\ plugStatus' = "OPEN" => Over(last) \/ Over(incoming)]_metervars

(* What a stage keeps is what this calibration measured, never the result  *)
(* of a DRDY that was set before.  One case is left: what ends after       *)
(* clearDRDY and before the halt that follows it sets DRDY, and            *)
(* waitDataReady then returns before the calibration has ended.            *)
StageIsFresh ==
    [][\A r \in CalibRegisters : saved'[r] # saved[r] => saved'[r] = Result[r] \/ early]_metervars
=============================================================================
