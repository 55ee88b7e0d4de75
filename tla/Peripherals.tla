----------------------------- MODULE Peripherals -----------------------------
(***************************************************************************)
(* UART, GPIO and SPI of an HSB device as several programs use them with   *)
(* Hololink: every access to a device register is a control-plane request  *)
(* of its own, so operations that read, change and write a register, or    *)
(* follow a protocol of several accesses, interleave with those of other   *)
(* programs and threads unless a NamedLock (uart_lock, spi_lock) keeps     *)
(* them apart. GPIO takes no lock, nor do uart_enable and uart_disable.    *)
(*                                                                         *)
(* A register is a function from its fields to 0 and 1: a field stands for *)
(* the bits one operation sets. An access whose reply is lost is executed  *)
(* again with the same contents (ControlPlane); one that is given up       *)
(* throws, and the operation ends where it is, as it does when the program *)
(* dies; the operating system releases its lock.                           *)
(***************************************************************************)
EXTENDS Integers, Sequences

CONSTANTS
    Programs,
    None,
    Pins,        \* GPIO pins the applications use
    FifoSize,    \* bytes the transmit FIFO holds
    MsgLen,      \* bytes written or asked for by one call
    MaxRx,       \* bound: bytes that arrive at the UART
    MaxOps,      \* bound: operations
    MaxFaults    \* bound: lost replies, failed accesses and time-outs

ASSUME PeripheralsAssumption ==
    /\ None \notin Programs
    /\ FifoSize \in Nat \ {0} /\ MsgLen \in Nat \ {0}
    /\ MaxRx \in Nat /\ MaxOps \in Nat /\ MaxFaults \in Nat
    /\ Pins \cap {"p8", "p9", "p11"} = {}

VARIABLES
    \* the programs
    prog,        \* program -> what it is doing
    uart_lock, spi_lock,
    \* the device
    reg,         \* register -> field -> value
    tx, rx,      \* bytes in the UART's FIFOs
    spi,         \* the SPI controller
    \* history
    ops,         \* operations begun
    faults,      \* lost replies and failed accesses
    arrived,     \* bytes that arrived at the UART
    wrote,       \* bytes given to the transmit FIFO: operation and position
    repeated,    \* an access with a side effect was executed twice
    overflow,    \* a byte was written to a full FIFO
    garbage,     \* an empty FIFO was read after a status that showed a byte in it
    intended,    \* register -> field -> the value last asked for
    disturbed,   \* registers that were written between another's read and write
    leaked,      \* output pins that may have been given the level of an input
    bare,        \* uart_enable or uart_disable was called
    failed,      \* an operation under uart_lock ended half-way
    answers      \* <<operation, answer>> of the SPI transactions that succeeded

lockVars == <<uart_lock, spi_lock>>
fifoVars == <<tx, rx, arrived, wrote, overflow, garbage>>
regVars == <<reg, intended, disturbed, leaked>>
spiVars == <<spi, answers>>
vars == <<prog, lockVars, fifoVars, regVars, spiVars, ops, faults, repeated, bare, failed>>

\* CTRL0: the enables of the UART, its transmitter and its receiver (bits 0 to
\* 2), frame format and receive thresholds, flow control, loopback, FIFO reset;
\* CTRL1: baud rate and transmit thresholds; then the GPIO directions (1 is
\* IN), outputs and the pin multiplexer.
Enables == {"on", "tx_en", "rx_en"}
Fields == [ctrl0 |-> Enables \cup {"format", "flow", "loop", "reset"}, ctrl1 |-> {"baud"},
           dir |-> Pins \cup {"p8", "p11"}, out |-> Pins, mux |-> {"p9", "vsync"}]
Registers == DOMAIN Fields

-----------------------------------------------------------------------------
(* What the operations do, as sequences of register accesses. *)

Rmw(r, set) == [kind |-> "rmw", reg |-> r, set |-> set]
Put(r, set) == [kind |-> "put", reg |-> r, set |-> set]
Test(r, set) == [kind |-> "test", reg |-> r, set |-> set]

\* The fields of a register after those in set have been given new values.
Changed(set, old) ==
    [f \in DOMAIN set \cup DOMAIN old |-> IF f \in DOMAIN set THEN set[f] ELSE old[f]]

\* Bits 0 to 2 together.
uart_disable == <<Rmw("ctrl0", [f \in Enables |-> 0])>>
uart_enable == <<Rmw("ctrl0", [f \in Enables |-> 1])>>

\* Mutant: the multiplexer's bit is written to the direction register.
FlowPins_WrongRegister(v) == <<Rmw("dir", [p8 |-> v, p11 |-> 1]), Rmw("dir", [p9 |-> 1])>>

\* The direction of the flow-control pins and the multiplexer.
FlowPins(v) == <<Rmw("dir", [p8 |-> v, p11 |-> 1]), Rmw("mux", [p9 |-> 1])>>

\* Mutant: the reset bits are written back.
uart_configure_KeepsReset(v) ==
    uart_disable
    \o <<Put("ctrl0", [f \in Fields.ctrl0 |-> IF f = "reset" THEN 1 ELSE 0]),
         Rmw("ctrl0", [format |-> v, flow |-> v]),
         Rmw("ctrl1", [baud |-> v])>>
    \o FlowPins(v) \o uart_enable

uart_configure(v) ==
    uart_disable
    \o <<Put("ctrl0", [f \in Fields.ctrl0 |-> IF f = "reset" THEN 1 ELSE 0]),
         Rmw("ctrl0", [format |-> v, flow |-> v, reset |-> 0]),
         Rmw("ctrl1", [baud |-> v])>>
    \o FlowPins(v) \o uart_enable

uart_set_flow_control(v) ==
    uart_disable \o <<Rmw("ctrl0", [flow |-> v])>> \o FlowPins(v) \o uart_enable

\* uart_set_data_bits, _parity, _stop_bits and _rx_fifo_threshold
uart_set_format(v) == uart_disable \o <<Rmw("ctrl0", [format |-> v])>> \o uart_enable

\* uart_set_baud_rate and _tx_fifo_threshold
uart_set_baud_rate(v) == uart_disable \o <<Rmw("ctrl1", [baud |-> v])>> \o uart_enable

\* uart_tx_enable and _disable, uart_rx_enable and _disable
uart_tx_enable(v) == <<Rmw("ctrl0", [tx_en |-> v])>>
uart_rx_enable(v) == <<Rmw("ctrl0", [rx_en |-> v])>>

\* uart_enable_internal_loopback and _disable_
uart_set_loopback(v) == <<Rmw("ctrl0", [loop |-> v])>>

set_direction(pin, v) == <<Rmw("dir", [f \in {pin} |-> v])>>

\* Only an output pin can be set. The other pins are written as GPIO_STATUS
\* shows them (Shown).
set_value(pin, v) == <<Test("dir", [f \in {pin} |-> 0]), Rmw("out", [f \in {pin} |-> v])>>

\* PtpSynchronizer::setup
ptp_setup == <<Put("mux", [p9 |-> 0, vsync |-> 1])>>

\* The operations that hold uart_lock, and those that hold none.
Serialized ==
    UNION {{uart_configure(v), uart_set_flow_control(v), uart_set_format(v),
            uart_set_baud_rate(v), uart_tx_enable(v), uart_rx_enable(v),
            uart_set_loopback(v)} : v \in {0, 1}}
Unserialized ==
    {uart_enable, uart_disable, ptp_setup}
    \cup UNION {{set_direction(pin, v), set_value(pin, v)} : pin \in Pins, v \in {0, 1}}

-----------------------------------------------------------------------------
(* State. *)

Idle == [op |-> "idle", id |-> 0, steps |-> <<>>, phase |-> "none", val |-> <<>>, n |-> 0]

Phases == {"none", "read", "write", "status", "data", "stale", "busy", "clear", "check", "start",
           "poll", "unlatch", "reset"}

TypeOK ==
    /\ \A p \in Programs : /\ prog[p].op \in {"idle", "script", "uart_write", "uart_read", "spi"}
                           /\ prog[p].id \in 0..ops /\ prog[p].phase \in Phases
    /\ uart_lock \in Programs \cup {None} /\ spi_lock \in Programs \cup {None}
    /\ \A r \in Registers : reg[r] \in [Fields[r] -> {0, 1}] /\ intended[r] \in [Fields[r] -> {0, 1}]
    /\ tx \in 0..FifoSize /\ rx \in 0..MaxRx /\ arrived \in 0..MaxRx
    /\ spi \in [start : BOOLEAN, busy : BOOLEAN, done : BOOLEAN, cmd : 0..ops,
                pending : 0..ops, data : 0..ops]
    /\ ops \in 0..MaxOps /\ faults \in 0..MaxFaults
    /\ wrote \in Seq([id : 1..MaxOps, byte : 1..MsgLen])
    /\ repeated \in BOOLEAN /\ overflow \in BOOLEAN /\ garbage \in BOOLEAN
    /\ bare \in BOOLEAN /\ failed \in BOOLEAN
    /\ disturbed \subseteq Registers /\ leaked \subseteq Pins
    /\ answers \subseteq (1..MaxOps) \X (0..MaxOps)

(* A UART has been configured before; the pins are outputs. *)
Init ==
    /\ prog = [p \in Programs |-> Idle]
    /\ uart_lock = None /\ spi_lock = None
    /\ reg = [r \in Registers |->
                [f \in Fields[r] |-> IF f \in Enables \cup {"p9", "p11"} THEN 1 ELSE 0]]
    /\ intended = reg /\ disturbed = {} /\ leaked = {}
    /\ tx = 0 /\ rx = 0 /\ arrived = 0 /\ wrote = <<>>
    /\ overflow = FALSE /\ garbage = FALSE
    /\ spi = [start |-> FALSE, busy |-> FALSE, done |-> FALSE, cmd |-> 0,
              pending |-> 0, data |-> 0]
    /\ answers = {}
    /\ ops = 0 /\ faults = 0 /\ repeated = FALSE /\ bare = FALSE /\ failed = FALSE

-----------------------------------------------------------------------------
(* Beginning and ending an operation. *)

\* Whether the first access of a step reads or writes.
Enter(steps, n) == IF steps[n].kind = "put" THEN "write" ELSE "read"

Begin(p, op, steps, phase) ==
    /\ prog[p].op = "idle" /\ ops < MaxOps
    /\ ops' = ops + 1
    /\ prog' = [prog EXCEPT ![p] = [op |-> op, id |-> ops + 1, steps |-> steps, phase |-> phase,
                                   val |-> <<>>, n |-> 1]]
    /\ UNCHANGED <<fifoVars, regVars, spiVars, faults, repeated, failed>>

\* std::lock_guard lock(uart_lock())
LockUart(p) ==
    /\ uart_lock = None
    /\ uart_lock' = p
    /\ UNCHANGED <<spi_lock, bare>>

BeginScript(p, steps) == Begin(p, "script", steps, Enter(steps, 1))

\* Mutant: the lock is not taken.
BeginSerialized_NoLock(p) ==
    \E steps \in Serialized : BeginScript(p, steps) /\ UNCHANGED <<lockVars, bare>>

BeginSerialized(p) ==
    \E steps \in Serialized : BeginScript(p, steps) /\ LockUart(p)

BeginUnserialized(p) ==
    \E steps \in Unserialized :
        /\ BeginScript(p, steps)
        /\ bare' = (bare \/ steps \in {uart_enable, uart_disable})
        /\ UNCHANGED lockVars

\* Mutant: the lock is not taken.
BeginWrite_NoLock(p) ==
    Begin(p, "uart_write", <<>>, "status") /\ UNCHANGED <<lockVars, bare>>

BeginWrite(p) == Begin(p, "uart_write", <<>>, "status") /\ LockUart(p)
BeginRead(p) == Begin(p, "uart_read", <<>>, "status") /\ LockUart(p)

BeginSpi(p) ==
    /\ Begin(p, "spi", <<>>, "busy")
    /\ spi_lock = None /\ spi_lock' = p
    /\ UNCHANGED <<uart_lock, bare>>

Release(p) ==
    /\ uart_lock' = IF uart_lock = p THEN None ELSE uart_lock
    /\ spi_lock' = IF spi_lock = p THEN None ELSE spi_lock

Finish(p) == prog' = [prog EXCEPT ![p] = Idle] /\ Release(p)

Go(p, phase) == prog' = [prog EXCEPT ![p].phase = phase] /\ UNCHANGED lockVars

(* An access is given up and throws, or the program dies. *)
Fail(p) ==
    /\ prog[p].op # "idle" /\ faults < MaxFaults
    /\ faults' = faults + 1
    /\ failed' = (failed \/ uart_lock = p)
    /\ Finish(p)
    /\ UNCHANGED <<fifoVars, regVars, spiVars, ops, repeated, bare>>

\* The reply to an access that has been executed is lost: it is sent again.
Repeat(p) ==
    /\ faults < MaxFaults /\ faults' = faults + 1
    /\ repeated' = TRUE
    /\ UNCHANGED <<prog, lockVars>>

NoFault == UNCHANGED <<faults, repeated>>
Quiet == UNCHANGED <<ops, bare, failed>>

-----------------------------------------------------------------------------
(* Register scripts. *)

StepOf(p) == prog[p].steps[prog[p].n]

Advance(p) ==
    IF prog[p].n = Len(prog[p].steps) THEN Finish(p)
    ELSE /\ prog' = [prog EXCEPT ![p].n = @ + 1, ![p].val = <<>>,
                                 ![p].phase = Enter(prog[p].steps, prog[p].n + 1)]
         /\ UNCHANGED lockVars

\* What is read before a register is written. set_value reads GPIO_STATUS and
\* writes GPIO_OUTPUT: the status shows the level of every pin, which is what
\* an output pin was set to, and what the board drives on an input pin.
Shown(r) ==
    IF r # "out" THEN {reg[r]}
    ELSE {level \in [Pins -> {0, 1}] :
              \A f \in Pins : reg["dir"][f] = 0 => level[f] = reg["out"][f]}

\* The input pins whose levels a set_value of another pin is about to write.
Inputs(p) ==
    IF StepOf(p).reg # "out" THEN {}
    ELSE {f \in Pins \ DOMAIN StepOf(p).set : reg["dir"][f] = 1}

ReadRegister(p) ==
    /\ prog[p].op = "script" /\ prog[p].phase = "read"
    /\ \/ /\ StepOf(p).kind = "rmw"
          /\ \E seen \in Shown(StepOf(p).reg) :
                prog' = [prog EXCEPT ![p].val = seen, ![p].phase = "write"]
          /\ leaked' = leaked \cup Inputs(p)
          /\ UNCHANGED lockVars
       \/ /\ StepOf(p).kind = "test"
          /\ IF \A f \in DOMAIN StepOf(p).set : reg[StepOf(p).reg][f] = StepOf(p).set[f]
             THEN Advance(p) ELSE Finish(p)
          /\ UNCHANGED leaked
    /\ UNCHANGED <<fifoVars, reg, intended, disturbed, spiVars>> /\ NoFault /\ Quiet

\* Mutant: the register is written without having been read.
Value_Blind(p) == Changed(StepOf(p).set, [f \in Fields[StepOf(p).reg] |-> 0])

\* What is written: the fields of the step, the others as they were read.
Value(p) == IF StepOf(p).kind = "put" THEN StepOf(p).set ELSE Changed(StepOf(p).set, prog[p].val)

\* Another program has read the register and has yet to write it.
Overlapped(p, r) ==
    \E q \in Programs \ {p} :
        prog[q].op = "script" /\ prog[q].phase = "write" /\ StepOf(q).reg = r

WriteRegister(p) ==
    LET r == StepOf(p).reg
    IN  /\ prog[p].op = "script" /\ prog[p].phase = "write"
        /\ reg' = [reg EXCEPT ![r] = Value(p)]
        /\ intended' = [intended EXCEPT ![r] = Changed(StepOf(p).set, @)]
        /\ disturbed' = IF Overlapped(p, r) THEN disturbed \cup {r} ELSE disturbed
        /\ leaked' = IF r = "out" THEN leaked \ DOMAIN StepOf(p).set ELSE leaked
        \* CTRL0's reset bits empty the FIFOs
        /\ IF r = "ctrl0" /\ Value(p)["reset"] = 1
           THEN tx' = 0 /\ rx' = 0 ELSE UNCHANGED <<tx, rx>>
        /\ \/ Advance(p) /\ NoFault
           \/ Repeat(p)
        /\ UNCHANGED <<arrived, wrote, overflow, garbage, spiVars>> /\ Quiet

-----------------------------------------------------------------------------
(* uart_write and uart_read. *)

\* The next byte, or the end of the call.
NextByte(p) ==
    IF prog[p].n = MsgLen THEN Finish(p)
    ELSE /\ prog' = [prog EXCEPT ![p].n = @ + 1, ![p].phase = "status"]
         /\ UNCHANGED lockVars

\* Mutant: the FIFO is not looked at.
WriteStatus_NoCheck(p) ==
    /\ prog[p].op = "uart_write" /\ prog[p].phase = "status"
    /\ Go(p, "data")
    /\ UNCHANGED <<fifoVars, regVars, spiVars>> /\ NoFault /\ Quiet

(* TX FIFO Full? If not, the byte can be written. *)
WriteStatus(p) ==
    /\ prog[p].op = "uart_write" /\ prog[p].phase = "status"
    /\ tx < FifoSize
    /\ Go(p, "data")
    /\ UNCHANGED <<fifoVars, regVars, spiVars>> /\ NoFault /\ Quiet

\* Mutant: no time-out.
WriteGiveUp_Never(p) ==
    /\ prog[p].op = "uart_write" /\ prog[p].phase = "status"
    /\ tx = FifoSize
    /\ UNCHANGED vars

(* The FIFO stays full for five seconds: TimeoutError. *)
WriteGiveUp(p) ==
    /\ prog[p].op = "uart_write" /\ prog[p].phase = "status"
    /\ tx = FifoSize
    /\ Finish(p)
    /\ UNCHANGED <<fifoVars, regVars, spiVars>> /\ NoFault /\ Quiet

WriteByte(p) ==
    /\ prog[p].op = "uart_write" /\ prog[p].phase = "data"
    /\ tx' = IF tx < FifoSize THEN tx + 1 ELSE tx
    /\ overflow' = (overflow \/ tx = FifoSize)
    /\ wrote' = Append(wrote, [id |-> prog[p].id, byte |-> prog[p].n])
    /\ \/ NextByte(p) /\ NoFault
       \/ Repeat(p)
    /\ UNCHANGED <<rx, arrived, garbage, regVars, spiVars>> /\ Quiet

(* RX FIFO Not Empty? If not, the call returns what it has. The bit is     *)
(* sticky, says uart_read, and nothing it knows clears it: it may show a   *)
(* byte that has been taken since.                                         *)
ReadStatus(p) ==
    /\ prog[p].op = "uart_read" /\ prog[p].phase = "status"
    /\ \/ rx > 0 /\ Go(p, "data")
       \/ rx = 0 /\ Finish(p)
       \/ rx = 0 /\ arrived > 0 /\ Go(p, "stale")
    /\ UNCHANGED <<fifoVars, regVars, spiVars>> /\ NoFault /\ Quiet

(* Reading the data register takes a byte from the FIFO. *)
ReadByte(p) ==
    /\ prog[p].op = "uart_read" /\ prog[p].phase \in {"data", "stale"}
    /\ rx' = IF rx > 0 THEN rx - 1 ELSE 0
    /\ \/ NextByte(p) /\ NoFault /\ garbage' = (garbage \/ (rx = 0 /\ prog[p].phase = "data"))
       \/ Repeat(p) /\ UNCHANGED garbage
    /\ UNCHANGED <<tx, arrived, wrote, overflow, regVars, spiVars>> /\ Quiet

-----------------------------------------------------------------------------
(* spi_transaction. *)

SpiPhase(p, phase) == prog[p].op = "spi" /\ prog[p].phase = phase

\* Mutant: a busy port is not noticed.
SpiBusy_Ignored(p) ==
    /\ SpiPhase(p, "busy")
    /\ Go(p, "clear")
    /\ UNCHANGED <<fifoVars, regVars, spiVars>> /\ NoFault /\ Quiet

(* SPI_BUSY: another program's transaction is under way. *)
SpiBusy(p) ==
    /\ SpiPhase(p, "busy")
    /\ IF spi.busy THEN Finish(p) ELSE Go(p, "clear")
    /\ UNCHANGED <<fifoVars, regVars, spiVars>> /\ NoFault /\ Quiet

(* Writing 0 to the control register clears DONE and shows the data. It is *)
(* done before the transaction, before the data are read, and after.       *)
SpiClear(p) ==
    /\ spi' = [spi EXCEPT !.start = FALSE, !.done = FALSE,
                          !.data = IF spi.done THEN spi.pending ELSE @]
    /\ \/ SpiPhase(p, "clear") /\ Go(p, "check")
       \/ SpiPhase(p, "unlatch") /\ Go(p, "data")
       \/ SpiPhase(p, "reset") /\ Finish(p)
    /\ UNCHANGED <<fifoVars, regVars, answers>> /\ NoFault /\ Quiet

(* An invalid DONE ends the call. *)
SpiCheck(p) ==
    /\ SpiPhase(p, "check")
    /\ IF spi.done THEN Finish(p) ELSE Go(p, "start")
    /\ UNCHANGED <<fifoVars, regVars, spiVars>> /\ NoFault /\ Quiet

(* Mode, buffer, lengths and bus, then SPI_START. *)
SpiStart(p) ==
    /\ SpiPhase(p, "start")
    /\ spi' = IF spi.start \/ spi.busy THEN [spi EXCEPT !.start = TRUE]
              ELSE [spi EXCEPT !.start = TRUE, !.busy = TRUE, !.cmd = prog[p].id]
    /\ \/ Go(p, "poll") /\ NoFault
       \/ Repeat(p)
    /\ UNCHANGED <<fifoVars, regVars, answers>> /\ Quiet

SpiPoll(p) ==
    /\ SpiPhase(p, "poll")
    /\ spi.done
    /\ Go(p, "unlatch")
    /\ UNCHANGED <<fifoVars, regVars, spiVars>> /\ NoFault /\ Quiet

(* The time-out of the transaction elapses. *)
SpiGiveUp(p) ==
    /\ SpiPhase(p, "poll")
    /\ ~spi.done
    /\ Finish(p)
    /\ UNCHANGED <<fifoVars, regVars, spiVars>> /\ NoFault /\ Quiet

SpiData(p) ==
    /\ SpiPhase(p, "data")
    /\ answers' = answers \cup {<<prog[p].id, spi.data>>}
    /\ Go(p, "reset")
    /\ UNCHANGED <<fifoVars, regVars, spi>> /\ NoFault /\ Quiet

-----------------------------------------------------------------------------
(* The device (external). *)

deviceUnchanged == UNCHANGED <<prog, lockVars, regVars, ops, faults, repeated, bare, failed>>

UartSends ==
    /\ tx > 0 /\ reg["ctrl0"]["on"] = 1 /\ reg["ctrl0"]["tx_en"] = 1
    /\ tx' = tx - 1
    /\ UNCHANGED <<rx, arrived, wrote, overflow, garbage, spiVars>> /\ deviceUnchanged

UartReceives ==
    /\ arrived < MaxRx /\ reg["ctrl0"]["on"] = 1 /\ reg["ctrl0"]["rx_en"] = 1
    /\ arrived' = arrived + 1 /\ rx' = rx + 1
    /\ UNCHANGED <<tx, wrote, overflow, garbage, spiVars>> /\ deviceUnchanged

SpiDone ==
    /\ spi.busy
    /\ spi' = [spi EXCEPT !.busy = FALSE, !.done = spi.start, !.pending = spi.cmd]
    /\ UNCHANGED <<fifoVars, answers>> /\ deviceUnchanged

-----------------------------------------------------------------------------

Proceed(p) ==
    \/ ReadRegister(p) \/ WriteRegister(p)
    \/ WriteStatus(p) \/ WriteGiveUp(p) \/ WriteByte(p) \/ ReadStatus(p) \/ ReadByte(p)
    \/ SpiBusy(p) \/ SpiClear(p) \/ SpiCheck(p) \/ SpiStart(p) \/ SpiPoll(p) \/ SpiGiveUp(p)
    \/ SpiData(p)

Next ==
    \/ \E p \in Programs :
          \/ BeginSerialized(p) \/ BeginUnserialized(p)
          \/ BeginWrite(p) \/ BeginRead(p) \/ BeginSpi(p)
          \/ Proceed(p) \/ Fail(p)
    \/ UartSends \/ UartReceives \/ SpiDone

(* A program that runs goes on; the waits in uart_write and                *)
(* spi_transaction are bounded by a Timeout.                               *)
Fairness == \A p \in Programs : WF_vars(Proceed(p))

SafetySpec == Init /\ [][Next]_vars
Spec == SafetySpec /\ Fairness

-----------------------------------------------------------------------------
(* Properties. *)

\* A setting is lost only if the register was written while another program
\* was between reading and writing it: everything else that happens in between
\* (other registers, repeated and failed accesses, operations that end
\* half-way) leaves every field as the last operation on it asked for. An input
\* pin is excepted: set_value of another pin reads its level and writes that to
\* GPIO_OUTPUT, where it stays until the pin's own value is set again.
OnlyOverlapsLose ==
    \A r \in Registers \ disturbed : \A f \in Fields[r] :
        reg[r][f] = intended[r][f] \/ (r = "out" /\ f \in leaked)

\* hololink.cpp: "FPGA has a single UART controller per port, FOR ALL INSTANCES
\* accessing the same port, we need to serialize access". uart_lock does that
\* for CTRL1 and, unless a program uses uart_enable or uart_disable, for CTRL0.
\* The GPIO registers have no such protection.
UartSerialized ==
    /\ "ctrl1" \notin disturbed
    /\ "ctrl0" \in disturbed => bare

\* Between two operations the UART is enabled and out of reset, whatever was
\* configured in which order, unless an operation ended half-way.
UartUsable ==
    uart_lock = None /\ ~failed /\ ~bare
        => reg["ctrl0"]["on"] = 1 /\ reg["ctrl0"]["reset"] = 0

\* Registers hold what was set, except where the code leaves a gap: GPIO has no
\* lock, uart_enable and uart_disable do not take theirs.
RegistersAsSet == TypeOK /\ OnlyOverlapsLose /\ UartSerialized /\ UartUsable

\* The status that uart_write and uart_read look at still holds when they
\* access the FIFO, so no byte is written to a full one or taken from an empty
\* one, unless a request is executed twice. A status that was stale when it was
\* read, which a sticky RX_FIFO_NOT_EMPTY can be, promises nothing and is not
\* counted. The receive FIFO is also emptied
\* under uart_read by a uart_enable or uart_disable that read CTRL0 while
\* uart_configure had the reset bits set, or had failed with them set, and
\* writes them back later.
FifosRespected ==
    /\ overflow => repeated
    /\ garbage => repeated \/ (bare /\ (failed \/ "ctrl0" \in disturbed))

\* The bytes of one uart_write follow each other on the wire, in order.
MessagesContiguous ==
    \A i, k \in 1..Len(wrote) : i < k /\ wrote[i].id = wrote[k].id =>
        \A j \in i..k : wrote[j].id = wrote[i].id /\ wrote[i].byte <= wrote[j].byte

\* uart_lock keeps the bytes of a port whole and in order.
UartBytes == FifosRespected /\ MessagesContiguous

\* A spi_transaction that succeeds returns the device's answer to its own
\* command, also when an earlier one was given up and finishes late.
OwnSpiAnswer == \A a \in answers : a[1] = a[2]

\* Every operation returns.
OperationsEnd == \A p \in Programs : prog[p].op # "idle" ~> prog[p].op = "idle"
=============================================================================
