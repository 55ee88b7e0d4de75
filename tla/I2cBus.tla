------------------------------- MODULE I2cBus -------------------------------
(***************************************************************************)
(* I2C transactions through microcode. A host encodes a transaction as a   *)
(* sequence of commands (Hololink::Sequencer, I2c::encode_i2c_request),    *)
(* writes it to APB_RAM under i2c_lock(), triggers SW_EVENT, polls the     *)
(* cell where the sequence caches the status register, and fetches the     *)
(* words it read. The device interprets the sequence (APBEventHandler) and *)
(* drives the bus from a second thread (I2CController).                    *)
(*                                                                         *)
(* A transaction is a number; it addresses a peripheral of its own, and    *)
(* the words it writes and the answers to it carry its number. A control   *)
(* plane access is one step: executed once, or twice when it was retried   *)
(* after its reply was lost, or given up, executed or not (ControlPlane    *)
(* models the exchange itself).                                            *)
(***************************************************************************)
EXTENDS Integers, Sequences, SequencesExt

CONSTANTS
    Hosts,           \* threads or programs that use the bus
    NoHost,
    Shapes,          \* <<words written, words read>> of a transaction
    CommandsPerWord, \* 16 in the code: 2 bits per command
    Prompt,          \* between two polls a sequence runs faster than a packet arrives
    MaxTx,           \* bound: transactions
    MaxRepeats       \* bound: repeated triggers

MaxWords == 64

ASSUME I2cAssumption ==
    /\ NoHost \notin Hosts
    /\ Shapes \subseteq (0..MaxWords) \X (0..MaxWords)
    /\ CommandsPerWord \in Nat \ {0}
    /\ Prompt \in BOOLEAN
    /\ MaxTx \in Nat /\ MaxRepeats \in Nat

VARIABLES
    \* the hosts
    host,        \* host -> its transaction in progress, or the last one
    lock,        \* i2c_lock(): the host that holds it
    \* the device
    ram,         \* the SW_EVENT sequence in APB_RAM
    queue,       \* apb_event_queue_: number of SW_EVENTs in it
    apb,         \* the APB event thread
    regs,        \* num_bytes, status and data buffer of the controller
    ctrl,        \* cmd and peripheral_address of the controller, and its thread
    \* history
    begun,       \* transactions started so far
    asked,       \* transaction -> its shape
    triggers,    \* transaction -> SW_EVENTs queued for it
    runs,        \* transaction -> times a peripheral executed it
    ran,         \* commands executed in the current run of a sequence
    repeats,
    gave_up,     \* some transaction was given up half way
    overwritten, \* a sequence was overwritten while it was queued or executing
    wrong        \* a peripheral was given words that are not its transaction's

deviceVars == <<ram, queue, apb, regs, ctrl>>
historyVars == <<begun, asked, triggers, runs, ran, repeats, gave_up, overwritten, wrong>>
i2cVars == <<host, lock, deviceVars, historyVars>>

Txs == 1..MaxTx
Flags == {"BUSY", "FSM_ERR", "I2C_ERR", "NAK", "DONE"}

\* A 32-bit value: what it means, of which transaction, which word; for
\* num_bytes the words to write and to read.
Word32 == [k : {"none", "zero", "start", "bytes", "bus", "word", "answer", "status"},
          t : Nat, i : 0..MaxWords, f : SUBSET Flags]
Val(k, t, i) == [k |-> k, t |-> t, i |-> i, f |-> {}]
Zero == Val("zero", 0, 0)
NoValue == Val("none", 0, 0)
Status(flags) == [k |-> "status", t |-> 0, i |-> 0, f |-> flags]

-----------------------------------------------------------------------------
(* Hololink::Sequencer: buffer_, command_index_ and command_bit_. *)

\* A command word holds the commands, any other cell a register or a value.
CommandWord(ops) == [c |-> "command", ops |-> ops]
Register(r, i) == [c |-> "register", r |-> r, i |-> i]
Data(v) == [c |-> "data", v |-> v]
EndMark == [c |-> "end"]

NewSequencer == [buffer |-> <<CommandWord(<<>>)>>, index |-> 1, bit |-> 0]

append(s, cell) == [s EXCEPT !.buffer = Append(@, cell)]

add_command(s, op) ==
    IF s.bit = CommandsPerWord
    THEN [buffer |-> Append(s.buffer, CommandWord(<<op>>)),
          index |-> Len(s.buffer) + 1, bit |-> 1]
    ELSE [s EXCEPT !.buffer[s.index].ops = Append(@, op), !.bit = @ + 1]

(* write_uint32, read_uint32 and poll, whose match is its mask here. *)
Emit(s, call) ==
    LET operand == append(append(add_command(s, call.op), Register(call.r, call.i)), Data(call.v))
    IN  IF call.op = "POLL" THEN append(operand, Data(call.v)) ELSE operand

\* Mutant: no command word for the end mark.
done_NoCommand(s) == append(s, EndMark)

done(s) == append(add_command(s, "RD"), EndMark)

-----------------------------------------------------------------------------
(* I2c::encode_i2c_request. *)

Call(op, r, i, v) == [op |-> op, r |-> r, i |-> i, v |-> v]

\* The calls after the words were written, up to and including the wait for
\* I2C_DONE.
StartAndWait(t, w, r) ==
    <<Call("WR", "num_bytes", 0, Val("bytes", w, r)), Call("WR", "bus_en", 0, Val("bus", 0, 0)),
      Call("WR", "control", 0, Val("start", t, 0)), Call("POLL", "status", 0, Status({"DONE"}))>>

\* Mutant: every word is written to the first word of the buffer.
Words_Same(t, w) == [i \in 1..w |-> Call("WR", "data", 1, Val("word", t, i))]

Words(t, w) == [i \in 1..w |-> Call("WR", "data", i, Val("word", t, i))]

\* Mutant: the control register is left set.
Encoded_NoClear(t, w, r) ==
    <<Call("WR", "control", 0, Zero)>> \o Words(t, w) \o StartAndWait(t, w, r)
    \o <<Call("RD", "status", 0, Zero)>> \o [i \in 1..r |-> Call("RD", "data", i, NoValue)]

\* The calls of encode_i2c_request: the control register is cleared, the
\* transaction written and started, the status cached, the answer fetched,
\* and the control register cleared.
Encoded(t, w, r) ==
    <<Call("WR", "control", 0, Zero)>> \o Words(t, w) \o StartAndWait(t, w, r)
    \o <<Call("RD", "status", 0, Zero)>> \o [i \in 1..r |-> Call("RD", "data", i, NoValue)]
    \o <<Call("WR", "control", 0, Zero)>>

\* The sequencer after the first n of the calls.
Sequenced(calls) ==
    LET after[n \in 0..Len(calls)] ==
            IF n = 0 THEN NewSequencer ELSE Emit(after[n - 1], calls[n])
    IN  after

\* The buffers SoftwareSequencer::enable writes.
Buffer ==
    [t \in Txs |-> [shape \in Shapes |->
        LET calls == Encoded(t, shape[1], shape[2]) IN done(Sequenced(calls)[Len(calls)]).buffer]]

\* status_index and read_indexes: the index append returns for the data cell
\* of the n-th RD command after the poll, the cached status being the first.
ReadIndex ==
    [t \in Txs |-> [shape \in Shapes |->
        LET after == Sequenced(Encoded(t, shape[1], shape[2]))
        IN  [n \in 0..shape[2] |-> Len(after[shape[1] + 6 + n].buffer)]]]

\* What the sequence of a transaction is meant to do.
Program(w, r) ==
    <<<<"WR", "control">>>> \o [i \in 1..w |-> <<"WR", "data">>]
    \o <<<<"WR", "num_bytes">>, <<"WR", "bus_en">>, <<"WR", "control">>, <<"POLL", "status">>,
         <<"RD", "status">>>>
    \o [i \in 1..r |-> <<"RD", "data">>] \o <<<<"WR", "control">>>>

-----------------------------------------------------------------------------
NoTx == [pc |-> "idle", tx |-> 0, w |-> 0, r |-> 0, got |-> <<>>,
         code |-> "none"]
IdleApb == [pc |-> "idle", address |-> 1, word |-> <<>>, bit |-> 0]

I2cInit ==
    /\ host = [h \in Hosts |-> NoTx]
    /\ lock = NoHost
    /\ ram = <<>> /\ queue = 0 /\ apb = IdleApb
    /\ regs = [num_bytes |-> Val("bytes", 0, 0), status |-> {}, data |-> <<>>]
    /\ ctrl = [cmd |-> FALSE, peripheral |-> 0, pc |-> "wait", words |-> <<>>]
    /\ begun = 0 /\ asked = [t \in Txs |-> <<0, 0>>]
    /\ triggers = [t \in Txs |-> 0] /\ runs = [t \in Txs |-> 0] /\ ran = <<>>
    /\ repeats = 0
    /\ gave_up = FALSE /\ overwritten = FALSE /\ wrong = FALSE

I2cTypeOK ==
    /\ \A h \in Hosts :
          /\ host[h].pc \in {"idle", "lock", "enable", "trigger", "poll", "clear", "read"}
          /\ host[h].tx \in 0..MaxTx
          /\ host[h].got \in Seq(Word32)
          /\ host[h].code \in {"none", "ok", "nak", "error"}
    /\ lock \in Hosts \cup {NoHost}
    /\ \A i \in DOMAIN ram : ram[i].c = "data" => ram[i].v \in Word32
    /\ queue \in Nat
    /\ apb.pc \in {"idle", "command", "poll", "derailed", "aborted"}
    /\ regs.status \in SUBSET Flags
    /\ \A i \in DOMAIN regs.data : regs.data[i] \in Word32
    /\ ctrl.pc \in {"wait", "execute"}
    /\ ctrl.peripheral \in (IF ctrl.cmd THEN Txs ELSE {0})
    /\ begun \in 0..MaxTx
    /\ asked \in [Txs -> Shapes \cup {<<0, 0>>}]
    /\ triggers \in [Txs -> Nat] /\ runs \in [Txs -> Nat]

-----------------------------------------------------------------------------
(* The host: I2c::i2c_transaction. *)

\* The device takes a packet. The FPGA's sequencer runs on until it waits;
\* the emulator's threads may be anywhere.
DeviceReady == Prompt => apb.pc \in {"idle", "poll"} /\ (apb.pc = "idle" => queue = 0)

\* An exception: std::lock_guard releases i2c_lock().
Throw(h) ==
    /\ host' = [host EXCEPT ![h] = [host[h] EXCEPT !.pc = "idle", !.code = "error", !.got = <<>>]]
    /\ lock' = NoHost

Return(h, code, got) ==
    /\ host' = [host EXCEPT ![h] = [host[h] EXCEPT !.pc = "idle", !.code = code, !.got = got]]
    /\ lock' = NoHost

Goto(h, pc) ==
    /\ host' = [host EXCEPT ![h].pc = pc]
    /\ UNCHANGED lock

(* encode_i2c_request. *)
BeginTx(h) ==
    /\ host[h].pc = "idle"
    /\ begun < MaxTx
    /\ begun' = begun + 1
    /\ \E shape \in Shapes :
          /\ host' = [host EXCEPT ![h] = [pc |-> "lock", tx |-> begun', w |-> shape[1],
                         r |-> shape[2], got |-> <<>>, code |-> "none"]]
          /\ asked' = [asked EXCEPT ![begun'] = shape]
    /\ UNCHANGED <<lock, deviceVars, triggers, runs, ran, repeats, gave_up,
                   overwritten, wrong>>

\* Mutant: i2c_lock() is not taken.
TakeLock_Missing(h) ==
    /\ host[h].pc = "lock"
    /\ lock' = h
    /\ host' = [host EXCEPT ![h].pc = "enable"]
    /\ UNCHANGED <<deviceVars, historyVars>>

TakeLock(h) ==
    /\ host[h].pc = "lock" /\ lock = NoHost
    /\ lock' = h
    /\ host' = [host EXCEPT ![h].pc = "enable"]
    /\ UNCHANGED <<deviceVars, historyVars>>

(* SoftwareSequencer::enable: the sequence is written over the last one.   *)
(* The acknowledgement may be lost.                                        *)
Enable(h) ==
    LET c == host[h]
        buffer == Buffer[c.tx][<<c.w, c.r>>]
    IN
    /\ c.pc = "enable" /\ DeviceReady
    /\ ram' = buffer \o SubSeq(ram, Len(buffer) + 1, Len(ram))
    /\ overwritten' = (overwritten \/ apb.pc # "idle" \/ queue # 0)
    /\ \/ Goto(h, "trigger") /\ UNCHANGED gave_up
       \/ Throw(h) /\ gave_up' = TRUE
    /\ UNCHANGED <<queue, apb, regs, ctrl, begun, asked, triggers, runs, ran, repeats,
                   wrong>>

(* configure_apb_event and SW_EVENT 1, 0 in one packet: HSBEmulator::write *)
(* queues the event. A retried packet queues it again.                     *)
Trigger(h) ==
    /\ host[h].pc = "trigger" /\ DeviceReady
    /\ \E n \in 1..2 :
          /\ repeats + n <= MaxRepeats + 1
          /\ repeats' = repeats + n - 1
          /\ queue' = queue + n
          /\ triggers' = [triggers EXCEPT ![host[h].tx] = @ + n]
    /\ \/ Goto(h, "poll") /\ UNCHANGED gave_up
       \/ Throw(h) /\ gave_up' = TRUE
    /\ UNCHANGED <<ram, apb, regs, ctrl, begun, asked, runs, ran, overwritten, wrong>>

\* Flags of the status a host finds in its cell.
Cached(c) ==
    LET cell == ram[ReadIndex[c.tx][<<c.w, c.r>>][0]] IN
    IF cell.c = "data" THEN cell.v.f ELSE {}

(* The cached status shows I2C_DONE. *)
Poll(h) ==
    /\ host[h].pc = "poll" /\ DeviceReady
    /\ "DONE" \in Cached(host[h])
    /\ Goto(h, "clear")
    /\ UNCHANGED <<deviceVars, historyVars>>

(* clear_apb_event(I2C_BUSY), then the checks. The caller may ask for a    *)
(* NAK to be ignored.                                                      *)
Clear(h) ==
    LET flags == Cached(host[h]) IN
    /\ host[h].pc = "clear" /\ DeviceReady
    /\ \/ /\ flags \cap {"FSM_ERR", "I2C_ERR"} # {}
          /\ Throw(h)
       \/ /\ flags \cap {"FSM_ERR", "I2C_ERR"} = {}
          /\ "NAK" \in flags
          /\ Return(h, "nak", <<>>) \/ Throw(h)
       \/ /\ flags \cap {"FSM_ERR", "I2C_ERR", "NAK"} = {}
          /\ Goto(h, "read")
    /\ UNCHANGED <<deviceVars, historyVars>>

(* One read_uint32 per word; the answer is returned after the last. *)
ReadWord(h) ==
    LET c == host[h]
        cell == ram[ReadIndex[c.tx][<<c.w, c.r>>][Len(c.got) + 1]]
        got == IF c.r = 0 THEN <<>>
               ELSE Append(c.got, IF cell.c = "data" THEN cell.v ELSE NoValue)
    IN
    /\ c.pc = "read" /\ DeviceReady
    /\ IF Len(got) = c.r THEN Return(h, "ok", got)
       ELSE /\ host' = [host EXCEPT ![h].got = got]
            /\ UNCHANGED lock
    /\ UNCHANGED <<deviceVars, historyVars>>

(* timeout->retry() is false, or an access that is not executed fails. *)
GiveUp(h) ==
    /\ host[h].pc \in {"enable", "trigger", "poll", "clear", "read"}
    /\ Throw(h)
    /\ gave_up' = TRUE
    /\ UNCHANGED <<deviceVars, begun, asked, triggers, runs, ran, repeats, overwritten,
                   wrong>>

-----------------------------------------------------------------------------
(* The APB event thread: APBEventHandler. *)

(* run, execute_sequence: an event is taken from the queue. *)
ApbTake ==
    /\ apb.pc = "idle" /\ queue > 0
    /\ queue' = queue - 1
    /\ apb' = [IdleApb EXCEPT !.pc = "command", !.address = 2, !.word = ram[1].ops]
    /\ ran' = <<>>
    /\ UNCHANGED <<host, lock, ram, regs, ctrl, begun, asked, triggers, runs, repeats,
                   gave_up, overwritten, wrong>>

\* next_value: memory nobody wrote is 0.
Cell(i) == IF i \in DOMAIN ram THEN ram[i] ELSE Data(Zero)

\* next_cmd, then the address that follows: a = [word, bit, address] after
\* the command word was fetched, if one was due.
NextCommand ==
    IF apb.bit = CommandsPerWord
    THEN [word |-> IF Cell(apb.address).c = "command" THEN ram[apb.address].ops ELSE <<"ERROR">>,
          bit |-> 0, address |-> apb.address + 1]
    ELSE [word |-> apb.word, bit |-> apb.bit, address |-> apb.address]

\* Bits of a command word no command was put in are 0.
CommandAt(f) == IF f.bit + 1 \in DOMAIN f.word THEN f.word[f.bit + 1] ELSE "POLL"

\* The cells of a command have the kinds its code expects. What a sequence
\* does after it was overwritten half way depends on the bits of addresses
\* and data: it is derailed, and nothing more is said of it.
WellFormed(f) ==
    LET op == CommandAt(f)
        target == Cell(f.address)
        operand == Cell(f.address + 1)
    IN  /\ op # "ERROR"
        /\ target.c = "register" /\ operand.c = "data"
        /\ op = "WR" => operand.v.k \in CASE target.r = "control" -> {"zero", "start"}
                                          [] target.r = "num_bytes" -> {"bytes"}
                                          [] target.r = "bus_en" -> {"bus"}
                                          [] target.r = "data" -> {"word"}
                                          [] OTHER -> {}
        /\ op = "POLL" => Cell(f.address + 2).c = "data"

\* The next command is executed by the step: `length` cells are consumed.
Execute(f, length, pc) ==
    /\ apb' = [pc |-> pc, word |-> f.word, bit |-> f.bit + 1, address |-> f.address + length]
    /\ ran' = Append(ran, <<CommandAt(f), ram[f.address].r>>)

(* execute_sequence: the end mark. *)
ApbDone ==
    LET f == NextCommand IN
    /\ apb.pc = "command"
    /\ Cell(f.address).c = "end"
    /\ apb' = IdleApb
    /\ UNCHANGED <<host, lock, ram, queue, regs, ctrl, historyVars>>

ApbDerail ==
    LET f == NextCommand IN
    /\ apb.pc = "command"
    /\ Cell(f.address).c # "end" /\ ~WellFormed(f)
    /\ apb' = [IdleApb EXCEPT !.pc = "derailed"]
    /\ UNCHANGED <<host, lock, ram, queue, regs, ctrl, historyVars>>

\* The next command is op on one of the registers.
ApbAt(op, registers) ==
    LET f == NextCommand IN
    /\ apb.pc = "command"
    /\ Cell(f.address).c # "end" /\ WellFormed(f)
    /\ CommandAt(f) = op /\ ram[f.address].r \in registers

\* The n-th word of the data buffer becomes v.
PutWord(buffer, n, v) == [i \in 1..(IF n > Len(buffer) THEN n ELSE Len(buffer)) |->
                         IF i = n THEN v
                         ELSE IF i \in DOMAIN buffer THEN buffer[i] ELSE Zero]

(* sequence_write to a register without a handler. *)
ApbWrite ==
    LET f == NextCommand
        v == ram[f.address + 1].v
    IN
    /\ ApbAt("WR", {"num_bytes", "bus_en", "data"})
    /\ Execute(f, 2, "command")
    /\ regs' = CASE ram[f.address].r = "num_bytes" -> [regs EXCEPT !.num_bytes = v]
                 [] ram[f.address].r = "data" ->
                        [regs EXCEPT !.data = PutWord(@, ram[f.address].i, v)]
                 [] OTHER -> regs
    /\ UNCHANGED <<host, lock, ram, queue, ctrl, begun, asked, triggers, runs, repeats,
                   gave_up, overwritten, wrong>>

\* i2c_mutex is free: the controller's thread holds it for a whole i2c_execute.
MutexFree == ctrl.pc = "wait"

(* sequence_write to the control register: I2CController::execute. *)
ApbControl ==
    LET f == NextCommand
        v == ram[f.address + 1].v
    IN
    /\ ApbAt("WR", {"control"}) /\ MutexFree
    /\ IF "BUSY" \in regs.status
       THEN /\ apb' = [IdleApb EXCEPT !.pc = "aborted"]
            /\ UNCHANGED <<regs, ctrl, ran>>
       ELSE /\ Execute(f, 2, "command")
            /\ ctrl' = [ctrl EXCEPT !.cmd = v.k = "start", !.peripheral = v.t]
            /\ regs' = IF v.k = "zero" THEN [regs EXCEPT !.status = {}] ELSE regs
    /\ UNCHANGED <<host, lock, ram, queue, begun, asked, triggers, runs, repeats, gave_up,
                   overwritten, wrong>>

(* sequence_read: the register is stored in the sequence. *)
ApbRead ==
    LET f == NextCommand
        n == ram[f.address].i
        v == IF ram[f.address].r = "status" THEN Status(regs.status)
             ELSE IF n \in DOMAIN regs.data THEN regs.data[n] ELSE Zero
    IN
    /\ ApbAt("RD", {"status", "data"})
    /\ Execute(f, 2, "command")
    /\ ram' = [ram EXCEPT ![f.address + 1] = Data(v)]
    /\ UNCHANGED <<host, lock, queue, regs, ctrl, begun, asked, triggers, runs, repeats,
                   gave_up, overwritten, wrong>>

(* sequence_poll begins to read the register, *)
ApbPoll ==
    /\ ApbAt("POLL", {"status"})
    /\ Execute(NextCommand, 3, "poll")
    /\ UNCHANGED <<host, lock, ram, queue, regs, ctrl, begun, asked, triggers, runs, repeats,
                   gave_up, overwritten, wrong>>

\* Mutant: the register is compared as a whole.
ApbPolled_NoMask ==
    /\ apb.pc = "poll"
    /\ {"DONE"} = regs.status
    /\ apb' = [apb EXCEPT !.pc = "command"]
    /\ UNCHANGED <<host, lock, ram, queue, regs, ctrl, historyVars>>

(* and goes on once I2C_DONE is set. It has no timeout. *)
ApbPolled ==
    /\ apb.pc = "poll"
    /\ "DONE" \in regs.status
    /\ apb' = [apb EXCEPT !.pc = "command"]
    /\ UNCHANGED <<host, lock, ram, queue, regs, ctrl, historyVars>>

Apb == ApbTake \/ ApbDone \/ ApbDerail \/ ApbWrite \/ ApbControl \/ ApbRead \/ ApbPoll \/ ApbPolled

-----------------------------------------------------------------------------
(* The controller's thread: I2CController::run and i2c_execute. *)

(* cmd is set: the status becomes I2C_BUSY, and num_bytes and the words    *)
(* are read from the registers.                                            *)
I2cStart ==
    LET w == regs.num_bytes.t IN
    /\ ctrl.pc = "wait" /\ ctrl.cmd
    /\ regs' = [regs EXCEPT !.status = {"BUSY"}]
    /\ ctrl' = [ctrl EXCEPT !.pc = "execute",
                  !.words = [i \in 1..w |-> IF i \in DOMAIN regs.data THEN regs.data[i] ELSE Zero]]
    /\ UNCHANGED <<host, lock, ram, queue, apb, historyVars>>

\* The peripheral is given the words.
Given ==
    wrong' = (wrong \/ LET t == ctrl.peripheral
                       IN  ctrl.words # [i \in 1..asked[t][1] |-> Val("word", t, i)])

\* Mutant: the command is left standing after I2C_DONE.
AfterDone_KeepsCmd == [ctrl EXCEPT !.pc = "wait", !.words = <<>>]

\* Mutant: only the address is reset.
AfterDone_Address == [ctrl EXCEPT !.pc = "wait", !.words = <<>>, !.peripheral = 0]

\* cmd and peripheral_address are reset.
AfterDone == [cmd |-> FALSE, peripheral |-> 0, pc |-> "wait", words |-> <<>>]

(* It executes them: the answer goes to the data buffer, and I2C_DONE is   *)
(* set, on the FPGA also with a flag for what was not acknowledged.        *)
I2cAnswer ==
    LET t == ctrl.peripheral
        r == regs.num_bytes.i
    IN
    /\ ctrl.pc = "execute"
    /\ Given
    /\ runs' = [runs EXCEPT ![t] = @ + 1]
    /\ \E flags \in {{"DONE"}, {"DONE", "NAK"}, {"DONE", "I2C_ERR"}} :
          regs' = [regs EXCEPT !.status = flags,
                     !.data = [i \in 1..(IF r > Len(@) THEN r ELSE Len(@)) |->
                                 IF i <= r THEN Val("answer", t, i) ELSE @[i]]]
    /\ ctrl' = AfterDone
    /\ UNCHANGED <<host, lock, ram, queue, apb, begun, asked, triggers, ran, repeats,
                   gave_up, overwritten>>

(* The emulator's peripheral refuses them: I2C_I2C_ERR without I2C_DONE,   *)
(* and cmd stays, so it is given the same words again. A peripheral that   *)
(* refuses by content, as Vb1940Emulator does, refuses them for ever.      *)
I2cFail ==
    /\ ctrl.pc = "execute"
    /\ Given
    /\ regs' = [regs EXCEPT !.status = {"I2C_ERR"}]
    /\ ctrl' = [ctrl EXCEPT !.pc = "wait", !.words = <<>>]
    /\ UNCHANGED <<host, lock, ram, queue, apb, begun, asked, triggers, runs, ran, repeats,
                   gave_up, overwritten>>

Controller == I2cStart \/ I2cAnswer \/ I2cFail

-----------------------------------------------------------------------------
I2cProceed(h) ==
    TakeLock(h) \/ Enable(h) \/ Trigger(h) \/ Poll(h) \/ Clear(h) \/ ReadWord(h) \/ GiveUp(h)

I2cNext == Apb \/ Controller \/ \E h \in Hosts : BeginTx(h) \/ I2cProceed(h)

I2cSafety == I2cInit /\ [][I2cNext]_i2cVars

(* The device's threads run. Nothing is assumed of the peripherals: the    *)
(* controller's thread also runs when it is refused again and again.       *)
I2cSpec ==
    /\ I2cSafety
    /\ WF_i2cVars(Apb) /\ WF_i2cVars(Controller)

-----------------------------------------------------------------------------
(* Properties. *)

\* A transaction that succeeds returns the answer of its own peripheral,
\* which was given it: neither the last transaction's status or answer in
\* the same cells nor another host's. i2c_lock() covers every access from
\* writing the sequence to fetching the answer.
OwnAnswer ==
    \A h \in Hosts :
        LET c == host[h] IN
        c.code = "ok" /\ ~overwritten =>
            /\ c.got = [i \in 1..c.r |-> Val("answer", c.tx, i)]
            /\ runs[c.tx] > 0

\* A sequence is only overwritten while the device still needs it after a
\* transaction was given up or a trigger was repeated: I2C_DONE in the cached
\* status otherwise means that the device is finished with the sequence.
OverwrittenOnlyAfterFault == overwritten => gave_up \/ repeats > 0

\* A peripheral is given the words of its transaction, all of them and no
\* others.
OwnWords == wrong => overwritten

\* A peripheral executes a transaction at most once per trigger, however often
\* it refused it before.
OncePerTrigger ==
    ~overwritten => \A t \in Txs : runs[t] <= triggers[t]

\* A sequence that runs to its end did exactly what a transaction asks for,
\* wherever the commands fill a command word.
AsEncoded ==
    apb.pc = "idle" /\ ran # <<>> /\ ~overwritten =>
        \E shape \in Shapes : ran = Program(shape[1], shape[2])

\* The interpreter finds a command where the encoder put one, also when the
\* last command fills a command word, unless the sequence was overwritten;
\* and it never finds the controller busy, which would end its thread:
\* i2c_execute keeps the mutex while I2C_BUSY is set.
NeverAborts == /\ apb.pc = "derailed" => overwritten
               /\ apb.pc # "aborted"

\* The microcode that runs is the microcode that was encoded, word by word,
\* and the device finishes with it before the next is written.
SequencesIntact ==
    I2cTypeOK /\ OverwrittenOnlyAfterFault /\ OwnWords /\ OncePerTrigger /\ AsEncoded /\ NeverAborts

\* The transaction is refused, and will be given to the peripheral again.
Refused == ctrl.cmd /\ regs.status = {"I2C_ERR"}

\* Every queued sequence is executed to its end, also after errors of the
\* peripheral, as long as it does not refuse the same words for ever: cmd stays
\* set and the poll has no timeout, so that nothing else ends such a sequence,
\* and no sequence after it begins.
SequencesEnd ==
    <>[]~Refused =>
        ((queue > 0 \/ apb.pc # "idle") ~> ((queue = 0 /\ apb.pc = "idle") \/ overwritten))
=============================================================================
