# TLA+ models of Holoscan Sensor Bridge

Holoscan Sensor Bridge (HSB) connects sensors to a host through an FPGA device.
The host software in `src/src/hololink` configures the device over a UDP control
plane and receives frames over RoCE, UDP or CoE (IEEE 1722B). This directory
holds TLA+ models of the parts of the host software where several threads,
programs, the device and an unreliable network meet; TLC checks them on small
instances and TLAPS proves most of the safety properties for every instance.

## 1. Inventory

### Components, their state and their operations

| component | state | operations | meets |
|---|---|---|---|
| `RoceReceiver` (operators/roce_receiver) | `ready_`, `available_`, descriptors, `dropped_`, `consumer_ready_`, `done_`, ibverbs completion queue and receive work requests | `start`, `blocking_monitor` (a thread), `get_next_frame`, `frames_ready`, `close` | the device's RDMA writes, the CUDA stream, the operator |
| `BaseReceiverOp` (operators) | `running_`, `frame_ready_condition_`, extended frame counter | `start`, `compute`, `stop`, `frame_ready` (callback on the receiver's thread) | the receiver, the scheduler |
| `LinuxCoeReceiver` (operators/linux_coe_receiver) | three buffers behind `receiving`, `available_`, `busy_`; `ready_`, `exit_`, a CUDA event | `run` (a thread), `signal`, `wait`, `get_next_frame`, `close` | the network, the CUDA stream, the application |
| `LinuxReceiver` (operators/linux_receiver) | `ready_`, `available_`, the buffer being filled, packet sequence number, `packets_dropped`, `exit_` | `run` (a thread), `signal`, `get_next_frame`, `close` | a lossy network, the CUDA stream, the operator |
| `RoceTransmitterOp` (operators/roce_transmitter) | `available_buffers_`, `pending_buffers_`, `sent_buffers_`, `running_` | `start`, `compute`, `flush`, `stop`, `transmission_thread`, `completion_thread` | the NIC's send queue, the CUDA streams, the scheduler |
| `Hololink` control plane (core/hololink.cpp) | `sequence_`, `execute_mutex_`, the control socket | `write_uint32`, `read_uint32`, `execute` | the device, other threads, other programs |
| `Hololink` session (core) | `started_`, the event socket and its thread | `start`, `configure_hsb`, `reset`, `stop` | the device, data channels, event callbacks |
| `DataChannel` (core) | the registers of a virtual port, the port's bit in DP_VP_MASK | `configure_roce`, `configure_coe`, `unconfigure` | the session, the other channels of the host interface |
| `Synchronizer`, `PtpSynchronizer` (core) | attached peers, `active_`, frequency, delay, the VSYNC generator | `attach`, `detach`, `setup`, `shutdown`, `set_frequency`, `set_delay` | data channels of several sensors |
| `NamedLock` (core) | a recursive mutex and a `lockf` lock on a file | `lock`, `unlock` | threads and programs; users of I2C, SPI, UART and reset |
| I2C, `Sequencer`, APB events (core) | microcode in the device's RAM, cached event masks | `i2c_transaction`, `encode_i2c_request`, `enable`, `configure_apb_event`, ... | `NamedLock`, the control plane, the device's interpreter and I2C controller |
| UART, SPI, GPIO (core) | control, direction and output registers, FIFOs, the SPI controller | `uart_configure`, `uart_write`, `uart_read`, `spi_transaction`, `set_direction`, `set_value`, ... | `NamedLock`, the control plane, other programs |
| `Reactor` (core) | `alarms_`, `fd_callbacks_`, a wake-up pipe, `running_` | `add_alarm`, `cancel_alarm`, `add_fd_callback`, `remove_fd_callback`, `run` (a thread), `stop` | the threads that use it, its own callbacks |
| `HsbController`, `SensorFactory`, `Device` (python/hololink/hsb_controller.py) and `ReactorEnumerator` (core) | the device's state, connected controllers, watchdog alarms, PTP alarm; registered addresses | `start`, `stop`, `tap`, `found`, `lost`, `check_ptp`; `register_ip`, `unregister_ip`, `fd_callback` | the reactor, the application's threads, the device's enumeration messages |
| emulator (emulation) | register memory, `next_sequence`, APB and I2C state, packet sequence number | `control_listen`, `APBEventHandler`, `I2CController`, `RoCEv2Transmitter` | the host, as the device |

The full list, with what is not modelled and why, is `components` in
`PROJECT.json`.

### Interactions

The application creates a `Hololink` from enumeration metadata, starts it (a
control-plane session) and programs the sensor over I2C, under a `NamedLock`
because the device has a single controller. The receiver operator allocates
memory, starts the receiver and its thread, and tells the device through a
`DataChannel` where to write. From then on the device writes without waiting for
anyone; the receiver thread turns arrivals into frames and calls `frame_ready`;
the scheduler runs `compute`, which takes a frame and arms the condition again.

### What is hard, and what makes each part correct

* **RoceReceiver and BaseReceiverOp**: a thread that never waits, a mutex held
  for the queue only, a condition set from two threads, completion events that
  are raised only if armed. Correct when no descriptor or work request is lost,
  frames come in order and each at most once, the newest are kept, every frame
  is accounted for, no wake-up is lost, the operator can be stopped.
* **LinuxCoeReceiver**: a lock-free exchange of three buffers, asynchronous
  copies out of them, a socket closed under the reader. Correct when buffers
  never alias, are not overwritten while they are copied, the newest frame
  arrives, old bytes are not shown, and `stop` returns.
* **Control plane**: lost requests and replies, retries with the same sequence
  number, stale replies in the socket, a sequence check at the device. Correct
  when a success was executed, a value read is of the time of the call,
  multi-word calls are not torn, and loss alone neither fails nor hangs a call.
* **NamedLock**: two locks of different kinds acquired in two steps, programs
  that die. Correct when at most one thread of all programs is inside.
* **LinuxReceiver**: packets of a frame lost one by one, also the one that ends
  the frame; buffers that go back while the GPU still reads them. Correct when
  buffers are conserved and not overwritten, what is missing can be told, and
  the frames form the same stream as those of `RoceReceiver`.
* **RoceTransmitterOp**: two threads and a NIC around three queues, requests that
  fail. Correct when tensors are sent whole, once and in order, and `compute`,
  `flush` and `stop` return.
* **Session, DataChannel, Synchronizer**: writes to several registers that a
  restart or a lost access interrupts, a mask shared by channels, a decision
  under a lock executed after it. Correct when the device never transmits to a
  half-configured destination, channels keep their hands off each other's bit,
  VSYNC runs as set, and `stop` returns.
* **I2C**: one memory for the microcode, the status and the answer of everybody's
  transactions; transactions given up half-way. Correct when a transaction gets
  its own answer and the microcode that runs is the one that was encoded.
* **UART, SPI, GPIO**: protocols of several register accesses, some without a
  lock. Correct when settings are lost only where no lock protects them, bytes
  stay in order, and an answer belongs to its question.
* **Reactor**: alarms added and cancelled while the loop decides how long to
  sleep. Correct when alarms fire in order, nothing is forgotten, it stops.
* **Reconnection**: callbacks on one thread, `tap` and `stop` on others, a device
  that restarts at any point. Correct when a connected controller has a
  configured sensor and a watchdog, and a lost device is noticed and found.

The hazards, each at its line and with the properties that cover it, are
`hazards` in `PROJECT.json`.

## 2. Plan

Done, in the order in which they were written:

1. `RoceReceiver` with the abstract `FrameStream` it implements (data plane).
2. `CoeReceiver` (data plane, lock-free variant).
3. `ControlPlane`, host and device.
4. `NamedLock`.
5. `Session`: session, data channels and synchronizer of one device, composed.
6. `I2cBus`: `i2c_transaction`, the sequencer and the device's interpreter.
7. `Reactor`.
8. `Reconnect`: controllers, enumerator and device, on top of the reactor.
9. `LinuxReceiver`, the second implementation of `FrameStream`.
10. `Peripherals`: UART, SPI and GPIO.
11. `RoceTransmitter`, the data plane towards the device.

Proved since, for every value of the constants (section 5): the safety invariants
of `RoceReceiver`, `CoeReceiver`, `LinuxReceiver`, `RoceTransmitter`,
`ControlPlane`, `Session`, `NamedLock` (without nesting), `I2cBus`, `Peripherals`,
`Reconnect` and `Reactor`, and that both frame receivers implement `FrameStream`
without its fairness.

Left are models: sequences for frame and GPIO events with the cached event masks;
the CoE transmitter of the emulator; `find_channel` and the parsing of enumeration
packets; `Timeout`'s arithmetic.

## 3. Modules

| module | models | kind |
|---|---|---|
| `FrameStream` | what a receiver promises its consumer: a bounded, lossy, ordered stream; the oldest waiting frame is dropped and counted; before the consumer's first request only the newest is kept; a waiting frame is taken | abstract specification |
| `RoceReceiver` | `RoceReceiver`, `RoceReceiverOp`, `BaseReceiverOp`, `ExtendedCounter` | detailed |
| `RoceReceiver_proofs` | theorems about it | proofs |
| `CoeReceiver` | `LinuxCoeReceiver` and the operator's stop | detailed |
| `CoeReceiver_proofs` | theorems about it | proofs |
| `LinuxReceiver` | the emulator's `RoCEv2Transmitter`, a lossy network, `LinuxReceiver`, `LinuxReceiverOp::stop_receiver` | sender and receiver composed |
| `LinuxReceiver_proofs` | theorems about it | proofs |
| `RoceTransmitter` | `RoceTransmitterOp` and its two threads, over a NIC | detailed |
| `RoceTransmitter_proofs` | theorems about it | proofs |
| `ControlPlane` | `Hololink::write_uint32`, `read_uint32`, `execute`; the emulator's `control_listen` | host and device composed |
| `ControlPlane_proofs` | theorems about it | proofs |
| `Session` | `Hololink::start`, `reset`, `stop`, the event thread; `DataChannel`; `PtpSynchronizer` and a camera's start and stop | components of one program and the device composed |
| `Session_proofs` | theorems about it | proofs |
| `NamedLock` | `NamedLock::lock` and `unlock` | detailed |
| `I2cBus` | `i2c_transaction`, `Sequencer`; the emulator's `APBEventHandler` and `I2CController` | hosts and device composed |
| `Peripherals` | UART, SPI and GPIO of `Hololink` | programs and device composed |
| `Peripherals_proofs` | theorems about it, about `NamedLock`, the lock its operations take, and about `I2cBus`, the bus beside it | proofs |
| `Reactor` | `Reactor` | detailed |
| `Reconnect` | `hsb_controller.py`, `ReactorEnumerator`; the device and its enumeration messages | components composed |
| `Reconnect_proofs` | theorems about it and about `Reactor`, whose alarms it runs on | proofs |
| `MC*` | instances for TLC | model checking |

`PROJECT.json` maps every definition to its source lines. Definitions named
`X_Something` directly before `X` are faulty variants of it; replacing `X` by one
must make TLC report a violation of the property named in `mutants`, which shows
that the property can see that fault. They are not part of any specification.

### RoceReceiver

Four actors. *Device* (external): `DeviceBegin` writes the payload of frame *n*
to page `(n-1) % Pages`, `DeviceEnd` the metadata, and the write-immediate
becomes a completion or is lost. *Monitor thread*: one action per step of
`blocking_monitor` (arm, `poll`, get event, re-arm, poll the completion queue,
the section under `ready_mutex_`, the callback's test of `running_`, its setting
of the condition, re-post). *CUDA stream*: `CopyMetadata`. *Operator*: the steps
of `start`, `compute` and `stop`. `monPc` and `opPc` are the program counters.
`get_next_frame` is one action when a frame is there (`ComputeTake`) and a wait
otherwise (`ComputeWait`, then `WaitTake` or `WaitTimeout`). `consumer_ready_`
starts with any value because the constructor does not set it.
`desc[d].received` is the order of completion, the identity of a frame in
`FrameStream`.

### CoeReceiver

`receiving` belongs to the thread, `busy` to the application, `available` is the
atomic between them. `busy_ = available_.exchange(busy_)` is two steps, so that
the thread can run in between. A frame is `Slots` packets, the last one carries
FRAME_END; `mem` records which frame the bytes of each slot come from. `stream`
holds the copies in flight, `recorded` how many of them `event_` covers,
`awaited` how many `signal()` still waits for, with `ready_mutex_` held.

### ControlPlane

A thread's call is a record: what is left to transfer, the sequence number in
hand, whether the next attempt is checked. `Retry` keeps the number and clears
the check, except for `read_uint32_block_`. `block_enable_`, which a program
sets when it creates its `Hololink`, has either value. The device executes a request that
is not checked or has the expected number, and follows the request's number
(`hsb_emulator.cpp`). A written value is the number of the call that writes it,
so that a value read tells which call it came from. `held`, `executed`
and `gave_up` are history.

### NamedLock

`lock()` is `Lock` (the mutex) then `LockfTaken` or `LockfFails`; `unlock()` is
`Unlock` (F_ULOCK) then `MutexUnlock`. F_LOCK does not wait for the own process
and does not count; F_ULOCK releases everything. `Crash` ends a program at any
point. `levels` is the depth a thread believes it holds.

### Session

One program and one device. `main` is the thread that starts, resets and stops
the session and sets the synchronizer's delay; every channel has a thread that
configures its port (`and_uint32` of DP_VP_MASK, the registers, `or_uint32`, as
single accesses under `Hololink::lock`), attaches its camera to the
synchronizer, and undoes both; `async` is the event thread between
`recvfrom` and its callback. A register holds the number of the configuration it
belongs to. The first request of an access is checked, a repeated one is not: an
access is executed; or refused, when the device is out of step (`synced`); or,
when a request or reply is lost, repeated and executed even then, which brings
the device in step again (`Adopts`), and answered or given up; or given up before
it was executed, and throws out of the operation. The device may restart, which
clears its registers and puts it out of step. `trigger_reset` is its two ordinary
writes (`Reset`) and the one that is not repeated (`TriggerReset`).

Four history variables remember what the code leaves open. `adopted`: a device
out of step has executed a retry since it was cleared. `own`: the channels that
have written their DP_VP_MASK bit to 0 since then, that is, begun a
configuration. `torn`: the device was cleared between the read and the write of
a channel's `and_uint32` or `or_uint32`. `raced`: a peer attached between the
last peer's `detach` and its `shutdown`.

### I2cBus

`Encoded` is the list of calls that `encode_i2c_request` makes, `Emit` what
`Sequencer` does in one of them, and `Sequenced` the sequencer after each:
command words filled with `CommandsPerWord` commands and their operands.
`Buffer[t][shape]` is the buffer that results for a transaction, `ReadIndex` the
cells in which its RD commands leave what they read. A host writes it under
`i2c_lock`, clears the status cell, triggers, polls the cell and fetches the answer; the `Apb*` actions interpret what is in the memory,
command by command, and the `I2c*` actions are the controller's thread. A
peripheral answers or refuses (`I2cFail`); after a refusal `cmd` stays set, and
the controller gives it the same words again, any number of times. `Prompt`
says that a sequence, except where it polls, is faster than a packet; it is the
assumption the host makes of the FPGA (see section 7).

### Peripherals

An operation of the UART setters and of GPIO is a sequence of read-modify-write,
write and test accesses, each access a step. CTRL0 has the three enables as
fields of their own, which `uart_enable` and `uart_disable` write together and
the transmitter's and receiver's operations one by one. `set_value` of a pin
reads GPIO_STATUS, where an output shows what it was set to and an input what the
board drives (`Shown`), and writes all of it to GPIO_OUTPUT. `uart_write`, `uart_read` and
`spi_transaction` are their own loops of status and data accesses; the receive
status may show a byte that has been taken (`"stale"`), since the bit is sticky. `disturbed`
records a register that was written between another program's read and write,
`bare` that somebody called `uart_enable` or `uart_disable`, which take no lock,
`failed` that an operation under `uart_lock` ended half-way, and `leaked` the
input pins whose level was read to be written to GPIO_OUTPUT: the properties
name these as the only ways to lose a setting or a byte.

### Reactor

`loop` is the thread in `run`: compute the time-out, sleep in `poll`, drain the
pipe, serve descriptors, take the expired alarms and call them without the lock.
`actor` is the operation a thread (or the reactor's thread inside a callback) is
in; a new alarm gets its sequence number before the lock is taken, and the lock
is kept while a full pipe blocks the writer. `Jammed` is that state when the loop
cannot empty the pipe. Time is in ticks, `poll` counts in milliseconds and rounds.

### Reconnect

The reactor's thread is the stack `todo` of calls the current callback has still
to make; between two of them the application's threads run. `tap` is the
cancellation of the watchdog and its renewal in two steps; an alarm whose handle
was overwritten is an orphan that still fires. The device goes up and down,
enumerates, and may have messages queued from before it restarted.

### LinuxReceiver

The emulator sends `Packets` WRITE packets and one WRITE-IMMEDIATE per frame;
each is lost or arrives in a bounded socket. `mem` records which frame the bytes
of each packet's place come from. `signal` has three ways to find the next
buffer (`ReuseReady`, `DropOldest`, `UseAvailable`) and then waits, with the
mutex, for the copy out of it.

### RoceTransmitter

The operator's thread (`start`, `compute`, the `on_stop` callback with `flush`,
`stop`), the two threads and the NIC. A section under `mutex_` is one action;
only the transmission thread's predicate test and its sleep are two, because
`stop` changes `running_` without the mutex. `asleep` are the threads in
`cv_.wait`; they run again when somebody notifies. Tensor *k* travels with
`wr_id` *k* - 1, so that the record of what was transmitted (`wire`) shows
whether a buffer was filled again too early.

## 4. Runs

An invariant in a run is a conjunction of named parts (`QueueCorrect` is `TypeOK`,
`DescriptorsConserved`, `ReadyIsNewest` and `FramesAccounted`); each part has its
own comment in the module, and `mutants` lists a fault for the parts that say
most.

| run | instance | distinct states | shows |
|---|---|---|---|
| `roce` | 2 descriptors, 3 pages, 2 work requests, frame counter modulo 3, 4 frames | 74 000 | queue, wake-ups, completions and work requests; the refinement of `FrameStream` with its liveness; `stop` is final |
| `coe` | 3 buffers, 2 packets per frame, 3 frames, failing `recv` | 441 000 | the exchange of buffers, no stale bytes, delivery of the newest frame, `stop` returns |
| `linux` | queue of 2, 2 packets per frame, packet numbers modulo 4, socket of 2, 3 frames, bursts of up to 3 losses, failing `recv` | 237 000 | buffers are safe, losses visible and counted, the refinement of `FrameStream`, `stop` returns |
| `transmit` | 3 buffers, 5 tensors, 2 faults | 117 000 | tensors are sent whole and in order; `compute`, `flush` and `stop` return |
| `control` | 2 threads of a program, 2-word calls, with and without blocks, 2 sends per request, 3 calls, sequence numbers modulo 5 | 109 000 | correctness, atomicity and termination of calls under loss; host and device stay in step |
| `session` | 2 channels, 1 start, 1 reset, 2 configurations, 1 `set_delay`, 2 faults or restarts (2 with the reset and `set_delay`), 1 event | 1 791 000 | the device does what was configured, mask bits are private, `stop` returns |
| `lock` | 2 programs with 2 and 1 threads, no nesting, 1 failing `lockf`, 2 crashes | 298 | mutual exclusion and hand-over after crashes |
| `lock_nested` | nesting of 2 | | **violation**: the inner `unlock` lets another program in (`hololink.cpp:2464`) |
| `i2c` | 2 hosts, 2 shapes of transactions, 3 commands per word, 2 transactions, 1 repeated trigger, any number of refusals by the peripheral | 108 000 | own answers, intact microcode, sequences end unless refused for ever |
| `peripherals` | 2 programs, 2 pins, FIFO of 1, messages of 2 bytes, 1 byte received, 2 operations, 1 fault | 157 000 | settings, UART bytes and SPI answers; operations return |
| `reactor` | 2 threads, 1 descriptor, 2 ticks per millisecond, pipe of 2 read one message at a time, clock up to 2, 3 operations | 314 000 | order and cancellation of alarms; nothing forgotten and `stop` ends the loop, unless a writer blocks on the full pipe |
| `reconnect` | 2 controllers, one of which starts and stops, 1 orphan, 1 fault | 76 000 | controllers are ready, callbacks end with `unregister_ip`, the device comes back, loss is noticed |

The violation is a finding; `findings` in `PROJECT.json` quotes the line of the
repository it contradicts.

### Bounds

* `roce`: four frames with two descriptors fill the queue, drop a frame with a
  frame still waiting and go once around the ring of three pages; the 16-bit
  frame number is replaced by a counter modulo 3, which wraps. Work requests
  (256 in the code) are 2, so that they run out.
* `coe`: three frames make every buffer come back once to each side; two packets
  per frame are a packet that may be missing and the one that ends the frame.
* `linux`: three frames with a queue of two overrun it; bursts of three lose a
  whole frame with its immediate packet, and modulo 4 the packet number wraps
  within two frames.
* `transmit`: five tensors through three buffers use every buffer again; two
  faults let a second request fail while the first has the queues out of step,
  or a post fail before the queue pair goes into its error state.
* `control`: the first call opens the session, the other two are the writer and
  the reader of each other's registers. Two sends per request give one original
  and one repeated packet in flight. Sequence numbers (16 bits in the code)
  modulo 5 wrap within the run. Loss takes the oldest packet, queues are FIFO:
  a UDP path to a directly attached device does not reorder.
* `session`: two configurations are both channels, or one channel twice around a
  reset; registers that are written together without a decision in between are
  two groups, so that an interruption can fall between them. Two faults are what it
  takes for a restart and the lost request whose retry the cleared device executes.
  Faults, resets and `set_delay` together are limited to two (`MaxTrouble`); the
  proofs have no such limit.
* `lock`: a second thread in one program tells the mutex and the file lock
  apart; two crashes let the second one hit a lock that was handed on.
* `i2c`: with three commands per word one shape fills its last command word
  exactly and the other does not; the second transaction finds the cells as the
  first one left them. Refusals are not counted: they change nothing but the status.
* `peripherals`: two operations of two programs are every overlap of two; a FIFO
  of one is full after every byte; with two pins the one that is an input shows its
  level to the `set_value` of the other.
* `reactor`: three operations are an alarm, its cancellation and a third thread's
  alarm, descriptor or stop; two ticks per millisecond make the rounding of the
  time-out visible; a pipe of two is full before the third operation's message, so
  that its writer blocks, with the loop asleep or on its way to `lock_`.
* `reconnect`: one controller finds the device, the other joins and leaves at any
  moment; one fault is a restart, a failing access or a late frame, after which
  the system has to come back by itself.

Runs turn TLC's deadlock check off where the system may stop: the bounded number
of frames or calls is used up, or the operator has been stopped. `lock` and
`lock_nested` keep it on.

### Fairness

* `RoceReceiver`, `CoeReceiver`, `LinuxReceiver`: weak fairness of the receiver
  thread, of the operator's or application's steps and of the CUDA stream:
  threads that can run are scheduled and copies complete. Nothing makes the
  device send, the network deliver, or the application stop.
* `RoceTransmitter`: weak fairness of the three threads, the NIC and the streams;
  no tensor has to come and nobody has to stop.
* `ControlPlane`: weak fairness of a thread in a call; `select` returns at the
  deadline. The network and the device are not fair.
* `Session`: weak fairness of the event thread and of `stop`.
* `I2cBus`: weak fairness of the device's two threads; hosts may stop anywhere. A
  peripheral need not ever accept: `SequencesEnd` is conditional on `<>[]~Refused`.
* `Peripherals`: weak fairness of a program inside an operation: the waits are
  bounded by a `Timeout`.
* `Reactor`: weak fairness of time, the loop and a thread inside an operation. The
  properties are conditional on `[]<>~Jammed`, that no full pipe blocks for ever.
* `Reconnect`: callbacks return; the loop serves its alarms and its socket in turn
  (strong fairness, since `lock_` and the GIL come and go); a device that is up
  keeps enumerating; PTP settles or `check_ptp` gives up.
* `NamedLock`: a thread that has entered `lock` or `unlock`, or holds the lock,
  goes on. Nobody has to ask for the lock, and no thread is promised the lock
  itself: neither `lockf` nor the mutex is fair.

## 5. Proofs

| theorem | property | inductive invariant |
|---|---|---|
| `RoceReceiver_proofs!QueueIsCorrect` (with `TypeCorrect`, `DescriptorsAreConserved`, `ReadyHoldsNewest`, `EveryFrameAccounted` for its parts) | `QueueCorrect` | `QueueInv` |
| `RoceReceiver_proofs!NoWakeupIsLost` | `NoLostWakeup` | `WakeupInv` |
| `RoceReceiver_proofs!StopIsNever` | `NeverMeansNever`, a part of `StopIsFinal` | `NeverInv`: once `stop` has set EVENT_NEVER the monitor has exited |
| `RoceReceiver_proofs!CompletionsAreServed` | `CompletionsServed` | `ServedInv` |
| `RoceReceiver_proofs!WaitingFramesAreIntact` | `WaitingFrameIntact` | `FramesInv` (theorem `FramesInvariant`) |
| `RoceReceiver_proofs!FrameNumberIsExtended` | `FrameNumberExtended` | `FramesInv`, `CounterInv` |
| `RoceReceiver_proofs!StreamImplemented` | safety of `ImplementsFrameStream` | `FramesInv`, `AskedInv` |
| `CoeReceiver_proofs!CoeExchangeCorrect` (with `CoeTypeCorrect`, `CoeBuffersDisjoint`, `CoeNoOverwrite`, `CoeNewestReachable` for its parts) | `ExchangeCorrect` | `Inv` |
| `CoeReceiver_proofs!CoeNoStaleBytes` | `NoStaleBytes` | `Inv` and what every buffer can show |
| `LinuxReceiver_proofs!BuffersAreSafe` | `BuffersSafe` | `BuffersInv` (theorem `BuffersInvariant`) |
| `LinuxReceiver_proofs!LossesAreVisible` | `LossesVisible` | `LossInv` (theorem `LossInvariant`) |
| `LinuxReceiver_proofs!LinuxStreamImplemented` | safety of `ImplementsFrameStream` | `StreamInv` |
| `RoceTransmitter_proofs!TransmitIsCorrect` | `TransmitCorrect` | `TransmitInv` (theorem `TransmitInvariant`) |
| `ControlPlane_proofs!CallsAreCorrect` | `CallsCorrect` | `ControlInv` (theorem `ControlInvariant`) |
| `ControlPlane_proofs!HostAndDeviceInStep` | `InStep` | `ControlInv` |
| `ControlPlane_proofs!ControlTypes`, `FirstLapIsSafe` | both of the above, without an assumption on the network | `LapInv` |
| `Session_proofs!DeviceIsAsConfigured` | `DeviceAsConfigured` | `SessionInv` (theorem `SessionInvariant`) |
| `Session_proofs!BitsAreOwn` | `OnlyOwnBit` | `SessionInv` |
| `Peripherals_proofs!LockTypeCorrect`, `LockExcludes` | `TypeOK`, `MutualExclusion` of `NamedLock` | `LockInv` |
| `Peripherals_proofs!RegistersAreAsSet` | `RegistersAsSet` | `CoreInv` (theorem `PeripheralsInvariant`) |
| `Peripherals_proofs!UartBytesAreWhole` | `UartBytes` | `CoreInv` |
| `Peripherals_proofs!SpiAnswersAreOwn` | `OwnSpiAnswer` | `CoreInv` |
| `Peripherals_proofs!SequencesRunAsEncoded` | `I2cTypeOK`, `OwnWords`, `OncePerTrigger`, `AsEncoded`, `NeverAborts`: `SequencesIntact` without `OverwrittenOnlyAfterFault` | `I2cInv` (theorem `I2cInvariant`) |
| `Peripherals_proofs!SequencesAreIntact` | `SequencesIntact` | `I2cInv` |
| `Peripherals_proofs!AnswersAreOwn` | `OwnAnswer` | `I2cInv` |
| `Reconnect_proofs!ControllersAreReady` | `ControllersReady` | `ReconnectInv` (theorem `ReconnectInvariant`) |
| `Reconnect_proofs!NoCallbackOnceUnregistered` | `NoCallbackAfterUnregister` | `ReconnectInv` |
| `Reconnect_proofs!AlarmsAreCorrect` | `AlarmsCorrect` of `Reactor` | `ReactorInv` |

### Assumptions

They hold for every value of the constants that the `ASSUME` of the module
allows. Apart from types and distinct model values these say:

* `RoceAssumption`: the queue is not larger than the number of pages
  (`roce_receiver_op.cpp:89`), and the narrow frame number counts at least to 2.
* `CoeAssumption`: there are three buffers.
* `LinuxAssumption`: fewer packets in a row are lost than the packet number
  counts (2^24 in the code); a loss of a whole lap is invisible to anybody.
* `SessionAssumption`: 0 is no frequency, and is the default delay.
* `PeripheralsAssumption`: the flow-control pins are not used through GPIO.
* `I2cAssumption`: a transaction writes and reads at most 64 words, the size of the
  controller's data buffer.
* `LockAssumption`, `ReconnectAssumption`, `ReactorAssumption`: types, distinct
  model values, and bounds that are not 0.

Three groups of theorems have hypotheses beyond these. Those about `NamedLock` assume
`MaxDepth = 1`, without which `lock_nested` refutes them. Those about
`ControlPlane` assume `[]NotReused`: no packet is still on its way when its
sequence number is given out again. The code matches replies by that 16-bit
number alone, so this lifetime of packets is what its correctness rests on: a
reply delayed for 65536 requests would be taken for the answer to another one.
`FirstLapIsSafe` shows that nothing has to be assumed while a session makes fewer
requests than there are numbers, and the run `control`, whose numbers wrap, checks
a lap without the assumption, within its bounds on what is in flight.
`SequencesAreIntact` and `AnswersAreOwn` assume `Prompt = TRUE`, that the device is
through with a sequence, up to a poll, before the next packet arrives: the sequence
caches the status before the answer, so without it a host that polls in between
fetches cells that are not filled yet (section 7). `SequencesRunAsEncoded` does not
need it: what is executed is right at any speed.

### Arguments

* `RoceReceiver`, the queue: that `DropOldest` finds something to drop needs all
  descriptors to be in exactly one of the two queues, which in turn needs the
  queues to be free of repetitions; that dropped frames add up needs the
  completion numbers in `ready` to be consecutive and to end with the last one.
  `QueueInv` is the conjunction of these facts. Lemmas state what `Append` and
  `Tail` do to a queue without repetitions.
* `RoceReceiver`, the frames: `FramesInv` adds that the device works on one frame
  at a time and a page keeps the last frame written to it, that the frames between
  device and operator are ordered and counted, and that a descriptor points to the
  page of its frame. The distance between the oldest waiting frame and the one
  being written is then less than the number of pages whenever the hypotheses of
  `WaitingFrameIntact` hold. The same order makes the difference of two device
  frame numbers positive and less than a lap, which is all `ExtendedCounter` needs.
* Wake-ups: `NoLostWakeup` becomes inductive with two facts about the operator:
  `running_` is TRUE from `start` to `stop`, and a `compute` that waits was called
  with the condition EVENT_DONE (`WakeupInv`). `ServedInv` counts the work requests
  and says that between `ibv_req_notify_cq` and `ibv_get_cq_event` the queue is
  armed or its event is pending, and that nothing is handled before the first
  arming.
* The refinements: `FrameStream`'s queue is the sequence of frame numbers in
  `ready`. One action of the receiver is one step of the stream or none, except
  that `LinuxReceiver` gives a frame up and queues the new one in two steps: the
  mapping moves both to the second step, and `SyncInv` remembers why the first was
  allowed.
* `CoeReceiver`: `Inv` is `TypeOK`, what holds before `run` has set the pointers
  up, disjointness, `CopiesCaptured` (a copy in flight is from the application's
  buffer, or from the one last given back and covered by `event_` or by what
  `signal` waits for) and reachability of the newest frame. Disjointness alone
  does not give `NoOverwriteInFlight`: the copy outlives the exchange.
* `LinuxReceiver`: `LossInv` looks at the packet at the front of the socket (or
  the one sent next): its number differs from `last_psn` by exactly the packets
  lost in between; while nothing was lost since the last frame ended it is the next
  packet of the frame being received. So a frame with all its bytes and no loss
  counted is whole, also when immediate packets were lost before it.
* `RoceTransmitter`: every request that is not finished has its buffer in
  `sent_buffers_`, at its own position if nothing failed and behind the failed
  ones otherwise (`Recorded`). A buffer popped for another request is therefore
  never one that the NIC still has.
* `ControlPlane`: only the holder of `execute_mutex_` has a number in use; messages
  with that number belong to its call (`OwnInv`), so words answered for are written
  or were read during the call (`DoneInv`); unless a call was
  given up, the device is at rest between calls and has seen the request of the call
  in progress or will (`StepInv`).
* `Session`: what a channel knows of its port is true as long as the device has
  not adopted a retry, or the channel has begun its configuration since it was
  cleared (`PortsInv`), and what it has read of DP_VP_MASK is the mask unless the
  device was cleared meanwhile (`TornInv`). A restart alone makes the device refuse
  what is not a retry, so a knowledge that is out of date is not acted on. The VSYNC
  registers follow the synchronizer except while the holder of `mutex_` is between
  two writes (`VsyncInv`); that they run for every peer needs that one peer at a time
  sets up or shuts down, which holds until a race (`PeersInv`).
* `NamedLock`: exclusion is not inductive; a thread inside owns the mutex of its
  process, and that process owns the file. `Unlock` keeps the second fact for
  everyone else only because of the first.
* `Peripherals`: what the accesses of an operation may do to CTRL0 is proved from
  the scripts' definitions (reset bits are set only by `uart_configure`, which
  clears them with its next access; an operation that disables the port ends by
  enabling it). `AgreeInv` says that a program between read and write agrees with
  the register on the fields it does not set, unless the register was disturbed or
  the field is an input pin, which is then in `leaked`.
  The attempt to prove `UartBytes` refuted an earlier form of it that had held in
  the run of two operations; section 7 describes the case, and the property now
  names it.
* `I2cBus`: the invariant needs to know where in the buffer the command and the
  operands of every call are, for every transaction and any number of commands per
  word. `Placed` and `Layout` say so, by induction over the calls (`BufferLayout`);
  the induction goes through sets (`NumberInduction`: a set that contains 0 and
  with a number its successor contains all). `CurrentInv` then says of the sequence
  in the memory that the interpreter stands at the call it has counted to (`RunAt`);
  that the registers and the controller hold what the calls so far put there
  (`RunData`); that once the status cell shows DONE the answer cells hold this
  transaction's answer, those excepted whose RD command has not been executed since
  (`StoreInv`); and that every transaction the peripheral has executed has a trigger
  of its own (`CountInv`), however often it refused it before. `BusSteps` carries this over each device step; `FoundInv` says
  that a host that goes on to fetch has a finished sequence in the memory, and that
  what it fetched is the answer. All of it holds as long as no sequence was
  overwritten; `FaultInv` shows that this takes a host that gave up, or a trigger
  that was repeated, since without one the device is idle when nobody waits for it.
* `Reconnect`: between callbacks the properties are about the device alone, but
  inside one the state changes before the controllers are told, `lost` may run
  inside `goto`, and a late controller is told the state before it is one of the
  connected. `ReconnectInv` therefore relates the state to the calls that are left
  on the stack: a state still to be told is the device's, or the rest of a `goto`
  the device was lost in (`TellInv`, `OnceInv`); `lost` tells everyone before it
  forgets them (`LostInv`); a controller joins after it was told (`JoinInv`); and a
  connected controller without a sensor or a watchdog is about to be told. That the
  callbacks of a controller end before `unregister_ip` returns rests on `lock_`
  being held exactly while `unlock` is left on the stack (`EndInv`).
* `Reactor`: a thread takes its sequence number before `lock_`, so an alarm can be
  pushed after one with a larger number. `ReactorInv` says that numbers are handed
  out once (`NumbersInv`, `PendingInv`), that an alarm is waiting, taken, called or
  cancelled, and in one place (`PlaceInv`), that both lists are sorted and what was
  taken was due (`SortedInv`), and that nothing is left behind an alarm that was
  taken or called (`AlarmOrderInv`). `Sorted` gives the result of `push_back` and
  `std::sort` by the place of the new entry, so the proof needs no recursion.

### Only model-checked

Liveness and everything that needs fairness, which are outside the prover's reach:
the fairness of both refinements of `FrameStream`, `NewestDelivered`, the
properties that calls, operations, sequences and `stop` end, `LockHandedOn`,
`NothingForgotten`, `RunsAgain`, `LossNoticed`.

## 6. Abstractions and what is left out

* Payload, headers, time stamps, CRCs, logging and tracing are left out; frames,
  tensors, calls and transactions are numbers.
* Failing ibverbs, CUDA and pthread calls mostly end the program with an
  exception; the failures the code goes on from are modelled (a failing `recv`, a
  failing `lockf`, time-outs, failing posts and requests, accesses given up).
* Time is the event "it timed out", possible at any moment, except in `Reactor`,
  where it is a clock.
* `LinuxReceiver`: a datagram of somebody else that is as long as a header is counted
  into `packets_dropped` and `last_psn` (lines 233-239) before line 312 rejects it,
  and an immediate packet with a metadata size that is not the expected one is
  reported (lines 276-278); only shorter datagrams (`RecvRunt`) are modelled. The
  network carries no others to this port.
* `uart_configure` reads CTRL0 and CTRL1 before it writes them in turn; the model reads
  each just before its write, under the same lock.
* A callback that unregisters an enumeration handle from the reactor's thread, which
  `enumerator.cpp:861` allows for, is left out; `hsb_controller.py` does not do it.
* Outside `ControlPlane` a control-plane access is one step with the outcomes
  that `ControlPlane` shows to be possible: executed once, executed twice after a
  lost reply, given up and executed, given up and not executed.
* The device, the network, the CUDA stream, the NIC and the end of a process are
  external and modelled from how the code uses them; where the emulator
  implements a part of the device, that part is modelled from the emulator.

### Not modelled

* `GpuRoceTransceiver`, SIPL, FuSa and Argus capture: the protocol is in CUDA
  kernels and closed libraries (DOCA, SIPL, Argus) whose behaviour the calls in
  this repository do not show.
* Sensor drivers: beyond start and stop, which `Session` has for the VB1940, and
  their use of the I2C lock, they are tables of register values. A model could
  only repeat the tables; these are most of the repository's lines.
* Image, signal and audio operators: computations on one frame on the GPU.
* `PacketizerProgram`, JESD configuration, `Timeout`'s arithmetic, serializers,
  metadata, parsing of enumeration packets: conversions of values without
  interleaving, whose tests compare the values directly.
* Sequences for frame and GPIO events with their cached masks; the table of
  `Hololink` objects by serial number; the emulator's CoE transmitter, register
  memory, sensor emulators and its STM32 port; tools, flashing and examples.

Because tables, wrappers of closed libraries and GPU code are the bulk of the
source, the models cover a small share of its lines; they cover most of the lines
where threads, programs, the device and the network meet.

## 7. Further observations

Met while modelling; none of them is excluded silently: where a property has an
exception, its comment names it.

Data plane

* A completion that arrives before the first `ibv_req_notify_cq`
  (`roce_receiver.cpp:534`) raises no event; its frame is found only with the
  next one (`StrandedOnlyAtStart` allows exactly this).
* `frame_ready_` is called after `ready_mutex_` is released, so `compute` may
  already have taken the frame; the callback then schedules a `compute` that
  waits for the next frame (`roce_receiver.hpp:124` says it would not block).
* The completion queue has 100 entries for 256 receive work requests
  (`roce_receiver.cpp:294`). When `fcntl` fails in `RoceReceiver::start` the
  ibverbs resources are not freed.
* `LinuxCoeReceiver::get_next_frame` can return an older frame after a newer one:
  `available_.exchange` and `ready_` are two steps (`linux_coe_receiver.cpp:302`;
  the header, line 89, says "Block until the next complete frame arrives"). When `recv` fails, `run` frees its
  buffers while `get_next_frame` may use `busy_` (lines 313 and 381).
* The first buffer of `LinuxCoeReceiver` and of `LinuxReceiver` is never filled
  with 0xFF; packets missing from the first frame leave uninitialised memory.
* `LinuxReceiver::run` empties its queues without the mutex after `recv` fails
  (line 316); the operator closes the socket before it calls `close`
  (`linux_receiver_op.cpp:178`), so its number can be reused under the reader; a
  page beyond `pages_` throws on the thread (line 299).
* `RoceTransmitterOp::stop` clears `running_` and notifies without `mutex_`
  (lines 382-383). If this falls between the transmission thread's test and its
  sleep, `join` waits for ever; `StopReturns` excludes exactly this case.
* A request that cannot be posted, or completes with an error, leaves its buffer
  in `sent_buffers_`: every later completion returns the buffer before it, and
  `flush` without a time-out never returns. A `Store` that throws loses its
  buffer. `OperationsReturn` says how far this goes.
* The comment at `roce_transmitter_op.cpp:323` says that the queue is one larger
  than `queue_size`; the loop below it allocates `queue_size` buffers, so the one
  being transmitted counts. `flushing_` is never read.

Control plane and session

* `read_uint32_block_` builds its packet once and repeats it with the sequence
  check on (`hololink.cpp:735`). When only the reply was lost the device has moved
  on and refuses the repetition, so the call throws, while `read_uint32` and
  `write_uint32` clear the check (`test_hololink_acks.py:143`, "Show that we can
  retry a lost read reply"). `NoSpuriousFault` excludes exactly this case.
* A retry is sent unchecked while the refusal of the first attempt may still be
  on its way; the write is then executed and nevertheless reported as a fault.
* A call that gives up may leave the device's sequence number behind; every
  later checked call faults until the session is configured again.
* Every program counts from 0x100 (`hololink.hpp:996`): two programs that have
  made equally many transactions hold the same sequence number, and neither
  notices the other (`hololink.cpp:2702` says a fault would be triggered).
* The `Timeout` of a call is created before `execute_mutex_` is taken, so waiting
  for another thread uses it up.
* `Hololink::start` sets `started_` first; when `configure_hsb` throws, another
  `start` does nothing. After an unexpected restart of the device `reset` itself
  throws, since its first access is checked.
* `stop` closes the event socket (line 292) while the event thread may be in a
  callback; the `recvfrom` that follows throws (line 2848) and ends the process.
* `Synchronizer::detach` decides under its mutex and calls `shutdown` after it
  (lines 2583 and 2600); an `attach` in between leaves a peer on a synchronizer
  that is off (`raced` in `Session`).
* A retry is unchecked also when the device has restarted since the first attempt
  (`hololink.cpp:416, 441, 598`). The device executes it and follows its number
  (`hsb_emulator.cpp:696-706`), so host and cleared device are in step and the
  operation goes on: after a restart between two writes of `configure_roce` the
  final `or_uint32` then enables a port half of whose registers are 0, and the
  retried write of a DP_VP_MASK value read before the restart sets the bits of other
  channels in the cleared device. `TransmitsConfigured` and `OnlyOwnBit` name these
  cases (`adopted`, `torn`). That a restarted device happens to expect the number
  the host sends next (1 in 65536), or that an old packet reaches it late, is left
  out.
* `unconfigure` leaves the port of a Leopard Eagle board transmitting;
  DP_PACKET_SIZE is shared by the channels of a host interface.
* A failing `lockf` leaves `process_mutex_` locked (line 2455). The static
  `NamedLock`s are named after the first device's serial number.

I2C, APB events, peripherals

* On the emulator, whose interpreter is not faster than a packet, the status is
  cached before the answer is stored (comment near `hololink.cpp:2225`): a host
  that polls in between fetches cells that are not filled yet. `Prompt = TRUE` is
  the assumption that excludes this.
* `sequence_poll` of the emulator has no time-out although `hololink.hpp:441` says
  that a poll times out. When a peripheral refuses, the controller leaves `cmd` set and
  executes the same words again without end (`hsb_emulator.cpp:560-566`); peripherals
  refuse by content (`vb1940_emulator.cpp:176-201`), so this sequence and all that
  follow it hang. `SequencesEnd` names this case (`Refused`). Sequences of more than 64 words reach into the next
  event's region. The cached masks of APB events (lines 2772-2813) are not
  synchronised.
* `PtpSynchronizer::setup` writes the whole of VSYNC_GPIO (line 3191), which is the
  same register as GPIO_MUX_EN, and clears the bit that the UART sets "always"
  (near line 1474).
* The UART's setters end with `uart_enable`, also when the port was disabled on
  purpose, or its transmitter or receiver with `uart_tx_disable` or
  `uart_rx_disable`; an access that fails in between leaves it off.
* `GPIO::set_value` reads GPIO_STATUS (`hololink.cpp:2346, 2352`, where a comment
  says "Read output register values") and writes GPIO_OUTPUT, so the levels of input
  pins end up in the output register and are driven when such a pin is made an output
  later (`leaked`).
* RX_FIFO_NOT_EMPTY is sticky (`hololink.cpp:1302`, 1315-1318: "how to reset the RX
  FIFO Not Empty sticky bit?"), while `docs/user_guide/hardware_debug.md:105` calls
  it a state of the FIFO. `uart_read` may read an empty FIFO after such a status and
  count the byte; `FifosRespected` says nothing of a status that was not true when it
  was read.
* `uart_enable` and `uart_disable` read and write CTRL0 without `uart_lock` (lines
  1691 and 1707). One that reads CTRL0 while another program's `uart_configure` has the
  FIFO reset bits set (line 1396), or after it failed with them set, writes
  them back later: the receive FIFO is emptied under a `uart_read` that has just
  seen a byte in it. Three operations of two or three programs are needed, one
  more than the run `peripherals` has; `FifosRespected` names this exception.

Reactor and reconnection

* A full wake-up pipe blocks the writer in `wakeup()` with `lock_` held
  (`reactor.cpp:200-206, 329-333`), and the loop takes `lock_` (line 231) before it
  drains the pipe: unless it was in `poll`, alarms, descriptors and `stop` wait for
  ever. A pipe of 64 KiB holds 8192 of these
  messages, so this takes that many operations in one round of the loop. `NothingForgotten` and `StopEnds` name this case (`Jammed`). A descriptor that is
  closed and reused between `poll` and the callbacks gets the old one's events.
* `register_ip` and `unregister_ip` keep the GIL while they wait for `lock_`
  (`python/hololink/hololink.cpp:366-383`), which the reactor holds while it waits
  for the GIL: a deadlock, named `GilDeadlock` in `Reconnect`.
* In `hsb_controller.py`: `now` is read before the reset (line 90), and a reset
  takes 0.2 s or more, so enumeration messages queued before it pass the test of
  their age (lines 119-124). A `found` that fails inside `goto` runs `lost` inside
  it. `stop` leaves the controller in the device's set; when the controller that
  found the device first is stopped, a lost device is never found again. A `tap`
  that races with `lost` leaves a watchdog that nobody can cancel. The assertions
  at lines 215 and 218 can fail for a controller that starts late. An exception of
  a device call in a callback ends the process: in a reset, in
  `post_reset_configuration`, in `found` outside its `try` (line 237) and in `run`
  (`linux_controller_receiver.py:135-137`). What has to happen after a restart is
  stated of programs that have not ended (`Ended`).
