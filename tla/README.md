# A formal model of the FreeRTOS / Linux / Gazebo demo

The repository is a small distributed control system: a simulated robot
(Gazebo) whose wheel speed reaches sensor firmware (FreeRTOS on an emulated
STM32F4), which sends it over UDP to an actuator program (Linux), which drives
the robot. The TLA+ modules here model the programs of the repository, TLC
checks them on small instances, and TLAPS proves the properties that matter most
for every value of the constants.

## 1. The system

### Components

| Component | Source | State | Operations | Runs in |
|---|---|---|---|---|
| Comms | `freertos/src/comms.c` | queue `g_comms_queue` (8 slots), `wire_msg`, `mutator_state`, `voltage_spiked` | `comms_send_sensor_data`, `comms_send_voltage_data`, `comms_recv`, the task | task of priority 3; the two send functions in the caller's task |
| VoltageMonitor | `freertos/src/voltage_monitor.c` | `millivolts`, `mv_delta`, `g_do_voltage_spike`, the state of `rand8` | one update per 100 ms | task of priority 2 |
| Sensor | `freertos/src/wss.c` | the last measurement | request, read the registers, trace, post, per 100 ms | task of priority 2 |
| Wheel speed peripheral | `freertos/sensor_models/wss.py` | registers, `g_msg_q` (32 slots), clients | register reads and writes; accept, receive | the emulator's CPU thread; server threads |
| IMU relay | `gazebo/imu_relay/ImuRelay.cc` | `connected`, `bump_detected`, a socket; samples wait in the transport | IMU callback, contact callback | callbacks of the simulator's transport |
| Actuator program | `linux/src/main.c`, `linux/actuator/actuator.cpp` | `g_exit_signaled`, `duty`, the Twist counter | poll, classify, actuate, stop | a process, and its signal handler |
| Trace port | `freertos/src/trcStreamPort.c` | server and client socket | read, write, end | the recorder's TzCtrl task |
| Task statistics | `freertos/src/stats.c` | name table, snapshot | one report per second | task of priority 4 |
| Boot, hooks, logging | `main.c`, `hooks.c`, `modality.c`, `logging.c`, `syscall.c`, `timer.c` | `g_startup_nonce`, string handles | initialisation, `vAssertCalled`, the malloc and stack hooks | `main`, any task |
| Tracepoints | `linux/include/tp.h`, `app_types.h` | none | one event per tracepoint | the actuator program |
| Emulator and test framework | `emulate.resc`, `renode/commands.py`, `test_suite.robot` | the nonce and the spike flag they write | start, reset, stop | outside the firmware |
| IP glue | `freertos/src/ip.c` | `g_next_rand` | seed, random numbers, network event hook | `main`, the IP task |

### Interaction

    Gazebo --IMU, contacts--> ImuRelay --TCP, JSON--> wss.py --registers--> Sensor
                                                                              | queue
                                       VoltageMonitor --------- queue -----> Comms
    Gazebo <--Twist-- actuator program <-------------- UDP broadcast ----------+

The Sensor and the VoltageMonitor post to the queue of Comms without waiting;
Comms preempts both. A voltage reading of `MV_SPIKE` makes Comms corrupt one
header field of the next datagram, on purpose: the demo shows that the actuator
program ignores corrupt messages. The actuator program answers every intact
datagram with one more step of velocity, whatever the speed in it, until a
signal stops it. A datagram of another size, or a system call that fails, ends it in
an assertion, and the robot keeps its last velocity.

### What is hard

- The spike notice and the measurement it is meant for come from two tasks
  through one bounded queue that drops; the notice is held in a flag until a
  measurement is received.
- "A measurement is sent before the next one" is a matter of priorities and of
  how long `FreeRTOS_sendto` and the network take.
- The actuator program reads its signal flag in one place only, and stops the robot on
  the normal way out only.
- UDP loses, reorders and duplicates; the receiver ignores sequence numbers.
- The registers of the peripheral are read one by one while threads of another
  process feed it; TCP delivers bytes, not messages.
- The relay's IMU callback may block in `connect()` or `write()` with samples waiting,
  while the contact callback sets the latch it is about to read.
- The recorder's entry table is shared: tasks, queues and channels are registered by
  every task, and the statistics task adds its names to them.
- Two variables survive a reset (`.noinit`), everything else does not, and a reset
  can come between any two calls of `main`. Nobody looks at the result of
  `xTaskCreate`.
- Walks and clamps at their limits: `rand8()` may return 0, the spike level
  equals the maximum, the duty is clamped after it was increased.

`PROJECT.json` lists each hazard with its line and its properties.

### What makes each component correct

- **Comms**: a datagram is corrupt exactly when a spike was queued between its
  measurement and the one before, and then in one field; what enters the queue
  is delivered once, in order, numbered consecutively.
- **VoltageMonitor**: stays in range; reports spikes only when asked to, and then
  again and again.
- **Firmware as a whole**: the micro local control cycle of
  `specs/system.speqtr`, where the code keeps it; producers never wait;
  measurements get out.
- **Actuator program**: only intact datagrams move the robot, one step at a time;
  every Twist matches its `set_pwm` trace; a signal stops the robot, with at most
  one late actuation, unless an assertion fails first.
- **Actuator's trace**: every control cycle shows the case of
  `specs/system.speqtr` that its datagram calls for.
- **Start-up**: the nonce identifies one boot and arrives; spikes are made only on
  request; the scheduler starts only a whole system; no message goes to a channel
  that is not registered.
- **Relay, peripheral and Sensor**: readings are not torn, repeated or reordered;
  the bump bit marks exactly the samples whose callback ran after the first contact;
  the contact is detected.

## 2. Modules

| Module | Models | Kind |
|---|---|---|
| `WireProtocol` | `wire_protocol.h` | operators |
| `Comms` | `comms.c` with arbitrary producers | component |
| `SensorLink` | what Comms promises | abstract specification |
| `VoltageMonitor` | `voltage_monitor.c` | component |
| `Rand8Generator` | `rand8()` of `voltage_monitor.c` | operators |
| `VoltageRand8` | `VoltageMonitor` with that generator | composition, implements `VoltageMonitor` |
| `WheelSpeedSensor` | `wss.c` as its neighbours see it | component, abstract for `ImuLink` |
| `Firmware` | `Comms`, `VoltageMonitor` and `WheelSpeedSensor` under the scheduler | composition |
| `Actuator`, `ActuatorProgram` | `linux/src/main.c`, `actuator.cpp`; alone in a closed world | component |
| `ActuatorTrace` | `ActuatorProgram` with the tracepoints of `tp.h` | component |
| `ControlLoop` | `Comms`, the UDP network and `Actuator` | composition |
| `ImuLink` | `ImuRelay.cc`, `wss.py` and `wss.c` | composition |
| `TraceStreamPort` | `trcStreamPort.c` and its clients | component |
| `TaskStats` | `stats.c` while tasks are created | component |
| `Startup` | `main.c` and the functions it calls, resets, the emulator's and the framework's writes | component |
| `CommsProofs` | theorems about `Comms`, and that it implements `SensorLink` | proofs |
| `FirmwareProofs` | theorems about `Firmware`, from those of `CommsProofs` | proofs |
| `VoltageProofs` | theorems about `VoltageMonitor`, `Rand8Generator` and `VoltageRand8` | proofs |
| `ActuatorProofs` | theorems about `ActuatorProgram` and `ActuatorTrace` | proofs |
| `ControlLoopProofs` | theorems about `ControlLoop`, from those of `CommsProofs` and `ActuatorProofs` | proofs |
| `ImuLinkProofs` | theorems about `ImuLink`, and that it implements `WheelSpeedSensor` | proofs |
| `RecorderProofs` | theorems about `TaskStats` and `TraceStreamPort` | proofs |
| `StartupProofs` | theorems about `Startup` | proofs |
| `MC...` | small values for TLC | model checking |

How they compose: `Firmware` EXTENDS the three components and conjoins their
actions with the scheduler's guard; `ControlLoop` EXTENDS `Comms` and `Actuator`
and adds the network; `Comms` implements `SensorLink`, `ImuLink` implements
`WheelSpeedSensor`, `VoltageRand8` implements `VoltageMonitor` with its fairness,
`Firmware` implements each of its three components, and `ControlLoop` its two,
each by a refinement mapping or by inclusion of steps. `ControlLoopProofs` takes
the invariant of `ActuatorProofs` through `INSTANCE ActuatorProofs WITH Datagram <-`
what is on the wire.

### How state and actions correspond to the code

Actions carry the name of the function they model where there is one. An action
is one stretch of a function between two points where another task, thread or
process can come in. Variables carry the code's names; `..._pc` says where a task
is; `h_...` is history that no guard reads; `X_Something`, placed before `X`, is
`X` with a plausible bug and is used by nothing but the mutation checks listed in
`PROJECT.json`.

- **Comms.** `comms_pc` is `netwait` (the loop that polls
  `FreeRTOS_IsNetworkUp`), `recv` (inside `xQueueReceive`), `sendto` and
  `blocked` (inside `FreeRTOS_sendto`, runnable or waiting for a network buffer)
  or `asserted`. With `INCLUDE_vTaskSuspend` 0, `portMAX_DELAY` is a finite wait: when
  the queue stays empty that long the assertion of line 73 fails
  (`CommsRecvTimesOut`). `Firmware` leaves that step out: its VoltageMonitor posts
  every 100 ms, and the wait is 2^32 - 1 ticks. `CommsVoltage` and `CommsWheelSpeed` are the two branches after
  `comms_recv`. `h_spike` remembers that a spike was queued since the last
  measurement; it travels with the next measurement and comes out as `h_hit`. The
  mapping to `SensorLink` keeps the measurements of the queue: `FirstItems`, a
  recursive function on its prefixes.
- **VoltageMonitor.** `VoltageUpdates(draw)` is one pass of the loop, `draw` being
  what `rand8()` returns if it is called. `Moved`, `Bounded`, `Slope` and `Held`
  are its successive statements.
- **Rand8Generator, VoltageRand8.** The static variables of `rand8()` are one record;
  the byte returned and what the call leaves behind are two operators. The walk
  calls it where it meets an end (`AtEnd`). `Value` is the number the bytes and the
  carry stand for, digit by digit (`Newest`, `Weight`).
- **WheelSpeedSensor.** Wakes, measures or not, posts. In `ImuLink` the measuring is
  split into the accesses to the registers.
- **Firmware.** A task steps if it is ready, no ready task has a higher priority
  (`Preempted`) and no assertion has failed (`Running`). Equal priorities are time sliced, so
  either may step. A task is only preempted between actions;
  `xQueueSend` is atomic in FreeRTOS and the rest of a task's data is its own.
- **Actuator.** `actuator_pc` follows `main`; `Signal` may come at any point. A datagram
  is `whole` or not: `Receive` takes a whole one, `ReceiveShort` one of another size,
  which aborts unless a stale `errno` of `EAGAIN` lets the assertion pass. `CallFails`
  stands for the other assertions of `main.c` and for `actuator_new`. `aborted` is the
  end: no zero velocity is published. `twist`
  is what the simulator was last told, `h_pwm` the last `set_pwm` trace.
- **ActuatorTrace.** Each action of `Actuator` with the events it traces; `h_cycle`
  holds those since the last `received_msg`. The reason of an `invalid_msg` goes
  through the program's enumeration and the tracer's, as in the code.
- **ControlLoop.** `net` is the set of datagrams in flight: delivery in any order,
  loss, and repetition (which sets `h_duplicated`). The firmware sends whole datagrams
  only, so `ReceiveShort` never fires here and is not part of it.
- **ImuLink.** `imu_topic` holds the samples that wait for the IMU callback. The
  callback is `Connect` or `ConnectFails`, then `msg_cb`, which reads the latch and
  writes, or `WriteFails`; contacts, and new samples, come in between.
  `tcp` is the byte stream as a sequence of messages, the one a blocked `write()` holds
  included; `OnUnframed` is a `recv()` that is not exactly one message. `Receiver` is the
  receive thread; register reads are actions of the Sensor task because the
  emulator runs them in the CPU's thread.
- **TraceStreamPort.** Both entry points begin with `OpenSockets`, or with
  `OpenAsserts` if a socket call fails, which stops the firmware; `Transfer` is
  `FreeRTOS_send` with its result, and the recorder dropping what was written.
- **TaskStats.** Count, snapshot, check, and one action per task logged. Tasks are
  their names, since `task_stack_size` finds a stack by name; `AppName` has the nine
  of `app_config.h`. `entries` counts the recorder's table: one for each task created,
  one for each name the statistics register, and `other_entries` for the queue and the
  channels of all tasks, some of them before the first report and some later
  (`OtherRegisters`).
- **Startup.** `main_pc` is the next call of `main`; `Calls` is their order. `ram` is
  what a reset wipes, the two `.noinit` variables what it leaves.
  `modality_trace_startup_nonce` is two actions because a reset between the trace
  and the zeroing matters. A call that asserts, or whose allocation fails, halts the
  processor. The recorder's task hands over one event at a time. `emulate` is the end
  of `emulate.resc`, `MachineReset` its macro.

## 3. Runs

| Run | Question | Distinct states |
|---|---|---|
| `comms` | Does one spike spoil exactly one datagram, whatever the interleaving? Is the queue with its flags an ordered link that drops? | 42,030 |
| `voltage_monitor` | Where can the walk freeze? Do spikes recur? | 118 |
| `voltage_rand8` | Does the generator wrap or degenerate? Does the walk with it do what `VoltageMonitor` assumes? | 8,772 |
| `firmware_safety` | Under the real priorities: no corruption unless requested; the micro control cycle when Comms is not held up; do measurements get out, and do producers never wait? | 180,224 |
| `firmware_cycle` | The control cycle as `specs/system.speqtr` states it (violated, section 5) | |
| `actuator` | Does a Twist always match its trace? Does each control cycle show the case it should? What happens after a signal, and after a short datagram? | 15,931 |
| `control_loop` | End to end over an unreliable network: what is acted upon, and how often? | 3,850,808 |
| `imu_safety` | Are readings whole, new and in order? Does the bump bit separate the samples? Does the chain implement the Sensor's view? Is a contact detected if every `recv()` returns one message? | 1,178,302 |
| `imu_stream` | Is it detected over a byte stream? (violated, section 5) | |
| `trace_port` | Is the trace stream complete? Is the first client served? | 1,148 |
| `task_stats` | Are reports whole while tasks are created? Are the name tables safe? Is every name known? | 17,271 |
| `startup` | Does the nonce identify one boot and arrive? Are spikes made on request only? Does the scheduler start a whole system? | 2,399 |

`LoopTypeOK`, `ImuTypeOK`, `PortTypeOK`, `StatsTypeOK`, `StartupTypeOK`, `InOnePlace` and
`UnsentIsQueued` give the variables' types or strengthen another invariant. No run
repeats them, because they are proved (section 6).

### Bounds, and why they are enough

- `COMMS_QUEUE_LENGTH` is 2 or 3 instead of 8. Three slots hold a spike between
  two measurements, two spikes before one, and a full queue of either kind:
  every order that `h_spike` tells apart. The theorems hold for every length.
- `SEQNUM_MOD` is 2 to 4 so that numbers wrap (in `comms`); `ControlLoop` instead
  bounds the datagrams built by `SENT_MAX`, below the modulus, because its
  properties identify a datagram by its number. `NET_MAX = 2` is the least that
  reorders; `RCVBUF = 2` lets both wait at once, or one be lost for lack of space.
- Voltage levels 0..3 with slope 2, or 0..9 with slopes 0, 1, 3, 5, cover landing
  on an end, overshooting it, and a slope of zero. `MV_SPIKE = MV_MAX` as in the
  code.
- `DUTY_MAX = 5` with steps of 2 makes the last step a clamped one; `TWIST_MOD`
  makes the Twist counter wrap.
- `SEQ_MAX` bounds sample numbers: samples from that number on share it, so the
  properties compare strictly smaller numbers only. `MSG_Q_MAX`, `TCP_MAX` and `TOPIC_MAX` of 1
  or 2 instead of 32, a socket buffer and the transport's queue fill within two messages;
  `imu_safety` has two samples waiting for the callback, so that a contact finds one
  on each side of it, and `imu_stream` two messages on the connection.
- `EVENTS_MAX = 4` events over `BUFFER_SIZE = 2` overflow the trace buffer; two
  clients let a second one meet the socket the first has left.
- `MAX_TASKS = 5` for five tasks: no slot to spare, where the code has 12 for 9. The
  five have the four different stack sizes, and one is created late, by the network
  driver. `TRC_CFG_ENTRY_SLOTS = 12` for two entries per task and `OTHER_ENTRIES = 2` is
  as tight; in the code 50 slots less 18 for the nine tasks leave 32, and the sources
  register ten channels, of which Startup's nonce is one, and one queue.
- `voltage_rand8` has bytes of four bits and a state of three. Its multiplier suits a
  state of two, as the code's `0x13B` is "for STATE_BYTES==6 only" and `STATE_BYTES`
  is 7: in both the modulus is composite, so the generator repeats itself after a
  fraction of its states. There is no choice in it: the run follows the one
  behaviour for each value of `g_do_voltage_spike` until it repeats. The period
  with the code's own constants is out of TLC's reach.
- `STARTS_MAX = 2` and `RESETS_MAX = 2` let a reset come before, between and after a
  trace of the nonce and its zeroing, and a session follow another with a different
  nonce or none. `TRACE_MAX = 3` is what `main` traces.

Deadlock is not checked where the system may really stop: a failed assertion
(`Comms`, `Firmware`), the exit of the actuator program, the end of its world in
`ControlLoop`, a bound reached in `TraceStreamPort`, a halted
processor in `Startup`.

## 4. Fairness

- **Firmware.** Weak fairness for the ticks that wake a task and for Comms: once
  ready it is the highest priority and stays ready until it runs. Strong
  fairness for the two producers: each is disabled again and again by Comms and
  shares its priority with the other, and the scheduler's round robin
  (`configUSE_TIME_SLICING`) serves it in the end. That the network stays up, and that
  `FreeRTOS_sendto` returns within `ipconfigUDP_MAX_SEND_BLOCK_TIME_TICKS`, are a
  hypothesis of the property and a property of the stack respectively.
- **VoltageMonitor.** Weak fairness for the task; strong fairness for drawing a
  nonzero slope: the generator is not stuck at zero.
- **Actuator.** Weak fairness for the program, none for datagrams, signals or calls
  that fail.
- **ImuLink.** Weak fairness for the simulator's samples, the plugin, the receive thread
  and the Sensor task, as threads that are scheduled. Strong fairness for the write:
  one that is tried again and again succeeds in the end, since the peripheral keeps
  the connection open. Contacts and the end of the simulation need not come.
- **TraceStreamPort.** Weak fairness for `trace_io_read`, which the recorder calls
  every `TRC_CFG_CTRL_TASK_DELAY` ticks, and for a write that makes progress: a
  client that stays connected reads.
- **TaskStats.** Weak fairness for the task with the highest priority; strong for a
  run time of at least 100, which fails only just after the timer wraps.
- **VoltageRand8.** Weak fairness for the task only: that it implements
  `VoltageMonitor` shows the strong fairness there, for this instance.
- **ActuatorTrace.** As `Actuator`.
- **Startup.** Weak fairness for `main`, and for the recorder's transfer: the test suite
  starts the trace collector before the emulator. None for starts, stops or resets.
- `Comms` and `ControlLoop` state safety only and have none.

## 5. Where the documents and the code disagree

- `firmware_cycle`: `specs/system.speqtr:47-58` has a `comms_tx` between any two
  `wheel_speed` traces. The code keeps that only while Comms is neither waiting
  for the network nor inside `FreeRTOS_sendto`; `MicroControlCycle` states what it
  keeps.
- `imu_stream`: `specs/system.speqtr:61-68` has every contact detected by the
  firmware. `ImuRelay.cc` writes messages to a stream without framing and `wss.py`
  takes one `recv()` for one message; two messages, or part of one, in one `recv()` end
  the receive thread and no contact is detected afterwards. `ContactDetectedIfFramed` (in
  `imu_safety`) shows that this is the only obstacle.

Met on the way, with no property to refute: `voltage_monitor.c:86` gives the
multiplier "for STATE_BYTES==6 only" and line 85 sets 7. `0x13B * 256^6 - 1` is prime,
`0x13B * 256^7 - 1` is a multiple of 13.

## 6. What is proved

Every safety invariant and every safety action property that a passing run
checks is a theorem, for every value of the constants; so are the refinements,
without their fairness. `PROJECT.json` lists the theorems.

### Assumptions

They are named, in the module that declares the constants, and TLC evaluates them
on every run.

- `Comms`: speeds are integers, the queue has a slot, the sequence modulus is not 0.
- `VoltageMonitor`: `MV_MIN < MV_SPIKE <= MV_MAX`, and `rand8()` returns naturals.
- `Rand8Generator`: `BYTE >= 2`, the multiplier has one bit more than a byte, and its
  product with a byte, with the carry, fits the `uint16_t`. 256 and `0x13B` do.
  `VoltageRand8`: the bytes are what `VoltageMonitor` lets `rand8()` return.
- `Actuator`: `DUTY_MAX + DUTY_STEP` is below 2^16 (1010 in the code).
  `ActuatorProgram`: the header fields are bytes.
- `ControlLoop`: `SENT_MAX < SEQNUM_MOD`, so its theorems speak of a run up to the
  point where the 32-bit number of a datagram would repeat.
- `ImuLink`: a register tells the clamped speeds apart, `2 * SPEED_MAX < REG_MOD`
  (100000 and 2^32). `SEQ_MAX` is a bound, not a width: sample numbers are exact below
  it, and it may be any number.
- `TaskStats`: the tasks are among the nine names; `MAX_TASKS` covers them, and two
  entries for each task and the `OTHER_ENTRIES` fit the recorder's table.
- `TraceStreamPort`: the buffer is not empty. `Startup`: what `main` traces fits it.

### The arguments

- **CommsProofs.** `CommsTypeCorrect`, then `CommsCorruption`. `CorruptIffSpiked` is
  not inductive: whether a datagram will be corrupt is decided by what is still in
  the queue. `SpikesInOrder` strengthens it: each queued measurement's history flag
  says exactly whether a spike is queued between it and the measurement before it,
  `voltage_spiked` standing for the spikes already taken out. Two lemmas on
  positions (`AppendPending`, `TailPending`) carry it through a post and a receive;
  `BuildCorrupts` shows that one mutated field is exactly one bad field.
  `CommsImplementsLink` is the refinement: `FirstItemsAppend` and `FirstItemsTail`
  say what a post and a receive do to the measurements of the queue, and
  `SpikesInOrder` that the flag each carries is the one `SensorLink` gives it.
- **FirmwareProofs.** Every step of the scheduled firmware is a step of Comms or
  leaves it alone (`FirmwareImplementsComms`), so `Corruption` and the link
  (`FirmwareImplementsLink`) follow; and so for the two producers. `Clean`
  needs that with spikes off no spike is ever queued, which rests on the voltage
  staying below `MV_SPIKE`. `ControlCycle` is an action property; its invariant
  `UnsentIsQueued` says that an unsent measurement is in the queue while Comms can
  run, which the priority of Comms turns into "sent before the Sensor runs again".
- **VoltageProofs.** `VoltageTypeOK` is inductive, and with it
  `FreezesOnlyBelowSpike`: a slope of zero is drawn at an end only, a walk at rest
  at an end draws again, and the only other rest is where the walk is held.
  `RandTypeOK` keeps the carry below the multiplier, so that nothing wraps
  (`ProductFits`). `RandMultiplies` is about numbers of any length: a call takes the
  oldest digit off and puts a new one on top (`CallDivides`, by induction on the
  digits), so times `BYTE` it is the old number plus a multiple of the modulus.
  `VoltageRefines` is the safety part of `ImplementsVoltage`.
- **ActuatorProofs.** `ActuatorIInv` adds to the type invariant where the flag and
  the program counter agree (`FlagAgreesWithLoop`) and that the next Twist follows
  the last trace (`NextTwistFollowsPwm`). `ActuatorTypeCorrect`, `ActuatorTraced`,
  `ActuatorLate` and the action property `ActuatorSteps` follow. The tracepoints only
  look on (`TraceRefines`), so `ActuatorIInv` holds with them; `CycleShape` adds what
  the events of a cycle are, in order, and `ShapeIsCycle` reads
  `LinuxControlCycle` off it.
- **ControlLoopProofs.** Both programs keep their invariants in the loop
  (`LoopRefinesComms`, `LoopRefinesActuator`); from the second follow `LoopActuates`
  and `LoopSteps`. `HeadersTellHits` says that a datagram on the wire or in
  the socket is intact exactly if no spike came before it: with the program's verdict
  that is `ActsIffNotSpiked`. `VelocityEarned` is not inductive: the next step must
  come with a number that was not acted upon. `InOnePlace` says that, until the
  network repeats a datagram, a number is in one place: about to be sent, in flight,
  in the socket, or acted upon.
- **ImuLinkProofs.** Samples are ordered along the chain: traced, in the
  registers, in `g_msg_q`, on the connection, waiting for the callback, not yet taken
  (`SampleOrder`). `Unread`, the number of the oldest that waits, stands for all that
  have not been written; it never falls (`TopicOfSample`, `TopicOfCallback`). Every
  transfer takes the first of one place to the end of the next, so `SamplesInOrder`
  follows, whatever is dropped. `ContactMarks` says of each place that a message is
  marked exactly if its sample is not older than the one that was `Unread` at the
  contact; the sticky bit of
  the peripheral is set only if nothing unmarked can follow. `RegisterRoundTrip`:
  the signed speed survives the unsigned register. `SensorRefines` is the
  refinement of the Sensor that `Firmware` schedules.
- **RecorderProofs.** `NamedOnce` makes the used slots as many as the tasks named, and
  the entries as many as the tasks created, the names registered and the others, so
  `TablesHaveRoom` for one more as long as a task has no slot (a counting argument on
  finite sets), and `NeverAsserts` follows. `RuntimeDefined` says that `total_runtime` is
  not read before a snapshot wrote it, no more; `StreamComplete` speaks of the first
  client, and of the others that they get nothing. `SnapshotIsCurrent`: no task is created
  between the count and the snapshot, because the statistics task preempts those
  that create any. `StreamComplete` is inductive with the types of the buffers;
  `SendPart` says that a partial `FreeRTOS_send` and the rest are the whole.
- **StartupProofs.** `DoneInOrder`: before the next call of `main`, every call before
  it has done its part, from which `StartedWhole`. A channel is registered before its
  first message because `logging_init` comes before. `NonceIsFresh` and
  `NonceTracedInTurn` say where the nonce of this start can be: in `.noinit`, until it is
  zeroed, or in the buffer, after the call that traces it.

Induction over data has no rule that the provers here can apply to an arbitrary
formula. Where it is needed (`FirstItems`, `Newest`, `Weight`) the lemma
`Induction` states it for sets of numbers, proved from the well-foundedness of `<`:
a set with 0 that is closed under successor has every number, since otherwise there
would be a least number outside it.

### Only model-checked

- Every liveness property (`SpikesRecur`, `MeasurementsGetOut`, `ProducersNeverWait`,
  `SignalStopsRobot`, `ContactDetectedIfFramed`, `FirstClientGetsEvents`,
  `EveryTaskReported`, `NonceArrives`) and the fairness that `ImplementsVoltage` asks
  for: they rest on fairness, hence on ENABLED, which the provers cannot expand.
- The two violated properties, as counterexamples.

## 7. What is not modelled

- Time: a period is a tick that may come at any moment, so nothing is said of
  latency, missed deadlines or `timer_read`.
- Text on the console (`_write`, `vLoggingPrintf`, `printf`), formatting, and the code
  under `LOGGING_STDOUT_MIRROR` and `PRINT_STATS`, which is not compiled.
- `uxRand` and the two functions of `ip.c` that return its numbers: only the
  vendored stack calls them. Pin setup and clocks.
- The vendored recorder, kernel and TCP stack beyond what the code uses of them. The
  Stats, IP and recorder tasks do not run in `Firmware`.
- Configuration headers: constants for vendored code. Those the models need are
  constants of the modules, or definitions.
- Calls on the trace port after the trace has ended: nothing in the repository ends it.
  `trace_io_read` and `trace_io_write` have a guard for that which the code has not.
- A write of the relay after an encoding that failed, whose size is negative: it counts
  as a write that fails. The signal `SIGPIPE` of a write to a closed connection: `wss.py`
  closes only after the relay did.
- In the actuator program, a `select()` that reports a datagram which `recv()` then does
  not return, with `EAGAIN`: the loop goes on as if nothing had come. `assert(act != NULL)`
  in `actuator.cpp`, which no caller can fail.
- In `ControlLoop`, datagrams of another sender, which may be short.
- The simulated world; containers, scripts and the parts of the test suite that call
  external tools.

`PROJECT.json` gives the status of each component.

## 8. Plan

Done, in this order because the control path is the point of the system: Comms,
its abstract link, the voltage monitor, the firmware under the scheduler, the
actuator program, the loop over UDP, the IMU chain; then the trace port and the
statistics; then the start-up with resets, the generator, the actuator's trace and
the stack sizes.

Then the proofs: Comms and the firmware, the actuator program; the loop,
the trace, the start-up, the voltage monitor with its generator, the IMU chain,
the statistics and the trace port; last, the refinements and the components' theorems in
the compositions.

Next:

1. The walk's invariant in the firmware: `FreezesOnlyBelowSpike` for `Firmware`, which
   `FirmwareImplementsProducers` and `FreezeStep` give.
2. That `rand8()` permutes its states, from `RandMultiplies`: `Modulus` and `BYTE` have no
   common factor, and a state that is not zero never becomes zero.
3. `ControlLoop` with the number of a datagram wrapping: what `VelocityEarned` needs
   instead of `SENT_MAX < SEQNUM_MOD` is that no datagram stays in flight for a whole
   turn of the numbers.
4. In the model, the Stats, IP and recorder tasks in `Firmware`, for what
   their priorities add to the delays of the control path.
