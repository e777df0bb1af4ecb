------------------------------ MODULE Startup ------------------------------
(***************************************************************************)
(* From the test framework's start of the emulator to the scheduler, and   *)
(* through resets: main() of freertos/src/main.c with the functions it     *)
(* calls, emulate.resc and renode/commands.py, which write the two .noinit *)
(* variables, and the trace that tells the framework that this firmware is *)
(* the one it has started.                                                 *)
(*                                                                         *)
(* A reset can come between any two calls.  RAM is initialised again then, *)
(* the .noinit variables are not.  h_... is history.                       *)
(***************************************************************************)
EXTENDS Integers, Sequences, FiniteSets

CONSTANTS
    STARTS_MAX,  \* bound: times the emulator is started
    RESETS_MAX,  \* bound: resets
    TRACE_MAX    \* events the recorder's buffer holds

ASSUME StartupAssumption ==
    /\ STARTS_MAX \in Nat
    /\ RESETS_MAX \in Nat
    /\ TRACE_MAX \in Nat /\ TRACE_MAX >= 3  \* all that main() traces

VARIABLES
    main_pc,             \* the next call of main(), or "off", or "halted"
    g_startup_nonce,     \* .noinit; 0 is not set
    g_do_voltage_spike,  \* .noinit
    ram,                 \* trace channels registered, kernel objects created,
                         \* and the recorder's buffer
    client,              \* the nonces a trace client has received, oldest first
    h_starts,            \* number of starts; the nonce issued for the last one
    h_resets,            \* number of resets
    h_spike,             \* what enable_voltage_spike last wrote, since the
                         \* emulator's macro last reset the machine
    h_cut                \* this start's nonce was taken and a reset came then

noinitVars == <<g_startup_nonce, g_do_voltage_spike>>
historyVars == <<h_starts, h_resets, h_spike, h_cut>>
startupVars == <<main_pc, noinitVars, ram, client, historyVars>>

Blank == [channels |-> {}, made |-> {}, trace |-> <<>>]

StartupInit ==
    /\ main_pc = "off"
    /\ g_startup_nonce = 0 /\ g_do_voltage_spike = 0
    /\ ram = Blank
    /\ client = <<>>
    /\ h_starts = 0 /\ h_resets = 0 /\ h_spike = 0 /\ h_cut = FALSE

-----------------------------------------------------------------------------
(* Calls.                                                                   *)

\* Mutant: wss_init, which logs, is called before logging_init.
Calls_WssFirst ==
    <<"init_console_uart", "xTraceStreamPortInitialize", "timer_init",
      "trace_nonce", "zero_nonce", "wss_init", "logging_init", "ip_init",
      "comms_init", "voltage_monitor_init", "stats_init", "check_trace",
      "scheduler">>

\* Mutant: the nonce is zeroed, then traced.
Calls_ZeroFirst ==
    <<"init_console_uart", "xTraceStreamPortInitialize", "timer_init",
      "zero_nonce", "trace_nonce", "logging_init", "ip_init", "comms_init",
      "wss_init", "voltage_monitor_init", "stats_init", "check_trace",
      "scheduler">>

\* main() in its order.  modality_trace_startup_nonce is two calls, because a
\* reset between them matters.  After the last one the scheduler runs.
Calls ==
    <<"init_console_uart", "xTraceStreamPortInitialize", "timer_init",
      "trace_nonce", "zero_nonce", "logging_init", "ip_init", "comms_init",
      "wss_init", "voltage_monitor_init", "stats_init", "check_trace",
      "scheduler">>

Returns ==
    \E k \in 1..(Len(Calls) - 1) : Calls[k] = main_pc /\ main_pc' = Calls[k + 1]

\* Interrupts are off and the processor spins.
vAssertCalled == main_pc' = "halted"
vApplicationStackOverflowHook == main_pc' = "halted"

\* Mutant: the hook returns to pvPortMalloc, and xTaskCreate to its caller.
vApplicationMallocFailedHook_Returns == Returns

vApplicationMallocFailedHook == main_pc' = "halted"

\* An event on a channel that is not registered has no name.
Event(r, channel, value) ==
    [channel |-> IF channel \in r.channels THEN channel ELSE "none",
     value   |-> value]

Traced(r, channel, value) ==
    IF Len(r.trace) < TRACE_MAX
    THEN [r EXCEPT !.trace = Append(@, Event(r, channel, value))]
    ELSE r

\* Each of them asserts if the recorder refuses the event: their callers below
\* have that case.
logging_info(r) == Traced(r, "info", 0)
logging_warn(r) == Traced(r, "warn", 0)
logging_error(r) == Traced(r, "error", 0)

\* Registers channels, or asserts.
Registers(channels) ==
    \/ Returns /\ ram' = [ram EXCEPT !.channels = @ \cup channels]
    \/ vAssertCalled /\ UNCHANGED ram

\* Creates kernel objects from the heap, which may not have room for them.  No
\* caller of xTaskCreate looks at its result.
Makes(r, objects) ==
    \E made \in SUBSET objects :
        /\ ram' = [r EXCEPT !.made = @ \cup made]
        /\ IF made = objects THEN Returns ELSE vApplicationMallocFailedHook

-----------------------------------------------------------------------------
(* main().                                                                  *)

\* Sets up the hardware, or asserts.
SetsUp == (Returns \/ vAssertCalled) /\ UNCHANGED <<ram, noinitVars>>

init_console_uart == main_pc = "init_console_uart" /\ SetsUp

\* xTraceEnable: the recorder, its control task and its time source.
xTraceStreamPortInitialize ==
    /\ main_pc = "xTraceStreamPortInitialize"
    /\ Makes(ram, {"TzCtrl"}) \/ (vAssertCalled /\ UNCHANGED ram)
    /\ UNCHANGED noinitVars

timer_init == main_pc = "timer_init" /\ SetsUp

TraceNonce ==
    /\ main_pc = "trace_nonce"
    /\ IF g_startup_nonce = 0
       THEN Returns /\ UNCHANGED ram
       ELSE \/ /\ Returns
               /\ LET registered == [ram EXCEPT !.channels = @ \cup {"nonce"}]
                  IN  ram' = Traced(registered, "nonce", g_startup_nonce)
            \/ vAssertCalled /\ UNCHANGED ram
    /\ UNCHANGED noinitVars

\* Mutant: the nonce stays.
ZeroNonce_Kept ==
    /\ main_pc = "zero_nonce"
    /\ Returns
    /\ UNCHANGED <<ram, noinitVars>>

ZeroNonce ==
    /\ main_pc = "zero_nonce"
    /\ Returns
    /\ g_startup_nonce' = 0
    /\ UNCHANGED <<ram, g_do_voltage_spike>>

logging_init ==
    /\ main_pc = "logging_init"
    /\ Registers({"info", "warn", "error"})
    /\ UNCHANGED noinitVars

ip_init ==
    /\ main_pc = "ip_init"
    /\ Makes(ram, {"IP-task"})
    /\ UNCHANGED noinitVars

comms_init ==
    /\ main_pc = "comms_init"
    /\ Makes(ram, {"comms_queue", "Comms"})
    /\ UNCHANGED noinitVars

wss_init ==
    /\ main_pc = "wss_init"
    /\ Makes(logging_info(ram), {"Sensor"}) \/ (vAssertCalled /\ UNCHANGED ram)
    /\ UNCHANGED noinitVars

voltage_monitor_init ==
    /\ main_pc = "voltage_monitor_init"
    /\ Makes(ram, {"VoltageMonitor"})
    /\ UNCHANGED noinitVars

stats_init ==
    /\ main_pc = "stats_init"
    /\ Makes(ram, {"Stats"})
    /\ UNCHANGED noinitVars

\* The recorder's diagnostics, its last error, and the last INFO.
CheckTrace ==
    /\ main_pc = "check_trace"
    /\ \/ Returns /\ ram' = logging_info(ram)
       \/ vAssertCalled /\ ram' \in {ram, logging_error(ram)}
    /\ UNCHANGED noinitVars

main ==
    /\ \/ init_console_uart \/ xTraceStreamPortInitialize \/ timer_init
       \/ TraceNonce \/ ZeroNonce \/ logging_init \/ ip_init \/ comms_init
       \/ wss_init \/ voltage_monitor_init \/ stats_init \/ CheckTrace
    /\ UNCHANGED <<client, historyVars>>

-----------------------------------------------------------------------------
(* The tasks.                                                               *)

\* What the trace client looks for in the events it receives.
IsNonce(event) == event.channel = "nonce"

\* TzCtrl sends the buffer to the trace client, oldest event first; the stack
\* may take a part of it.
TzCtrlTransfers ==
    /\ main_pc = "scheduler"
    /\ ram.trace # <<>>
    /\ ram' = [ram EXCEPT !.trace = Tail(@)]
    /\ client' = IF IsNonce(Head(ram.trace))
                 THEN Append(client, Head(ram.trace).value)
                 ELSE client
    /\ UNCHANGED <<main_pc, noinitVars, historyVars>>

\* A deadline was missed.
TaskWarns ==
    /\ main_pc = "scheduler"
    /\ \/ ram' = logging_warn(ram) /\ UNCHANGED main_pc
       \/ vAssertCalled /\ UNCHANGED ram
    /\ UNCHANGED <<noinitVars, client, historyVars>>

\* A task has overrun its stack, or the heap has no room for what it asks for.
TaskFails ==
    /\ main_pc = "scheduler"
    /\ vApplicationStackOverflowHook \/ vApplicationMallocFailedHook
    /\ UNCHANGED <<noinitVars, ram, client, historyVars>>

-----------------------------------------------------------------------------
(* The emulator and the test framework.                                     *)

\* Mutant: the nonce only.
mc_clear_modality_noint_vars_NonceOnly ==
    g_startup_nonce' = 0 /\ UNCHANGED g_do_voltage_spike

mc_clear_modality_noint_vars == g_startup_nonce' = 0 /\ g_do_voltage_spike' = 0

mc_write_startup_nonce(nonce) == g_startup_nonce' = nonce
mc_enable_voltage_spike(enabled) == g_do_voltage_spike' = enabled

\* emulate.resc: after its macro, what the framework asks for is written over
\* it; then the machine starts.  A start outside the test suite writes 0.
emulate(nonce, enabled) ==
    /\ main_pc = "off"
    /\ h_starts < STARTS_MAX
    /\ h_starts' = h_starts + 1
    /\ nonce \in {0, h_starts'}
    /\ mc_write_startup_nonce(nonce)
    /\ mc_enable_voltage_spike(enabled)
    /\ h_spike' = enabled
    /\ h_cut' = FALSE
    /\ main_pc' = Calls[1]
    /\ UNCHANGED <<ram, client, h_resets>>

\* "Stop System": the emulator is killed; the next one has a new machine.
StopSystem ==
    /\ main_pc # "off"
    /\ main_pc' = "off"
    /\ ram' = Blank
    /\ g_startup_nonce' = 0 /\ g_do_voltage_spike' = 0
    /\ h_spike' = 0
    /\ UNCHANGED <<client, h_starts, h_resets, h_cut>>

Boots ==
    /\ main_pc # "off"
    /\ h_resets < RESETS_MAX
    /\ h_resets' = h_resets + 1
    /\ ram' = Blank
    /\ main_pc' = Calls[1]
    /\ UNCHANGED <<client, h_starts>>

\* The processor is reset; RAM is initialised by the start-up code.
CoreReset ==
    /\ Boots
    /\ h_cut' = (h_cut \/ g_startup_nonce = 0)
    /\ UNCHANGED <<noinitVars, h_spike>>

\* The emulated machine is reset, which runs the macro "reset".
MachineReset ==
    /\ Boots
    /\ mc_clear_modality_noint_vars
    /\ h_spike' = 0
    /\ h_cut' = TRUE

StartupNext ==
    \/ main
    \/ TzCtrlTransfers
    \/ TaskWarns
    \/ TaskFails
    \/ \E nonce \in 0..STARTS_MAX, enabled \in {0, 1} : emulate(nonce, enabled)
    \/ StopSystem
    \/ CoreReset
    \/ MachineReset

\* The processor runs, and a trace client connects: the test suite starts the
\* collector before the emulator.
StartupSpec ==
    /\ StartupInit
    /\ [][StartupNext]_startupVars
    /\ WF_startupVars(main)
    /\ WF_startupVars(TzCtrlTransfers)

-----------------------------------------------------------------------------
Channel == {"nonce", "info", "warn", "error", "none"}
KernelObject ==
    {"TzCtrl", "IP-task", "comms_queue", "Comms", "Sensor", "VoltageMonitor",
     "Stats"}

StartupTypeOK ==
    /\ main_pc \in {"off", "halted"} \cup {Calls[k] : k \in 1..Len(Calls)}
    /\ g_startup_nonce \in 0..STARTS_MAX
    /\ g_do_voltage_spike \in {0, 1}
    /\ ram.channels \subseteq Channel
    /\ ram.made \subseteq KernelObject
    /\ ram.trace \in Seq([channel : Channel, value : 0..STARTS_MAX])
    /\ Len(ram.trace) <= TRACE_MAX
    /\ client \in Seq(1..STARTS_MAX)
    /\ h_starts \in 0..STARTS_MAX
    /\ h_resets \in 0..RESETS_MAX
    /\ h_spike \in {0, 1}
    /\ h_cut \in BOOLEAN

\* A nonce ties a firmware's trace to the framework's start_component event of
\* the same nonce (config/workspace.toml), so it must identify one boot: each is
\* received at most once, in the order they were issued, and what waits in the
\* buffer is the nonce of this start, wherever resets come.  A reset between
\* the trace and the zeroing traces it again, and has emptied the buffer.
NonceReportedOnce ==
    /\ \A j, k \in 1..Len(client) : j < k => client[j] < client[k]
    /\ \A k \in 1..Len(ram.trace) :
          IsNonce(ram.trace[k]) =>
              /\ ram.trace[k].value = h_starts
              /\ \A j \in 1..Len(client) : client[j] < h_starts
              /\ \A j \in 1..Len(ram.trace) : IsNonce(ram.trace[j]) => j = k

\* The nonce reaches the framework if the firmware gets through main(): a core
\* reset that comes before the nonce was taken only delays it.
NonceArrives ==
    \A n \in 1..STARTS_MAX :
        g_startup_nonce = n ~> \/ \E k \in 1..Len(client) : client[k] = n
                               \/ main_pc \in {"off", "halted"}
                               \/ h_cut

\* Spikes are made only if the framework asked for them in this session: a flag
\* left in .noinit by an earlier one does not come back with a reset.
SpikesAreRequested == g_do_voltage_spike # 0 => h_spike # 0

\* The scheduler starts only with every task and the queue in place, although
\* no caller of xTaskCreate looks at its result and any allocation may fail.
StartedWhole == main_pc = "scheduler" => ram.made = KernelObject

\* No message goes to a channel that is not registered yet: main() logs from
\* wss_init on, and every reset forgets the handles.
LogsHaveChannels ==
    \A k \in 1..Len(ram.trace) : ram.trace[k].channel # "none"
=============================================================================
