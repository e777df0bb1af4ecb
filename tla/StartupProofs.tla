--------------------------- MODULE StartupProofs ---------------------------
(***************************************************************************)
(* Proofs about the start of the firmware: whatever resets come and        *)
(* whichever allocations fail, for every number of starts and resets and   *)
(* every size of the recorder's buffer.                                    *)
(***************************************************************************)
EXTENDS Startup, TLAPS

-----------------------------------------------------------------------------
(* The inductive invariant.                                                 *)

Ram ==
    [channels : SUBSET Channel, made : SUBSET KernelObject,
     trace : Seq([channel : Channel, value : 0..STARTS_MAX])]

\* What holds of RAM once a call of main() has returned.
Done(call, r) ==
    /\ call = "xTraceStreamPortInitialize" => "TzCtrl" \in r.made
    /\ call = "logging_init" => {"info", "warn", "error"} \subseteq r.channels
    /\ call = "ip_init" => "IP-task" \in r.made
    /\ call = "comms_init" => {"comms_queue", "Comms"} \subseteq r.made
    /\ call = "wss_init" => "Sensor" \in r.made
    /\ call = "voltage_monitor_init" => "VoltageMonitor" \in r.made
    /\ call = "stats_init" => "Stats" \in r.made

\* Every call before the next one has done its part.
DoneInOrder ==
    \A k \in 1..Len(Calls) :
        main_pc = Calls[k] => \A j \in 1..(k - 1) : Done(Calls[j], ram)

\* The nonce in .noinit is that of this start, is gone once it has been zeroed,
\* and as long as it is there no client has received it.
NonceIsFresh ==
    /\ g_startup_nonce \in {0, h_starts}
    /\ main_pc = "off" => ram = Blank
    /\ \A k \in 6..Len(Calls) : main_pc = Calls[k] => g_startup_nonce = 0
    /\ \A k \in 1..Len(client) :
          /\ client[k] <= h_starts
          /\ g_startup_nonce # 0 => client[k] < h_starts

\* A nonce is in the buffer only after the call that traces it.
NonceTracedInTurn ==
    \A k \in 1..Len(ram.trace) :
        IsNonce(ram.trace[k]) =>
            /\ ram.trace[k].value # 0
            /\ \A j \in 1..4 : main_pc # Calls[j]

StartupIInv ==
    /\ StartupTypeOK
    /\ ram \in Ram
    /\ SpikesAreRequested
    /\ DoneInOrder
    /\ LogsHaveChannels
    /\ NonceIsFresh
    /\ NonceTracedInTurn
    /\ NonceReportedOnce

-----------------------------------------------------------------------------
(* The order of the calls, and what each does to RAM.                       *)

\* The calls of main() and their order.
LEMMA CallsByName ==
    /\ Len(Calls) = 13
    /\ Calls[1] = "init_console_uart"
    /\ Calls[2] = "xTraceStreamPortInitialize"
    /\ Calls[3] = "timer_init"
    /\ Calls[4] = "trace_nonce"
    /\ Calls[5] = "zero_nonce"
    /\ Calls[6] = "logging_init"
    /\ Calls[7] = "ip_init"
    /\ Calls[8] = "comms_init"
    /\ Calls[9] = "wss_init"
    /\ Calls[10] = "voltage_monitor_init"
    /\ Calls[11] = "stats_init"
    /\ Calls[12] = "check_trace"
    /\ Calls[13] = "scheduler"
  BY DEF Calls

\* main() makes no call twice.
LEMMA CallsDiffer ==
    /\ \A j, k \in 1..13 : Calls[j] = Calls[k] => j = k
    /\ \A k \in 1..13 : Calls[k] \notin {"off", "halted"}
<1>1. ASSUME NEW k \in 1..13
      PROVE  \/ k = 1 \/ k = 2 \/ k = 3 \/ k = 4 \/ k = 5 \/ k = 6 \/ k = 7
             \/ k = 8 \/ k = 9 \/ k = 10 \/ k = 11 \/ k = 12 \/ k = 13
  OBVIOUS
<1>2. ASSUME NEW j \in 1..13, NEW k \in 1..13, Calls[j] = Calls[k]
      PROVE  j = k
  BY <1>1, <1>2, CallsByName
<1>3. \A k \in 1..13 : Calls[k] \notin {"off", "halted"}
  BY <1>1, CallsByName
<1> QED
  BY <1>2, <1>3

\* A call that returns is followed by the next.
LEMMA ReturnsToNext ==
    ASSUME NEW n \in 1..12, main_pc = Calls[n], Returns
    PROVE  main_pc' = Calls[n + 1]
<1>1. PICK k \in 1..12 : Calls[k] = main_pc /\ main_pc' = Calls[k + 1]
  BY CallsByName DEF Returns
<1>2. k = n
  BY <1>1, CallsDiffer
<1> QED
  BY <1>1, <1>2

\* An event on a registered channel keeps its name; a full buffer drops it.
LEMMA TracedKeeps ==
    ASSUME NEW r \in Ram, NEW channel \in Channel, NEW value \in 0..STARTS_MAX,
           channel \in r.channels, Len(r.trace) <= TRACE_MAX
    PROVE  LET traced == Traced(r, channel, value)
           IN  /\ traced \in Ram
               /\ traced.made = r.made
               /\ traced.channels = r.channels
               /\ Len(traced.trace) <= TRACE_MAX
               /\ \/ traced.trace = r.trace
                  \/ traced.trace = Append(r.trace, [channel |-> channel,
                                                     value   |-> value])
<1> DEFINE event == [channel |-> channel, value |-> value]
<1>1. Event(r, channel, value) = event
  BY DEF Event
<1>2. event \in [channel : Channel, value : 0..STARTS_MAX]
  OBVIOUS
<1>3. CASE Len(r.trace) < TRACE_MAX
  <2> DEFINE longer == Append(r.trace, event)
  <2>1. Traced(r, channel, value) = [r EXCEPT !.trace = longer]
    BY <1>1, <1>3 DEF Traced
  <2>2. longer \in Seq([channel : Channel, value : 0..STARTS_MAX])
    BY <1>2 DEF Ram
  <2>3. Len(longer) <= TRACE_MAX
    <3>1. Len(longer) = Len(r.trace) + 1 /\ Len(r.trace) \in Nat
      BY <1>2 DEF Ram
    <3> QED
      BY <1>3, <3>1, StartupAssumption
  <2> HIDE DEF longer
  <2>4. [r EXCEPT !.trace = longer].trace = longer
    BY DEF Ram
  <2>5. [r EXCEPT !.trace = longer] \in Ram
    BY <2>2 DEF Ram
  <2>6. /\ [r EXCEPT !.trace = longer].made = r.made
        /\ [r EXCEPT !.trace = longer].channels = r.channels
    BY DEF Ram
  <2> QED
    BY <2>1, <2>3, <2>4, <2>5, <2>6 DEF longer
<1>4. CASE ~(Len(r.trace) < TRACE_MAX)
  BY <1>4 DEF Traced
<1> QED
  BY <1>3, <1>4

\* A call that creates kernel objects returns only with all of them.
LEMMA MakesAll ==
    ASSUME NEW r \in Ram, NEW objects \in SUBSET KernelObject, Makes(r, objects)
    PROVE  /\ ram' \in Ram
           /\ ram'.channels = r.channels
           /\ ram'.trace = r.trace
           /\ r.made \subseteq ram'.made
           /\ \/ Returns /\ objects \subseteq ram'.made
              \/ main_pc' = "halted"
<1>1. PICK made \in SUBSET objects :
        /\ ram' = [r EXCEPT !.made = @ \cup made]
        /\ IF made = objects THEN Returns ELSE vApplicationMallocFailedHook
  BY DEF Makes
<1>2. ram'.made = r.made \cup made /\ ram' \in Ram
  BY <1>1 DEF Ram
<1> QED
  BY <1>1, <1>2 DEF Ram, vApplicationMallocFailedHook

-----------------------------------------------------------------------------
(* main().                                                                  *)

\* What the call at position n does: RAM grows, and main() halts or goes on
\* with the next call, this one having done its part.
Goes(n) ==
    /\ main_pc = Calls[n]
    /\ ram' \in Ram
    /\ ram.made \subseteq ram'.made
    /\ ram.channels \subseteq ram'.channels
    /\ \/ main_pc' = "halted"
       \/ main_pc' = Calls[n + 1] /\ Done(Calls[n], ram')

\* The calls that trace nothing.
LEMMA QuietCalls ==
    ASSUME StartupIInv,
           \/ init_console_uart \/ xTraceStreamPortInitialize \/ timer_init
           \/ ZeroNonce \/ logging_init \/ ip_init \/ comms_init
           \/ voltage_monitor_init \/ stats_init
    PROVE  /\ \E n \in 1..12 : n # 4 /\ Goes(n)
           /\ ram'.trace = ram.trace
           /\ IF main_pc = Calls[5] THEN g_startup_nonce' = 0
                                    ELSE UNCHANGED g_startup_nonce
           /\ UNCHANGED g_do_voltage_spike
<1>1. ram \in Ram
  BY DEF StartupIInv
<1>2. CASE init_console_uart
  <2>1. Goes(1) /\ UNCHANGED <<ram, noinitVars>>
    BY <1>1, <1>2, CallsByName, ReturnsToNext
    DEF init_console_uart, SetsUp, vAssertCalled, Goes, Done
  <2> QED
    BY <1>2, <2>1, CallsByName DEF init_console_uart, noinitVars
<1>3. CASE timer_init
  <2>1. Goes(3) /\ UNCHANGED <<ram, noinitVars>>
    BY <1>1, <1>3, CallsByName, ReturnsToNext
    DEF timer_init, SetsUp, vAssertCalled, Goes, Done
  <2> QED
    BY <1>3, <2>1, CallsByName DEF timer_init, noinitVars
<1>4. CASE xTraceStreamPortInitialize
  <2>1. CASE Makes(ram, {"TzCtrl"})
    <3>1. {"TzCtrl"} \in SUBSET KernelObject
      BY DEF KernelObject
    <3>2. Goes(2) /\ ram'.trace = ram.trace
      BY <1>1, <1>4, <2>1, <3>1, MakesAll, CallsByName, ReturnsToNext
      DEF xTraceStreamPortInitialize, Goes, Done
    <3> QED
      BY <1>4, <3>2, CallsByName DEF xTraceStreamPortInitialize, noinitVars
  <2>2. CASE vAssertCalled /\ UNCHANGED ram
    <3>1. Goes(2)
      BY <1>1, <1>4, <2>2, CallsByName
      DEF xTraceStreamPortInitialize, vAssertCalled, Goes
    <3> QED
      BY <1>4, <2>2, <3>1, CallsByName DEF xTraceStreamPortInitialize, noinitVars
  <2> QED
    BY <1>4, <2>1, <2>2 DEF xTraceStreamPortInitialize
<1>5. CASE ZeroNonce
  <2>1. Goes(5)
    BY <1>1, <1>5, CallsByName, ReturnsToNext DEF ZeroNonce, Goes, Done
  <2> QED
    BY <1>5, <2>1, CallsByName DEF ZeroNonce
<1>6. CASE logging_init
  <2>1. CASE Returns /\ ram' = [ram EXCEPT !.channels = @ \cup {"info", "warn", "error"}]
    <3>1. /\ ram' \in Ram
          /\ ram'.channels = ram.channels \cup {"info", "warn", "error"}
          /\ ram'.made = ram.made
          /\ ram'.trace = ram.trace
      BY <1>1, <2>1 DEF Ram, Channel
    <3>2. Goes(6)
      BY <1>6, <2>1, <3>1, CallsByName, ReturnsToNext DEF logging_init, Goes, Done
    <3> QED
      BY <1>6, <3>1, <3>2, CallsByName DEF logging_init, noinitVars
  <2>2. CASE vAssertCalled /\ UNCHANGED ram
    <3>1. Goes(6)
      BY <1>1, <1>6, <2>2, CallsByName DEF logging_init, vAssertCalled, Goes
    <3> QED
      BY <1>6, <2>2, <3>1, CallsByName DEF logging_init, noinitVars
  <2> QED
    BY <1>6, <2>1, <2>2 DEF logging_init, Registers
<1>7. CASE ip_init
  <2>1. {"IP-task"} \in SUBSET KernelObject
    BY DEF KernelObject
  <2>2. Goes(7) /\ ram'.trace = ram.trace
    BY <1>1, <1>7, <2>1, MakesAll, CallsByName, ReturnsToNext DEF ip_init, Goes, Done
  <2> QED
    BY <1>7, <2>2, CallsByName DEF ip_init, noinitVars
<1>8. CASE comms_init
  <2>1. {"comms_queue", "Comms"} \in SUBSET KernelObject
    BY DEF KernelObject
  <2>2. Goes(8) /\ ram'.trace = ram.trace
    BY <1>1, <1>8, <2>1, MakesAll, CallsByName, ReturnsToNext
    DEF comms_init, Goes, Done
  <2> QED
    BY <1>8, <2>2, CallsByName DEF comms_init, noinitVars
<1>9. CASE voltage_monitor_init
  <2>1. {"VoltageMonitor"} \in SUBSET KernelObject
    BY DEF KernelObject
  <2>2. Goes(10) /\ ram'.trace = ram.trace
    BY <1>1, <1>9, <2>1, MakesAll, CallsByName, ReturnsToNext
    DEF voltage_monitor_init, Goes, Done
  <2> QED
    BY <1>9, <2>2, CallsByName DEF voltage_monitor_init, noinitVars
<1>10. CASE stats_init
  <2>1. {"Stats"} \in SUBSET KernelObject
    BY DEF KernelObject
  <2>2. Goes(11) /\ ram'.trace = ram.trace
    BY <1>1, <1>10, <2>1, MakesAll, CallsByName, ReturnsToNext
    DEF stats_init, Goes, Done
  <2> QED
    BY <1>10, <2>2, CallsByName DEF stats_init, noinitVars
<1> QED
  BY <1>2, <1>3, <1>4, <1>5, <1>6, <1>7, <1>8, <1>9, <1>10

\* The buffer takes one event, or none.
Takes(channel, value) ==
    /\ Len(ram'.trace) <= TRACE_MAX
    /\ \/ ram'.trace = ram.trace
       \/ ram'.trace = Append(ram.trace, [channel |-> channel, value |-> value])

\* Once logging_init has returned, its channels are registered until a reset.
LEMMA ChannelsFromLogging ==
    ASSUME StartupIInv, NEW k \in 7..13, main_pc = Calls[k]
    PROVE  {"info", "warn", "error"} \subseteq ram.channels
<1>1. 6 \in 1..(k - 1) /\ k \in 1..Len(Calls)
  BY CallsByName
<1>2. Done(Calls[6], ram)
  BY <1>1 DEF StartupIInv, DoneInOrder
<1> QED
  BY <1>2, CallsByName DEF Done

\* What the log functions do to RAM, wherever their channels are registered.
LEMMA LoggingKeeps ==
    ASSUME StartupIInv, {"info", "warn", "error"} \subseteq ram.channels,
           NEW r, \/ r = logging_info(ram) \/ r = logging_warn(ram)
                  \/ r = logging_error(ram)
    PROVE  /\ r \in Ram
           /\ r.made = ram.made
           /\ r.channels = ram.channels
           /\ Len(r.trace) <= TRACE_MAX
           /\ \/ r.trace = ram.trace
              \/ \E channel \in {"info", "warn", "error"} :
                     r.trace = Append(ram.trace, [channel |-> channel, value |-> 0])
<1>1. /\ ram \in Ram
      /\ Len(ram.trace) <= TRACE_MAX
      /\ 0 \in 0..STARTS_MAX
      /\ {"info", "warn", "error"} \subseteq Channel
  BY StartupAssumption DEF StartupIInv, StartupTypeOK, Channel
<1>2. PICK channel \in {"info", "warn", "error"} : r = Traced(ram, channel, 0)
  BY DEF logging_info, logging_warn, logging_error
<1>3. channel \in ram.channels /\ channel \in Channel
  BY <1>1
<1> QED
  BY <1>1, <1>2, <1>3, TracedKeeps

\* wss_init and the last call of main() log.
LEMMA LoggingCalls ==
    ASSUME StartupIInv, wss_init \/ CheckTrace
    PROVE  /\ \E n \in {9, 12} : Goes(n)
           /\ \E channel \in {"info", "warn", "error"} : Takes(channel, 0)
           /\ UNCHANGED noinitVars
<1>1. ram \in Ram /\ Len(ram.trace) <= TRACE_MAX
  BY DEF StartupIInv, StartupTypeOK
<1>2. CASE wss_init
  <2>1. {"info", "warn", "error"} \subseteq ram.channels
    BY <1>2, CallsByName, ChannelsFromLogging DEF wss_init
  <2>2. CASE Makes(logging_info(ram), {"Sensor"})
    <3>1. {"Sensor"} \in SUBSET KernelObject
      BY DEF KernelObject
    <3> DEFINE r == logging_info(ram)
    <3>2. /\ r \in Ram
          /\ r.made = ram.made
          /\ r.channels = ram.channels
          /\ Len(r.trace) <= TRACE_MAX
          /\ \/ r.trace = ram.trace
             \/ \E channel \in {"info", "warn", "error"} :
                    r.trace = Append(ram.trace, [channel |-> channel, value |-> 0])
      BY <2>1, LoggingKeeps
    <3>3. Makes(r, {"Sensor"})
      BY <2>2
    <3> HIDE DEF r
    <3>4. /\ ram' \in Ram
          /\ ram'.channels = r.channels
          /\ ram'.trace = r.trace
          /\ r.made \subseteq ram'.made
          /\ \/ Returns /\ {"Sensor"} \subseteq ram'.made
             \/ main_pc' = "halted"
      BY <3>1, <3>2, <3>3, MakesAll
    <3>5. Goes(9)
      BY <1>2, <3>2, <3>4, CallsByName, ReturnsToNext DEF wss_init, Goes, Done
    <3> QED
      BY <1>2, <3>2, <3>4, <3>5 DEF wss_init, Takes
  <2>3. CASE vAssertCalled /\ UNCHANGED ram
    <3>1. Goes(9)
      BY <1>1, <1>2, <2>3, CallsByName DEF wss_init, vAssertCalled, Goes
    <3> QED
      BY <1>1, <1>2, <2>3, <3>1 DEF wss_init, Takes
  <2> QED
    BY <1>2, <2>2, <2>3 DEF wss_init
<1>3. CASE CheckTrace
  <2>1. {"info", "warn", "error"} \subseteq ram.channels
    BY <1>3, CallsByName, ChannelsFromLogging DEF CheckTrace
  <2>2. ram' \in {ram, logging_info(ram), logging_error(ram)}
    BY <1>3 DEF CheckTrace
  <2>3. /\ ram' \in Ram
        /\ ram'.made = ram.made
        /\ ram'.channels = ram.channels
        /\ \E channel \in {"info", "warn", "error"} : Takes(channel, 0)
    BY <1>1, <2>1, <2>2, LoggingKeeps DEF Takes
  <2>4. Goes(12)
    BY <1>3, <2>3, CallsByName, ReturnsToNext
    DEF CheckTrace, vAssertCalled, Goes, Done
  <2> QED
    BY <1>3, <2>3, <2>4 DEF CheckTrace
<1> QED
  BY <1>2, <1>3

\* modality_trace_startup_nonce registers its channel and traces the nonce, if
\* one was written.
LEMMA NonceCall ==
    ASSUME StartupIInv, TraceNonce
    PROVE  /\ Goes(4)
           /\ UNCHANGED noinitVars
           /\ \/ ram'.trace = ram.trace
              \/ g_startup_nonce # 0 /\ Takes("nonce", g_startup_nonce)
<1>1. /\ ram \in Ram
      /\ Len(ram.trace) <= TRACE_MAX
      /\ g_startup_nonce \in 0..STARTS_MAX
      /\ main_pc = Calls[4]
  BY CallsByName DEF StartupIInv, StartupTypeOK, TraceNonce
<1>2. \A r : Done(Calls[4], r)
  BY CallsByName DEF Done
<1>3. CASE UNCHANGED ram
  BY <1>1, <1>2, <1>3, ReturnsToNext DEF TraceNonce, vAssertCalled, Goes
<1>4. CASE ~(UNCHANGED ram)
  <2> DEFINE registered == [ram EXCEPT !.channels = @ \cup {"nonce"}]
  <2>1. /\ g_startup_nonce # 0
        /\ Returns
        /\ ram' = Traced(registered, "nonce", g_startup_nonce)
    BY <1>4 DEF TraceNonce
  <2>2. /\ registered \in Ram
        /\ registered.channels = ram.channels \cup {"nonce"}
        /\ registered.made = ram.made
        /\ registered.trace = ram.trace
        /\ "nonce" \in Channel
    BY <1>1 DEF Ram, Channel
  <2> HIDE DEF registered
  <2>3. /\ ram' \in Ram
        /\ ram'.made = ram.made
        /\ ram'.channels = ram.channels \cup {"nonce"}
        /\ Takes("nonce", g_startup_nonce)
    BY <1>1, <2>1, <2>2, TracedKeeps DEF Takes
  <2>4. Goes(4)
    BY <1>1, <1>2, <2>1, <2>3, ReturnsToNext DEF Goes
  <2> QED
    BY <2>1, <2>3, <2>4 DEF TraceNonce
<1> QED
  BY <1>3, <1>4

\* All that a call of main() does, at position n.
MainDoes(n) ==
    /\ Goes(n)
    /\ \/ ram'.trace = ram.trace
       \/ \E channel \in {"info", "warn", "error"} : Takes(channel, 0)
       \/ n = 4 /\ g_startup_nonce # 0 /\ Takes("nonce", g_startup_nonce)
    /\ g_startup_nonce' = IF n = 5 THEN 0 ELSE g_startup_nonce
    /\ UNCHANGED <<g_do_voltage_spike, client, historyVars>>

\* Every step of main() is one of the twelve calls.
LEMMA MainEffect ==
    ASSUME StartupIInv, main
    PROVE  \E n \in 1..12 : MainDoes(n)
<1>1. UNCHANGED <<client, historyVars>>
  BY DEF main
<1>2. CASE \/ init_console_uart \/ xTraceStreamPortInitialize \/ timer_init
           \/ ZeroNonce \/ logging_init \/ ip_init \/ comms_init
           \/ voltage_monitor_init \/ stats_init
  <2>1. PICK n \in 1..12 : n # 4 /\ Goes(n)
    BY <1>2, QuietCalls
  <2>2. main_pc = Calls[5] <=> n = 5
    BY <2>1, CallsDiffer DEF Goes
  <2> QED
    BY <1>1, <1>2, <2>1, <2>2, QuietCalls DEF MainDoes
<1>3. CASE wss_init \/ CheckTrace
  <2>1. PICK n \in {9, 12} : Goes(n)
    BY <1>3, LoggingCalls
  <2> QED
    BY <1>1, <1>3, <2>1, LoggingCalls DEF MainDoes, noinitVars
<1>4. CASE TraceNonce
  <2>1. MainDoes(4)
    BY <1>1, <1>4, NonceCall DEF MainDoes, noinitVars
  <2> QED
    BY <2>1
<1> QED
  BY <1>2, <1>3, <1>4 DEF main

\* The buffer's positions after an event was taken.
LEMMA TakesPositions ==
    ASSUME ram \in Ram, NEW channel \in Channel, NEW value \in 0..STARTS_MAX,
           Takes(channel, value), ram'.trace # ram.trace
    PROVE  /\ Len(ram.trace) \in Nat
           /\ Len(ram'.trace) = Len(ram.trace) + 1
           /\ \A k \in 1..Len(ram.trace) : ram'.trace[k] = ram.trace[k]
           /\ ram'.trace[Len(ram.trace) + 1] = [channel |-> channel, value |-> value]
<1> DEFINE event == [channel |-> channel, value |-> value]
<1>1. ram'.trace = Append(ram.trace, event)
  BY DEF Takes
<1>2. /\ ram.trace \in Seq([channel : Channel, value : 0..STARTS_MAX])
      /\ event \in [channel : Channel, value : 0..STARTS_MAX]
  BY DEF Ram
<1> HIDE DEF event
<1>3. /\ Len(Append(ram.trace, event)) = Len(ram.trace) + 1
      /\ Len(ram.trace) \in Nat
      /\ \A k \in 1..Len(ram.trace) : Append(ram.trace, event)[k] = ram.trace[k]
      /\ Append(ram.trace, event)[Len(ram.trace) + 1] = event
  BY <1>2
<1> QED
  BY <1>1, <1>3 DEF event

\* main() keeps the types.
LEMMA MainTypes ==
    ASSUME StartupIInv, NEW n \in 1..12, MainDoes(n)
    PROVE  StartupTypeOK'
<1>1. main_pc' \in {"off", "halted"} \cup {Calls[k] : k \in 1..Len(Calls)}
  BY CallsByName DEF MainDoes, Goes
<1>2. g_startup_nonce' \in 0..STARTS_MAX
  BY StartupAssumption DEF StartupIInv, StartupTypeOK, MainDoes
<1>3. Len(ram'.trace) <= TRACE_MAX
  BY DEF StartupIInv, StartupTypeOK, MainDoes, Takes
<1>4. /\ ram'.channels \subseteq Channel
      /\ ram'.made \subseteq KernelObject
      /\ ram'.trace \in Seq([channel : Channel, value : 0..STARTS_MAX])
  BY DEF MainDoes, Goes, Ram
<1> QED
  BY <1>1, <1>2, <1>3, <1>4
  DEF StartupIInv, StartupTypeOK, MainDoes, historyVars

\* The next call finds done what the calls before it did.
LEMMA MainInOrder ==
    ASSUME StartupIInv, NEW n \in 1..12, MainDoes(n)
    PROVE  DoneInOrder'
<1> SUFFICES ASSUME NEW k \in 1..13, main_pc' = Calls[k], NEW j \in 1..(k - 1)
             PROVE  Done(Calls[j], ram')
  BY CallsByName DEF DoneInOrder
<1>1. k = n + 1 /\ Done(Calls[n], ram')
  BY CallsDiffer DEF MainDoes, Goes
<1>2. CASE j = n
  BY <1>1, <1>2
<1>3. CASE j # n
  <2>1. j \in 1..(n - 1) /\ n \in 1..Len(Calls)
    BY <1>1, <1>3, CallsByName
  <2>2. Done(Calls[j], ram)
    BY <2>1 DEF StartupIInv, DoneInOrder, MainDoes, Goes
  <2> QED
    BY <2>2 DEF Done, MainDoes, Goes
<1> QED
  BY <1>2, <1>3

\* What main() logs has a channel.
LEMMA MainLogs ==
    ASSUME StartupIInv, NEW n \in 1..12, MainDoes(n)
    PROVE  LogsHaveChannels'
<1> ram \in Ram
  BY DEF StartupIInv
<1>1. CASE ram'.trace = ram.trace
  BY <1>1 DEF StartupIInv, LogsHaveChannels
<1>2. CASE ram'.trace # ram.trace
  <2>1. PICK channel \in Channel \ {"none"}, value \in 0..STARTS_MAX :
           Takes(channel, value)
    <3>1. 0 \in 0..STARTS_MAX /\ g_startup_nonce \in 0..STARTS_MAX
      BY StartupAssumption DEF StartupIInv, StartupTypeOK
    <3> QED
      BY <1>2, <3>1 DEF MainDoes, Channel
  <2>2. /\ Len(ram.trace) \in Nat
        /\ Len(ram'.trace) = Len(ram.trace) + 1
        /\ \A k \in 1..Len(ram.trace) : ram'.trace[k] = ram.trace[k]
        /\ ram'.trace[Len(ram.trace) + 1] = [channel |-> channel, value |-> value]
    BY <1>2, <2>1, TakesPositions
  <2> SUFFICES ASSUME NEW k \in 1..Len(ram'.trace)
               PROVE  ram'.trace[k].channel # "none"
    BY DEF LogsHaveChannels
  <2>3. k \in 1..Len(ram.trace) \/ k = Len(ram.trace) + 1
    BY <2>2
  <2> QED
    BY <2>2, <2>3 DEF StartupIInv, LogsHaveChannels
<1> QED
  BY <1>1, <1>2

\* main() keeps the nonce's part of the invariant: it is traced once, by the
\* fourth call, while no client has it, and zeroed by the fifth.
LEMMA MainNonce ==
    ASSUME StartupIInv, NEW n \in 1..12, MainDoes(n)
    PROVE  NonceIsFresh' /\ NonceTracedInTurn' /\ NonceReportedOnce'
<1> ram \in Ram
  BY DEF StartupIInv
<1>1. /\ main_pc = Calls[n]
      /\ main_pc' = "halted" \/ main_pc' = Calls[n + 1]
      /\ g_startup_nonce' = (IF n = 5 THEN 0 ELSE g_startup_nonce)
      /\ UNCHANGED <<client, h_starts>>
  BY DEF MainDoes, Goes, historyVars
<1>2. \A k \in 1..13 : main_pc' = Calls[k] => k = n + 1
  BY <1>1, CallsDiffer
<1>3. NonceIsFresh'
  <2>1. \A k \in 6..13 : main_pc' = Calls[k] => g_startup_nonce' = 0
    <3> SUFFICES ASSUME NEW k \in 6..13, main_pc' = Calls[k]
                 PROVE  g_startup_nonce' = 0
      OBVIOUS
    <3>1. n = 5 \/ n \in 6..13
      BY <1>2
    <3> QED
      BY <1>1, <3>1, CallsByName DEF StartupIInv, NonceIsFresh
  <2>2. main_pc' # "off"
    BY <1>1, CallsDiffer
  <2> QED
    BY <1>1, <2>1, <2>2, CallsByName DEF StartupIInv, NonceIsFresh
<1>4. \A k \in 1..Len(ram.trace) :
         IsNonce(ram.trace[k]) => ram.trace[k].value # 0 /\ n > 4
  BY <1>1 DEF StartupIInv, NonceTracedInTurn
<1>5. \A j \in 1..4 : n > 4 => main_pc' # Calls[j]
  BY <1>2
<1>6. CASE ram'.trace = ram.trace
  BY <1>1, <1>3, <1>4, <1>5, <1>6
  DEF StartupIInv, NonceTracedInTurn, NonceReportedOnce
<1>7. CASE \E channel \in {"info", "warn", "error"} :
              ram'.trace # ram.trace /\ Takes(channel, 0)
  <2>1. PICK channel \in {"info", "warn", "error"} :
              ram'.trace # ram.trace /\ Takes(channel, 0)
    BY <1>7
  <2>2. channel \in Channel /\ 0 \in 0..STARTS_MAX
    BY StartupAssumption DEF Channel
  <2>3. /\ Len(ram.trace) \in Nat
        /\ Len(ram'.trace) = Len(ram.trace) + 1
        /\ \A k \in 1..Len(ram.trace) : ram'.trace[k] = ram.trace[k]
        /\ ram'.trace[Len(ram.trace) + 1] = [channel |-> channel, value |-> 0]
    BY <2>1, <2>2, TakesPositions
  <2>4. \A k \in 1..Len(ram'.trace) :
           IsNonce(ram'.trace[k]) =>
               k \in 1..Len(ram.trace) /\ ram'.trace[k] = ram.trace[k]
    <3>1. ~IsNonce(ram'.trace[Len(ram.trace) + 1])
      BY <2>3 DEF IsNonce
    <3> QED
      BY <2>3, <3>1
  <2>5. NonceTracedInTurn'
    BY <1>4, <1>5, <2>4 DEF NonceTracedInTurn
  <2>6. NonceReportedOnce'
    BY <1>1, <2>4 DEF StartupIInv, NonceReportedOnce
  <2> QED
    BY <1>3, <2>5, <2>6
<1>8. CASE /\ n = 4 /\ g_startup_nonce # 0
           /\ ram'.trace # ram.trace /\ Takes("nonce", g_startup_nonce)
  <2>1. "nonce" \in Channel /\ g_startup_nonce \in 0..STARTS_MAX
    BY DEF Channel, StartupIInv, StartupTypeOK
  <2>2. /\ Len(ram.trace) \in Nat
        /\ Len(ram'.trace) = Len(ram.trace) + 1
        /\ \A k \in 1..Len(ram.trace) : ram'.trace[k] = ram.trace[k]
        /\ ram'.trace[Len(ram.trace) + 1] =
               [channel |-> "nonce", value |-> g_startup_nonce]
    BY <1>8, <2>1, TakesPositions
  <2>3. \A k \in 1..Len(ram'.trace) :
           IsNonce(ram'.trace[k]) => k = Len(ram.trace) + 1
    BY <1>4, <1>8, <2>2
  <2>4. /\ g_startup_nonce = h_starts
        /\ \A k \in 1..Len(client) : client[k] < h_starts
    BY <1>8 DEF StartupIInv, NonceIsFresh
  <2>5. NonceTracedInTurn'
    <3>1. \A j \in 1..4 : main_pc' # Calls[j]
      BY <1>2, <1>8
    <3> QED
      BY <1>8, <2>2, <2>3, <3>1 DEF NonceTracedInTurn
  <2>6. NonceReportedOnce'
    <3>1. \A j, k \in 1..Len(client') : j < k => client'[j] < client'[k]
      BY <1>1 DEF StartupIInv, NonceReportedOnce
    <3>2. \A j \in 1..Len(client') : client'[j] < h_starts'
      BY <1>1, <2>4
    <3>3. \A k \in 1..Len(ram'.trace) :
             IsNonce(ram'.trace[k]) => ram'.trace[k].value = h_starts'
      BY <1>1, <2>2, <2>3, <2>4
    <3> QED
      BY <2>3, <3>1, <3>2, <3>3 DEF NonceReportedOnce
  <2> QED
    BY <1>3, <2>5, <2>6
<1> QED
  BY <1>6, <1>7, <1>8 DEF MainDoes

\* main() preserves the inductive invariant.
LEMMA MainStep ==
    ASSUME StartupIInv, main
    PROVE  StartupIInv'
<1>1. PICK n \in 1..12 : MainDoes(n)
  BY MainEffect
<1>2. ram' \in Ram /\ UNCHANGED <<g_do_voltage_spike, h_spike>>
  BY <1>1 DEF MainDoes, Goes, historyVars
<1>3. SpikesAreRequested'
  BY <1>2 DEF StartupIInv, SpikesAreRequested
<1> QED
  BY <1>1, <1>2, <1>3, MainTypes, MainInOrder, MainLogs, MainNonce DEF StartupIInv

-----------------------------------------------------------------------------
(* The tasks, the emulator and the test framework.                          *)

\* What leaves a buffer of any kind, and what stays.
LEMMA OldestLeaves ==
    ASSUME NEW S, NEW q \in Seq(S), q # <<>>
    PROVE  /\ Len(q) \in Nat \ {0}
           /\ Head(q) = q[1]
           /\ Head(q) \in S
           /\ Tail(q) \in Seq(S)
           /\ Len(Tail(q)) = Len(q) - 1
           /\ \A k \in 1..(Len(q) - 1) : Tail(q)[k] = q[k + 1]
  OBVIOUS

\* The transfer of an event preserves it: what leaves the buffer is the oldest
\* event, and if it is a nonce the client has only older ones.
LEMMA TransferStep ==
    ASSUME StartupIInv, TzCtrlTransfers
    PROVE  StartupIInv'
<1> DEFINE trace == ram.trace
           event == Head(ram.trace)
           Traceable == [channel : Channel, value : 0..STARTS_MAX]
<1>1. ram \in Ram /\ trace \in Seq(Traceable)
  BY DEF StartupIInv, Ram
<1>2. /\ Len(trace) \in Nat \ {0}
      /\ event = trace[1]
      /\ event \in Traceable
      /\ Tail(trace) \in Seq(Traceable)
      /\ Len(Tail(trace)) = Len(trace) - 1
      /\ \A k \in 1..(Len(trace) - 1) : Tail(trace)[k] = trace[k + 1]
  BY <1>1, OldestLeaves DEF TzCtrlTransfers
<1>3. /\ ram' \in Ram
      /\ ram'.channels = ram.channels
      /\ ram'.made = ram.made
      /\ ram'.trace = Tail(trace)
  BY <1>1, <1>2 DEF TzCtrlTransfers, Ram
<1>4. /\ main_pc = Calls[13]
      /\ UNCHANGED <<main_pc, g_startup_nonce, g_do_voltage_spike, h_starts,
                     h_resets, h_spike, h_cut>>
  BY CallsByName DEF TzCtrlTransfers, noinitVars, historyVars
<1>5. g_startup_nonce = 0
  BY <1>4, CallsByName DEF StartupIInv, NonceIsFresh
<1> HIDE DEF trace, event
<1>6. \A k \in 1..Len(ram'.trace) : k + 1 \in 1..Len(trace) /\ ram'.trace[k] = trace[k + 1]
  BY <1>2, <1>3
<1>7. LogsHaveChannels'
  BY <1>6 DEF StartupIInv, LogsHaveChannels, trace
<1>8. NonceTracedInTurn'
  BY <1>4, <1>6 DEF StartupIInv, NonceTracedInTurn, trace
<1>9. DoneInOrder'
  BY <1>3, <1>4 DEF StartupIInv, DoneInOrder, Done
<1>10. SpikesAreRequested'
  BY <1>4 DEF StartupIInv, SpikesAreRequested
<1>11. /\ h_starts \in 0..STARTS_MAX
       /\ client \in Seq(1..STARTS_MAX)
       /\ Len(client) \in Nat
       /\ Len(trace) <= TRACE_MAX
       /\ TRACE_MAX \in Nat
  BY StartupAssumption DEF StartupIInv, StartupTypeOK, trace
<1>12. CASE ~IsNonce(event)
  <2>1. client' = client
    BY <1>12 DEF TzCtrlTransfers, event
  <2>2. StartupTypeOK'
    BY <1>2, <1>3, <1>4, <1>11, <2>1, SMTT(40) DEF StartupIInv, StartupTypeOK, Ram
  <2>3. NonceIsFresh'
    BY <1>4, <1>5, <2>1, CallsDiffer, CallsByName DEF StartupIInv, NonceIsFresh
  <2>4. NonceReportedOnce'
    <3>1. \A k \in 1..Len(ram'.trace) : \A j \in 1..Len(ram'.trace) :
             IsNonce(ram'.trace[k]) /\ IsNonce(ram'.trace[j]) => j = k
      <4> SUFFICES ASSUME NEW k \in 1..Len(ram'.trace), NEW j \in 1..Len(ram'.trace),
                          IsNonce(ram'.trace[k]), IsNonce(ram'.trace[j])
                   PROVE  j = k
        OBVIOUS
      <4>1. j + 1 = k + 1
        BY <1>6 DEF StartupIInv, NonceReportedOnce, trace
      <4>2. Len(ram'.trace) \in Nat
        BY <1>2, <1>3
      <4> QED
        BY <4>1, <4>2
    <3>2. \A k \in 1..Len(ram'.trace) :
             IsNonce(ram'.trace[k]) =>
                 /\ ram'.trace[k].value = h_starts
                 /\ \A j \in 1..Len(client) : client[j] < h_starts
      BY <1>6 DEF StartupIInv, NonceReportedOnce, trace
    <3> QED
      BY <1>4, <2>1, <3>1, <3>2 DEF StartupIInv, NonceReportedOnce
  <2> QED
    BY <1>3, <1>7, <1>8, <1>9, <1>10, <2>2, <2>3, <2>4 DEF StartupIInv
<1>13. CASE IsNonce(event)
  <2>1. client' = Append(client, event.value)
    BY <1>13 DEF TzCtrlTransfers, event
  <2>2. 1 \in 1..Len(trace) /\ IsNonce(trace[1])
    BY <1>2, <1>13
  <2>3. /\ event.value = h_starts
        /\ event.value # 0
        /\ \A j \in 1..Len(client) : client[j] < h_starts
        /\ \A j \in 1..Len(trace) : IsNonce(trace[j]) => j = 1
    BY <1>2, <2>2 DEF StartupIInv, NonceReportedOnce, NonceTracedInTurn, trace
  <2>4. event.value \in 1..STARTS_MAX
    BY <1>11, <2>3
  <2>5. /\ client' \in Seq(1..STARTS_MAX)
        /\ Len(client') = Len(client) + 1
        /\ \A k \in 1..Len(client) : client'[k] = client[k]
        /\ client'[Len(client) + 1] = h_starts
    BY <1>11, <2>1, <2>3, <2>4
  <2>6. StartupTypeOK'
    BY <1>2, <1>3, <1>4, <1>11, <2>5, SMTT(40) DEF StartupIInv, StartupTypeOK, Ram
  <2>7. NonceIsFresh'
    <3>1. \A k \in 1..Len(client') : client'[k] <= h_starts
      BY <1>11, <2>5 DEF StartupIInv, NonceIsFresh
    <3> QED
      BY <1>4, <1>5, <3>1, CallsDiffer, CallsByName DEF StartupIInv, NonceIsFresh
  <2>8. NonceReportedOnce'
    <3>1. \A k \in 1..Len(ram'.trace) : ~IsNonce(ram'.trace[k])
      BY <1>2, <1>3, <1>6, <2>3
    <3>2. ASSUME NEW j \in 1..Len(client'), NEW k \in 1..Len(client'), j < k
          PROVE  client'[j] < client'[k]
      <4>1. CASE k \in 1..Len(client)
        <5>1. j \in 1..Len(client)
          BY <1>11, <3>2, <4>1
        <5>2. client[j] < client[k]
          BY <3>2, <4>1, <5>1 DEF StartupIInv, NonceReportedOnce
        <5> QED
          BY <2>5, <4>1, <5>1, <5>2
      <4>2. CASE k = Len(client) + 1
        <5>1. j \in 1..Len(client)
          BY <1>11, <2>5, <3>2, <4>2
        <5> QED
          BY <2>3, <2>5, <4>2, <5>1
      <4> QED
        BY <1>11, <2>5, <4>1, <4>2
    <3> QED
      BY <3>1, <3>2 DEF NonceReportedOnce
  <2> QED
    BY <1>3, <1>7, <1>8, <1>9, <1>10, <2>6, <2>7, <2>8 DEF StartupIInv
<1> QED
  BY <1>12, <1>13

\* A task's warning, or its failure, preserves it.
LEMMA TaskStep ==
    ASSUME StartupIInv, TaskWarns \/ TaskFails
    PROVE  StartupIInv'
<1>1. /\ main_pc = Calls[13]
      /\ main_pc' \in {main_pc, "halted"}
      /\ UNCHANGED <<g_startup_nonce, g_do_voltage_spike, client, h_starts,
                     h_resets, h_spike, h_cut>>
  BY CallsByName DEF TaskWarns, TaskFails, vAssertCalled,
     vApplicationStackOverflowHook, vApplicationMallocFailedHook, noinitVars,
     historyVars
<1>2. {"info", "warn", "error"} \subseteq ram.channels
  BY <1>1, ChannelsFromLogging
<1>3. ram' = ram \/ ram' = logging_warn(ram)
  BY DEF TaskWarns, TaskFails
<1>4. ram \in Ram /\ Len(ram.trace) <= TRACE_MAX
  BY DEF StartupIInv, StartupTypeOK
<1>5. /\ ram' \in Ram
      /\ ram'.made = ram.made
      /\ ram'.channels = ram.channels
      /\ Len(ram'.trace) <= TRACE_MAX
      /\ \/ ram'.trace = ram.trace
         \/ \E channel \in {"info", "warn", "error"} : Takes(channel, 0)
  BY <1>2, <1>3, <1>4, LoggingKeeps DEF Takes
<1>6. \A k \in 1..13 : main_pc' = Calls[k] => k = 13 /\ main_pc' = main_pc
  BY <1>1, CallsDiffer
<1>7. main_pc' # "off"
  BY <1>1, CallsDiffer
<1>8. \A k \in 1..Len(ram'.trace) :
         \/ k \in 1..Len(ram.trace) /\ ram'.trace[k] = ram.trace[k]
         \/ ram'.trace[k].channel \in {"info", "warn", "error"}
  <2>1. CASE ram'.trace = ram.trace
    BY <2>1
  <2>2. CASE \E channel \in {"info", "warn", "error"} :
                ram'.trace # ram.trace /\ Takes(channel, 0)
    <3>1. PICK channel \in {"info", "warn", "error"} :
                ram'.trace # ram.trace /\ Takes(channel, 0)
      BY <2>2
    <3>2. channel \in Channel /\ 0 \in 0..STARTS_MAX
      BY StartupAssumption DEF Channel
    <3>3. /\ Len(ram.trace) \in Nat
          /\ Len(ram'.trace) = Len(ram.trace) + 1
          /\ \A k \in 1..Len(ram.trace) : ram'.trace[k] = ram.trace[k]
          /\ ram'.trace[Len(ram.trace) + 1] = [channel |-> channel, value |-> 0]
      BY <1>4, <3>1, <3>2, TakesPositions
    <3> QED
      BY <3>3
  <2> QED
    BY <1>5, <2>1, <2>2
<1>9. StartupTypeOK'
  <2>1. main_pc' \in {"off", "halted"} \cup {Calls[k] : k \in 1..Len(Calls)}
    BY <1>1, CallsByName
  <2> QED
    BY <1>1, <1>5, <2>1 DEF StartupIInv, StartupTypeOK, Ram
<1>10. DoneInOrder'
  BY <1>5, <1>6, CallsByName DEF StartupIInv, DoneInOrder, Done
<1>11. LogsHaveChannels'
  BY <1>8 DEF StartupIInv, LogsHaveChannels
<1>12. NonceIsFresh'
  BY <1>1, <1>6, <1>7, CallsByName DEF StartupIInv, NonceIsFresh
<1>13. \A k \in 1..Len(ram'.trace) :
          IsNonce(ram'.trace[k]) =>
              k \in 1..Len(ram.trace) /\ ram'.trace[k] = ram.trace[k]
  BY <1>8 DEF IsNonce
<1>14. NonceTracedInTurn'
  <2>1. \A j \in 1..4 : main_pc' # Calls[j]
    BY <1>6
  <2> QED
    BY <1>13, <2>1 DEF StartupIInv, NonceTracedInTurn
<1>15. NonceReportedOnce'
  BY <1>1, <1>13 DEF StartupIInv, NonceReportedOnce
<1>16. SpikesAreRequested'
  BY <1>1 DEF StartupIInv, SpikesAreRequested
<1> QED
  BY <1>5, <1>9, <1>10, <1>11, <1>12, <1>14, <1>15, <1>16 DEF StartupIInv

\* With RAM blank and no call made, only .noinit and the client matter.
LEMMA BlankIsInOrder ==
    ASSUME ram' = Blank, main_pc' \in {"off", Calls[1]}
    PROVE  /\ ram' \in Ram
           /\ Len(ram'.trace) <= TRACE_MAX
           /\ DoneInOrder'
           /\ LogsHaveChannels'
           /\ NonceTracedInTurn'
           /\ \A k \in 1..Len(ram'.trace) : FALSE
           /\ \A k \in 1..13 : main_pc' = Calls[k] => k = 1
<1>1. ram'.channels = {} /\ ram'.made = {} /\ ram'.trace = <<>>
  BY DEF Blank
<1>2. Len(ram'.trace) = 0
  BY <1>1
<1>3. ram' \in Ram /\ Len(ram'.trace) <= TRACE_MAX
  BY <1>2, StartupAssumption DEF Blank, Ram
<1>4. \A k \in 1..Len(ram'.trace) : FALSE
  BY <1>2
<1>5. \A k \in 1..13 : main_pc' = Calls[k] => k = 1
  BY CallsDiffer
<1>6. DoneInOrder'
  BY <1>5, CallsByName DEF DoneInOrder
<1> QED
  BY <1>3, <1>4, <1>5, <1>6 DEF LogsHaveChannels, NonceTracedInTurn

\* A reset and the end of the emulation preserve it: what the buffer held is
\* lost, the nonce in .noinit is as fresh as before, or gone.
LEMMA ResetStep ==
    ASSUME StartupIInv, StopSystem \/ CoreReset \/ MachineReset
    PROVE  StartupIInv'
<1>1. /\ ram' = Blank
      /\ main_pc' \in {"off", Calls[1]}
      /\ main_pc' = "off" => g_startup_nonce' = 0
      /\ g_startup_nonce' \in {0, g_startup_nonce}
      /\ UNCHANGED <<client, h_starts>>
  BY CallsDiffer
  DEF StopSystem, CoreReset, MachineReset, Boots, noinitVars,
      mc_clear_modality_noint_vars
<1>2. /\ g_do_voltage_spike' \in {0, g_do_voltage_spike}
      /\ g_do_voltage_spike' = 0 \/ UNCHANGED <<g_do_voltage_spike, h_spike>>
      /\ h_spike' \in {0, h_spike}
      /\ h_resets' \in 0..RESETS_MAX
      /\ h_cut' \in BOOLEAN
  <2>1. h_resets \in 0..RESETS_MAX /\ h_cut \in BOOLEAN /\ RESETS_MAX \in Nat
    BY StartupAssumption DEF StartupIInv, StartupTypeOK
  <2>2. CASE StopSystem
    BY <2>1, <2>2 DEF StopSystem
  <2>3. CASE CoreReset
    <3>1. h_cut' \in BOOLEAN
      BY <2>1, <2>3, Zenon DEF CoreReset
    <3> QED
      BY <2>1, <2>3, <3>1 DEF CoreReset, Boots, noinitVars
  <2>4. CASE MachineReset
    BY <2>1, <2>4 DEF MachineReset, Boots, mc_clear_modality_noint_vars
  <2> QED
    BY <2>2, <2>3, <2>4
<1>3. SpikesAreRequested'
  BY <1>2 DEF StartupIInv, SpikesAreRequested
<1>4. StartupTypeOK'
  <2>1. main_pc' \in {"off", "halted"} \cup {Calls[k] : k \in 1..Len(Calls)}
    BY <1>1, CallsByName
  <2>2. /\ ram'.channels \subseteq Channel
        /\ ram'.made \subseteq KernelObject
        /\ ram'.trace \in Seq([channel : Channel, value : 0..STARTS_MAX])
    BY <1>1, BlankIsInOrder DEF Ram
  <2>3. g_startup_nonce' \in 0..STARTS_MAX
    BY <1>1, StartupAssumption DEF StartupIInv, StartupTypeOK
  <2> QED
    BY <1>1, <1>2, <2>1, <2>2, <2>3, BlankIsInOrder DEF StartupIInv, StartupTypeOK
<1>5. NonceIsFresh'
  <2>1. \A k \in 6..Len(Calls) : main_pc' # Calls[k]
    BY <1>1, BlankIsInOrder, CallsByName
  <2> QED
    BY <1>1, <2>1 DEF StartupIInv, NonceIsFresh
<1>6. NonceReportedOnce'
  BY <1>1, BlankIsInOrder DEF StartupIInv, NonceReportedOnce
<1> QED
  BY <1>1, <1>3, <1>4, <1>5, <1>6, BlankIsInOrder DEF StartupIInv

\* What a client has received are numbers of starts.
LEMMA ClientTypes ==
    ASSUME StartupIInv
    PROVE  \A k \in 1..Len(client) : client[k] \in 1..STARTS_MAX
<1>1. client \in Seq(1..STARTS_MAX)
  BY DEF StartupIInv, StartupTypeOK
<1>2. ASSUME NEW S, NEW q \in Seq(S)
      PROVE  \A k \in 1..Len(q) : q[k] \in S
  OBVIOUS
<1> QED
  BY <1>1, <1>2

\* A start of the emulator preserves it: no client has received the number
\* that is issued now.
LEMMA EmulateStep ==
    ASSUME StartupIInv, NEW nonce \in 0..STARTS_MAX, NEW enabled \in {0, 1},
           emulate(nonce, enabled)
    PROVE  StartupIInv'
<1>1. /\ main_pc = "off"
      /\ main_pc' = Calls[1]
      /\ h_starts < STARTS_MAX
      /\ h_starts' = h_starts + 1
      /\ g_startup_nonce' \in {0, h_starts'}
      /\ g_startup_nonce' = nonce
      /\ g_do_voltage_spike' = enabled
      /\ h_spike' = enabled
      /\ h_cut' = FALSE
      /\ UNCHANGED <<ram, client, h_resets>>
  BY DEF emulate, mc_write_startup_nonce, mc_enable_voltage_spike
<1>2. ram' = Blank
  BY <1>1 DEF StartupIInv, NonceIsFresh
<1>3. h_starts \in 0..STARTS_MAX /\ h_starts' \in 0..STARTS_MAX
  BY <1>1, StartupAssumption DEF StartupIInv, StartupTypeOK
<1>4. \A k \in 1..Len(client) : client[k] < h_starts'
  <2> SUFFICES ASSUME NEW k \in 1..Len(client) PROVE client[k] < h_starts'
    OBVIOUS
  <2>1. client[k] \in 1..STARTS_MAX
    BY ClientTypes
  <2>2. client[k] <= h_starts
    BY DEF StartupIInv, NonceIsFresh
  <2> QED
    BY <1>1, <1>3, <2>1, <2>2, StartupAssumption
<1>5. StartupTypeOK'
  <2>1. main_pc' \in {"off", "halted"} \cup {Calls[k] : k \in 1..Len(Calls)}
    BY <1>1, CallsByName
  <2> QED
    BY <1>1, <1>3, <2>1 DEF StartupIInv, StartupTypeOK
<1>6. NonceIsFresh'
  <2>1. \A k \in 6..Len(Calls) : main_pc' # Calls[k]
    BY <1>1, <1>2, BlankIsInOrder, CallsByName
  <2>2. main_pc' # "off"
    BY <1>1, CallsDiffer
  <2>3. \A k \in 1..Len(client') :
           /\ client'[k] <= h_starts'
           /\ g_startup_nonce' # 0 => client'[k] < h_starts'
    <3> SUFFICES ASSUME NEW k \in 1..Len(client)
                 PROVE  client[k] <= h_starts' /\ client[k] < h_starts'
      BY <1>1
    <3>1. client[k] \in 1..STARTS_MAX
      BY ClientTypes
    <3> QED
      BY <1>3, <1>4, <3>1, StartupAssumption
  <2> QED
    BY <1>1, <2>1, <2>2, <2>3 DEF NonceIsFresh
<1>7. NonceReportedOnce'
  BY <1>1, <1>2, BlankIsInOrder DEF StartupIInv, NonceReportedOnce
<1>8. SpikesAreRequested'
  BY <1>1 DEF SpikesAreRequested
<1> QED
  BY <1>1, <1>2, <1>5, <1>6, <1>7, <1>8, BlankIsInOrder DEF StartupIInv

-----------------------------------------------------------------------------
(* The theorems.                                                            *)

\* The inductive invariant holds initially.
LEMMA StartupInvInit == StartupInit => StartupIInv
<1> SUFFICES ASSUME StartupInit PROVE StartupIInv
  OBVIOUS
<1>1. /\ ram = Blank
      /\ main_pc = "off"
      /\ g_startup_nonce = 0 /\ g_do_voltage_spike = 0
      /\ client = <<>> /\ Len(client) = 0
      /\ h_starts = 0 /\ h_resets = 0 /\ h_spike = 0 /\ h_cut = FALSE
  BY DEF StartupInit
<1>2. /\ ram.trace = <<>> /\ Len(ram.trace) = 0
      /\ ram.channels = {} /\ ram.made = {}
  BY <1>1 DEF Blank
<1>3. ram \in Ram
  BY <1>1 DEF Blank, Ram
<1>4. StartupTypeOK
  <2>1. client \in Seq(1..STARTS_MAX)
    BY <1>1
  <2>2. 0 \in 0..STARTS_MAX /\ 0 \in 0..RESETS_MAX /\ 0 <= TRACE_MAX
    BY StartupAssumption
  <2>3. /\ ram.channels \subseteq Channel
        /\ ram.made \subseteq KernelObject
        /\ ram.trace \in Seq([channel : Channel, value : 0..STARTS_MAX])
    BY <1>3 DEF Ram
  <2> QED
    BY <1>1, <1>2, <2>1, <2>2, <2>3 DEF StartupTypeOK
<1>5. \A k \in 1..13 : main_pc # Calls[k]
  BY <1>1, CallsDiffer
<1>6. DoneInOrder /\ NonceIsFresh
  BY <1>1, <1>5, CallsByName DEF DoneInOrder, NonceIsFresh
<1>7. SpikesAreRequested /\ LogsHaveChannels /\ NonceTracedInTurn /\ NonceReportedOnce
  BY <1>1, <1>2
  DEF SpikesAreRequested, LogsHaveChannels, NonceTracedInTurn, NonceReportedOnce
<1> QED
  BY <1>3, <1>4, <1>6, <1>7 DEF StartupIInv

\* The inductive invariant is preserved by every step.
LEMMA StartupInvStep == StartupIInv /\ [StartupNext]_startupVars => StartupIInv'
<1> SUFFICES ASSUME StartupIInv, [StartupNext]_startupVars
             PROVE  StartupIInv'
  OBVIOUS
<1>1. CASE UNCHANGED startupVars
  BY <1>1
  DEF startupVars, noinitVars, historyVars, StartupIInv, StartupTypeOK,
      SpikesAreRequested, DoneInOrder, LogsHaveChannels, NonceIsFresh,
      NonceTracedInTurn, NonceReportedOnce
<1> QED
  BY <1>1, MainStep, TransferStep, TaskStep, ResetStep, EmulateStep
  DEF StartupNext

\* Every reachable state satisfies the inductive invariant.
LEMMA StartupInvariance == StartupSpec => []StartupIInv
  BY StartupInvInit, StartupInvStep, PTL DEF StartupSpec

\* RAM, .noinit and the recorder's buffer stay well formed.
THEOREM StartupTypeCorrect == StartupSpec => []StartupTypeOK
<1>1. StartupIInv => StartupTypeOK
  BY DEF StartupIInv
<1> QED
  BY <1>1, StartupInvariance, PTL

\* A nonce is received at most once and after all older ones, however many
\* starts there are and wherever resets come.
THEOREM NonceIdentifiesBoot == StartupSpec => []NonceReportedOnce
<1>1. StartupIInv => NonceReportedOnce
  BY DEF StartupIInv
<1> QED
  BY <1>1, StartupInvariance, PTL

\* Spikes are made only if this session asked for them.
THEOREM SpikesOnRequest == StartupSpec => []SpikesAreRequested
<1>1. StartupIInv => SpikesAreRequested
  BY DEF StartupIInv
<1> QED
  BY <1>1, StartupInvariance, PTL

\* The scheduler starts with every task and the queue, or not at all.
THEOREM SchedulerStartsWhole == StartupSpec => []StartedWhole
<1>1. StartupIInv => StartedWhole
  <2> SUFFICES ASSUME StartupIInv, main_pc = "scheduler"
               PROVE  ram.made = KernelObject
    BY DEF StartedWhole
  <2>1. \A j \in 1..12 : Done(Calls[j], ram)
    <3>1. main_pc = Calls[13] /\ 13 \in 1..Len(Calls)
      BY CallsByName
    <3>2. \A j \in 1..(13 - 1) : Done(Calls[j], ram)
      BY <3>1 DEF StartupIInv, DoneInOrder
    <3> QED
      BY <3>2
  <2>2. /\ "TzCtrl" \in ram.made /\ "IP-task" \in ram.made
        /\ "comms_queue" \in ram.made /\ "Comms" \in ram.made
        /\ "Sensor" \in ram.made /\ "VoltageMonitor" \in ram.made
        /\ "Stats" \in ram.made
    BY <2>1, CallsByName DEF Done
  <2>3. ram.made \subseteq KernelObject
    BY DEF StartupIInv, StartupTypeOK
  <2> QED
    BY <2>2, <2>3 DEF KernelObject
<1> QED
  BY <1>1, StartupInvariance, PTL

\* Everything that is logged has a channel.
THEOREM LoggedOnChannels == StartupSpec => []LogsHaveChannels
<1>1. StartupIInv => LogsHaveChannels
  BY DEF StartupIInv
<1> QED
  BY <1>1, StartupInvariance, PTL
=============================================================================
