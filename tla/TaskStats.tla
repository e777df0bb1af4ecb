----------------------------- MODULE TaskStats -----------------------------
(***************************************************************************)
(* The task statistics (freertos/src/stats.c): once a second the Stats     *)
(* task takes a snapshot of all tasks and logs one event per task, naming  *)
(* the task by a trace string that it registers the first time it meets    *)
(* the name.  Tasks are created while it runs: the network driver's when   *)
(* the IP task brings the network up.  The recorder keeps the strings in   *)
(* one table, with the names of the tasks it traces, of kernel objects and *)
(* of the channels that other files register.                              *)
(***************************************************************************)
EXTENDS Integers, FiniteSets

CONSTANTS
    AppTask,             \* the names of the tasks
    BootTask,            \* those that exist when the scheduler starts
    MAX_TASKS,           \* 12, slots of the snapshot and of the name table
    TRC_CFG_ENTRY_SLOTS, \* 50, what the recorder's entry table holds
    OTHER_ENTRIES,       \* bound: entries that are neither tasks nor their names
    NoName               \* the name of an empty slot

\* app_config.h names the application's tasks, and those that the kernel, the
\* recorder and the network stack create.
AppName == {"Sensor", "VoltageMonitor", "Comms", "Stats", "IDLE", "Tmr Svc",
            "TzCtrl", "IP-task", "EMAC"}

ASSUME TaskAssumption == BootTask \subseteq AppTask /\ AppTask \subseteq AppName
ASSUME MaxTasksAssumption ==
    MAX_TASKS \in Nat /\ Cardinality(AppTask) <= MAX_TASKS
\* Each task has an entry as a traced object and one for its trace string.
ASSUME SlotsAssumption ==
    /\ TRC_CFG_ENTRY_SLOTS \in Nat
    /\ OTHER_ENTRIES \in Nat
    /\ 2 * Cardinality(AppTask) + OTHER_ENTRIES <= TRC_CFG_ENTRY_SLOTS
ASSUME NoNameAssumption == NoName \notin AppTask

VARIABLES
    stats_pc,        \* where the Stats task is
    tasks,           \* the tasks that exist
    num_tasks,       \* the Stats task's local variable
    total_runtime,   \* likewise: "undefined" until a snapshot writes it, then
                     \* "short" if less than 100, or "long"
    g_task_stats,    \* the part of the snapshot still to be logged
    g_task_names,    \* the name in each slot; its symbol is not 0 if it has one
    entries,         \* entries used in the recorder's table
    other_entries,   \* those of channels and kernel objects
    h_logged         \* history: the tasks logged in this report

statsVars == <<stats_pc, tasks, num_tasks, total_runtime, g_task_stats,
               g_task_names, entries, other_entries, h_logged>>

Slot == 1..MAX_TASKS

StatsInit ==
    /\ stats_pc = "delay"
    /\ tasks = BootTask
    /\ num_tasks = 0
    /\ total_runtime = "undefined"
    /\ g_task_stats = {}
    /\ g_task_names = [i \in Slot |-> NoName]
    /\ other_entries \in 0..OTHER_ENTRIES
    /\ entries = Cardinality(BootTask) + other_entries
    /\ h_logged = {}

-----------------------------------------------------------------------------
configMINIMAL_STACK_SIZE == 256

\* Mutant: below the IP task.
STATS_PRIO_Low == 2

STATS_PRIO == 4
IP_PRIO == 3

\* One more entry; a full table stays as it is.
TakesEntry ==
    entries' = IF entries < TRC_CFG_ENTRY_SLOTS THEN entries + 1 ELSE entries

\* A channel or a kernel object gets its name: any task, at any time.
OtherRegisters ==
    /\ other_entries < OTHER_ENTRIES
    /\ other_entries' = other_entries + 1
    /\ TakesEntry
    /\ UNCHANGED <<stats_pc, tasks, num_tasks, total_runtime, g_task_stats,
                   g_task_names, h_logged>>

\* A task is created by one of a lower priority than the Stats task, so never
\* in the middle of a report.
TaskCreated(t) ==
    /\ t \in AppTask \ tasks
    /\ stats_pc = "delay" \/ IP_PRIO >= STATS_PRIO
    /\ tasks' = tasks \cup {t}
    /\ TakesEntry
    /\ UNCHANGED <<stats_pc, num_tasks, total_runtime, g_task_stats, g_task_names,
                   other_entries, h_logged>>

\* The period is over: uxTaskGetNumberOfTasks and the assertion on it.
CountTasks ==
    /\ stats_pc = "delay"
    /\ num_tasks' = Cardinality(tasks)
    /\ stats_pc' = IF num_tasks' <= MAX_TASKS THEN "snapshot" ELSE "asserted"
    /\ h_logged' = {}
    /\ UNCHANGED <<tasks, total_runtime, g_task_stats, g_task_names, entries,
                   other_entries>>

\* uxTaskGetSystemState writes nothing when the array is too small.
TakeSnapshot ==
    /\ stats_pc = "snapshot"
    /\ stats_pc' = "check"
    /\ IF Cardinality(tasks) <= num_tasks
       THEN /\ g_task_stats' = tasks
            /\ num_tasks' = Cardinality(tasks)
            /\ total_runtime' \in {"short", "long"}
       ELSE /\ num_tasks' = 0
            /\ UNCHANGED <<g_task_stats, total_runtime>>
    /\ UNCHANGED <<tasks, g_task_names, entries, other_entries, h_logged>>

\* if((total_runtime / 100) != 0), then the loop over num_tasks.
CheckRuntime ==
    /\ stats_pc = "check"
    /\ stats_pc' = IF total_runtime = "long" /\ num_tasks > 0
                   THEN "report" ELSE "delay"
    /\ UNCHANGED <<tasks, num_tasks, total_runtime, g_task_stats, g_task_names,
                   entries, other_entries, h_logged>>

-----------------------------------------------------------------------------
(* One task's event.                                                        *)

Known(t) == \E i \in Slot : g_task_names[i] = t

FreeSlots == {i \in Slot : g_task_names[i] = NoName}

\* Mutant: registered once for the name and once for the symbol.
Register_Twice(t) ==
    /\ FreeSlots # {}
    /\ entries < TRC_CFG_ENTRY_SLOTS
    /\ entries' = entries + 2
    /\ \E i \in FreeSlots :
           /\ \A j \in FreeSlots : i <= j
           /\ g_task_names' = [g_task_names EXCEPT ![i] = t]

\* The first free slot gets the name and a new entry of the recorder's table.
\* No slot or no entry leaves the symbol 0.
Register(t) ==
    /\ FreeSlots # {}
    /\ entries < TRC_CFG_ENTRY_SLOTS
    /\ entries' = entries + 1
    /\ \E i \in FreeSlots :
           /\ \A j \in FreeSlots : i <= j
           /\ g_task_names' = [g_task_names EXCEPT ![i] = t]

\* Returns a symbol, which it may have had to register.
task_name_sym(t) ==
    \/ Known(t) /\ UNCHANGED <<g_task_names, entries>>
    \/ ~Known(t) /\ Register(t)

\* Mutant: EMAC_NAME is forgotten.
task_stack_size_NoEmac(name) ==
    CASE name \in {"Sensor", "VoltageMonitor", "Comms", "IDLE"} -> configMINIMAL_STACK_SIZE
      [] name \in {"Stats", "Tmr Svc"} -> 2 * configMINIMAL_STACK_SIZE
      [] name = "IP-task" -> 5 * configMINIMAL_STACK_SIZE
      [] name = "TzCtrl" -> 1024
      [] OTHER -> 0

\* By name, one comparison after the other.
task_stack_size(name) ==
    CASE name \in {"Sensor", "VoltageMonitor", "Comms", "IDLE"} -> configMINIMAL_STACK_SIZE
      [] name \in {"Stats", "Tmr Svc", "EMAC"} -> 2 * configMINIMAL_STACK_SIZE
      [] name = "IP-task" -> 5 * configMINIMAL_STACK_SIZE
      [] name = "TzCtrl" -> 1024
      [] OTHER -> 0

NoSymbol(t) == ~Known(t) /\ (FreeSlots = {} \/ entries = TRC_CFG_ENTRY_SLOTS)

\* Mutant: the loop ends one task early.
EndOfLoop_OffByOne == Cardinality(g_task_stats) <= 2

\* The task being logged is the last of the snapshot.
EndOfLoop == Cardinality(g_task_stats) <= 1

\* The symbol and the stack size are arguments of one call: when one of them
\* asserts, what the other did no longer matters.
log_task_stats(t) ==
    /\ stats_pc = "report"
    /\ t \in g_task_stats
    /\ \/ /\ task_name_sym(t)
          /\ task_stack_size(t) # 0
          /\ g_task_stats' = g_task_stats \ {t}
          /\ h_logged' = h_logged \cup {t}
          /\ stats_pc' = IF EndOfLoop THEN "delay" ELSE "report"
       \/ /\ NoSymbol(t) \/ task_stack_size(t) = 0
          /\ stats_pc' = "asserted"
          /\ UNCHANGED <<g_task_stats, g_task_names, entries, h_logged>>
    /\ UNCHANGED <<tasks, num_tasks, total_runtime, other_entries>>

StatsTask ==
    \/ CountTasks
    \/ TakeSnapshot
    \/ CheckRuntime
    \/ \E t \in AppTask : log_task_stats(t)

StatsNext ==
    \/ OtherRegisters
    \/ \E t \in AppTask : TaskCreated(t)
    \/ StatsTask

\* The Stats task has the highest priority.  The run time is short only just
\* after the 32-bit timer has wrapped.
LongSnapshot == TakeSnapshot /\ total_runtime' = "long"

StatsSpec ==
    /\ StatsInit
    /\ [][StatsNext]_statsVars
    /\ WF_statsVars(StatsTask)
    /\ SF_statsVars(LongSnapshot)

-----------------------------------------------------------------------------
StatsTypeOK ==
    /\ stats_pc \in {"delay", "snapshot", "check", "report", "asserted"}
    /\ tasks \subseteq AppTask
    /\ num_tasks \in 0..MAX_TASKS
    /\ total_runtime \in {"undefined", "short", "long"}
    /\ g_task_stats \subseteq AppTask
    /\ g_task_names \in [Slot -> AppTask \cup {NoName}]
    /\ entries \in 0..TRC_CFG_ENTRY_SLOTS
    /\ other_entries \in 0..OTHER_ENTRIES
    /\ h_logged \subseteq AppTask

\* A name takes at most one slot however often it is reported, and the Stats
\* task takes one entry of the recorder's table for each slot in use: whatever
\* else is registered meanwhile, neither table runs out with time.
NamedOnce ==
    /\ \A i, j \in Slot :
           g_task_names[i] = g_task_names[j] /\ g_task_names[i] # NoName => i = j
    /\ entries = other_entries + Cardinality(tasks)
                     + Cardinality({i \in Slot : g_task_names[i] # NoName})

\* No assertion of the Stats task fails: not the one on the number of tasks, nor
\* the one on the symbol, which fails when the tasks, the channels and the
\* kernel objects have filled the recorder's table, nor the one on the stack
\* size, which fails for a task whose name is in none of the comparisons of
\* task_stack_size.
NeverAsserts == stats_pc # "asserted"

\* total_runtime is a local variable that only a successful snapshot writes; it
\* is not read before.
RuntimeDefined == stats_pc = "check" => total_runtime # "undefined"

\* A report covers the tasks there are, each once: none appears or is missed
\* between the count, the snapshot and the last event.
ReportIsWhole ==
    stats_pc = "report" =>
        /\ h_logged \cup g_task_stats = tasks
        /\ h_logged \cap g_task_stats = {}

\* Every task that is created is named in some report.
EveryTaskReported ==
    \A t \in AppTask : t \in tasks ~> (t \in h_logged)
=============================================================================
