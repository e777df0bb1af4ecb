--------------------------- MODULE RecorderProofs ---------------------------
(***************************************************************************)
(* Proofs about the two parts of the firmware that feed the trace          *)
(* recorder: the task statistics, for every set of tasks and every size of *)
(* the tables, and the trace stream port, for every set of clients, every  *)
(* buffer and any number of events.                                        *)
(***************************************************************************)
EXTENDS TaskStats, TraceStreamPort, FiniteSetTheorems, SequenceTheorems, TLAPS

-----------------------------------------------------------------------------
(* Task statistics.                                                         *)

\* The slots that have a name.
UsedSlots == {i \in Slot : g_task_names[i] # NoName}

\* Between the count and the end of the report no task is created, so the
\* count stays right and the snapshot whole.
SnapshotIsCurrent ==
    /\ stats_pc \in {"snapshot", "check"} =>
           num_tasks = Cardinality(tasks) /\ h_logged = {}
    /\ stats_pc = "check" => g_task_stats = tasks /\ total_runtime # "undefined"
    /\ stats_pc = "report" => g_task_stats # {}

\* The inductive invariant: NamedOnce keeps the tables from filling up, which
\* NeverAsserts needs.
StatsIInv ==
    /\ StatsTypeOK
    /\ NamedOnce
    /\ NeverAsserts
    /\ ReportIsWhole
    /\ SnapshotIsCurrent

\* There are finitely many tasks, and a number of them.
LEMMA TasksFinite ==
    ASSUME NEW S \in SUBSET AppTask
    PROVE  /\ IsFiniteSet(S)
           /\ Cardinality(S) \in 0..MAX_TASKS
<1>1. IsFiniteSet(AppTask)
  <2>1. IsFiniteSet(AppName)
    <3>1. \A x : IsFiniteSet({x})
      BY FS_Singleton
    <3>2. \A S1, T1 : IsFiniteSet(S1) /\ IsFiniteSet(T1) => IsFiniteSet(S1 \cup T1)
      BY FS_Union
    <3>3. IsFiniteSet({"Sensor"} \cup {"VoltageMonitor"} \cup {"Comms"} \cup {"Stats"}
                      \cup {"IDLE"} \cup {"Tmr Svc"} \cup {"TzCtrl"} \cup {"IP-task"}
                      \cup {"EMAC"})
      BY <3>1, <3>2
    <3>4. AppName = {"Sensor"} \cup {"VoltageMonitor"} \cup {"Comms"} \cup {"Stats"}
                    \cup {"IDLE"} \cup {"Tmr Svc"} \cup {"TzCtrl"} \cup {"IP-task"}
                    \cup {"EMAC"}
      BY DEF AppName
    <3> QED
      BY <3>3, <3>4
  <2> QED
    BY <2>1, FS_Subset, TaskAssumption
<1>2. IsFiniteSet(S) /\ Cardinality(S) <= Cardinality(AppTask)
  BY <1>1, FS_Subset
<1>3. Cardinality(S) \in Nat /\ Cardinality(AppTask) \in Nat
  BY <1>1, <1>2, FS_CardinalityType
<1> QED
  BY <1>2, <1>3, MaxTasksAssumption

\* The slots are numbered.
LEMMA SlotsFinite ==
    ASSUME NEW S \in SUBSET Slot
    PROVE  IsFiniteSet(S) /\ Cardinality(S) \in Nat
<1>1. IsFiniteSet(Slot)
  BY FS_Interval, MaxTasksAssumption DEF Slot
<1> QED
  BY <1>1, FS_Subset, FS_CardinalityType

\* Every task has a stack size.
LEMMA StackSizeKnown ==
    ASSUME NEW t \in AppTask
    PROVE  task_stack_size(t) # 0
<1>1. t \in AppName
  BY TaskAssumption
<1>2. \/ task_stack_size(t) = configMINIMAL_STACK_SIZE
      \/ task_stack_size(t) = 2 * configMINIMAL_STACK_SIZE
      \/ task_stack_size(t) = 5 * configMINIMAL_STACK_SIZE
      \/ task_stack_size(t) = 1024
  <2>1. CASE t \in {"Sensor", "VoltageMonitor", "Comms", "IDLE"}
    BY <2>1, ZenonT(60) DEF task_stack_size
  <2>2. CASE t \in {"Stats", "Tmr Svc", "EMAC"}
    BY <2>2, ZenonT(60) DEF task_stack_size
  <2>3. CASE t = "IP-task"
    BY <2>3, ZenonT(60) DEF task_stack_size
  <2>4. CASE t = "TzCtrl"
    BY <2>4, ZenonT(60) DEF task_stack_size
  <2> QED
    BY <1>1, <2>1, <2>2, <2>3, <2>4 DEF AppName
<1> QED
  BY <1>2 DEF configMINIMAL_STACK_SIZE

\* A task that is not named yet finds a free slot and a free entry: the names
\* in use are those of other tasks, each once.
LEMMA TablesHaveRoom ==
    ASSUME StatsIInv, NEW t \in AppTask, ~Known(t)
    PROVE  FreeSlots # {} /\ entries < TRC_CFG_ENTRY_SLOTS
<1> DEFINE others == AppTask \ {t}
           name == [i \in UsedSlots |-> g_task_names[i]]
<1>1. /\ g_task_names \in [Slot -> AppTask \cup {NoName}]
      /\ entries = other_entries + Cardinality(tasks) + Cardinality(UsedSlots)
      /\ \A i, j \in Slot :
             g_task_names[i] = g_task_names[j] /\ g_task_names[i] # NoName => i = j
  BY DEF StatsIInv, StatsTypeOK, NamedOnce, UsedSlots
<1>2. name \in [UsedSlots -> others]
  BY <1>1 DEF UsedSlots, Known
<1>3. \A i, j \in UsedSlots : name[i] = name[j] => i = j
  BY <1>1 DEF UsedSlots
<1>4. name \in Injection(UsedSlots, others)
  BY <1>2, <1>3 DEF Injection, IsInjective
<1>5. IsFiniteSet(AppTask) /\ Cardinality(AppTask) \in Nat
  BY TasksFinite
<1>6. IsFiniteSet(others) /\ Cardinality(others) = Cardinality(AppTask) - 1
  BY <1>5, FS_RemoveElement
<1>7. Cardinality(UsedSlots) <= Cardinality(others)
  BY <1>4, <1>6, FS_Injection
<1>8. Cardinality(UsedSlots) \in Nat
  BY SlotsFinite DEF UsedSlots
<1>9. Cardinality(UsedSlots) < Cardinality(AppTask)
  BY <1>5, <1>6, <1>7, <1>8
<1>10. FreeSlots # {}
  <2>1. SUFFICES ASSUME FreeSlots = {} PROVE FALSE
    OBVIOUS
  <2>2. UsedSlots = Slot
    BY <2>1 DEF UsedSlots, FreeSlots
  <2>3. Cardinality(Slot) = MAX_TASKS
    BY FS_Interval, MaxTasksAssumption DEF Slot
  <2> QED
    BY <1>5, <1>8, <1>9, <2>2, <2>3, MaxTasksAssumption
<1>11. entries < TRC_CFG_ENTRY_SLOTS
  <2>1. tasks \in SUBSET AppTask /\ other_entries \in 0..OTHER_ENTRIES
    BY DEF StatsIInv, StatsTypeOK
  <2>2. Cardinality(tasks) \in Nat /\ Cardinality(tasks) <= Cardinality(AppTask)
    BY <1>5, <2>1, FS_Subset, FS_CardinalityType
  <2> HIDE DEF others, name
  <2> QED
    BY <1>1, <1>5, <1>8, <1>9, <2>1, <2>2, SlotsAssumption
<1> QED
  BY <1>10, <1>11

\* A new task, channel or kernel object finds an entry too.
LEMMA EntryTaken ==
    ASSUME StatsIInv, TakesEntry,
           NEW n \in 0..OTHER_ENTRIES, NEW S \in SUBSET AppTask,
           n + Cardinality(S) = other_entries + Cardinality(tasks) + 1
    PROVE  /\ entries' = n + Cardinality(S) + Cardinality(UsedSlots)
           /\ entries' \in 0..TRC_CFG_ENTRY_SLOTS
<1>1. IsFiniteSet(AppTask) /\ Cardinality(AppTask) \in Nat
  BY TasksFinite
<1>2. Cardinality(S) \in Nat /\ Cardinality(S) <= Cardinality(AppTask)
  BY <1>1, FS_Subset, FS_CardinalityType
<1>3. Cardinality(UsedSlots) \in Nat
  BY SlotsFinite DEF UsedSlots
<1>4. Cardinality(UsedSlots) <= Cardinality(AppTask)
  <2> DEFINE name == [i \in UsedSlots |-> g_task_names[i]]
  <2>1. name \in [UsedSlots -> AppTask]
    BY DEF StatsIInv, StatsTypeOK, UsedSlots
  <2>2. \A i, j \in UsedSlots : name[i] = name[j] => i = j
    BY DEF StatsIInv, NamedOnce, UsedSlots
  <2>3. name \in Injection(UsedSlots, AppTask)
    BY <2>1, <2>2 DEF Injection, IsInjective
  <2> QED
    BY <1>1, <2>3, FS_Injection
<1>5. /\ entries = other_entries + Cardinality(tasks) + Cardinality(UsedSlots)
      /\ tasks \in SUBSET AppTask /\ other_entries \in Nat
  BY SlotsAssumption DEF StatsIInv, NamedOnce, UsedSlots, StatsTypeOK
<1>6. Cardinality(tasks) \in Nat
  BY <1>5, TasksFinite
<1>7. /\ OTHER_ENTRIES \in Nat /\ TRC_CFG_ENTRY_SLOTS \in Nat
      /\ Cardinality(AppTask) + Cardinality(AppTask) + OTHER_ENTRIES
             <= TRC_CFG_ENTRY_SLOTS
  BY <1>1, SlotsAssumption
<1>8. n + Cardinality(S) + Cardinality(UsedSlots) <= TRC_CFG_ENTRY_SLOTS
  BY <1>1, <1>2, <1>3, <1>4, <1>7
<1>9. entries < TRC_CFG_ENTRY_SLOTS
  BY <1>2, <1>3, <1>5, <1>6, <1>7, <1>8
<1>10. entries' = entries + 1
  BY <1>9 DEF TakesEntry
<1> QED
  BY <1>2, <1>3, <1>5, <1>6, <1>7, <1>8, <1>10

\* Registering a name keeps both tables in step.
LEMMA RegisterStep ==
    ASSUME StatsIInv, NEW t \in AppTask, ~Known(t), Register(t),
           UNCHANGED <<tasks, other_entries>>
    PROVE  /\ g_task_names' \in [Slot -> AppTask \cup {NoName}]
           /\ entries' \in 0..TRC_CFG_ENTRY_SLOTS
           /\ NamedOnce'
<1>1. /\ g_task_names \in [Slot -> AppTask \cup {NoName}]
      /\ entries \in 0..TRC_CFG_ENTRY_SLOTS
      /\ entries = other_entries + Cardinality(tasks) + Cardinality(UsedSlots)
      /\ \A i, j \in Slot :
             g_task_names[i] = g_task_names[j] /\ g_task_names[i] # NoName => i = j
  BY DEF StatsIInv, StatsTypeOK, NamedOnce, UsedSlots
<1>2. entries < TRC_CFG_ENTRY_SLOTS /\ entries' = entries + 1
  BY DEF Register
<1>3. PICK i \in FreeSlots : g_task_names' = [g_task_names EXCEPT ![i] = t]
  BY DEF Register
<1>4. /\ i \in Slot /\ g_task_names[i] = NoName
      /\ t # NoName
      /\ \A j \in Slot : g_task_names[j] # t
  BY NoNameAssumption DEF FreeSlots, Known
<1>5. g_task_names' \in [Slot -> AppTask \cup {NoName}]
  BY <1>1, <1>3
<1>6. \A j \in Slot : g_task_names'[j] = IF j = i THEN t ELSE g_task_names[j]
  BY <1>1, <1>3
<1>7. \A j, k \in Slot :
          g_task_names'[j] = g_task_names'[k] /\ g_task_names'[j] # NoName => j = k
  BY <1>1, <1>4, <1>6
<1>8. UsedSlots' = UsedSlots \cup {i} /\ i \notin UsedSlots
  BY <1>4, <1>6 DEF UsedSlots
<1>9. entries' = (other_entries + Cardinality(tasks) + Cardinality(UsedSlots))'
  <2>1. IsFiniteSet(UsedSlots) /\ Cardinality(UsedSlots) \in Nat
    BY SlotsFinite DEF UsedSlots
  <2>2. Cardinality(UsedSlots)' = Cardinality(UsedSlots) + 1
    BY <1>8, <2>1, FS_AddElement
  <2>3. /\ Cardinality(tasks) \in Nat /\ other_entries \in Nat
        /\ Cardinality(tasks)' = Cardinality(tasks)
    BY TasksFinite, SlotsAssumption DEF StatsIInv, StatsTypeOK
  <2> QED
    BY <1>1, <1>2, <2>1, <2>2, <2>3
<1>10. entries' \in 0..TRC_CFG_ENTRY_SLOTS
  BY <1>1, <1>2, SlotsAssumption
<1> QED
  BY <1>5, <1>7, <1>9, <1>10 DEF NamedOnce, UsedSlots

\* No slot is in use at first, and every task at boot has its entry.
LEMMA StatsInvInit == StatsInit => StatsIInv
<1> SUFFICES ASSUME StatsInit PROVE StatsIInv
  OBVIOUS
<1>1. \A i \in Slot : g_task_names[i] = NoName
  BY DEF StatsInit
<1>2. UsedSlots = {} /\ Cardinality(UsedSlots) = 0
  BY <1>1, FS_EmptySet DEF UsedSlots
<1>3. /\ IsFiniteSet(AppTask) /\ Cardinality(AppTask) \in Nat
      /\ tasks = BootTask /\ tasks \in SUBSET AppTask
  BY TasksFinite, TaskAssumption DEF StatsInit
<1>4. Cardinality(tasks) \in Nat /\ Cardinality(tasks) <= Cardinality(AppTask)
  BY <1>3, FS_Subset, FS_CardinalityType
<1>5. other_entries \in 0..OTHER_ENTRIES /\ entries = Cardinality(tasks) + other_entries
  BY <1>3 DEF StatsInit
<1>6. entries \in 0..TRC_CFG_ENTRY_SLOTS
  BY <1>3, <1>4, <1>5, SlotsAssumption
<1>7. StatsTypeOK
  BY <1>3, <1>5, <1>6, MaxTasksAssumption DEF StatsInit, StatsTypeOK
<1>8. NamedOnce
  BY <1>1, <1>2, <1>4, <1>5, SlotsAssumption DEF NamedOnce, UsedSlots
<1> QED
  BY <1>7, <1>8
  DEF StatsInit, StatsIInv, NeverAsserts, ReportIsWhole, SnapshotIsCurrent

\* A registration elsewhere leaves the Stats task room.
LEMMA OtherStep ==
    ASSUME StatsIInv, OtherRegisters
    PROVE  StatsIInv'
<1>1. /\ other_entries' = other_entries + 1 /\ other_entries < OTHER_ENTRIES
      /\ TakesEntry
      /\ UNCHANGED <<stats_pc, tasks, num_tasks, total_runtime, g_task_stats,
                     g_task_names, h_logged>>
  BY DEF OtherRegisters
<1>2. other_entries' \in 0..OTHER_ENTRIES /\ other_entries \in Nat
  BY <1>1, SlotsAssumption DEF StatsIInv, StatsTypeOK
<1>3. tasks \in SUBSET AppTask /\ Cardinality(tasks) \in Nat
  BY TasksFinite DEF StatsIInv, StatsTypeOK
<1>4. other_entries' + Cardinality(tasks) = other_entries + Cardinality(tasks) + 1
  BY <1>1, <1>2, <1>3
<1>5. /\ entries' = other_entries' + Cardinality(tasks) + Cardinality(UsedSlots)
      /\ entries' \in 0..TRC_CFG_ENTRY_SLOTS
  BY <1>1, <1>2, <1>3, <1>4, EntryTaken
<1>6. NamedOnce'
  BY <1>1, <1>5 DEF StatsIInv, NamedOnce, UsedSlots
<1> QED
  BY <1>1, <1>2, <1>5, <1>6
  DEF StatsIInv, StatsTypeOK, NeverAsserts, ReportIsWhole, SnapshotIsCurrent

\* The steps before the report, and the creation of a task.
LEMMA BeforeReportStep ==
    ASSUME StatsIInv,
           \/ \E t \in AppTask : TaskCreated(t)
           \/ CountTasks \/ TakeSnapshot \/ CheckRuntime
    PROVE  StatsIInv'
<1>1. tasks \in SUBSET AppTask
  BY DEF StatsIInv, StatsTypeOK
<1>2. Cardinality(tasks) \in 0..MAX_TASKS
  BY <1>1, TasksFinite
<1>3. CountTasks \/ TakeSnapshot \/ CheckRuntime =>
          UNCHANGED <<g_task_names, entries, other_entries, tasks>>
  BY DEF CountTasks, TakeSnapshot, CheckRuntime
<1>4. CountTasks \/ TakeSnapshot \/ CheckRuntime => NamedOnce'
  BY <1>3 DEF StatsIInv, NamedOnce
<1>5. CASE \E t \in AppTask : TaskCreated(t)
  <2>1. PICK t \in AppTask : TaskCreated(t)
    BY <1>5
  <2>2. stats_pc = "delay"
    BY <2>1 DEF TaskCreated, STATS_PRIO, IP_PRIO
  <2>3. /\ tasks' = tasks \cup {t} /\ t \notin tasks /\ TakesEntry
        /\ tasks' \in SUBSET AppTask
        /\ UNCHANGED <<stats_pc, num_tasks, total_runtime, g_task_stats,
                       g_task_names, other_entries, h_logged>>
    BY <1>1, <2>1 DEF TaskCreated
  <2>4. Cardinality(tasks') = Cardinality(tasks) + 1
    BY <1>1, <2>3, TasksFinite, FS_AddElement
  <2>5. other_entries \in 0..OTHER_ENTRIES /\ other_entries \in Nat
    BY SlotsAssumption DEF StatsIInv, StatsTypeOK
  <2>6. other_entries + Cardinality(tasks') = other_entries + Cardinality(tasks) + 1
    BY <1>2, <2>4, <2>5
  <2>7. /\ entries' = other_entries + Cardinality(tasks') + Cardinality(UsedSlots)
        /\ entries' \in 0..TRC_CFG_ENTRY_SLOTS
    BY <2>3, <2>5, <2>6, EntryTaken
  <2>8. NamedOnce'
    BY <2>3, <2>7 DEF StatsIInv, NamedOnce, UsedSlots
  <2> QED
    BY <2>2, <2>3, <2>7, <2>8
    DEF StatsIInv, StatsTypeOK, NeverAsserts, ReportIsWhole, SnapshotIsCurrent
<1>6. CASE CountTasks
  <2>1. num_tasks' \in 0..MAX_TASKS /\ stats_pc' = "snapshot"
    BY <1>2, <1>6 DEF CountTasks
  <2> QED
    BY <1>4, <1>6, <2>1
    DEF CountTasks, StatsIInv, StatsTypeOK, NeverAsserts, ReportIsWhole,
        SnapshotIsCurrent
<1>7. CASE TakeSnapshot
  <2>1. num_tasks = Cardinality(tasks) /\ h_logged = {}
    BY <1>7 DEF TakeSnapshot, StatsIInv, SnapshotIsCurrent
  <2>2. /\ g_task_stats' = tasks
        /\ num_tasks' = Cardinality(tasks)
        /\ total_runtime' \in {"short", "long"}
    BY <1>2, <1>7, <2>1 DEF TakeSnapshot
  <2> QED
    BY <1>2, <1>4, <1>7, <2>1, <2>2
    DEF TakeSnapshot, StatsIInv, StatsTypeOK, NeverAsserts, ReportIsWhole,
        SnapshotIsCurrent
<1>8. CASE CheckRuntime
  <2>1. num_tasks = Cardinality(tasks) /\ h_logged = {} /\ g_task_stats = tasks
    BY <1>8 DEF CheckRuntime, StatsIInv, SnapshotIsCurrent
  <2>2. num_tasks > 0 => tasks # {}
    BY <2>1, FS_EmptySet
  <2> QED
    BY <1>4, <1>8, <2>1, <2>2
    DEF CheckRuntime, StatsIInv, StatsTypeOK, NeverAsserts, ReportIsWhole,
        SnapshotIsCurrent
<1> QED
  BY <1>5, <1>6, <1>7, <1>8

\* One task's event.
LEMMA LogStep ==
    ASSUME StatsIInv, NEW t \in AppTask, log_task_stats(t)
    PROVE  StatsIInv'
<1>1. ~NoSymbol(t) /\ task_stack_size(t) # 0
  <2>1. ~Known(t) => FreeSlots # {} /\ entries < TRC_CFG_ENTRY_SLOTS
    BY TablesHaveRoom
  <2>2. entries \in Nat /\ TRC_CFG_ENTRY_SLOTS \in Nat
    BY SlotsAssumption DEF StatsIInv, StatsTypeOK
  <2>3. ~NoSymbol(t)
    BY <2>1, <2>2 DEF NoSymbol
  <2> QED
    BY <2>3, StackSizeKnown
<1>2. /\ stats_pc = "report"
      /\ t \in g_task_stats
      /\ task_name_sym(t)
      /\ g_task_stats' = g_task_stats \ {t}
      /\ h_logged' = h_logged \cup {t}
      /\ stats_pc' = IF EndOfLoop THEN "delay" ELSE "report"
      /\ UNCHANGED <<tasks, num_tasks, total_runtime, other_entries>>
  BY <1>1 DEF log_task_stats
<1>3. /\ g_task_names' \in [Slot -> AppTask \cup {NoName}]
      /\ entries' \in 0..TRC_CFG_ENTRY_SLOTS
      /\ NamedOnce'
  <2>1. CASE Known(t) /\ UNCHANGED <<g_task_names, entries>>
    BY <1>2, <2>1 DEF StatsIInv, StatsTypeOK, NamedOnce
  <2>2. CASE ~Known(t) /\ Register(t)
    BY <1>2, <2>2, RegisterStep
  <2> QED
    BY <1>2, <2>1, <2>2 DEF task_name_sym
<1>4. g_task_stats \in SUBSET AppTask /\ h_logged \in SUBSET AppTask
  BY DEF StatsIInv, StatsTypeOK
<1>5. stats_pc' = "report" => g_task_stats' # {}
  <2>1. SUFFICES ASSUME ~EndOfLoop, g_task_stats \ {t} = {} PROVE FALSE
    BY <1>2
  <2>2. g_task_stats = {t}
    BY <1>2, <2>1
  <2>3. Cardinality(g_task_stats) = 1
    BY <2>2, FS_Singleton
  <2> QED
    BY <2>1, <2>3 DEF EndOfLoop
<1>6. StatsTypeOK'
  BY <1>2, <1>3, <1>4 DEF StatsIInv, StatsTypeOK
<1>7. ReportIsWhole'
  BY <1>2 DEF StatsIInv, ReportIsWhole
<1>8. SnapshotIsCurrent' /\ NeverAsserts'
  BY <1>2, <1>5 DEF SnapshotIsCurrent, NeverAsserts
<1> QED
  BY <1>3, <1>6, <1>7, <1>8 DEF StatsIInv

\* The inductive invariant is preserved by every step.
LEMMA StatsInvStep == StatsIInv /\ [StatsNext]_statsVars => StatsIInv'
<1> SUFFICES ASSUME StatsIInv, [StatsNext]_statsVars PROVE StatsIInv'
  OBVIOUS
<1>1. CASE UNCHANGED statsVars
  BY <1>1 DEF statsVars, StatsIInv, StatsTypeOK, NamedOnce, NeverAsserts,
              ReportIsWhole, SnapshotIsCurrent
<1> QED
  BY <1>1, OtherStep, BeforeReportStep, LogStep DEF StatsNext, StatsTask

\* Every reachable state satisfies the inductive invariant.
LEMMA StatsInvariance == StatsSpec => []StatsIInv
  BY StatsInvInit, StatsInvStep, PTL DEF StatsSpec

\* A name takes at most one slot, and one entry of the recorder's table for that
\* slot, however many reports task_name_sym serves.
THEOREM NamesDoNotRunOut == StatsSpec => []NamedOnce
<1>1. StatsIInv => NamedOnce
  BY DEF StatsIInv
<1> QED
  BY <1>1, StatsInvariance, PTL

\* No configASSERT of stats.c fails, as long as no more tasks exist than there
\* are slots, and the recorder's table holds two entries for each of them beside
\* those of all channels and kernel objects.
THEOREM StatsNeverAssert == StatsSpec => []NeverAsserts
<1>1. StatsIInv => NeverAsserts
  BY DEF StatsIInv
<1> QED
  BY <1>1, StatsInvariance, PTL

\* The local variable total_runtime is not read before a successful snapshot
\* wrote it.
THEOREM RuntimeIsDefined == StatsSpec => []RuntimeDefined
<1>1. StatsIInv => RuntimeDefined
  BY DEF StatsIInv, SnapshotIsCurrent, RuntimeDefined
<1> QED
  BY <1>1, StatsInvariance, PTL

\* A report covers the tasks that exist, each of them once.
THEOREM ReportCoversTasks == StatsSpec => []ReportIsWhole
<1>1. StatsIInv => ReportIsWhole
  BY DEF StatsIInv
<1> QED
  BY <1>1, StatsInvariance, PTL

-----------------------------------------------------------------------------
(* Trace stream port.                                                       *)

Event == 1..EVENTS_MAX

\* StreamComplete is inductive: what it needs is that no two clients are ever
\* connected or accepted at once, which the type invariant says.
PortIInv ==
    /\ PortTypeOK
    /\ trc_buffer \in Seq(Event)
    /\ h_kept \in Seq(Event)
    /\ StreamComplete

\* Sending the first n events of a buffer and keeping the rest loses nothing.
LEMMA SendPart ==
    ASSUME NEW S, NEW sent \in Seq(S), NEW buffer \in Seq(S), NEW n \in 0..Len(buffer)
    PROVE  /\ SubSeq(buffer, 1, n) \in Seq(S)
           /\ SubSeq(buffer, n + 1, Len(buffer)) \in Seq(S)
           /\ Len(SubSeq(buffer, n + 1, Len(buffer))) <= Len(buffer)
           /\ (sent \o SubSeq(buffer, 1, n)) \o SubSeq(buffer, n + 1, Len(buffer))
                  = sent \o buffer
<1> DEFINE part == SubSeq(buffer, 1, n)
           rest == SubSeq(buffer, n + 1, Len(buffer))
<1>1. /\ Len(buffer) \in Nat
      /\ \A k \in 1..Len(buffer) : buffer[k] \in S
  BY LenProperties, ElementOfSeq
<1>2. part \in Seq(S)
  BY <1>1, SubSeqProperties
<1>3. rest \in Seq(S) /\ Len(rest) <= Len(buffer)
  BY <1>1, SubSeqProperties
<1>4. part \o rest = buffer
  <2>1. /\ 1 \in 1..(Len(buffer) + 1)
        /\ n \in (1 - 1)..Len(buffer)
        /\ Len(buffer) \in n..Len(buffer)
    BY <1>1
  <2>2. part \o rest = SubSeq(buffer, 1, Len(buffer))
    BY <2>1, ConcatAdjacentSubSeq
  <2> QED
    BY <2>2, SubSeqFull
<1> HIDE DEF part, rest
<1>5. (sent \o part) \o rest = sent \o (part \o rest)
  BY <1>2, <1>3, ConcatAssociative, SMTT(40)
<1> QED
  BY <1>2, <1>3, <1>4, <1>5 DEF part, rest

\* Nothing is sent before there is anything to send.
LEMMA PortInvInit == PortInit => PortIInv
<1> SUFFICES ASSUME PortInit PROVE PortIInv
  OBVIOUS
<1>1. /\ trc_buffer = <<>> /\ h_kept = <<>> /\ <<>> \in Seq(Event)
      /\ Len(trc_buffer) = 0
  BY DEF PortInit
<1>2. h_stream \in [Client -> Seq(Event)] /\ \A c \in Client : h_stream[c] = <<>>
  BY <1>1 DEF PortInit
<1>3. Len(trc_buffer) <= BUFFER_SIZE /\ h_recorded \in 0..EVENTS_MAX
  BY <1>1, BufferAssumption, EventsAssumption DEF PortInit
<1>4. PortTypeOK
  BY <1>2, <1>3 DEF PortInit, PortTypeOK, Event
<1> QED
  BY <1>1, <1>2, <1>4 DEF PortInit, PortIInv, StreamComplete

\* The recorder's own step.
LEMMA RecordStep ==
    ASSUME PortIInv, Record
    PROVE  PortIInv'
<1>1. /\ trc_buffer \in Seq(Event) /\ h_kept \in Seq(Event)
      /\ Len(trc_buffer) \in Nat /\ Len(trc_buffer) <= BUFFER_SIZE
      /\ h_stream \in [Client -> Seq(Event)]
      /\ g_client_socket \subseteq Client
      /\ StreamComplete
  BY DEF PortIInv, PortTypeOK, Event
<1>2. /\ h_recorded' \in Event
      /\ UNCHANGED <<trc_net_up, g_server_socket, g_client_socket, backlog, hung_up,
                     port_state, h_stream>>
  BY EventsAssumption DEF Record, PortIInv, PortTypeOK, Event
<1>3. CASE UNCHANGED <<trc_buffer, h_kept>>
  BY <1>2, <1>3 DEF PortIInv, PortTypeOK, StreamComplete, Event
<1>4. CASE /\ Len(trc_buffer) < BUFFER_SIZE
           /\ trc_buffer' = Append(trc_buffer, h_recorded')
           /\ h_kept' = Append(h_kept, h_recorded')
  <2>1. /\ trc_buffer' = trc_buffer \o <<h_recorded'>>
        /\ h_kept' = h_kept \o <<h_recorded'>>
    BY <1>1, <1>2, <1>4, AppendIsConcat
  <2>2. /\ trc_buffer' \in Seq(Event) /\ h_kept' \in Seq(Event)
        /\ Len(trc_buffer') = Len(trc_buffer) + 1
    BY <1>1, <1>2, <1>4, AppendProperties
  <2>3. <<h_recorded'>> \in Seq(Event)
    BY <1>2
  <2>4. \A c \in g_client_socket : h_stream[c] \o trc_buffer' = h_kept'
    <3>1. TAKE c \in g_client_socket
    <3>2. h_stream[c] \in Seq(Event) /\ h_stream[c] \o trc_buffer = h_kept
      BY <1>1 DEF StreamComplete
    <3>3. \A s, t, u \in Seq(Event) : s \o (t \o u) = (s \o t) \o u
      BY ConcatAssociative
    <3>4. h_stream[c] \o (trc_buffer \o <<h_recorded'>>)
              = (h_stream[c] \o trc_buffer) \o <<h_recorded'>>
      BY <1>1, <2>3, <3>2, <3>3, ZenonT(60)
    <3> QED
      BY <2>1, <3>2, <3>4
  <2>5. g_client_socket = {} => trc_buffer' = h_kept'
    BY <1>1, <1>4 DEF StreamComplete
  <2>6. StreamComplete'
    BY <1>1, <1>2, <2>4, <2>5 DEF StreamComplete
  <2>7. PortTypeOK'
    BY <1>1, <1>2, <1>4, <2>2, BufferAssumption DEF PortIInv, PortTypeOK, Event
  <2> QED
    BY <2>2, <2>6, <2>7 DEF PortIInv
<1> QED
  BY <1>3, <1>4 DEF Record

\* Steps that touch neither the buffer, nor the client, nor the stream.
LEMMA EnvironmentStep ==
    ASSUME PortIInv,
           \/ PortNetworkChanges
           \/ \E c \in Client : Connects(c) \/ HangsUp(c)
           \/ OpenAsserts
           \/ xTraceStreamPortOnTraceEnd
           \/ UNCHANGED portVars
    PROVE  PortIInv'
<1>1. UNCHANGED <<g_server_socket, g_client_socket, trc_buffer, h_recorded, h_kept,
                  h_stream>>
  BY DEF PortNetworkChanges, Connects, HangsUp, OpenAsserts,
         xTraceStreamPortOnTraceEnd, portVars
<1>2. StreamComplete'
  BY <1>1 DEF PortIInv, StreamComplete
<1>3. trc_net_up' \in BOOLEAN
  BY DEF PortNetworkChanges, Connects, HangsUp, OpenAsserts,
         xTraceStreamPortOnTraceEnd, portVars,
         PortIInv, PortTypeOK
<1>4. port_state' \in {"open", "ended", "asserted"}
  BY DEF PortNetworkChanges, Connects, HangsUp, OpenAsserts,
         xTraceStreamPortOnTraceEnd, portVars,
         PortIInv, PortTypeOK
<1>5. hung_up' \subseteq Client
  BY DEF PortNetworkChanges, Connects, HangsUp, OpenAsserts,
         xTraceStreamPortOnTraceEnd, portVars,
         PortIInv, PortTypeOK
<1>6. /\ backlog' \subseteq Client
      /\ \A c, d \in g_client_socket \cup backlog' : c = d
  BY DEF PortNetworkChanges, Connects, HangsUp, OpenAsserts,
         xTraceStreamPortOnTraceEnd, portVars,
         PortIInv, PortTypeOK
<1>7. PortTypeOK'
  BY <1>1, <1>3, <1>4, <1>5, <1>6 DEF PortIInv, PortTypeOK
<1> QED
  BY <1>1, <1>2, <1>7 DEF PortIInv

\* Opening the sockets moves the one client from the backlog to the port.
LEMMA OpenStep ==
    ASSUME PortIInv, OpenSockets
    PROVE  /\ g_server_socket' \in BOOLEAN
           /\ g_client_socket' \subseteq Client
           /\ backlog' \subseteq Client
           /\ \A c, d \in g_client_socket' \cup backlog' : c = d
           /\ g_client_socket' = {} => trc_buffer = h_kept
           /\ \A c \in g_client_socket' : h_stream[c] \o trc_buffer = h_kept
           /\ \A c \in Client \ g_client_socket' : h_stream[c] = <<>>
<1>1. g_client_socket' = Accepted /\ backlog' = backlog \ Accepted
  BY DEF OpenSockets
<1>2. /\ g_client_socket \subseteq Client /\ backlog \subseteq Client
      /\ \A c, d \in g_client_socket \cup backlog : c = d
      /\ StreamComplete
      /\ trc_buffer \in Seq(Event)
  BY DEF PortIInv, PortTypeOK
<1>3. g_server_socket' \in BOOLEAN
  BY DEF OpenSockets, PortIInv, PortTypeOK
<1>4. CASE g_client_socket' = g_client_socket
  BY <1>1, <1>2, <1>3, <1>4 DEF StreamComplete
<1>5. CASE g_client_socket = {} /\ g_client_socket' = backlog
  <2>1. trc_buffer = h_kept /\ \A c \in Client : h_stream[c] = <<>>
    BY <1>2, <1>5 DEF StreamComplete
  <2>2. <<>> \o trc_buffer = trc_buffer
    BY <1>2, ConcatEmptySeq
  <2> QED
    BY <1>1, <1>2, <1>3, <1>5, <2>1, <2>2
<1> QED
  BY <1>1, <1>4, <1>5 DEF Accepted

\* What the stack took and what is left make up what there was.
LEMMA TransferStep ==
    ASSUME PortIInv, OpenSockets, NEW ret \in SendResults(g_client_socket'),
           Transfer(ret)
    PROVE  /\ h_stream' \in [Client -> Seq(Event)]
           /\ trc_buffer' \in Seq(Event)
           /\ Len(trc_buffer') <= Len(trc_buffer)
           /\ g_client_socket' = {} => trc_buffer' = h_kept
           /\ \A c \in g_client_socket' : h_stream'[c] \o trc_buffer' = h_kept
           /\ \A c \in Client \ g_client_socket' : h_stream'[c] = <<>>
<1>1. /\ trc_buffer \in Seq(Event) /\ Len(trc_buffer) \in Nat
      /\ h_stream \in [Client -> Seq(Event)]
  BY DEF PortIInv, PortTypeOK, Event
<1>2. /\ g_client_socket' \subseteq Client
      /\ g_client_socket' = {} => trc_buffer = h_kept
      /\ \A c \in g_client_socket' : h_stream[c] \o trc_buffer = h_kept
      /\ \A c \in Client \ g_client_socket' : h_stream[c] = <<>>
  BY OpenStep
<1>3. /\ h_stream' = [c \in Client |->
             IF c \in g_client_socket' /\ ret > 0
             THEN h_stream[c] \o SubSeq(trc_buffer, 1, ret)
             ELSE h_stream[c]]
      /\ trc_buffer' = SubSeq(trc_buffer, BytesWritten(ret) + 1, Len(trc_buffer))
  BY DEF Transfer
<1>4. CASE ret <= 0
  <2>1. BytesWritten(ret) = 0
    BY <1>1, <1>4 DEF BytesWritten, SendResults
  <2>2. trc_buffer' = trc_buffer
    BY <1>1, <1>3, <2>1, SubSeqFull
  <2>3. ~(ret > 0)
    BY <1>1, <1>4 DEF SendResults
  <2>4. h_stream' = h_stream
    BY <1>1, <1>3, <2>3
  <2> QED
    BY <1>1, <1>2, <2>2, <2>4
<1>5. CASE ret > 0
  <2>1. g_client_socket' # {} /\ ret \in 0..Len(trc_buffer) /\ BytesWritten(ret) = ret
    BY <1>1, <1>5 DEF BytesWritten, SendResults
  <2> DEFINE part == SubSeq(trc_buffer, 1, ret)
  <2>2. trc_buffer' = SubSeq(trc_buffer, ret + 1, Len(trc_buffer))
    BY <1>3, <2>1
  <2>3. \A s \in Seq(Event) :
            /\ part \in Seq(Event)
            /\ trc_buffer' \in Seq(Event)
            /\ Len(trc_buffer') <= Len(trc_buffer)
            /\ (s \o part) \o trc_buffer' = s \o trc_buffer
    <3>1. TAKE s \in Seq(Event)
    <3> DEFINE rest == SubSeq(trc_buffer, ret + 1, Len(trc_buffer))
    <3>2. /\ part \in Seq(Event)
          /\ rest \in Seq(Event)
          /\ Len(rest) <= Len(trc_buffer)
          /\ (s \o part) \o rest = s \o trc_buffer
      <4>1. trc_buffer \in Seq(Event)
        BY <1>1
      <4>2. ret \in 0..Len(trc_buffer)
        BY <2>1
      <4> QED
        BY <3>1, <4>1, <4>2, SendPart, ZenonT(60)
    <3>3. trc_buffer' = rest
      BY <2>2
    <3> HIDE DEF part, rest
    <3> QED
      BY <3>2, <3>3
  <2>4. /\ part \in Seq(Event)
        /\ trc_buffer' \in Seq(Event)
        /\ Len(trc_buffer') <= Len(trc_buffer)
    BY <1>1, <2>3
  <2> HIDE DEF part
  <2>5. h_stream' = [c \in Client |-> IF c \in g_client_socket'
                                      THEN h_stream[c] \o part ELSE h_stream[c]]
    BY <1>3, <1>5 DEF part
  <2>6. \A c \in Client : h_stream[c] \in Seq(Event)
                          /\ h_stream[c] \o part \in Seq(Event)
    BY <1>1, <2>4, ConcatProperties
  <2>7. h_stream' \in [Client -> Seq(Event)]
    BY <2>5, <2>6
  <2>8. \A c \in g_client_socket' : h_stream'[c] \o trc_buffer' = h_kept
    BY <1>2, <2>3, <2>5, <2>6
  <2>9. \A c \in Client \ g_client_socket' : h_stream'[c] = <<>>
    BY <1>2, <2>5
  <2> QED
    BY <2>1, <2>4, <2>7, <2>8, <2>9
<1> QED
  BY <1>1, <1>4, <1>5 DEF SendResults

\* The control task's steps.
LEMMA ControlTaskStep ==
    ASSUME PortIInv, ControlTask
    PROVE  PortIInv'
<1>1. /\ OpenSockets
      /\ UNCHANGED <<trc_net_up, hung_up, port_state, h_recorded, h_kept>>
  BY DEF ControlTask, trace_io_read, trace_io_write
<1>2. /\ h_stream' \in [Client -> Seq(Event)]
      /\ trc_buffer' \in Seq(Event)
      /\ Len(trc_buffer') <= Len(trc_buffer)
      /\ g_client_socket' = {} => trc_buffer' = h_kept
      /\ \A c \in g_client_socket' : h_stream'[c] \o trc_buffer' = h_kept
      /\ \A c \in Client \ g_client_socket' : h_stream'[c] = <<>>
  <2>1. CASE UNCHANGED <<h_stream, trc_buffer>>
    <3>1. /\ h_stream \in [Client -> Seq(Event)]
          /\ trc_buffer \in Seq(Event)
          /\ Len(trc_buffer) \in Nat
      BY DEF PortIInv, PortTypeOK, Event
    <3> QED
      BY <1>1, <2>1, <3>1, OpenStep
  <2>2. CASE \E ret \in SendResults(g_client_socket') : Transfer(ret)
    BY <1>1, <2>2, TransferStep
  <2> QED
    BY <2>1, <2>2 DEF ControlTask, trace_io_read, trace_io_write
<1>3. /\ g_server_socket' \in BOOLEAN
      /\ g_client_socket' \subseteq Client
      /\ backlog' \subseteq Client
      /\ \A c, d \in g_client_socket' \cup backlog' : c = d
  BY <1>1, OpenStep
<1>4. Len(trc_buffer') <= BUFFER_SIZE
  <2>1. Len(trc_buffer) \in Nat /\ Len(trc_buffer') \in Nat
    BY <1>2 DEF PortIInv
  <2> QED
    BY <1>2, <2>1, BufferAssumption DEF PortIInv, PortTypeOK
<1>5. PortTypeOK'
  BY <1>1, <1>2, <1>3, <1>4 DEF PortIInv, PortTypeOK, Event
<1>6. h_kept' \in Seq(Event)
  BY <1>1 DEF PortIInv
<1>7. StreamComplete'
  BY <1>1, <1>2 DEF StreamComplete
<1> QED
  BY <1>2, <1>5, <1>6, <1>7 DEF PortIInv

\* The inductive invariant is preserved by every step.
LEMMA PortInvStep == PortIInv /\ [PortNext]_portVars => PortIInv'
  BY RecordStep, EnvironmentStep, ControlTaskStep DEF PortNext

\* Every reachable state satisfies the inductive invariant.
LEMMA PortInvariance == PortSpec => []PortIInv
  BY PortInvInit, PortInvStep, PTL DEF PortSpec

\* The port never serves more than one client, and the recorder's buffer
\* never holds more than it has room for.
THEOREM PortTypeCorrect == PortSpec => []PortTypeOK
<1>1. PortIInv => PortTypeOK
  BY DEF PortIInv
<1> QED
  BY <1>1, PortInvariance, PTL

\* However sends fail or take a part, and whenever the network goes up and down
\* and clients come and go, the first client that is accepted has every event
\* the recorder kept, once and in order, save those still in the buffer; every
\* other client has nothing.
THEOREM StreamIsComplete == PortSpec => []StreamComplete
<1>1. PortIInv => StreamComplete
  BY DEF PortIInv
<1> QED
  BY <1>1, PortInvariance, PTL
=============================================================================
