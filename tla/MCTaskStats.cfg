\* As many slots as tasks, and entries for two channels besides the tasks: none
\* to spare in either table.
CONSTANTS
    AppTask <- MCAppTask
    BootTask <- MCBootTask
    MAX_TASKS = 5
    TRC_CFG_ENTRY_SLOTS = 12
    OTHER_ENTRIES = 2
    NoName = NoName
SPECIFICATION StatsSpec
INVARIANT NamedOnce
INVARIANT NeverAsserts
INVARIANT RuntimeDefined
INVARIANT ReportIsWhole
PROPERTY EveryTaskReported
