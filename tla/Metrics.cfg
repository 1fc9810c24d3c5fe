SPECIFICATION Spec
CONSTANTS
  s1 = s1  s2 = s2
  Sessions <- MCSessions
  MaxTasks = 2
  MaxWork = 2
  MaxCalls = 2
  ToolOutcomes = {"dispatch_error", "device_error"}
SYMMETRY MCSymmetry
INVARIANTS RecordedOnce CountsAgree ReportIsSound MissedTasksAreGlued
