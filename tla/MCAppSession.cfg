\* Two processes, three launches, one failing write, one edit of the file.
SPECIFICATION Spec
CONSTANTS
  Procs = {p1, p2}
  Choices = {"default", "mine"}
  Default = "default"
  None = None
  MaxLaunches = 3
  MaxWindows = 2
  MaxFailures = 1
  MaxEdits = 1
INVARIANTS CrashIsOnRecord ReportsAreTrue DiskFollowsWindow LaunchRestores
CHECK_DEADLOCK FALSE
