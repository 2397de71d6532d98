SPECIFICATION Spec
CONSTANTS
  Parts = {"malloc", "stdio", "regex", "basic", "format", "calendar",
           "shell", "poll", "environment", "paths", "bytes",
           "streams", "pid1", "emulator"}
  MaxSteps <- StepBounds
INVARIANTS
  MallocSound  MatchesExact  LibraryExact 
  NothingMissed
PROPERTIES
  CallersReturn ShellsComeBack
CHECK_DEADLOCK FALSE
