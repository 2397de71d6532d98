SPECIFICATION Spec
CONSTANTS
  Parts = {"heap", "space", "file", "directory", "signals", "input", "output",
           "keyboard", "mouse", "modules", "rtc", "image", "console", "screen", "ustar", "exec",
           "server", "toolkit", "grid", "parser", "painter", "glyph", "curve", "outline"}
  MaxCalls = 5
  MaxSteps <- StepBounds
INVARIANTS
       ImagesExact
    PixelsExact
PROPERTIES
  DevicesKept
CHECK_DEADLOCK FALSE
