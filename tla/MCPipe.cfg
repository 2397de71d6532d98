SPECIFICATION Spec
CONSTANTS
  Procs = {R, W, B}
  ReadOnly = {R}
  WriteOnly = {W}
  Nonblocking = {W}
  Readers = {R}
  Writers = {W}
  Capacity = 3
  Bytes = {b1, b2}
  MaxLength = 3

  
PROPERTIES
  IsBoundedFifo
  HangupIsFinal
CHECK_DEADLOCK FALSE
