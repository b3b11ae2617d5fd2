CONSTANTS
  Bytes <- ByteClasses
  MaxFrame = 2
  BufSize = 3
  MaxSent = 6
SPECIFICATION FramesSpec
CHECK_DEADLOCK FALSE
PROPERTIES
  ImplementsFramedStream
  AllFramesArrive
