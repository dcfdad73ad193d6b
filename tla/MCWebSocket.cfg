SPECIFICATION Spec
CONSTANTS
  BufferSize = 100
  Chunks = {1, 50, 100}
  Opcodes = {1, 9}
  InLens = {0, 126}
  OutLens = {125, 126, 65535, 65536}
  SizeMod = 2147483647
  MaxIn = 2
INVARIANTS
  TextsDelivered
  FramesReadBack
