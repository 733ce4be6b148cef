SPECIFICATION Spec
CONSTANTS
  Blocks = {b1, b2, b3}
  MinSize = 2
  TrackSizes = {2, 4, 16}
  Slack = 4
  Bits = 6
  Age = 0
  Data = {o1, o2}
  Zeros = zeros
  Buffers = {o1, o2}
  Arenas = {scratch, mem_arena}
  Scratch = scratch
  None = none
  BufferSizes = {0, 7, 11, 20, 40}
  ArenaSizes = {13}
  PieceSizes = {3}
  Alignments = {1, 4}
  ScratchAlignment = 4
  MaxFrames = 2
  MaxPieces = 4
  MaxTime = 1
SYMMETRY Symmetric
CHECK_DEADLOCK FALSE
INVARIANTS
  ListsSound
  OwnersApart
  DataKept
  PiecesApart
