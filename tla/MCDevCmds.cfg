CONSTANTS
  Titles = {t1, t2}
  MaxStarts = 3
  Mods = {m1}
  Segs <- MCSegs
  CHUNK_SIZE = 2
  Tries = 2
  Word = 8
  Line = 2
  Own = Own
  Kernel = Kernel
  None = None
SPECIFICATION FairSpec
INVARIANTS AimedAt  DumpFaithful MemShown
PROPERTY CommandEnds
CHECK_DEADLOCK FALSE
