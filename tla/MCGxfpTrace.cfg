SPECIFICATION Spec
CONSTANTS
  Threads = {t1, t2}
  RingSize = 2
  SeqMod = 5
SYMMETRY Symmetry
PROPERTY
  DumpShowsLastLines
