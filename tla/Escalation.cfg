CONSTANTS
  setA = setA
  setB = setB
  setC = setC
  w1 = w1
  w2 = w2
  k1 = k1
  k2 = k2
  None = None
  Sets = {setA, setB, setC}
  Workers = {w1}
  Conns = {k1}
  WorkerOf <- Single
  Configs <- IbdThenShorter
  Versions = 2
  MaxEscalationHops = 3
  Threshold = 3
  RstThreshold = 2
  TTL = 1
  Window = 1
SPECIFICATION FairSpec
INVARIANT OnChain
PROPERTIES RetriesOriginal
