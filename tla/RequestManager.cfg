SPECIFICATION FairSpec

CONSTANTS
  cA = cA
  cA_imports = cA_imports
  cAB = cAB
  bA = bA
  bAB = bAB
  bABC = bABC
  Contents = {cA, cA_imports, cAB}
  Bases = {bA, bAB, bABC}
  Base <- BaseOf
  Below <- TypedBases
  Typed <- TypedContents
  Continues <- Shareable
  Full <- WithImports
  Docs = {d1}
  Fingerprints = {f1}
  NoFp = NoFp
  None = None
  MaxCalls = 3
  MaxEntries = 1
  CacheEnabled = TRUE

INVARIANTS LatestConsumerDecides LiveIsCurrent AnswersFit CacheFaithful
PROPERTIES EveryCallAnswered RunsEndReady
