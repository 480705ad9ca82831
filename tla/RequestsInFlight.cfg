SPECIFICATION FairSpec
CONSTANTS
  h1 = h1  h2 = h2  h3 = h3  w1 = w1  w2 = w2
  Hashes = {h1, h2, h3}
  Order <- Listed
  Workers = {w1, w2}
  Window = 2
  None = None
INVARIANTS ResolvedMeansAll
PROPERTIES DeletesUnderLock OutageIsTold GivesUpAfterWindow Ends
