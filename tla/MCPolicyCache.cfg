SPECIFICATION CacheSpec
CONSTANTS
  Identities = {i1, i2}
  Sites = {s1, s2}
  Readers = {t1, t2}
  MaxEntries = 2
  MaxChanges = 1
SYMMETRY Symmetry
INVARIANTS
  EveryEntryIsQueued
  GenerationsAreExact
  HitsFollowLayersUnlessOvertaken
