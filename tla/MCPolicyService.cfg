SPECIFICATION Spec
CONSTANTS
  Identities <- MCIdentities
  Sites <- MCSites
  MaxEntries = 1
  Threads = {t1, t2}
  t1 = t1
  Asks <- MCAsks
  Policies = {deny, ask}
  Budget = 1
  MaxSeq = 3
  Wrong = Wrong
  Raws <- MCRaws
  Stores <- MCStores
  Manageds <- MCManageds
SYMMETRY Symmetry
INVARIANTS
  ReplicaIsExact
  DiffsChain
  CacheAgreesWithState
  AuthorityHolds
  StoredIsHeard
  AnswersAreExact
