SPECIFICATION Spec
CONSTANTS
  m1 = m1
  m2 = m2
  m3 = m3
  Manifests <- MCManifests
  VersionOf <- MCVersionOf
  Epochs = {e1, e2}
  Keys = {k1}
  Seqs = {0, 1}
  MaxEntries = 2
  MaxRecords = 4
  MaxFailures = 1
PROPERTY
  CorruptSeenIsPreserved
