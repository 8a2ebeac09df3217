SPECIFICATION SessionSpec
CONSTANTS
  Partitions = {a, b}
  Tabs = {1, 2}
  MaxChanges = 3
  Unset = Unset
SYMMETRY MCSymmetry
INVARIANTS
  AuditExplainsBindings
  SnapshotIsExact
  SavedSessionComesBack
  ViewsAreHonest
