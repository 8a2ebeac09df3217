SPECIFICATION SessionSpec
CONSTANTS
  Partitions = {a, b}
  Tabs = {1, 2}
  Unset = Unset
  MaxChanges = 3
SYMMETRY MCSymmetry
PROPERTIES
  RestoreNeverBleeds
