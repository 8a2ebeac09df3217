SPECIFICATION Spec
CONSTANTS
  Identities = {i1, i2}
  Domains = {d1}
  Capabilities = {c1}
  Sessions = {s1}
  NoSession = NoSession
  Week = 1
  MaxInt = 1
  Times = {0, 1}
  GrantIds = {1, 2}
  Procs = {h1, h2}
  SettableStates = {"kAllow"}
  MaxFailures = 0
SYMMETRY MCSymmetry
INVARIANTS
  ReportedEndedStaysEnded
