SPECIFICATION Spec
CONSTANTS
  m1 = m1 s1 = s1 s2 = s2 one = one two = two
  Managers = {m1}
  NoManager = NoManager
  Members = {one, two}
  NoMembers = NoMembers
  Life = 2
  MaxTime = 4
  MaxErrors = 1
  MaxTerm = 3
  Servers = {s1, s2}
  NoServer = NoServer
  Host <- MCHost
  Margin = 1
  Txns = {1}
  Home <- MCHome
  Users = {"write", "read"}
INVARIANTS HostInv LeasesInOrder VersionsIdentify WritesExclude CacheFresh CommitWithinTopology
