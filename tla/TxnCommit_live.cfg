CONSTANTS
  a = a
  s1 = s1
  s2 = s2
  Tables <- OneTable
  Servers <- OneServer
  Home = s1
  Metastore = "FDB"
  MaxFaults = 1
  Actors = {"scan", "cancel"}
SPECIFICATION LiveSpec
PROPERTY EventuallyCleaned
