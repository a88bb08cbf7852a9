CONSTANTS
  a = a
  s1 = s1
  s2 = s2
  Tables <- OneTable
  Servers <- OneServer
  Home = s1
  Metastore = "ByteKV"
  MaxFaults = 0
  Actors = {}
SPECIFICATION DDLSpec
PROPERTY StatusIsFinal
