--------------------------- MODULE TableHost_steps ---------------------------
(***************************************************************************)
(* Proofs about TableHost, for any managers, servers, server lists, hosts  *)
(* and lease times: what the invariant HostInv says about the host that a  *)
(* list names, and that the steps of the managers, of the servers, of the  *)
(* transactions and of the clock keep it.                                  *)
(***************************************************************************)
EXTENDS TableHost, TLAPS

LEMMA Times ==
  /\ Life \in Nat /\ Margin \in Nat /\ 1 <= Margin /\ Margin < Life
BY TopologyAssumption, HostAssumption

(* Fields of topologies, and members of lists.                              *)
LEMMA EntryType ==
  ASSUME NEW e \in Entries
  PROVE  /\ e.term \in Nat /\ e.init \in Nat /\ e.exp \in Nat /\ e.members \in Members
         /\ LeaseStart(e) \in Int /\ Host[e.members] \in Servers /\ Version(e) \in Nat \X Nat
BY Times, HostAssumption DEF Entries, LeaseStart, Version

LEMMA ListedType ==
  ASSUME NEW list \in Seq(Entries)
  PROVE  /\ Len(list) \in Nat /\ DOMAIN list = 1 .. Len(list)
         /\ \A i \in DOMAIN list : list[i] \in Entries /\ list[i] \in Listed(list)
         /\ Listed(list) \subseteq Entries
         /\ list # <<>> => Len(list) >= 1 /\ Last(list) \in Listed(list)
BY DEF Listed, Last

LEMMA AliveType ==
  ASSUME TypeOK
  PROVE  /\ now \in Nat /\ stored \in Seq(Entries) /\ Front \in Seq(Entries)
         /\ \A s \in Servers : view[s] \in Seq(Entries) /\ Listed(view[s]) \subseteq Alive
         /\ Listed(stored) \subseteq Alive /\ Listed(Front) \subseteq Alive
         /\ stored # <<>> => Last(stored) \in Alive
         /\ \A e \in Alive : /\ e \in Entries /\ e.term \in Nat /\ e.init \in Nat /\ e.exp \in Nat
                             /\ LeaseStart(e) \in Int
<1>1. /\ now \in Nat /\ stored \in Seq(Entries) /\ Front \in Seq(Entries)
      /\ \A s \in Servers : view[s] \in Seq(Entries)
  BY DEF TypeOK, HostTypes, TopologyTypes, Front
<1>2. /\ Listed(stored) \subseteq Entries /\ Listed(Front) \subseteq Entries
      /\ \A s \in Servers : Listed(view[s]) \subseteq Entries
      /\ stored # <<>> => Last(stored) \in Listed(stored)
  BY <1>1, ListedType, Zenon
<1>3. Alive \subseteq Entries BY <1>2, Zenon DEF Alive, Known
<1> QED BY <1>1, <1>2, <1>3, EntryType, Zenon DEF Alive, Known

LEMMA HostType ==
  ASSUME TypeOK
  PROVE  /\ \A s \in Servers : writing[s].at \in Int /\ writing[s].version \in Nat \X Nat
         /\ \A s \in Servers : version[s] # Nothing => version[s] \in Nat \X Nat /\ version[s][2] \in Nat
         /\ \A x \in Txns : txn[x].at \in Int
BY DEF TypeOK, HostTypes, Locks

(* Two topologies in sight: the leases of different terms do not overlap,   *)
(* and no initial time is one more than another.                            *)
LEMMA Apart ==
  ASSUME TypeOK, TopologyInv, NEW a \in Alive, NEW b \in Alive
  PROVE  /\ LeaseStart(a) + Life <= a.exp /\ a.init + Life <= a.exp /\ (a.init = 0 \/ a.init >= Life)
         /\ a.term = b.term => a.init = b.init /\ a.members = b.members
         /\ a.term < b.term => a.exp <= LeaseStart(b) /\ a.exp <= b.exp
         /\ a.init # b.init + 1
<1>1. /\ a.term \in Nat /\ a.init \in Nat /\ a.exp \in Nat /\ LeaseStart(a) \in Int
      /\ b.term \in Nat /\ b.init \in Nat /\ b.exp \in Nat /\ LeaseStart(b) \in Int
  BY AliveType, Zenon
<1>2. Agree(a, b) /\ Agree(b, a) /\ EntryOK(a) /\ EntryOK(b) BY Zenon DEF TopologyInv
<1>3. /\ a.init = 0 \/ a.init >= Life
      /\ a.init + Life <= a.exp /\ b.init + Life <= b.exp
      /\ LeaseStart(a) = IF a.init # 0 THEN a.init ELSE a.exp - Life
      /\ LeaseStart(b) = IF b.init # 0 THEN b.init ELSE b.exp - Life
  BY <1>2, Zenon DEF EntryOK, LeaseStart
<1>4. /\ LeaseStart(a) + Life <= a.exp /\ LeaseStart(b) + Life <= b.exp BY <1>1, <1>3, Times
<1>5. /\ a.term < b.term => a.exp <= LeaseStart(b)
      /\ b.term < a.term => b.exp <= LeaseStart(a)
      /\ a.term = b.term => a.init = b.init /\ a.members = b.members
  BY <1>2, Zenon DEF Agree
<1> QED BY <1>1, <1>3, <1>4, <1>5, Times

(* At most one lease of a list holds the time.                              *)
LEMMA OneLease ==
  ASSUME TypeOK, TopologyInv, NEW s \in Servers, NEW slack \in Nat, InLease(view[s], now, slack) # {}
  PROVE  LET i == FirstOf(InLease(view[s], now, slack))
         IN  /\ i \in 1 .. Len(view[s]) /\ view[s][i] \in Listed(view[s]) /\ view[s][i] \in Alive
             /\ LeaseStart(view[s][i]) <= now /\ now < view[s][i].exp - slack
<1> DEFINE list == view[s]
           is == InLease(list, now, slack)
<1>1. /\ now \in Nat /\ Len(list) \in Nat /\ DOMAIN list = 1 .. Len(list)
      /\ \A i \in 1 .. Len(list) : list[i] \in Listed(list) /\ list[i] \in Alive
  BY AliveType, ListedType, Zenon
<1>2. \A i \in is : /\ i \in Nat /\ i \in 1 .. Len(list) /\ list[i] \in Listed(list) /\ list[i] \in Alive
                    /\ LeaseStart(list[i]) <= now /\ now < list[i].exp - slack
  BY <1>1 DEF InLease
<1>3. ASSUME NEW i \in is, NEW j \in is, i < j
      PROVE  FALSE
  <2>1. /\ list[i].term \in Nat /\ list[j].term \in Nat /\ list[i].exp \in Nat
        /\ LeaseStart(list[j]) \in Int /\ i \in Nat /\ j \in Nat
    BY <1>2, AliveType, Zenon
  <2>2. list[i].term + j = list[j].term + i BY <1>1, <1>2 DEF TopologyInv, ListOK
  <2>3. list[i].term < list[j].term BY <1>3, <2>1, <2>2
  <2>4. list[i].exp <= LeaseStart(list[j]) BY <1>2, <2>3, Apart, Zenon
  <2> QED BY <1>1, <1>2, <2>1, <2>4
<1>4. PICK i \in is : \A j \in is : i <= j BY <1>2, <1>3
<1>5. FirstOf(is) \in is BY <1>4, Zenon DEF FirstOf
<1> QED BY <1>2, <1>5, Zenon

(* What getTargetServer finds: e holds the time and h, the same topology or *)
(* the next, gives the version; both name u, and h outlasts the margin.     *)
Found(s, u, v, e, h) ==
  /\ e \in Listed(view[s]) /\ h \in Listed(view[s]) /\ e \in Alive /\ h \in Alive
  /\ Host[e.members] = u /\ Host[h.members] = u /\ v = Version(h)
  /\ LeaseStart(e) <= now /\ now < e.exp /\ now + Margin < h.exp
  /\ h = e \/ h.term = e.term + 1

LEMMA TargetFacts ==
  ASSUME TypeOK, TopologyInv, NEW s \in Servers
  PROVE  LET target == getTargetServer(view[s])
         IN  /\ target.server \in Servers \cup {NoServer} /\ target.version \in Nat \X Nat
             /\ target.server # NoServer =>
                  \E e, h \in Entries : Found(s, target.server, target.version, e, h)
<1> DEFINE list == view[s]
           is == InLease(list, now, 0)
           i == FirstOf(is)
           e == list[i]
           h == list[i + 1]
           named(a) == [server |-> Host[a.members], version |-> Version(a)]
           target == getTargetServer(list)
<1>1. target = IF is = {} THEN NoTarget
               ELSE IF now < e.exp - Margin THEN named(e)
               ELSE IF i < Len(list) /\ Host[e.members] = Host[h.members] THEN named(h)
               ELSE NoTarget
  BY Zenon DEF getTargetServer
<1>2. NoTarget.server = NoServer /\ NoTarget.version \in Nat \X Nat BY Zenon DEF NoTarget, NoVersion
<1>3. SUFFICES ASSUME target # NoTarget
               PROVE  /\ target.server \in Servers /\ target.version \in Nat \X Nat
                      /\ \E a, b \in Entries : Found(s, target.server, target.version, a, b)
  BY <1>2, Zenon
<1>4. now \in Nat /\ is # {} BY <1>1, <1>3, AliveType, Zenon
<1>5. /\ i \in 1 .. Len(list) /\ e \in Listed(list) /\ e \in Alive
      /\ LeaseStart(e) <= now /\ now < e.exp - 0
  BY <1>4, OneLease, Zenon
<1> HIDE DEF i, is, target
<1>6. e \in Entries /\ e.exp \in Nat /\ e.term \in Nat /\ now < e.exp BY <1>4, <1>5, AliveType
<1>7. \A a \in Entries : /\ named(a).server = Host[a.members] /\ Host[a.members] \in Servers
                         /\ named(a).version = Version(a) /\ Version(a) \in Nat \X Nat
  BY EntryType, Zenon
<1> HIDE DEF named
<1>8. CASE now < e.exp - Margin
  <2>1. now + Margin < e.exp BY <1>4, <1>6, <1>8, Times
  <2>2. target = named(e) BY <1>1, <1>4, <1>8, Zenon
  <2> QED BY <1>5, <1>6, <1>7, <2>1, <2>2, Zenon DEF Found
<1>9. CASE ~ (now < e.exp - Margin)
  <2>1. i < Len(list) /\ Host[e.members] = Host[h.members] /\ target = named(h)
    BY <1>1, <1>3, <1>4, <1>9, Zenon
  <2>2. /\ Len(list) \in Nat /\ DOMAIN list = 1 .. Len(list)
        /\ \A j \in 1 .. Len(list) : list[j] \in Listed(list) /\ list[j] \in Alive
    BY AliveType, ListedType, Zenon
  <2>3. i + 1 \in 1 .. Len(list) /\ i \in Nat BY <1>5, <2>1, <2>2
  <2>4. h \in Listed(list) /\ h \in Alive /\ e.term + (i + 1) = h.term + i
    BY <1>5, <2>2, <2>3 DEF TopologyInv, ListOK
  <2>5. h \in Entries /\ h.term \in Nat /\ h.exp \in Nat /\ LeaseStart(h) \in Int BY <2>4, AliveType, Zenon
  <2>6. h.term = e.term + 1
    <3>1. \A k, l \in Nat : k + (i + 1) = l + i => l = k + 1 BY <2>3
    <3> QED BY <1>6, <2>4, <2>5, <3>1, Zenon
  <2>7. e.exp <= LeaseStart(h) /\ LeaseStart(h) + Life <= h.exp
    BY <1>5, <1>6, <2>4, <2>6, Apart
  <2>8. now + Margin < h.exp BY <1>4, <1>6, <2>5, <2>7, Times
  <2> HIDE DEF h
  <2> QED BY <1>5, <1>6, <1>7, <2>1, <2>4, <2>5, <2>6, <2>8, Zenon DEF Found
<1> QED BY <1>8, <1>9, Zenon

(* Everything a server lists is behind the last stored topology.            *)
LEMMA BehindStored ==
  ASSUME TypeOK, TopologyInv, NEW s \in Servers, NEW e \in Listed(view[s])
  PROVE  /\ stored # <<>> /\ Last(stored) \in Alive
         /\ e.term <= Last(stored).term /\ e.exp <= Last(stored).exp
<1>1. /\ stored # <<>>
      /\ e.term < Last(stored).term \/ (e.term = Last(stored).term /\ e.exp <= Last(stored).exp)
  BY DEF TopologyInv, Upto, Listed
<1>2. /\ Last(stored) \in Alive /\ e \in Alive /\ e.term \in Nat /\ e.exp \in Nat
      /\ Last(stored).term \in Nat /\ Last(stored).exp \in Nat
  BY <1>1, AliveType, Zenon
<1> QED BY <1>1, <1>2, Apart

(* A server found as host stays it for the margin, by every list, and was   *)
(* named by the version.                                                    *)
LEMMA FoundFacts ==
  ASSUME TypeOK, TopologyInv, NEW s \in Servers, NEW u, NEW v, NEW e, NEW h, Found(s, u, v, e, h)
  PROVE  Covered(u, now) /\ Named(u, v)
<1> DEFINE last == Last(stored)
<1>1. /\ e \in Alive /\ h \in Alive /\ Host[e.members] = u /\ Host[h.members] = u
      /\ LeaseStart(e) <= now /\ now < e.exp /\ now + Margin < h.exp /\ (h = e \/ h.term = e.term + 1)
      /\ v[1] = h.init /\ v[2] = h.term
  BY Zenon DEF Found, Version
<1>2. stored # <<>> /\ last \in Alive /\ h.term <= last.term /\ h.exp <= last.exp
  BY BehindStored, Zenon DEF Found
<1>3. /\ now \in Nat /\ e.exp \in Nat /\ e.term \in Nat /\ LeaseStart(e) \in Int
      /\ h.exp \in Nat /\ h.term \in Nat /\ h.init \in Nat /\ last.exp \in Nat
  BY <1>1, <1>2, AliveType, Zenon
<1>4. (h.init = 0 \/ h.init >= Life) /\ h.init + Life <= h.exp BY <1>1, Apart, Zenon
<1>5. ASSUME NEW a \in Alive
      PROVE  /\ LeaseStart(a) <= now + Margin /\ now < a.exp => Host[a.members] = u
             /\ a.term = h.term => Host[a.members] = u
             /\ a.term < h.term => Host[a.members] = u \/ a.exp <= now
             /\ a.init # h.init + 1 /\ a.init + 1 # h.init
  <2>1. a.term \in Nat /\ a.exp \in Nat /\ LeaseStart(a) \in Int BY AliveType, Zenon
  <2>2. /\ a.term < e.term => a.exp <= LeaseStart(e)
        /\ h.term < a.term => h.exp <= LeaseStart(a)
        /\ a.term = e.term => a.members = e.members
        /\ a.term = h.term => a.members = h.members
        /\ a.init # h.init + 1 /\ a.init + 1 # h.init
    BY <1>1, Apart, Zenon
  <2> QED BY <1>1, <1>3, <2>1, <2>2, Times
<1>6. last.exp > now + Margin /\ h.init + Life <= last.exp BY <1>1, <1>2, <1>3, <1>4, Times
<1> QED BY <1>1, <1>2, <1>3, <1>4, <1>5, <1>6, Times DEF Covered, Covers, Named, Names

(* It is the one that covers the time;                                      *)
LEMMA OneHost ==
  ASSUME TypeOK, NEW s, NEW u, NEW v, NEW e, NEW h, Found(s, u, v, e, h),
         NEW w, NEW t \in Int, Covered(w, t)
  PROVE  u = w
<1>1. /\ now \in Nat /\ e \in Alive /\ LeaseStart(e) <= now /\ now < e.exp
      /\ e.exp \in Nat /\ LeaseStart(e) \in Int
  BY AliveType, Zenon DEF Found
<1> QED BY <1>1, Times DEF Found, Covered, Covers

(* no version follows its own;                                              *)
LEMMA NeverNext ==
  ASSUME NEW s, NEW u, NEW v, NEW e, NEW h, Found(s, u, v, e, h), NEW q, NEW w, Named(q, w)
  PROVE  w[1] + 1 # v[1] /\ v[1] + 1 # w[1]
BY Zenon DEF Found, Named, Names, Version

(* with its cached table kept it has missed no write;                       *)
LEMMA KeptFresh ==
  ASSUME TypeOK, NEW s \in Servers, CacheOK(s), NEW v, NEW e, NEW h, Found(s, s, v, e, h),
         KeptUnder(version[s], v)
  PROVE  version[s] = v /\ ~ stale[s]
<1>1. /\ version[s] # Nothing /\ Named(s, version[s]) /\ (stale[s] => Over(version[s][2], now))
  BY Zenon DEF KeptUnder, CacheOK
<1>2. version[s] = v BY <1>1, NeverNext, Zenon DEF KeptUnder
<1>3. /\ h \in Alive /\ h.term = v[2] /\ now + Margin < h.exp
      /\ h.term \in Nat /\ h.exp \in Nat /\ now \in Nat
  BY AliveType, Zenon DEF Found, Version
<1> QED BY <1>1, <1>2, <1>3, Times DEF Over, Ended

(* and for a server named before its topologies are over.                   *)
LEMMA EarlierOver ==
  ASSUME TypeOK, TopologyInv, NEW s \in Servers, NEW v, NEW e, NEW h, Found(s, s, v, e, h),
         NEW u, u # s, NEW w \in Nat \X Nat, Named(u, w)
  PROVE  Over(w[2], now)
<1>1. /\ now \in Nat /\ e \in Alive /\ e \in Listed(view[s]) /\ Host[e.members] = s
      /\ LeaseStart(e) <= now /\ now < e.exp
      /\ e.exp \in Nat /\ e.term \in Nat /\ LeaseStart(e) \in Int
  BY AliveType, Zenon DEF Found
<1>2. stored # <<>> /\ e.term <= Last(stored).term /\ Last(stored).term \in Nat
  BY <1>1, BehindStored, AliveType, Zenon
<1>3. w[2] \in Nat /\ w[2] < e.term BY <1>1 DEF Named, Names
<1>4. ASSUME NEW a \in Alive, a.term <= w[2] PROVE a.exp <= now
  <2>1. a.term \in Nat /\ a.exp \in Nat BY AliveType, Zenon
  <2>2. a.term < e.term => a.exp <= LeaseStart(e) BY <1>1, Apart, Zenon
  <2> QED BY <1>1, <1>3, <1>4, <2>1, <2>2
<1> QED BY <1>1, <1>2, <1>3, <1>4 DEF Over, Ended

(* What the invariant says of hosts and versions outlasts the step.         *)
Outlasts ==
  /\ \A s \in Servers, t \in Int : Covered(s, t) /\ now' <= t + Margin => Covered(s, t)'
  /\ \A s \in Servers, v \in Nat \X Nat : Named(s, v) => Named(s, v)'
  /\ \A k \in Nat, t \in Int : Over(k, t) => Over(k, t)'

LEMMA ShrinkOutlasts ==
  ASSUME TypeOK, stored' = stored, now' \in Nat, now <= now', Alive' \subseteq Alive
  PROVE  Outlasts
<1>1. now \in Nat /\ \A e \in Alive : e.exp \in Nat BY AliveType, Zenon
<1>2. ASSUME NEW s \in Servers, NEW t \in Int, Covered(s, t), now' <= t + Margin
      PROVE  Covered(s, t)'
  BY <1>1, <1>2 DEF Covered, Covers
<1>3. ASSUME NEW s \in Servers, NEW v \in Nat \X Nat, Named(s, v)
      PROVE  Named(s, v)'
  BY <1>1, <1>3 DEF Named, Names
<1>4. ASSUME NEW k \in Nat, NEW t \in Int, Over(k, t)
      PROVE  Over(k, t)'
  BY <1>4, ZenonT(60) DEF Over, Ended
<1> QED BY <1>2, <1>3, <1>4, Zenon DEF Outlasts

(* A step that makes no new list keeps the lists in order.                  *)
LEMMA ListsKept ==
  ASSUME TypeOK, TopologyInv, stored' = stored, Front' \in {Front, stored},
         \A s \in Servers : view'[s] \in {view[s], stored},
         \A m \in Managers : ManagerOK(m)', now' \in Nat, now <= now'
  PROVE  TopologyInv' /\ Outlasts
<1>1. Alive' \subseteq Alive BY DEF Alive, Known, Listed
<1>2. /\ \A a, b \in Alive' : Agree(a, b)
      /\ \A e \in Alive' : EntryOK(e)
      /\ ListOK(stored) /\ ListOK(Front') /\ \A s \in Servers : ListOK(view'[s])
      /\ Upto(Front', Front') /\ Upto(stored, stored) /\ Upto(stored, Front')
      /\ \A s \in Servers : Upto(view'[s], stored)
  BY <1>1, Zenon DEF TopologyInv
<1>3. Outlasts BY <1>1, ShrinkOutlasts, Zenon
<1> QED BY <1>2, <1>3 DEF TopologyInv, Agree, EntryOK, ListOK, Upto, LeaseStart, Listed, Last

(* A write, a cache and a transaction that a step leaves alone.             *)
LEMMA WriteKept ==
  ASSUME TypeOK, Outlasts, NEW s \in Servers, WriteOK(s), writing'[s] = writing[s],
         \/ version'[s] \in {version[s], Nothing}
         \/ writing[s] # NoWrite => version'[s][1] + 1 # writing[s].version[1],
         now' = now \/ (writing[s] # NoWrite => now' <= writing[s].at + Margin)
  PROVE  WriteOK(s)'
<1>1. CASE writing[s] = NoWrite BY <1>1, Zenon DEF WriteOK, NoWrite, NoVersion
<1>2. CASE writing[s] # NoWrite
  <2>1. Covered(s, writing[s].at) /\ Named(s, writing[s].version) BY <1>2, Zenon DEF WriteOK
  <2>2. now' <= writing[s].at + Margin BY <1>2, <2>1, Zenon DEF Covered, Covers
  <2>3. Covered(s, writing[s].at)' /\ Named(s, writing[s].version)'
    BY <2>1, <2>2, HostType, Zenon DEF Outlasts, Covered, Named
  <2> QED BY <1>2, <2>3, Zenon DEF WriteOK, Nothing
<1> QED BY <1>1, <1>2, Zenon

LEMMA CacheKept ==
  ASSUME TypeOK, Outlasts, now' \in Nat, now <= now', NEW s \in Servers, CacheOK(s),
         version'[s] = version[s], stale'[s] => stale[s] \/ Over(version[s][2], now),
         \A t \in Servers : t # s /\ writing'[t] # NoWrite =>
           writing'[t].at \in Int /\ (writing'[t] = writing[t] \/ Over(version[s][2], writing'[t].at))
  PROVE  CacheOK(s)'
<1>1. CASE version[s] = Nothing BY <1>1, Zenon DEF CacheOK, Nothing
<1>2. CASE version[s] # Nothing
  <2>1. version[s] \in Nat \X Nat /\ version[s][2] \in Nat BY <1>2, HostType, Zenon
  <2>2. Named(s, version[s])' BY <1>2, <2>1, Zenon DEF CacheOK, Outlasts, Named
  <2>3. Over(version[s][2], now) => Over(version[s][2], now)'
    <3>1. Over(version[s][2], now) => Over(version[s][2], now') BY AliveType DEF Over, Ended
    <3> QED BY <2>1, <3>1 DEF Outlasts, Over
  <2>4. ASSUME NEW t \in Servers, t # s, writing'[t] # NoWrite PROVE Over(version[s][2], writing[t].at)'
    <3>1. Over(version[s][2], writing'[t].at) BY <1>2, <2>4, Zenon DEF CacheOK
    <3> QED BY <2>1, <2>4, <3>1, Zenon DEF Outlasts, Over
  <2> QED BY <1>2, <2>2, <2>3, <2>4, Zenon DEF CacheOK, NoWrite, NoVersion
<1> QED BY <1>1, <1>2, Zenon

LEMMA TxnKept ==
  ASSUME TypeOK, Outlasts, NEW x \in Txns, TxnOK(x), txn'[x] = txn[x],
         now' = now \/ (txn[x].stage = "asserted" => now' <= txn[x].at + Margin)
  PROVE  TxnOK(x)'
<1>1. ASSUME txn[x].stage = "asserted" PROVE Covered(txn[x].server, txn[x].at)'
  <2>1. txn[x].server \in Servers /\ Covered(txn[x].server, txn[x].at) BY <1>1, Zenon DEF TxnOK
  <2>2. now' <= txn[x].at + Margin BY <1>1, <2>1, Zenon DEF Covered, Covers
  <2> QED BY <2>1, <2>2, HostType, Zenon DEF Outlasts, Covered
<1> QED BY <1>1, Zenon DEF TxnOK

(* The steps of the servers.  They leave the clock and the lists of the     *)
(* managers alone.                                                          *)
LEMMA fetchKeeps ==
  ASSUME TypeOK, WritesExclude, HostsOK, Outlasts, now' = now, NEW s \in Servers, fetchTopologies(s)
  PROVE  HostTypes' /\ WritesExclude' /\ HostsOK' /\ txn' = txn
<1>1. /\ view' = [view EXCEPT ![s] = stored] /\ writing' = writing /\ txn' = txn
      /\ \/ version' = version /\ stale' = stale
         \/ version' = [version EXCEPT ![s] = Nothing] /\ stale' = [stale EXCEPT ![s] = FALSE]
  BY Zenon DEF fetchTopologies
<1>2. HostTypes' BY <1>1, Zenon DEF TypeOK, HostTypes, TopologyTypes
<1>3. WritesExclude' BY <1>1, Zenon DEF WritesExclude, NoWrite, NoVersion
<1>4. ASSUME NEW t \in Servers PROVE WriteOK(t)' /\ CacheOK(t)'
  <2>1. \/ version'[t] = version[t] /\ stale'[t] = stale[t]
        \/ version'[t] = Nothing
    BY <1>1, Zenon DEF TypeOK, HostTypes
  <2>2. WriteOK(t)' BY <1>1, <2>1, WriteKept, Zenon DEF HostsOK
  <2>3. version'[t] = Nothing => CacheOK(t)' BY Zenon DEF CacheOK, Nothing
  <2>4. version'[t] = version[t] /\ stale'[t] = stale[t] => CacheOK(t)'
    BY <1>1, HostType, AliveType, CacheKept DEF HostsOK
  <2> QED BY <2>1, <2>2, <2>3, <2>4, Zenon
<1> QED BY <1>1, <1>2, <1>3, <1>4, Zenon DEF HostsOK

LEMMA UseCacheKeeps ==
  ASSUME TypeOK, TopologyInv, WritesExclude, HostsOK, Outlasts, now' = now, NEW s \in Servers, UseCache(s)
  PROVE  HostTypes' /\ WritesExclude' /\ HostsOK' /\ txn' = txn
<1>1. PICK v \in Nat \X Nat, e \in Entries, h \in Entries :
        v = getTargetServer(view[s]).version /\ Found(s, s, v, e, h)
  BY TargetFacts, HostAssumption DEF UseCache
<1>2. /\ view' = view /\ writing' = writing /\ txn' = txn /\ version' = [version EXCEPT ![s] = v]
      /\ stale' = IF KeptUnder(version[s], v) THEN stale ELSE [stale EXCEPT ![s] = FALSE]
  BY <1>1, Zenon DEF UseCache, mayUpdateTableMeta
<1>3. HostTypes' BY <1>1, <1>2, Zenon DEF TypeOK, HostTypes
<1>4. WritesExclude' BY <1>2, Zenon DEF WritesExclude, NoWrite, NoVersion
<1>5. /\ version'[s] = v /\ ~ stale'[s]
      /\ \A t \in Servers : t # s => version'[t] = version[t] /\ stale'[t] = stale[t]
  <2>1. KeptUnder(version[s], v) => ~ stale[s] BY <1>1, KeptFresh, Zenon DEF HostsOK
  <2> QED BY <1>2, <2>1, Zenon DEF TypeOK, HostTypes
<1>6. Named(s, v)' BY <1>1, FoundFacts, Zenon DEF Outlasts
<1>7. \A t \in Servers : writing[t] # NoWrite => t = s BY <1>1, HostType, OneHost DEF HostsOK, WriteOK
<1>8. CacheOK(s)' BY <1>2, <1>5, <1>6, <1>7, Zenon DEF CacheOK, Named, NoWrite, NoVersion
<1>9. writing[s] # NoWrite => v[1] + 1 # writing[s].version[1] BY <1>1, NeverNext, Zenon DEF HostsOK, WriteOK
<1>10. ASSUME NEW t \in Servers PROVE WriteOK(t)' BY <1>2, <1>5, <1>9, WriteKept, ZenonT(60) DEF HostsOK
<1>11. ASSUME NEW t \in Servers, t # s PROVE CacheOK(t)'
  BY <1>2, <1>5, <1>11, HostType, AliveType, CacheKept DEF HostsOK
<1> QED BY <1>2, <1>3, <1>4, <1>8, <1>10, <1>11, Zenon DEF HostsOK

LEMMA WriteBeginKeeps ==
  ASSUME TypeOK, TopologyInv, HostsOK, Outlasts, now' = now, NEW s \in Servers, WriteBegin(s)
  PROVE  HostTypes' /\ WritesExclude' /\ HostsOK' /\ txn' = txn
<1>1. PICK v \in Nat \X Nat, e \in Entries, h \in Entries :
        v = getTargetServer(view[s]).version /\ Found(s, s, v, e, h)
  BY TargetFacts, HostAssumption DEF WriteBegin
<1>2. /\ view' = view /\ version' = version /\ stale' = stale /\ txn' = txn
      /\ writing' = [writing EXCEPT ![s] = [at |-> now, version |-> v]]
  BY <1>1, Zenon DEF WriteBegin
<1>3. now \in Nat /\ now \in -1 .. MaxTime BY TopologyAssumption DEF TypeOK, TopologyTypes
<1>4. HostTypes' BY <1>1, <1>2, <1>3, Zenon DEF TypeOK, HostTypes
<1>5. \A t \in Servers : writing[t] # NoWrite => t = s BY <1>1, HostType, OneHost DEF HostsOK, WriteOK
<1>6. /\ writing'[s].at = now /\ writing'[s].version = v
      /\ \A t \in Servers : t # s => writing'[t] = NoWrite
  BY <1>2, <1>5, Zenon DEF TypeOK, HostTypes
<1>7. WritesExclude' BY <1>6, Zenon DEF WritesExclude, NoWrite, NoVersion
<1>8. Named(s, v)' /\ Covered(s, now)'
  <2>1. Named(s, v) /\ Covered(s, now) BY <1>1, FoundFacts, Zenon
  <2> QED BY <1>3, <2>1, Times DEF Outlasts, Covered
<1>9. version[s] # Nothing => version[s][1] + 1 # v[1] BY <1>1, NeverNext, Zenon DEF HostsOK, CacheOK
<1>10. WriteOK(s)' BY <1>2, <1>6, <1>8, <1>9, Zenon DEF WriteOK, Covered, Named
<1>11. ASSUME NEW t \in Servers, t # s PROVE WriteOK(t)' BY <1>6, <1>11, Zenon DEF WriteOK, NoWrite, NoVersion
<1>12. ASSUME NEW t \in Servers, version[t] # Nothing PROVE CacheOK(t)'
  <2>1. t # s => Over(version[t][2], now)
    BY <1>1, <1>12, HostType, EarlierOver, Zenon DEF HostsOK, CacheOK
  <2> QED BY <1>2, <1>3, <1>6, <2>1, CacheKept DEF HostsOK
<1>13. ASSUME NEW t \in Servers, version[t] = Nothing PROVE CacheOK(t)' BY <1>2, <1>13, Zenon DEF CacheOK, Nothing
<1> QED BY <1>2, <1>4, <1>7, <1>10, <1>11, <1>12, <1>13, ZenonT(60) DEF HostsOK

LEMMA WriteEndKeeps ==
  ASSUME TypeOK, WritesExclude, HostsOK, Outlasts, now' = now, NEW s \in Servers, WriteEnd(s)
  PROVE  HostTypes' /\ WritesExclude' /\ HostsOK' /\ txn' = txn
<1>1. PICK v \in Nat \X Nat : v = writing[s].version BY HostType, Zenon
<1>2. /\ view' = view /\ txn' = txn /\ writing[s] # NoWrite
      /\ writing' = [writing EXCEPT ![s] = NoWrite] /\ version' = [version EXCEPT ![s] = v]
      /\ LET old == [t \in Servers |-> stale[t] \/ (t # s /\ version[t] # Nothing)]
         IN  stale' = IF KeptUnder(version[s], v) THEN old ELSE [old EXCEPT ![s] = FALSE]
  BY <1>1, Zenon DEF WriteEnd, mayUpdateTableMeta
<1>3. HostTypes'
  <2>1. NoWrite \in [at : -1 .. MaxTime, version : Nat \X Nat]
    BY TopologyAssumption DEF NoWrite, NoVersion
  <2> QED BY <1>1, <1>2, <2>1, Zenon DEF TypeOK, HostTypes
<1>4. \A t \in Servers : writing'[t] = NoWrite BY <1>2, Zenon DEF TypeOK, HostTypes, WritesExclude
<1>5. /\ \A t \in Servers : WriteOK(t)'
      /\ WritesExclude'
  BY <1>4, Zenon DEF WriteOK, WritesExclude, NoWrite, NoVersion
<1>6. /\ version'[s] = v /\ (stale'[s] => stale[s] /\ KeptUnder(version[s], v))
      /\ \A t \in Servers : t # s => version'[t] = version[t]
  BY <1>2, Zenon DEF TypeOK, HostTypes
<1>7. /\ writing[s].at \in Int /\ Covered(s, writing[s].at) /\ Named(s, v)
      /\ version[s] # Nothing => version[s][1] + 1 # v[1]
  BY <1>1, <1>2, HostType, Zenon DEF HostsOK, WriteOK
<1>8. now \in Nat /\ writing[s].at <= now /\ \A a \in Alive : a.exp \in Nat
  BY <1>7, AliveType, Zenon DEF Covered, Covers
<1>9. CacheOK(s)'
  <2>1. Named(s, version[s])' BY <1>6, <1>7, Zenon DEF Outlasts, Named
  <2>2. stale'[s] => Over(v[2], now) BY <1>6, <1>7, ZenonT(60) DEF KeptUnder, HostsOK, CacheOK
  <2>3. stale'[s] => Over(version[s][2], now)' BY <1>6, <1>8, <2>2 DEF Outlasts, Over
  <2> QED BY <1>4, <2>1, <2>3, Zenon DEF CacheOK, NoWrite, NoVersion
<1>10. ASSUME NEW t \in Servers, t # s, version[t] # Nothing PROVE CacheOK(t)'
  <2>1. Over(version[t][2], writing[s].at) BY <1>2, <1>10, Zenon DEF HostsOK, CacheOK
  <2>2. Over(version[t][2], now) BY <1>7, <1>8, <2>1 DEF Over, Ended
  <2> QED BY <1>4, <1>6, <1>8, <1>10, <2>2, CacheKept DEF HostsOK
<1>11. ASSUME NEW t \in Servers, t # s, version[t] = Nothing PROVE CacheOK(t)'
  BY <1>6, <1>11, Zenon DEF CacheOK, Nothing
<1> QED BY <1>2, <1>3, <1>5, <1>9, <1>10, <1>11, Zenon DEF HostsOK

LEMMA CurrentType ==
  ASSUME TypeOK, TopologyInv, NEW s \in Servers
  PROVE  getCurrentTopologyVersion(view[s]) \in Nat \X Nat
<1>1. ASSUME InLease(view[s], now, Margin) # {}
      PROVE  Version(view[s][FirstOf(InLease(view[s], now, Margin))]) \in Nat \X Nat
  <2>1. view[s][FirstOf(InLease(view[s], now, Margin))] \in Entries BY <1>1, OneLease, Times, AliveType, Zenon
  <2> QED BY <2>1, EntryType, Zenon
<1> QED BY <1>1, Zenon DEF getCurrentTopologyVersion, NoVersion

(* The steps of the lock takers.                                            *)
LEMMA TxnKeeps ==
  ASSUME TypeOK, TopologyInv, TxnsOK, Outlasts, now' = now, NEW x \in Txns,
         LockSend(x) \/ LockGrant(x) \/ assertLockAcquired(x) \/ TxnCommits(x) \/ TxnEnds(x)
  PROVE  txn' \in [Txns -> Locks] /\ TxnsOK'
<1>1. txn \in [Txns -> Locks] /\ now \in Nat /\ now \in -1 .. MaxTime /\ Home[x] \in Servers
  BY HostAssumption, TopologyAssumption DEF TypeOK, TopologyTypes
<1>2. txn[x].server \in Servers \cup {NoServer} BY <1>1, Zenon DEF Locks
<1>3. /\ Target(x) \in Servers \cup {NoServer}
      /\ Target(x) # NoServer => Covered(Target(x), now)
  BY <1>1, TargetFacts, FoundFacts, Zenon DEF Target
<1>4. \A f \in [Txns -> Locks] :
        /\ \A z \in {"sent", "held", "asserted"} : [f EXCEPT ![x].stage = z] \in [Txns -> Locks]
        /\ \A z \in Servers : [f EXCEPT ![x].server = z] \in [Txns -> Locks]
        /\ \A z \in Nat \X Nat : [f EXCEPT ![x].version = z] \in [Txns -> Locks]
        /\ \A z \in -1 .. MaxTime : [f EXCEPT ![x].at = z] \in [Txns -> Locks]
  BY DEF Locks
<1>5. /\ txn' \in [Txns -> Locks] /\ \A y \in Txns : y # x => txn'[y] = txn[y]
      /\ txn'[x].stage \in {"sent", "held"} => txn'[x].server # NoServer
      /\ txn'[x].stage = "asserted" =>
           txn'[x].server \in Servers /\ Covered(txn'[x].server, now) /\ txn'[x].at = now
  <2>1. CASE LockSend(x)
    <3>1. PICK z \in Servers : z = Target(x) BY <1>3, <2>1, Zenon DEF LockSend
    <3>2. txn' = [txn EXCEPT ![x].stage = "sent", ![x].server = z] BY <2>1, <3>1, Zenon DEF LockSend
    <3>3. txn' \in [Txns -> Locks] BY <1>1, <1>4, <3>2, Zenon
    <3>4. /\ txn'[x].stage = "sent" /\ txn'[x].server # NoServer
          /\ \A y \in Txns : y # x => txn'[y] = txn[y]
      BY <1>1, <3>2, HostAssumption, Zenon DEF Locks
    <3> QED BY <3>3, <3>4, Zenon
  <2>2. CASE LockGrant(x)
    <3>1. txn[x].server \in Servers /\ txn[x].server # NoServer BY <1>2, <2>2, Zenon DEF LockGrant, TxnsOK, TxnOK
    <3>2. PICK z \in Nat \X Nat : z = getCurrentTopologyVersion(view[txn[x].server]) BY <3>1, CurrentType, Zenon
    <3>3. txn' = [txn EXCEPT ![x].stage = "held", ![x].version = z] BY <2>2, <3>2, Zenon DEF LockGrant
    <3>4. txn' \in [Txns -> Locks] BY <1>1, <1>4, <3>3, Zenon
    <3>5. /\ txn'[x].stage = "held" /\ txn'[x].server # NoServer
          /\ \A y \in Txns : y # x => txn'[y] = txn[y]
      BY <1>1, <3>1, <3>3, Zenon DEF Locks
    <3> QED BY <3>4, <3>5, Zenon
  <2>3. CASE assertLockAcquired(x)
    <3>1. /\ txn' = [txn EXCEPT ![x].stage = "asserted", ![x].at = now]
          /\ txn[x].server \in Servers /\ Covered(txn[x].server, now)
      BY <1>2, <1>3, <2>3, Zenon DEF assertLockAcquired, Acquired, TxnsOK, TxnOK
    <3>2. txn' \in [Txns -> Locks] BY <1>1, <1>4, <3>1, Zenon
    <3>3. /\ txn'[x].stage = "asserted" /\ txn'[x].server = txn[x].server /\ txn'[x].at = now
          /\ \A y \in Txns : y # x => txn'[y] = txn[y]
      BY <1>1, <3>1, ZenonT(60) DEF Locks
    <3> QED BY <3>1, <3>2, <3>3, Zenon
  <2>4. CASE TxnCommits(x) \/ TxnEnds(x)
    <3>1. txn' = [txn EXCEPT ![x] = Idle] BY <2>4, Zenon DEF TxnCommits, TxnEnds
    <3>2. Idle \in Locks BY TopologyAssumption DEF Idle, NoVersion, Locks
    <3>3. Idle.stage = "new" BY DEF Idle
    <3> QED BY <1>1, <3>1, <3>2, <3>3
  <2> QED BY <2>1, <2>2, <2>3, <2>4, Zenon
<1>6. TxnOK(x)'
  <2>1. now <= now + Margin /\ now \in Int BY <1>1, Times
  <2> QED BY <1>5, <2>1, Zenon DEF TxnOK, Outlasts, Covered
<1>7. ASSUME NEW y \in Txns, y # x PROVE TxnOK(y)' BY <1>5, <1>7, TxnKept, Zenon DEF TxnsOK
<1> QED BY <1>5, <1>6, <1>7, Zenon DEF TxnsOK

(* Steps that leave the servers, or the lock takers, alone.                 *)
LEMMA HostsStill ==
  ASSUME TypeOK, WritesExclude, HostsOK, Outlasts, now' \in Nat, now <= now',
         UNCHANGED <<writing, version, stale>>,
         now' = now \/ \A s \in Servers : writing[s] # NoWrite => now' <= writing[s].at + Margin
  PROVE  WritesExclude' /\ HostsOK'
<1>1. WritesExclude' BY Zenon DEF WritesExclude, NoWrite, NoVersion
<1>2. ASSUME NEW s \in Servers PROVE WriteOK(s)' BY WriteKept, Zenon DEF HostsOK
<1>3. ASSUME NEW s \in Servers PROVE CacheOK(s)' BY HostType, CacheKept, Zenon DEF HostsOK
<1> QED BY <1>1, <1>2, <1>3, Zenon DEF HostsOK

LEMMA TxnsStill ==
  ASSUME TypeOK, TxnsOK, Outlasts, txn' = txn,
         now' = now \/ \A x \in Txns : txn[x].stage = "asserted" => now' <= txn[x].at + Margin
  PROVE  TxnsOK'
<1>1. ASSUME NEW x \in Txns PROVE TxnOK(x)' BY TxnKept, Zenon DEF TxnsOK
<1> QED BY <1>1, Zenon DEF TxnsOK

(* All steps but those of the managers.                                     *)
LEMMA HostStepKeeps ==
  ASSUME HostInv,
         \/ \E s \in Servers : fetchTopologies(s) \/ UseCache(s) \/ WriteBegin(s) \/ WriteEnd(s)
         \/ \E x \in Txns : LockSend(x) \/ LockGrant(x) \/ assertLockAcquired(x) \/ TxnCommits(x) \/ TxnEnds(x)
  PROVE  HostInv'
<1>1. TypeOK /\ TopologyInv /\ WritesExclude /\ HostsOK /\ TxnsOK BY Zenon DEF HostInv
<1>2. /\ now' = now /\ topology' = topology
      /\ view' = view \/ \E s \in Servers : view' = [view EXCEPT ![s] = stored]
  <2>1. \A s \in Servers : fetchTopologies(s) =>
          now' = now /\ topology' = topology /\ view' = [view EXCEPT ![s] = stored]
    BY Zenon DEF fetchTopologies
  <2>2. \A s \in Servers : UseCache(s) \/ WriteBegin(s) \/ WriteEnd(s) =>
          now' = now /\ topology' = topology /\ view' = view
    BY Zenon DEF UseCache, WriteBegin, WriteEnd
  <2>3. \A x \in Txns : LockSend(x) \/ LockGrant(x) \/ assertLockAcquired(x) \/ TxnCommits(x) \/ TxnEnds(x) =>
          now' = now /\ topology' = topology /\ view' = view
    BY Zenon DEF LockSend, LockGrant, assertLockAcquired, TxnCommits, TxnEnds
  <2> QED BY <2>1, <2>2, <2>3, Zenon
<1>3. /\ stored' = stored /\ leader' = leader /\ cached' = cached /\ pc' = pc /\ at' = at
      /\ term' = term /\ next' = next /\ errors' = errors
  BY <1>2, Zenon DEF topology, managers
<1>4. now \in Nat /\ now' \in Nat /\ now <= now' BY <1>1, <1>2, AliveType
<1>5. TopologyTypes' BY <1>1, <1>2, <1>3, Zenon DEF TypeOK, TopologyTypes
<1>6. TopologyInv' /\ Outlasts
  <2>1. Front' = Front BY <1>3, Zenon DEF Front
  <2>2. \A s \in Servers : view'[s] \in {view[s], stored} BY <1>1, <1>2, Zenon DEF TypeOK, HostTypes
  <2>3. \A m \in Managers : ManagerOK(m)' BY <1>1, <1>2, <1>3, Zenon DEF TopologyInv, ManagerOK, Last
  <2> QED BY <1>1, <1>3, <1>4, <2>1, <2>2, <2>3, ListsKept, Zenon
<1>7. ASSUME NEW s \in Servers, fetchTopologies(s) \/ UseCache(s) \/ WriteBegin(s) \/ WriteEnd(s)
      PROVE  TypeOK' /\ WritesExclude' /\ HostsOK' /\ TxnsOK'
  <2>1. HostTypes' /\ WritesExclude' /\ HostsOK' /\ txn' = txn
    BY <1>1, <1>2, <1>6, <1>7, fetchKeeps, UseCacheKeeps, WriteBeginKeeps, WriteEndKeeps, Zenon
  <2>2. TxnsOK' BY <1>1, <1>2, <1>6, <2>1, TxnsStill, Zenon
  <2> QED BY <1>1, <1>5, <2>1, <2>2, Zenon DEF TypeOK, Locks
<1>8. ASSUME NEW x \in Txns,
             LockSend(x) \/ LockGrant(x) \/ assertLockAcquired(x) \/ TxnCommits(x) \/ TxnEnds(x)
      PROVE  TypeOK' /\ WritesExclude' /\ HostsOK' /\ TxnsOK'
  <2>1. writing' = writing /\ version' = version /\ stale' = stale /\ view' = view
    BY <1>8, Zenon DEF LockSend, LockGrant, assertLockAcquired, TxnCommits, TxnEnds
  <2>2. WritesExclude' /\ HostsOK' BY <1>1, <1>2, <1>4, <1>6, <2>1, HostsStill, Zenon
  <2>3. HostTypes' BY <1>1, <2>1, Zenon DEF TypeOK, HostTypes
  <2>4. txn' \in [Txns -> Locks] /\ TxnsOK' BY <1>1, <1>2, <1>6, <1>8, TxnKeeps, Zenon
  <2> QED BY <1>5, <2>2, <2>3, <2>4, Zenon DEF TypeOK, Locks
<1> QED BY <1>6, <1>7, <1>8, Zenon DEF HostInv

LEMMA TimePassesKeeps == ASSUME HostInv, TimePasses PROVE HostInv'
<1>1. TypeOK /\ TopologyInv /\ WritesExclude /\ HostsOK /\ TxnsOK BY Zenon DEF HostInv
<1>2. /\ view' = view /\ writing' = writing /\ version' = version /\ stale' = stale /\ txn' = txn
      /\ now < MaxTime /\ now' = now + 1 /\ topology' = topology /\ \A t \in Due : now < t + Margin
  BY Zenon DEF TimePasses, Tick, hosts
<1>3. /\ stored' = stored /\ leader' = leader /\ cached' = cached /\ pc' = pc /\ at' = at
      /\ term' = term /\ next' = next /\ errors' = errors
  BY <1>2, Zenon DEF topology, managers
<1>4. now \in Nat /\ now' \in 0 .. MaxTime /\ now' \in Nat /\ now <= now'
  BY <1>1, <1>2, TopologyAssumption DEF TypeOK, TopologyTypes
<1>5. TypeOK' BY <1>1, <1>2, <1>3, <1>4, Zenon DEF TypeOK, TopologyTypes, HostTypes, Locks
<1>6. TopologyInv' /\ Outlasts
  <2>1. Front' = Front BY <1>3, ZenonT(60) DEF Front
  <2>2. \A m \in Managers : ManagerOK(m)'
    BY <1>1, <1>3, <1>4 DEF TypeOK, TopologyTypes, TopologyInv, ManagerOK, Last
  <2> QED BY <1>1, <1>2, <1>3, <1>4, <2>1, <2>2, ListsKept, Zenon
<1>7. /\ \A s \in Servers : writing[s] # NoWrite => now' <= writing[s].at + Margin
      /\ \A x \in Txns : txn[x].stage = "asserted" => now' <= txn[x].at + Margin
  BY <1>1, <1>2, <1>4, HostType, Times DEF Due
<1>8. WritesExclude' /\ HostsOK' BY <1>1, <1>2, <1>4, <1>6, <1>7, HostsStill, Zenon
<1>9. TxnsOK' BY <1>1, <1>2, <1>6, <1>7, TxnsStill, ZenonT(60)
<1> QED BY <1>5, <1>6, <1>8, <1>9, Zenon DEF HostInv

(* What is left of a list when outdated topologies are dropped: a suffix,   *)
(* and nothing only when the last one is outdated.                          *)
KeptSuffix(m) ==
  /\ Kept(m) \in Seq(Entries)
  /\ \E d \in 0 .. Len(cached[m]) :
       /\ Len(Kept(m)) = Len(cached[m]) - d
       /\ \A i \in 1 .. Len(Kept(m)) : Kept(m)[i] = cached[m][i + d]
  /\ Kept(m) = <<>> /\ cached[m] # <<>>
       => next[m] # NoMembers /\ Last(cached[m]).exp + Life < at[m]

(* What a renewal makes of the list: it ends with a topology that agrees    *)
(* with everything in sight and is behind none of it.                       *)
Newest(e) ==
  /\ e \in Entries /\ EntryOK(e)
  /\ \A a \in Alive :
       /\ Agree(a, e) /\ Agree(e, a)
       /\ a.term < e.term \/ (a.term = e.term /\ a.exp <= e.exp)
  /\ Front # <<>> =>
       \/ Last(Front).term < e.term /\ Last(Front).exp <= LeaseStart(e)
       \/ Last(Front).term = e.term /\ LeaseStart(Last(Front)) <= LeaseStart(e)

Advanced(list) ==
  /\ list \in Seq(Entries) /\ list # <<>> /\ ListOK(list)
  /\ \A e \in Listed(list) : e \in Listed(Front) \/ e = Last(list)
  /\ Newest(Last(list))

(* The last topology of the front list is the newest in sight.              *)
LEMMA FrontNewest ==
  ASSUME TypeOK, TopologyInv, Front # <<>>
  PROVE  Newest(Last(Front))
<1>1. Last(Front) \in Listed(Front) BY AliveType, ListedType, Zenon
<1>2. Last(Front) \in Alive /\ Last(Front) \in Entries BY <1>1, AliveType, Zenon
<1>3. ASSUME NEW a \in Alive
      PROVE  a.term < Last(Front).term \/ (a.term = Last(Front).term /\ a.exp <= Last(Front).exp)
  <2>1. CASE a \in Listed(Front) BY <2>1, Zenon DEF TopologyInv, Upto
  <2>2. ASSUME a \in Listed(stored)
        PROVE  a.term < Last(Front).term \/ (a.term = Last(Front).term /\ a.exp <= Last(Front).exp)
    <3>1. stored # <<>> BY <2>2 DEF Listed
    <3> QED BY <2>2, <3>1, Zenon DEF TopologyInv, Upto
  <2>3. ASSUME NEW s \in Servers, a \in Listed(view[s])
        PROVE  a.term < Last(Front).term \/ (a.term = Last(Front).term /\ a.exp <= Last(Front).exp)
    <3>1. view[s] # <<>> BY <2>3 DEF Listed
    <3>2. /\ stored # <<>>
          /\ a.term < Last(stored).term \/ (a.term = Last(stored).term /\ a.exp <= Last(stored).exp)
      BY <2>3, <3>1, Zenon DEF TopologyInv, Upto
    <3>3. Last(stored) \in Listed(stored) /\ Last(stored) \in Entries BY <3>2, AliveType, ListedType, Zenon
    <3>4. \/ Last(stored).term < Last(Front).term
          \/ Last(stored).term = Last(Front).term /\ Last(stored).exp <= Last(Front).exp
      BY <3>2, <3>3, Zenon DEF TopologyInv, Upto
    <3>5. /\ a.term \in Nat /\ a.exp \in Nat /\ Last(stored).term \in Nat /\ Last(stored).exp \in Nat
          /\ Last(Front).term \in Nat /\ Last(Front).exp \in Nat
      BY <1>2, <1>3, <3>3, AliveType, EntryType, Zenon
    <3> QED BY <3>2, <3>4, <3>5
  <2> QED BY <1>3, <2>1, <2>2, <2>3, Zenon DEF Alive, Known
<1> QED BY <1>2, <1>3, EntryType DEF Newest, TopologyInv

LEMMA EntryMade ==
  ASSUME NEW tm \in Nat, NEW init \in Nat, NEW exp \in Nat, NEW ms \in Members,
         NEW e, e = Entry(tm, init, exp, ms)
  PROVE  e \in Entries /\ e.term = tm /\ e.init = init /\ e.exp = exp
BY DEF Entry, Entries

LEMMA AgreeSelf == ASSUME NEW e \in Entries PROVE Agree(e, e)
BY EntryType DEF Agree

LEMMA LeaseLength ==
  ASSUME NEW e \in Entries, EntryOK(e)
  PROVE  LeaseStart(e) + Life <= e.exp
BY EntryType, Times DEF EntryOK, LeaseStart

LEMMA NewestIsLast ==
  ASSUME TypeOK, TopologyInv, NEW e, Newest(e), NEW a \in Alive
  PROVE  a.exp <= e.exp /\ a.term <= e.term
<1>1. a \in Entries /\ e \in Entries /\ EntryOK(e) /\ Agree(a, e) BY AliveType, Zenon DEF Newest
<1>2. /\ a.term \in Nat /\ a.exp \in Nat /\ e.term \in Nat /\ e.exp \in Nat
      /\ LeaseStart(e) \in Int /\ LeaseStart(e) + Life <= e.exp
  BY <1>1, EntryType, LeaseLength, Zenon
<1> QED BY <1>1, <1>2, Times DEF Newest, Agree

LEMMA NothingInSight ==
  ASSUME TypeOK, TopologyInv, Front = <<>>
  PROVE  Alive = {} /\ stored = <<>>
<1>1. stored = <<>> BY Zenon DEF TopologyInv, Upto
<1>2. \A s \in Servers : view[s] = <<>> BY <1>1, Zenon DEF TopologyInv, Upto
<1>3. Listed(<<>>) = {} BY DEF Listed
<1> QED BY <1>1, <1>2, <1>3, Zenon DEF Alive, Known

(* A topology pushed behind the front list is the newest.                   *)
LEMMA PushedNewest ==
  ASSUME TypeOK, TopologyInv, NEW e \in Entries, EntryOK(e),
         Front # <<>> => e.term = Last(Front).term + 1 /\ Last(Front).exp <= LeaseStart(e)
  PROVE  Newest(e)
<1>1. CASE Front = <<>> BY <1>1, NothingInSight, Zenon DEF Newest
<1>2. CASE Front # <<>>
  <2> DEFINE f == Last(Front)
  <2>1. Newest(f) /\ f \in Entries BY <1>2, FrontNewest, Zenon DEF Newest
  <2>2. f.term \in Nat /\ f.exp \in Nat /\ e.term \in Nat /\ e.exp \in Nat /\ LeaseStart(e) \in Int
    BY <2>1, EntryType, Zenon
  <2>3. f.term < e.term /\ f.exp <= LeaseStart(e) BY <1>2, <2>2
  <2>4. ASSUME NEW a \in Alive
        PROVE  a.term < e.term /\ Agree(a, e) /\ Agree(e, a)
    <3>1. a.term \in Nat /\ a.exp \in Nat BY AliveType, EntryType, Zenon
    <3>2. a.exp <= f.exp /\ a.term <= f.term BY <2>1, NewestIsLast, Zenon
    <3> QED BY <2>2, <2>3, <3>1, <3>2 DEF Agree
  <2> QED BY <2>3, <2>4, Zenon DEF Newest
<1> QED BY <1>1, <1>2, Zenon

(* Appending such a topology keeps a list in order.                         *)
LEMMA AppendListOK ==
  ASSUME NEW list \in Seq(Entries), NEW e \in Entries, ListOK(list),
         list # <<>> => e.term = Last(list).term + 1 /\ e.init # 0
  PROVE  /\ Append(list, e) \in Seq(Entries) /\ Append(list, e) # <<>> /\ ListOK(Append(list, e))
         /\ Last(Append(list, e)) = e
         /\ \A a \in Listed(Append(list, e)) : a \in Listed(list) \/ a = e
<1> DEFINE new == Append(list, e)
<1>1. /\ new \in Seq(Entries) /\ new # <<>> /\ Len(new) = Len(list) + 1
      /\ \A i \in 1 .. Len(list) : new[i] = list[i]
      /\ new[Len(list) + 1] = e
  <2>1. new \in Seq(Entries) /\ Len(new) = Len(list) + 1 /\ new[Len(list) + 1] = e OBVIOUS
  <2>2. \A i \in 1 .. Len(list) : new[i] = list[i] OBVIOUS
  <2>3. Len(new) # 0 BY <2>1
  <2> QED BY <2>1, <2>2, <2>3
<1>2. Len(list) \in Nat /\ DOMAIN list = 1 .. Len(list) /\ DOMAIN new = 1 .. Len(list) + 1
  BY <1>1, ListedType, Zenon
<1>3. \A i \in 1 .. Len(list) : list[i].term \in Nat BY <1>2, ListedType, EntryType, Zenon
<1> HIDE DEF new
<1>4. e.term \in Nat BY EntryType, Zenon
<1>5. \A i \in 1 .. Len(list) : list[i].term + Len(list) + 1 = e.term + i
  <2> SUFFICES ASSUME NEW i \in 1 .. Len(list) PROVE list[i].term + Len(list) + 1 = e.term + i
    OBVIOUS
  <2>1. list # <<>> /\ Len(list) \in 1 .. Len(list) BY <1>2
  <2>2. list[i].term + Len(list) = list[Len(list)].term + i BY <1>2, <2>1, Zenon DEF ListOK
  <2>3. e.term = list[Len(list)].term + 1 BY <2>1, Zenon DEF Last
  <2>4. list[i].term \in Nat /\ list[Len(list)].term \in Nat BY <1>3, <2>1, Zenon
  <2> QED BY <1>2, <2>2, <2>3, <2>4
<1>6. \A i, j \in DOMAIN new : new[i].term + j = new[j].term + i
  <2> SUFFICES ASSUME NEW i \in DOMAIN new, NEW j \in DOMAIN new
               PROVE  new[i].term + j = new[j].term + i
    OBVIOUS
  <2>1. CASE i \in 1 .. Len(list) /\ j \in 1 .. Len(list) BY <1>1, <1>2, <2>1, Zenon DEF ListOK
  <2>2. CASE i \in 1 .. Len(list) /\ j = Len(list) + 1
    <3>1. new[i] = list[i] /\ new[j] = e /\ list[i].term \in Nat BY <1>1, <1>3, <2>2, Zenon
    <3>2. list[i].term + Len(list) + 1 = e.term + i BY <1>5, <2>2, Zenon
    <3> QED BY <1>2, <1>4, <2>2, <3>1, <3>2
  <2>3. CASE i = Len(list) + 1 /\ j \in 1 .. Len(list)
    <3>1. new[i] = e /\ new[j] = list[j] /\ list[j].term \in Nat BY <1>1, <1>3, <2>3, Zenon
    <3>2. list[j].term + Len(list) + 1 = e.term + j BY <1>5, <2>3, Zenon
    <3> QED BY <1>2, <1>4, <2>3, <3>1, <3>2
  <2>4. CASE i = Len(list) + 1 /\ j = Len(list) + 1 BY <2>4, Zenon
  <2> QED BY <1>2, <2>1, <2>2, <2>3, <2>4
<1>7. \A i \in DOMAIN new : i > 1 => new[i].init # 0
  <2>1. Len(list) + 1 > 1 => list # <<>> BY <1>2
  <2> QED BY <1>1, <1>2, <2>1 DEF ListOK
<1>8. \A a \in Listed(new) : a \in Listed(list) \/ a = e BY <1>1, <1>2 DEF Listed
<1> QED BY <1>1, <1>6, <1>7, <1>8, Zenon DEF ListOK, Last, new

LEMMA RenewedFacts ==
  ASSUME TypeOK, TopologyInv, NEW m \in Managers, KeptSuffix(m), pc[m] = "renew"
  PROVE  /\ Renewed(m) \in Seq(Entries)
         /\ leader = m /\ Front = cached[m]
         /\ Renewed(m) = <<>> => cached[m] = <<>>
         /\ Renewed(m) # <<>> =>
              /\ Advanced(Renewed(m))
              /\ Last(Renewed(m)).term = IF Pushes(m) THEN term[m] + 1 ELSE term[m]
<1> DEFINE K == Kept(m)
           f == Last(Front)
<1>1. leader = m /\ Front = cached[m] /\ at[m] <= now
  BY TopologyAssumption, Zenon DEF TopologyInv, ManagerOK, Front
<1>2. /\ at[m] \in Nat /\ term[m] \in Nat /\ next[m] \in Members \cup {NoMembers}
      /\ Front \in Seq(Entries) /\ K \in Seq(Entries)
  BY <1>1, Zenon DEF TypeOK, TopologyTypes, KeptSuffix
<1>3. /\ Front # <<>> => f.term = term[m] /\ Newest(f) /\ f \in Entries /\ f \in Listed(Front)
      /\ ListOK(Front)
  BY <1>1, FrontNewest, ListedType, <1>2, Zenon DEF TopologyInv, ManagerOK, Newest
<1>4. PICK d \in 0 .. Len(Front) : /\ Len(K) = Len(Front) - d
                                   /\ \A i \in 1 .. Len(K) : K[i] = Front[i + d]
  BY <1>1, Zenon DEF KeptSuffix
<1>5. /\ Len(Front) \in Nat /\ DOMAIN Front = 1 .. Len(Front) /\ Len(K) \in Nat
      /\ DOMAIN K = 1 .. Len(K)
  BY <1>2, ListedType, Zenon
<1>6. ASSUME NEW i \in 1 .. Len(K)
      PROVE  i + d \in 1 .. Len(Front) /\ K[i] = Front[i + d] /\ Front[i + d].term \in Nat
  <2>1. i + d \in 1 .. Len(Front) /\ K[i] = Front[i + d] BY <1>4, <1>5
  <2>2. Front[i + d] \in Entries BY <1>2, <1>5, <2>1, ListedType, Zenon
  <2> QED BY <2>1, <2>2, EntryType, Zenon
<1> HIDE DEF K
<1>7. /\ \A a \in Listed(K) : a \in Listed(Front)
      /\ ListOK(K)
  <2>1. \A a \in Listed(K) : a \in Listed(Front) BY <1>5, <1>6, Zenon DEF Listed
  <2>2. ASSUME NEW i \in 1 .. Len(K), NEW j \in 1 .. Len(K)
        PROVE  K[i].term + j = K[j].term + i
    <3>1. Front[i + d].term + (j + d) = Front[j + d].term + (i + d)
      BY <1>3, <1>5, <1>6, Zenon DEF ListOK
    <3>2. /\ K[i] = Front[i + d] /\ K[j] = Front[j + d]
          /\ Front[i + d].term \in Nat /\ Front[j + d].term \in Nat
      BY <1>6, Zenon
    <3>3. d \in Nat /\ i \in Nat /\ j \in Nat BY <1>4, <1>5
    <3>4. \A a, b \in Nat : a + (j + d) = b + (i + d) => a + j = b + i BY <3>3
    <3>5. Front[i + d].term + j = Front[j + d].term + i BY <3>1, <3>2, <3>4, Zenon
    <3> QED BY <3>2, <3>5, Zenon
  <2>3. ASSUME NEW i \in 1 .. Len(K), i > 1
        PROVE  K[i].init # 0
    <3>1. i + d \in 1 .. Len(Front) /\ K[i] = Front[i + d] /\ i + d > 1 BY <1>4, <1>5, <1>6, <2>3
    <3> QED BY <1>3, <1>5, <3>1, Zenon DEF ListOK
  <2> QED BY <1>5, <2>1, <2>2, <2>3, Zenon DEF ListOK
<1>8. K # <<>> => Front # <<>> /\ Last(K) = f /\ Len(K) >= 1
  BY <1>2, <1>4, <1>5 DEF Last
<1>9. CASE Pushes(m)
  <2> DEFINE e == Entry(term[m] + 1, Start(m), (IF Start(m) = 0 THEN at[m] ELSE Start(m)) + Life, next[m])
  <2>1. Renewed(m) = Append(K, e) /\ next[m] \in Members BY <1>2, <1>9, ZenonT(60) DEF Renewed, Pushes, K
  <2>2. /\ K = <<>> => Start(m) = 0
        /\ K # <<>> => Start(m) \in Nat /\ Start(m) >= f.exp /\ Start(m) >= at[m] /\ Start(m) >= Life
    <3>1. K # <<>> => f.exp \in Nat /\ f.exp >= Life
      <4>1. K # <<>> => f \in Entries /\ EntryOK(f) BY <1>3, <1>8, Zenon DEF Newest
      <4> QED BY <4>1, Times, EntryType DEF EntryOK
    <3> QED BY <1>2, <1>8, <3>1, Times DEF Start, Later, K
  <2>3. e \in Entries /\ EntryOK(e) /\ e.term = term[m] + 1 /\ e.init = Start(m)
    <3> DEFINE exp == (IF Start(m) = 0 THEN at[m] ELSE Start(m)) + Life
    <3>1. Start(m) \in Nat /\ (Start(m) = 0 \/ Start(m) >= Life) BY <2>2
    <3>2. exp \in Nat /\ Start(m) + Life <= exp BY <1>2, <3>1, Times
    <3>3. term[m] + 1 \in Nat BY <1>2
    <3> HIDE DEF exp
    <3>4. e = Entry(term[m] + 1, Start(m), exp, next[m]) BY Zenon DEF exp
    <3> HIDE DEF e
    <3>5. e \in Entries /\ e.term = term[m] + 1 /\ e.init = Start(m) /\ e.exp = exp
      <4>1. PICK tm \in Nat, init \in Nat, ms \in Members : tm = term[m] + 1 /\ init = Start(m) /\ ms = next[m]
        BY <2>1, <3>1, <3>3, Zenon
      <4>2. e = Entry(tm, init, exp, ms) BY <3>4, <4>1, Zenon
      <4>3. e \in Entries /\ e.term = tm /\ e.init = init /\ e.exp = exp BY SMTT(60), <3>2, <4>2, EntryMade
      <4> QED BY <4>1, <4>3, Zenon
    <3> QED BY <3>1, <3>2, <3>5, Zenon DEF EntryOK
  <2>4. LeaseStart(e) = IF K = <<>> THEN at[m] ELSE Start(m)
    BY <1>2, <2>2, Times DEF LeaseStart, Entry
  <2>5. Front # <<>> => f.exp <= LeaseStart(e)
    <3>1. CASE K # <<>> BY <2>2, <2>4, <3>1, ZenonT(60)
    <3>2. CASE K = <<>> /\ Front # <<>>
      <4>1. f.exp + Life < at[m] BY <1>1, <3>2, Zenon DEF K, KeptSuffix
      <4>2. f.exp \in Nat BY <1>3, <3>2, EntryType, Zenon
      <4> QED BY <1>2, <2>4, <3>2, <4>1, <4>2, Times
    <3> QED BY <3>1, <3>2, Zenon
  <2> HIDE DEF e
  <2>6. Newest(e) BY <1>3, <2>3, <2>5, PushedNewest, Zenon
  <2>7. K # <<>> => e.term = Last(K).term + 1 /\ e.init # 0 BY SMTT(60), <1>3, <1>8, <2>2, <2>3, Times
  <2>8. /\ Renewed(m) \in Seq(Entries) /\ Renewed(m) # <<>> /\ ListOK(Renewed(m))
        /\ Last(Renewed(m)) = e
        /\ \A a \in Listed(Renewed(m)) : a \in Listed(K) \/ a = e
    BY <1>2, <1>7, <2>1, <2>3, <2>7, AppendListOK
  <2> QED BY <1>1, <1>7, <1>9, <2>3, <2>6, <2>8, Zenon DEF Advanced
<1>10. CASE ~ Pushes(m) /\ (K = <<>> \/ Pending(m))
  <2>1. Renewed(m) = K BY <1>10, Zenon DEF Renewed, K
  <2>2. K = <<>> => cached[m] = <<>>
    BY <1>10, Zenon DEF Pushes, Pending, K, KeptSuffix
  <2>3. K # <<>> => Advanced(K) /\ Last(K).term = term[m] BY <1>2, <1>3, <1>7, <1>8, Zenon DEF Advanced
  <2> QED BY <1>1, <1>2, <1>10, <2>1, <2>2, <2>3, Zenon
<1>11. CASE ~ Pushes(m) /\ K # <<>> /\ ~ Pending(m)
  <2> DEFINE e == [f EXCEPT !.exp = at[m] + Life]
             new == Renewed(m)
  <2>1. f \in Entries /\ EntryOK(f) /\ Newest(f) /\ Front # <<>> BY <1>3, <1>8, <1>11, Zenon DEF Newest
  <2>2. f.exp <= at[m] + Life /\ f.exp \in Nat
    <3>1. ~ (at[m] + Life < f.exp) BY <1>8, <1>11, Zenon DEF Pending, K
    <3>2. f.exp \in Nat BY <2>1, EntryType, Zenon
    <3> HIDE DEF f
    <3> QED BY <1>2, <3>1, <3>2, Times
  <2>3. /\ e \in Entries /\ e.term = f.term /\ e.init = f.init /\ e.members = f.members
        /\ e.exp = at[m] + Life
    <3>1. at[m] + Life \in Nat BY <1>2, Times
    <3> HIDE DEF f
    <3> QED BY <2>1, <3>1, Zenon DEF Entries
  <2>4. EntryOK(e) /\ LeaseStart(f) <= LeaseStart(e)
    <3>1. f.init \in Nat BY <2>1, EntryType, Zenon
    <3>2. /\ f.init = 0 \/ f.init >= Life
          /\ f.init + Life <= f.exp
      BY <2>1, Zenon DEF EntryOK
    <3>3. f.exp <= e.exp /\ e.exp \in Nat BY <1>2, <2>2, <2>3, Times
    <3>4. LeaseStart(f) = IF f.init # 0 THEN f.init ELSE f.exp - Life BY Zenon DEF LeaseStart
    <3>5. LeaseStart(e) = IF f.init # 0 THEN f.init ELSE e.exp - Life BY <2>3 DEF LeaseStart
    <3> HIDE DEF f, e
    <3>6. EntryOK(e) BY <2>2, <2>3, <3>1, <3>2, <3>3, Times DEF EntryOK
    <3> QED BY <2>2, <3>1, <3>3, <3>4, <3>5, <3>6, Times
  <2>5. new = [K EXCEPT ![Len(K)] = e]
    <3>1. new = [K EXCEPT ![Len(K)] = [K[Len(K)] EXCEPT !.exp = at[m] + Life]]
      BY <1>11, Zenon DEF Renewed, K
    <3> QED BY <1>8, <1>11, <3>1, Zenon DEF Last
  <2> HIDE DEF e, new
  <2>6. /\ new \in Seq(Entries) /\ Len(new) = Len(K)
        /\ \A i \in 1 .. Len(K) : new[i] = IF i = Len(K) THEN e ELSE K[i]
    <3>1. Len(K) \in 1 .. Len(K) BY <1>5, <1>8, <1>11
    <3> QED BY <1>2, <2>3, <2>5, <3>1
  <2>7. DOMAIN new = 1 .. Len(K) /\ new # <<>> /\ Last(new) = e
    <3>0. Len(K) \in 1 .. Len(K) BY <1>5, <1>8, <1>11
    <3>1. DOMAIN new = 1 .. Len(new) BY <2>6, ListedType, Zenon
    <3>2. new # <<>> BY <3>0, <2>6
    <3>3. Last(new) = e BY <3>0, <2>6, Zenon DEF Last
    <3> QED BY <2>6, <3>1, <3>2, <3>3, Zenon
  <2>8. \A i \in 1 .. Len(K) : new[i].term = K[i].term /\ new[i].init = K[i].init
    BY <1>8, <1>11, <2>3, <2>6, Zenon DEF Last
  <2>9. ListOK(new) BY <1>5, <1>7, <2>7, <2>8, Zenon DEF ListOK
  <2>10. \A a \in Listed(new) : a \in Listed(K) \/ a = e BY <1>5, <2>6, <2>7, Zenon DEF Listed
  <2>11. Newest(e)
    <3>1. ASSUME NEW a \in Alive
          PROVE  /\ Agree(a, e) /\ Agree(e, a)
                 /\ a.term < e.term \/ (a.term = e.term /\ a.exp <= e.exp)
      <4>1. /\ Agree(a, f) /\ Agree(f, a)
            /\ a.term < f.term \/ (a.term = f.term /\ a.exp <= f.exp)
        BY <2>1, Zenon DEF Newest
      <4>2. a \in Entries /\ a.term \in Nat /\ a.exp \in Nat /\ LeaseStart(a) \in Int
        BY AliveType, EntryType, Zenon
      <4>3. /\ f.term \in Nat /\ LeaseStart(f) \in Int /\ LeaseStart(e) \in Int
        BY <2>1, <2>3, EntryType, ZenonT(60)
      <4>4. a.term < e.term \/ (a.term = e.term /\ a.exp <= e.exp)
        BY SMTT(60), <1>2, <2>2, <2>3, <4>1, <4>2, Times
      <4>5. Agree(a, e) BY <2>3, <2>4, <4>1, <4>2, <4>3 DEF Agree
      <4>6. Agree(e, a) BY <2>3, <4>1, <4>2, <4>3 DEF Agree
      <4> QED BY <4>4, <4>5, <4>6, Zenon
    <3> QED BY <2>1, <2>3, <2>4, <3>1, Zenon DEF Newest
  <2>12. Last(new).term = term[m] BY <1>3, <2>1, <2>3, <2>7, Zenon
  <2> QED BY <1>1, <1>7, <1>11, <2>6, <2>7, <2>9, <2>10, <2>11, <2>12, Zenon DEF Advanced, new
<1> QED BY <1>9, <1>10, <1>11, Zenon

(* A renewal, whether the put fails or not.                                 *)
LEMMA RenewTopology ==
  ASSUME TypeOK, TopologyInv, NEW m \in Managers, KeptSuffix(m), Renew(m), UNCHANGED hosts,
         stored' = stored \/ (cached'[m] # <<>> /\ stored' = cached'[m])
  PROVE  TopologyInv' /\ Outlasts
<1> DEFINE N == Renewed(m)
           L == Last(N)
           f == Last(Front)
           g == Last(stored)
<1>1. /\ pc[m] = "renew" /\ cached' = [cached EXCEPT ![m] = N]
      /\ term' = IF Pushes(m) THEN [term EXCEPT ![m] = @ + 1] ELSE term
      /\ pc' = [pc EXCEPT ![m] = "idle"] /\ now' = now /\ leader' = leader /\ view' = view
  BY Zenon DEF Renew, hosts
<1>2. /\ N \in Seq(Entries) /\ leader = m /\ Front = cached[m]
      /\ N = <<>> => cached[m] = <<>>
      /\ N # <<>> => Advanced(N) /\ L.term = IF Pushes(m) THEN term[m] + 1 ELSE term[m]
  BY <1>1, RenewedFacts, ZenonT(60)
<1>3. cached \in [Managers -> Seq(Entries)] /\ term \in [Managers -> Nat] /\ now \in Nat
      /\ pc \in [Managers -> {"idle", "renew"}]
  BY DEF TypeOK, TopologyTypes
<1>4. cached'[m] = N /\ Front' = N /\ m # NoManager
  BY <1>1, <1>2, <1>3, TopologyAssumption, Zenon DEF Front
<1>5. \A n \in Managers : ManagerOK(n)'
  <2>1. ASSUME NEW n \in Managers, pc'[n] = "renew" PROVE FALSE
    BY <1>1, <1>2, <1>3, <2>1, Zenon DEF TopologyInv, ManagerOK
  <2>2. ASSUME NEW n \in Managers, leader' = n, cached'[n] # <<>>
        PROVE  term'[n] = Last(cached'[n]).term
    BY <1>1, <1>2, <1>3, <1>4, <2>2, ZenonT(60)
  <2> QED BY <2>1, <2>2, Zenon DEF ManagerOK, Last
<1>6. CASE N = <<>>
  <2>1. Front' = Front /\ stored' = stored /\ \A s \in Servers : view'[s] = view[s]
    BY <1>1, <1>2, <1>4, <1>6, Zenon
  <2> QED BY <1>1, <1>3, <1>5, <2>1, ListsKept
<1>7. CASE N # <<>>
  <2>1. /\ ListOK(N) /\ Newest(L) /\ L \in Entries /\ EntryOK(L)
        /\ \A e \in Listed(N) : e \in Listed(Front) \/ e = L
        /\ L \in Listed(N)
    BY <1>2, <1>7, ListedType, Zenon DEF Advanced, Newest
  <2>2. stored' \in {stored, N} BY <1>4, Zenon
  <2>3. \A e \in Alive' : e \in Alive \/ e = L
    <3>1. Listed(N) \subseteq Alive \cup {L} /\ Listed(stored) \subseteq Alive
      BY <2>1, AliveType, Zenon
    <3>2. \A s \in Servers : Listed(view[s]) \subseteq Alive BY AliveType, Zenon
    <3>3. \A e \in Alive' : \/ e \in Listed(stored') \/ e \in Listed(Front')
                           \/ \E s \in Servers : e \in Listed(view'[s])
      BY Zenon DEF Alive, Known, Listed
    <3> HIDE DEF N, L
    <3>4. Listed(stored') \subseteq Alive \cup {L} BY <2>2, <3>1, Zenon
    <3>5. \A s \in Servers : Listed(view'[s]) \subseteq Alive BY <1>1, <3>2, Zenon
    <3>6. Listed(Front') \subseteq Alive \cup {L} BY <1>4, <3>1, Zenon
    <3> QED BY <3>3, <3>4, <3>5, <3>6, Zenon
  <2>4. \A a \in Alive : /\ a \in Entries /\ Agree(a, L) /\ Agree(L, a)
                         /\ a.term \in Nat /\ a.exp \in Nat /\ a.exp <= L.exp /\ a.term <= L.term
    BY <2>1, AliveType, EntryType, NewestIsLast, Zenon DEF Newest
  <2>5. /\ L.term \in Nat /\ L.exp \in Nat /\ L.init \in Nat /\ LeaseStart(L) \in Int
        /\ LeaseStart(L) + Life <= L.exp
    BY <2>1, EntryType, LeaseLength, Zenon
  <2>6. TopologyInv'
    <3>1. Agree(L, L) BY <2>1, AgreeSelf, Zenon
    <3>2. /\ \A a, b \in Alive' : Agree(a, b)
          /\ \A e \in Alive' : EntryOK(e)
      BY <2>1, <2>3, <2>4, <3>1, Zenon DEF TopologyInv
    <3>3. ListOK(stored') /\ ListOK(Front') /\ \A s \in Servers : ListOK(view'[s])
      BY <1>1, <1>4, <2>1, <2>2, Zenon DEF TopologyInv
    <3>4. \A a \in Alive \cup {L} : a.term < L.term \/ (a.term = L.term /\ a.exp <= L.exp)
      <4>1. \A n \in Nat : n <= n OBVIOUS
      <4> QED BY <2>1, <2>5, <4>1, ZenonT(60) DEF Newest
    <3>5. ASSUME NEW list, Listed(list) \subseteq Alive \cup {L} PROVE Upto(list, N)
      BY <1>7, <3>4, <3>5, Zenon DEF Upto
    <3>6. /\ Listed(N) \subseteq Alive \cup {L} /\ Listed(stored) \subseteq Alive
          /\ \A s \in Servers : Listed(view[s]) \subseteq Alive
      BY <2>1, AliveType, Zenon
    <3>7. Upto(N, N) /\ Upto(stored, N) /\ \A s \in Servers : Upto(view[s], N) BY <3>5, <3>6, Zenon
    <3>8. /\ Upto(Front', Front') /\ Upto(stored', stored') /\ Upto(stored', Front')
          /\ \A s \in Servers : Upto(view'[s], stored')
      BY <1>1, <1>4, <2>2, <3>7, Zenon DEF TopologyInv
    <3> QED BY <1>5, <3>2, <3>3, <3>8, Zenon DEF TopologyInv, Agree, EntryOK, ListOK, Upto, LeaseStart, Listed, Last
  <2> HIDE DEF N, L, f, g
  <2>7. ASSUME stored # <<>>
        PROVE  /\ stored' # <<>> /\ g \in Alive
               /\ g.term <= Last(stored').term /\ g.exp <= Last(stored').exp
               /\ f \in Alive /\ f \in Entries /\ g.term <= f.term /\ g.exp <= f.exp /\ f.term <= L.term
               /\ \/ f.term < L.term /\ f.exp <= LeaseStart(L)
                  \/ f.term = L.term /\ LeaseStart(f) <= LeaseStart(L) /\ f.members = L.members /\ f.init = L.init
    <3>1. stored \in Seq(Entries) /\ Front \in Seq(Entries) /\ g \in Listed(stored) /\ g \in Alive
      BY <2>7, AliveType, ListedType, Zenon DEF g
    <3>2. Front # <<>> /\ Newest(f) BY <2>7, FrontNewest, Zenon DEF TopologyInv, Upto, f
    <3>3. f \in Listed(Front) /\ f \in Alive /\ f \in Entries
      BY <3>1, <3>2, AliveType, ListedType, Zenon DEF f
    <3>4. g.term <= f.term /\ g.exp <= f.exp BY <3>1, <3>2, NewestIsLast, Zenon
    <3>5. stored' # <<>> /\ g.term <= Last(stored').term /\ g.exp <= Last(stored').exp
      BY <1>7, <2>2, <2>4, <2>7, <3>1 DEF L, g
    <3>6. /\ \/ f.term < L.term /\ f.exp <= LeaseStart(L)
             \/ f.term = L.term /\ LeaseStart(f) <= LeaseStart(L)
          /\ f.term = L.term => f.members = L.members /\ f.init = L.init
      BY <2>1, <2>4, <3>2, <3>3, Zenon DEF Newest, Agree, f
    <3> QED BY <2>4, <3>1, <3>3, <3>4, <3>5, <3>6, Zenon
  <2>8. ASSUME stored # <<>>
        PROVE  /\ g.term \in Nat /\ g.exp \in Nat /\ f.term \in Nat /\ f.exp \in Nat /\ f.init \in Nat
               /\ LeaseStart(f) \in Int
               /\ Last(stored').term \in Nat /\ Last(stored').exp \in Nat
    <3>1. Last(stored') = g \/ Last(stored') = L BY <2>2, Zenon DEF g, L
    <3> QED BY <2>4, <2>5, <2>7, <2>8, <3>1, EntryType, Zenon
  <2>9. ASSUME NEW s \in Servers, NEW t \in Int, Covered(s, t), now' <= t + Margin
        PROVE  Covered(s, t)'
    <3>1. /\ t <= now /\ stored # <<>> /\ t + Margin < g.exp
          /\ \A e \in Alive : LeaseStart(e) <= t + Margin /\ t < e.exp => Host[e.members] = s
      BY <2>9, Zenon DEF Covered, Covers, g
    <3>2. stored' # <<>> /\ t + Margin < Last(stored').exp BY <2>7, <2>8, <3>1, Times
    <3>3. ASSUME LeaseStart(L) <= t + Margin, t < L.exp PROVE Host[L.members] = s
      <4>1. /\ g.exp \in Nat /\ f.exp \in Nat /\ LeaseStart(f) \in Int /\ LeaseStart(L) \in Int
            /\ t + Margin < g.exp /\ g.exp <= f.exp
        BY <2>5, <2>7, <2>8, <3>1, Zenon
      <4>2. ~ (f.exp <= LeaseStart(L)) /\ t < f.exp BY <3>3, <4>1, Times
      <4>3. f.members = L.members /\ f \in Alive /\ LeaseStart(f) <= LeaseStart(L)
        BY <2>7, <3>1, <4>2, Zenon
      <4>4. LeaseStart(f) <= t + Margin BY <3>3, <4>1, <4>3, Times
      <4> QED BY <3>1, <4>2, <4>3, <4>4, Zenon
    <3>4. \A e \in Alive' : LeaseStart(e) <= t + Margin /\ t < e.exp => Host[e.members] = s
      BY <2>3, <3>1, <3>3, Zenon
    <3> QED BY <1>1, <2>9, <3>1, <3>2, <3>4, Zenon DEF Covered, Covers
  <2>10. ASSUME NEW s \in Servers, NEW v \in Nat \X Nat, Named(s, v)
         PROVE  Named(s, v)'
    <3>1. /\ v[1] = 0 \/ v[1] >= Life
          /\ stored # <<>> /\ v[2] <= g.term /\ v[1] + Life <= g.exp
          /\ \A e \in Alive :
               /\ e.term = v[2] => Host[e.members] = s
               /\ e.term < v[2] => Host[e.members] = s \/ e.exp <= now
               /\ e.init # v[1] + 1 /\ e.init + 1 # v[1]
      BY <2>10, Zenon DEF Named, Names, g
    <3>2. v[1] \in Nat /\ v[2] \in Nat OBVIOUS
    <3>3. /\ stored' # <<>> /\ v[2] <= Last(stored').term /\ v[1] + Life <= Last(stored').exp
          /\ v[2] <= f.term /\ v[2] <= L.term /\ v[1] + Life <= f.exp
      <4>1. /\ g.term <= Last(stored').term /\ g.exp <= Last(stored').exp /\ stored' # <<>>
            /\ g.term <= f.term /\ g.exp <= f.exp /\ f.term <= L.term
        BY <2>7, <3>1, Zenon
      <4>2. /\ g.term \in Nat /\ g.exp \in Nat /\ f.term \in Nat /\ f.exp \in Nat /\ L.term \in Nat
            /\ Last(stored').term \in Nat /\ Last(stored').exp \in Nat
        BY <2>5, <2>8, <3>1, Zenon
      <4>3. v[1] + Life \in Nat BY <3>2, Times
      <4>4. \A a, b, c \in Nat : a <= b /\ b <= c => a <= c OBVIOUS
      <4> QED BY <3>1, <3>2, <4>1, <4>2, <4>3, <4>4, Zenon
    <3>4. L.term = v[2] => Host[L.members] = s
      <4>1. L.term = v[2] => f.term = v[2] /\ f.members = L.members BY SMTT(60), <2>5, <2>7, <2>8, <3>1, <3>2, <3>3
      <4> QED BY <2>7, <3>1, <4>1, ZenonT(60)
    <3>5. ~ (L.term < v[2]) BY <2>5, <3>2, <3>3
    <3>6. L.init # v[1] + 1 /\ L.init + 1 # v[1]
      <4>1. CASE f.init = L.init /\ f \in Alive BY <3>1, <4>1, Zenon
      <4>2. CASE f.exp <= LeaseStart(L)
        <5>1. LeaseStart(L) = IF L.init # 0 THEN L.init ELSE L.exp - Life BY Zenon DEF LeaseStart
        <5>2. f.exp \in Nat /\ L.exp \in Nat /\ L.init \in Nat /\ LeaseStart(L) \in Int
          BY <2>5, <2>8, <3>1, Zenon
        <5>3. CASE L.init = 0 BY <3>1, <3>2, <5>3, Times
        <5>4. CASE L.init # 0
          <6>1. v[1] + Life <= L.init BY <3>2, <3>3, <4>2, <5>1, <5>2, <5>4, Times
          <6> QED BY SMTT(60), <3>2, <5>2, <6>1, Times
        <5> QED BY <5>3, <5>4, Zenon
      <4> QED BY <2>7, <3>1, <4>1, <4>2, Zenon
    <3>7. \A e \in Alive' :
               /\ e.term = v[2] => Host[e.members] = s
               /\ e.term < v[2] => Host[e.members] = s \/ e.exp <= now
               /\ e.init # v[1] + 1 /\ e.init + 1 # v[1]
      BY <2>3, <3>1, <3>4, <3>5, <3>6, Zenon
    <3> QED BY <1>1, <3>1, <3>3, <3>7, Zenon DEF Named, Names
  <2>11. ASSUME NEW k \in Nat, NEW t \in Int, Over(k, t)
         PROVE  Over(k, t)'
    <3>1. stored # <<>> /\ k < g.term /\ \A e \in Alive : e.term <= k => e.exp <= t
      BY <2>11, ZenonT(60) DEF Over, Ended, g
    <3>2. stored' # <<>> /\ k < Last(stored').term /\ ~ (L.term <= k)
      BY <2>5, <2>7, <2>8, <3>1
    <3>3. \A e \in Alive' : e.term <= k => e.exp <= t BY <2>3, <3>1, <3>2, Zenon
    <3> QED BY <3>2, <3>3, Zenon DEF Over, Ended
  <2> QED BY <2>6, <2>9, <2>10, <2>11, Zenon DEF Outlasts
<1> QED BY <1>6, <1>7, Zenon

LEMMA ManagerTopology ==
  ASSUME TypeOK, TopologyInv, \A m \in Managers : KeptSuffix(m), ManagerStep, UNCHANGED hosts
  PROVE  TopologyInv' /\ Outlasts /\ now' = now
<1>1. /\ view' = view /\ now \in Nat /\ leader \in Managers \cup {NoManager}
      /\ cached \in [Managers -> Seq(Entries)] /\ term \in [Managers -> Nat]
      /\ pc \in [Managers -> {"idle", "renew"}] /\ at \in [Managers -> Nat]
  BY DEF hosts, TypeOK, TopologyTypes
<1>2. \A n \in Managers : ManagerOK(n) BY Zenon DEF TopologyInv
<1>3. ASSUME stored' = stored, now' = now, Front' \in {Front, stored}, \A n \in Managers : ManagerOK(n)'
      PROVE  TopologyInv' /\ Outlasts /\ now' = now
  <2>1. \A s \in Servers : view'[s] \in {view[s], stored} BY <1>1, Zenon
  <2>2. now' \in Nat /\ now <= now' BY <1>1, <1>3
  <2> QED BY <1>3, <2>1, <2>2, ListsKept, Zenon
<1>4. CASE Expire
  <2>1. stored' = stored /\ now' = now /\ Front' = stored BY <1>4, Zenon DEF Expire, Front
  <2>2. \A n \in Managers : ManagerOK(n)'
    BY <1>1, <1>2, <1>4, TopologyAssumption, Zenon DEF Expire, ManagerOK
  <2> QED BY <1>3, <2>1, <2>2, Zenon
<1>5. ASSUME NEW m \in Managers, Elect(m) PROVE TopologyInv' /\ Outlasts /\ now' = now
  <2>1. stored' = stored /\ now' = now /\ Front' = Front
    BY <1>1, <1>5, TopologyAssumption, Zenon DEF Elect, Front
  <2>2. \A n \in Managers : ManagerOK(n)'
    BY <1>1, <1>2, <1>5, TopologyAssumption, Zenon DEF Elect, ManagerOK, Last
  <2> QED BY <1>3, <2>1, <2>2, Zenon
<1>6. ASSUME NEW m \in Managers, Crash(m) PROVE TopologyInv' /\ Outlasts /\ now' = now
  <2>1. stored' = stored /\ now' = now BY <1>6, Zenon DEF Crash
  <2>2. Front' \in {Front, stored}
    BY <1>1, <1>6, TopologyAssumption, Zenon DEF Crash, Front
  <2>3. \A n \in Managers : ManagerOK(n)'
    BY <1>1, <1>2, <1>6, TopologyAssumption, Zenon DEF Crash, ManagerOK, Last
  <2> QED BY <1>3, <2>1, <2>2, <2>3, Zenon
<1>7. ASSUME NEW m \in Managers, RenewStart(m) PROVE TopologyInv' /\ Outlasts /\ now' = now
  <2>1. stored' = stored /\ now' = now /\ Front' = Front BY <1>7, Zenon DEF RenewStart, Front
  <2>2. \A n \in Managers : ManagerOK(n)' BY <1>1, <1>2, <1>7 DEF RenewStart, ManagerOK, Last
  <2> QED BY <1>3, <2>1, <2>2, Zenon
<1>8. ASSUME NEW m \in Managers, NEW ms \in Members, refreshTopology(m, ms)
      PROVE  TopologyInv' /\ Outlasts /\ now' = now
  <2>1. stored' = stored /\ now' = now /\ Front' = Front BY <1>8, Zenon DEF refreshTopology, Front
  <2>2. \A n \in Managers : ManagerOK(n)' BY <1>1, <1>2, <1>8, Zenon DEF refreshTopology, ManagerOK, Last
  <2> QED BY <1>3, <2>1, <2>2, Zenon
<1>9. ASSUME NEW m \in Managers, RenewPut(m) \/ RenewError(m)
      PROVE  TopologyInv' /\ Outlasts /\ now' = now
  <2>1. Renew(m) /\ now' = now BY <1>9, Zenon DEF RenewPut, RenewError, Renew
  <2>2. stored' = stored \/ (cached'[m] # <<>> /\ stored' = cached'[m])
    BY <1>9, Zenon DEF RenewPut, RenewError
  <2> QED BY <2>1, <2>2, RenewTopology, Zenon
<1> QED BY <1>4, <1>5, <1>6, <1>7, <1>8, <1>9, Zenon DEF ManagerStep

LEMMA ManagerType ==
  ASSUME TypeOK, TopologyInv, \A m \in Managers : KeptSuffix(m), ManagerStep, UNCHANGED hosts
  PROVE  TypeOK'
<1>1. TopologyTypes /\ TypeOK BY Zenon DEF TypeOK
<1>2. SUFFICES TopologyTypes' BY Zenon DEF TypeOK, HostTypes, Locks, hosts
<1>3. CASE Expire BY <1>1, <1>3, Zenon DEF Expire, TopologyTypes
<1>4. ASSUME NEW m \in Managers, Elect(m) PROVE TopologyTypes'
  <2>1. stored # <<>> => Last(stored).term \in Nat BY AliveType, ListedType, EntryType, Zenon
  <2> QED BY <1>1, <1>4, <2>1, Zenon DEF Elect, TopologyTypes
<1>5. ASSUME NEW m \in Managers, Crash(m) PROVE TopologyTypes'
  <2>1. <<>> \in Seq(Entries) OBVIOUS
  <2> QED BY <1>1, <1>5, <2>1, Zenon DEF Crash, TopologyTypes
<1>6. ASSUME NEW m \in Managers, RenewStart(m) PROVE TopologyTypes'
  BY <1>1, <1>6 DEF RenewStart, TopologyTypes
<1>7. ASSUME NEW m \in Managers, NEW ms \in Members, refreshTopology(m, ms) PROVE TopologyTypes'
  BY <1>1, <1>7, Zenon DEF refreshTopology, TopologyTypes
<1>8. ASSUME NEW m \in Managers, Renew(m), errors' \in 0 .. MaxErrors,
             stored' = stored \/ stored' = cached'[m]
      PROVE  TopologyTypes'
  <2>1. Renewed(m) \in Seq(Entries) BY <1>8, RenewedFacts, Zenon DEF Renew
  <2>2. term' \in [Managers -> Nat] BY <1>1, <1>8 DEF Renew, TopologyTypes
  <2>3. cached' \in [Managers -> Seq(Entries)] /\ cached'[m] = Renewed(m)
    BY <1>1, <1>8, <2>1, Zenon DEF Renew, TopologyTypes
  <2> QED BY <1>1, <1>8, <2>1, <2>2, <2>3, Zenon DEF Renew, TopologyTypes
<1>9. ASSUME NEW m \in Managers, RenewPut(m) PROVE TopologyTypes'
  BY <1>1, <1>8, <1>9, Zenon DEF RenewPut, TopologyTypes
<1>10. ASSUME NEW m \in Managers, RenewError(m) PROVE TopologyTypes'
  <2>1. errors' \in 0 .. MaxErrors
    BY <1>1, <1>10, TopologyAssumption DEF RenewError, TopologyTypes
  <2> QED BY <1>8, <1>10, <2>1, Zenon DEF RenewError
<1> QED BY <1>3, <1>4, <1>5, <1>6, <1>7, <1>9, <1>10, Zenon DEF ManagerStep
=============================================================================
