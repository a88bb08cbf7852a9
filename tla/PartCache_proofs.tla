-------------------------- MODULE PartCache_proofs --------------------------
(***************************************************************************)
(* For any parts, any number of queries and of partition infos: a map that *)
(* queries are served from is complete, a query misses nothing unless what *)
(* it looks at goes away between two looks, a part whose removal met no    *)
(* load stays out, and no load is left without an owner.                   *)
(*                                                                         *)
(* An action is a composition of a few changes (a query moves, a job moves,*)
(* the map is lost, the map gets parts, a status changes), and for each of *)
(* them one lemma says when it keeps Consistent.                           *)
(***************************************************************************)
EXTENDS PartCache, TLAPS

LEMMA Constants ==
  /\ MaxInfos \in Nat /\ MaxInfos > 0 /\ Nothing \notin Maps
  /\ "uninit" \notin Readers /\ "loaded" \notin Readers
  BY PartCacheAssumption DEF Maps

(* Numbers of a part.                                                       *)
LEMMA Levels ==
  /\ \A x \in 0 .. 2 : x >= 0 /\ x >= x
  /\ \A x, y, z \in 0 .. 2 : x >= y /\ y >= z => x >= z
  /\ \A x, y \in 0 .. 2 : Later(x, y) \in 0 .. 2 /\ Later(x, y) >= x /\ Later(x, y) >= y
  /\ Later(0, 0) = 0 /\ 0 \in 0 .. 2 /\ 1 \in 0 .. 2 /\ 2 \in 0 .. 2
  /\ 1 >= 0 /\ 2 >= 0 /\ 2 >= 1
  BY DEF Later

(* What of a part was told, is known and is stored.                         *)
LEMMA Amounts ==
  ASSUME NEW j \in Jobs, NEW n
  PROVE  /\ Told(j) \in 0 .. 2 /\ Stored(j) \in 0 .. 2 /\ Known(j, n) \in 0 .. 2
         /\ Stored(j) >= Known(j, n) /\ Known(j, n) >= Told(j)
         /\ Removing(j) => Told(j) = 0 /\ Stored(j) = 0 /\ Known(j, n) = 0
<1>1. CASE j.pc \in {"lock1", "lock2"} /\ j.info # n
  BY <1>1, Levels, Zenon DEF Told, Stored, Known, Removing
<1>2. CASE ~ (j.pc \in {"lock1", "lock2"} /\ j.info # n)
  BY <1>2, Levels, Zenon DEF Told, Stored, Known, Removing
<1> QED BY <1>1, <1>2, Zenon

-----------------------------------------------------------------------------
(* One query moves.                                                         *)
LEMMA QueryMoves ==
  ASSUME NEW k, NEW m, NEW c, NEW y, NEW n, NEW l, NEW s, NEW j, NEW q,
         Consistent(k, m, c, y, n, l, s, j, q),
         NEW r \in Readers, NEW v \in Queries,
         QueryOK(v, m, c, n, j), LoaderOK(r, v, m, c, y, n, l, s[n], j),
         \A i \in 1 .. MaxInfos : s[i] = r => v.pc \in {"load", "merge"} /\ v.info = i
  PROVE  Consistent(k, m, c, y, n, l, s, j, [q EXCEPT ![r] = v])
<1> DEFINE w == [q EXCEPT ![r] = v]
<1>1. q \in [Readers -> Queries] /\ w \in [Readers -> Queries] /\ w[r] = v /\ \A t \in Readers : t # r => w[t] = q[t]
  BY Zenon DEF Consistent, Types
<1> HIDE DEF w
<1>2. Types(k, m, c, y, n, l, s, j, w)
  BY <1>1, Zenon DEF Consistent, Types
<1>3. Owned(s, w)
  <2>1. ASSUME NEW i \in 1 .. MaxInfos, NEW t \in Readers, s[i] = t PROVE w[t].pc \in {"load", "merge"} /\ w[t].info = i
    <3>1. CASE t = r
      BY <1>1, <2>1, <3>1, Zenon
    <3>2. CASE t # r
      <4>1. q[t].pc \in {"load", "merge"} /\ q[t].info = i
        BY <2>1, Zenon DEF Consistent, Owned
      <4> QED BY <1>1, <3>2, <4>1, Zenon
    <3> QED BY <3>1, <3>2, Zenon
  <2> QED BY <2>1, Zenon DEF Owned
<1>4. \A t \in Readers : QueryOK(w[t], m, c, n, j) /\ LoaderOK(t, w[t], m, c, y, n, l, s[n], j)
  BY <1>1, Zenon DEF Consistent
<1> QED BY <1>2, <1>3, <1>4, Zenon DEF Consistent, w

(* A new info: its status is uninit and there is no map, unless an older    *)
(* thread has put one there.                                                *)
LEMMA NewInfo ==
  ASSUME NEW k, NEW m, NEW c, NEW y, NEW n, NEW l, NEW s, NEW j, NEW q,
         Consistent(k, m, c, y, n, l, s, j, q)
  PROVE  Consistent(k, m, c, y, IF l THEN n ELSE n + 1, TRUE, s, j, q)
<1>0. CASE l
  BY <1>0, Zenon DEF Consistent, Types
<1>1. CASE ~ l
  <2>1. n \in Nat /\ n + 1 \in 1 .. MaxInfos /\ (\A i \in Nat : i > n + 1 => i > n) /\ n + 1 > n /\ n + 1 # n
        /\ (\A i \in 0 .. MaxInfos : i <= n => i <= n + 1 /\ i # n + 1)
        /\ \A i \in 1 .. MaxInfos : i \in Nat
    BY <1>1, Constants DEF Consistent, Types, InfosOK
  <2>2. s[n + 1] = "uninit"
    BY <2>1, Zenon DEF Consistent, InfosOK
  <2>3. ~ c => m = Nothing
    BY <1>1, Zenon DEF Consistent, MapOK
  <2>4. Types(k, m, c, y, n + 1, TRUE, s, j, q) /\ InfosOK(n + 1, TRUE, s) /\ MapOK(m, c, n + 1, TRUE, s[n + 1], j)
    BY <2>1, <2>2, <2>3, Zenon DEF Consistent, Types, InfosOK, MapOK
  <2>5. ASSUME NEW p \in Parts PROVE JobOK(p, k[p], m, c, n + 1, TRUE, j[p])
    <3>1. j[p].info \in 0 .. MaxInfos /\ JobOK(p, k[p], m, c, n, l, j[p])
      BY Zenon DEF Consistent, Types, Jobs
    <3> QED BY <1>1, <2>1, <2>3, <3>1, Zenon DEF JobOK
  <2>6. ASSUME NEW r \in Readers
        PROVE  QueryOK(q[r], m, c, n + 1, j) /\ LoaderOK(r, q[r], m, c, y, n + 1, TRUE, s[n + 1], j)
    <3>1. q[r].info \in 0 .. MaxInfos /\ QueryOK(q[r], m, c, n, j)
      BY Zenon DEF Consistent, Types, Queries
    <3>2. QueryOK(q[r], m, c, n + 1, j)
      BY <2>1, <3>1, Zenon DEF QueryOK
    <3>3. LoaderOK(r, q[r], m, c, y, n + 1, TRUE, s[n + 1], j)
      BY <2>2, <2>3, Constants, Zenon DEF LoaderOK
    <3> QED BY <3>2, <3>3, Zenon
  <2>7. Consistent(k, m, c, y, n + 1, TRUE, s, j, q)
    BY <2>4, <2>5, <2>6, Zenon DEF Consistent
  <2> QED BY <1>1, <2>7, Zenon
<1> QED BY <1>0, <1>1, Zenon

(* Of a map that was crossed nothing is said.                               *)
LEMMA Crosses ==
  ASSUME NEW k, NEW m, NEW c, NEW y, NEW n, NEW l, NEW s, NEW j, NEW q, NEW d \in BOOLEAN,
         Consistent(k, m, c, y, n, l, s, j, q)
  PROVE  Consistent(k, m, c \/ d, y, n, l, s, j, q)
<1>1. CASE c \/ d
  <2>1. (c \/ d) = TRUE
    BY <1>1, Zenon DEF Consistent, Types
  <2>2. Consistent(k, m, TRUE, y, n, l, s, j, q)
    BY Zenon DEF Consistent, Types, MapOK, JobOK, QueryOK, LoaderOK
  <2> QED BY <2>1, <2>2, Zenon
<1>2. CASE ~ (c \/ d)
  <2>1. c = FALSE /\ (c \/ d) = FALSE
    BY <1>2, Zenon DEF Consistent, Types
  <2> QED BY <2>1, Zenon
<1> QED BY <1>1, <1>2, Zenon

(* The map leaves the cache, perhaps with the entry of the table, and       *)
(* perhaps a load that was under way is forgotten.                          *)
LEMMA MapLost ==
  ASSUME NEW k, NEW m, NEW c, NEW y, NEW n, NEW l, NEW s, NEW j, NEW q, NEW a,
         NEW b \in [1 .. MaxInfos -> {"uninit", "loaded"} \cup Readers],
         Consistent(k, m, c, y, n, l, s, j, q), a = l \/ (a = FALSE /\ n < MaxInfos),
         \A i \in 1 .. MaxInfos : b[i] = s[i] \/ b[i] = "uninit",
         c = TRUE \/ a = FALSE \/ \A r \in Readers : b[n] = r => q[r].pc # "merge"
  PROVE  Consistent(k, Nothing, c, {}, n, a, b, Lost(j), Disturbed(q))
<1>0. /\ a \in BOOLEAN /\ (a \/ n < MaxInfos) /\ (a => l)
      /\ c \/ ~ a \/ \A r \in Readers : b[n] = r => q[r].pc # "merge"
  <2>1. l \in BOOLEAN /\ (l \/ n < MaxInfos)
    BY Zenon DEF Consistent, Types, InfosOK
  <2>2. CASE a = l
    BY <2>1, <2>2, Zenon
  <2>3. CASE a = FALSE /\ n < MaxInfos
    BY <2>3, Zenon
  <2> QED BY <2>2, <2>3, Zenon
<1> DEFINE v == Lost(j)
           w == Disturbed(q)
<1>1. /\ v \in [Parts -> Jobs]
      /\ \A p \in Parts : /\ v[p].pc = j[p].pc /\ v[p].info = j[p].info /\ v[p].quiet = j[p].quiet /\ ~ v[p].same
  <2>1. ASSUME NEW x \in Jobs
        PROVE  LET u == [x EXCEPT !.same = FALSE]
               IN  u \in Jobs /\ u.pc = x.pc /\ u.info = x.info /\ u.quiet = x.quiet /\ ~ u.same
    BY DEF Jobs
  <2> QED BY <2>1, Zenon DEF Consistent, Types, Lost
<1>2. /\ w \in [Readers -> Queries]
      /\ \A r \in Readers : /\ w[r].pc = q[r].pc /\ w[r].info = q[r].info /\ w[r].got = q[r].got
                            /\ w[r].due = q[r].due /\ w[r].whole = q[r].whole /\ (w[r].pc \in {"meta", "get"} => ~ w[r].calm)
  <2>1. ASSUME NEW x \in Queries
        PROVE  LET u == [x EXCEPT !.calm = @ /\ x.pc \notin {"meta", "get"}]
               IN  /\ u \in Queries /\ u.pc = x.pc /\ u.info = x.info /\ u.got = x.got /\ u.due = x.due
                   /\ u.whole = x.whole /\ (u.pc \in {"meta", "get"} => ~ u.calm)
    BY DEF Queries
  <2> QED BY <2>1, Zenon DEF Consistent, Types, Disturbed
<1>3. \A p \in Parts : Told(v[p]) = Told(j[p]) /\ Removing(v[p]) = Removing(j[p])
                       /\ Stored(v[p]) = Stored(j[p]) /\ Known(v[p], n) = Known(j[p], n)
  BY <1>1, Zenon DEF Told, Removing, Stored, Known
<1> HIDE DEF v, w
<1>4. n \in 1 .. MaxInfos /\ b[n] \in {s[n], "uninit"}
  BY Zenon DEF Consistent, Types
<1>5. Types(k, Nothing, c, {}, n, a, b, v, w) /\ InfosOK(n, a, b) /\ MapOK(Nothing, c, n, a, b[n], v)
  BY <1>0, <1>1, <1>2, Zenon DEF Consistent, Types, InfosOK, MapOK
<1>6. Owned(b, w)
  <2>1. ASSUME NEW i \in 1 .. MaxInfos, NEW r \in Readers, b[i] = r PROVE w[r].pc \in {"load", "merge"} /\ w[r].info = i
    <3>1. s[i] = r
      BY <2>1, Constants, Zenon
    <3> QED BY <1>2, <3>1, Zenon DEF Consistent, Owned
  <2> QED BY <2>1, Zenon DEF Owned
<1>7. ASSUME NEW p \in Parts PROVE JobOK(p, k[p], Nothing, c, n, a, v[p])
  BY <1>0, <1>1, <1>3, Zenon DEF Consistent, JobOK
<1>8. ASSUME NEW r \in Readers
      PROVE  QueryOK(w[r], Nothing, c, n, v) /\ LoaderOK(r, w[r], Nothing, c, {}, n, a, b[n], v)
  <2>0. QueryOK(q[r], m, c, n, j)
    BY Zenon DEF Consistent
  <2>1. QueryOK(w[r], Nothing, c, n, v)
    BY <1>1, <1>2, <1>3, <2>0, ZenonT(60) DEF QueryOK, Full, IsRunning
  <2>2. LoaderOK(r, w[r], Nothing, c, {}, n, a, b[n], v)
    BY <1>0, <1>2, Zenon DEF LoaderOK
  <2> QED BY <2>1, <2>2, Zenon
<1> QED BY <1>5, <1>6, <1>7, <1>8, Zenon DEF Consistent, v, w

(* Without a map a status may become uninit.                                *)
LEMMA Unloads ==
  ASSUME NEW k, NEW c, NEW y, NEW n, NEW l, NEW s, NEW j, NEW q,
         Consistent(k, Nothing, c, y, n, l, s, j, q), NEW i \in 1 .. MaxInfos
  PROVE  Consistent(k, Nothing, c, y, n, l, [s EXCEPT ![i] = "uninit"], j, q)
<1> DEFINE b == [s EXCEPT ![i] = "uninit"]
<1>1. /\ b \in [1 .. MaxInfos -> {"uninit", "loaded"} \cup Readers] /\ n \in 1 .. MaxInfos
      /\ \A t \in 1 .. MaxInfos : b[t] = s[t] \/ b[t] = "uninit"
  BY Zenon DEF Consistent, Types
<1> HIDE DEF b
<1>2. Types(k, Nothing, c, y, n, l, b, j, q) /\ InfosOK(n, l, b) /\ MapOK(Nothing, c, n, l, b[n], j)
  BY <1>1, Zenon DEF Consistent, Types, InfosOK, MapOK
<1>3. Owned(b, q)
  <2>1. ASSUME NEW t \in 1 .. MaxInfos, NEW r \in Readers, b[t] = r PROVE q[r].pc \in {"load", "merge"} /\ q[r].info = t
    <3>1. s[t] = r
      BY <1>1, <2>1, Constants, Zenon
    <3> QED BY <3>1, Zenon DEF Consistent, Owned
  <2> QED BY <2>1, Zenon DEF Owned
<1>4. ASSUME NEW r \in Readers PROVE LoaderOK(r, q[r], Nothing, c, y, n, l, b[n], j)
  <2>1. LoaderOK(r, q[r], Nothing, c, y, n, l, s[n], j) /\ b[n] \in {s[n], "uninit"}
    BY <1>1, Zenon DEF Consistent
  <2> QED BY <2>1, Constants, Zenon DEF LoaderOK
<1> QED BY <1>2, <1>3, <1>4, Zenon DEF Consistent, b

(* The transaction of one part moves.  What the map has to have of the part *)
(* does not grow, or is in the map.                                         *)
LEMMA JobMoves ==
  ASSUME NEW k, NEW m, NEW c, NEW y, NEW n, NEW l, NEW s, NEW j, NEW q,
         NEW p \in Parts, NEW v \in 0 .. 2, NEW w \in Jobs,
         Consistent(k, m, c, y, n, l, s, j, q),
         JobOK(p, v, m, c, n, l, w),
         Removing(j[p]) => Removing(w),
         Told(w) >= Told(j[p]) \/ Removing(w),
         w.quiet => j[p].quiet \/ \A r \in Readers : q[r].pc # "merge",
         \/ c \/ ~ l \/ s[n] = "uninit"
         \/ Known(j[p], n) >= Known(w, n)
         \/ m # Nothing /\ m[p] >= Known(w, n)
  PROVE  Consistent([k EXCEPT ![p] = v], m, c, y, n, l, s, [j EXCEPT ![p] = w], q)
<1> DEFINE e == [k EXCEPT ![p] = v]
           f == [j EXCEPT ![p] = w]
<1>0. k \in Maps /\ j \in [Parts -> Jobs] /\ q \in [Readers -> Queries] /\ m \in Maps \cup {Nothing}
  BY Zenon DEF Consistent, Types
<1>1. e \in Maps /\ e[p] = v /\ \A o \in Parts : o # p => e[o] = k[o]
  BY <1>0, Zenon DEF Maps
<1>2. f \in [Parts -> Jobs] /\ f[p] = w /\ \A o \in Parts : o # p => f[o] = j[o]
  BY <1>0, Zenon
<1> HIDE DEF e, f
<1>3. \A o \in Parts : /\ Told(j[o]) \in 0 .. 2 /\ Told(f[o]) \in 0 .. 2
                       /\ Known(j[o], n) \in 0 .. 2 /\ Known(f[o], n) \in 0 .. 2
  BY <1>0, <1>2, Amounts, Zenon
<1>4. \A o \in Parts : /\ Removing(j[o]) => Removing(f[o])
                       /\ Told(f[o]) >= Told(j[o]) \/ Removing(f[o])
  BY <1>2, <1>3, Levels, Zenon
<1>5. \A o \in Parts : m # Nothing => m[o] \in 0 .. 2
  BY <1>0, Zenon DEF Maps
<1>6. Types(e, m, c, y, n, l, s, f, q)
  BY <1>1, <1>2, Zenon DEF Consistent, Types
<1>7. MapOK(m, c, n, l, s[n], f)
  BY <1>2, <1>3, <1>5, Levels, Zenon DEF Consistent, MapOK
<1>8. ASSUME NEW o \in Parts PROVE JobOK(o, e[o], m, c, n, l, f[o])
  BY <1>1, <1>2, Zenon DEF Consistent
<1>9. ASSUME NEW r \in Readers
      PROVE  QueryOK(q[r], m, c, n, f) /\ LoaderOK(r, q[r], m, c, y, n, l, s[n], f)
  <2>0. /\ QueryOK(q[r], m, c, n, j) /\ LoaderOK(r, q[r], m, c, y, n, l, s[n], j)
        /\ \A o \in Parts : q[r].due[o] \in 0 .. 2 /\ q[r].got[o] \in 0 .. 2
    BY <1>0, Zenon DEF Consistent, Queries, Maps
  <2>1. ASSUME NEW o \in Parts PROVE Told(f[o]) >= q[r].due[o] \/ Removing(f[o])
    <3>1. Told(j[o]) >= q[r].due[o] \/ Removing(j[o])
      BY <2>0, Zenon DEF QueryOK
    <3> QED BY <1>3, <1>4, <2>0, <3>1, Levels, Zenon
  <2>2. q[r].pc = "merge" => \A o \in Parts : Full(q[r], q[r].got, o, f[o]) /\ (f[o].quiet => q[r].got[o] = 0)
    BY <1>2, <1>4, <2>0, Zenon DEF QueryOK, Full
  <2>3. ~ c /\ q[r].pc = "get" /\ q[r].calm => m # Nothing /\ \A o \in Parts : Full(q[r], m, o, f[o])
    BY <1>4, <2>0, Zenon DEF QueryOK, Full
  <2>4. QueryOK(q[r], m, c, n, f)
    BY <2>0, <2>1, <2>2, <2>3, Zenon DEF QueryOK
  <2>5. ASSUME ~ c, l, s[n] = r, q[r].pc = "merge", NEW o \in Parts
        PROVE  q[r].got[o] >= Known(f[o], n) \/ (m # Nothing /\ m[o] >= Known(f[o], n))
    <3>1. q[r].got[o] >= Known(j[o], n) \/ (m # Nothing /\ m[o] >= Known(j[o], n))
      BY <2>0, <2>5, Zenon DEF LoaderOK
    <3>2. CASE o # p
      BY <1>2, <3>1, <3>2, Zenon
    <3>3. CASE o = p
      <4>1. s[n] # "uninit"
        BY <2>5, Constants, Zenon
      <4>2. CASE Known(j[p], n) >= Known(w, n)
        BY <1>2, <1>3, <1>5, <2>0, <3>1, <3>3, <4>2, Levels, Zenon
      <4>3. CASE m # Nothing /\ m[p] >= Known(w, n)
        BY <1>2, <3>3, <4>3, Zenon
      <4> QED BY <2>5, <4>1, <4>2, <4>3, Zenon
    <3> QED BY <3>2, <3>3, Zenon
  <2>6. LoaderOK(r, q[r], m, c, y, n, l, s[n], f)
    BY <2>0, <2>5, Zenon DEF LoaderOK
  <2> QED BY <2>4, <2>6, Zenon
<1> QED BY <1>6, <1>7, <1>8, <1>9, Zenon DEF Consistent, e, f

(* Parts are put into the map: it keeps what it has to have, and gets       *)
(* nothing of a quiet removal.                                              *)
LEMMA MapGets ==
  ASSUME NEW k, NEW m, NEW c, NEW y, NEW n, NEW l, NEW s, NEW j, NEW q,
         Consistent(k, m, c, y, n, l, s, j, q), NEW x \in Maps,
         c \/ (l /\ s[n] # "uninit" /\ (m = Nothing => s[n] # "loaded")),
         \A p \in Parts : m # Nothing => x[p] >= m[p] \/ x[p] >= Known(j[p], n),
         \A p \in Parts : j[p].quiet /\ j[p].pc # "removed" /\ (m # Nothing => m[p] = 0 \/ j[p].same)
                            => x[p] = 0 \/ j[p].same
  PROVE  Consistent(k, x, c, {r \in Readers : IsRunning(q[r])}, n, l, s, j, q)
<1> DEFINE z == {r \in Readers : IsRunning(q[r])}
<1>0. /\ j \in [Parts -> Jobs] /\ q \in [Readers -> Queries] /\ m \in Maps \cup {Nothing} /\ n \in 1 .. MaxInfos
      /\ z \subseteq Readers /\ \A r \in Readers : IsRunning(q[r]) => r \in z
  BY Zenon DEF Consistent, Types
<1> HIDE DEF z
<1>1. x # Nothing /\ \A p \in Parts : x[p] \in 0 .. 2 /\ (m # Nothing => m[p] \in 0 .. 2)
  BY <1>0, Constants, Zenon DEF Maps
<1>2. \A p \in Parts : Told(j[p]) \in 0 .. 2 /\ Known(j[p], n) \in 0 .. 2 /\ Known(j[p], n) >= Told(j[p])
  BY <1>0, Amounts, Zenon
<1>3. Types(k, x, c, z, n, l, s, j, q)
  BY <1>0, Zenon DEF Consistent, Types
<1>4. MapOK(x, c, n, l, s[n], j)
  <2>1. ASSUME ~ c, s[n] = "loaded", NEW p \in Parts PROVE x[p] >= Known(j[p], n)
    <3>1. m # Nothing /\ m[p] >= Known(j[p], n)
      BY <2>1, Zenon DEF Consistent, MapOK
    <3> QED BY <1>1, <1>2, <3>1, Levels, Zenon
  <2> QED BY <2>1, Zenon DEF MapOK
<1>5. ASSUME NEW p \in Parts PROVE JobOK(p, k[p], x, c, n, l, j[p])
  BY <1>1, Zenon DEF Consistent, JobOK
<1>6. ASSUME NEW r \in Readers
      PROVE  QueryOK(q[r], x, c, n, j) /\ LoaderOK(r, q[r], x, c, z, n, l, s[n], j)
  <2>0. /\ QueryOK(q[r], m, c, n, j) /\ LoaderOK(r, q[r], m, c, y, n, l, s[n], j)
        /\ \A o \in Parts : q[r].due[o] \in 0 .. 2 /\ q[r].got[o] \in 0 .. 2
    BY <1>0, Zenon DEF Consistent, Queries, Maps
  <2>1. ASSUME ~ c, q[r].pc = "get", q[r].calm, NEW p \in Parts PROVE Full(q[r], x, p, j[p])
    <3>1. m # Nothing /\ Full(q[r], m, p, j[p]) /\ (Told(j[p]) >= q[r].due[p] \/ Removing(j[p]))
      BY <2>0, <2>1, Zenon DEF QueryOK
    <3>2. CASE x[p] >= m[p]
      BY <1>1, <2>0, <3>1, <3>2, Levels, Zenon DEF Full
    <3>3. CASE x[p] >= Known(j[p], n)
      <4>1. x[p] >= Told(j[p])
        BY <1>1, <1>2, <3>3, Levels, Zenon
      <4> QED BY <1>1, <1>2, <2>0, <3>1, <4>1, Levels, Zenon DEF Full
    <3> QED BY <3>1, <3>2, <3>3, Zenon
  <2>2. QueryOK(q[r], x, c, n, j)
    BY <1>1, <2>0, <2>1, Zenon DEF QueryOK
  <2>3. s[n] = r \/ q[r].pc = "mark" => r \in z
    BY <1>0, Zenon DEF Consistent, Owned, IsRunning
  <2>4. ASSUME ~ c, l, s[n] = r, q[r].pc = "merge", NEW p \in Parts
        PROVE  q[r].got[p] >= Known(j[p], n) \/ x[p] >= Known(j[p], n)
    <3>1. q[r].got[p] >= Known(j[p], n) \/ (m # Nothing /\ m[p] >= Known(j[p], n))
      BY <2>0, <2>4, Zenon DEF LoaderOK
    <3> QED BY <1>1, <1>2, <3>1, Levels, Zenon
  <2>5. LoaderOK(r, q[r], x, c, z, n, l, s[n], j)
    BY <1>1, <2>0, <2>3, <2>4, Zenon DEF LoaderOK
  <2> QED BY <2>2, <2>5, Zenon
<1> QED BY <1>3, <1>4, <1>5, <1>6, Zenon DEF Consistent, z

(* A remover takes its part out of the map it looked up.                    *)
LEMMA MapLoses ==
  ASSUME NEW k, NEW m, NEW c, NEW y, NEW n, NEW l, NEW s, NEW j, NEW q,
         Consistent(k, m, c, y, n, l, s, j, q), NEW p \in Parts, j[p].same
  PROVE  Consistent(k, [m EXCEPT ![p] = 0], c, y, n, l, s, j, q)
<1> DEFINE x == [m EXCEPT ![p] = 0]
<1>0. /\ j \in [Parts -> Jobs] /\ q \in [Readers -> Queries] /\ m \in Maps \cup {Nothing}
      /\ m # Nothing /\ j[p].pc = "erase"
  BY Zenon DEF Consistent, Types, JobOK
<1>1. x \in Maps /\ x[p] = 0 /\ \A o \in Parts : o # p => x[o] = m[o]
  BY <1>0, Levels, Zenon DEF Maps
<1>2. x # Nothing
  BY <1>1, Constants, Zenon
<1> HIDE DEF x
<1>3. Removing(j[p]) /\ Known(j[p], n) = 0
  BY <1>0, Amounts, Zenon DEF Removing
<1>33. \A a \in 0 .. 2 : a >= Known(j[p], n)
  BY <1>3, Levels, Zenon
<1>4. Types(k, x, c, y, n, l, s, j, q)
  BY <1>1, Zenon DEF Consistent, Types
<1>5. MapOK(x, c, n, l, s[n], j)
  <2>1. ASSUME ~ c, s[n] = "loaded", NEW o \in Parts PROVE x[o] >= Known(j[o], n)
    <3>1. m[o] >= Known(j[o], n)
      BY <1>0, <2>1, Zenon DEF Consistent, MapOK
    <3>2. x[p] \in 0 .. 2
      BY <1>1, Levels, Zenon
    <3> QED BY <1>1, <1>33, <3>1, <3>2, Zenon
  <2> QED BY <1>0, <2>1, Zenon DEF Consistent, MapOK
<1>6. ASSUME NEW o \in Parts PROVE JobOK(o, k[o], x, c, n, l, j[o])
  BY <1>0, <1>1, <1>2, Zenon DEF Consistent, JobOK
<1>7. ASSUME NEW r \in Readers
      PROVE  QueryOK(q[r], x, c, n, j) /\ LoaderOK(r, q[r], x, c, y, n, l, s[n], j)
  <2>0. /\ QueryOK(q[r], m, c, n, j) /\ LoaderOK(r, q[r], m, c, y, n, l, s[n], j)
        /\ \A o \in Parts : q[r].got[o] \in 0 .. 2
    BY <1>0, Zenon DEF Consistent, Queries, Maps
  <2>1. QueryOK(q[r], x, c, n, j)
    BY <1>1, <1>2, <1>3, <2>0, Zenon DEF QueryOK, Full
  <2>2. LoaderOK(r, q[r], x, c, y, n, l, s[n], j)
    <3>1. ASSUME ~ c, l, s[n] = r, q[r].pc = "merge", NEW o \in Parts
          PROVE  q[r].got[o] >= Known(j[o], n) \/ x[o] >= Known(j[o], n)
      <4>1. q[r].got[o] >= Known(j[o], n) \/ m[o] >= Known(j[o], n)
        BY <2>0, <3>1, Zenon DEF LoaderOK
      <4> QED BY <1>1, <1>33, <2>0, <4>1, Zenon
    <3> QED BY <1>0, <1>2, <2>0, <3>1, Zenon DEF LoaderOK
  <2> QED BY <2>1, <2>2, Zenon
<1> QED BY <1>4, <1>5, <1>6, <1>7, Zenon DEF Consistent, x

(* A load ends: the status becomes loaded.                                  *)
LEMMA Loads ==
  ASSUME NEW k, NEW m, NEW c, NEW y, NEW n, NEW l, NEW s, NEW j, NEW q,
         Consistent(k, m, c, y, n, l, s, j, q), NEW i \in 1 .. MaxInfos, NEW r \in Readers, s[i] = r,
         c \/ (i = n /\ l /\ (\A p \in Parts : m[p] >= Known(j[p], n)) /\ \A t \in Readers : IsRunning(q[t]) => t \in y)
  PROVE  Consistent(k, m, c, y, n, l, [s EXCEPT ![i] = "loaded"], j, q)
<1> DEFINE b == [s EXCEPT ![i] = "loaded"]
<1>0. s \in [1 .. MaxInfos -> {"uninit", "loaded"} \cup Readers] /\ n \in 1 .. MaxInfos
  BY Zenon DEF Consistent, Types
<1>1. /\ b \in [1 .. MaxInfos -> {"uninit", "loaded"} \cup Readers]
      /\ b[i] = "loaded" /\ \A t \in 1 .. MaxInfos : t # i => b[t] = s[t]
  BY <1>0, Zenon
<1> HIDE DEF b
<1>2. ~ (i > n)
  <2>1. q[r].info = i /\ q[r].info <= n
    BY Zenon DEF Consistent, Owned, QueryOK
  <2> QED BY <1>0, <2>1, Constants
<1>3. Types(k, m, c, y, n, l, b, j, q) /\ InfosOK(n, l, b)
  BY <1>1, <1>2, Zenon DEF Consistent, Types, InfosOK
<1>4. MapOK(m, c, n, l, b[n], j)
  BY <1>1, Zenon DEF MapOK
<1>5. Owned(b, q)
  <2>1. ASSUME NEW t \in 1 .. MaxInfos, NEW u \in Readers, b[t] = u PROVE q[u].pc \in {"load", "merge"} /\ q[u].info = t
    <3>1. t # i
      BY <1>1, <2>1, Constants, Zenon
    <3> QED BY <1>1, <2>1, <3>1, Zenon DEF Consistent, Owned
  <2> QED BY <2>1, Zenon DEF Owned
<1>6. ASSUME NEW t \in Readers PROVE LoaderOK(t, q[t], m, c, y, n, l, b[n], j)
  <2>1. LoaderOK(t, q[t], m, c, y, n, l, s[n], j)
    BY Zenon DEF Consistent
  <2> QED BY <1>1, <2>1, Constants, Zenon DEF LoaderOK, IsRunning
<1> QED BY <1>3, <1>4, <1>5, <1>6, Zenon DEF Consistent, b

(* A query announces its load.                                              *)
LEMMA Marks ==
  ASSUME NEW k, NEW m, NEW c, NEW y, NEW n, NEW l, NEW s, NEW j, NEW q,
         Consistent(k, m, c, y, n, l, s, j, q), NEW i \in 1 .. MaxInfos, NEW r \in Readers, s[i] \notin Readers,
         q[r].pc = "load", q[r].info = i, ~ c /\ i = n /\ m # Nothing => r \in y
  PROVE  Consistent(k, m, c, y, n, l, [s EXCEPT ![i] = r], j, q)
<1> DEFINE b == [s EXCEPT ![i] = r]
<1>0. s \in [1 .. MaxInfos -> {"uninit", "loaded"} \cup Readers] /\ n \in 1 .. MaxInfos
  BY Zenon DEF Consistent, Types
<1>1. /\ b \in [1 .. MaxInfos -> {"uninit", "loaded"} \cup Readers]
      /\ b[i] = r /\ \A t \in 1 .. MaxInfos : t # i => b[t] = s[t]
  BY <1>0, Zenon
<1> HIDE DEF b
<1>2. ~ (i > n)
  <2>1. q[r].info = i /\ q[r].info <= n
    BY Zenon DEF Consistent, QueryOK
  <2> QED BY <1>0, <2>1, Constants
<1>3. Types(k, m, c, y, n, l, b, j, q) /\ InfosOK(n, l, b)
  BY <1>1, <1>2, Zenon DEF Consistent, Types, InfosOK
<1>4. MapOK(m, c, n, l, b[n], j)
  <2>1. CASE i = n
    BY <1>1, <2>1, Constants, Zenon DEF Consistent, MapOK
  <2>2. CASE i # n
    BY <1>0, <1>1, <2>2, Zenon DEF Consistent
  <2> QED BY <2>1, <2>2, Zenon
<1>5. Owned(b, q)
  <2>1. ASSUME NEW t \in 1 .. MaxInfos, NEW u \in Readers, b[t] = u PROVE q[u].pc \in {"load", "merge"} /\ q[u].info = t
    <3>1. CASE t = i
      BY <1>1, <2>1, <3>1, Zenon
    <3>2. CASE t # i
      BY <1>1, <2>1, <3>2, Zenon DEF Consistent, Owned
    <3> QED BY <3>1, <3>2, Zenon
  <2> QED BY <2>1, Zenon DEF Owned
<1>6. ASSUME NEW t \in Readers PROVE LoaderOK(t, q[t], m, c, y, n, l, b[n], j)
  <2>1. CASE i = n
    <3>1. LoaderOK(t, q[t], m, c, y, n, l, s[n], j)
      BY Zenon DEF Consistent
    <3> QED BY <1>1, <2>1, <3>1, Constants, Zenon DEF LoaderOK
  <2>2. CASE i # n
    BY <1>0, <1>1, <2>2, Zenon DEF Consistent
  <2> QED BY <2>1, <2>2, Zenon
<1> QED BY <1>3, <1>4, <1>5, <1>6, Zenon DEF Consistent, b

-----------------------------------------------------------------------------
(* Facts about one query and one part.                                      *)
LEMMA QueryFacts ==
  ASSUME CacheOK, NEW r \in Readers
  PROVE  /\ reader[r] \in Queries /\ reader[r].info \in 0 .. MaxInfos
         /\ QueryOK(reader[r], map, crossed, info, job)
         /\ LoaderOK(r, reader[r], map, crossed, young, info, live, status[info], job)
         /\ \A i \in 1 .. MaxInfos : status[i] = r => reader[r].pc \in {"load", "merge"} /\ reader[r].info = i
  BY Zenon DEF CacheOK, Consistent, Types, Owned, Queries

LEMMA RunningFacts ==
  ASSUME CacheOK, NEW r \in Readers, Running(r), reader[r].pc # "meta"
  PROVE  /\ reader[r].info \in 1 .. MaxInfos /\ reader[r].info <= info
         /\ reader[r].info = Touched => live /\ reader[r].info = info
<1>1. reader[r].info \in 0 .. MaxInfos /\ reader[r].info > 0 /\ reader[r].info <= info
  BY QueryFacts, Zenon DEF QueryOK, Running
<1>2. info \in 1 .. MaxInfos /\ live \in BOOLEAN
  BY Zenon DEF CacheOK, Consistent, Types
<1>3. reader[r].info \in 1 .. MaxInfos /\ reader[r].info # info + 1
  BY <1>1, <1>2, Constants
<1> QED BY <1>1, <1>2, <1>3, Zenon DEF Touched

LEMMA JobFacts ==
  ASSUME CacheOK, NEW p \in Parts
  PROVE  /\ job[p] \in Jobs /\ job[p].info \in 0 .. MaxInfos /\ kv[p] \in 0 .. 2
         /\ JobOK(p, kv[p], map, crossed, info, live, job[p])
         /\ [kv EXCEPT ![p] = kv[p]] = kv
<1>1. job \in [Parts -> Jobs] /\ kv \in Maps /\ JobOK(p, kv[p], map, crossed, info, live, job[p])
  BY Zenon DEF CacheOK, Consistent, Types
<1>2. [kv EXCEPT ![p] = kv[p]] = kv
  BY <1>1 DEF Maps
<1> QED BY <1>1, <1>2, Zenon DEF Jobs, Maps

LEMMA JobInfo ==
  ASSUME CacheOK, NEW p \in Parts, job[p].pc \in {"lock1", "lock2", "erase"}
  PROVE  /\ job[p].info \in 1 .. MaxInfos /\ job[p].info <= info
         /\ job[p].info = Touched => live /\ job[p].info = info
<1>1. job[p].info \in 0 .. MaxInfos /\ job[p].info > 0 /\ job[p].info <= info
  BY JobFacts, Zenon DEF JobOK
<1>2. info \in 1 .. MaxInfos /\ live \in BOOLEAN
  BY Zenon DEF CacheOK, Consistent, Types
<1>3. job[p].info \in 1 .. MaxInfos /\ job[p].info # info + 1
  BY <1>1, <1>2, Constants
<1> QED BY <1>1, <1>2, <1>3, Zenon DEF Touched

LEMMA NoQueryType ==
  /\ Empty \in Maps /\ \A p \in Parts : Empty[p] = 0
  /\ \A w \in BOOLEAN : LET v == [NoQuery EXCEPT !.pc = "done", !.whole = w]
                        IN  v \in Queries /\ v.pc = "done" /\ v.info = 0 /\ v.due = Empty /\ v.whole = w
  /\ LET v == [NoQuery EXCEPT !.pc = "done"]
     IN  v \in Queries /\ v.pc = "done" /\ v.info = 0 /\ v.due = Empty /\ v.whole = TRUE
<1>1. Empty \in Maps /\ \A p \in Parts : Empty[p] = 0
  BY Levels, Zenon DEF Empty, Maps
<1>2. 0 \in 0 .. MaxInfos
  BY Constants
<1>3. NoQuery \in Queries /\ NoQuery.info = 0 /\ NoQuery.due = Empty /\ NoQuery.whole = TRUE
  BY <1>1, <1>2, Zenon DEF NoQuery, Queries
<1>4. ASSUME NEW x \in Queries, NEW w \in BOOLEAN
      PROVE  /\ LET v == [x EXCEPT !.pc = "done", !.whole = w]
                IN  v \in Queries /\ v.pc = "done" /\ v.info = x.info /\ v.due = x.due /\ v.whole = w
             /\ LET v == [x EXCEPT !.pc = "done"]
                IN  v \in Queries /\ v.pc = "done" /\ v.info = x.info /\ v.due = x.due /\ v.whole = x.whole
  BY DEF Queries
<1>5. ASSUME NEW w \in BOOLEAN
      PROVE  LET v == [NoQuery EXCEPT !.pc = "done", !.whole = w]
             IN  v \in Queries /\ v.pc = "done" /\ v.info = 0 /\ v.due = Empty /\ v.whole = w
  BY <1>3 DEF Queries
<1>6. LET v == [NoQuery EXCEPT !.pc = "done"]
      IN  v \in Queries /\ v.pc = "done" /\ v.info = 0 /\ v.due = Empty /\ v.whole = TRUE
  <2>1. TRUE \in BOOLEAN
    OBVIOUS
  <2> QED BY <1>3, <1>4, <2>1, Zenon
<1> QED BY <1>1, <1>5, <1>6, Zenon

(* A query ends.                                                            *)
LEMMA Ends ==
  ASSUME NEW k, NEW m, NEW c, NEW y, NEW n, NEW l, NEW s, NEW j, NEW q,
         Consistent(k, m, c, y, n, l, s, j, q), NEW r \in Readers, \A i \in 1 .. MaxInfos : s[i] # r,
         NEW v \in Queries, v.pc = "done", v.info = 0, v.due = Empty, c \/ v.whole
  PROVE  Consistent(k, m, c, y, n, l, s, j, [q EXCEPT ![r] = v])
<1>1. n \in 1 .. MaxInfos /\ j \in [Parts -> Jobs]
  BY Zenon DEF Consistent, Types
<1>2. 0 <= n
  BY <1>1
<1>3. \A p \in Parts : Told(j[p]) >= v.due[p]
  <2>1. ASSUME NEW p \in Parts PROVE Told(j[p]) >= v.due[p]
    <3>1. Told(j[p]) \in 0 .. 2 /\ v.due[p] = 0
      BY <1>1, Amounts, NoQueryType, Zenon
    <3> QED BY <3>1, Levels, Zenon
  <2> QED BY <2>1, Zenon
<1>4. QueryOK(v, m, c, n, j)
  BY <1>2, <1>3, Zenon DEF QueryOK, IsRunning
<1>5. LoaderOK(r, v, m, c, y, n, l, s[n], j)
  BY <1>1, Zenon DEF LoaderOK
<1> QED BY <1>4, <1>5, QueryMoves, Zenon

(* A query goes on, before it loads or to its load.                         *)
LEMMA GoesOn ==
  ASSUME CacheOK, NEW r \in Readers,
         reader[r].pc \in {"check", "get", "mark", "wait", "fetched"},
         NEW v \in Queries, v.pc \in {"check", "mark", "wait", "fetched", "load"},
         v.info = reader[r].info, v.due = reader[r].due, v.whole = reader[r].whole,
         v.pc = "mark" => map = Nothing \/ status[v.info] # "loaded"
  PROVE  Consistent(kv, map, crossed, young, info, live, status, job, [reader EXCEPT ![r] = v])
<1>1. \A i \in 1 .. MaxInfos : status[i] # r
  BY QueryFacts, Zenon
<1>2. info \in 1 .. MaxInfos
  BY Zenon DEF CacheOK, Consistent, Types
<1>3. QueryOK(v, map, crossed, info, job)
  BY QueryFacts, Zenon DEF QueryOK, IsRunning
<1>4. LoaderOK(r, v, map, crossed, young, info, live, status[info], job)
  BY <1>1, <1>2, Zenon DEF LoaderOK
<1> QED BY <1>1, <1>3, <1>4, QueryMoves, Zenon DEF CacheOK

(* The same for a step that only changes where the query is.                *)
LEMMA StepsOn ==
  ASSUME CacheOK, NEW r \in Readers,
         reader[r].pc \in {"check", "get", "mark", "wait", "fetched"},
         NEW a \in {"check", "mark", "wait", "fetched"}, Step(r, a),
         a = "mark" => map = Nothing \/ status[reader[r].info] # "loaded",
         UNCHANGED <<kv, map, crossed, young, info, live, status, job>>
  PROVE  CacheOK'
<1> DEFINE v == [reader[r] EXCEPT !.pc = a]
<1>1. v \in Queries /\ v.pc = a /\ v.info = reader[r].info /\ v.due = reader[r].due /\ v.whole = reader[r].whole
  <2>1. reader[r] \in Queries
    BY QueryFacts, Zenon
  <2> QED BY <2>1 DEF Queries
<1>2. reader' = [reader EXCEPT ![r] = v]
  BY Zenon DEF Step
<1> HIDE DEF v
<1> QED BY <1>1, <1>2, GoesOn, Zenon DEF CacheOK

-----------------------------------------------------------------------------
(* The steps of a query.                                                    *)
LEMMA BeginKeeps ==
  ASSUME CacheOK, TableOK, NEW r \in Readers, Begin(r)
  PROVE  CacheOK'
<1> DEFINE due == [p \in Parts |-> Told(job[p])]
           calm == table = "loaded"
<1>1. PICK b \in BOOLEAN : reader' = [reader EXCEPT ![r] = [reader[r] EXCEPT !.pc = "meta", !.alone = b, !.calm = calm, !.due = due]]
  BY Zenon DEF Begin
<1>2. job \in [Parts -> Jobs] /\ info \in 1 .. MaxInfos
  BY Zenon DEF CacheOK, Consistent, Types
<1>3. due \in Maps /\ \A p \in Parts : due[p] = Told(job[p]) /\ Told(job[p]) >= due[p]
  <2>1. \A p \in Parts : Told(job[p]) \in 0 .. 2
    BY <1>2, Amounts, Zenon
  <2> QED BY <2>1, Levels, Zenon DEF Maps
<1>4. calm \in BOOLEAN /\ (calm => live)
  BY Zenon DEF TableOK
<1> HIDE DEF due, calm
<1> DEFINE v == [reader[r] EXCEPT !.pc = "meta", !.alone = b, !.calm = calm, !.due = due]
<1>5. /\ v \in Queries /\ v.pc = "meta" /\ v.info = reader[r].info /\ v.due = due
      /\ v.calm = calm /\ v.whole = reader[r].whole
  <2>1. reader[r] \in Queries
    BY QueryFacts, Zenon
  <2> QED BY <1>3, <1>4, <2>1 DEF Queries
<1> HIDE DEF v
<1>6. \A i \in 1 .. MaxInfos : status[i] # r
  BY QueryFacts, Zenon DEF Begin
<1>7. QueryOK(v, map, crossed, info, job)
  BY <1>3, <1>5, QueryFacts, Zenon DEF QueryOK
<1>8. LoaderOK(r, v, map, crossed, young, info, live, status[info], job)
  BY <1>2, <1>4, <1>5, <1>6, Zenon DEF LoaderOK
<1>9. Consistent(kv, map, crossed, young, info, live, status, job, [reader EXCEPT ![r] = v])
  BY <1>5, <1>6, <1>7, <1>8, QueryMoves, Zenon DEF CacheOK
<1> QED BY <1>1, <1>9, Zenon DEF Begin, cacheVars, tableVars, CacheOK, v

(* The map is complete for a query that finds it loaded and current.        *)
LEMMA ServedFull ==
  ASSUME CacheOK, NEW r \in Readers, Running(r), reader[r].pc # "meta", ~ crossed, map # Nothing,
         reader[r].info = Touched, status[reader[r].info] = "loaded"
  PROVE  \A p \in Parts : Full(reader[r], map, p, job[p])
<1> SUFFICES ASSUME NEW p \in Parts PROVE Full(reader[r], map, p, job[p])
  OBVIOUS
<1>1. reader[r].info = info
  BY RunningFacts, Zenon
<1>2. map[p] >= Known(job[p], info)
  BY <1>1, Zenon DEF CacheOK, Consistent, MapOK
<1>3. map[p] \in 0 .. 2 /\ job[p] \in Jobs
  BY Zenon DEF CacheOK, Consistent, Types, Maps
<1>4. reader[r].due[p] \in 0 .. 2
  BY QueryFacts, Zenon DEF Maps, Queries
<1>5. map[p] >= Told(job[p]) /\ Told(job[p]) \in 0 .. 2
  BY <1>2, <1>3, Amounts, Levels, Zenon
<1>6. Told(job[p]) >= reader[r].due[p] \/ Removing(job[p])
  BY QueryFacts, Zenon DEF QueryOK
<1> QED BY <1>3, <1>4, <1>5, <1>6, Levels, ZenonT(60) DEF Full

LEMMA CheckKeeps ==
  ASSUME CacheOK, NEW r \in Readers, Check(r)
  PROVE  CacheOK'
<1>0. reader[r].pc = "check" /\ Running(r)
  BY Zenon DEF Check, cacheVars, tableVars, Running, IsRunning
<1>1. CASE status[reader[r].info] = "loaded"
  <2> DEFINE b == reader[r].info = Touched /\ map # Nothing
             v == [reader[r] EXCEPT !.pc = "get", !.calm = b]
  <2>1. reader' = [reader EXCEPT ![r] = v]
    BY <1>1, Zenon DEF Check, cacheVars, tableVars, Found
  <2>2. b \in BOOLEAN
    BY Zenon
  <2>22. b => map # Nothing /\ live /\ reader[r].info = info
    BY <1>0, RunningFacts, Zenon
  <2> HIDE DEF b
  <2>3. v \in Queries /\ v.pc = "get" /\ v.info = reader[r].info /\ v.due = reader[r].due /\ v.whole = reader[r].whole /\ v.calm = b
    <3>1. reader[r] \in Queries
      BY QueryFacts, Zenon
    <3> QED BY <2>2, <3>1 DEF Queries
  <2> HIDE DEF v
  <2>4. \A i \in 1 .. MaxInfos : status[i] # r
    BY <1>0, QueryFacts, Zenon
  <2>5. ASSUME ~ crossed, b PROVE \A p \in Parts : Full(v, map, p, job[p])
    BY <1>0, <1>1, <2>22, <2>3, <2>5, ServedFull, Zenon DEF Full, b
  <2>6. QueryOK(v, map, crossed, info, job)
    BY <1>0, <2>22, <2>3, <2>5, QueryFacts, Zenon DEF QueryOK, Running, IsRunning
  <2>7. LoaderOK(r, v, map, crossed, young, info, live, status[info], job)
    BY <2>3, <2>4, Zenon DEF LoaderOK, CacheOK, Consistent, Types
  <2> QED BY <2>1, <2>3, <2>4, <2>6, <2>7, QueryMoves, Zenon DEF Check, cacheVars, tableVars, CacheOK
<1>2. CASE status[reader[r].info] # "loaded"
  BY <1>0, <1>2, StepsOn, Zenon DEF Check, cacheVars, tableVars
<1> QED BY <1>1, <1>2, Zenon

(* A query ends with what it has found.                                     *)
LEMMA Returns ==
  ASSUME CacheOK, NEW r \in Readers, reader[r].pc \in {"meta", "get", "fetched"},
         NEW x, NEW calm \in BOOLEAN, Return(r, x, calm),
         ~ crossed /\ calm => \A p \in Parts : Full(reader[r], x, p, job[p]),
         UNCHANGED <<kv, map, crossed, young, info, live, status, job>>
  PROVE  CacheOK'
<1> DEFINE w == (calm => \A p \in Parts : Removing(job[p]) \/ x[p] >= reader[r].due[p])
           v == [NoQuery EXCEPT !.pc = "done", !.whole = w]
<1>1. w \in BOOLEAN /\ (crossed \/ w)
  BY Zenon DEF Full
<1>2. reader' = [reader EXCEPT ![r] = v]
  BY Zenon DEF Return
<1> HIDE DEF w
<1>3. v \in Queries /\ v.pc = "done" /\ v.info = 0 /\ v.due = Empty /\ v.whole = w
  BY <1>1, NoQueryType, Zenon
<1> HIDE DEF v
<1>4. \A i \in 1 .. MaxInfos : status[i] # r
  BY QueryFacts, Zenon
<1> QED BY <1>1, <1>2, <1>3, <1>4, Ends, Zenon DEF CacheOK

(* A query that ends with an exception.                                     *)
LEMMA Throws ==
  ASSUME CacheOK, NEW r \in Readers, reader[r].pc \in {"wait", "fetched"},
         reader' = Throw(reader, r), UNCHANGED <<kv, map, crossed, young, info, live, status, job>>
  PROVE  CacheOK'
<1> DEFINE v == [NoQuery EXCEPT !.pc = "done"]
<1>1. v \in Queries /\ v.pc = "done" /\ v.info = 0 /\ v.due = Empty /\ v.whole
  BY NoQueryType, Zenon
<1>2. reader' = [reader EXCEPT ![r] = v]
  BY Zenon DEF Throw
<1> HIDE DEF v
<1>3. \A i \in 1 .. MaxInfos : status[i] # r
  BY QueryFacts, Zenon
<1>4. Consistent(kv, map, crossed, young, info, live, status, job, [reader EXCEPT ![r] = v])
  BY <1>1, <1>3, Ends, Zenon DEF CacheOK
<1> QED BY <1>2, <1>4, Zenon DEF CacheOK

(* A query that finds no info of its partition is not calm.                 *)
LEMMA MetaKeeps ==
  ASSUME CacheOK, NEW r \in Readers, Meta(r)
  PROVE  CacheOK'
<1>0. /\ reader[r].pc = "meta" /\ UNCHANGED <<kv, map, crossed, young, info, live, status, job>>
      /\ reader[r].calm \in BOOLEAN
  BY QueryFacts, Zenon DEF Meta, cacheVars, tableVars, Queries
<1>1. CASE ~ live
  <2>1. ~ reader[r].calm
    BY <1>0, <1>1, QueryFacts, Zenon DEF LoaderOK
  <2> QED BY <1>0, <1>1, <2>1, Returns, Zenon DEF Meta
<1>2. CASE live
  <2> DEFINE v == [reader[r] EXCEPT !.pc = "check", !.info = info, !.calm = TRUE]
  <2>1. reader' = [reader EXCEPT ![r] = v]
    BY <1>2, Zenon DEF Meta
  <2>2. info \in 1 .. MaxInfos
    BY Zenon DEF CacheOK, Consistent, Types
  <2>3. info \in 0 .. MaxInfos /\ info <= info /\ info > 0
    BY <2>2
  <2>4. v \in Queries /\ v.pc = "check" /\ v.info = info /\ v.due = reader[r].due /\ v.whole = reader[r].whole
    <3>1. reader[r] \in Queries
      BY QueryFacts, Zenon
    <3> QED BY <2>3, <3>1 DEF Queries
  <2> HIDE DEF v
  <2>5. \A i \in 1 .. MaxInfos : status[i] # r
    BY <1>0, QueryFacts, Zenon
  <2>6. QueryOK(v, map, crossed, info, job)
    BY <2>3, <2>4, QueryFacts, Zenon DEF QueryOK
  <2>7. LoaderOK(r, v, map, crossed, young, info, live, status[info], job)
    BY <2>2, <2>4, <2>5, Zenon DEF LoaderOK
  <2>8. Consistent(kv, map, crossed, young, info, live, status, job, [reader EXCEPT ![r] = v])
    BY <2>4, <2>5, <2>6, <2>7, QueryMoves, Zenon DEF CacheOK
  <2> QED BY <1>0, <2>1, <2>8, Zenon DEF CacheOK
<1> QED BY <1>1, <1>2, Zenon

LEMMA GetKeeps ==
  ASSUME CacheOK, NEW r \in Readers, Get(r)
  PROVE  CacheOK'
<1>1. CASE map = Nothing
  BY <1>1, StepsOn, Zenon DEF Get, cacheVars, tableVars
<1>2. CASE map # Nothing
  <2>1. reader[r].calm \in BOOLEAN /\ (~ crossed /\ reader[r].calm => \A p \in Parts : Full(reader[r], map, p, job[p]))
    BY QueryFacts, Zenon DEF QueryOK, Queries, Get, cacheVars, tableVars
  <2> QED BY <1>2, <2>1, Returns, Zenon DEF Get, cacheVars, tableVars
<1> QED BY <1>1, <1>2, Zenon

LEMMA WaitKeeps ==
  ASSUME CacheOK, NEW r \in Readers, Wait(r)
  PROVE  CacheOK'
<1>0. reader[r].pc = "wait" /\ UNCHANGED <<kv, map, crossed, young, info, live, status, job>>
  BY Zenon DEF Wait, cacheVars, tableVars
<1>1. ASSUME NEW a \in {"fetched", "check"}, Step(r, a) PROVE CacheOK'
  BY <1>0, <1>1, StepsOn, Zenon
<1>2. CASE reader' = Throw(reader, r)
  BY <1>0, <1>2, Throws, Zenon
<1> QED BY <1>1, <1>2, Zenon DEF Wait, cacheVars, tableVars

LEMMA FetchedKeeps ==
  ASSUME CacheOK, NEW r \in Readers, Fetched(r)
  PROVE  CacheOK'
<1>0. reader[r].pc = "fetched" /\ Running(r) /\ UNCHANGED <<kv, map, crossed, young, info, live, status, job>>
  BY Zenon DEF Fetched, cacheVars, tableVars, Running, IsRunning
<1>1. CASE status[reader[r].info] # "loaded"
  BY <1>0, <1>1, StepsOn, Zenon DEF Fetched, cacheVars, tableVars
<1>2. CASE status[reader[r].info] = "loaded" /\ map = Nothing
  BY <1>0, <1>2, Throws, Zenon DEF Fetched, cacheVars, tableVars
<1>3. CASE status[reader[r].info] = "loaded" /\ map # Nothing
  <2> DEFINE calm == reader[r].info = Touched
  <2>1. Return(r, map, calm) /\ calm \in BOOLEAN
    BY <1>3, Zenon DEF Fetched, cacheVars, tableVars
  <2>2. ~ crossed /\ calm => \A p \in Parts : Full(reader[r], map, p, job[p])
    BY <1>0, <1>3, ServedFull, Zenon
  <2> HIDE DEF calm
  <2> QED BY <1>0, <2>1, <2>2, Returns, Zenon
<1> QED BY <1>1, <1>2, <1>3, Zenon

LEMMA MarkKeeps ==
  ASSUME CacheOK, NEW r \in Readers, Mark(r)
  PROVE  CacheOK'
<1> DEFINE i == reader[r].info
           v == [reader[r] EXCEPT !.pc = "load", !.alone = TRUE]
<1>0. reader[r].pc = "mark" /\ Running(r) /\ UNCHANGED <<kv, map, crossed, young, info, live, job>>
  BY Zenon DEF Mark, cacheVars, tableVars, Running, IsRunning
<1>1. i \in 1 .. MaxInfos
  BY <1>0, RunningFacts, Zenon
<1>2. v \in Queries /\ v.pc = "load" /\ v.info = reader[r].info /\ v.due = reader[r].due /\ v.whole = reader[r].whole
  <2>1. reader[r] \in Queries
    BY QueryFacts, Zenon
  <2> QED BY <2>1 DEF Queries
<1> HIDE DEF v
<1>3. Consistent(kv, map, crossed, young, info, live, status, job, [reader EXCEPT ![r] = v])
  BY <1>0, <1>2, GoesOn, Zenon
<1>4. CASE loading(i) /\ ~ reader[r].alone
  BY <1>0, <1>4, StepsOn, Zenon DEF Mark, cacheVars, tableVars
<1>5. CASE loading(i) /\ reader[r].alone
  <2>1. reader' = [reader EXCEPT ![r] = v] /\ UNCHANGED status
    BY <1>5, Zenon DEF Mark, cacheVars, tableVars, v
  <2> QED BY <1>0, <1>3, <2>1, Zenon DEF CacheOK
<1>6. CASE ~ loading(i)
  <2>1. reader' = [reader EXCEPT ![r] = v] /\ status' = [status EXCEPT ![i] = r] /\ status[i] \notin Readers
    BY <1>6, Zenon DEF Mark, cacheVars, tableVars, v, SetStatus, loading
  <2>2. [reader EXCEPT ![r] = v][r] = v
    BY Zenon DEF CacheOK, Consistent, Types
  <2>3. ~ crossed /\ i = info /\ map # Nothing => r \in young
    <3>1. ASSUME ~ crossed, i = info, map # Nothing PROVE r \in young
      <4>1. status[info] # "uninit"
        BY <3>1, Zenon DEF CacheOK, Consistent, MapOK
      <4>2. status[info] \in {"uninit", "loaded"} \cup Readers
        BY Zenon DEF CacheOK, Consistent, Types
      <4>3. status[info] = "loaded"
        BY <2>1, <3>1, <4>1, <4>2, Zenon
      <4> QED BY <1>0, <3>1, <4>3, QueryFacts, Zenon DEF LoaderOK
    <3> QED BY <3>1, Zenon
  <2>4. Consistent(kv, map, crossed, young, info, live, [status EXCEPT ![i] = r], job, [reader EXCEPT ![r] = v])
    BY <1>1, <1>2, <1>3, <2>1, <2>2, <2>3, Marks, Zenon
  <2> QED BY <1>0, <2>1, <2>4, Zenon DEF CacheOK
<1> QED BY <1>4, <1>5, <1>6, Zenon

LEMMA LoadKeeps ==
  ASSUME CacheOK, NEW r \in Readers, Load(r)
  PROVE  CacheOK'
<1> DEFINE v == [reader[r] EXCEPT !.pc = "merge", !.got = kv]
<1>0. reader[r].pc = "load" /\ reader' = [reader EXCEPT ![r] = v] /\ UNCHANGED <<kv, map, crossed, young, info, live, status, job>>
  BY Zenon DEF Load, cacheVars, tableVars
<1>1. v \in Queries /\ v.pc = "merge" /\ v.info = reader[r].info /\ v.due = reader[r].due /\ v.whole = reader[r].whole /\ v.got = kv
  <2>1. reader[r] \in Queries /\ kv \in Maps
    BY QueryFacts, Zenon DEF CacheOK, Consistent, Types
  <2> QED BY <2>1 DEF Queries
<1> HIDE DEF v
<1>2. ASSUME NEW p \in Parts
      PROVE  Full(v, kv, p, job[p]) /\ (job[p].quiet => kv[p] = 0) /\ kv[p] >= Known(job[p], info)
  <2>1. kv[p] = Stored(job[p]) /\ (job[p].quiet => Removing(job[p])) /\ job[p] \in Jobs
    BY JobFacts, Zenon DEF JobOK
  <2>20. /\ Stored(job[p]) >= Known(job[p], info) /\ Known(job[p], info) >= Told(job[p])
         /\ Stored(job[p]) \in 0 .. 2 /\ Told(job[p]) \in 0 .. 2 /\ Known(job[p], info) \in 0 .. 2
    BY <2>1, Amounts, Zenon
  <2>2. kv[p] >= Known(job[p], info) /\ kv[p] >= Told(job[p]) /\ kv[p] \in 0 .. 2 /\ Told(job[p]) \in 0 .. 2
    BY <2>1, <2>20, Levels, ZenonT(60)
  <2>3. v.due[p] \in 0 .. 2
    BY <1>1, Zenon DEF Maps, Queries
  <2>4. Told(job[p]) >= v.due[p] \/ Removing(job[p])
    BY <1>1, QueryFacts, Zenon DEF QueryOK
  <2>5. Full(v, kv, p, job[p])
    BY <2>2, <2>3, <2>4, Levels, Zenon DEF Full
  <2>6. job[p].quiet => kv[p] = 0
    BY <2>1, Amounts, Zenon
  <2> QED BY <2>2, <2>5, <2>6, Zenon
<1>3. QueryOK(v, map, crossed, info, job)
  BY <1>0, <1>1, <1>2, QueryFacts, Zenon DEF QueryOK, IsRunning
<1>4. LoaderOK(r, v, map, crossed, young, info, live, status[info], job)
  BY <1>0, <1>1, <1>2, QueryFacts, Zenon DEF LoaderOK
<1>5. \A i \in 1 .. MaxInfos : status[i] = r => v.pc \in {"load", "merge"} /\ v.info = i
  BY <1>1, QueryFacts, Zenon
<1> QED BY <1>0, <1>1, <1>3, <1>4, <1>5, QueryMoves, Zenon DEF CacheOK

LEMMA LoadFailsKeeps ==
  ASSUME CacheOK, NEW r \in Readers, LoadFails(r)
  PROVE  CacheOK'
<1> DEFINE i == reader[r].info
           v == [NoQuery EXCEPT !.pc = "done"]
<1>0. reader[r].pc = "load" /\ Running(r) /\ UNCHANGED <<kv, info, live>>
  BY Zenon DEF LoadFails, cacheVars, tableVars, Running, IsRunning
<1>1. i \in 1 .. MaxInfos
  BY <1>0, RunningFacts, Zenon
<1>2. v \in Queries /\ v.pc = "done" /\ v.info = 0 /\ v.due = Empty /\ v.whole
  BY NoQueryType, Zenon
<1>3. CASE status[i] # r
  <2>1. \A t \in 1 .. MaxInfos : status[t] # r
    BY <1>3, QueryFacts, Zenon
  <2>2. reader' = [reader EXCEPT ![r] = v] /\ UNCHANGED <<status, map, crossed, young, job>>
    BY <1>3, Zenon DEF LoadFails, cacheVars, tableVars, Throw
  <2> HIDE DEF v
  <2> QED BY <1>0, <1>2, <2>1, <2>2, Ends, Zenon DEF CacheOK
<1>4. CASE status[i] = r
  <2> DEFINE b == [status EXCEPT ![i] = "uninit"]
             c == crossed \/ i # Touched
             w == Disturbed(reader)
  <2>1. /\ status' = b /\ map' = Nothing /\ crossed' = c /\ young' = {}
        /\ job' = Lost(job) /\ reader' = [w EXCEPT ![r] = v]
    BY <1>4, Zenon DEF LoadFails, cacheVars, tableVars, SetStatus, Cache, Throw
  <2>2. /\ b \in [1 .. MaxInfos -> {"uninit", "loaded"} \cup Readers] /\ b[i] = "uninit"
        /\ \A t \in 1 .. MaxInfos : t # i => b[t] = status[t]
    BY <1>1, Zenon DEF CacheOK, Consistent, Types
  <2>3. Consistent(kv, map, c, young, info, live, status, job, reader)
    BY Crosses, Zenon DEF CacheOK
  <2>4. ASSUME ~ c PROVE b[info] = "uninit"
    BY <1>0, <2>2, <2>4, RunningFacts, Zenon
  <2> HIDE DEF b, c, v
  <2>5. c \in BOOLEAN
    BY <2>3, Zenon DEF Consistent, Types
  <2>6. \A t \in Readers : "uninit" # t
    BY Constants, Zenon
  <2>7. Consistent(kv, Nothing, c, {}, info, live, b, Lost(job), w)
    <3>1. ASSUME NEW t \in 1 .. MaxInfos PROVE b[t] = status[t] \/ b[t] = "uninit"
      BY <2>2, <3>1, Zenon
    <3>2. c = TRUE \/ \A t \in Readers : b[info] = t => reader[t].pc # "merge"
      BY <2>4, <2>5, <2>6, Zenon
    <3>3. b \in [1 .. MaxInfos -> {"uninit", "loaded"} \cup Readers]
      BY <2>2, Zenon
    <3>4. \A t \in 1 .. MaxInfos : b[t] = status[t] \/ b[t] = "uninit"
      BY <3>1, Zenon
    <3> QED BY <2>3, <3>2, <3>3, <3>4, MapLost, Zenon
  <2>8. ASSUME NEW t \in 1 .. MaxInfos PROVE b[t] # r
    <3>1. status[t] = r => t = i
      BY QueryFacts, Zenon
    <3> QED BY <2>2, <2>6, <3>1, Zenon
  <2> HIDE DEF w
  <2>9. Consistent(kv, Nothing, c, {}, info, live, b, Lost(job), [w EXCEPT ![r] = v])
    BY <1>2, <2>7, <2>8, Ends, Zenon DEF v
  <2> QED BY <1>0, <2>1, <2>9, Zenon DEF CacheOK
<1> QED BY <1>3, <1>4, Zenon

LEMMA MergeKeeps ==
  ASSUME CacheOK, NEW r \in Readers, Merge(r)
  PROVE  CacheOK'
<1> DEFINE i == reader[r].info
           got == reader[r].got
           w == (TRUE => \A p \in Parts : Removing(job[p]) \/ got[p] >= reader[r].due[p])
           v == [NoQuery EXCEPT !.pc = "done", !.whole = w]
<1>0. reader[r].pc = "merge" /\ Running(r) /\ UNCHANGED <<kv, info, live, job>> /\ reader' = [reader EXCEPT ![r] = v]
  BY Zenon DEF Merge, cacheVars, tableVars, Running, IsRunning, Return
<1>1. i \in 1 .. MaxInfos /\ got \in Maps
  BY <1>0, RunningFacts, QueryFacts, Zenon DEF Queries
<1>2. w = TRUE
  BY <1>0, QueryFacts, Zenon DEF QueryOK, Full
<1>3. v \in Queries /\ v.pc = "done" /\ v.info = 0 /\ v.due = Empty /\ v.whole
  <2>1. w \in BOOLEAN
    BY <1>2, Zenon
  <2> HIDE DEF w
  <2> QED BY <1>2, <2>1, NoQueryType, Zenon
<1> HIDE DEF v
<1>4. CASE status[i] # r
  <2>1. \A t \in 1 .. MaxInfos : status[t] # r
    BY <1>4, QueryFacts, Zenon
  <2>2. UNCHANGED <<status, map, crossed, young>>
    BY <1>4, Zenon DEF Merge, cacheVars, tableVars
  <2> QED BY <1>0, <1>3, <2>1, <2>2, Ends, Zenon DEF CacheOK
<1>5. CASE status[i] = r
  <2> DEFINE b == [status EXCEPT ![i] = "loaded"]
             c == crossed \/ i # Touched
             x == Merged(got)
             z == {t \in Readers : IsRunning(reader[t])}
  <2>1. /\ x \in Maps /\ x # Nothing
        /\ \A p \in Parts : x[p] >= got[p] /\ (map # Nothing => x[p] >= map[p])
        /\ \A p \in Parts : x[p] = got[p] \/ (map # Nothing /\ x[p] = Later(map[p], got[p]))
    <3>1. map = Nothing \/ map \in Maps
      BY Zenon DEF CacheOK, Consistent, Types
    <3>2. CASE map = Nothing
      BY <1>1, <3>2, Levels, Constants, Zenon DEF Merged, Maps
    <3>3. CASE map # Nothing /\ map \in Maps
      <4>1. \A p \in Parts : map[p] \in 0 .. 2 /\ got[p] \in 0 .. 2
        BY <1>1, <3>3, Zenon DEF Maps
      <4>2. x = [p \in Parts |-> Later(map[p], got[p])]
        BY <3>3, Zenon DEF Merged
      <4>3. \A p \in Parts : Later(map[p], got[p]) \in 0 .. 2
        BY <4>1, Levels, Zenon
      <4>4. x \in Maps
        BY <4>2, <4>3, Zenon DEF Maps
      <4>5. x # Nothing
        BY <4>4, Constants, Zenon
      <4>6. ASSUME NEW p \in Parts
            PROVE  x[p] = Later(map[p], got[p]) /\ x[p] >= got[p] /\ x[p] >= map[p]
        <5>1. x[p] = Later(map[p], got[p]) /\ map[p] \in 0 .. 2 /\ got[p] \in 0 .. 2
          BY <4>1, <4>2, Zenon
        <5>2. Later(map[p], got[p]) >= got[p] /\ Later(map[p], got[p]) >= map[p]
          BY <5>1, Levels, Zenon
        <5> QED BY <5>1, <5>2, Zenon
      <4> QED BY <3>3, <4>4, <4>5, <4>6, Zenon
    <3> QED BY <3>1, <3>2, <3>3, Zenon
  <2>2. status' = b /\ map' = x /\ crossed' = c /\ young' = z
    BY <1>5, <2>1, Zenon DEF Merge, cacheVars, tableVars, SetStatus, Cache, Running
  <2>3. Consistent(kv, map, c, young, info, live, status, job, reader)
    BY Crosses, Zenon DEF CacheOK
  <2>4. ~ c => live /\ i = info /\ ~ crossed
    BY <1>0, RunningFacts, Zenon
  <2> HIDE DEF b, c, x, z
  <2>5. c \/ (live /\ status[info] # "uninit" /\ (map = Nothing => status[info] # "loaded"))
    BY <1>5, <2>4, Constants, Zenon
  <2>6. ASSUME NEW p \in Parts, job[p].quiet, map # Nothing => map[p] = 0 \/ job[p].same
        PROVE  x[p] = 0 \/ job[p].same
    <3>1. got[p] = 0
      BY <1>0, <2>6, QueryFacts, Zenon DEF QueryOK
    <3>2. CASE x[p] = got[p]
      BY <3>1, <3>2, Zenon
    <3>3. CASE map # Nothing /\ x[p] = Later(map[p], got[p])
      <4>1. CASE map[p] = 0
        BY <3>1, <3>3, <4>1, Levels, Zenon
      <4> QED BY <2>6, <3>3, <4>1, Zenon
    <3> QED BY <2>1, <3>2, <3>3, Zenon
  <2>7. Consistent(kv, x, c, z, info, live, status, job, reader)
    <3>1. \A p \in Parts : map # Nothing => x[p] >= map[p] \/ x[p] >= Known(job[p], info)
      BY <2>1, Zenon
    <3>2. \A p \in Parts : job[p].quiet /\ job[p].pc # "removed" /\ (map # Nothing => map[p] = 0 \/ job[p].same)
                             => x[p] = 0 \/ job[p].same
      BY <2>6, Zenon
    <3>3. x \in Maps
      BY <2>1, Zenon
    <3> QED BY <2>3, <2>5, <3>1, <3>2, <3>3, MapGets, Zenon DEF z
  <2>8. ASSUME ~ c, NEW p \in Parts PROVE x[p] >= Known(job[p], info)
    <3>1. got[p] >= Known(job[p], info) \/ (map # Nothing /\ map[p] >= Known(job[p], info))
      BY <1>0, <1>5, <2>4, <2>8, QueryFacts, Zenon DEF LoaderOK
    <3>2. Known(job[p], info) \in 0 .. 2
      BY JobFacts, Amounts, Zenon
    <3>3. got[p] \in 0 .. 2 /\ x[p] \in 0 .. 2 /\ (map # Nothing => map[p] \in 0 .. 2)
      BY <1>1, <2>1, Zenon DEF Maps, CacheOK, Consistent, Types
    <3>4. CASE got[p] >= Known(job[p], info)
      <4>1. x[p] >= got[p]
        BY <2>1, Zenon
      <4> QED BY <3>2, <3>3, <3>4, <4>1, Levels, Zenon
    <3>5. CASE map # Nothing /\ map[p] >= Known(job[p], info)
      <4>1. x[p] >= map[p] /\ map[p] \in 0 .. 2
        BY <2>1, <3>3, <3>5, Zenon
      <4> QED BY <3>2, <3>3, <3>5, <4>1, Levels, Zenon
    <3> QED BY <3>1, <3>4, <3>5, Zenon
  <2>9. \A t \in Readers : IsRunning(reader[t]) => t \in z
    BY Zenon DEF z
  <2>10. Consistent(kv, x, c, z, info, live, b, job, reader)
    BY <1>1, <1>5, <2>4, <2>7, <2>8, <2>9, Loads, Zenon DEF b
  <2>11. \A t \in 1 .. MaxInfos : b[t] # r
    <3>1. b[i] = "loaded" /\ \A t \in 1 .. MaxInfos : t # i => b[t] = status[t]
      BY <1>1, Zenon DEF b, CacheOK, Consistent, Types
    <3>2. \A t \in 1 .. MaxInfos : t # i => status[t] # r
      BY QueryFacts, Zenon
    <3> QED BY <3>1, <3>2, Constants, Zenon
  <2>12. Consistent(kv, x, c, z, info, live, b, job, [reader EXCEPT ![r] = v])
    BY <1>3, <2>10, <2>11, Ends, Zenon
  <2> QED BY <1>0, <2>2, <2>12, Zenon DEF CacheOK
<1> QED BY <1>4, <1>5, Zenon

-----------------------------------------------------------------------------
(* The steps of a transaction.                                              *)
LEMMA PutKeeps ==
  ASSUME CacheOK, NEW p \in Parts, Put(p)
  PROVE  CacheOK'
<1>1. job[p] \in Jobs /\ JobOK(p, kv[p], map, crossed, info, live, job[p])
  BY JobFacts, Zenon
<1>2. ASSUME NEW v \in 1 .. 2, NEW a, Move(p, IF v = 1 THEN "new" ELSE "written", a), kv' = [kv EXCEPT ![p] = v],
             a = IF v = 1 THEN "insert1" ELSE "insert2"
      PROVE  CacheOK'
  <2> DEFINE w == [job[p] EXCEPT !.pc = a]
  <2>1. job' = [job EXCEPT ![p] = w]
    BY <1>2, Zenon DEF Move
  <2>2. /\ w \in Jobs /\ w.pc = a /\ w.info = job[p].info /\ w.same = job[p].same /\ w.quiet = job[p].quiet
        /\ job[p].pc = (IF v = 1 THEN "new" ELSE "written") /\ v \in 0 .. 2
    BY <1>1, <1>2 DEF Move, Jobs
  <2> HIDE DEF w
  <2>3. /\ ~ Removing(job[p]) /\ ~ Removing(w) /\ Told(w) >= Told(job[p]) /\ v = Stored(w)
        /\ Known(w, info) = Told(w) /\ Known(job[p], info) = Told(job[p]) /\ Told(w) = Told(job[p])
    BY <1>2, <2>2 DEF Removing, Told, Stored, Known
  <2>4. ~ job[p].quiet /\ ~ job[p].same
    BY <1>1, <2>2, <2>3, Zenon DEF JobOK
  <2>5. JobOK(p, v, map, crossed, info, live, w)
    BY <1>1, <1>2, <2>2, <2>3, <2>4, Zenon DEF JobOK
  <2>6. Known(job[p], info) >= Known(w, info)
    BY <1>1, <2>2, <2>3, Amounts, Levels, Zenon
  <2>7. Consistent([kv EXCEPT ![p] = v], map, crossed, young, info, live, status, [job EXCEPT ![p] = w], reader)
    BY <2>2, <2>3, <2>4, <2>5, <2>6, JobMoves, Zenon DEF CacheOK
  <2> QED BY <1>2, <2>1, <2>7, Zenon DEF Put, cacheVars, tableVars, CacheOK
<1>3. 1 \in 1 .. 2 /\ 2 \in 1 .. 2 /\ 2 # 1
  OBVIOUS
<1>4. CASE Move(p, "new", "insert1") /\ kv' = [kv EXCEPT ![p] = 1]
  BY <1>2, <1>3, <1>4, Zenon
<1>5. CASE Move(p, "written", "insert2") /\ kv' = [kv EXCEPT ![p] = 2]
  BY <1>2, <1>3, <1>5, Zenon
<1> QED BY <1>4, <1>5, Zenon DEF Put, cacheVars, tableVars

LEMMA GetsInfo ==
  ASSUME CacheOK, NEW p \in Parts, job[p].pc \in {"insert1", "insert2"}, Touch,
         job' = [job EXCEPT ![p] = [job[p] EXCEPT !.pc = IF job[p].pc = "insert1" THEN "lock1" ELSE "lock2", !.info = Touched]],
         UNCHANGED <<kv, map, crossed, young, status, reader>>
  PROVE  CacheOK'
<1>1. Consistent(kv, map, crossed, young, Touched, TRUE, status, job, reader)
  BY NewInfo, Zenon DEF CacheOK, Touched
<1>2. job[p] \in Jobs /\ JobOK(p, kv[p], map, crossed, Touched, TRUE, job[p]) /\ Touched \in 1 .. MaxInfos
  BY <1>1, Zenon DEF Consistent, Types
<1>3. Touched \in 0 .. MaxInfos /\ Touched > 0 /\ Touched <= Touched
  BY <1>2
<1> DEFINE a == IF job[p].pc = "insert1" THEN "lock1" ELSE "lock2"
           w == [job[p] EXCEPT !.pc = a, !.info = Touched]
<1>4. job[p].pc \in {"insert1", "insert2"} /\ job' = [job EXCEPT ![p] = w] /\ info' = Touched /\ live' = TRUE
  BY Zenon DEF Touch
<1>5. w \in Jobs /\ w.pc = a /\ w.info = Touched /\ w.same = job[p].same /\ w.quiet = job[p].quiet
  BY <1>2, <1>3, <1>4 DEF Jobs
<1> HIDE DEF w
<1>6. /\ ~ Removing(job[p]) /\ ~ Removing(w) /\ Told(w) = Told(job[p]) /\ Stored(w) = Stored(job[p])
      /\ Known(w, Touched) = Told(w) /\ Known(job[p], Touched) = Told(job[p])
  BY <1>4, <1>5 DEF Removing, Told, Stored, Known
<1>7. ~ job[p].quiet /\ ~ job[p].same
  BY <1>2, <1>4, <1>6, Zenon DEF JobOK
<1>8. JobOK(p, kv[p], map, crossed, Touched, TRUE, w)
  BY <1>2, <1>3, <1>5, <1>6, <1>7, Zenon DEF JobOK
<1>9. Known(job[p], Touched) >= Known(w, Touched) /\ Told(w) >= Told(job[p])
  BY <1>2, <1>5, <1>6, Amounts, Levels, Zenon
<1>10. kv[p] \in 0 .. 2 /\ [kv EXCEPT ![p] = kv[p]] = kv
  BY JobFacts, Zenon
<1>11. Consistent([kv EXCEPT ![p] = kv[p]], map, crossed, young, Touched, TRUE, status, [job EXCEPT ![p] = w], reader)
  BY <1>1, <1>5, <1>6, <1>7, <1>8, <1>9, <1>10, JobMoves, Zenon
<1> QED BY <1>4, <1>10, <1>11, Zenon DEF CacheOK

LEMMA FailsToInsert ==
  ASSUME CacheOK, NEW p \in Parts, Move(p, "insert1", "failed"),
         UNCHANGED <<kv, map, crossed, young, info, live, status, reader>>
  PROVE  CacheOK'
<1> DEFINE w == [job[p] EXCEPT !.pc = "failed"]
<1>1. job[p] \in Jobs /\ JobOK(p, kv[p], map, crossed, info, live, job[p]) /\ kv[p] \in 0 .. 2 /\ [kv EXCEPT ![p] = kv[p]] = kv
  BY JobFacts, Zenon
<1>2. job[p].pc = "insert1" /\ job' = [job EXCEPT ![p] = w]
  BY Zenon DEF Move
<1>3. w \in Jobs /\ w.pc = "failed" /\ w.info = job[p].info /\ w.same = job[p].same /\ w.quiet = job[p].quiet
  BY <1>1 DEF Jobs
<1> HIDE DEF w
<1>4. /\ ~ Removing(job[p]) /\ ~ Removing(w) /\ Told(w) = Told(job[p]) /\ Stored(w) = Stored(job[p])
      /\ Known(w, info) = Told(w) /\ Known(job[p], info) = Told(job[p])
  BY <1>2, <1>3 DEF Removing, Told, Stored, Known
<1>5. ~ job[p].quiet /\ ~ job[p].same
  BY <1>1, <1>2, <1>4, Zenon DEF JobOK
<1>6. JobOK(p, kv[p], map, crossed, info, live, w)
  BY <1>1, <1>3, <1>4, <1>5, Zenon DEF JobOK
<1>7. Known(job[p], info) >= Known(w, info) /\ Told(w) >= Told(job[p])
  BY <1>1, <1>3, <1>4, Amounts, Levels, Zenon
<1>8. Consistent([kv EXCEPT ![p] = kv[p]], map, crossed, young, info, live, status, [job EXCEPT ![p] = w], reader)
  BY <1>1, <1>3, <1>4, <1>5, <1>6, <1>7, JobMoves, Zenon DEF CacheOK
<1> QED BY <1>1, <1>2, <1>8, Zenon DEF CacheOK

LEMMA InsertMetaKeeps ==
  ASSUME CacheOK, NEW p \in Parts, InsertMeta(p)
  PROVE  CacheOK'
<1>1. UNCHANGED <<kv, map, crossed, young, status, reader>>
  BY Zenon DEF InsertMeta, cacheVars
<1>2. CASE Move(p, "insert1", "failed") /\ UNCHANGED <<info, live>>
  BY <1>1, <1>2, FailsToInsert, Zenon
<1>3. CASE ~ (Move(p, "insert1", "failed") /\ UNCHANGED <<info, live>>)
  BY <1>1, <1>3, GetsInfo, Zenon DEF InsertMeta
<1> QED BY <1>2, <1>3, Zenon

LEMMA RemoveKeeps ==
  ASSUME CacheOK, NEW p \in Parts, Remove(p)
  PROVE  CacheOK'
<1> DEFINE z == \A r \in Readers : ~ Loading(r)
           w == [job[p] EXCEPT !.pc = "removed", !.quiet = z]
<1>1. job[p] \in Jobs /\ JobOK(p, kv[p], map, crossed, info, live, job[p])
  BY JobFacts, Zenon
<1>2. job[p].pc \in {"written", "committed", "failed"} /\ job' = [job EXCEPT ![p] = w]
  BY Zenon DEF Remove, cacheVars, tableVars
<1>3. z \in BOOLEAN /\ (z => \A r \in Readers : reader[r].pc # "merge")
  BY Zenon DEF Loading
<1> HIDE DEF z
<1>4. w \in Jobs /\ w.pc = "removed" /\ w.info = job[p].info /\ w.same = job[p].same /\ w.quiet = z
  BY <1>1, <1>3 DEF Jobs
<1> HIDE DEF w
<1>5. /\ ~ Removing(job[p]) /\ Removing(w) /\ Stored(w) = 0 /\ Known(w, info) = 0
  BY <1>2, <1>4 DEF Removing, Told, Stored, Known
<1>6. ~ job[p].same
  BY <1>1, <1>2, Zenon DEF JobOK
<1>7. JobOK(p, 0, map, crossed, info, live, w)
  BY <1>1, <1>4, <1>5, <1>6, Zenon DEF JobOK
<1>8. Known(job[p], info) >= Known(w, info) /\ 0 \in 0 .. 2
  BY <1>1, <1>5, Amounts, Levels, ZenonT(60)
<1>9. Consistent([kv EXCEPT ![p] = 0], map, crossed, young, info, live, status, [job EXCEPT ![p] = w], reader)
  BY <1>3, <1>4, <1>5, <1>7, <1>8, JobMoves, Zenon DEF CacheOK
<1> QED BY <1>2, <1>9, Zenon DEF Remove, cacheVars, tableVars, CacheOK

(* A removal goes on: the part is not in the map, or the map was looked up. *)
LEMMA Removes ==
  ASSUME NEW k, NEW m, NEW c, NEW y, NEW n, NEW l, NEW s, NEW j, NEW q, NEW p \in Parts, NEW w \in Jobs,
         Consistent(k, m, c, y, n, l, s, j, q), Removing(j[p]), Removing(w), w.info <= n, w.pc # "removed",
         w.pc = "erase" => w.info > 0, w.quiet = j[p].quiet,
         w.same => w.pc = "erase" /\ w.info = n /\ l /\ m # Nothing,
         ~ c /\ m # Nothing /\ w.quiet => m[p] = 0 \/ w.same
  PROVE  Consistent(k, m, c, y, n, l, s, [j EXCEPT ![p] = w], q)
<1>1. j[p] \in Jobs /\ JobOK(p, k[p], m, c, n, l, j[p]) /\ k \in Maps
  BY Zenon DEF Consistent, Types
<1>2. k[p] \in 0 .. 2 /\ [k EXCEPT ![p] = k[p]] = k
  BY <1>1 DEF Maps
<1>3. /\ Stored(w) = 0 /\ Stored(j[p]) = 0 /\ Known(w, n) = 0 /\ Known(j[p], n) = 0
      /\ Told(w) = 0 /\ Told(j[p]) = 0 /\ w.pc \notin {"lock1", "lock2"}
  BY <1>1, Amounts, Zenon DEF Removing
<1>4. JobOK(p, k[p], m, c, n, l, w)
  BY <1>1, <1>3, Zenon DEF JobOK
<1>5. Known(j[p], n) >= Known(w, n)
  BY <1>3, Levels, Zenon
<1>6. Consistent([k EXCEPT ![p] = k[p]], m, c, y, n, l, s, [j EXCEPT ![p] = w], q)
  BY <1>2, <1>4, <1>5, JobMoves, Zenon
<1> QED BY <1>2, <1>6, Zenon

LEMMA LookUpKeeps ==
  ASSUME CacheOK, TableOK, NEW p \in Parts, LookUp(p)
  PROVE  CacheOK'
<1> DEFINE Gone(x) == [x EXCEPT !.pc = "gone"]
<1>1. /\ job[p] \in Jobs /\ job[p].pc = "removed" /\ info \in 1 .. MaxInfos
      /\ JobOK(p, kv[p], map, crossed, info, live, job[p])
      /\ UNCHANGED <<kv, crossed, info, live, status>>
  BY JobFacts, Zenon DEF CacheOK, Consistent, Types, LookUp, tableVars
<1>2. info \in 0 .. MaxInfos /\ info > 0 /\ info <= info
  BY <1>1
<1>3. Removing(job[p]) /\ ~ job[p].same /\ job[p].info <= info
  BY <1>1, Zenon DEF JobOK, Removing
<1>4. ASSUME NEW x \in Jobs
      PROVE  Gone(x) \in Jobs /\ Gone(x).pc = "gone" /\ Gone(x).info = x.info /\ Gone(x).same = x.same /\ Gone(x).quiet = x.quiet
  BY DEF Jobs
<1>5. CASE live /\ map # Nothing
  <2> DEFINE w == [job[p] EXCEPT !.pc = "erase", !.info = info, !.same = TRUE]
  <2>1. job' = [job EXCEPT ![p] = w] /\ UNCHANGED <<map, young, reader>>
    BY <1>5, Zenon DEF LookUp, TableOK
  <2>2. w \in Jobs /\ w.pc = "erase" /\ w.info = info /\ w.same = TRUE /\ w.quiet = job[p].quiet
    BY <1>1, <1>2 DEF Jobs
  <2> HIDE DEF w
  <2>3. Consistent(kv, map, crossed, young, info, live, status, [job EXCEPT ![p] = w], reader)
    BY <1>2, <1>3, <1>5, <2>2, Removes, Zenon DEF CacheOK, Removing
  <2> QED BY <1>1, <2>1, <2>3, Zenon DEF CacheOK
<1>6. CASE table = "absent" \/ map = Nothing
  <2> DEFINE w == Gone(job[p])
  <2>1. job' = [job EXCEPT ![p] = w] /\ UNCHANGED <<map, young, reader>>
    BY <1>6, Zenon DEF LookUp, TableOK
  <2>2. w \in Jobs /\ w.pc = "gone" /\ w.info = job[p].info /\ w.same = job[p].same /\ w.quiet = job[p].quiet
    BY <1>1, <1>4, Zenon
  <2> HIDE DEF w
  <2>3. crossed \/ map = Nothing
    BY <1>6, Zenon DEF CacheOK, Consistent, MapOK, TableOK
  <2>4. Consistent(kv, map, crossed, young, info, live, status, [job EXCEPT ![p] = w], reader)
    BY <1>3, <2>2, <2>3, Removes, Zenon DEF CacheOK, Removing
  <2> QED BY <1>1, <2>1, <2>4, Zenon DEF CacheOK
<1>7. CASE table # "absent" /\ ~ live /\ map # Nothing
  <2> DEFINE g == Lost(job)
             w == Gone(g[p])
  <2>1. map' = Nothing /\ young' = {} /\ job' = [g EXCEPT ![p] = w] /\ reader' = Disturbed(reader)
    BY <1>7, Zenon DEF LookUp
  <2>2. Consistent(kv, Nothing, crossed, {}, info, live, status, g, Disturbed(reader))
    <3>1. live = FALSE /\ status \in [1 .. MaxInfos -> {"uninit", "loaded"} \cup Readers]
      BY <1>7, Zenon DEF CacheOK, Consistent, Types
    <3> QED BY <3>1, MapLost, Zenon DEF CacheOK
  <2>3. /\ g[p] \in Jobs /\ g[p].pc = job[p].pc /\ g[p].info = job[p].info /\ g[p].same = FALSE /\ g[p].quiet = job[p].quiet
    <3>1. g[p] = [job[p] EXCEPT !.same = FALSE]
      BY Zenon DEF Lost
    <3> QED BY <1>1, <3>1 DEF Jobs
  <2> HIDE DEF g
  <2>4. w \in Jobs /\ w.pc = "gone" /\ w.info = job[p].info /\ w.same = FALSE /\ w.quiet = g[p].quiet
    BY <1>4, <2>3, Zenon
  <2> HIDE DEF w
  <2>5. Consistent(kv, Nothing, crossed, {}, info, live, status, [g EXCEPT ![p] = w], Disturbed(reader))
    BY <1>3, <2>2, <2>3, <2>4, Removes, Zenon DEF Removing
  <2> QED BY <1>1, <2>1, <2>5, Zenon DEF CacheOK
<1> QED BY <1>5, <1>6, <1>7, Zenon

LEMMA InsertKeeps ==
  ASSUME CacheOK, NEW p \in Parts, Insert(p)
  PROVE  CacheOK'
<1> DEFINE i == job[p].info
           n == IF job[p].pc = "lock1" THEN 1 ELSE 2
           a == IF n = 1 THEN "written" ELSE "committed"
           w == [job[p] EXCEPT !.pc = a, !.info = 0]
<1>1. job[p] \in Jobs /\ JobOK(p, kv[p], map, crossed, info, live, job[p])
  BY JobFacts, Zenon
<1>2. job[p].pc \in {"lock1", "lock2"} /\ job' = [job EXCEPT ![p] = w] /\ UNCHANGED <<kv, info, live, reader>>
  BY DEF Insert, cacheVars, tableVars
<1>3. i \in 1 .. MaxInfos /\ i <= info /\ (i = Touched => live /\ i = info)
  BY <1>2, JobInfo, Zenon
<1>4. w \in Jobs /\ w.pc = a /\ w.info = 0 /\ w.same = job[p].same /\ w.quiet = job[p].quiet
  <2>1. 0 \in 0 .. MaxInfos
    BY Constants
  <2>2. a \in {"written", "committed"}
    BY Zenon
  <2> HIDE DEF a
  <2> QED BY <1>1, <2>1, <2>2 DEF Jobs
<1> HIDE DEF w
<1>5. /\ n \in 0 .. 2 /\ ~ Removing(job[p]) /\ ~ Removing(w) /\ Told(w) = n /\ Stored(w) = n /\ Stored(job[p]) = n
      /\ Known(w, info) = n /\ (i # info => Known(job[p], info) = n)
  BY <1>2, <1>4 DEF Removing, Told, Stored, Known
<1> HIDE DEF n
<1>6. ~ job[p].quiet /\ ~ job[p].same
  BY <1>1, <1>2, <1>5, Zenon DEF JobOK
<1>7. n >= n /\ n >= Known(job[p], info) /\ Told(w) >= Told(job[p])
  <2>1. /\ Known(job[p], info) \in 0 .. 2 /\ Told(job[p]) \in 0 .. 2
        /\ n >= Known(job[p], info) /\ Known(job[p], info) >= Told(job[p])
    BY <1>1, <1>5, Amounts, Zenon
  <2>2. n >= Told(job[p])
    BY <1>5, <2>1, Levels, Zenon
  <2> QED BY <1>5, <2>1, <2>2, Levels, Zenon
<1>8. kv[p] \in 0 .. 2 /\ [kv EXCEPT ![p] = kv[p]] = kv
  BY JobFacts, Zenon
<1>9. 0 <= info
  <2>1. info \in 1 .. MaxInfos
    BY Zenon DEF CacheOK, Consistent, Types
  <2> QED BY <2>1
<1>10. CASE Insertable(i)
  <2> DEFINE c == crossed \/ i # Touched
             old == IF map = Nothing THEN Empty ELSE map
             x == [old EXCEPT ![p] = n]
             z == {r \in Readers : IsRunning(reader[r])}
  <2>1. old \in Maps /\ (map = Nothing => \A t \in Parts : old[t] = 0)
    BY NoQueryType, Zenon DEF CacheOK, Consistent, Types
  <2>2. (map # Nothing => old = map)
    BY Zenon
  <2>3. ~ (status[i] = "loaded" /\ map = Nothing)
    BY <1>10, Constants, Zenon DEF Insertable, loading
  <2>4. map' = x /\ crossed' = c /\ young' = (IF x = Nothing THEN {} ELSE z) /\ status' = status
    BY <1>10, <2>3, Zenon DEF Insert, cacheVars, tableVars, Cache, Running, n
  <2> HIDE DEF old
  <2>5. x \in Maps /\ x[p] = n /\ \A t \in Parts : t # p => x[t] = old[t]
    BY <1>5, <2>1, Zenon DEF Maps
  <2>6. x # Nothing
    BY <2>5, Constants, Zenon
  <2>7. Consistent(kv, map, c, young, info, live, status, job, reader)
    BY Crosses, Zenon DEF CacheOK
  <2>8. c \/ (live /\ status[info] # "uninit" /\ (map = Nothing => status[info] # "loaded"))
    BY <1>3, <1>10, Constants, Zenon DEF Insertable, loading
  <2> HIDE DEF c, x
  <2>9. ASSUME NEW t \in Parts, map # Nothing PROVE x[t] >= map[t] \/ x[t] >= Known(job[t], info)
    <3>1. CASE t = p
      BY <1>7, <2>5, <3>1, Zenon
    <3>2. CASE t # p
      <4>1. x[t] = map[t] /\ map[t] \in 0 .. 2
        BY <2>1, <2>2, <2>5, <2>9, <3>2, Zenon DEF Maps
      <4> QED BY <4>1, Levels, Zenon
    <3> QED BY <3>1, <3>2, Zenon
  <2>10. ASSUME NEW t \in Parts, job[t].quiet, map # Nothing => map[t] = 0 \/ job[t].same
         PROVE  x[t] = 0 \/ job[t].same
    <3>1. t # p
      BY <1>6, <2>10, Zenon
    <3> QED BY <2>1, <2>2, <2>5, <2>10, <3>1, Zenon
  <2>11. Consistent(kv, x, c, z, info, live, status, job, reader)
    <3>1. \A t \in Parts : map # Nothing => x[t] >= map[t] \/ x[t] >= Known(job[t], info)
      BY <2>9, Zenon
    <3>2. \A t \in Parts : job[t].quiet /\ job[t].pc # "removed" /\ (map # Nothing => map[t] = 0 \/ job[t].same)
                             => x[t] = 0 \/ job[t].same
      BY <2>10, Zenon
    <3>3. x \in Maps
      BY <2>5, Zenon
    <3> QED BY <2>7, <2>8, <3>1, <3>2, <3>3, MapGets, Zenon
  <2> HIDE DEF z
  <2>12. JobOK(p, kv[p], x, c, info, live, w)
    BY <1>1, <1>4, <1>5, <1>6, <1>9, Zenon DEF JobOK
  <2>13. x # Nothing /\ x[p] >= Known(w, info)
    BY <1>5, <1>7, <2>5, <2>6, Zenon
  <2>14. Consistent([kv EXCEPT ![p] = kv[p]], x, c, z, info, live, status, [job EXCEPT ![p] = w], reader)
    BY <1>4, <1>5, <1>6, <1>7, <1>8, <2>11, <2>12, <2>13, JobMoves, Zenon
  <2> QED BY <1>2, <1>8, <2>4, <2>6, <2>14, Zenon DEF CacheOK
<1>11. CASE ~ Insertable(i)
  <2> DEFINE b == IF status[i] = "loaded" /\ map = Nothing THEN [status EXCEPT ![i] = "uninit"] ELSE status
  <2>1. status' = b /\ UNCHANGED <<map, crossed, young>>
    BY <1>11, Zenon DEF Insert, cacheVars, tableVars, SetStatus
  <2>2. b[i] = "uninit"
    BY <1>3, <1>11, Zenon DEF CacheOK, Consistent, Types, Insertable, loading
  <2>3. Consistent(kv, map, crossed, young, info, live, b, job, reader)
    <3>1. CASE status[i] = "loaded" /\ map = Nothing
      BY <1>3, <3>1, Unloads, Zenon DEF CacheOK
    <3>2. CASE ~ (status[i] = "loaded" /\ map = Nothing)
      BY <3>2, Zenon DEF CacheOK
    <3> QED BY <3>1, <3>2, Zenon
  <2> HIDE DEF b
  <2>4. b[info] = "uninit" \/ Known(job[p], info) >= Known(w, info)
    BY <1>5, <1>7, <2>2, Zenon
  <2>5. JobOK(p, kv[p], map, crossed, info, live, w)
    BY <1>1, <1>4, <1>5, <1>6, <1>9, Zenon DEF JobOK
  <2>6. Consistent([kv EXCEPT ![p] = kv[p]], map, crossed, young, info, live, b, [job EXCEPT ![p] = w], reader)
    BY <1>4, <1>5, <1>6, <1>7, <1>8, <2>3, <2>4, <2>5, JobMoves, Zenon
  <2> QED BY <1>2, <1>8, <2>1, <2>6, Zenon DEF CacheOK
<1> QED BY <1>10, <1>11, Zenon

LEMMA EraseKeeps ==
  ASSUME CacheOK, NEW p \in Parts, Erase(p)
  PROVE  CacheOK'
<1> DEFINE i == job[p].info
           Gone(j) == [j EXCEPT !.pc = "gone", !.info = 0, !.same = FALSE]
<1>1. job[p] \in Jobs /\ JobOK(p, kv[p], map, crossed, info, live, job[p]) /\ job[p].pc = "erase"
  BY JobFacts, Zenon DEF Erase, cacheVars, tableVars
<1>2. i \in 1 .. MaxInfos /\ i <= info /\ (i = Touched => live /\ i = info)
  BY <1>1, JobInfo, Zenon
<1>3. 0 \in 0 .. MaxInfos /\ 0 <= info
  BY <1>2, Constants DEF CacheOK, Consistent, Types
<1>4. ASSUME NEW j \in Jobs
      PROVE  Gone(j) \in Jobs /\ Gone(j).pc = "gone" /\ Gone(j).info = 0 /\ Gone(j).same = FALSE /\ Gone(j).quiet = j.quiet
  BY <1>3 DEF Jobs
<1>5. CASE loading(i)
  <2> DEFINE b == [status EXCEPT ![i] = "uninit"]
             c == crossed \/ i # Touched
             g == Lost(job)
             w == Disturbed(reader)
  <2>1. /\ status' = b /\ map' = Nothing /\ crossed' = c /\ young' = {} /\ reader' = w
        /\ job' = [g EXCEPT ![p] = Gone(g[p])] /\ UNCHANGED <<kv, info, live>>
    BY <1>5, Zenon DEF Erase, cacheVars, tableVars, SetStatus, Cache
  <2>2. /\ b \in [1 .. MaxInfos -> {"uninit", "loaded"} \cup Readers] /\ b[i] = "uninit"
        /\ \A t \in 1 .. MaxInfos : t # i => b[t] = status[t]
    BY <1>2, Zenon DEF CacheOK, Consistent, Types
  <2>3. Consistent(kv, map, c, young, info, live, status, job, reader)
    BY Crosses, Zenon DEF CacheOK
  <2>4. c = TRUE \/ b[info] = "uninit"
    BY <1>2, <2>2, Zenon
  <2>5. g[p] \in Jobs /\ g[p].pc = "erase" /\ g[p].quiet = job[p].quiet
    <3>1. g[p] = [job[p] EXCEPT !.same = FALSE]
      BY Zenon DEF Lost
    <3> HIDE DEF g
    <3> QED BY <1>1, <3>1 DEF Jobs
  <2> HIDE DEF b, c
  <2>6. Consistent(kv, Nothing, c, {}, info, live, b, g, w)
    <3>1. ASSUME NEW t \in 1 .. MaxInfos PROVE b[t] = status[t] \/ b[t] = "uninit"
      BY <2>2, <3>1, Zenon
    <3>2. c = TRUE \/ \A t \in Readers : b[info] = t => reader[t].pc # "merge"
      BY <2>4, Constants, Zenon
    <3>3. b \in [1 .. MaxInfos -> {"uninit", "loaded"} \cup Readers]
      BY <2>2, Zenon
    <3>4. \A t \in 1 .. MaxInfos : b[t] = status[t] \/ b[t] = "uninit"
      BY <3>1, Zenon
    <3> QED BY <2>3, <3>2, <3>3, <3>4, MapLost, Zenon
  <2> HIDE DEF g, w
  <2> DEFINE v == Gone(g[p])
  <2>7. v \in Jobs /\ v.pc = "gone" /\ v.info = 0 /\ v.same = FALSE /\ v.quiet = g[p].quiet
    BY <1>4, <2>5, Zenon
  <2> HIDE DEF v
  <2>8. Consistent(kv, Nothing, c, {}, info, live, b, [g EXCEPT ![p] = v], w)
    BY <1>3, <2>5, <2>6, <2>7, Removes, Zenon DEF Removing
  <2> QED BY <2>1, <2>8, Zenon DEF CacheOK, v
<1>6. CASE ~ loading(i)
  <2> DEFINE v == Gone(job[p])
             x == IF status[i] = "loaded" /\ job[p].same THEN [map EXCEPT ![p] = 0] ELSE map
  <2>1. map' = x /\ job' = [job EXCEPT ![p] = v] /\ UNCHANGED <<kv, info, live, status, crossed, young, reader>>
    BY <1>6, Zenon DEF Erase, cacheVars, tableVars
  <2>2. v \in Jobs /\ v.pc = "gone" /\ v.info = 0 /\ v.same = FALSE /\ v.quiet = job[p].quiet
    BY <1>1, <1>4, Zenon
  <2> HIDE DEF v
  <2>3. /\ Consistent(kv, x, crossed, young, info, live, status, job, reader)
        /\ ~ crossed /\ x # Nothing /\ job[p].quiet => x[p] = 0
    <3>1. CASE status[i] = "loaded" /\ job[p].same
      <4>1. map \in Maps
        BY <1>1, <3>1, Zenon DEF CacheOK, Consistent, Types, JobOK
      <4>2. x = [map EXCEPT ![p] = 0]
        BY <3>1, Zenon
      <4>3. x[p] = 0
        BY <4>1, <4>2, Zenon DEF Maps
      <4> QED BY <3>1, <4>2, <4>3, MapLoses, ZenonT(60) DEF CacheOK
    <3>2. CASE ~ (status[i] = "loaded" /\ job[p].same)
      <4>1. x = map
        BY <3>2, Zenon
      <4>2. ASSUME ~ crossed, map # Nothing, job[p].quiet PROVE map[p] = 0
        <5>1. map[p] = 0 \/ job[p].same
          BY <1>1, <4>2, Zenon DEF JobOK
        <5>2. ~ job[p].same
          <6> SUFFICES ASSUME job[p].same PROVE FALSE
            OBVIOUS
          <6>1. i = info /\ status[i] # "loaded"
            BY <1>1, <3>2, Zenon DEF JobOK
          <6>2. status[info] = "uninit"
            BY <1>2, <1>6, <6>1, Zenon DEF loading, CacheOK, Consistent, Types
          <6> QED BY <4>2, <6>2, Zenon DEF CacheOK, Consistent, MapOK
        <5> QED BY <5>1, <5>2, Zenon
      <4> QED BY <4>1, <4>2, Zenon DEF CacheOK
    <3> QED BY <3>1, <3>2, Zenon
  <2> HIDE DEF x
  <2>4. Consistent(kv, x, crossed, young, info, live, status, [job EXCEPT ![p] = v], reader)
    BY <1>1, <1>3, <2>2, <2>3, Removes, Zenon DEF Removing
  <2> QED BY <2>1, <2>4, Zenon DEF CacheOK
<1> QED BY <1>5, <1>6, Zenon

-----------------------------------------------------------------------------
(* The map leaves the cache.                                                *)
(* The map is dropped, perhaps with the partition list.                     *)
LEMMA Drops ==
  ASSUME CacheOK, Drop, NEW d \in BOOLEAN, crossed' = (crossed \/ d), UNCHANGED <<kv, info, status>>,
         live' = live \/ (live' = FALSE /\ info < MaxInfos),
         crossed' = TRUE \/ live' = FALSE \/ \A r \in Readers : status[info] = r => reader[r].pc # "merge"
  PROVE  CacheOK'
<1> DEFINE c == crossed \/ d
<1>1. Consistent(kv, map, c, young, info, live, status, job, reader)
  BY Crosses, Zenon DEF CacheOK
<1>2. status \in [1 .. MaxInfos -> {"uninit", "loaded"} \cup Readers]
  BY Zenon DEF CacheOK, Consistent, Types
<1>3. crossed' = c
  BY Zenon
<1> HIDE DEF c
<1>4. Consistent(kv, Nothing, c, {}, info, live', status, Lost(job), Disturbed(reader))
  BY <1>1, <1>2, <1>3, MapLost, Zenon
<1> QED BY <1>3, <1>4, Zenon DEF Drop, CacheOK

LEMMA EvictKeeps ==
  ASSUME CacheOK, Evict
  PROVE  CacheOK'
<1>1. ASSUME ~ crossed, NEW r \in Readers, status[info] = r, reader[r].pc = "merge" PROVE FALSE
  <2>1. reader[r].info = info
    BY <1>1, QueryFacts, Zenon DEF CacheOK, Consistent, Types
  <2>2. r \in young
    BY <1>1, <2>1, QueryFacts, Zenon DEF LoaderOK, Evict
  <2> QED BY <1>1, <2>2, Zenon DEF Evict, Running, IsRunning
<1>2. crossed \in BOOLEAN /\ FALSE \in BOOLEAN /\ Drop /\ UNCHANGED <<kv, info, live, status>> /\ crossed' = crossed
  BY Zenon DEF CacheOK, Consistent, Types, Evict, tableVars
<1>3. crossed' = TRUE \/ \A r \in Readers : status[info] = r => reader[r].pc # "merge"
  BY <1>1, <1>2, Zenon
<1>4. crossed' = (crossed \/ FALSE)
  BY <1>2, Zenon
<1> QED BY <1>2, <1>3, <1>4, Drops, Zenon

(* The partition list goes, with the entry of the table or for a reload.    *)
LEMMA ListGoes ==
  ASSUME CacheOK, Drop, UNCHANGED <<kv, crossed, info, status>>, live' = FALSE, live => info < MaxInfos
  PROVE  CacheOK'
<1>1. crossed \in BOOLEAN /\ live \in BOOLEAN /\ FALSE \in BOOLEAN
  BY Zenon DEF CacheOK, Consistent, Types
<1>2. crossed' = (crossed \/ FALSE) /\ (live' = live \/ (live' = FALSE /\ info < MaxInfos))
  BY <1>1, Zenon
<1> QED BY <1>1, <1>2, Drops, Zenon

LEMMA LateDropKeeps ==
  ASSUME CacheOK, LateDrop
  PROVE  CacheOK'
<1>1. TRUE \in BOOLEAN /\ crossed' = TRUE /\ Drop /\ UNCHANGED <<kv, info, live, status>>
  BY Zenon DEF LateDrop, tableVars
<1>2. crossed' = (crossed \/ TRUE)
  BY <1>1, Zenon
<1> QED BY <1>1, <1>2, Drops, Zenon

(* The list is filled: it has an info of the partition, an old or a new one.*)
LEMMA FillKeeps ==
  ASSUME CacheOK, Fill
  PROVE  CacheOK'
<1>1. UNCHANGED <<kv, map, crossed, young, status, job, reader>>
  BY Zenon DEF Fill, cacheVars
<1>2. Consistent(kv, map, crossed, young, Touched, TRUE, status, job, reader)
  BY NewInfo, Zenon DEF CacheOK, Touched
<1>3. CASE Touch
  BY <1>1, <1>2, <1>3, Zenon DEF Touch, CacheOK
<1>4. CASE UNCHANGED <<info, live>>
  BY <1>1, <1>4, Zenon DEF CacheOK
<1> QED BY <1>3, <1>4, Zenon DEF Fill

(* What happens to the table and its entry.                                 *)
LEMMA TableStepKeeps ==
  ASSUME CacheOK, Evict \/ Invalidate \/ NewEntry \/ Clear \/ Fill \/ LateDrop
  PROVE  CacheOK'
<1>1. CASE Invalidate
  BY <1>1, ListGoes, Zenon DEF Invalidate
<1>2. CASE Clear
  BY <1>2, ListGoes, Zenon DEF Clear
<1>3. CASE NewEntry
  BY <1>3, Zenon DEF NewEntry, cacheVars, CacheOK
<1> QED BY <1>1, <1>2, <1>3, EvictKeeps, FillKeeps, LateDropKeeps, Zenon

LEMMA InitHolds ==
  ASSUME Init
  PROVE  CacheOK
<1>1. PICK old \in SUBSET Parts :
         /\ kv = [p \in Parts |-> IF p \in old THEN 2 ELSE 0]
         /\ job = [p \in Parts |-> [NoJob EXCEPT !.pc = IF p \in old THEN "committed" ELSE "new"]]
         /\ status = [i \in 1 .. MaxInfos |-> IF i = 1 /\ old # {} THEN "loaded" ELSE "uninit"]
  BY Zenon DEF Init
<1>2. map = Nothing /\ young = {} /\ crossed = FALSE /\ info = 1 /\ live = TRUE /\ reader = [r \in Readers |-> NoQuery]
  BY Zenon DEF Init
<1>3. ASSUME NEW p \in Parts
      PROVE  job[p] \in Jobs /\ JobOK(p, kv[p], map, crossed, info, live, job[p]) /\ Told(job[p]) >= 0 /\ ~ Removing(job[p])
  <2> DEFINE a == IF p \in old THEN "committed" ELSE "new"
             w == [NoJob EXCEPT !.pc = a]
  <2>1. job[p] = w /\ kv[p] = (IF p \in old THEN 2 ELSE 0)
    BY <1>1, Zenon
  <2>2. w \in Jobs /\ w.pc = a /\ w.info = 0 /\ ~ w.same /\ ~ w.quiet
    <3>1. 0 \in 0 .. MaxInfos
      BY Constants
    <3>2. a \in {"committed", "new"}
      BY Zenon
    <3> HIDE DEF a
    <3> QED BY <3>1, <3>2 DEF Jobs, NoJob
  <2> HIDE DEF w
  <2>3. kv[p] = Stored(w) /\ Told(w) >= 0 /\ ~ Removing(w)
    BY <2>1, <2>2 DEF Stored, Told, Removing
  <2>4. w.info <= info /\ w.pc \notin {"lock1", "lock2", "erase"}
    BY <1>2, <2>2
  <2> QED BY <2>1, <2>2, <2>3, <2>4, Zenon DEF JobOK
<1>4. NoQuery \in Queries /\ NoQuery.pc = "idle" /\ NoQuery.info = 0 /\ NoQuery.due = Empty /\ NoQuery.whole = TRUE
  BY NoQueryType, Constants DEF NoQuery, Queries
<1>5. 1 \in 1 .. MaxInfos /\ 0 <= 1
  BY Constants
<1>6. kv \in Maps /\ job \in [Parts -> Jobs] /\ reader \in [Readers -> Queries]
  <2>1. kv \in Maps
    BY <1>1, Levels, Zenon DEF Maps
  <2>2. job \in [Parts -> Jobs]
    BY <1>1, <1>3, Zenon
  <2> QED BY <1>2, <1>4, <2>1, <2>2, Zenon
<1>7. /\ status \in [1 .. MaxInfos -> {"uninit", "loaded"} \cup Readers]
      /\ \A i \in 1 .. MaxInfos : status[i] \notin Readers /\ (i > 1 => status[i] = "uninit")
  <2>1. status \in [1 .. MaxInfos -> {"uninit", "loaded"} \cup Readers]
    BY <1>1, Zenon
  <2>2. \A i \in 1 .. MaxInfos : status[i] = "loaded" \/ status[i] = "uninit"
    BY <1>1, Zenon
  <2>3. \A i \in 1 .. MaxInfos : i > 1 => status[i] = "uninit"
    BY <1>1
  <2> QED BY <2>1, <2>2, <2>3, Constants, Zenon
<1>8. Types(kv, map, crossed, young, info, live, status, job, reader)
  BY <1>2, <1>5, <1>6, <1>7, Zenon DEF Types
<1>9. Owned(status, reader) /\ InfosOK(info, live, status) /\ MapOK(map, crossed, info, live, status[info], job)
  BY <1>2, <1>7, Zenon DEF Owned, InfosOK, MapOK
<1>10. ASSUME NEW r \in Readers
       PROVE  QueryOK(reader[r], map, crossed, info, job)
              /\ LoaderOK(r, reader[r], map, crossed, young, info, live, status[info], job)
  <2>1. reader[r] = NoQuery /\ \A p \in Parts : NoQuery.due[p] = 0
    BY <1>2, <1>4, NoQueryType, Zenon
  <2>2. QueryOK(NoQuery, map, crossed, info, job)
    BY <1>2, <1>3, <1>4, <1>5, <2>1, Zenon DEF QueryOK, IsRunning
  <2>3. LoaderOK(r, NoQuery, map, crossed, young, info, live, status[info], job)
    BY <1>2, <1>4, Zenon DEF LoaderOK
  <2> QED BY <2>1, <2>2, <2>3, Zenon
<1> QED BY <1>3, <1>8, <1>9, <1>10, Zenon DEF CacheOK, Consistent

(* Every step of Next keeps the invariant, and so does a step that changes  *)
(* nothing.                                                                 *)
LEMMA StepKeeps ==
  ASSUME CacheOK, TableOK, [Next]_vars
  PROVE  CacheOK'
<1>1. ASSUME NEW r \in Readers, Begin(r) \/ Meta(r) \/ ReaderStep(r) PROVE CacheOK'
  BY <1>1, BeginKeeps, MetaKeeps, CheckKeeps, GetKeeps, MarkKeeps, WaitKeeps, FetchedKeeps, LoadKeeps,
     LoadFailsKeeps, MergeKeeps, Zenon DEF ReaderStep
<1>2. ASSUME NEW p \in Parts, Put(p) \/ InsertMeta(p) \/ Insert(p) \/ Remove(p) \/ LookUp(p) \/ Erase(p)
      PROVE  CacheOK'
  BY <1>2, PutKeeps, InsertMetaKeeps, InsertKeeps, RemoveKeeps, LookUpKeeps, EraseKeeps, Zenon
<1>3. CASE UNCHANGED vars
  BY <1>3, Zenon DEF vars, cacheVars, tableVars, CacheOK
<1> QED BY <1>1, <1>2, <1>3, TableStepKeeps, Zenon DEF Next

(* The entry is loaded only with the partition in its list, and a removed   *)
(* one has no list.                                                         *)
LEMMA TableKeeps ==
  ASSUME TableOK, [Next]_vars
  PROVE  TableOK'
<1>1. ASSUME UNCHANGED tableVars PROVE TableOK'
  BY <1>1, Zenon DEF tableVars, TableOK
<1>2. ASSUME NEW r \in Readers, Begin(r) \/ Meta(r) \/ ReaderStep(r) PROVE UNCHANGED tableVars
  BY <1>2, Zenon DEF Begin, Meta, ReaderStep, Check, Get, Mark, Wait, Fetched, Load, LoadFails, Merge
<1>3. ASSUME NEW p \in Parts, Put(p) \/ Insert(p) \/ Remove(p) \/ LookUp(p) \/ Erase(p) PROVE UNCHANGED tableVars
  BY <1>3, Zenon DEF Put, Insert, Remove, LookUp, Erase
<1>4. ASSUME NEW p \in Parts, InsertMeta(p) PROVE TableOK'
  <2>1. UNCHANGED <<table, late>> /\ (UNCHANGED live \/ (table # "absent" /\ live' = TRUE))
    BY <1>4, Zenon DEF InsertMeta, Touch
  <2> QED BY <2>1 DEF TableOK
<1>5. CASE Evict \/ LateDrop \/ UNCHANGED vars
  BY <1>1, <1>5, Zenon DEF Evict, LateDrop, vars
<1>6. CASE Invalidate \/ NewEntry \/ Clear \/ Fill
  BY <1>6, Zenon DEF Invalidate, NewEntry, Clear, Fill, Touch, TableOK
<1> QED BY <1>1, <1>2, <1>3, <1>4, <1>5, <1>6, Zenon DEF Next

-----------------------------------------------------------------------------
(* The invariant holds whatever is loaded, inserted, removed, evicted or    *)
(* invalidated, and in whatever order.                                      *)
THEOREM CacheInvariant == Spec => []CacheInv
<1>1. Init => CacheInv
  BY InitHolds, Zenon DEF Init, TableOK, CacheInv
<1>2. CacheInv /\ [Next]_vars => CacheInv'
  BY StepKeeps, TableKeeps, Zenon DEF CacheInv
<1> QED BY <1>1, <1>2, PTL DEF Spec

(* A map that queries are served from has every part that was written, with *)
(* its commit time if it has one.                                           *)
THEOREM MapStaysComplete == Spec => []MapComplete
<1>1. CacheInv => MapComplete
  <2> SUFFICES ASSUME CacheInv, Served, ~ crossed, NEW p \in Parts, job[p].pc \in {"written", "committed"}
               PROVE  map[p] >= kv[p]
    BY Zenon DEF MapComplete
  <2>1. map[p] >= Known(job[p], info)
    BY Zenon DEF CacheInv, CacheOK, Consistent, MapOK, Served
  <2>2. Known(job[p], info) = Stored(job[p])
    BY DEF Known, Stored, Told
  <2> QED BY <2>1, <2>2, JobFacts, Zenon DEF CacheInv, JobOK
<1> QED BY <1>1, CacheInvariant, PTL

(* A query misses no part that was written or committed before it began and *)
(* that nobody removes, unless the entry of the table, its partition list or*)
(* the map goes away between two of its looks at them.                      *)
THEOREM ReadsAreComplete == Spec => []ReadsComplete
<1>1. CacheInv => ReadsComplete
  BY QueryFacts, Zenon DEF CacheInv, ReadsComplete, QueryOK
<1> QED BY <1>1, CacheInvariant, PTL

(* A part whose removal met no load is in no map that queries are served    *)
(* from afterwards.                                                         *)
THEOREM RemovedPartsStayOut == Spec => []RemovedStaysOut
<1>1. CacheInv => RemovedStaysOut
  BY JobFacts, Zenon DEF CacheInv, RemovedStaysOut, JobOK, Served
<1> QED BY <1>1, CacheInvariant, PTL

(* A status that says loading has a thread that still loads.                *)
THEOREM LoadsAreOwned == Spec => []LoadingIsOwned
<1>1. CacheInv => LoadingIsOwned
  BY Zenon DEF CacheInv, CacheOK, Consistent, LoadingIsOwned
<1> QED BY <1>1, CacheInvariant, PTL
=============================================================================
