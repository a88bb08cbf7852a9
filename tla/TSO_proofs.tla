----------------------------- MODULE TSO_proofs -----------------------------
(***************************************************************************)
(* Timestamps are unique, respect real time and stay below the stored      *)
(* bound, for any number of servers and clients, any clocks, any crashes   *)
(* and any elections.  Puts of the bound may fail, and old leaders may put *)
(* theirs late; no request overflows the counter and none is answered      *)
(* after its server's lease is over.                                       *)
(***************************************************************************)
EXTENDS TSO, TLAPS

LEMMA NotLessChain ==
  ASSUME NEW t \in Stamps, NEW u \in Stamps, NEW v \in Stamps, ~ Less(u, t), ~ Less(v, u)
  PROVE  ~ Less(v, t)
BY DEF Less, Stamps

LEMMA LessChain ==
  ASSUME NEW t \in Stamps, NEW u \in Stamps, NEW v \in Stamps, ~ Less(u, t), Less(u, v)
  PROVE  Less(t, v)
BY DEF Less, Stamps


LEMMA ElectKeeps ==
  ASSUME TSOInv, Faults \subseteq {"putError", "linger"}, TypeOK', NEW n \in Servers, Elect(n)
  PROVE  TSOInv'
<1> USE TSOAssumption DEF TSOInv, TypeOK, Stamps, Requests, toTs, Zero, election, clock, history, stored
<1>1. HistoryInv' /\ Monotonic'
  BY DEF Elect, Quiet, HistoryInv, Monotonic, Less
<1>2. \A m \in Servers : ServerInv(m)' /\ OwnerInv(m)'
  BY DEF Elect, ServerInv, OwnerInv, Quiet, Less
<1>3. \A d \in Clients : RequestInv(d)'
  BY Zenon DEF Elect, RequestInv, ServerInv, isLeader, Less
<1> QED BY <1>1, <1>2, <1>3, Zenon

LEMMA DemoteKeeps ==
  ASSUME TSOInv, Faults \subseteq {"putError", "linger"}, TypeOK', NEW n \in Servers, Demote(n)
  PROVE  TSOInv'
<1> USE TSOAssumption DEF TSOInv, TypeOK, Stamps, Requests, toTs, Zero, election, clock, history, stored
<1>2. HistoryInv'
  BY Zenon DEF Demote, HistoryInv, Less, ToFollower, Busy
<1>3. Monotonic'
  BY Zenon DEF Demote, Monotonic, Less, ToFollower, Busy
<1>4. \A m \in Servers : ServerInv(m)'
  BY DEF Demote, ServerInv, Quiet, ToFollower, Busy
<1>5. \A m \in Servers : OwnerInv(m)'
  BY DEF Demote, OwnerInv, Less, ToFollower
<1>6. \A d \in Clients : RequestInv(d)'
  BY DEF Demote, RequestInv, ServerInv, isLeader, Less, ToFollower, Busy
<1> QED BY <1>2, <1>3, <1>4, <1>5, <1>6, Zenon

LEMMA OnFollowerKeeps ==
  ASSUME TSOInv, Faults \subseteq {"putError", "linger"}, TypeOK', NEW n \in Servers, OnFollower(n)
  PROVE  TSOInv'
<1> USE TSOAssumption DEF TSOInv, TypeOK, Stamps, Requests, toTs, Zero, election, clock, history, stored
<1>2. HistoryInv'
  BY Zenon DEF OnFollower, HistoryInv, Less
<1>3. Monotonic'
  BY Zenon DEF OnFollower, Monotonic, Less
<1>4. \A m \in Servers : ServerInv(m)'
  BY DEF OnFollower, ServerInv, Quiet
<1>5. \A m \in Servers : OwnerInv(m)'
  BY DEF OnFollower, OwnerInv, ServerInv, Quiet, Less
<1>6. \A d \in Clients : RequestInv(d)'
  BY Zenon DEF OnFollower, RequestInv, ServerInv, isLeader, Less
<1> QED BY <1>2, <1>3, <1>4, <1>5, <1>6, Zenon

LEMMA CrashKeeps ==
  ASSUME TSOInv, Faults \subseteq {"putError", "linger"}, TypeOK', NEW n \in Servers, Crash(n)
  PROVE  TSOInv'
<1> USE TSOAssumption DEF TSOInv, TypeOK, Stamps, Requests, toTs, Zero, election, clock, history, stored
<1>2. HistoryInv'
  BY Zenon DEF Crash, HistoryInv, Less, NoReq
<1>3. Monotonic'
  BY Zenon DEF Crash, Monotonic, Less, NoReq
<1>4. \A m \in Servers : ServerInv(m)'
  BY DEF Crash, ServerInv, Quiet, NoReq
<1>5. \A m \in Servers : OwnerInv(m)'
  BY DEF Crash, OwnerInv, ServerInv, Quiet, Less, NoReq
<1>6. \A d \in Clients : RequestInv(d)'
  BY Zenon DEF Crash, RequestInv, ServerInv, isLeader, Less, NoReq
<1> QED BY <1>2, <1>3, <1>4, <1>5, <1>6, Zenon

(* A put by the server that won the last election stores the bound; one by  *)
(* another server raises it, or loses it.                                   *)
LEMMA PutRaises ==
  ASSUME TypeOK, NEW n \in Servers, setTimestamp(n), bound' # "lost"
  PROVE  /\ bound # "lost" /\ kv' = tLast[n]
         /\ owner = n => bound' = "stored"
         /\ owner # n => bound' = bound /\ kv <= kv'
BY DEF setTimestamp, TypeOK

(* The bound and the other servers after such a put, if what n may have     *)
(* handed out is below it.                                                  *)
LEMMA PutKeeps ==
  ASSUME TSOInv, NEW n \in Servers, setTimestamp(n), kv' \in Nat,
         UNCHANGED <<issued, top, owner>>,
         owner = n /\ bound # "lost" => top.physical <= tLast[n]
  PROVE  /\ HistoryInv'
         /\ \A m \in Servers \ {n} :
              /\ epc'[m] = epc[m] /\ upc'[m] = upc[m] /\ ts'[m] = ts[m]
              /\ tNext'[m] = tNext[m] /\ tLast'[m] = tLast[m]
              => OwnerInv(m)'
<1> USE TSOAssumption DEF TSOInv, TypeOK, Stamps, Requests, election, clock, history, stored
<1>1. top.physical \in Nat /\ kv \in Nat /\ tLast[n] \in Nat
  OBVIOUS
<1>2. HistoryInv'
  <2>1. bound' = "stored" => top.physical <= kv'
    BY <1>1, PutRaises DEF HistoryInv
  <2> QED BY <2>1 DEF HistoryInv, Less
<1>3. ASSUME NEW m \in Servers \ {n}, epc'[m] = epc[m], upc'[m] = upc[m], ts'[m] = ts[m],
             tNext'[m] = tNext[m], tLast'[m] = tLast[m], owner = m, bound' # "lost"
      PROVE  OwnerInv(m)'
  <2>1. bound # "lost" /\ bound' = bound /\ kv <= kv'
    BY <1>3, PutRaises
  <2>2. ts[m].physical \in Nat /\ tNext[m] \in Nat /\ tLast[m] \in Nat
    OBVIOUS
  <2> QED BY <1>1, <1>3, <2>1, <2>2 DEF OwnerInv, Less
<1> QED BY <1>2, <1>3, Zenon DEF OwnerInv

LEMMA SyncPutKeeps ==
  ASSUME TSOInv, Faults \subseteq {"putError", "linger"}, TypeOK', NEW n \in Servers, SyncPut(n)
  PROVE  TSOInv'
<1> USE TSOAssumption DEF TSOInv, TypeOK, Stamps, Requests, election, clock, history, stored
<1>1. /\ setTimestamp(n) /\ epc[n] = "syncPut" /\ upc[n] = "off" /\ role[n] = "Leader"
      /\ epc' = [epc EXCEPT ![n] = "syncStore"] /\ tLast[n] = tNext[n] + Window /\ tNext[n] # 0
      /\ owner = n /\ bound # "lost" => top.physical < tNext[n]
      /\ UNCHANGED <<owner, valid, terms, role, upc, ts, tNext, tLast, req, issued, top>>
  BY Zenon DEF SyncPut, ServerInv, OwnerInv
<1>2. tNext[n] \in Nat /\ kv \in Nat /\ kv' \in Nat /\ Window \in Nat /\ top.physical \in Nat
  OBVIOUS
<1>3. owner = n /\ bound # "lost" => top.physical <= tLast[n]
  BY <1>1, <1>2
<1>4. HistoryInv' /\ \A m \in Servers \ {n} : OwnerInv(m)'
  BY <1>1, <1>2, <1>3, PutKeeps
<1>5. OwnerInv(n)'
  <2> SUFFICES ASSUME owner = n, bound' # "lost" PROVE OwnerInv(n)'
    BY <1>1, Zenon DEF OwnerInv
  <2>1. bound # "lost" /\ bound' = "stored" /\ kv' = tLast[n]
    BY <1>1, PutRaises
  <2> QED BY <1>1, <1>2, <2>1 DEF OwnerInv
<1>6. ASSUME NEW m \in Servers PROVE ServerInv(m)'
  BY <1>1 DEF ServerInv, Quiet
<1>7. Monotonic'
  BY <1>1, PutRaises, Zenon DEF Monotonic, Less, Zero, toTs
<1>8. \A d \in Clients : RequestInv(d)'
  BY <1>1, Zenon DEF RequestInv, isLeader, Less, Zero, toTs
<1> QED BY <1>4, <1>5, <1>6, <1>7, <1>8, Zenon

LEMMA SyncErrorKeeps ==
  ASSUME TSOInv, Faults \subseteq {"putError", "linger"}, TypeOK', NEW n \in Servers, SyncError(n)
  PROVE  TSOInv'
<1> USE TSOAssumption DEF TSOInv, TypeOK, Stamps, Requests, election, clock, history, stored
<1>1. /\ epc[n] \in {"onLeader", "syncPut"} /\ upc[n] = "off"
      /\ epc' = [epc EXCEPT ![n] = "onFollower"]
      /\ role' = [role EXCEPT ![n] = "Follower"]
      /\ ts' = [ts EXCEPT ![n] = Zero]
      /\ UNCHANGED <<owner, terms, upc, tNext, tLast, req, issued, top>>
  BY Zenon DEF SyncError, ServerInv, ToFollower
<1>2. tNext[n] \in Nat /\ kv \in Nat /\ kv' \in Nat /\ Window \in Nat /\ top.physical \in Nat
  OBVIOUS
<1>3. HistoryInv' /\ (\A m \in Servers \ {n} : OwnerInv(m)') /\ (bound' # "lost" => bound # "lost")
  <2>1. CASE UNCHANGED <<kv, bound>>
    <3>1. ASSUME NEW m \in Servers \ {n} PROVE OwnerInv(m)'
      BY <1>1, <2>1 DEF OwnerInv, Less
    <3> QED BY <1>1, <2>1, <3>1, Zenon DEF HistoryInv, Less
  <2>2. CASE epc[n] = "syncPut" /\ setTimestamp(n)
    <3>1. tLast[n] = tNext[n] + Window /\ (owner = n /\ bound # "lost" => top.physical < tNext[n])
      BY <2>2, Zenon DEF ServerInv, OwnerInv
    <3>2. owner = n /\ bound # "lost" => top.physical <= tLast[n]
      BY <1>2, <3>1
    <3> QED BY <1>1, <1>2, <2>2, <3>2, PutKeeps, PutRaises
  <2> QED BY <2>1, <2>2, Zenon DEF SyncError
<1>5. OwnerInv(n)'
  BY <1>1 DEF OwnerInv
<1>6. ASSUME NEW m \in Servers PROVE ServerInv(m)'
  BY <1>1 DEF ServerInv, Quiet, Zero, toTs
<1>7. Monotonic'
  BY <1>1, <1>3, Zenon DEF Monotonic, Less, Zero, toTs
<1>8. \A d \in Clients : RequestInv(d)'
  BY DEF SyncError, ToFollower, Busy, RequestInv, isLeader
<1> QED BY <1>3, <1>5, <1>6, <1>7, <1>8, Zenon

LEMMA SyncStoreKeeps ==
  ASSUME TSOInv, Faults \subseteq {"putError", "linger"}, TypeOK', NEW n \in Servers, SyncStore(n)
  PROVE  TSOInv'
<1> USE TSOAssumption DEF TSOInv, TypeOK, Stamps, Requests, toTs, Zero, election, clock, history, stored
<1>2. HistoryInv'
  BY Zenon DEF SyncStore, HistoryInv, Less
<1>3. Monotonic'
  BY Zenon DEF SyncStore, Monotonic, Less
<1>4. \A m \in Servers : ServerInv(m)'
  BY DEF SyncStore, ServerInv, Quiet, OwnerInv
<1>5. \A m \in Servers : OwnerInv(m)'
  BY DEF SyncStore, OwnerInv, ServerInv, Quiet, Less
<1>6. \A d \in Clients : RequestInv(d)'
  BY Zenon DEF SyncStore, RequestInv, ServerInv, isLeader, Less
<1> QED BY <1>2, <1>3, <1>4, <1>5, <1>6, Zenon

LEMMA UpdatePutKeeps ==
  ASSUME TSOInv, Faults \subseteq {"putError", "linger"}, TypeOK', NEW n \in Servers,
         UpdatePut(n) \/ UpdateError(n)
  PROVE  TSOInv'
<1> USE TSOAssumption DEF TSOInv, TypeOK, Stamps, Requests, election, clock, history, stored
<1>1. /\ upc[n] = "put" /\ tLast[n] = tNext[n] + Window /\ ts[n].physical < tNext[n]
      /\ epc[n] \notin {"onLeader", "syncPut", "syncStore"} /\ ~ Quiet(n)
      /\ ts[n].physical # 0 /\ (owner = n /\ bound # "lost" => Less(top, ts[n]))
      /\ UNCHANGED <<owner, valid, terms, role, epc, ts, tNext, tLast, req, issued, top>>
  BY Zenon DEF UpdatePut, UpdateError, ServerInv, OwnerInv
<1>2. PICK l \in {"idle", "store"} : upc' = [upc EXCEPT ![n] = l]
  BY Zenon DEF UpdatePut, UpdateError
<1>3. /\ tNext[n] \in Nat /\ kv \in Nat /\ kv' \in Nat /\ Window \in Nat
      /\ top.physical \in Nat /\ ts[n].physical \in Nat
  OBVIOUS
<1>4. HistoryInv' /\ (\A m \in Servers : OwnerInv(m)') /\ (bound' # "lost" => bound # "lost")
  <2>1. CASE setTimestamp(n)
    <3>1. owner = n /\ bound # "lost" => top.physical <= tLast[n]
      BY <1>1, <1>3 DEF Less
    <3>2. HistoryInv' /\ \A m \in Servers \ {n} : OwnerInv(m)'
      BY <1>1, <1>2, <1>3, <2>1, <3>1, PutKeeps
    <3>3. ASSUME owner = n, bound' # "lost" PROVE OwnerInv(n)'
      <4>1. bound # "lost" /\ bound' = "stored" /\ kv' = tLast[n]
        BY <2>1, <3>3, PutRaises
      <4> QED BY <1>1, <1>2, <1>3, <4>1 DEF OwnerInv, Less
    <3> QED BY <1>1, <2>1, <3>2, <3>3, PutRaises, Zenon DEF OwnerInv
  <2>2. CASE kv' = kv /\ bound' = (IF owner = n /\ bound = "stored" THEN "unsaved" ELSE bound)
             /\ UpdateError(n)
    <3>1. upc' = [upc EXCEPT ![n] = "idle"]
      BY <2>2, Zenon DEF UpdateError
    <3>2. HistoryInv' /\ (bound' # "lost" => bound # "lost")
      BY <1>1, <2>2 DEF HistoryInv, Less
    <3>3. ASSUME NEW m \in Servers PROVE OwnerInv(m)'
      BY <1>1, <2>2, <3>1 DEF OwnerInv, Less
    <3> QED BY <3>2, <3>3
  <2> QED BY <2>1, <2>2, Zenon DEF UpdatePut, UpdateError
<1>5. ASSUME NEW m \in Servers PROVE ServerInv(m)'
  BY <1>1, <1>2, <1>3 DEF ServerInv, Quiet
<1>6. Monotonic'
  BY <1>1, <1>4, Zenon DEF Monotonic, Less, Zero, toTs
<1>7. \A d \in Clients : RequestInv(d)'
  BY <1>1, <1>2 DEF RequestInv, isLeader, Less, Zero, toTs
<1> QED BY <1>4, <1>5, <1>6, <1>7, Zenon

LEMMA UpdateStoreKeeps ==
  ASSUME TSOInv, Faults \subseteq {"putError", "linger"}, TypeOK', NEW n \in Servers, UpdateStore(n)
  PROVE  TSOInv'
<1> USE TSOAssumption DEF TSOInv, TypeOK, Stamps, Requests, toTs, Zero, election, clock, history, stored
<1>2. HistoryInv'
  BY Zenon DEF UpdateStore, HistoryInv, Less
<1>3. Monotonic'
  BY Zenon DEF UpdateStore, Monotonic, Less
<1>4. \A m \in Servers : ServerInv(m)'
  BY DEF UpdateStore, ServerInv, Quiet
<1>5. \A m \in Servers : OwnerInv(m)'
  BY DEF UpdateStore, OwnerInv, ServerInv, Quiet, Less
<1>6. \A d \in Clients : RequestInv(d)'
  BY Zenon DEF UpdateStore, RequestInv, ServerInv, isLeader, Less
<1> QED BY <1>2, <1>3, <1>4, <1>5, <1>6, Zenon

LEMMA SyncStartKeeps ==
  ASSUME TSOInv, Faults \subseteq {"putError", "linger"}, TypeOK', NEW n \in Servers, NEW t \in Times, SyncStart(n, t)
  PROVE  TSOInv'
<1> USE TSOAssumption DEF TSOInv, TypeOK, Stamps, Requests, toTs, Zero, election, clock, history, stored
<1>2. HistoryInv'
  BY Zenon DEF SyncStart, HistoryInv, Less
<1>3. Monotonic'
  BY Zenon DEF SyncStart, Monotonic, Less
<1>4. \A m \in Servers : ServerInv(m)'
  BY SMTT(60) DEF SyncStart, ServerInv, Quiet
<1>5. \A m \in Servers : OwnerInv(m)'
  <2>1. /\ epc[n] = "onLeader" /\ upc[n] = "off"
        /\ UNCHANGED <<kv, bound, owner, upc, top>>
        /\ epc' = [epc EXCEPT ![n] = "syncPut"]
    BY Zenon DEF SyncStart, ServerInv
  <2>2. kv < tNext'[n]
    BY DEF SyncStart
  <2>3. ASSUME NEW m \in Servers, m # n
        PROVE ts'[m] = ts[m] /\ tNext'[m] = tNext[m] /\ tLast'[m] = tLast[m] /\ epc'[m] = epc[m]
    BY <2>3 DEF SyncStart
  <2>4. owner = n /\ bound # "lost" => bound = "stored" /\ top.physical <= kv
    BY <2>1, Zenon DEF OwnerInv, HistoryInv
  <2>5. OwnerInv(n)'
    BY <2>1, <2>2, <2>4 DEF OwnerInv
  <2>6. ASSUME NEW m \in Servers, m # n PROVE OwnerInv(m)'
    BY <2>1, <2>3, <2>6 DEF OwnerInv, Less
  <2> QED BY <2>5, <2>6
<1>6. \A d \in Clients : RequestInv(d)'
  BY Zenon DEF SyncStart, RequestInv, ServerInv, isLeader, Less
<1> QED BY <1>2, <1>3, <1>4, <1>5, <1>6, Zenon

LEMMA UpdateStartKeeps ==
  ASSUME TSOInv, Faults \subseteq {"putError", "linger"}, TypeOK', NEW n \in Servers, NEW t \in Times, UpdateStart(n, t)
  PROVE  TSOInv'
<1> USE TSOAssumption DEF TSOInv, TypeOK, Stamps, Requests, election, clock, history, stored
<1>1. PICK next \in Nat : UpdateTo(n, next) /\ ts[n].physical < next
  BY DEF UpdateStart, ServerInv
<1>2. /\ upc[n] = "idle"
      /\ UNCHANGED <<kv, bound, owner, valid, terms, role, epc, ts, req, issued, top>>
  BY Zenon DEF UpdateStart
<1>3. /\ tNext' = [tNext EXCEPT ![n] = next]
      /\ \/ /\ tLast' = [tLast EXCEPT ![n] = next + Window]
            /\ upc' = [upc EXCEPT ![n] = "put"]
         \/ /\ tLast[n] > next + 1 /\ tLast' = tLast
            /\ upc' = [upc EXCEPT ![n] = "store"]
  BY <1>1, <1>2 DEF UpdateTo
<1>4. ASSUME NEW m \in Servers PROVE OwnerInv(m)'
  BY <1>1, <1>2, <1>3 DEF OwnerInv, ServerInv, Less
<1>5. ASSUME NEW m \in Servers PROVE ServerInv(m)'
  BY <1>1, <1>2, <1>3 DEF ServerInv, Quiet
<1>6. HistoryInv' /\ Monotonic'
  BY <1>2, Zenon DEF HistoryInv, Monotonic, Less, Zero, toTs
<1>7. \A d \in Clients : RequestInv(d)'
  BY <1>2, <1>3 DEF RequestInv, isLeader, Less, Zero, toTs
<1> QED BY <1>4, <1>5, <1>6, <1>7, Zenon

LEMMA AskKeeps ==
  ASSUME TSOInv, Faults \subseteq {"putError", "linger"}, TypeOK', NEW n \in Servers, NEW c \in Clients, NEW k \in Sizes, Ask(c, n, k)
  PROVE  TSOInv'
<1> USE TSOAssumption DEF TSOInv, TypeOK, Stamps, Requests, toTs, Zero, election, clock, history, stored
<1>1. HistoryInv' /\ Monotonic'
  BY DEF Ask, Quiet, HistoryInv, Monotonic, Less
<1>2. \A m \in Servers : ServerInv(m)' /\ OwnerInv(m)'
  BY ZenonT(60) DEF Ask, ServerInv, OwnerInv, Quiet, Less
<1>3. \A d \in Clients : RequestInv(d)'
  BY DEF Ask, RequestInv, ServerInv, isLeader, Less
<1> QED BY <1>1, <1>2, <1>3, Zenon

LEMMA LoadKeeps ==
  ASSUME TSOInv, Faults \subseteq {"putError", "linger"}, TypeOK', NEW c \in Clients, Load(c)
  PROVE  TSOInv'
<1> USE TSOAssumption DEF TSOInv, TypeOK, Stamps, Requests, toTs, Zero, election, clock, history, stored
<1>1. HistoryInv' /\ Monotonic'
  BY DEF Load, Quiet, HistoryInv, Monotonic, Less, NoReq
<1>2. \A m \in Servers : ServerInv(m)' /\ OwnerInv(m)'
  BY ZenonT(60) DEF Load, ServerInv, OwnerInv, Quiet, Less, NoReq
<1>3. \A d \in Clients : RequestInv(d)'
  BY DEF Load, RequestInv, ServerInv, isLeader, Less, NoReq
<1> QED BY <1>1, <1>2, <1>3, Zenon

LEMMA AddOkKeeps ==
  ASSUME TSOInv, Faults \subseteq {"putError", "linger"}, TypeOK', NEW c \in Clients, AddOk(c)
  PROVE  TSOInv'
<1> USE TSOAssumption DEF TSOInv, TypeOK, Stamps, Requests, election, clock, history, stored
<1> DEFINE n == req[c].at  k == Needs(c)  t == ts[n]
           last == [physical |-> t.physical, logical |-> t.logical + k - 1]
<1>0. n \in Servers /\ isLeader(n) /\ ~ Quiet(n) /\ epc[n] # "onFollower"
  BY ZenonT(60) DEF AddOk, RequestInv, isLeader, Quiet, ServerInv
<1>1. k \in Nat /\ k > 0 /\ t.physical \in Nat /\ t.logical \in Nat /\ t.logical + k < MaxLogical
  BY <1>0 DEF AddOk, Needs, Overflows
<1>2. owner = n /\ upc[n] # "off"
  BY <1>0, Zenon DEF AddOk, RequestInv, ServerInv, isLeader
<1>3. /\ bound # "lost" => Less(top, t)
      /\ bound = "stored" => t.physical <= kv
  BY <1>0, <1>2, Zenon DEF OwnerInv
<1>4. t.physical # 0 /\ epc[n] \notin {"onLeader", "syncPut", "syncStore"}
  BY <1>0, <1>2, Zenon DEF ServerInv
<1>5. /\ ts' = [ts EXCEPT ![n] = [physical |-> t.physical, logical |-> t.logical + k]]
      /\ req' = [req EXCEPT ![c].pc = "idle", ![c].first = t]
      /\ UNCHANGED <<kv, bound, owner, valid, terms, role, epc, upc, tNext, tLast>>
  BY <1>0, <1>1, Zenon DEF AddOk, Take, Plus
<1>6. /\ last \in Stamps /\ top \in Stamps /\ top' \in Stamps
      /\ ~ Less(top', last) /\ ~ Less(top', top)
      /\ bound # "lost" => top' = last
  <2>1. top' = IF Less(top, last) THEN last ELSE top
    BY Zenon DEF AddOk
  <2>2. last \in Stamps
    BY <1>1
  <2>3. bound # "lost" => Less(top, last)
    BY <1>1, <1>3 DEF Less
  <2> HIDE DEF last
  <2>4. ~ Less(last, last) /\ ~ Less(top, top) /\ (Less(top, last) => ~ Less(last, top))
    BY <2>2 DEF Less
  <2> QED BY <2>1, <2>2, <2>3, <2>4, Zenon
<1>7. \A u \in issued' : u.physical # 0 /\ ~ Less(top', u)
  <2>1. ASSUME NEW u \in issued PROVE u.physical # 0 /\ ~ Less(top', u)
    <3>1. u.physical # 0 /\ ~ Less(top, u) /\ u \in Stamps
      BY ZenonT(60) DEF HistoryInv
    <3> QED BY <1>6, <3>1, NotLessChain, Zenon
  <2>2. ASSUME NEW i \in t.logical .. (t.logical + k - 1)
        PROVE  LET u == [physical |-> t.physical, logical |-> i]
               IN  u.physical # 0 /\ ~ Less(top', u)
    <3>1. [physical |-> t.physical, logical |-> i] \in Stamps
      BY <1>1, <2>2
    <3>2. ~ Less(last, [physical |-> t.physical, logical |-> i])
      BY <1>1, <2>2 DEF Less
    <3> HIDE DEF last
    <3> QED BY <1>4, <1>6, <3>1, <3>2, NotLessChain
  <2>3. issued' = issued \cup {[physical |-> t.physical, logical |-> i] : i \in t.logical .. (t.logical + k - 1)}
    BY Zenon DEF AddOk, Given, Block
  <2>4. ASSUME NEW u \in issued', u \notin issued PROVE u.physical # 0 /\ ~ Less(top', u)
    <3>1. PICK i \in t.logical .. (t.logical + k - 1) : u = [physical |-> t.physical, logical |-> i]
      BY <2>3, <2>4, ZenonT(60)
    <3> QED BY <2>2, <3>1, Zenon
  <2> QED BY <2>1, <2>4, ZenonT(60)
<1>8. HistoryInv'
  <2>1. bound' = "stored" => top'.physical <= kv'
    BY <1>3, <1>5, <1>6
  <2> QED BY <1>7, <2>1, Zenon DEF HistoryInv
<1>9. Monotonic'
  <2> SUFFICES ASSUME bound # "lost" PROVE Monotonic'
    BY <1>5, Zenon DEF Monotonic
  <2>1. ASSUME NEW d \in Clients, d # c PROVE req'[d] = req[d]
    BY <1>5, <2>1
  <2>2. req'[c].floor = req[c].floor /\ req'[c].first = t
    BY SMTT(60), <1>5
  <2>3. Less(req[c].floor, t)
    <3>1. ~ Less(top, req[c].floor)
      BY Zenon DEF AddOk, RequestInv
    <3>2. req[c].floor \in Stamps /\ top \in Stamps /\ t \in Stamps
      BY <1>0, Zenon
    <3> QED BY <1>3, <3>1, <3>2, LessChain
  <2>4. ASSUME NEW d \in Clients, req'[d].first # Zero
        PROVE  Less(req'[d].floor, req'[d].first)
    BY <2>1, <2>2, <2>3, <2>4, Zenon DEF Monotonic
  <2> QED BY <2>4, Zenon DEF Monotonic, Less, Zero, toTs
<1>10. ASSUME NEW m \in Servers PROVE ServerInv(m)'
  <2>1. ts'[m].physical = ts[m].physical
    BY <1>0, <1>5
  <2> QED BY <1>5, <2>1, Zenon DEF ServerInv, Quiet
<1>11. ASSUME NEW m \in Servers PROVE OwnerInv(m)'
  <2> SUFFICES ASSUME m = n, bound # "lost" PROVE OwnerInv(m)'
    BY <1>2, <1>5, Zenon DEF OwnerInv
  <2>1. ts'[n] = [physical |-> t.physical, logical |-> t.logical + k]
    BY <1>0, <1>5, ZenonT(60)
  <2>2. Less(top', ts'[n])
    BY SMTT(60), <1>1, <1>6, <2>1 DEF Less
  <2>3. /\ upc[n] \in {"idle", "store"} /\ bound = "stored" => tLast[n] <= kv
        /\ upc[n] = "store" /\ bound = "stored" => tNext[n] <= kv
    BY <1>0, <1>2, Zenon DEF OwnerInv
  <2>4. ts'[n].physical = t.physical
    BY <2>1
  <2> HIDE DEF t
  <2> QED BY <1>3, <1>4, <1>5, <2>2, <2>3, <2>4, Zenon DEF OwnerInv, Less
<1>12. ASSUME NEW d \in Clients PROVE RequestInv(d)'
  <2>1. CASE d = c
    BY SMTT(60), <1>5, <2>1 DEF RequestInv
  <2>2. CASE d # c
    <3>1. req'[d] = req[d] /\ req[d].floor \in Stamps /\ top \in Stamps
      BY SMTT(60), <1>5, <2>2
    <3>2. ~ Less(top, req[d].floor) => ~ Less(top', req[d].floor)
      BY <1>6, <3>1, NotLessChain, Zenon
    <3> QED BY SMTT(60), <1>5, <3>1, <3>2 DEF RequestInv, isLeader, Less, Zero, toTs
  <2> QED BY <2>1, <2>2, Zenon
<1> QED BY <1>8, <1>9, <1>10, <1>11, <1>12, Zenon

LEMMA AddErrorKeeps ==
  ASSUME TSOInv, Faults \subseteq {"putError", "linger"}, TypeOK', NEW c \in Clients, AddError(c)
  PROVE  TSOInv'
<1> USE TSOAssumption DEF TSOInv, TypeOK, Stamps, Requests, election, clock, history, stored
<1> DEFINE n == req[c].at  k == Needs(c)  t == ts[n]
<1>0. n \in Servers /\ isLeader(n) /\ ~ Quiet(n) /\ epc[n] # "onFollower"
  BY Zenon DEF AddError, RequestInv, isLeader, Quiet, ServerInv
<1>1. k \in Nat /\ k > 0 /\ t.physical \in Nat /\ t.logical \in Nat /\ t.logical + k < MaxLogical
  BY <1>0 DEF AddError, Needs, Overflows
<1>2. upc[n] = "off"
  BY <1>0 DEF AddError, ServerInv, Overflows
<1>3. /\ ts' = [ts EXCEPT ![n] = [physical |-> t.physical, logical |-> t.logical + k]]
      /\ req' = [req EXCEPT ![c] = NoReq]
      /\ UNCHANGED <<kv, bound, owner, valid, terms, role, epc, upc, tNext, tLast, issued, top>>
  BY <1>0, <1>1, Zenon DEF AddError, Take, Plus
<1>4. ASSUME NEW m \in Servers PROVE ServerInv(m)' /\ OwnerInv(m)'
  <2>1. CASE m = n
    <3>1. ts'[n].physical = t.physical /\ ServerInv(n)
      BY <1>0, <1>3, ZenonT(60)
    <3> QED BY <1>2, <1>3, <2>1, <3>1, Zenon DEF ServerInv, OwnerInv, Quiet
  <2>2. CASE m # n
    <3>1. ts'[m] = ts[m] /\ ServerInv(m) /\ OwnerInv(m)
      BY <1>3, <2>2, ZenonT(60)
    <3>2. ServerInv(m)'
      BY <1>3, <3>1, ZenonT(60) DEF ServerInv, Quiet
    <3>3. OwnerInv(m)'
      BY SMTT(60), <1>3, <3>1 DEF OwnerInv, Less
    <3> QED BY <3>2, <3>3, Zenon
  <2> QED BY <2>1, <2>2, Zenon
<1>5. HistoryInv' /\ Monotonic'
  BY SMTT(60), <1>3 DEF Quiet, HistoryInv, Monotonic, Less, Zero, toTs, NoReq
<1>6. \A d \in Clients : RequestInv(d)'
  BY <1>3 DEF RequestInv, isLeader, Less, Zero, toTs, NoReq
<1> QED BY <1>4, <1>5, <1>6, Zenon

LEMMA ExpireKeeps ==
  ASSUME TSOInv, Faults \subseteq {"putError", "linger"}, TypeOK', Expire
  PROVE  TSOInv'
<1> USE TSOAssumption DEF TSOInv, TypeOK, Stamps, Requests, toTs, Zero, election, clock, history, stored
<1>1. HistoryInv' /\ Monotonic'
  BY Zenon DEF Expire, Quiet, HistoryInv, Monotonic, Less, Busy
<1>2. \A m \in Servers : ServerInv(m)' /\ OwnerInv(m)'
  BY Zenon DEF Expire, ServerInv, OwnerInv, Quiet, Less, Busy
<1>3. \A d \in Clients : RequestInv(d)'
  BY DEF Expire, RequestInv, isLeader, Less, Busy
<1> QED BY <1>1, <1>2, <1>3, Zenon

LEMMA RenewKeeps ==
  ASSUME TSOInv, Faults \subseteq {"putError", "linger"}, TypeOK', Renew
  PROVE  TSOInv'
<1> USE TSOAssumption DEF TSOInv, TypeOK, Stamps, Requests, toTs, Zero, election, clock, history, stored
<1>1. HistoryInv' /\ Monotonic'
  BY Zenon DEF Renew, Quiet, HistoryInv, Monotonic, Less
<1>2. \A m \in Servers : ServerInv(m)' /\ OwnerInv(m)'
  BY Zenon DEF Renew, ServerInv, OwnerInv, Quiet, Less
<1>3. \A d \in Clients : RequestInv(d)'
  BY Zenon DEF Renew, RequestInv, ServerInv, isLeader, Less
<1> QED BY <1>1, <1>2, <1>3, Zenon

LEMMA AnswerType ==
  ASSUME NEW r \in Requests, NEW t \in Stamps
  PROVE  [r EXCEPT !.pc = "idle", !.first = t] \in Requests
BY Zenon DEF Requests

LEMMA PlusType ==
  ASSUME TypeOK, NEW t \in Stamps, NEW c \in Clients PROVE Plus(t, Needs(c)) \in Stamps
<1>1. Needs(c) \in 0 .. MaxLogical /\ MaxLogical \in Nat
  BY TSOAssumption DEF Needs, TypeOK, Requests
<1>2. t.physical \in Nat /\ t.logical \in 0 .. (MaxLogical - 1)
  BY Zenon DEF Stamps
<1>3. CASE t.logical + Needs(c) < MaxLogical
  BY <1>1, <1>2, <1>3 DEF Plus, Stamps
<1>4. CASE t.logical + Needs(c) >= MaxLogical
  <2>1. t.logical + Needs(c) - MaxLogical \in 0 .. (MaxLogical - 1)
    BY <1>1, <1>2, <1>4
  <2>2. Plus(t, Needs(c)) = [physical |-> t.physical + 1, logical |-> t.logical + Needs(c) - MaxLogical]
    BY <1>1, <1>2, <1>4 DEF Plus
  <2> QED BY <1>2, <2>1, <2>2 DEF Stamps
<1> QED BY <1>1, <1>2, <1>3, <1>4

(* A block that does not overflow consists of timestamps.                   *)
LEMMA BlockType ==
  ASSUME TypeOK, NEW c \in Clients, AddOk(c)
  PROVE  /\ Given(c) \subseteq Stamps /\ ts[req[c].at] \in Stamps
         /\ [physical |-> ts[req[c].at].physical,
             logical |-> ts[req[c].at].logical + Needs(c) - 1] \in Stamps
<1> DEFINE t == ts[req[c].at]  k == Needs(c)
<1>1. t \in Stamps
  BY Zenon DEF TypeOK, AddOk
<1>2. k \in Nat /\ k > 0 /\ MaxLogical \in Nat
  BY TSOAssumption DEF Needs, TypeOK, Requests
<1>3. t.physical \in Nat /\ t.logical \in Nat
  BY <1>1 DEF Stamps
<1>4. t.logical + k < MaxLogical
  BY <1>2, <1>3 DEF AddOk, Overflows
<1> HIDE DEF t, k
<1>5. ASSUME NEW i \in t.logical .. (t.logical + k - 1)
      PROVE  [physical |-> t.physical, logical |-> i] \in Stamps
  BY <1>2, <1>3, <1>4, <1>5 DEF Stamps
<1>6. t.logical + k - 1 \in t.logical .. (t.logical + k - 1)
  BY <1>2, <1>3
<1>7. Given(c) \subseteq Stamps
  BY <1>5, Zenon DEF Given, Block, t, k
<1> QED BY <1>1, <1>5, <1>6, <1>7, Zenon DEF t, k

(* Type correctness of the servers, the requests and the history.           *)
THEOREM TypeCorrect == Spec => []TypeOK
<1> USE TSOAssumption
<1>1. Zero \in Stamps /\ \A p \in Nat : toTs(p) \in Stamps
  BY DEF Stamps, toTs, Zero
<1>2. NoReq \in Requests /\ NoReq.pc = "idle"
  BY <1>1 DEF NoReq, Requests
<1>3. Init => TypeOK
  <2> SUFFICES ASSUME Init PROVE TypeOK
    OBVIOUS
  <2>1. req \in [Clients -> Requests] /\ \A c \in Clients : req[c].pc = "idle"
    BY <1>2, Zenon DEF Init
  <2>2. ts \in [Servers -> Stamps] /\ top \in Stamps
    BY <1>1, Zenon DEF Init
  <2> QED BY <2>1, <2>2, Zenon DEF Init, TypeOK
<1>4. TypeOK /\ [Next]_vars => TypeOK'
  <2> SUFFICES ASSUME TypeOK, [Next]_vars PROVE TypeOK'
    OBVIOUS
  <2> USE DEF TypeOK, election, clock, history, stored
  <2>1. ASSUME NEW n \in Servers, Elect(n) PROVE TypeOK'
    BY <2>1 DEF Elect
  <2>2. ASSUME NEW n \in Servers, Demote(n) PROVE TypeOK'
    BY <2>2, Zenon DEF Demote, ToFollower
  <2>3. ASSUME NEW n \in Servers, OnFollower(n) PROVE TypeOK'
    BY <1>1, <2>3, Zenon DEF OnFollower
  <2>4. ASSUME NEW n \in Servers, Crash(n) PROVE TypeOK'
    BY <1>1, <1>2, <2>4, Zenon DEF Crash
  <2>5. ASSUME NEW n \in Servers, SyncPut(n) PROVE TypeOK'
    BY <2>5, Zenon DEF SyncPut, setTimestamp
  <2>6. ASSUME NEW n \in Servers, SyncError(n) PROVE TypeOK'
    BY <1>1, <2>6, Zenon DEF SyncError, ToFollower, setTimestamp
  <2>7. ASSUME NEW n \in Servers, SyncStore(n) PROVE TypeOK'
    BY <1>1, <2>7, Zenon DEF SyncStore
  <2>8. ASSUME NEW n \in Servers, UpdatePut(n) PROVE TypeOK'
    BY <2>8, Zenon DEF UpdatePut, setTimestamp
  <2>9. ASSUME NEW n \in Servers, UpdateError(n) PROVE TypeOK'
    BY <2>9 DEF UpdateError, setTimestamp
  <2>10. ASSUME NEW n \in Servers, UpdateStore(n) PROVE TypeOK'
    BY <1>1, <2>10, Zenon DEF UpdateStore
  <2>11. ASSUME NEW n \in Servers, NEW t \in Times, SyncStart(n, t) PROVE TypeOK'
    BY <1>1, <2>11 DEF SyncStart
  <2>12. ASSUME NEW n \in Servers, NEW t \in Times, UpdateStart(n, t) PROVE TypeOK'
    <3>1. ts[n].physical \in Nat
      BY Zenon DEF Stamps
    <3>2. t \in Nat /\ ts[n].physical + 1 \in Nat
      BY <3>1, TSOAssumption
    <3>3. UpdateTo(n, t) \/ UpdateTo(n, ts[n].physical + 1)
      BY <2>12, Zenon DEF UpdateStart
    <3>4. PICK next \in Nat : UpdateTo(n, next)
      BY <3>2, <3>3, Zenon
    <3> QED BY <2>12, <3>4 DEF UpdateStart, UpdateTo
  <2>13. ASSUME NEW n \in Servers, NEW c \in Clients, NEW k \in Sizes, Ask(c, n, k) PROVE TypeOK'
    <3>1. [pc |-> IF k = 0 THEN "load" ELSE "add", at |-> n, size |-> k,
           floor |-> top, first |-> Zero] \in Requests
      BY <1>1, Zenon DEF Requests
    <3> QED BY <2>13, <3>1, Zenon DEF Ask
  <2>14. ASSUME NEW c \in Clients, Load(c) PROVE TypeOK'
    <3>1. [req[c] EXCEPT !.pc = "add"] \in Requests
      BY DEF Requests
    <3>2. CASE req' = [req EXCEPT ![c] = NoReq]
      BY <1>2, <2>14, <3>2 DEF Load
    <3>3. CASE req' = [req EXCEPT ![c] = [req[c] EXCEPT !.pc = "add"]]
      <4>1. req' \in [Clients -> Requests]
        BY <3>1, <3>3, Zenon
      <4>2. \A d \in Clients : req'[d].pc # "idle" => req'[d].at \in Servers
        BY <2>14, <3>3, Zenon DEF Load, Requests
      <4> QED BY <2>14, <4>1, <4>2, Zenon DEF Load
    <3> QED BY <2>14, <3>2, <3>3, Zenon DEF Load
  <2>15. ASSUME NEW c \in Clients, req[c].pc = "add", Take(c) PROVE ts' \in [Servers -> Stamps]
    BY <2>15, PlusType, Zenon DEF Take
  <2>16. ASSUME NEW c \in Clients, AddOk(c) PROVE TypeOK'
    <3>0. ts[req[c].at] \in Stamps
      BY <2>16, BlockType, Zenon
    <3>1. [req[c] EXCEPT !.pc = "idle", !.first = ts[req[c].at]] \in Requests
      BY <3>0, AnswerType, Zenon
    <3>2. req' = [req EXCEPT ![c] = [req[c] EXCEPT !.pc = "idle", !.first = ts[req[c].at]]]
      BY <2>16, Zenon DEF AddOk
    <3>3. req' \in [Clients -> Requests]
      BY <3>1, <3>2, Zenon
    <3>4. ASSUME NEW d \in Clients, req'[d].pc # "idle" PROVE req'[d].at \in Servers
      <4>1. req \in [Clients -> Requests] /\ (req[d].pc # "idle" => req[d].at \in Servers)
        BY Zenon
      <4>2. [req[c] EXCEPT !.pc = "idle", !.first = ts[req[c].at]].pc = "idle"
        BY <4>1 DEF Requests
      <4>3. req'[d] = req[d]
        BY <3>2, <3>4, <4>1, <4>2, Zenon
      <4> QED BY <3>4, <4>1, <4>3, Zenon
    <3>5. issued' \in SUBSET Stamps /\ top' \in Stamps
      BY <2>16, BlockType, Zenon DEF AddOk
    <3> QED BY <2>15, <2>16, <3>3, <3>4, <3>5, SMTT(20) DEF AddOk
  <2>17. ASSUME NEW c \in Clients, AddError(c) PROVE TypeOK'
    BY <1>2, <2>15, <2>17, Zenon DEF AddError
  <2>18. CASE Expire
    BY <2>18, Zenon DEF Expire
  <2>19. CASE Renew
    BY <2>19, Zenon DEF Renew
  <2>20. CASE UNCHANGED vars
    BY <2>20, Zenon DEF vars
  <2> HIDE DEF TypeOK
  <2> QED BY <2>1, <2>2, <2>3, <2>4, <2>5, <2>6, <2>7, <2>8, <2>9, <2>10, <2>11, <2>12, <2>13,
             <2>14, <2>16, <2>17, <2>18, <2>19, <2>20, Zenon DEF Next
<1> QED BY <1>3, <1>4, PTL DEF Spec

(* The invariant behind the theorems below, with failed and late puts.      *)
THEOREM TSOInvariant ==
  ASSUME Faults \subseteq {"putError", "linger"} PROVE Spec => []TSOInv
<1>1. Init /\ TypeOK => TSOInv
  BY SMTT(60) DEF Init, TSOInv, Quiet, HistoryInv, Monotonic, ServerInv, OwnerInv, RequestInv,
     NoReq, Zero, toTs
<1>2. TSOInv /\ TypeOK' /\ [Next]_vars => TSOInv'
  <2> SUFFICES ASSUME TSOInv, TypeOK', [Next]_vars PROVE TSOInv'
    OBVIOUS
  <2>1. CASE UNCHANGED vars
    <3> USE <2>1 DEF vars, election, clock, history, stored, TSOInv
    <3>1. HistoryInv' /\ Monotonic'
      BY Zenon DEF Quiet, HistoryInv, Monotonic, Less, Zero, toTs
    <3>2. ASSUME NEW n \in Servers PROVE ServerInv(n)' /\ OwnerInv(n)'
      BY Zenon DEF ServerInv, OwnerInv, Quiet, Less
    <3>3. ASSUME NEW c \in Clients PROVE RequestInv(c)'
      BY Zenon DEF RequestInv, isLeader, Less, Zero, toTs
    <3> QED BY <3>1, <3>2, <3>3, Zenon
  <2> QED BY <2>1, ElectKeeps, DemoteKeeps, OnFollowerKeeps, CrashKeeps, SyncPutKeeps,
             SyncErrorKeeps, SyncStoreKeeps, UpdatePutKeeps, UpdateStoreKeeps, SyncStartKeeps,
             UpdateStartKeeps, AskKeeps, LoadKeeps, AddOkKeeps, AddErrorKeeps, ExpireKeeps,
             RenewKeeps, Zenon DEF Next
<1> QED BY <1>1, <1>2, TypeCorrect, PTL DEF Spec

(* A timestamp is larger than all that were handed out before its client    *)
(* asked, as long as no bound was lost.                                     *)
THEOREM TimestampsRespectTime ==
  ASSUME Faults \subseteq {"putError", "linger"} PROVE Spec => []Monotonic
BY TSOInvariant, PTL DEF TSOInv

(* No timestamp is zero, whatever became of the bound, and none is above    *)
(* the bound in the metastore when the leader's last put succeeded.         *)
THEOREM TimestampsAreBounded ==
  ASSUME Faults \subseteq {"putError", "linger"} PROVE Spec => [](NeverZero /\ BoundPersisted)
<1>1. TSOInv => NeverZero /\ BoundPersisted
  <2> SUFFICES ASSUME TSOInv, NEW t \in issued
               PROVE  t.physical # 0 /\ (bound = "stored" => t.physical <= kv)
    BY Zenon DEF NeverZero, BoundPersisted
  <2>1. t \in Stamps /\ top \in Stamps /\ kv \in Nat
    BY Zenon DEF TSOInv, TypeOK
  <2>2. t.physical # 0 /\ ~ Less(top, t) /\ (bound = "stored" => top.physical <= kv)
    BY Zenon DEF TSOInv, HistoryInv
  <2> QED BY <2>1, <2>2 DEF Less, Stamps
<1> QED BY <1>1, TSOInvariant, PTL

(* No timestamp is handed out twice, as long as no bound was lost.          *)
THEOREM TimestampsAreUnique ==
  ASSUME Faults \subseteq {"putError", "linger"} PROVE Spec => Unique
<1>1. TSOInv /\ [Next]_vars =>
        [\A c \in Clients : AddOk(c) /\ bound # "lost" => Given(c) \cap issued = {}]_vars
  <2> SUFFICES ASSUME TSOInv, NEW c \in Clients, AddOk(c), bound # "lost",
                      NEW u \in Given(c), u \in issued
               PROVE  FALSE
    OBVIOUS
  <2> DEFINE n == req[c].at  t == ts[n]
  <2>1. n \in Servers /\ owner = n /\ TypeOK
    BY Zenon DEF TSOInv, RequestInv, AddOk, isLeader
  <2>2. upc[n] # "off"
    BY <2>1, Zenon DEF TSOInv, AddOk, RequestInv, ServerInv
  <2>3. Less(top, t) /\ ~ Less(top, u)
    BY <2>1, <2>2, Zenon DEF TSOInv, OwnerInv, HistoryInv
  <2>4. t \in Stamps /\ u \in Stamps /\ top \in Stamps
    BY <2>1, Zenon DEF TypeOK
  <2>5. u.physical = t.physical /\ u.logical >= t.logical
    BY DEF Given, Block
  <2> HIDE DEF t
  <2> QED BY <2>3, <2>4, <2>5 DEF Less, Stamps
<1> QED BY <1>1, TSOInvariant, PTL DEF Spec, Unique
=============================================================================
