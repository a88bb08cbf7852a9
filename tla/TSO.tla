-------------------------------- MODULE TSO ---------------------------------
(***************************************************************************)
(* The timestamp oracle.  The elected TSO server hands out timestamps from *)
(* an atomic word (physical time, logical counter); updateTSO moves the    *)
(* physical part, and keeps in the metastore an upper bound of what may    *)
(* have been handed out, from which the next leader goes on.               *)
(*                                                                         *)
(* The election is taken by its promise: isLeader() holds on one server at *)
(* most.  The machine clocks are arbitrary: a read of the clock returns    *)
(* any value.  What the deployment may do to the server is the set Faults: *)
(*   "overflow"  more requests than logical counters before an update      *)
(*   "putError"  the metastore fails to store the bound                    *)
(*   "stall"     the lease ends while a request is between its check of    *)
(*               the role and its answer                                   *)
(*   "linger"    a server is elected before the old leader's election      *)
(*               thread has noticed that its lease is over                 *)
(* is_kv_down is left out: it is raised for TSO_OPERATION_ERROR only, an   *)
(* error no metastore behind TSOProxy throws.                              *)
(***************************************************************************)
EXTENDS Integers, FiniteSets

CONSTANTS Servers, NoServer,
          Clients,
          Faults,
          MaxLogical,   \* MAX_LOGICAL
          Sizes,        \* sizes of requests: 0 is GetTimestamp, k > 0 GetTimestamps(k)
          Window,       \* tso_window
          Times,        \* values a clock shows
          MaxTerms,     \* bound: elections
          MaxIssued     \* bound: timestamps handed out

ASSUME TSOAssumption ==
  /\ NoServer \notin Servers
  /\ Faults \subseteq {"overflow", "putError", "stall", "linger"}
  /\ MaxLogical \in Nat \ {0}
  /\ Sizes \subseteq 0 .. (MaxLogical - 1)    \* the code: at most MAX_LOGICAL / 8
  /\ Window \in Nat
  /\ Times \subseteq Nat
  /\ MaxTerms \in Nat /\ MaxIssued \in Nat

VARIABLES
  kv,       \* the persisted bound, 0 when absent
  owner,    \* the server that won the last election
  valid,    \* its lease is not over
  terms,    \* how many elections there were
  role,     \* server -> role of its elector
  epc,      \* server -> where the elector thread is in its callbacks
  upc,      \* server -> where update_tso_task is
  ts,       \* server -> TSOImpl::ts
  tNext,    \* server -> t_next
  tLast,    \* server -> t_last
  req,      \* client -> its request
  issued,   \* history: timestamps handed out
  top,      \* history: the largest of them
  bound     \* history: what became of the last bound that the leader put: it
            \* is stored, is not (the put failed), or was lost with the leader
            \* or overwritten by an older one

election == <<owner, valid, terms>>
clock    == <<ts, tNext, tLast>>
history  == <<issued, top>>
stored   == <<kv, bound>>
vars     == <<stored, election, role, epc, upc, clock, req, history>>

(* The atomic word: physical time and logical counter (TSOClock); adding    *)
(* carries from the counter into the time.                                  *)
Stamps == [physical : Nat, logical : 0 .. (MaxLogical - 1)]
toTs(p) == [physical |-> p, logical |-> 0]
Plus(t, k) ==
  IF t.logical + k < MaxLogical
    THEN [physical |-> t.physical, logical |-> t.logical + k]
    ELSE [physical |-> t.physical + 1, logical |-> t.logical + k - MaxLogical]
Less(t, u) ==
  t.physical < u.physical \/ (t.physical = u.physical /\ t.logical < u.logical)
Zero == toTs(0)

isLeader(n) == role[n] = "Leader" /\ owner = n /\ valid

Requests == [pc : {"idle", "load", "add"}, at : Servers \cup {NoServer},
             size : 0 .. (MaxLogical - 1), floor : Stamps, first : Stamps]
NoReq == [pc |-> "idle", at |-> NoServer, size |-> 0, floor |-> Zero, first |-> Zero]
Busy(n) == \E c \in Clients : req[c].pc # "idle" /\ req[c].at = n

Init ==
  /\ kv = 0
  /\ owner = NoServer /\ valid = FALSE /\ terms = 0
  /\ role = [n \in Servers |-> "Follower"]
  /\ epc = [n \in Servers |-> "idle"]
  /\ upc = [n \in Servers |-> "off"]
  /\ ts = [n \in Servers |-> Zero]
  /\ tNext = [n \in Servers |-> 0]
  /\ tLast = [n \in Servers |-> 0]
  /\ req = [c \in Clients |-> NoReq]
  /\ issued = {} /\ top = Zero /\ bound = "stored"
-----------------------------------------------------------------------------
(* The election, as far as the callbacks and isLeader() can tell.           *)
Quiet(m) == role[m] = "Follower" /\ epc[m] = "idle"

Elect(n) ==
  /\ ~ valid /\ terms < MaxTerms /\ Quiet(n)
  /\ "linger" \in Faults \/ \A m \in Servers : Quiet(m)
  /\ owner' = n /\ valid' = TRUE /\ terms' = terms + 1
  /\ role' = [role EXCEPT ![n] = "Leader"]
  /\ epc' = [epc EXCEPT ![n] = "onLeader"]
  /\ bound' = IF bound = "stored" THEN "stored" ELSE "lost"
  /\ UNCHANGED <<kv, upc, clock, req, history>>

Expire ==
  /\ valid
  /\ "stall" \in Faults \/ ~ Busy(owner)
  /\ valid' = FALSE
  /\ UNCHANGED <<stored, owner, terms, role, epc, upc, clock, req, history>>

Renew ==
  /\ ~ valid /\ owner # NoServer /\ role[owner] = "Leader"
  /\ valid' = TRUE
  /\ UNCHANGED <<stored, owner, terms, role, epc, upc, clock, req, history>>

(* setRole(Follower): the role is written, then on_follower is called.      *)
ToFollower(n) ==
  /\ role' = [role EXCEPT ![n] = "Follower"]
  /\ epc' = [epc EXCEPT ![n] = "onFollower"]
  /\ valid' = (valid /\ owner # n)

(* The lease is lost, has expired or is given back; checkLogicalClock asks  *)
(* for it too.                                                              *)
Demote(n) ==
  /\ role[n] = "Leader" /\ epc[n] = "idle"
  /\ "stall" \in Faults \/ ~ Busy(n)
  /\ ToFollower(n)
  /\ UNCHANGED <<stored, owner, terms, upc, clock, req, history>>

(* onFollower: deactivate() waits for a running updateTSO.                  *)
OnFollower(n) ==
  /\ epc[n] = "onFollower" /\ upc[n] \in {"off", "idle"}
  /\ upc' = [upc EXCEPT ![n] = "off"]
  /\ ts' = [ts EXCEPT ![n] = Zero]
  /\ epc' = [epc EXCEPT ![n] = "idle"]
  /\ UNCHANGED <<stored, election, role, tNext, tLast, req, history>>

(* The process dies and is started again; its clients get errors.           *)
Crash(n) ==
  /\ ~ Quiet(n)
  /\ role' = [role EXCEPT ![n] = "Follower"]
  /\ epc' = [epc EXCEPT ![n] = "idle"]
  /\ upc' = [upc EXCEPT ![n] = "off"]
  /\ ts' = [ts EXCEPT ![n] = Zero]
  /\ tNext' = [tNext EXCEPT ![n] = 0]
  /\ tLast' = [tLast EXCEPT ![n] = 0]
  /\ req' = [c \in Clients |-> IF req[c].at = n THEN NoReq ELSE req[c]]
  /\ UNCHANGED <<stored, election, history>>
-----------------------------------------------------------------------------
(* TSOProxy::setTimestamp puts without a condition, whoever leads by then:  *)
(* the put of an old leader may lower the bound of the new one.             *)
setTimestamp(n) ==
  /\ kv' = tLast[n]
  /\ bound' = IF bound = "lost" \/ (owner # n /\ tLast[n] < kv) THEN "lost"
              ELSE IF owner = n THEN "stored" ELSE bound

(* onLeader and syncTSO: read the clock t and the bound, store the new      *)
(* bound, then open the window.                                             *)
SyncStart_Clock(n, t) ==    \* mutant: the stored bound is not looked at
  LET next == IF t = 0 THEN 1 ELSE t
  IN  /\ epc[n] = "onLeader"
      /\ epc' = [epc EXCEPT ![n] = "syncPut"]
      /\ ts' = [ts EXCEPT ![n] = Zero]
      /\ tNext' = [tNext EXCEPT ![n] = next]
      /\ tLast' = [tLast EXCEPT ![n] = next + Window]
      /\ UNCHANGED <<stored, election, role, upc, req, history>>

SyncStart(n, t) ==
  LET next == IF kv = 0 THEN (IF t = 0 THEN 1 ELSE t)
              ELSE (IF t < kv + 1 THEN kv + 1 ELSE t)
  IN  /\ epc[n] = "onLeader"
      /\ epc' = [epc EXCEPT ![n] = "syncPut"]
      /\ ts' = [ts EXCEPT ![n] = Zero]
      /\ tNext' = [tNext EXCEPT ![n] = next]
      /\ tLast' = [tLast EXCEPT ![n] = next + Window]
      /\ UNCHANGED <<stored, election, role, upc, req, history>>

SyncPut(n) ==
  /\ epc[n] = "syncPut"
  /\ setTimestamp(n)
  /\ epc' = [epc EXCEPT ![n] = "syncStore"]
  /\ UNCHANGED <<election, role, upc, clock, req, history>>

(* The metastore fails, with or without storing the bound: on_leader fails  *)
(* and the server yields.                                                   *)
SyncError(n) ==
  /\ epc[n] \in {"onLeader", "syncPut"}
  /\ "stall" \in Faults \/ ~ Busy(n)
  /\ ToFollower(n)
  /\ UNCHANGED stored \/ (epc[n] = "syncPut" /\ setTimestamp(n))
  /\ ts' = [ts EXCEPT ![n] = Zero]
  /\ UNCHANGED <<owner, terms, upc, tNext, tLast, req, history>>

SyncStore(n) ==
  /\ epc[n] = "syncStore"
  /\ ts' = [ts EXCEPT ![n] = toTs(tNext[n])]
  /\ upc' = [upc EXCEPT ![n] = "idle"]
  /\ epc' = [epc EXCEPT ![n] = "idle"]
  /\ UNCHANGED <<stored, election, role, tNext, tLast, req, history>>
-----------------------------------------------------------------------------
(* updateTSO: follow the clock t, or make room when more than half of the   *)
(* logical counters are used; t_last moves before it is stored.             *)
UpdateTo(n, next) ==
  /\ tNext' = [tNext EXCEPT ![n] = next]
  /\ IF tLast[n] <= next + 1
       THEN /\ tLast' = [tLast EXCEPT ![n] = next + Window]
            /\ upc' = [upc EXCEPT ![n] = "put"]
       ELSE /\ upc' = [upc EXCEPT ![n] = "store"]
            /\ UNCHANGED tLast

(* Mutant: the physical time follows the clock backwards too.               *)
UpdateStart_AnyClock(n, t) ==
  /\ upc[n] = "idle"
  /\ UpdateTo(n, t)
  /\ UNCHANGED <<stored, election, role, epc, ts, req, history>>

UpdateStart_ClockOnly(n, t) ==    \* mutant: used counters are not looked at
  /\ upc[n] = "idle"
  /\ t > tNext[n] + 1 /\ UpdateTo(n, t)
  /\ UNCHANGED <<stored, election, role, epc, ts, req, history>>

UpdateStart(n, t) ==
  /\ upc[n] = "idle"
  /\ \/ t > tNext[n] + 1 /\ UpdateTo(n, t)
     \/ /\ t <= tNext[n] + 1
        /\ ts[n].logical > MaxLogical \div 2
        /\ UpdateTo(n, ts[n].physical + 1)
  /\ UNCHANGED <<stored, election, role, epc, ts, req, history>>

(* Mutant: the new bound is not stored.                                     *)
UpdatePut_Lost(n) ==
  /\ upc[n] = "put"
  /\ upc' = [upc EXCEPT ![n] = "store"]
  /\ UNCHANGED <<stored, election, role, epc, clock, req, history>>

UpdatePut(n) ==
  /\ upc[n] = "put"
  /\ setTimestamp(n)
  /\ upc' = [upc EXCEPT ![n] = "store"]
  /\ UNCHANGED <<election, role, epc, clock, req, history>>

(* The put fails, with or without storing the bound; t_last has moved, and  *)
(* the next updates go by it.                                               *)
UpdateError(n) ==
  /\ upc[n] = "put" /\ "putError" \in Faults
  /\ \/ setTimestamp(n)
     \/ /\ UNCHANGED kv
        /\ bound' = IF owner = n /\ bound = "stored" THEN "unsaved" ELSE bound
  /\ upc' = [upc EXCEPT ![n] = "idle"]
  /\ UNCHANGED <<election, role, epc, clock, req, history>>

UpdateStore(n) ==
  /\ upc[n] = "store"
  /\ ts' = [ts EXCEPT ![n] = toTs(tNext[n])]
  /\ upc' = [upc EXCEPT ![n] = "idle"]
  /\ UNCHANGED <<stored, election, role, epc, tNext, tLast, req, history>>
-----------------------------------------------------------------------------
(* A client asks n for k timestamps (GetTimestamp when k is 0), and n       *)
(* checks its role.                                                         *)
Ask(c, n, k) ==
  /\ req[c].pc = "idle" /\ isLeader(n)
  /\ Cardinality(issued) < MaxIssued
  /\ req' = [req EXCEPT ![c] = [pc |-> IF k = 0 THEN "load" ELSE "add", at |-> n,
                                size |-> k, floor |-> top, first |-> Zero]]
  /\ UNCHANGED <<stored, election, role, epc, upc, clock, history>>

(* GetTimestamp only: a server without a physical time is not ready.        *)
Load(c) ==
  /\ req[c].pc = "load"
  /\ req' = IF ts[req[c].at].physical = 0
              THEN [req EXCEPT ![c] = NoReq]
              ELSE [req EXCEPT ![c].pc = "add"]
  /\ UNCHANGED <<stored, election, role, epc, upc, clock, history>>

Needs(c) == IF req[c].size = 0 THEN 1 ELSE req[c].size

(* fetchAddLogical: on overflow the client gets an error, and the carry has *)
(* moved the physical part.                                                 *)
Overflows(t, k) == t.logical + k >= MaxLogical

Take(c) == ts' = [ts EXCEPT ![req[c].at] = Plus(@, Needs(c))]

Block(t, k) == {[physical |-> t.physical, logical |-> i] : i \in t.logical .. (t.logical + k - 1)}
Given(c) == Block(ts[req[c].at], Needs(c))

AddOk(c) ==
  LET t == ts[req[c].at]
      last == [physical |-> t.physical, logical |-> t.logical + Needs(c) - 1]
  IN  /\ req[c].pc = "add" /\ ~ Overflows(t, Needs(c))
      /\ req[c].size = 0 \/ t.physical # 0
      /\ Take(c)
      /\ issued' = issued \cup Given(c)
      /\ top' = IF Less(top, last) THEN last ELSE top
      /\ req' = [req EXCEPT ![c].pc = "idle", ![c].first = t]
      /\ UNCHANGED <<stored, election, role, epc, upc, tNext, tLast>>

AddError(c) ==
  LET t == ts[req[c].at]
  IN  /\ req[c].pc = "add"
      /\ \/ Overflows(t, Needs(c)) /\ "overflow" \in Faults
         \/ ~ Overflows(t, Needs(c)) /\ req[c].size > 0 /\ t.physical = 0
      /\ Take(c)
      /\ req' = [req EXCEPT ![c] = NoReq]
      /\ UNCHANGED <<stored, election, role, epc, upc, tNext, tLast, history>>

Next ==
  \/ \E n \in Servers :
       \/ Elect(n) \/ Demote(n) \/ OnFollower(n) \/ Crash(n)
       \/ SyncPut(n) \/ SyncError(n) \/ SyncStore(n)
       \/ UpdatePut(n) \/ UpdateError(n) \/ UpdateStore(n)
       \/ \E t \in Times : SyncStart(n, t) \/ UpdateStart(n, t)
       \/ \E c \in Clients, k \in Sizes : Ask(c, n, k)
  \/ \E c \in Clients : Load(c) \/ AddOk(c) \/ AddError(c)
  \/ Expire \/ Renew

Spec == Init /\ [][Next]_vars

(* update_tso_task is scheduled again and again, and the callbacks return.  *)
Fairness ==
  \A n \in Servers :
    /\ WF_vars(\E t \in Times : UpdateStart(n, t))
    /\ WF_vars(UpdatePut(n) \/ UpdateStore(n) \/ OnFollower(n))
FairSpec == Spec /\ Fairness
-----------------------------------------------------------------------------
TypeOK ==
  /\ kv \in Nat
  /\ owner \in Servers \cup {NoServer} /\ valid \in BOOLEAN /\ terms \in Nat
  /\ role \in [Servers -> {"Follower", "Leader"}]
  /\ epc \in [Servers -> {"idle", "onLeader", "syncPut", "syncStore", "onFollower"}]
  /\ upc \in [Servers -> {"off", "idle", "put", "store"}]
  /\ ts \in [Servers -> Stamps]
  /\ tNext \in [Servers -> Nat] /\ tLast \in [Servers -> Nat]
  /\ req \in [Clients -> Requests]
  /\ \A c \in Clients : req[c].pc # "idle" => req[c].at \in Servers
  /\ issued \in SUBSET Stamps /\ top \in Stamps
  /\ bound \in {"stored", "unsaved", "lost"}

(* Timestamps respect real time: one that a client gets is larger than      *)
(* every timestamp that anyone got before the client asked.  Failed puts    *)
(* and late puts of an old leader may happen, as long as no leader starts   *)
(* after a bound was lost.                                                  *)
Monotonic ==
  bound # "lost" => \A c \in Clients : req[c].first # Zero => Less(req[c].floor, req[c].first)

(* No timestamp is handed out twice, by one leader or by two, unless a      *)
(* bound was lost.                                                          *)
Unique == [][\A c \in Clients : AddOk(c) /\ bound # "lost" => Given(c) \cap issued = {}]_vars

(* "avoid MVCC version is zero": a timestamp has a physical part.           *)
NeverZero == \A t \in issued : t.physical # 0

(* Nothing above the bound in the metastore has been handed out, whenever   *)
(* the last put of the leader succeeded: in particular a put that succeeds  *)
(* after some that failed makes up for them, and a late put of an old       *)
(* leader does no harm unless it lowers the bound.                          *)
BoundPersisted == bound = "stored" => \A t \in issued : t.physical <= kv

(* t_last is the "TSO physical time upper bound (persist in KV)".           *)
UpperBound == \A t \in issued : t.physical <= kv

(* What a server keeps, whatever became of the bound.                       *)
ServerInv(n) ==
  /\ upc[n] = "off" => ts[n].physical = 0
  /\ Quiet(n) => upc[n] = "off"
  /\ epc[n] = "onFollower" => role[n] = "Follower"
  /\ epc[n] \in {"onLeader", "syncPut", "syncStore"} => upc[n] = "off" /\ role[n] = "Leader"
  /\ epc[n] \in {"syncPut", "syncStore"} => tNext[n] # 0 /\ tLast[n] = tNext[n] + Window
  /\ upc[n] # "off" => ts[n].physical # 0
  /\ upc[n] = "put" => tLast[n] = tNext[n] + Window
  /\ upc[n] \in {"idle", "put", "store"} => ts[n].physical <= tNext[n]
  /\ upc[n] \in {"put", "store"} => ts[n].physical < tNext[n]

(* What the server that won the last election and the bound have in common, *)
(* while no bound is lost: what the server will hand out is above all that  *)
(* was handed out and, while the bound is stored, not above the bound.      *)
OwnerInv(n) ==
  owner = n /\ bound # "lost" =>
    /\ epc[n] \in {"onLeader", "syncPut", "syncStore"} => bound = "stored"
    /\ epc[n] \in {"syncPut", "syncStore"} => top.physical < tNext[n]
    /\ epc[n] = "syncStore" => tLast[n] <= kv
    /\ upc[n] # "off" => Less(top, ts[n])
    /\ upc[n] # "off" /\ bound = "stored" => ts[n].physical <= kv
    /\ upc[n] \in {"idle", "store"} /\ bound = "stored" => tLast[n] <= kv
    /\ upc[n] = "store" /\ bound = "stored" => tNext[n] <= kv

RequestInv(c) ==
  /\ req[c].pc # "idle" =>
       /\ req[c].at \in Servers /\ isLeader(req[c].at)
       /\ req[c].first = Zero /\ ~ Less(top, req[c].floor)
  /\ req[c].pc = "load" => req[c].size = 0
  /\ req[c].pc = "add" /\ req[c].size = 0 => upc[req[c].at] # "off"

HistoryInv ==
  /\ \A t \in issued : t.physical # 0 /\ ~ Less(top, t)
  /\ bound = "stored" => top.physical <= kv

TSOInv ==
  /\ TypeOK /\ HistoryInv /\ Monotonic
  /\ \A n \in Servers : ServerInv(n) /\ OwnerInv(n)
  /\ \A c \in Clients : RequestInv(c)

(* A leader that has used up most of its counters gets new ones, or leaves. *)
CountersRefilled ==
  \A n \in Servers :
    upc[n] # "off" /\ ts[n].logical > MaxLogical \div 2
      ~> upc[n] = "off" \/ ts[n].logical <= MaxLogical \div 2
=============================================================================
