----------------------------- MODULE SlotProofs -----------------------------
(***************************************************************************)
(* Theorems about the slots of Dispatch: what the counters say while       *)
(* servers are replaced and removed under running requests, and that       *)
(* handlers, router, worker and queue implement the leases of module Lease *)
(* on a pool that stays, through the shutdown of the process too.          *)
(***************************************************************************)
EXTENDS DispatchProofs, Lifecycle

-----------------------------------------------------------------------------
(* GaugeNeverOvercounts is not inductive: a process that has yet to        *)
(* decrement a client object that is no longer in the map is a holder, but *)
(* its decrement will not move the counter that the router reads.  The     *)
(* bound holds without such processes.                                     *)

Counted(u) == {p \in Holders(u) : pc[p] \in {"check", "dec"} => bc[p] = clients[u]}

Bound ==
  \A u \in Servers : clients[u] # 0 =>
    Inflight(u) <= Cardinality(Counted(u)) + Cardinality(InChannels(u))

(* No process has a pointer to a client yet to be made, whose counter is 0. *)
Fresh ==
  /\ \A u \in Servers : clients[u] <= made[u]
  /\ \A u \in Servers, g \in Generations : g > made[u] => inflight[u][g] = 0
  /\ \A p \in Procs : pc[p] \in {"inc", "check", "dec"} => bc[p] <= made[conn[p]]

GaugeInv == TypeInv /\ Fresh /\ Bound

LEMMA CountedFinite ==
  ASSUME NEW u
  PROVE  /\ IsFiniteSet(Counted(u)) /\ Cardinality(Counted(u)) \in Nat
         /\ Cardinality(Counted(u)) <= Cardinality(Holders(u))
<1>1. Counted(u) \subseteq Holders(u)
  BY DEF Counted
<1> QED  BY <1>1, SlotsFinite, FS_Subset, FS_CardinalityType

(* No counter moves and no slot that is counted gets lost.                 *)
LEMMA BoundQuiet ==
  ASSUME TypeInv, Bound, UNCHANGED <<clients, inflight>>,
         \A u \in Servers : Counted(u) \subseteq Counted(u)',
         \A u \in Servers : InChannels(u) \subseteq InChannels(u)'
  PROVE  Bound'
<1> SUFFICES ASSUME NEW u \in Servers, clients[u] # 0
             PROVE  Inflight(u)' <= Cardinality(Counted(u)') + Cardinality(InChannels(u)')
  BY DEF Bound
<1>1. Inflight(u)' = Inflight(u) /\ Inflight(u) \in Int
  BY InflightType DEF Inflight
<1>2. IsFiniteSet(Counted(u)') /\ IsFiniteSet(InChannels(u)')
  <2>1. IsFiniteSet(Procs)
    BY FS_AddElement, RouterAssumption DEF Procs
  <2>2. Counted(u)' \subseteq Procs /\ InChannels(u)' \subseteq Requests
    BY DEF Counted, Holders, InChannels
  <2> QED  BY <2>1, <2>2, FS_Subset, RouterAssumption
<1>3. Cardinality(Counted(u)) <= Cardinality(Counted(u)')
  BY <1>2, FS_Subset
<1>4. Cardinality(InChannels(u)) <= Cardinality(InChannels(u)')
  BY <1>2, FS_Subset
<1>5. /\ Cardinality(Counted(u)) \in Nat /\ Cardinality(InChannels(u)) \in Nat
      /\ Cardinality(Counted(u)') \in Nat /\ Cardinality(InChannels(u)') \in Nat
  BY <1>2, CountedFinite, SlotsFinite, FS_CardinalityType
<1>6. Inflight(u) <= Cardinality(Counted(u)) + Cardinality(InChannels(u))
  BY DEF Bound
<1> QED  BY <1>1, <1>3, <1>4, <1>5, <1>6

(* A slot of process p or in the channel of r moves, and no counter in the *)
(* map moves further up than the slots.                                    *)
LEMMA BoundStep ==
  ASSUME TypeInv, TypeInv', Bound, NEW p \in Procs, NEW r \in Requests, UNCHANGED clients,
         \A q \in Procs \ {p} : pc'[q] = pc[q] /\ conn'[q] = conn[q] /\ bc'[q] = bc[q],
         \A q \in Requests \ {r} : answer'[q] = answer[q] /\ answerConn'[q] = answerConn[q],
         \A u \in Servers : clients[u] # 0 =>
           Inflight(u)' - Inflight(u) <=
               (IF p \in Counted(u)' THEN 1 ELSE 0) - (IF p \in Counted(u) THEN 1 ELSE 0)
             + (IF r \in InChannels(u)' THEN 1 ELSE 0) - (IF r \in InChannels(u) THEN 1 ELSE 0)
  PROVE  Bound'
<1> SUFFICES ASSUME NEW u \in Servers, clients[u] # 0
             PROVE  Inflight(u)' <= Cardinality(Counted(u)') + Cardinality(InChannels(u)')
  BY DEF Bound
<1> DEFINE H == Counted(u)
           C == InChannels(u)
<1>1. Inflight(u) \in Int /\ Inflight(u)' \in Int
  <2>1. Inflight(u) \in Int
    BY InflightType
  <2>2. clients'[u] # 0 => clients'[u] \in Generations
    BY PoolAssumption DEF TypeInv, TypeOK, PoolTypeOK, Generations
  <2>3. Inflight(u)' \in Int
    BY <2>2 DEF Inflight, TypeInv, TypeOK, PoolTypeOK
  <2> QED  BY <2>1, <2>3
<1>2. Cardinality(H') = Cardinality(H) + (IF p \in H' THEN 1 ELSE 0) - (IF p \in H THEN 1 ELSE 0)
  <2>1. H' \subseteq H \cup {p} /\ H \subseteq H' \cup {p}
    BY DEF Counted, Holders
  <2> QED  BY <2>1, CountedFinite, CardStep
<1>3. Cardinality(C') = Cardinality(C) + (IF r \in C' THEN 1 ELSE 0) - (IF r \in C THEN 1 ELSE 0)
  <2>1. C' \subseteq C \cup {r} /\ C \subseteq C' \cup {r}
    BY DEF InChannels
  <2> QED  BY <2>1, SlotsFinite, CardStep
<1>4. /\ Inflight(u) <= Cardinality(H) + Cardinality(C)
      /\ Cardinality(H) \in Int /\ Cardinality(C) \in Int
  BY CountedFinite, SlotsFinite DEF Bound
<1> DEFINE a == IF p \in H' THEN 1 ELSE 0
           b == IF p \in H THEN 1 ELSE 0
           c == IF r \in C' THEN 1 ELSE 0
           d == IF r \in C THEN 1 ELSE 0
           cH == Cardinality(H')
           cC == Cardinality(C')
           x == Inflight(u)
           y == Inflight(u)'
<1>5. y - x <= a - b + c - d
  OBVIOUS
<1>6. a \in Int /\ b \in Int /\ c \in Int /\ d \in Int
  OBVIOUS
<1>7. cH = Cardinality(H) + a - b /\ cC = Cardinality(C) + c - d
  BY <1>2, <1>3
<1>8. x \in Int /\ y \in Int /\ x <= Cardinality(H) + Cardinality(C)
  BY <1>1, <1>4
<1> HIDE DEF a, b, c, d, cH, cC, H, C, x, y
<1>9. y <= cH + cC
  BY <1>4, <1>5, <1>6, <1>7, <1>8
<1> QED  BY <1>9 DEF cH, cC, H, C, y

-----------------------------------------------------------------------------
(* The steps that take no slot and give none back.                         *)

LEMMA GaugeMove ==
  ASSUME GaugeInv, NEW p \in Procs, NEW l, Goto(p, l),
         pc[p] \in HoldingPoints => l \in HoldingPoints,
         l \notin {"inc", "check", "dec"},
         UNCHANGED <<clients, made, inflight, conn, bc, answer, answerConn>>
  PROVE  Fresh' /\ Bound'
<1>1. \A q \in Procs : pc'[q] = (IF q = p THEN l ELSE pc[q])
  BY DEF GaugeInv, TypeInv, TypeOK, Goto
<1>2. Fresh'
  BY <1>1 DEF GaugeInv, Fresh
<1>3. \A u \in Servers : Counted(u) \subseteq Counted(u)' /\ InChannels(u) \subseteq InChannels(u)'
  BY <1>1 DEF Counted, Holders, InChannels
<1> QED  BY <1>2, <1>3, BoundQuiet DEF GaugeInv

(* No process moves and no channel changes.                                *)
LEMMA GaugeStill ==
  ASSUME GaugeInv, UNCHANGED <<clients, made, inflight, pc, conn, bc>>,
         \A r \in Requests : answer[r] = "conn" => answer'[r] = "conn" /\ answerConn'[r] = answerConn[r]
  PROVE  Fresh' /\ Bound'
<1>1. Fresh'
  BY DEF GaugeInv, Fresh
<1>2. \A u \in Servers : Counted(u) \subseteq Counted(u)' /\ InChannels(u) \subseteq InChannels(u)'
  BY DEF Counted, Holders, InChannels
<1> QED  BY <1>1, <1>2, BoundQuiet DEF GaugeInv

LEMMA RouteGaugeQuiet ==
  ASSUME GaugeInv, NEW p \in Procs, NEW r \in Requests, UNCHANGED queueVars,
         \/ RouteBegin(p, r) \/ Inspect(p) \/ LoadInflight(p) \/ PickGroup(p, r)
         \/ Fallback(p)
  PROVE  Fresh' /\ Bound'
<1>1. /\ UNCHANGED <<clients, made, inflight, conn, bc, answer, answerConn>>
      /\ pc[p] \notin HoldingPoints
  BY DEF RouteBegin, Inspect, LoadInflight, PickGroup, Fallback, poolVars, queueVars, HoldingPoints
<1>2. \/ UNCHANGED pc
      \/ \E l \in {"inspect", "load", "try", "failed", "done", "ensure"} : Goto(p, l)
  <2>1. CASE RouteBegin(p, r) \/ Inspect(p) \/ LoadInflight(p)
    BY <2>1 DEF RouteBegin, Inspect, LoadInflight, RouteFails, NextServer
  <2>2. CASE PickGroup(p, r) \/ Fallback(p)
    BY <2>2 DEF PickGroup, Fallback, RouteFails
  <2> QED  BY <2>1, <2>2
<1> QED  BY <1>1, <1>2, GaugeMove, GaugeStill

LEMMA HandlerGaugeQuiet ==
  ASSUME GaugeInv, NEW r \in Requests,
         \/ Arrive(r) \/ RejectBody(r) \/ AppendItem(r) \/ Notify(r) \/ CancelWait(r)
         \/ RemoveItem(r) \/ ProxyLookup(r) \/ UpstreamEnds(r)
  PROVE  Fresh' /\ Bound'
<1>1. r \in Procs /\ UNCHANGED <<clients, made, inflight, conn, bc, answer, answerConn>>
  BY DEF Procs, Arrive, RejectBody, AppendItem, Notify, CancelWait, RemoveItem, ProxyLookup,
     UpstreamEnds, poolVars, queueVars
<1>2. \E l : /\ Goto(r, l) /\ (pc[r] \in HoldingPoints => l \in HoldingPoints)
             /\ l \notin {"inc", "check", "dec"}
  <2>1. CASE ProxyLookup(r) \/ UpstreamEnds(r)
    BY <2>1 DEF ProxyLookup, UpstreamEnds, HoldingPoints
  <2>2. CASE Arrive(r) \/ RejectBody(r) \/ AppendItem(r)
    BY <2>2 DEF Arrive, RejectBody, AppendItem, HoldingPoints
  <2>3. CASE Notify(r) \/ CancelWait(r) \/ RemoveItem(r)
    BY <2>3 DEF Notify, CancelWait, RemoveItem, HoldingPoints
  <2> QED  BY <2>1, <2>2, <2>3
<1> QED  BY <1>1, <1>2, GaugeMove

LEMMA EnsureStartedGauge ==
  ASSUME GaugeInv, NEW r \in Requests, EnsureStarted(r)
  PROVE  Fresh' /\ Bound'
<1>1. UNCHANGED <<clients, made, inflight, conn, bc, answer, answerConn>>
  BY DEF EnsureStarted, poolVars
<1>2. \A q \in Procs : \/ pc'[q] = pc[q]
                       \/ /\ pc[q] \notin HoldingPoints
                          /\ pc'[q] \in {"append", "select"}
  BY RouterAssumption DEF EnsureStarted, MuFree, WorkerIdle, HoldingPoints, GaugeInv, TypeInv,
     TypeOK, Procs
<1>3. Fresh'
  BY <1>1, <1>2 DEF GaugeInv, Fresh
<1>4. \A u \in Servers : Counted(u) \subseteq Counted(u)' /\ InChannels(u) \subseteq InChannels(u)'
  BY <1>1, <1>2 DEF Counted, Holders, InChannels
<1> QED  BY <1>1, <1>3, <1>4, BoundQuiet DEF GaugeInv

LEMMA PassGaugeQuiet ==
  ASSUME GaugeInv,
         \/ BeginPass(TRUE) \/ BeginPass(FALSE) \/ EmptyPass \/ KeepItem \/ EndPass \/ Stop
  PROVE  Fresh' /\ Bound'
<1>1. Worker \in Procs /\ UNCHANGED <<clients, made, inflight, conn, bc, answer, answerConn>>
  BY DEF Procs, BeginPass, EmptyPass, KeepItem, EndPass, Stop, poolVars, routerVars
<1>2. \/ UNCHANGED pc
      \/ /\ pc[Worker] \in {"select", "failed", "scan"}
         /\ \E l \in {"scan", "select", "stopped"} : Goto(Worker, l)
  BY DEF BeginPass, EmptyPass, KeepItem, EndPass, Stop, routerVars
<1> QED  BY <1>1, <1>2, GaugeMove, GaugeStill DEF HoldingPoints

LEMMA ScanItemGauge ==
  ASSUME GaugeInv, ScanItem
  PROVE  Fresh' /\ Bound'
<1>1. /\ Worker \in Procs /\ pc[Worker] = "scan"
      /\ UNCHANGED <<clients, made, inflight, conn, bc>>
  BY DEF ScanItem, Procs, poolVars
<1>2. CASE Goto(Worker, "route") /\ UNCHANGED <<answer, answerConn>>
  BY <1>1, <1>2, GaugeMove DEF HoldingPoints
<1>3. CASE Send(Item, "timeout", NoServer) /\ UNCHANGED pc
  <2>1. \A r \in Requests : answer[r] = "conn" =>
            answer'[r] = "conn" /\ answerConn'[r] = answerConn[r]
    BY <1>3 DEF Send, GaugeInv, TypeInv, TypeOK
  <2> QED  BY <1>1, <1>3, <2>1, GaugeStill
<1> QED  BY <1>2, <1>3 DEF ScanItem

LEMMA OutsideGauge ==
  ASSUME GaugeInv, EnvStep \/ Drain \/ UNCHANGED vars
  PROVE  Fresh' /\ Bound'
<1>1. UNCHANGED <<clients, made, inflight, pc, conn, bc, answerConn>>
  <2>1. CASE EnvStep
    BY <2>1 DEF EnvStep, ClientLeaves, Expire, SetStrategy, Rediscover, poolVars, routerVars,
       queueVars
  <2>2. CASE Drain
    BY <2>2 DEF Drain, poolVars, routerVars
  <2>3. CASE UNCHANGED vars
    BY <2>3 DEF vars, poolVars, routerVars, queueVars
  <2> QED  BY <2>1, <2>2, <2>3
<1>2. \A r \in Requests : answer[r] = "conn" => answer'[r] = "conn"
  <2>1. CASE EnvStep
    BY <2>1 DEF EnvStep, ClientLeaves, Expire, queueVars
  <2>2. CASE Drain
    BY <2>2 DEF Drain
  <2>3. CASE UNCHANGED vars
    BY <2>3 DEF vars, queueVars
  <2> QED  BY <2>1, <2>2, <2>3
<1> QED  BY <1>1, <1>2, GaugeStill

-----------------------------------------------------------------------------
(* The steps that move a slot or a counter.                                *)

(* bc.inflight.Add(d) shows in the map only if the map still has bc.       *)
LEMMA AddShows ==
  ASSUME GaugeInv, NEW u \in Servers, NEW g \in Generations, NEW d \in Int,
         InflightAdd(u, g, d), UNCHANGED <<clients, made>>, g <= made[u]
  PROVE  /\ \A v \in Servers : Inflight(v)' =
               Inflight(v) + (IF v = u /\ clients[u] = g THEN d ELSE 0)
         /\ \A v \in Servers, h \in Generations : h > made[v] => inflight'[v][h] = 0
<1>1. /\ inflight \in [Servers -> [Generations -> Int]]
      /\ made \in [Servers -> 0..MaxGen] /\ MaxGen \in Nat
      /\ \A v \in Servers : clients[v] # 0 => clients[v] \in Generations
  BY PoolAssumption DEF GaugeInv, TypeInv, TypeOK, PoolTypeOK, Generations
<1>2. \A v \in Servers, h \in Generations :
         inflight'[v][h] = inflight[v][h] + (IF v = u /\ h = g THEN d ELSE 0)
  BY <1>1 DEF InflightAdd
<1>3. \A v \in Servers, h \in Generations : h > made[v] => inflight'[v][h] = 0
  <2> SUFFICES ASSUME NEW v \in Servers, NEW h \in Generations, h > made[v]
               PROVE  inflight'[v][h] = 0
    OBVIOUS
  <2>1. ~(v = u /\ h = g)
    BY <1>1 DEF Generations
  <2>2. inflight[v][h] = 0
    BY DEF GaugeInv, Fresh
  <2> QED  BY <1>2, <2>1, <2>2
<1>4. ASSUME NEW v \in Servers
      PROVE  Inflight(v)' = Inflight(v) + (IF v = u /\ clients[u] = g THEN d ELSE 0)
  <2>1. CASE clients[v] = 0
    BY <1>1, <2>1 DEF Inflight, Generations
  <2>2. CASE clients[v] # 0
    BY <1>1, <1>2, <2>2 DEF Inflight
  <2> QED  BY <2>1, <2>2
<1> QED  BY <1>3, <1>4

LEMMA AcquireLookupGauge ==
  ASSUME GaugeInv, NEW p \in Procs, AcquireLookup(p), UNCHANGED queueVars
  PROVE  Fresh' /\ Bound'
<1>1. /\ UNCHANGED <<clients, made, inflight, answer, answerConn>>
      /\ pc[p] = "try"
  BY DEF AcquireLookup, poolVars, queueVars
<1>2. \/ UNCHANGED <<pc, conn, bc>>
      \/ \E u \in Servers : /\ Goto(p, "inc")
                             /\ conn' = [conn EXCEPT ![p] = u]
                             /\ bc' = [bc EXCEPT ![p] = clients[u]]
  <2>1. PICK i \in frame[p].cands :
          \/ UNCHANGED <<pc, conn, bc>>
          \/ /\ Goto(p, "inc")
             /\ conn' = [conn EXCEPT ![p] = frame[p].infos[i].url]
             /\ bc' = [bc EXCEPT ![p] = clients[frame[p].infos[i].url]]
    BY DEF AcquireLookup
  <2>2. i \in DOMAIN frame[p].infos /\ frame[p].infos \in Seq(Info)
    BY DEF GaugeInv, TypeInv, Points, FrameOK, Frame
  <2>3. i \in 1..Len(frame[p].infos)  BY <2>2
  <2>4. frame[p].infos[i] \in Info  BY <2>2, <2>3, ElementOfSeq
  <2>5. frame[p].infos[i].url \in Servers  BY <2>4 DEF Info
  <2> QED  BY <2>1, <2>5
<1>3. CASE UNCHANGED <<pc, conn, bc>>
  BY <1>1, <1>3, GaugeStill
<1>4. ASSUME NEW u \in Servers, Goto(p, "inc"), conn' = [conn EXCEPT ![p] = u],
             bc' = [bc EXCEPT ![p] = clients[u]]
      PROVE  Fresh' /\ Bound'
  <2>1. \A q \in Procs : /\ pc'[q] = (IF q = p THEN "inc" ELSE pc[q])
                         /\ conn'[q] = (IF q = p THEN u ELSE conn[q])
                         /\ bc'[q] = (IF q = p THEN clients[u] ELSE bc[q])
    BY <1>4 DEF GaugeInv, TypeInv, TypeOK, Goto
  <2>2. Fresh'
    BY <1>1, <2>1 DEF GaugeInv, Fresh
  <2>3. \A v \in Servers : Counted(v) \subseteq Counted(v)' /\ InChannels(v) \subseteq InChannels(v)'
    BY <1>1, <2>1 DEF Counted, Holders, InChannels, HoldingPoints
  <2> QED  BY <1>1, <2>2, <2>3, BoundQuiet DEF GaugeInv
<1> QED  BY <1>2, <1>3, <1>4

LEMMA AcquireAddGauge ==
  ASSUME GaugeInv, TypeInv', NEW p \in Procs, NEW r \in Requests, AcquireAdd(p),
         UNCHANGED queueVars
  PROVE  Fresh' /\ Bound'
<1>1. /\ pc[p] = "inc" /\ conn[p] \in Servers /\ bc[p] \in Generations /\ bc[p] <= made[conn[p]]
      /\ Goto(p, "check")
      /\ UNCHANGED <<clients, made, conn, bc, answer, answerConn>>
      /\ InflightAdd(conn[p], bc[p], 1)
  BY DEF AcquireAdd, queueVars, GaugeInv, Fresh, TypeInv, Points, ConnOK
<1>2. \A q \in Procs : pc'[q] = (IF q = p THEN "check" ELSE pc[q])
  BY <1>1 DEF GaugeInv, TypeInv, TypeOK, Goto
<1>3. /\ \A v \in Servers : Inflight(v)' =
               Inflight(v) + (IF v = conn[p] /\ clients[conn[p]] = bc[p] THEN 1 ELSE 0)
      /\ \A v \in Servers, h \in Generations : h > made[v] => inflight'[v][h] = 0
  BY <1>1, AddShows
<1>4. Fresh'
  BY <1>1, <1>2, <1>3 DEF GaugeInv, Fresh
<1>5. \A u \in Servers : /\ p \notin Counted(u)
                         /\ p \in Counted(u)' <=> u = conn[p] /\ clients[conn[p]] = bc[p]
                         /\ r \in InChannels(u)' <=> r \in InChannels(u)
  BY <1>1, <1>2 DEF Counted, Holders, InChannels, HoldingPoints
<1>6. \A u \in Servers : Inflight(u) \in Int
  BY InflightType DEF GaugeInv
<1>7. \A u \in Servers :
         Inflight(u)' - Inflight(u) <=
               (IF p \in Counted(u)' THEN 1 ELSE 0) - (IF p \in Counted(u) THEN 1 ELSE 0)
             + (IF r \in InChannels(u)' THEN 1 ELSE 0) - (IF r \in InChannels(u) THEN 1 ELSE 0)
  BY <1>3, <1>5, <1>6
<1> QED  BY <1>1, <1>2, <1>4, <1>7, BoundStep DEF GaugeInv

LEMMA AcquireCheckGauge ==
  ASSUME GaugeInv, TypeInv', NEW p \in Procs, NEW r \in Requests, AcquireCheck(p, r),
         UNCHANGED queueVars
  PROVE  Fresh' /\ Bound'
<1>1. /\ pc[p] = "check" /\ conn[p] \in Servers /\ bc[p] \in Generations /\ bc[p] <= made[conn[p]]
      /\ bc' = [bc EXCEPT ![p] = 0]
      /\ UNCHANGED <<clients, made, answer, answerConn>>
  BY DEF AcquireCheck, queueVars, GaugeInv, Fresh, TypeInv, Points, ConnOK, HoldingPoints
<1>2. CASE /\ InflightAdd(conn[p], bc[p], -1) /\ Goto(p, "try")
           /\ conn' = [conn EXCEPT ![p] = NoServer]
  <2>1. \A q \in Procs : /\ pc'[q] = (IF q = p THEN "try" ELSE pc[q])
                         /\ conn'[q] = (IF q = p THEN NoServer ELSE conn[q])
                         /\ bc'[q] = (IF q = p THEN 0 ELSE bc[q])
    BY <1>1, <1>2 DEF GaugeInv, TypeInv, TypeOK, Goto
  <2>2. /\ \A v \in Servers : Inflight(v)' =
                 Inflight(v) + (IF v = conn[p] /\ clients[conn[p]] = bc[p] THEN -1 ELSE 0)
        /\ \A v \in Servers, h \in Generations : h > made[v] => inflight'[v][h] = 0
    BY <1>1, <1>2, AddShows
  <2>3. Fresh'
    BY <1>1, <2>1, <2>2 DEF GaugeInv, Fresh
  <2>4. \A u \in Servers : /\ p \notin Counted(u)'
                           /\ p \in Counted(u) <=> u = conn[p] /\ clients[conn[p]] = bc[p]
                           /\ r \in InChannels(u)' <=> r \in InChannels(u)
    BY <1>1, <2>1 DEF Counted, Holders, InChannels, HoldingPoints
  <2>5. \A u \in Servers : Inflight(u) \in Int
    BY InflightType DEF GaugeInv
  <2>6. \A u \in Servers :
           Inflight(u)' - Inflight(u) <=
                 (IF p \in Counted(u)' THEN 1 ELSE 0) - (IF p \in Counted(u) THEN 1 ELSE 0)
               + (IF r \in InChannels(u)' THEN 1 ELSE 0) - (IF r \in InChannels(u) THEN 1 ELSE 0)
    BY <2>2, <2>4, <2>5
  <2> QED  BY <1>1, <2>1, <2>3, <2>6, BoundStep DEF GaugeInv
<1>3. CASE Goto(p, IF p = Worker THEN "deliver" ELSE "proxy") /\ UNCHANGED <<inflight, conn>>
  <2>1. \A q \in Procs : /\ pc'[q] = (IF q = p THEN IF p = Worker THEN "deliver" ELSE "proxy"
                                                ELSE pc[q])
                         /\ bc'[q] = (IF q = p THEN 0 ELSE bc[q])
    BY <1>1, <1>3 DEF GaugeInv, TypeInv, TypeOK, Goto
  <2>2. Fresh'
    BY <1>1, <1>3, <2>1 DEF GaugeInv, Fresh
  <2>3. \A u \in Servers : Counted(u) \subseteq Counted(u)' /\ InChannels(u) \subseteq InChannels(u)'
    BY <1>1, <1>3, <2>1 DEF Counted, Holders, InChannels, HoldingPoints
  <2> QED  BY <1>1, <1>3, <2>2, <2>3, BoundQuiet DEF GaugeInv
<1> QED  BY <1>2, <1>3 DEF AcquireCheck

LEMMA ReleaseLookupGauge ==
  ASSUME GaugeInv, TypeInv', NEW r \in Requests, ReleaseLookup(r)
  PROVE  Fresh' /\ Bound'
<1> DEFINE g == clients[conn[r]]
<1>1. /\ r \in Procs /\ pc[r] = "release" /\ conn[r] \in Servers
      /\ UNCHANGED <<clients, made, inflight, answer, answerConn>>
  BY DEF ReleaseLookup, GaugeInv, TypeInv, Points, ConnOK, HoldingPoints, Procs, poolVars, queueVars
<1>2. CASE g = 0 /\ Goto(r, "done") /\ conn' = [conn EXCEPT ![r] = NoServer] /\ UNCHANGED bc
  <2>1. \A q \in Procs : /\ pc'[q] = (IF q = r THEN "done" ELSE pc[q])
                         /\ conn'[q] = (IF q = r THEN NoServer ELSE conn[q])
    BY <1>1, <1>2 DEF GaugeInv, TypeInv, TypeOK, Goto
  <2>2. Fresh'
    BY <1>1, <1>2, <2>1 DEF GaugeInv, Fresh
  <2>3. \A u \in Servers : clients[u] # 0 => r \notin Counted(u) /\ r \notin Counted(u)'
    BY <1>1, <1>2, <2>1 DEF Counted, Holders, HoldingPoints
  <2>4. \A u \in Servers : /\ Inflight(u)' = Inflight(u) /\ Inflight(u) \in Int
                           /\ r \in InChannels(u)' <=> r \in InChannels(u)
    BY <1>1, InflightType DEF Inflight, InChannels, GaugeInv
  <2>5. \A u \in Servers : clients[u] # 0 =>
           Inflight(u)' - Inflight(u) <=
                 (IF r \in Counted(u)' THEN 1 ELSE 0) - (IF r \in Counted(u) THEN 1 ELSE 0)
               + (IF r \in InChannels(u)' THEN 1 ELSE 0) - (IF r \in InChannels(u) THEN 1 ELSE 0)
    BY <2>3, <2>4
  <2> QED  BY <1>1, <1>2, <2>1, <2>2, <2>5, BoundStep DEF GaugeInv
<1>3. CASE g # 0 /\ Goto(r, "dec") /\ bc' = [bc EXCEPT ![r] = g] /\ UNCHANGED conn
  <2>1. \A q \in Procs : /\ pc'[q] = (IF q = r THEN "dec" ELSE pc[q])
                         /\ bc'[q] = (IF q = r THEN clients[conn[r]] ELSE bc[q])
    BY <1>1, <1>3 DEF GaugeInv, TypeInv, TypeOK, Goto
  <2>2. Fresh'
    BY <1>1, <1>3, <2>1 DEF GaugeInv, Fresh
  <2>3. \A u \in Servers : Counted(u) \subseteq Counted(u)' /\ InChannels(u) \subseteq InChannels(u)'
    BY <1>1, <1>3, <2>1 DEF Counted, Holders, InChannels, HoldingPoints
  <2> QED  BY <1>1, <2>2, <2>3, BoundQuiet DEF GaugeInv
<1> QED  BY <1>2, <1>3 DEF ReleaseLookup

LEMMA ReleaseDecGauge ==
  ASSUME GaugeInv, TypeInv', NEW r \in Requests, ReleaseDec(r)
  PROVE  Fresh' /\ Bound'
<1>1. /\ r \in Procs /\ pc[r] = "dec" /\ bc[r] \in Generations /\ conn[r] \in Servers
      /\ bc[r] <= made[conn[r]]
      /\ Goto(r, "done") /\ conn' = [conn EXCEPT ![r] = NoServer]
      /\ bc' = [bc EXCEPT ![r] = 0]
      /\ InflightAdd(conn[r], bc[r], -1)
      /\ UNCHANGED <<clients, made, answer, answerConn>>
  BY DEF ReleaseDec, queueVars, GaugeInv, Fresh, TypeInv, Points, ConnOK, HoldingPoints, Procs
<1>2. \A q \in Procs : /\ pc'[q] = (IF q = r THEN "done" ELSE pc[q])
                       /\ conn'[q] = (IF q = r THEN NoServer ELSE conn[q])
                       /\ bc'[q] = (IF q = r THEN 0 ELSE bc[q])
  BY <1>1 DEF GaugeInv, TypeInv, TypeOK, Goto
<1>3. /\ \A v \in Servers : Inflight(v)' =
               Inflight(v) + (IF v = conn[r] /\ clients[conn[r]] = bc[r] THEN -1 ELSE 0)
      /\ \A v \in Servers, h \in Generations : h > made[v] => inflight'[v][h] = 0
  BY <1>1, AddShows
<1>4. Fresh'
  BY <1>1, <1>2, <1>3 DEF GaugeInv, Fresh
<1>5. \A u \in Servers : /\ r \notin Counted(u)'
                         /\ r \in Counted(u) <=> u = conn[r] /\ clients[conn[r]] = bc[r]
                         /\ r \in InChannels(u)' <=> r \in InChannels(u)
  BY <1>1, <1>2 DEF Counted, Holders, InChannels, HoldingPoints
<1>6. \A u \in Servers : Inflight(u) \in Int
  BY InflightType DEF GaugeInv
<1>7. \A u \in Servers :
         Inflight(u)' - Inflight(u) <=
               (IF r \in Counted(u)' THEN 1 ELSE 0) - (IF r \in Counted(u) THEN 1 ELSE 0)
             + (IF r \in InChannels(u)' THEN 1 ELSE 0) - (IF r \in InChannels(u) THEN 1 ELSE 0)
  BY <1>3, <1>5, <1>6
<1> QED  BY <1>1, <1>2, <1>4, <1>7, BoundStep DEF GaugeInv

LEMMA AnswerTakenGauge ==
  ASSUME GaugeInv, TypeInv', NEW r \in Requests, TakeAnswer(r) \/ CancelTake(r)
  PROVE  Fresh' /\ Bound'
<1>1. PICK l \in {"proxy", "release", "done"} :
        /\ Goto(r, l)
        /\ \/ /\ answer[r] = "conn" /\ l # "done"
              /\ conn' = [conn EXCEPT ![r] = answerConn[r]]
           \/ answer[r] # "conn" /\ l = "done" /\ conn' = conn
  BY DEF TakeAnswer, CancelTake
<1>2. /\ r \in Procs /\ pc[r] = "wait"
      /\ answer' = [answer EXCEPT ![r] = "empty"]
      /\ answerConn' = [answerConn EXCEPT ![r] = NoServer]
      /\ UNCHANGED <<clients, made, inflight, bc>>
  BY DEF TakeAnswer, CancelTake, poolVars, Procs
<1>3. /\ \A q \in Procs : pc'[q] = (IF q = r THEN l ELSE pc[q])
      /\ \A q \in Procs \ {r} : conn'[q] = conn[q]
      /\ \A q \in Requests : answer'[q] = (IF q = r THEN "empty" ELSE answer[q])
      /\ \A q \in Requests \ {r} : answerConn'[q] = answerConn[q]
  BY <1>1, <1>2 DEF GaugeInv, TypeInv, TypeOK, Goto
<1>4. Fresh'
  BY <1>2, <1>3 DEF GaugeInv, Fresh
<1>5. \A u \in Servers : /\ r \notin Counted(u) /\ r \notin InChannels(u)'
                         /\ r \in Counted(u)' <=> r \in InChannels(u)
  <2>1. answer[r] = "conn" => conn'[r] = answerConn[r]
    BY <1>1, <1>2 DEF GaugeInv, TypeInv, TypeOK
  <2> QED  BY <1>1, <1>2, <1>3, <2>1 DEF Counted, Holders, InChannels, HoldingPoints
<1>6. \A u \in Servers : Inflight(u)' = Inflight(u) /\ Inflight(u) \in Int
  BY <1>2, InflightType DEF Inflight, GaugeInv
<1>7. \A u \in Servers :
         Inflight(u)' - Inflight(u) <=
               (IF r \in Counted(u)' THEN 1 ELSE 0) - (IF r \in Counted(u) THEN 1 ELSE 0)
             + (IF r \in InChannels(u)' THEN 1 ELSE 0) - (IF r \in InChannels(u) THEN 1 ELSE 0)
  BY <1>5, <1>6
<1> QED  BY <1>2, <1>3, <1>4, <1>7, BoundStep DEF GaugeInv

LEMMA DeliverGauge ==
  ASSUME GaugeInv, TypeInv', Deliver
  PROVE  Fresh' /\ Bound'
<1>1. /\ Worker \in Procs /\ pc[Worker] = "deliver" /\ Goto(Worker, "scan")
      /\ conn' = [conn EXCEPT ![Worker] = NoServer]
      /\ answer[Item] = "empty"
      /\ answer' = [answer EXCEPT ![Item] = "conn"]
      /\ answerConn' = [answerConn EXCEPT ![Item] = conn[Worker]]
      /\ UNCHANGED <<clients, made, inflight, bc>>
  BY DEF Deliver, Send, poolVars, Procs
<1>2. PICK r \in Requests : r = Item
  <2>1. queue \in Seq(Requests) /\ cursor \in DOMAIN queue
    BY <1>1 DEF GaugeInv, TypeInv, TypeOK, Points
  <2> QED  BY <2>1 DEF Item
<1>3. /\ \A q \in Procs : pc'[q] = (IF q = Worker THEN "scan" ELSE pc[q])
      /\ \A q \in Procs \ {Worker} : conn'[q] = conn[q]
      /\ \A q \in Requests : answer'[q] = (IF q = r THEN "conn" ELSE answer[q])
      /\ \A q \in Requests : answerConn'[q] = (IF q = r THEN conn[Worker] ELSE answerConn[q])
  BY <1>1, <1>2 DEF GaugeInv, TypeInv, TypeOK, Goto
<1>4. Fresh'
  BY <1>1, <1>3 DEF GaugeInv, Fresh
<1>5. \A u \in Servers : /\ Worker \in Counted(u) <=> r \in InChannels(u)'
                         /\ Worker \notin Counted(u)' /\ r \notin InChannels(u)
  BY <1>1, <1>2, <1>3 DEF Counted, Holders, InChannels, HoldingPoints
<1>6. \A u \in Servers : Inflight(u)' = Inflight(u) /\ Inflight(u) \in Int
  BY <1>1, InflightType DEF Inflight, GaugeInv
<1>7. \A u \in Servers :
         Inflight(u)' - Inflight(u) <=
             (IF Worker \in Counted(u)' THEN 1 ELSE 0) - (IF Worker \in Counted(u) THEN 1 ELSE 0)
           + (IF r \in InChannels(u)' THEN 1 ELSE 0) - (IF r \in InChannels(u) THEN 1 ELSE 0)
  BY <1>5, <1>6
<1> QED  BY <1>1, <1>3, <1>4, <1>7, BoundStep DEF GaugeInv

(* A new client starts at 0; without one there is nothing to count.        *)
LEMMA AdminGauge ==
  ASSUME GaugeInv, TypeInv', AdminStep
  PROVE  Fresh' /\ Bound'
<1>1. UNCHANGED <<inflight, pc, conn, bc, answer, answerConn>>
  BY DEF AdminStep, RemoveServer, AddServer, routerVars, queueVars
<1>2. PICK u \in Servers :
        \/ clients' = [clients EXCEPT ![u] = 0] /\ UNCHANGED made
        \/ /\ made[u] < MaxGen /\ made' = [made EXCEPT ![u] = @ + 1]
           /\ clients' = [clients EXCEPT ![u] = made[u] + 1]
  BY DEF AdminStep, RemoveServer, AddServer
<1>3. /\ clients \in [Servers -> 0..MaxGen] /\ made \in [Servers -> 0..MaxGen] /\ MaxGen \in Nat
      /\ \A p \in Procs : pc[p] \in {"inc", "check", "dec"} =>
           conn[p] \in Servers /\ bc[p] \in 0..MaxGen
  BY PoolAssumption DEF GaugeInv, TypeInv, TypeOK, PoolTypeOK, Points, ConnOK, HoldingPoints
<1>4. \A v \in Servers \ {u} : clients'[v] = clients[v] /\ made'[v] = made[v]
  BY <1>2, <1>3
<1>5. clients'[u] <= made'[u] /\ made'[u] >= made[u]
  BY <1>2, <1>3 DEF GaugeInv, Fresh
<1>6. Fresh'
  <2>1. \A v \in Servers : clients'[v] <= made'[v] /\ made'[v] >= made[v] /\ made'[v] \in Nat
    <3>1. made' \in [Servers -> 0..MaxGen]
      BY DEF TypeInv, TypeOK, PoolTypeOK
    <3>2. \A v \in Servers \ {u} : clients'[v] <= made'[v] /\ made'[v] >= made[v]
      BY <1>3, <1>4 DEF GaugeInv, Fresh
    <3> QED  BY <1>3, <1>5, <3>1, <3>2
  <2>2. ASSUME NEW v \in Servers, NEW g \in Generations, g > made'[v]
        PROVE  inflight'[v][g] = 0
    <3>1. g > made[v]
      BY <1>3, <2>1, <2>2 DEF Generations
    <3> QED  BY <1>1, <3>1 DEF GaugeInv, Fresh
  <2>3. ASSUME NEW p \in Procs, pc'[p] \in {"inc", "check", "dec"}
        PROVE  bc'[p] <= made'[conn'[p]]
    BY <1>1, <1>3, <2>1, <2>3 DEF GaugeInv, Fresh
  <2> QED  BY <2>1, <2>2, <2>3 DEF Fresh
<1>7. ASSUME NEW v \in Servers, clients'[v] # 0
      PROVE  Inflight(v)' <= Cardinality(Counted(v)') + Cardinality(InChannels(v)')
  <2>1. InChannels(v)' = InChannels(v)
    BY <1>1 DEF InChannels
  <2>2. CASE v # u
    <3>1. Counted(v)' = Counted(v)
      BY <1>1, <1>4, <2>2 DEF Counted, Holders
    <3>2. Inflight(v)' = Inflight(v)
      BY <1>1, <1>4, <2>2 DEF Inflight
    <3> QED  BY <1>4, <1>7, <2>1, <2>2, <3>1, <3>2 DEF GaugeInv, Bound
  <2>3. CASE v = u
    <3>1. clients'[u] = made[u] + 1 /\ clients'[u] \in Generations
      BY <1>2, <1>3, <1>7, <2>3 DEF Generations
    <3>2. inflight[u][made[u] + 1] = 0
      <4>1. made[u] + 1 > made[u]
        BY <1>3
      <4> QED  BY <3>1, <4>1 DEF GaugeInv, Fresh
    <3>3. Inflight(v)' = 0
      BY <1>1, <1>7, <2>3, <3>1, <3>2 DEF Inflight
    <3>4. Cardinality(Counted(v)') \in Nat
      <4>1. IsFiniteSet(Procs)
        BY FS_AddElement, RouterAssumption DEF Procs
      <4>2. Counted(v)' \subseteq Procs
        BY DEF Counted, Holders
      <4> QED  BY <4>1, <4>2, FS_Subset, FS_CardinalityType
    <3> QED  BY <2>1, <3>3, <3>4, SlotsFinite
  <2> QED  BY <2>2, <2>3
<1> QED  BY <1>6, <1>7 DEF Bound

LEMMA InitGauge == Init => GaugeInv
<1> SUFFICES ASSUME Init PROVE GaugeInv
  OBVIOUS
<1>1. Fresh
  BY RouterAssumption DEF Init, PoolInit, RouterInit, Fresh
<1>2. Bound
  <2>1. \A u \in Servers : Inflight(u) = 0
    BY PoolAssumption DEF Init, PoolInit, Inflight, Generations
  <2> QED  BY <2>1, CountedFinite, SlotsFinite DEF Bound
<1> QED  BY <1>1, <1>2, InitType DEF GaugeInv

LEMMA StepGauge ==
  ASSUME GaugeInv, [ReconfNext]_vars
  PROVE  GaugeInv'
<1>1. TypeInv'
  BY StepType DEF GaugeInv, ReconfNext
<1> SUFFICES Fresh' /\ Bound'
  BY <1>1 DEF GaugeInv
<1>2. ASSUME NEW p \in Procs, NEW r \in Requests, RouteStep(p, r), UNCHANGED queueVars
      PROVE  Fresh' /\ Bound'
  BY <1>1, <1>2, RouteGaugeQuiet, AcquireLookupGauge, AcquireAddGauge, AcquireCheckGauge
  DEF RouteStep
<1>3. ASSUME NEW r \in Requests, HandlerStep(r)
      PROVE  Fresh' /\ Bound'
  <2>1. r \in Procs  BY DEF Procs
  <2> QED  BY <1>1, <1>2, <1>3, <2>1, HandlerGaugeQuiet, EnsureStartedGauge, AnswerTakenGauge,
              ReleaseLookupGauge, ReleaseDecGauge DEF HandlerStep
<1>4. CASE WorkerStep
  <2>1. pc[Worker] \in RoutePoints => Item \in Requests
    <3>1. queue \in Seq(Requests) /\ (pc[Worker] \in RoutePoints => cursor \in DOMAIN queue)
      BY DEF GaugeInv, TypeInv, TypeOK, Points
    <3> QED  BY <3>1 DEF Item
  <2> QED  BY <1>1, <1>2, <1>4, <2>1, PassGaugeQuiet, ScanItemGauge, DeliverGauge
           DEF WorkerStep, Procs
<1>5. CASE EnvStep \/ UNCHANGED vars
  BY <1>5, OutsideGauge
<1>6. CASE ShutdownStep
  BY <1>6, OutsideGauge, PassGaugeQuiet DEF ShutdownStep
<1>7. CASE AdminStep
  BY <1>1, <1>7, AdminGauge
<1> QED  BY <1>3, <1>4, <1>5, <1>6, <1>7 DEF ReconfNext, Next, Serve

(* However often servers are replaced, removed and added under running     *)
(* requests, the counter the router compares with a server's limit never   *)
(* says more than the slots in use and in result channels.                 *)
THEOREM GaugeBounded == ReconfSpec => []GaugeNeverOvercounts
<1>1. GaugeInv /\ [ReconfNext]_vars => GaugeInv'
  BY StepGauge
<1>2. GaugeInv => GaugeNeverOvercounts
  <2> SUFFICES ASSUME GaugeInv, NEW u \in Servers
               PROVE  Inflight(u) <= Cardinality(Holders(u)) + Cardinality(InChannels(u))
    BY DEF GaugeNeverOvercounts
  <2>1. /\ Cardinality(Counted(u)) \in Nat /\ Cardinality(InChannels(u)) \in Nat
        /\ Cardinality(Holders(u)) \in Nat /\ Cardinality(Counted(u)) <= Cardinality(Holders(u))
    BY CountedFinite, SlotsFinite
  <2>2. Inflight(u) \in Int
    BY InflightType DEF GaugeInv
  <2>3. CASE clients[u] = 0
    BY <2>1, <2>3 DEF Inflight
  <2>4. CASE clients[u] # 0
    BY <2>1, <2>2, <2>4 DEF GaugeInv, Bound
  <2> QED  BY <2>3, <2>4
<1> QED  BY <1>1, <1>2, InitGauge, PTL DEF ReconfSpec

-----------------------------------------------------------------------------
(* Refinement: every step of the bridge is a step of Lease or leaves the   *)
(* leases alone.                                                           *)

LeaseMove == Slots!Next \/ UNCHANGED <<InUse, Parked, Gauge>>

(* No slot, channel or counter changes.                                    *)
LEMMA LeaseQuiet ==
  ASSUME UNCHANGED <<clients, inflight>>,
         \A q \in Procs : pc'[q] \in HoldingPoints <=> pc[q] \in HoldingPoints,
         \A q \in Procs : pc[q] \in HoldingPoints => conn'[q] = conn[q],
         \A r \in Requests : answer'[r] = "conn" <=> answer[r] = "conn",
         \A r \in Requests : answer[r] = "conn" => answerConn'[r] = answerConn[r]
  PROVE  LeaseMove
<1>1. InUse' = InUse
  BY DEF InUse
<1>2. Parked' = Parked
  BY DEF Parked
<1>3. Gauge' = Gauge
  BY DEF Gauge, Inflight
<1> QED  BY <1>1, <1>2, <1>3 DEF LeaseMove

(* One process and one channel change.                                     *)
LEMMA LeaseShape ==
  ASSUME LedgerInv, NEW p \in Procs, NEW r \in Requests,
         \A q \in Procs \ {p} : pc'[q] = pc[q] /\ conn'[q] = conn[q],
         \A q \in Requests \ {r} : answer'[q] = answer[q] /\ answerConn'[q] = answerConn[q]
  PROVE  /\ InUse' = [InUse EXCEPT ![p] = IF pc'[p] \in HoldingPoints THEN conn'[p] ELSE NoServer]
         /\ Parked' = [Parked EXCEPT ![r] = IF answer'[r] = "conn" THEN answerConn'[r] ELSE NoServer]
<1>1. InUse' = [InUse EXCEPT ![p] = IF pc'[p] \in HoldingPoints THEN conn'[p] ELSE NoServer]
  BY DEF InUse
<1>2. Parked' = [Parked EXCEPT ![r] = IF answer'[r] = "conn" THEN answerConn'[r] ELSE NoServer]
  BY DEF Parked
<1> QED  BY <1>1, <1>2

LEMMA GaugeAdd ==
  ASSUME LedgerInv, NEW u \in Servers, NEW d \in Int, InflightAdd(u, 1, d), UNCHANGED clients
  PROVE  Gauge' = [Gauge EXCEPT ![u] = @ + d]
<1>1. \A v \in Servers : inflight'[v][1] = inflight[v][1] + (IF v = u THEN d ELSE 0)
  BY AddOnClient DEF LedgerInv
<1>2. \A v \in Servers : Inflight(v) = inflight[v][1] /\ Inflight(v)' = inflight'[v][1]
  BY DEF LedgerInv, OneClient, Inflight
<1>3. \A v \in Servers : Inflight(v) \in Int
  BY InflightType DEF LedgerInv
<1>4. \A v \in Servers : Inflight(v)' = IF v = u THEN Inflight(v) + d ELSE Inflight(v)
  BY <1>1, <1>2, <1>3
<1>5. Gauge' = [v \in Servers |-> Inflight(v)']
  BY DEF Gauge
<1>6. Gauge' = [v \in Servers |-> IF v = u THEN Inflight(v) + d ELSE Inflight(v)]
  BY <1>4, <1>5
<1> QED  BY <1>6 DEF Gauge

LEMMA RouteLease ==
  ASSUME LedgerInv, NEW p \in Procs, NEW r \in Requests, RouteStep(p, r), UNCHANGED queueVars
  PROVE  LeaseMove
<1>0. UNCHANGED <<answer, answerConn>>
  BY DEF queueVars
<1>1. CASE \/ RouteBegin(p, r) \/ Inspect(p) \/ LoadInflight(p) \/ PickGroup(p, r)
           \/ Fallback(p)
  <2>1. UNCHANGED <<clients, inflight, conn>> /\ pc[p] \notin HoldingPoints
    BY <1>1 DEF RouteBegin, Inspect, LoadInflight, PickGroup, Fallback, poolVars, HoldingPoints
  <2>2. \/ UNCHANGED pc
        \/ \E l \in {"inspect", "load", "try", "failed", "done", "ensure"} : Goto(p, l)
    <3>1. CASE RouteBegin(p, r) \/ Inspect(p) \/ LoadInflight(p)
      BY <3>1 DEF RouteBegin, Inspect, LoadInflight, RouteFails, NextServer
    <3>2. CASE PickGroup(p, r) \/ Fallback(p)
      BY <3>2 DEF PickGroup, Fallback, RouteFails
    <3> QED  BY <1>1, <3>1, <3>2
  <2>3. \A q \in Procs : pc'[q] \in HoldingPoints <=> pc[q] \in HoldingPoints
    BY <2>1, <2>2 DEF Goto, HoldingPoints, LedgerInv, TypeInv, TypeOK
  <2> QED  BY <1>0, <2>1, <2>3, LeaseQuiet
<1>2. CASE AcquireLookup(p)
  <2>1. UNCHANGED <<clients, inflight>> /\ pc[p] = "try"
    BY <1>2 DEF AcquireLookup, poolVars
  <2>2. \/ UNCHANGED <<pc, conn>>
        \/ Goto(p, "inc") /\ \E u : conn' = [conn EXCEPT ![p] = u]
    BY <1>2 DEF AcquireLookup
  <2>3. \A q \in Procs : /\ pc'[q] \in HoldingPoints <=> pc[q] \in HoldingPoints
                         /\ q # p => conn'[q] = conn[q]
    BY <2>1, <2>2 DEF Goto, HoldingPoints, LedgerInv, TypeInv, TypeOK
  <2> QED  BY <1>0, <2>1, <2>3, LeaseQuiet DEF HoldingPoints
<1>3. CASE AcquireAdd(p)
  <2>1. /\ pc[p] = "inc" /\ bc[p] = 1 /\ conn[p] \in Servers
        /\ Goto(p, "check") /\ UNCHANGED <<clients, conn>>
        /\ InflightAdd(conn[p], 1, 1)
    BY <1>3 DEF AcquireAdd, LedgerInv, OneClient, TypeInv, Points, ConnOK
  <2>2. \A q \in Procs : pc'[q] = IF q = p THEN "check" ELSE pc[q]
    BY <2>1 DEF Goto, LedgerInv, TypeInv, TypeOK
  <2>3. Gauge' = [Gauge EXCEPT ![conn[p]] = @ + 1]
    BY <2>1, GaugeAdd
  <2>4. InUse' = [InUse EXCEPT ![p] = conn[p]] /\ InUse[p] = NoServer
    BY <1>0, <2>1, <2>2, LeaseShape DEF InUse, HoldingPoints
  <2>5. Parked' = Parked
    BY <1>0 DEF Parked
  <2>6. Slots!Take(p, conn[p])
    BY <2>3, <2>4, <2>5 DEF Slots!Take
  <2> QED  BY <2>1, <2>6 DEF LeaseMove, Slots!Next
<1>4. CASE AcquireCheck(p, r)
  <2>1. pc[p] = "check" /\ bc[p] = 1 /\ conn[p] \in Servers /\ UNCHANGED clients
    BY <1>4 DEF AcquireCheck, LedgerInv, OneClient, TypeInv, Points, ConnOK, HoldingPoints
  <2>2. CASE /\ InflightAdd(conn[p], 1, -1) /\ Goto(p, "try")
             /\ conn' = [conn EXCEPT ![p] = NoServer]
    <3>1. \A q \in Procs : /\ pc'[q] = IF q = p THEN "try" ELSE pc[q]
                           /\ q # p => conn'[q] = conn[q]
      BY <2>2 DEF Goto, LedgerInv, TypeInv, TypeOK
    <3>2. Gauge' = [Gauge EXCEPT ![conn[p]] = @ + (-1)]
      BY <2>1, <2>2, GaugeAdd
    <3>3. Gauge' = [Gauge EXCEPT ![conn[p]] = @ - 1]
      <4>1. Gauge[conn[p]] \in Int
        BY <2>1, InflightType DEF Gauge, LedgerInv
      <4> QED  BY <3>2, <4>1
    <3>4. InUse' = [InUse EXCEPT ![p] = NoServer] /\ InUse[p] = conn[p]
      BY <1>0, <2>1, <3>1, LeaseShape DEF InUse, HoldingPoints
    <3>5. Parked' = Parked
      BY <1>0 DEF Parked
    <3>6. Slots!GiveBack(p, conn[p])
      BY <3>3, <3>4, <3>5 DEF Slots!GiveBack
    <3> QED  BY <2>1, <3>6 DEF LeaseMove, Slots!Next
  <2>3. CASE Goto(p, IF p = Worker THEN "deliver" ELSE "proxy") /\ UNCHANGED <<inflight, conn>>
    <3>1. \A q \in Procs : pc'[q] \in HoldingPoints <=> pc[q] \in HoldingPoints
      BY <2>1, <2>3 DEF Goto, HoldingPoints, LedgerInv, TypeInv, TypeOK
    <3> QED  BY <1>0, <2>1, <2>3, <3>1, LeaseQuiet
  <2> QED  BY <1>4, <2>1, <2>2, <2>3 DEF AcquireCheck
<1> QED  BY <1>1, <1>2, <1>3, <1>4 DEF RouteStep

(* A process moves without taking or giving back a slot.                   *)
LEMMA MoveLease ==
  ASSUME LedgerInv, NEW p \in Procs, NEW l, Goto(p, l),
         pc[p] \in HoldingPoints <=> l \in HoldingPoints,
         UNCHANGED <<clients, inflight, conn, answer, answerConn>>
  PROVE  LeaseMove
<1>1. \A q \in Procs : pc'[q] \in HoldingPoints <=> pc[q] \in HoldingPoints
  BY DEF Goto, LedgerInv, TypeInv, TypeOK
<1> QED  BY <1>1, LeaseQuiet

LEMMA HandlerLease ==
  ASSUME LedgerInv, NEW r \in Requests,
         \/ Arrive(r) \/ RejectBody(r) \/ AppendItem(r) \/ Notify(r) \/ CancelWait(r)
         \/ RemoveItem(r) \/ ProxyLookup(r) \/ UpstreamEnds(r) \/ EnsureStarted(r)
  PROVE  LeaseMove
<1>1. r \in Procs /\ UNCHANGED <<clients, inflight, conn, answer, answerConn>>
  BY DEF Procs, Arrive, RejectBody, AppendItem, Notify, CancelWait, RemoveItem, ProxyLookup,
     UpstreamEnds, EnsureStarted, poolVars, queueVars
<1>2. CASE EnsureStarted(r)
  <2>1. \A q \in Procs : pc'[q] \in HoldingPoints <=> pc[q] \in HoldingPoints
    BY <1>2, RouterAssumption DEF EnsureStarted, MuFree, WorkerIdle, HoldingPoints, LedgerInv,
       TypeInv, TypeOK, Procs
  <2> QED  BY <1>1, <2>1, LeaseQuiet
<1>3. CASE ProxyLookup(r) \/ UpstreamEnds(r)
  BY <1>1, <1>3, MoveLease DEF ProxyLookup, UpstreamEnds, HoldingPoints
<1>4. CASE Arrive(r) \/ RejectBody(r) \/ AppendItem(r)
  BY <1>1, <1>4, MoveLease DEF Arrive, RejectBody, AppendItem, HoldingPoints
<1>5. CASE Notify(r) \/ CancelWait(r) \/ RemoveItem(r)
  BY <1>1, <1>5, MoveLease DEF Notify, CancelWait, RemoveItem, HoldingPoints
<1> QED  BY <1>2, <1>3, <1>4, <1>5

LEMMA ReleaseLease ==
  ASSUME LedgerInv, NEW r \in Requests, ReleaseLookup(r) \/ ReleaseDec(r)
  PROVE  LeaseMove
<1>1. r \in Procs
  BY DEF Procs
<1>2. CASE ReleaseLookup(r)
  <2>1. pc[r] = "release" /\ conn[r] \in Servers
    BY <1>1, <1>2 DEF ReleaseLookup, LedgerInv, TypeInv, Points, ConnOK, HoldingPoints
  <2>2. clients[conn[r]] # 0
    BY <2>1 DEF LedgerInv, OneClient
  <2>3. Goto(r, "dec") /\ UNCHANGED <<clients, inflight, conn, answer, answerConn>>
    BY <1>2, <2>2 DEF ReleaseLookup, poolVars, queueVars
  <2> QED  BY <1>1, <2>1, <2>3, MoveLease DEF HoldingPoints
<1>3. CASE ReleaseDec(r)
  <2>1. /\ pc[r] = "dec" /\ conn[r] \in Servers /\ InflightAdd(conn[r], 1, -1)
        /\ Goto(r, "done") /\ conn' = [conn EXCEPT ![r] = NoServer]
        /\ UNCHANGED <<clients, answer, answerConn>>
    BY <1>1, <1>3 DEF ReleaseDec, queueVars, LedgerInv, OneClient, TypeInv, Points, ConnOK,
       HoldingPoints
  <2>2. \A q \in Procs : /\ pc'[q] = IF q = r THEN "done" ELSE pc[q]
                         /\ q # r => conn'[q] = conn[q]
    BY <2>1 DEF Goto, LedgerInv, TypeInv, TypeOK
  <2>3. Gauge' = [Gauge EXCEPT ![conn[r]] = @ + (-1)]
    BY <2>1, GaugeAdd
  <2>4. Gauge' = [Gauge EXCEPT ![conn[r]] = @ - 1]
    <3>1. Gauge[conn[r]] \in Int
      BY <2>1, InflightType DEF Gauge, LedgerInv
    <3> QED  BY <2>3, <3>1
  <2>5. InUse' = [InUse EXCEPT ![r] = NoServer] /\ InUse[r] = conn[r]
    BY <1>1, <2>1, <2>2, LeaseShape DEF InUse, HoldingPoints
  <2>6. Parked' = Parked
    BY <2>1 DEF Parked
  <2>7. Slots!GiveBack(r, conn[r])
    BY <2>4, <2>5, <2>6 DEF Slots!GiveBack
  <2> QED  BY <1>1, <2>1, <2>7 DEF LeaseMove, Slots!Next
<1> QED  BY <1>2, <1>3

LEMMA AnswerTakenLease ==
  ASSUME LedgerInv, NEW r \in Requests, TakeAnswer(r) \/ CancelTake(r)
  PROVE  LeaseMove
<1>1. PICK l \in {"proxy", "release", "done"} :
        /\ Goto(r, l)
        /\ \/ /\ answer[r] = "conn" /\ l # "done"
              /\ conn' = [conn EXCEPT ![r] = answerConn[r]]
           \/ answer[r] # "conn" /\ l = "done" /\ conn' = conn
  BY DEF TakeAnswer, CancelTake
<1>2. /\ r \in Procs /\ pc[r] = "wait"
      /\ answer' = [answer EXCEPT ![r] = "empty"]
      /\ answerConn' = [answerConn EXCEPT ![r] = NoServer]
      /\ UNCHANGED <<clients, inflight>>
  BY DEF TakeAnswer, CancelTake, poolVars, Procs
<1>3. /\ \A q \in Procs : pc'[q] = (IF q = r THEN l ELSE pc[q])
      /\ \A q \in Procs \ {r} : conn'[q] = conn[q]
      /\ \A q \in Requests : answer'[q] = (IF q = r THEN "empty" ELSE answer[q])
      /\ \A q \in Requests \ {r} : answerConn'[q] = answerConn[q]
  BY <1>1, <1>2 DEF LedgerInv, TypeInv, TypeOK, Goto
<1>4. CASE answer[r] # "conn"
  <2>1. l = "done" /\ conn' = conn
    BY <1>1, <1>4
  <2>2. \A q \in Procs : pc'[q] \in HoldingPoints <=> pc[q] \in HoldingPoints
    BY <1>2, <1>3, <2>1 DEF HoldingPoints
  <2>3. \A q \in Requests : /\ answer'[q] = "conn" <=> answer[q] = "conn"
                            /\ answer[q] = "conn" => answerConn'[q] = answerConn[q]
    BY <1>3, <1>4
  <2> QED  BY <1>2, <2>1, <2>2, <2>3, LeaseQuiet
<1>5. CASE answer[r] = "conn"
  <2> DEFINE u == answerConn[r]
  <2>1. u \in Servers /\ l \in {"proxy", "release"} /\ conn'[r] = u
    BY <1>1, <1>2, <1>5 DEF LedgerInv, TypeInv, TypeOK, Points
  <2>2. InUse' = [InUse EXCEPT ![r] = u] /\ Parked' = [Parked EXCEPT ![r] = NoServer]
    <3>1. pc'[r] \in HoldingPoints /\ answer'[r] # "conn"
      BY <1>2, <1>3, <2>1 DEF HoldingPoints
    <3> QED  BY <1>2, <1>3, <2>1, <3>1, LeaseShape
  <2>3. InUse[r] = NoServer /\ Parked[r] = u
    BY <1>2, <1>5 DEF InUse, Parked, HoldingPoints
  <2>4. Gauge' = Gauge
    BY <1>2 DEF Gauge, Inflight
  <2>5. Slots!Collect(r, u)
    BY <2>2, <2>3, <2>4 DEF Slots!Collect
  <2> QED  BY <2>1, <2>5 DEF LeaseMove, Slots!Next
<1> QED  BY <1>4, <1>5

LEMMA DeliverLease ==
  ASSUME LedgerInv, Deliver
  PROVE  LeaseMove
<1> DEFINE u == conn[Worker]
<1>1. /\ Worker \in Procs /\ pc[Worker] = "deliver" /\ Goto(Worker, "scan")
      /\ conn' = [conn EXCEPT ![Worker] = NoServer]
      /\ answer[Item] = "empty"
      /\ answer' = [answer EXCEPT ![Item] = "conn"]
      /\ answerConn' = [answerConn EXCEPT ![Item] = u]
      /\ UNCHANGED <<clients, inflight>>
  BY DEF Deliver, Send, poolVars, Procs
<1>2. u \in Servers
  BY <1>1 DEF LedgerInv, TypeInv, Points, ConnOK, HoldingPoints
<1>3. PICK r \in Requests : r = Item
  <2>1. queue \in Seq(Requests) /\ cursor \in DOMAIN queue
    BY <1>1 DEF LedgerInv, TypeInv, TypeOK, Points
  <2> QED  BY <2>1 DEF Item
<1>4. /\ \A q \in Procs : pc'[q] = (IF q = Worker THEN "scan" ELSE pc[q])
      /\ \A q \in Procs \ {Worker} : conn'[q] = conn[q]
      /\ \A q \in Requests : answer'[q] = (IF q = r THEN "conn" ELSE answer[q])
      /\ \A q \in Requests : answerConn'[q] = (IF q = r THEN u ELSE answerConn[q])
  BY <1>1, <1>3 DEF LedgerInv, TypeInv, TypeOK, Goto
<1>5. InUse' = [InUse EXCEPT ![Worker] = NoServer] /\ Parked' = [Parked EXCEPT ![r] = u]
  <2>1. pc'[Worker] \notin HoldingPoints /\ answer'[r] = "conn" /\ answerConn'[r] = u
    BY <1>1, <1>4 DEF HoldingPoints
  <2> QED  BY <1>1, <1>4, <2>1, LeaseShape
<1>6. InUse[Worker] = u /\ Parked[r] = NoServer
  BY <1>1, <1>3 DEF InUse, Parked, HoldingPoints
<1>7. Gauge' = Gauge
  BY <1>1 DEF Gauge, Inflight
<1>8. Slots!Park(Worker, r, u)
  BY <1>5, <1>6, <1>7 DEF Slots!Park
<1> QED  BY <1>1, <1>2, <1>8 DEF LeaseMove, Slots!Next

LEMMA PassLease ==
  ASSUME LedgerInv,
         \/ BeginPass(TRUE) \/ BeginPass(FALSE) \/ EmptyPass \/ KeepItem \/ EndPass \/ Stop
         \/ ScanItem
  PROVE  LeaseMove
<1>1. Worker \in Procs /\ UNCHANGED <<clients, inflight, conn>>
  BY DEF Procs, BeginPass, EmptyPass, KeepItem, EndPass, Stop, ScanItem, poolVars, routerVars
<1>2. \/ UNCHANGED pc
      \/ /\ pc[Worker] \in {"select", "failed", "scan"}
         /\ \E l \in {"scan", "select", "stopped", "route"} : Goto(Worker, l)
  BY DEF BeginPass, EmptyPass, KeepItem, EndPass, Stop, ScanItem, routerVars
<1>3. \A q \in Procs : pc'[q] \in HoldingPoints <=> pc[q] \in HoldingPoints
  BY <1>2 DEF Goto, HoldingPoints, LedgerInv, TypeInv, TypeOK
<1>4. \A r \in Requests : /\ answer'[r] = "conn" <=> answer[r] = "conn"
                          /\ answer[r] = "conn" => answerConn'[r] = answerConn[r]
  <2>1. UNCHANGED <<answer, answerConn>> \/ Send(Item, "timeout", NoServer)
    BY DEF BeginPass, EmptyPass, KeepItem, EndPass, Stop, ScanItem
  <2> QED  BY <2>1 DEF Send, LedgerInv, TypeInv, TypeOK
<1> QED  BY <1>1, <1>3, <1>4, LeaseQuiet

LEMMA OutsideLease ==
  ASSUME LedgerInv, EnvStep \/ Drain \/ UNCHANGED vars
  PROVE  LeaseMove
<1>1. UNCHANGED <<clients, inflight, pc, conn, answerConn>>
  <2>1. CASE EnvStep
    BY <2>1 DEF EnvStep, ClientLeaves, Expire, SetStrategy, Rediscover, poolVars, routerVars,
       queueVars
  <2>2. CASE Drain
    BY <2>2 DEF Drain, poolVars, routerVars
  <2>3. CASE UNCHANGED vars
    BY <2>3 DEF vars, poolVars, routerVars, queueVars
  <2> QED  BY <2>1, <2>2, <2>3
<1>2. \A r \in Requests : answer'[r] = "conn" <=> answer[r] = "conn"
  <2>1. CASE EnvStep
    BY <2>1 DEF EnvStep, ClientLeaves, Expire, queueVars
  <2>2. CASE Drain
    BY <2>2 DEF Drain
  <2>3. CASE UNCHANGED vars
    BY <2>3 DEF vars, queueVars
  <2> QED  BY <2>1, <2>2, <2>3
<1> QED  BY <1>1, <1>2, LeaseQuiet

(* Handlers, router, worker and queue implement Lease, whatever the number *)
(* of servers and requests, on a pool that no administrator changes: every *)
(* slot is taken, handed over through one channel and given back by one    *)
(* process at a time, and the counters move with the slots and only then.  *)
THEOREM LeaseImplemented == Spec => ImplementsLease
<1>1. Init => Slots!Init
  <2> SUFFICES ASSUME Init PROVE Slots!Init
    OBVIOUS
  <2>1. InUse = [p \in Procs |-> NoServer]
    BY DEF Init, RouterInit, InUse, HoldingPoints
  <2>2. Parked = [r \in Requests |-> NoServer]
    BY DEF Init, QueueInit, Parked
  <2>3. \A u \in Servers : Inflight(u) = 0
    BY PoolAssumption DEF Init, PoolInit, Inflight, Generations
  <2>4. Gauge = [u \in Servers |-> 0]
    BY <2>3 DEF Gauge
  <2> QED  BY <2>1, <2>2, <2>4 DEF Slots!Init
<1>2. ASSUME LedgerInv, [Next]_vars
      PROVE  LeaseMove
  <2>1. ASSUME NEW r \in Requests, HandlerStep(r)
        PROVE  LeaseMove
    <3>1. r \in Procs  BY DEF Procs
    <3> QED  BY <1>2, <2>1, <3>1, RouteLease, HandlerLease, AnswerTakenLease, ReleaseLease
             DEF HandlerStep
  <2>2. CASE WorkerStep
    <3>1. pc[Worker] \in RoutePoints => Item \in Requests
      <4>1. queue \in Seq(Requests) /\ (pc[Worker] \in RoutePoints => cursor \in DOMAIN queue)
        BY <1>2 DEF LedgerInv, TypeInv, TypeOK, Points
      <4> QED  BY <4>1 DEF Item
    <3> QED  BY <1>2, <2>2, <3>1, RouteLease, PassLease, DeliverLease DEF WorkerStep, Procs
  <2>3. CASE EnvStep \/ ShutdownStep \/ UNCHANGED vars
    BY <1>2, <2>3, OutsideLease, PassLease DEF ShutdownStep
  <2> QED  BY <1>2, <2>1, <2>2, <2>3 DEF Next, Serve
<1>3. LedgerInv /\ [Next]_vars => [Slots!Next]_(Slots!leaseVars)
  BY <1>2 DEF LeaseMove, Slots!leaseVars
<1>4. LedgerInv /\ [Next]_vars => LedgerInv'
  BY StepLedger
<1> QED  BY <1>1, <1>3, <1>4, InitLedger, PTL DEF Spec, ImplementsLease, Slots!Spec

-----------------------------------------------------------------------------
(* The process around the bridge.                                          *)

LEMMA LifeStep ==
  ASSUME [LifeNext \/ Signal]_lifeVars
  PROVE  [Next]_vars
<1>1. CASE Alive(Serve)
  BY <1>1 DEF Alive, Next
<1>2. CASE DrainQueue \/ StopQueue
  BY <1>2 DEF DrainQueue, StopQueue, Next, ShutdownStep
<1>3. CASE StartReturns \/ ShutdownReturns \/ Signal \/ UNCHANGED lifeVars
  BY <1>3 DEF StartReturns, ShutdownReturns, Signal, lifeVars
<1> QED  BY <1>1, <1>2, <1>3 DEF LifeNext, MainStep

(* main runs the bridge and nothing else on the router: whatever signals   *)
(* come, and wherever its shutdown sequence finds the requests, the        *)
(* process implements the specification of the bridge, so that the         *)
(* theorems about Spec hold of it.                                         *)
THEOREM ProcessImplementsBridge == LifeSpec \/ SignalSpec => Spec
<1>1. LifeInit => Init
  BY DEF LifeInit
<1>2. [LifeNext \/ Signal]_lifeVars => [Next]_vars
  BY LifeStep
<1>3. [LifeNext]_lifeVars => [LifeNext \/ Signal]_lifeVars
  OBVIOUS
<1> QED  BY <1>1, <1>2, <1>3, PTL DEF LifeSpec, SignalSpec, Spec

(* The slots are leased also while main drains and stops the queue and     *)
(* waits for the handlers.                                                 *)
THEOREM ProcessLeases == LifeSpec => ImplementsLease
BY ProcessImplementsBridge, LeaseImplemented, PTL
=============================================================================
