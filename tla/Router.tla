------------------------------- MODULE Router -------------------------------
(***************************************************************************)
(* router.Router.route (src/router/router.go) and the Pool.Acquire it      *)
(* calls, run by every request's handler goroutine and, for queued         *)
(* requests, by the queue manager's goroutine (Worker).                    *)
(*                                                                         *)
(* A call is a process p routing request r: p = r for a handler's own      *)
(* call, p = Worker for a call of processQueue on r's behalf.  One step    *)
(* per access to shared state: the configuration and discovery's list,     *)
(* each GetServer, each Inflight, the round-robin section under rrMu, and  *)
(* the three parts of Acquire (lookup, increment, context check).          *)
(***************************************************************************)
EXTENDS Pool, Sequences

CONSTANTS
  Requests,      \* HTTP requests to the OpenAI endpoints, one goroutine each
  Worker,        \* the goroutine of queueManager.run
  NoServer,      \* no connection
  Models,        \* model names
  ModelOf,       \* the model each request names
  Strategies,    \* the fallback strategies the configuration may be set to
  ServingLists   \* the lists Discovery.ServersForModel may return

Procs == Requests \cup {Worker}

ASSUME RouterAssumption ==
  /\ IsFiniteSet(Requests)
  /\ Worker \notin Requests
  /\ NoServer \notin Servers
  /\ ModelOf \in [Requests -> Models]
  /\ Strategies # {}
  /\ Strategies \subseteq {"error", "best_effort", "queue"}
  /\ ServingLists \subseteq Seq(Servers)

VARIABLES
  pc,        \* where each process is
  frame,     \* the local variables of each process's route call
  conn,      \* the server of the slot a process takes, holds or gives back
  bc,        \* the client object Acquire or Release looked up
  rrIndex,   \* Router.rrIndex
  serving,   \* what Discovery.ServersForModel returns for each model
  strategy,  \* Global.FallbackStrategy of the configuration store
  ctxDone    \* whether the request's context is done (the client left)

routerVars == <<pc, frame, conn, bc, rrIndex, serving, strategy, ctxDone>>

(* serverInfo, the router's snapshot of one server.                        *)
Info == [url : Servers, distance : Distances, maxConn : Limits, inflight : Int]

NoGroup == 0     \* no group tried yet
AnyGroup == 11   \* past every distance: the best-effort attempt

Frame == [strat : Strategies,           \* cfg.Global.FallbackStrategy, read first
          todo : Seq(Servers),          \* servers still to be inspected
          infos : Seq(Info),            \* the servers inspected
          level : 0..11,                \* distance of the group being tried
          idx : Nat,                    \* its round-robin start
          cands : SUBSET Nat]           \* members not yet tried, as indices of infos

NewFrame(strat, servers) ==
  [strat |-> strat, todo |-> servers, infos |-> <<>>, level |-> NoGroup,
   idx |-> 0, cands |-> {}]

EmptyFrame == NewFrame(CHOOSE s \in Strategies : TRUE, <<>>)

RoutePoints == {"route", "inspect", "load", "try", "inc", "check"}

RouterInit ==
  /\ pc = [p \in Procs |-> IF p = Worker THEN "off" ELSE "idle"]
  /\ frame = [p \in Procs |-> EmptyFrame]
  /\ conn = [p \in Procs |-> NoServer]
  /\ bc = [p \in Procs |-> 0]
  /\ rrIndex = [m \in Models |-> 0]
  /\ serving \in [Models -> ServingLists]
  /\ strategy \in Strategies
  /\ ctxDone = [r \in Requests |-> FALSE]

Goto(p, l) == pc' = [pc EXCEPT ![p] = l]

SetFrame(p, f) == frame' = [frame EXCEPT ![p] = f]

(* Mutant of RouteFails: the error ends whoever called route.              *)
RouteFailsCaller(p) == SetFrame(p, EmptyFrame) /\ Goto(p, "done")

(* route returns an error (ErrNoServers, ErrAllBusy): the handler answers  *)
(* 503 and is done, processQueue goes on.                                  *)
RouteFails(p) ==
  /\ SetFrame(p, EmptyFrame)
  /\ Goto(p, IF p = Worker THEN "failed" ELSE "done")

(* cfg := r.cfg.Get(); servers := r.disc.ServersForModel(model).           *)
RouteBegin(p, r) ==
  /\ pc[p] = "route"
  /\ LET servers == serving[ModelOf[r]] IN
     \/ /\ servers = <<>>
        /\ RouteFails(p)
     \/ /\ servers # <<>>
        /\ SetFrame(p, NewFrame(strategy, servers))
        /\ Goto(p, "inspect")
  /\ UNCHANGED <<poolVars, conn, bc, rrIndex, serving, strategy, ctxDone>>

(* The loop over servers goes on, or is over and the groups are tried.     *)
NextServer(p, todo) == Goto(p, IF todo = <<>> THEN "try" ELSE "inspect")

(* sc, ok := r.pool.GetServer(url); a server not in the pool is skipped.   *)
Inspect(p) ==
  /\ pc[p] = "inspect"
  /\ LET f == frame[p]
         u == Head(f.todo)
         info == [url |-> u, distance |-> server[u].distance,
                  maxConn |-> server[u].maxConn, inflight |-> 0] IN
     \/ /\ clients[u] = 0
        /\ SetFrame(p, [f EXCEPT !.todo = Tail(@)])
        /\ NextServer(p, Tail(f.todo))
     \/ /\ clients[u] # 0
        /\ SetFrame(p, [f EXCEPT !.todo = Tail(@), !.infos = Append(@, info)])
        /\ Goto(p, "load")
  /\ UNCHANGED <<poolVars, conn, bc, rrIndex, serving, strategy, ctxDone>>

(* inflight: r.pool.Inflight(url), a lookup of its own.                    *)
LoadInflight(p) ==
  /\ pc[p] = "load"
  /\ LET f == frame[p]
         n == Len(f.infos)
         info == [f.infos[n] EXCEPT !.inflight = Inflight(f.infos[n].url)] IN
     /\ SetFrame(p, [f EXCEPT !.infos = [f.infos EXCEPT ![n] = info]])
     /\ NextServer(p, f.todo)
  /\ UNCHANGED <<poolVars, conn, bc, rrIndex, serving, strategy, ctxDone>>

(* The members of the group at distance d, in sorted order: sort.Slice     *)
(* keeps equal distances in the order of the list (it is an insertion sort *)
(* for up to 12 servers), so a group is a set of indices of infos and a    *)
(* member's position in it is the number of members before it.             *)
Group(infos, d) == {i \in DOMAIN infos : infos[i].distance = d}

Position(infos, i) == Cardinality({j \in Group(infos, infos[i].distance) : j < i})

(* Mutant of HasRoom: a server at its limit is taken.                      *)
HasRoomAtLimit(info) == info.inflight <= info.maxConn

HasRoom(info) == info.inflight < info.maxConn

(* Mutant of IsNextGroup: the servers were not sorted by distance.         *)
IsNextGroupUnsorted(infos, level, d) == d > level /\ Group(infos, d) # {}

(* d is the distance of the group after the one at distance level.         *)
IsNextGroup(infos, level, d) ==
  /\ d > level
  /\ Group(infos, d) # {}
  /\ \A i \in DOMAIN infos : infos[i].distance > level => infos[i].distance >= d

RemainsGroup(f) == \E d \in Distances : IsNextGroup(f.infos, f.level, d)

(* Mutant of StartGroup: the limit is off by one.                          *)
StartGroupOffByOne(p, r, d) ==
  LET f == frame[p]
      g == Group(f.infos, d)
      idx == rrIndex[ModelOf[r]] % Cardinality(g) IN
  /\ rrIndex' = [rrIndex EXCEPT ![ModelOf[r]] = idx + 1]
  /\ SetFrame(p, [f EXCEPT !.level = d, !.idx = idx,
                           !.cands = {i \in g : f.infos[i].inflight + 1 < f.infos[i].maxConn}])

(* Mutant of StartGroup: the round-robin index is not advanced.            *)
StartGroupSameIndex(p, r, d) ==
  LET f == frame[p]
      g == Group(f.infos, d)
      idx == rrIndex[ModelOf[r]] % Cardinality(g) IN
  /\ rrIndex' = [rrIndex EXCEPT ![ModelOf[r]] = idx]
  /\ SetFrame(p, [f EXCEPT !.level = d, !.idx = idx,
                           !.cands = {i \in g : HasRoom(f.infos[i])}])

(* idx := r.rrIndex[model] % len(group); r.rrIndex[model] = idx + 1.  Only *)
(* the members that the snapshot shows below their limit will be tried.    *)
StartGroup(p, r, d) ==
  LET f == frame[p]
      g == Group(f.infos, d)
      idx == rrIndex[ModelOf[r]] % Cardinality(g) IN
  /\ rrIndex' = [rrIndex EXCEPT ![ModelOf[r]] = idx + 1]
  /\ SetFrame(p, [f EXCEPT !.level = d, !.idx = idx,
                           !.cands = {i \in g : HasRoom(f.infos[i])}])

PickGroup(p, r) ==
  /\ pc[p] = "try"
  /\ frame[p].cands = {}
  /\ \E d \in Distances :
       /\ IsNextGroup(frame[p].infos, frame[p].level, d)
       /\ StartGroup(p, r, d)
  /\ UNCHANGED <<poolVars, pc, conn, bc, serving, strategy, ctxDone>>

(* k of group[(idx+k)%len(group)]: when in the loop member i is tried.     *)
Turn(f, i) == (Position(f.infos, i) - f.idx)
                % Cardinality(Group(f.infos, f.infos[i].distance))

(* The lookup of Acquire, for the next member of the group that has room.  *)
AcquireLookup(p) ==
  /\ pc[p] = "try"
  /\ \E i \in frame[p].cands :
       LET f == frame[p]
           u == f.infos[i].url IN
       /\ \A j \in f.cands : Turn(f, i) <= Turn(f, j)
       /\ SetFrame(p, [f EXCEPT !.cands = @ \ {i}])
       /\ \/ clients[u] = 0 /\ UNCHANGED <<pc, conn, bc>>
          \/ /\ clients[u] # 0
             /\ Goto(p, "inc")
             /\ conn' = [conn EXCEPT ![p] = u]
             /\ bc' = [bc EXCEPT ![p] = clients[u]]
  /\ UNCHANGED <<poolVars, rrIndex, serving, strategy, ctxDone>>

(* bc.inflight.Add(1)                                                      *)
AcquireAdd(p) ==
  /\ pc[p] = "inc"
  /\ InflightAdd(conn[p], bc[p], 1)
  /\ Goto(p, "check")
  /\ UNCHANGED <<clients, made, server, frame, conn, bc, rrIndex, serving,
                 strategy, ctxDone>>

(* Mutant of AcquireCheck: the error path forgets Add(-1).                 *)
AcquireCheckLeaks(p, r) ==
  /\ pc[p] = "check"
  /\ \/ /\ ctxDone[r]
        /\ Goto(p, "try")
        /\ conn' = [conn EXCEPT ![p] = NoServer]
        /\ UNCHANGED <<inflight, frame>>
     \/ /\ ~ctxDone[r]
        /\ Goto(p, IF p = Worker THEN "deliver" ELSE "proxy")
        /\ SetFrame(p, EmptyFrame)
        /\ UNCHANGED <<inflight, conn>>
  /\ bc' = [bc EXCEPT ![p] = 0]
  /\ UNCHANGED <<clients, made, server, rrIndex, serving, strategy, ctxDone>>

(* select { case <-ctx.Done(): Add(-1), error; default: a connection }.    *)
(* route returns the connection; on the error it tries the next member.    *)
AcquireCheck(p, r) ==
  /\ pc[p] = "check"
  /\ \/ /\ ctxDone[r]
        /\ InflightAdd(conn[p], bc[p], -1)
        /\ Goto(p, "try")
        /\ conn' = [conn EXCEPT ![p] = NoServer]
        /\ UNCHANGED frame
     \/ /\ ~ctxDone[r]
        /\ Goto(p, IF p = Worker THEN "deliver" ELSE "proxy")
        /\ SetFrame(p, EmptyFrame)
        /\ UNCHANGED <<inflight, conn>>
  /\ bc' = [bc EXCEPT ![p] = 0]
  /\ UNCHANGED <<clients, made, server, rrIndex, serving, strategy, ctxDone>>

(* inflight/maxConn compared without the division.                         *)
LessLoaded(a, b) == a.inflight * b.maxConn < b.inflight * a.maxConn

(* The scan keeps the first server of the sorted list among the least      *)
(* loaded ones.                                                            *)
IsBest(infos, i) ==
  \A j \in DOMAIN infos \ {i} :
    /\ ~LessLoaded(infos[j], infos[i])
    /\ \/ LessLoaded(infos[i], infos[j])
       \/ infos[i].distance < infos[j].distance
       \/ infos[i].distance = infos[j].distance /\ i < j

(* No group gave a connection: ErrNoServers if nothing was inspected, else *)
(* the fallback strategy.  Only a handler's call may queue (allowQueue).   *)
Fallback(p) ==
  /\ pc[p] = "try"
  /\ frame[p].cands = {}
  /\ ~RemainsGroup(frame[p])
  /\ LET f == frame[p] IN
     \/ /\ f.infos = <<>>
        /\ RouteFails(p)
     \/ /\ f.infos # <<>> /\ f.strat = "best_effort" /\ f.level # AnyGroup
        /\ \E i \in DOMAIN f.infos :
             /\ IsBest(f.infos, i)
             /\ SetFrame(p, [f EXCEPT !.level = AnyGroup, !.cands = {i}])
        /\ UNCHANGED pc
     \/ /\ f.infos # <<>> /\ f.strat = "queue" /\ p # Worker
        /\ SetFrame(p, EmptyFrame)
        /\ Goto(p, "ensure")
     \/ /\ f.infos # <<>>
        /\ \/ f.strat = "error"
           \/ f.strat = "best_effort" /\ f.level = AnyGroup
           \/ f.strat = "queue" /\ p = Worker
        /\ RouteFails(p)
  /\ UNCHANGED <<poolVars, conn, bc, rrIndex, serving, strategy, ctxDone>>

(* One step of p's call to route on behalf of request r.                   *)
RouteStep(p, r) ==
  \/ RouteBegin(p, r)
  \/ Inspect(p)
  \/ LoadInflight(p)
  \/ PickGroup(p, r)
  \/ AcquireLookup(p)
  \/ AcquireAdd(p)
  \/ AcquireCheck(p, r)
  \/ Fallback(p)

(* Discovery publishes another list for a model.                           *)
Rediscover(m) ==
  /\ \E l \in ServingLists : l # serving[m] /\ serving' = [serving EXCEPT ![m] = l]
  /\ UNCHANGED <<poolVars, pc, frame, conn, bc, rrIndex, strategy, ctxDone>>

(* The configuration store takes another fallback strategy.                *)
SetStrategy ==
  /\ \E s \in Strategies : s # strategy /\ strategy' = s
  /\ UNCHANGED <<poolVars, pc, frame, conn, bc, rrIndex, serving, ctxDone>>
=============================================================================
