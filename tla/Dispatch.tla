------------------------------ MODULE Dispatch ------------------------------
(***************************************************************************)
(* The life of proxied requests: Server.handleOpenAIProxy                  *)
(* (src/server/server.go) composed with the router, its queue and the      *)
(* pool, with the pool operations of the administration handlers running   *)
(* beside it.                                                              *)
(***************************************************************************)
EXTENDS QueueManager

vars == <<poolVars, routerVars, queueVars>>

HandlerPoints == {"idle", "ensure", "append", "notify", "wait", "remove", "proxy",
                  "upstream", "release", "dec", "done"}

WorkerPoints == WorkerIdle \cup {"scan", "deliver", "failed"}

-----------------------------------------------------------------------------
(* The request handler.                                                    *)

(* The body is read and names a model; Route is called.                    *)
Arrive(r) ==
  /\ pc[r] = "idle"
  /\ Goto(r, "route")
  /\ UNCHANGED <<poolVars, frame, conn, bc, rrIndex, serving, strategy, ctxDone, queueVars>>

(* 400: no body, no JSON or no model.                                      *)
RejectBody(r) ==
  /\ pc[r] = "idle"
  /\ Goto(r, "done")
  /\ UNCHANGED <<poolVars, frame, conn, bc, rrIndex, serving, strategy, ctxDone, queueVars>>

(* ProxyRequest looks the server up again; if it has left the pool the     *)
(* answer is 502 and the deferred Release runs.                            *)
ProxyLookup(r) ==
  /\ pc[r] = "proxy"
  /\ Goto(r, IF clients[conn[r]] = 0 THEN "release" ELSE "upstream")
  /\ UNCHANGED <<poolVars, frame, conn, bc, rrIndex, serving, strategy, ctxDone, queueVars>>

(* The exchange with the backend ends: its answer was streamed, the copy   *)
(* broke off, the request failed or its context ended.  The deferred       *)
(* Release runs next in every case.                                        *)
UpstreamEnds(r) ==
  /\ pc[r] = "upstream"
  /\ Goto(r, "release")
  /\ UNCHANGED <<poolVars, frame, conn, bc, rrIndex, serving, strategy, ctxDone, queueVars>>

(* Release looks up the client now in the map under the server's URL; if   *)
(* there is none nothing is decremented.                                   *)
ReleaseLookup(r) ==
  /\ pc[r] = "release"
  /\ LET g == clients[conn[r]] IN
     \/ /\ g = 0
        /\ Goto(r, "done")
        /\ conn' = [conn EXCEPT ![r] = NoServer]
        /\ UNCHANGED bc
     \/ /\ g # 0
        /\ Goto(r, "dec")
        /\ bc' = [bc EXCEPT ![r] = g]
        /\ UNCHANGED conn
  /\ UNCHANGED <<poolVars, frame, rrIndex, serving, strategy, ctxDone, queueVars>>

(* bc.inflight.Add(-1)                                                     *)
ReleaseDec(r) ==
  /\ pc[r] = "dec"
  /\ InflightAdd(conn[r], bc[r], -1)
  /\ Goto(r, "done")
  /\ conn' = [conn EXCEPT ![r] = NoServer]
  /\ bc' = [bc EXCEPT ![r] = 0]
  /\ UNCHANGED <<clients, made, server, frame, rrIndex, serving, strategy, ctxDone, queueVars>>

(* The client goes away and net/http ends the request's context; route and *)
(* enqueue are where the bridge looks at it.                               *)
ClientLeaves(r) ==
  /\ pc[r] \in RoutePoints \cup {"ensure", "append", "notify", "wait"}
  /\ ~ctxDone[r]
  /\ ctxDone' = [ctxDone EXCEPT ![r] = TRUE]
  /\ UNCHANGED <<poolVars, pc, frame, conn, bc, rrIndex, serving, strategy, queueVars>>

-----------------------------------------------------------------------------
(* Who may take a step.                                                    *)

(* A step of the handler goroutine of r.                                   *)
HandlerStep(r) ==
  \/ Arrive(r) \/ RejectBody(r)
  \/ RouteStep(r, r) /\ UNCHANGED queueVars
  \/ EnsureStarted(r) \/ AppendItem(r) \/ Notify(r)
  \/ TakeAnswer(r) \/ CancelTake(r) \/ CancelWait(r) \/ RemoveItem(r)
  \/ ProxyLookup(r) \/ UpstreamEnds(r)
  \/ ReleaseLookup(r) \/ ReleaseDec(r)

(* A step of the queue manager's goroutine.                                *)
WorkerStep ==
  \/ pc[Worker] \in RoutePoints /\ RouteStep(Worker, Item) /\ UNCHANGED queueVars
  \/ BeginPass(TRUE) \/ BeginPass(FALSE) \/ EmptyPass
  \/ ScanItem \/ Deliver \/ KeepItem \/ EndPass

(* What happens to the bridge from outside.                                *)
EnvStep ==
  \/ \E r \in Requests : ClientLeaves(r) \/ Expire(r)
  \/ (SetStrategy \/ \E m \in Models : Rediscover(m)) /\ UNCHANGED queueVars

(* The pool operations of the administration handlers.                     *)
AdminStep ==
  /\ \E u \in Servers : RemoveServer(u) \/ \E sc \in ServerConfig : AddServer(u, sc)
  /\ UNCHANGED <<routerVars, queueVars>>

(* The shutdown sequence's calls on the router.                            *)
ShutdownStep == Drain \/ Stop

Init == PoolInit /\ RouterInit /\ QueueInit

Serve == EnvStep \/ WorkerStep \/ \E r \in Requests : HandlerStep(r)

(* The bridge serving requests and nothing else.                           *)
ServeSpec == Init /\ [][Serve]_vars

(* The bridge serving requests, with Drain and Stop, on a pool that the    *)
(* administrators leave alone.                                             *)
Next == Serve \/ ShutdownStep

Spec == Init /\ [][Next]_vars

(* All of it, while servers are replaced, removed and added.               *)
ReconfNext == Next \/ AdminStep

ReconfSpec == Init /\ [][ReconfNext]_vars

-----------------------------------------------------------------------------
(* Properties.                                                             *)

(* Every variable has its type and every process is at a point of its own  *)
(* code: handlers never run processQueue, Worker never proxies.            *)
TypeOK ==
  /\ PoolTypeOK
  /\ pc \in [Procs -> RoutePoints \cup HandlerPoints \cup WorkerPoints]
  /\ pc[Worker] \in RoutePoints \cup WorkerPoints
  /\ \A r \in Requests : pc[r] \in RoutePoints \cup HandlerPoints
  /\ frame \in [Procs -> Frame]
  /\ conn \in [Procs -> Servers \cup {NoServer}]
  /\ bc \in [Procs -> 0..MaxGen]
  /\ rrIndex \in [Models -> Nat]
  /\ serving \in [Models -> ServingLists]
  /\ strategy \in Strategies
  /\ ctxDone \in [Requests -> BOOLEAN]
  /\ queue \in Seq(Requests)
  /\ cursor \in Nat
  /\ remaining \in Seq(Requests)
  /\ late \in SUBSET Requests
  /\ expired \in SUBSET Requests
  /\ started \in BOOLEAN
  /\ signal \in BOOLEAN
  /\ answer \in [Requests -> Answers]
  /\ answerConn \in [Requests -> Servers \cup {NoServer}]
  /\ lifecycle \in {"up", "drained", "stopped"}

(* The points at which a process has a slot counted for it.                *)
HoldingPoints == {"check", "deliver", "proxy", "upstream", "release", "dec"}

Holders(u) == {p \in Procs : conn[p] = u /\ pc[p] \in HoldingPoints}

InChannels(u) == {r \in Requests : answer[r] = "conn" /\ answerConn[r] = u}

(* Acquire and Release balance: a server's inflight counter is the number  *)
(* of processes that hold one of its slots plus the connections that wait  *)
(* in result channels, on every path through handler, route and queue.     *)
SlotLedger ==
  \A u \in Servers :
    Inflight(u) = Cardinality(Holders(u)) + Cardinality(InChannels(u))

(* However servers are replaced and removed under running requests, the    *)
(* counter the router reads is at most the slots that requests hold or     *)
(* have waiting in a result channel: Release, which may meet another       *)
(* client object than Acquire did, never leaves a slot counted that nobody *)
(* has.  A slot in a channel that nobody reads any more (NoOrphanedSlot)   *)
(* is one of them and keeps its server full; and the counter may say less  *)
(* than the slots in use, since a new client object starts from 0.         *)
GaugeNeverOvercounts ==
  \A u \in Servers :
    Inflight(u) <= Cardinality(Holders(u)) + Cardinality(InChannels(u))

(* An item is answered at most once, and only while its enqueue call has   *)
(* not returned: a pending item's channel is empty, so neither             *)
(* processQueue nor drain ever waits on a send while it holds qm.mu.       *)
AnswerOnce ==
  \A r \in Requests : Pending(r) => /\ answer[r] = "empty"
                                    /\ pc[r] \in {"notify", "wait", "remove"}

(* No queued request is forgotten by removals, passes, expiry or draining: *)
(* while enqueue waits its item is pending or its answer is there.         *)
NobodyForgotten ==
  \A r \in Requests :
    pc[r] \in {"notify", "wait"} => Pending(r) \/ answer[r] # "empty"

(* A request in the middle of a route call: the process and its request.   *)
Calls == {<<r, r>> : r \in Requests} \cup
         {<<Worker, r>> : r \in {queue[i] : i \in DOMAIN queue \cap {cursor}}}

(* On a stable pool a call passes over a server it inspected only because  *)
(* it saw the server full or its own context is done.                      *)
PassedOver(p, r, i) == ~HasRoom(frame[p].infos[i]) \/ ctxDone[r]

(* A slot is tried at a distance only after every closer server was passed *)
(* over for cause (route's loop over the groups).                          *)
ClosestFirst ==
  \A c \in Calls : LET p == c[1] IN
    pc[p] \in {"inc", "check"} =>
      \A i \in DOMAIN frame[p].infos :
        frame[p].infos[i].distance < frame[p].level => PassedOver(p, c[2], i)

(* A call falls back (an error, a best-effort attempt or the queue) only   *)
(* after every server it inspected was passed over for cause.              *)
FallbackOnlyWhenFull ==
  \A c \in Calls : LET p == c[1] IN
    pc[p] = "try" /\ frame[p].cands = {} /\ ~RemainsGroup(frame[p]) =>
      \A i \in DOMAIN frame[p].infos : PassedOver(p, c[2], i)

Before(q, r, s) == \E i, j \in DOMAIN q : i < j /\ q[i] = r /\ q[j] = s

(* Items that stay in the queue keep their order of arrival: no removal,   *)
(* pass or drain puts one that came later in front of one that came        *)
(* earlier.  Which of them is served first is another matter: in one pass  *)
(* the first may find its servers full and a later one the slot that was   *)
(* freed since, and a request that comes anew does not queue if it finds   *)
(* room.                                                                   *)
ArrivalOrderKept ==
  [][\A r, s \in Requests : Before(queue, r, s) => ~Before(queue', s, r)]_queue

-----------------------------------------------------------------------------
(* The abstract specification of the slots.                                *)

(* The server whose slot a process has in use, and the one in a channel.   *)
InUse == [p \in Procs |-> IF pc[p] \in HoldingPoints THEN conn[p] ELSE NoServer]

Parked == [r \in Requests |-> IF answer[r] = "conn" THEN answerConn[r] ELSE NoServer]

Gauge == [u \in Servers |-> Inflight(u)]

Slots == INSTANCE Lease WITH Users <- Procs, Boxes <- Requests,
                             inUse <- InUse, parked <- Parked, gauge <- Gauge

(* Handlers, router, worker and queue implement leases: a counter moves    *)
(* only when a process takes or gives back a slot, by one; a slot moves    *)
(* from the worker to one empty result channel and from there only to the  *)
(* request it is for; no slot is made, copied or dropped on the way.       *)
ImplementsLease == Slots!Spec

(* Stated by the code; the run shows how it fails.                         *)

(* backend.go: a connection is released when its user is done.             *)
NoOrphanedSlot ==
  \A r \in Requests : pc[r] = "done" => answer[r] # "conn"
=============================================================================
