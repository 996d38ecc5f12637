------------------------------ MODULE Discovery ------------------------------
(***************************************************************************)
(* discovery.Discovery (src/discovery/discovery.go): a goroutine that asks *)
(* every configured server for its models and keeps, under d.mu, which     *)
(* servers advertise a model, one server's description of it, and whether  *)
(* each server answered.                                                   *)
(*                                                                         *)
(* Each d.mu section is one step.  Discover takes several for one server:  *)
(* a description per model, updateModels, setHealthy.  The maps are total  *)
(* functions here: no entry is the empty list, NoDetails and FALSE.        *)
(***************************************************************************)
EXTENDS Sequences, FiniteSets, Naturals

CONSTANTS
  Servers,       \* the URLs that may be configured
  Models,        \* the model names servers may advertise
  ServerLists,   \* the lists SetServers may be given
  Down,          \* a backend that gives no answer that can be decoded
  NoDetails      \* no entry in modelDetails

ASSUME DiscoveryAssumption ==
  /\ ServerLists \subseteq Seq(Servers)
  /\ \A a \in SUBSET Models : a # Down
  /\ NoDetails \notin Servers

VARIABLES
  servers,       \* Discovery.servers
  models,        \* Discovery.models: the servers of each model
  modelDetails,  \* Discovery.modelDetails: whose description is kept
  healthy,       \* Discovery.healthy
  at,            \* where the polling goroutine is
  todo,          \* the servers left in this Discover, the one polled first
  ids,           \* the models of the answer not yet looked at
  modelIDs,      \* the models of the answer
  ctx,           \* "live", or "canceled" by Stop
  advert         \* what each backend answers: a set of models, or Down

vars == <<servers, models, modelDetails, healthy, at, todo, ids, modelIDs, ctx, advert>>

Init ==
  /\ servers \in ServerLists
  /\ models = [m \in Models |-> <<>>]
  /\ modelDetails = [m \in Models |-> NoDetails]
  /\ healthy = [u \in Servers |-> FALSE]
  /\ at = "off"
  /\ todo = <<>>
  /\ ids = {}
  /\ modelIDs = {}
  /\ ctx = "live"
  /\ advert \in [Servers -> (SUBSET Models) \cup {Down}]

(* The servers ServersForModel returns, as a set.                          *)
Listed(m) == {models[m][i] : i \in DOMAIN models[m]}

ServersForModel(m) == {u \in Listed(m) : healthy[u]}

Polled == Head(todo)

Start ==
  /\ at = "off"
  /\ ctx = "live"
  /\ at' = "select"
  /\ UNCHANGED <<servers, models, modelDetails, healthy, todo, ids, modelIDs, ctx, advert>>

(* The ticker fires and Discover copies the list of servers.               *)
Tick ==
  /\ at = "select"
  /\ ctx = "live"
  /\ todo' = servers
  /\ at' = "loop"
  /\ UNCHANGED <<servers, models, modelDetails, healthy, ids, modelIDs, ctx, advert>>

(* Mutant of Exit: the loop does not look at its context.                  *)
ExitNever == FALSE /\ UNCHANGED vars

(* case <-ctx.Done() of Start's loop.                                      *)
Exit ==
  /\ at = "select"
  /\ ctx = "canceled"
  /\ at' = "exited"
  /\ UNCHANGED <<servers, models, modelDetails, healthy, todo, ids, modelIDs, ctx, advert>>

(* Discover returns: no server is left, or the context is done.            *)
PassEnds ==
  /\ at = "loop"
  /\ todo = <<>> \/ ctx = "canceled"
  /\ todo' = <<>>
  /\ at' = "select"
  /\ UNCHANGED <<servers, models, modelDetails, healthy, ids, modelIDs, ctx, advert>>

(* Mutant of Request: there may be no server left.                         *)
RequestUnchecked ==
  /\ at = "loop"
  /\ ctx = "live"
  /\ at' = "request"
  /\ UNCHANGED <<servers, models, modelDetails, healthy, todo, ids, modelIDs, ctx, advert>>

(* Mutant of Request: a server counts as down until it has answered.       *)
RequestMarksDown ==
  /\ at = "loop"
  /\ todo # <<>> /\ ctx = "live"
  /\ at' = "request"
  /\ healthy' = [healthy EXCEPT ![Polled] = FALSE]
  /\ UNCHANGED <<servers, models, modelDetails, todo, ids, modelIDs, ctx, advert>>

(* The GET for the next server is sent.                                    *)
Request ==
  /\ at = "loop"
  /\ todo # <<>> /\ ctx = "live"
  /\ at' = "request"
  /\ UNCHANGED <<servers, models, modelDetails, healthy, todo, ids, modelIDs, ctx, advert>>

(* Mutant of PollFails: the failure leaves the server's health alone.      *)
PollFailsSilently ==
  /\ at = "request"
  /\ advert[Polled] = Down \/ ctx = "canceled"
  /\ todo' = Tail(todo)
  /\ at' = "loop"
  /\ UNCHANGED <<servers, models, modelDetails, healthy, ids, modelIDs, ctx, advert>>

(* The request fails, also because Stop canceled its context, or the body  *)
(* cannot be decoded.                                                      *)
PollFails ==
  /\ at = "request"
  /\ advert[Polled] = Down \/ ctx = "canceled"
  /\ healthy' = [healthy EXCEPT ![Polled] = FALSE]
  /\ todo' = Tail(todo)
  /\ at' = "loop"
  /\ UNCHANGED <<servers, models, modelDetails, ids, modelIDs, ctx, advert>>

(* The servers of a list other than u, copied one by one.                  *)
Filtered(list, u) ==
  LET filtered[i \in 0..Len(list)] ==
        IF i = 0 THEN <<>>
        ELSE IF list[i] # u THEN Append(filtered[i - 1], list[i]) ELSE filtered[i - 1]
  IN  filtered[Len(list)]

(* Mutant of Relisted: the server is not taken out before it is appended.  *)
RelistedTwice(m, u, advertised) ==
  IF m \in advertised THEN Append(models[m], u) ELSE Filtered(models[m], u)

(* A model's list after u advertised the models in advertised.             *)
Relisted(m, u, advertised) ==
  LET filtered == Filtered(models[m], u) IN
  IF m \in advertised THEN Append(filtered, u) ELSE filtered

(* Mutant of PollAnswers: the models are listed before their descriptions  *)
(* are stored.                                                             *)
PollAnswersLists ==
  /\ at = "request"
  /\ advert[Polled] # Down
  /\ ids' = advert[Polled]
  /\ modelIDs' = advert[Polled]
  /\ models' = [m \in Models |-> Relisted(m, Polled, modelIDs')]
  /\ at' = "details"
  /\ UNCHANGED <<servers, modelDetails, healthy, todo, ctx, advert>>

(* The body is decoded; entries without an id are left out.                *)
PollAnswers ==
  /\ at = "request"
  /\ advert[Polled] # Down
  /\ ids' = advert[Polled]
  /\ modelIDs' = advert[Polled]
  /\ at' = "details"
  /\ UNCHANGED <<servers, models, modelDetails, healthy, todo, ctx, advert>>

(* The first server to advertise a model has its description kept.         *)
StoreDetails(m) ==
  /\ at = "details"
  /\ m \in ids
  /\ ids' = ids \ {m}
  /\ modelDetails' = [modelDetails EXCEPT ![m] = IF @ = NoDetails THEN Polled ELSE @]
  /\ UNCHANGED <<servers, models, healthy, at, todo, modelIDs, ctx, advert>>

(* Mutant of UpdateModels: a model nobody lists keeps its description.     *)
UpdateModelsKeepsDetails ==
  /\ at = "details"
  /\ ids = {}
  /\ models' = [m \in Models |-> Relisted(m, Polled, modelIDs)]
  /\ at' = "mark"
  /\ UNCHANGED <<servers, modelDetails, healthy, todo, ids, modelIDs, ctx, advert>>

(* updateModels: the server goes to the end of the lists of the models it  *)
(* advertises and leaves the others; a model without a server is deleted.  *)
UpdateModels ==
  /\ at = "details"
  /\ ids = {}
  /\ models' = [m \in Models |-> Relisted(m, Polled, modelIDs)]
  /\ modelDetails' = [m \in Models |->
       IF models[m] # <<>> /\ models'[m] = <<>> THEN NoDetails ELSE modelDetails[m]]
  /\ at' = "mark"
  /\ UNCHANGED <<servers, healthy, todo, ids, modelIDs, ctx, advert>>

(* d.setHealthy(url, true)                                                 *)
MarkHealthy ==
  /\ at = "mark"
  /\ healthy' = [healthy EXCEPT ![Polled] = TRUE]
  /\ todo' = Tail(todo)
  /\ modelIDs' = {}
  /\ at' = "loop"
  /\ UNCHANGED <<servers, models, modelDetails, ids, ctx, advert>>

(* Called by syncServers at any time.                                      *)
SetServers(l) ==
  /\ servers' = l
  /\ UNCHANGED <<models, modelDetails, healthy, at, todo, ids, modelIDs, ctx, advert>>

(* Stop cancels the context, as the signal that ends main's context does;  *)
(* Stop returns when the goroutine has exited.                             *)
Stop ==
  /\ at # "off"
  /\ ctx = "live"
  /\ ctx' = "canceled"
  /\ UNCHANGED <<servers, models, modelDetails, healthy, at, todo, ids, modelIDs, advert>>

StopReturned == ctx = "canceled" /\ at = "exited"

(* External: a backend goes down, comes back or serves other models.       *)
BackendChanges(u) ==
  /\ advert' \in {[advert EXCEPT ![u] = a] : a \in (SUBSET Models) \cup {Down}}
  /\ UNCHANGED <<servers, models, modelDetails, healthy, at, todo, ids, modelIDs, ctx>>

PollStep ==
  \/ Tick \/ Exit \/ PassEnds \/ Request \/ PollFails \/ PollAnswers
  \/ (\E m \in Models : StoreDetails(m)) \/ UpdateModels \/ MarkHealthy

Next ==
  \/ Start \/ PollStep \/ Stop
  \/ \E l \in ServerLists : SetServers(l)
  \/ \E u \in Servers : BackendChanges(u)

Spec == Init /\ [][Next]_vars

(* main starts the goroutine, which the scheduler, the ticker and the      *)
(* client's 10 s timeout keep going.                                       *)
FairSpec == Spec /\ WF_vars(Start) /\ WF_vars(PollStep)

-----------------------------------------------------------------------------
(* Every variable has its type, a server is polled at the points that use  *)
(* one, and only models of the answer are looked at.                       *)
TypeOK ==
  /\ servers \in Seq(Servers)
  /\ models \in [Models -> Seq(Servers)]
  /\ modelDetails \in [Models -> Servers \cup {NoDetails}]
  /\ healthy \in [Servers -> BOOLEAN]
  /\ at \in {"off", "select", "loop", "request", "details", "mark", "exited"}
  /\ todo \in Seq(Servers)
  /\ at \in {"request", "details", "mark"} => todo # <<>>
  /\ ids \subseteq modelIDs /\ modelIDs \subseteq Models
  /\ ctx \in {"live", "canceled"}
  /\ advert \in [Servers -> (SUBSET Models) \cup {Down}]

(* However often and in whatever order servers are polled, dropped and     *)
(* configured again, no model lists a server twice: the router would give  *)
(* it two turns of the round robin.                                        *)
ListedOnce ==
  \A m \in Models : \A i, j \in DOMAIN models[m] : models[m][i] = models[m][j] => i = j

(* Between two servers' answers exactly the listed models have a           *)
(* description: GET /v1/models and the OpenCode configuration find one for *)
(* every model, and none outlives its model.                               *)
DetailsMatchModels ==
  at # "details" =>
    \A m \in Models : modelDetails[m] # NoDetails <=> models[m] # <<>>

(* A server leaves ServersForModel only in the step that handles its own   *)
(* failed poll, or its own answer without the model: no other server's     *)
(* answer and no change of the server list interrupts it.  A poll that     *)
(* fails because a signal cancelled its context counts as its own: Do      *)
(* returns an error and a server that is well is marked down.              *)
LeavesForCause ==
  [][\A m \in Models : \A u \in ServersForModel(m) :
       u \notin ServersForModel(m)' =>
         /\ todo # <<>> /\ Polled = u
         /\ \/ at = "request" /\ at' = "loop"
            \/ at = "details" /\ m \notin modelIDs]_vars

(* The router is offered exactly the configured servers that are up and    *)
(* serve the model.                                                        *)
ViewCorrect ==
  \A i \in DOMAIN servers, m \in Models :
    servers[i] \in ServersForModel(m) <=> advert[servers[i]] # Down /\ m \in advert[servers[i]]

(* When backends and configuration stay as they are, polling sooner or     *)
(* later brings the router's view in line with them and keeps it so.       *)
Converges ==
  (<>[][UNCHANGED <<advert, servers, ctx>>]_vars /\ [](ctx = "live")) => <>[]ViewCorrect

(* Stop, which waits for the goroutine, returns.                           *)
StopReturns == ctx = "canceled" ~> StopReturned

(* server.go: handleDeleteServer removes a server from discovery.          *)
RemovedServerForgotten ==
  \A u \in Servers :
    (\A i \in DOMAIN servers : servers[i] # u) ~>
      \/ \E i \in DOMAIN servers : servers[i] = u
      \/ \A m \in Models : u \notin Listed(m)
      \/ ctx = "canceled"
=============================================================================
