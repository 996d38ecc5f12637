-------------------------------- MODULE Pool --------------------------------
(***************************************************************************)
(* backend.Pool (src/backend/backend.go): the map from server URL to a     *)
(* backendClient and each client's atomic inflight counter.                *)
(*                                                                         *)
(* A backendClient is an object on the heap: AddServer allocates a new one *)
(* and an operation that looked the old one up keeps its pointer.  Objects *)
(* of a URL are numbered 1, 2, ... in allocation order (its generation);   *)
(* clients[u] is the generation the map holds, 0 when u is not in the map. *)
(* The p.mu critical sections of the pool each touch the map once, so each *)
(* is one step; the inflight updates are separate steps, as in the code.   *)
(***************************************************************************)
EXTENDS Integers, FiniteSets

CONSTANTS
  Servers,      \* the URLs that may be in the pool
  Distances,    \* config.ServerConfig.Distance: 1-10, as Store.Set demands
  Limits,       \* config.ServerConfig.MaxConcurrentRequests: > 0, likewise
  InitConfigs,  \* the configurations of the servers at start-up
  MaxGen        \* bound on the number of clients allocated per URL

ServerConfig == [distance : Distances, maxConn : Limits]

ASSUME PoolAssumption ==
  /\ IsFiniteSet(Servers)
  /\ Distances \subseteq 1..10
  /\ Limits \subseteq Nat \ {0}
  /\ InitConfigs \subseteq [Servers -> ServerConfig]
  /\ MaxGen \in Nat \ {0}

VARIABLES
  clients,   \* Pool.clients: generation of the client in the map, 0 if none
  made,      \* how many clients of the URL were ever allocated
  server,    \* backendClient.server of the client in the map
  inflight   \* backendClient.inflight of every client ever allocated

poolVars == <<clients, made, server, inflight>>

Generations == 1..MaxGen

PoolTypeOK ==
  /\ clients \in [Servers -> 0..MaxGen]
  /\ made \in [Servers -> 0..MaxGen]
  /\ server \in [Servers -> ServerConfig]
  /\ inflight \in [Servers -> [Generations -> Int]]

(* NewPool, filled by server.New's syncServers before the bridge listens.  *)
PoolInit ==
  /\ clients = [u \in Servers |-> 1]
  /\ made = [u \in Servers |-> 1]
  /\ server \in InitConfigs
  /\ inflight = [u \in Servers |-> [g \in Generations |-> 0]]

(* Inflight(serverID): the counter of the client now in the map, or 0.     *)
Inflight(u) == IF clients[u] = 0 THEN 0 ELSE inflight[u][clients[u]]

(* bc.inflight.Add(d) on the client object of generation g.                *)
InflightAdd(u, g, d) ==
  inflight' = [inflight EXCEPT ![u] = [inflight[u] EXCEPT ![g] = @ + d]]

(* Mutant of AddServer: the new client starts with the old one's counter.  *)
AddServerKeepsCount(u, sc) ==
  /\ made[u] < MaxGen
  /\ made' = [made EXCEPT ![u] = @ + 1]
  /\ clients' = [clients EXCEPT ![u] = made[u] + 1]
  /\ server' = [server EXCEPT ![u] = sc]
  /\ inflight' = [inflight EXCEPT ![u] = [@ EXCEPT ![made[u] + 1] = Inflight(u)]]

(* AddServer stores a fresh client, whose counter is 0, whether or not the *)
(* URL is already in the map.                                              *)
AddServer(u, sc) ==
  /\ made[u] < MaxGen
  /\ made' = [made EXCEPT ![u] = @ + 1]
  /\ clients' = [clients EXCEPT ![u] = made[u] + 1]
  /\ server' = [server EXCEPT ![u] = sc]
  /\ UNCHANGED inflight

RemoveServer(u) ==
  /\ clients' = [clients EXCEPT ![u] = 0]
  /\ UNCHANGED <<made, server, inflight>>
=============================================================================
