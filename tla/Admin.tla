------------------------------- MODULE Admin -------------------------------
(***************************************************************************)
(* config.Store (src/config/config.go), the administration handlers that   *)
(* change the configuration and syncServers (src/server/server.go), and    *)
(* the start of the process (src/cmd/llm-bridge/main.go).                  *)
(*                                                                         *)
(* Config.Servers is a slice.  Store.Get copies its header and not its     *)
(* array, so the store and every handler that read it share the array:     *)
(* heap holds the arrays, a slice is the name of an array and a length,    *)
(* and the length of the array is the slice's capacity.  A request makes   *)
(* at most one array, which is named after it; Boot is the one Load makes. *)
(* Nothing but s.mu orders the handlers' accesses, and s.mu does not cover *)
(* the accesses to the array.                                              *)
(***************************************************************************)
EXTENDS Integers, Sequences, FiniteSets, TLC

CONSTANTS
  Requests,      \* administration requests, each with its handler goroutine
  Urls,          \* server URLs that Set accepts
  Distances,     \* distances requests ask for; the limit is treated alike
  Globals,       \* global settings requests ask for and files hold
  Env,           \* the settings the environment gives, Unset where it does not
  Ops,           \* what the bodies and paths of the requests may say
  InitFiles,     \* the file at the first start
  Missing,       \* there is no file
  Unset,         \* a variable that is absent, empty or, for a number, not one
  Boot,          \* names the array Load makes
  NoClient,      \* no entry in Pool.clients
  NoOne,         \* s.mu is free
  Truncated,     \* what os.WriteFile leaves between opening and writing
  MaxRestarts    \* bound on the number of crashes

ServerConfig == [url : Urls, distance : Distances]

(* GlobalConfig: timeout stands for the five times, which are treated      *)
(* alike, and output for the two OpenCode limits.  The base URL is text,   *)
(* and nothing reads OpenCodeContextInput.                                 *)
(* "other" stands for every strategy the validation does not know.         *)
GlobalConfig ==
  [strategy : {"error", "best_effort", "queue", "other"}, timeout : Int, output : Int]

(* add, update and delete name a server; fields are those the body gives.  *)
(* put gives a whole configuration.                                        *)
ASSUME AdminAssumption ==
  /\ Globals \subseteq GlobalConfig
  /\ \A k \in {"strategy", "timeout", "output"} :
       Env[k] = Unset \/ \E g \in Globals : g[k] = Env[k]
  /\ Distances \subseteq Int
  /\ MaxRestarts \in Nat
  /\ InitFiles \subseteq [servers : Seq(ServerConfig), global : Globals] \cup {Missing}
  /\ \A o \in Ops :
       \/ o.kind = "put" /\ o.servers \in Seq(ServerConfig) /\ o.global \in Globals
       \/ o.kind = "add" /\ o.id = o.fields.url /\ o.fields \in ServerConfig
       \/ o.kind = "delete" /\ o.id \in Urls
       \/ /\ o.kind = "update" /\ o.id \in Urls
          /\ \A sc \in ServerConfig : o.fields @@ sc \in ServerConfig
  /\ Boot \notin Requests /\ NoOne \notin Requests
  /\ NoClient \notin ServerConfig
  /\ Missing # Truncated
  /\ \A f \in {Missing, Truncated} : f \notin [servers : Seq(ServerConfig), global : GlobalConfig]

VARIABLES
  heap,           \* the arrays
  store,          \* Store.config
  mu,             \* who holds Store.mu to write; readers hold it for a step
  file,           \* the configuration file
  pool,           \* Pool.clients: the configuration each client was made with
  discServers,    \* Discovery.servers
  metricServers,  \* the URLs given last to Collector.SetServers
  restarts,       \* crashes so far
  failed,         \* the last Set of this process returned an error
  pc,             \* where each handler is
  local           \* its local variables

runtime == <<pool, discServers, metricServers>>
vars == <<heap, store, mu, file, runtime, restarts, failed, pc, local>>

NoServer == [url |-> "", distance |-> 0]   \* a zero ServerConfig

Config == [array : Requests \cup {Boot}, len : Nat, global : GlobalConfig]

DefaultGlobal == [strategy |-> "error", timeout |-> 30, output |-> 8192]

(* The local variables of a handler that does not run: its request, cfg,   *)
(* the index of its loop, handleUpdateServer's updated, what saveLocked    *)
(* marshalled and syncServers' urls.                                       *)
Fresh ==
  [op |-> [kind |-> "none"],
   cfg |-> [array |-> Boot, len |-> 0, global |-> DefaultGlobal],
   idx |-> 0, updated |-> NoServer,
   data |-> Missing, urls |-> <<>>]

(* What a slice header shows now.                                          *)
Contents(c) == [servers |-> SubSeq(heap[c.array], 1, c.len), global |-> c.global]

UrlsOf(servers) == [i \in DOMAIN servers |-> servers[i].url]

-----------------------------------------------------------------------------
(* Start-up.                                                               *)

ValidStrategy(s) == s \in {"error", "best_effort", "queue"}

(* Settings that make no sense get their defaults.                         *)
Normalised(g) ==
  [strategy |-> IF ValidStrategy(g.strategy) THEN g.strategy ELSE DefaultGlobal.strategy,
   timeout |-> IF g.timeout <= 0 THEN DefaultGlobal.timeout ELSE g.timeout,
   output |-> IF g.output <= 0 THEN DefaultGlobal.output ELSE g.output]

(* envInt and envString for every setting, and the defaults again.         *)
applyEnvOverrides(g) ==
  Normalised([k \in DOMAIN g |-> IF Env[k] = Unset THEN g[k] ELSE Env[k]])

(* What Load makes of the file.  Without a file it returns before it looks *)
(* at the environment.  An empty file is a zero Config.  The servers are   *)
(* taken as they are.                                                      *)
Loaded(f) ==
  IF f = Missing THEN [servers |-> <<>>, global |-> DefaultGlobal]
  ELSE IF f = Truncated THEN [servers |-> <<>>, global |-> applyEnvOverrides(DefaultGlobal)]
  ELSE [f EXCEPT !.global = applyEnvOverrides(Normalised(@))]

(* The clients that adding the servers in turn makes in an empty pool.     *)
Clients(servers) ==
  [u \in Urls |->
     LET at == {i \in DOMAIN servers : servers[i].url = u}
     IN  IF at = {} THEN NoClient
         ELSE servers[CHOOSE i \in at : \A j \in at : j <= i]]

(* main up to the moment the server listens, in what it leaves behind: the *)
(* store as loaded, and syncServers on an empty pool.                      *)
Started(c, heap1, store1, pool1, disc1, metric1) ==
  /\ heap1 = [a \in Requests \cup {Boot} |-> IF a = Boot THEN c.servers ELSE <<>>]
  /\ store1 = [array |-> Boot, len |-> Len(c.servers), global |-> c.global]
  /\ pool1 = Clients(c.servers)
  /\ disc1 = UrlsOf(c.servers)
  /\ metric1 = UrlsOf(c.servers)

(* The first start.  Load writes the default configuration when there is   *)
(* no file.                                                                *)
Init ==
  /\ \E f \in InitFiles :
       /\ file = IF f = Missing THEN Loaded(f) ELSE f
       /\ Started(Loaded(f), heap, store, pool, discServers, metricServers)
  /\ mu = NoOne
  /\ restarts = 0
  /\ failed = FALSE
  /\ pc = [h \in Requests |-> "new"]
  /\ local = [h \in Requests |-> Fresh]

Goto(h, l) == pc' = [pc EXCEPT ![h] = l]

(* The handler of h responds and returns.                                  *)
Reply(h) ==
  /\ Goto(h, "done")
  /\ local' = [local EXCEPT ![h] = Fresh]

op(h) == local[h].op
cfg(h) == local[h].cfg
idx(h) == local[h].idx

Element(h) == heap[cfg(h).array][idx(h)]

-----------------------------------------------------------------------------
(* The handlers up to Store.Set.                                           *)

(* The id and the body are decoded; a request for which that fails touches *)
(* nothing.  A put has its own array and reads nothing.                    *)
Receive(h) ==
  /\ pc[h] = "new"
  /\ \E o \in Ops :
       \/ /\ o.kind = "put"
          /\ heap' = [heap EXCEPT ![h] = o.servers]
          /\ local' = [local EXCEPT ![h].op = o,
                         ![h].cfg = [array |-> h, len |-> Len(o.servers),
                                     global |-> o.global]]
          /\ Goto(h, "set")
       \/ /\ o.kind # "put"
          /\ local' = [local EXCEPT ![h].op = o]
          /\ Goto(h, "get")
          /\ UNCHANGED heap
  /\ UNCHANGED <<store, mu, file, runtime, restarts, failed>>

(* cfg := s.cfg.Get()                                                      *)
Get(h) ==
  /\ pc[h] = "get"
  /\ mu = NoOne
  /\ local' = [local EXCEPT ![h].cfg = store, ![h].idx = 1]
  /\ Goto(h, "scan")
  /\ UNCHANGED <<heap, store, mu, file, runtime, restarts, failed>>

(* One turn of the loop over cfg.Servers: the URL is another one, or it is *)
(* found and an add is refused, an update computed, a delete goes on.      *)
Examine(h) ==
  /\ pc[h] = "scan"
  /\ idx(h) <= cfg(h).len
  /\ \/ /\ Element(h).url # op(h).id
        /\ local' = [local EXCEPT ![h].idx = @ + 1]
        /\ UNCHANGED pc
     \/ /\ Element(h).url = op(h).id
        /\ \/ /\ op(h).kind = "add"
              /\ Reply(h)
           \/ /\ op(h).kind = "update"
              /\ local' = [local EXCEPT ![h].updated = op(h).fields @@ Element(h)]
              /\ Goto(h, "write")
           \/ /\ op(h).kind = "delete"
              /\ Goto(h, "shift")
              /\ UNCHANGED local
  /\ UNCHANGED <<heap, store, mu, file, runtime, restarts, failed>>

(* The loop ends without finding the URL: only an add goes on.             *)
NotFound(h) ==
  /\ pc[h] = "scan"
  /\ idx(h) > cfg(h).len
  /\ \/ op(h).kind = "add" /\ Goto(h, "append") /\ UNCHANGED local
     \/ op(h).kind # "add" /\ Reply(h)
  /\ UNCHANGED <<heap, store, mu, file, runtime, restarts, failed>>

(* append's array when it has to grow: twice the capacity, 1 from none.    *)
Grown(a, sc) ==
  LET n == Len(a)
  IN  [i \in 1..(IF n = 0 THEN 1 ELSE 2 * n) |->
         IF i <= n THEN a[i] ELSE IF i = n + 1 THEN sc ELSE NoServer]

(* Mutant of AppendServer: the array does not grow.                        *)
AppendServerInPlace(h) ==
  /\ pc[h] = "append"
  /\ heap' = [heap EXCEPT ![cfg(h).array] =
                [i \in DOMAIN @ |-> IF i = cfg(h).len + 1 THEN op(h).fields ELSE @[i]]]
  /\ local' = [local EXCEPT ![h].cfg.len = @ + 1]
  /\ Goto(h, "set")
  /\ UNCHANGED <<store, mu, file, runtime, restarts, failed>>

(* cfg.Servers = append(cfg.Servers, sc): into the shared array while it   *)
(* has room behind the slice, else into a new one.                         *)
AppendServer(h) ==
  /\ pc[h] = "append"
  /\ \/ /\ cfg(h).len < Len(heap[cfg(h).array])
        /\ heap' = [heap EXCEPT ![cfg(h).array] = [@ EXCEPT ![cfg(h).len + 1] = op(h).fields]]
        /\ local' = [local EXCEPT ![h].cfg.len = @ + 1]
     \/ /\ cfg(h).len = Len(heap[cfg(h).array])
        /\ heap' = [heap EXCEPT ![h] = Grown(heap[cfg(h).array], op(h).fields)]
        /\ local' = [local EXCEPT ![h].cfg.len = @ + 1, ![h].cfg.array = h]
  /\ Goto(h, "set")
  /\ UNCHANGED <<store, mu, file, runtime, restarts, failed>>

(* cfg.Servers[i] = updated                                                *)
WriteBack(h) ==
  /\ pc[h] = "write"
  /\ heap' = [heap EXCEPT ![cfg(h).array] = [@ EXCEPT ![idx(h)] = local[h].updated]]
  /\ Goto(h, "set")
  /\ UNCHANGED <<store, mu, file, runtime, restarts, failed, local>>

(* append(cfg.Servers[:i], cfg.Servers[i+1:]...) moves the tail down in    *)
(* the shared array; the last element stays behind the shorter slice.      *)
Shift(h) ==
  /\ pc[h] = "shift"
  /\ heap' = [heap EXCEPT ![cfg(h).array] =
                [i \in DOMAIN @ |-> IF i \in idx(h)..(cfg(h).len - 1) THEN @[i + 1] ELSE @[i]]]
  /\ local' = [local EXCEPT ![h].cfg.len = @ - 1]
  /\ Goto(h, "set")
  /\ UNCHANGED <<store, mu, file, runtime, restarts, failed>>

-----------------------------------------------------------------------------
(* Store.Set.                                                              *)

(* Mutant of Valid: only the last server is checked.                       *)
ValidLast(c) ==
  /\ ValidStrategy(c.global.strategy)
  /\ c.global.output >= 0
  /\ c.len > 0 => heap[c.array][c.len].distance \in 1..10

(* Set's validation, of whatever the slice shows.                          *)
Valid(c) ==
  /\ ValidStrategy(c.global.strategy)
  /\ c.global.output >= 0
  /\ \A i \in 1..c.len : heap[c.array][i].distance \in 1..10

(* Set locks s.mu and validates.                                           *)
SetCheck(h) ==
  /\ pc[h] = "set"
  /\ mu = NoOne
  /\ \/ Valid(cfg(h)) /\ mu' = h /\ Goto(h, "commit") /\ UNCHANGED <<failed, local>>
     \/ ~Valid(cfg(h)) /\ Reply(h) /\ failed' = TRUE /\ UNCHANGED mu
  /\ UNCHANGED <<heap, store, file, runtime, restarts>>

(* What Set stores: an output of 0 stands for the default; a time of 0 is  *)
(* stored as it is.                                                        *)
Settled(c) ==
  [c EXCEPT !.global.output = IF @ = 0 THEN DefaultGlobal.output ELSE @]

(* Mutant of Commit: s.mu is unlocked before the file is written.          *)
CommitUnlocks(h) ==
  /\ pc[h] = "commit"
  /\ store' = Settled(cfg(h))
  /\ mu' = NoOne
  /\ local' = [local EXCEPT ![h].data = Contents(Settled(cfg(h)))]
  /\ Goto(h, "save")
  /\ UNCHANGED <<heap, file, runtime, restarts, failed>>

(* s.config = cfg; saveLocked marshals it and opens the file, which        *)
(* truncates it, or fails to: then the configuration stays all the same.   *)
Commit(h) ==
  /\ pc[h] = "commit"
  /\ store' = Settled(cfg(h))
  /\ \/ /\ local' = [local EXCEPT ![h].data = Contents(Settled(cfg(h)))]
        /\ file' = Truncated
        /\ Goto(h, "save")
        /\ UNCHANGED <<mu, failed>>
     \/ /\ Reply(h)
        /\ mu' = NoOne
        /\ failed' = TRUE
        /\ UNCHANGED file
  /\ UNCHANGED <<heap, runtime, restarts>>

(* Does the handler remove a client after Set?                             *)
Removes(h) ==
  \/ op(h).kind = "delete"
  \/ op(h).kind = "update" /\ local[h].updated.url # op(h).id

(* The file is written, or the write fails; s.mu is unlocked.              *)
Save(h) ==
  /\ pc[h] = "save"
  /\ mu' = NoOne
  /\ \/ /\ file' = local[h].data
        /\ Goto(h, IF Removes(h) THEN "remove" ELSE "sync")
        /\ failed' = FALSE
        /\ UNCHANGED local
     \/ /\ Reply(h)
        /\ failed' = TRUE
        /\ UNCHANGED file
  /\ UNCHANGED <<heap, store, runtime, restarts>>

-----------------------------------------------------------------------------
(* After Store.Set: RemoveServer and syncServers.                          *)

(* Mutant of RemoveServer: syncServers does not follow.                    *)
RemoveServerOnly(h) ==
  /\ pc[h] = "remove"
  /\ pool' = [pool EXCEPT ![op(h).id] = NoClient]
  /\ Reply(h)
  /\ UNCHANGED <<heap, store, mu, file, discServers, metricServers, restarts, failed>>

(* s.pool.RemoveServer(id)                                                 *)
RemoveServer(h) ==
  /\ pc[h] = "remove"
  /\ pool' = [pool EXCEPT ![op(h).id] = NoClient]
  /\ Goto(h, "sync")
  /\ UNCHANGED <<heap, store, mu, file, discServers, metricServers, restarts, failed, local>>

(* syncServers reads the configuration, which may be another request's.    *)
SyncGet(h) ==
  /\ pc[h] = "sync"
  /\ mu = NoOne
  /\ local' = [local EXCEPT ![h] = [Fresh EXCEPT !.cfg = store, !.idx = 1]]
  /\ Goto(h, "pool")
  /\ UNCHANGED <<heap, store, mu, file, runtime, restarts, failed>>

(* s.pool.AddServer(sc), for each server as the array shows it then.       *)
SyncPool(h) ==
  /\ pc[h] = "pool"
  /\ idx(h) <= cfg(h).len
  /\ pool' = [pool EXCEPT ![Element(h).url] = Element(h)]
  /\ local' = [local EXCEPT ![h].idx = @ + 1]
  /\ UNCHANGED <<heap, store, mu, file, discServers, metricServers, restarts, failed, pc>>

(* The second loop over cfg.Servers.                                       *)
SyncUrls(h) ==
  /\ pc[h] = "pool"
  /\ idx(h) > cfg(h).len
  /\ local' = [local EXCEPT ![h] = [Fresh EXCEPT !.urls = UrlsOf(Contents(cfg(h)).servers)]]
  /\ Goto(h, "disc")
  /\ UNCHANGED <<heap, store, mu, file, runtime, restarts, failed>>

(* s.disc.SetServers(urls)                                                 *)
SyncDiscovery(h) ==
  /\ pc[h] = "disc"
  /\ discServers' = local[h].urls
  /\ Goto(h, "metrics")
  /\ UNCHANGED <<heap, store, mu, file, pool, metricServers, restarts, failed, local>>

(* Mutant of SyncMetrics: a shorter list is not passed on.                 *)
SyncMetricsGrows(h) ==
  /\ pc[h] = "metrics"
  /\ metricServers' = IF Len(local[h].urls) > Len(metricServers)
                      THEN local[h].urls ELSE metricServers
  /\ Reply(h)
  /\ UNCHANGED <<heap, store, mu, file, pool, discServers, restarts, failed>>

(* s.metrics.SetServers(urls), and the response.                           *)
SyncMetrics(h) ==
  /\ pc[h] = "metrics"
  /\ metricServers' = local[h].urls
  /\ Reply(h)
  /\ UNCHANGED <<heap, store, mu, file, pool, discServers, restarts, failed>>

-----------------------------------------------------------------------------
Running(h) == pc[h] \notin {"new", "done"}

(* The process dies with whatever its handlers were doing and starts again *)
(* from the file.                                                          *)
Restart ==
  /\ restarts < MaxRestarts
  /\ restarts' = restarts + 1
  /\ Started(Loaded(file), heap', store', pool', discServers', metricServers')
  /\ mu' = NoOne
  /\ pc' = [h \in Requests |-> IF Running(h) THEN "done" ELSE pc[h]]
  /\ local' = [h \in Requests |-> Fresh]
  /\ failed' = FALSE
  /\ UNCHANGED file

Handle(h) ==
  \/ Receive(h) \/ Get(h) \/ Examine(h) \/ NotFound(h)
  \/ AppendServer(h) \/ WriteBack(h) \/ Shift(h)
  \/ SetCheck(h) \/ Commit(h) \/ Save(h)
  \/ RemoveServer(h) \/ SyncGet(h) \/ SyncPool(h) \/ SyncUrls(h)
  \/ SyncDiscovery(h) \/ SyncMetrics(h)

Next == Restart \/ \E h \in Requests : Handle(h)

Spec == Init /\ [][Next]_vars

-----------------------------------------------------------------------------
(* Properties.                                                             *)

(* Every variable has its type; in particular every slice lies within its  *)
(* array, and s.mu is held by a handler inside Set.                        *)
TypeOK ==
  /\ heap \in [Requests \cup {Boot} -> Seq(ServerConfig \cup {NoServer})]
  /\ store \in Config
  /\ mu \in Requests \cup {NoOne}
  /\ mu # NoOne => pc[mu] \in {"commit", "save"}
  /\ file = Truncated \/ file \in [servers : Seq(ServerConfig), global : GlobalConfig]
  /\ pool \in [Urls -> ServerConfig \cup {NoClient}]
  /\ discServers \in Seq(Urls) /\ metricServers \in Seq(Urls)
  /\ restarts \in 0..MaxRestarts
  /\ store.len <= Len(heap[store.array])
  /\ \A h \in Requests :
       /\ cfg(h) \in Config
       /\ cfg(h).len <= Len(heap[cfg(h).array])
       /\ pc[h] \in {"write", "shift"} => idx(h) \in 1..cfg(h).len

Quiet == \A h \in Requests : ~Running(h)

(* However administration requests interleave on the shared array, and     *)
(* whatever failed before: when none runs and the last Set succeeded, a    *)
(* restart would load the configuration that runs, up to what Load makes   *)
(* of every configuration, the environment's settings and the defaults.    *)
(* A write that failed is made up for by the next Set.                     *)
FileMatchesStore ==
  Quiet /\ ~failed =>
    Loaded(file) = [Contents(store) EXCEPT !.global = applyEnvOverrides(@)]

(* However they interleave, when none runs and the last Set succeeded, the *)
(* pool has a client for every configured server: a delete that removes    *)
(* what an add has just put there puts it back in syncServers.             *)
ConfiguredArePooled ==
  Quiet /\ ~failed =>
    \A i \in 1..store.len : pool[heap[store.array][i].url] # NoClient
=============================================================================
