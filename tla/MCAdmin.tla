------------------------------ MODULE MCAdmin ------------------------------
(***************************************************************************)
(* Small instances of Admin for TLC, with a history variable that tells    *)
(* whether requests have come in turn so far.                              *)
(***************************************************************************)
EXTENDS Admin

CONSTANTS u1, u2, u3, r1, r2, r3

VARIABLE overlapped   \* two handlers have run at the same time

At(u, d) == [url |-> u, distance |-> d]

(* The bridge starts without a file, or with two servers and a time of 0,  *)
(* for which Load takes the default.  A put leaves the OpenCode limits out *)
(* and has a time of 0, which Set takes.                                   *)
FileGlobal == [strategy |-> "error", timeout |-> 0, output |-> 4096]
PutGlobal == [strategy |-> "queue", timeout |-> 0, output |-> 0]
EnvGlobal == [strategy |-> "best_effort", timeout |-> 5, output |-> 1]

StartFiles == {Missing, [servers |-> <<At(u1, 1), At(u2, 1)>>, global |-> FileGlobal]}

AllGlobals == {FileGlobal, PutGlobal, EnvGlobal}

Environment == [strategy |-> "best_effort", timeout |-> Unset, output |-> Unset]

(* Distance 0 is what Set rejects.                                         *)
SmallOps ==
  {[kind |-> "add", id |-> u3, fields |-> At(u3, 1)]}
  \cup {[kind |-> "update", id |-> u1, fields |-> f] : f \in {[url |-> u3], [distance |-> 0]}}
  \cup {[kind |-> "delete", id |-> u] : u \in {u1, u2}}
  \cup {[kind |-> "put", servers |-> <<At(u1, 2)>>, global |-> PutGlobal]}

RequestSymmetry == Permutations(Requests)

HistoryInit == Init /\ overlapped = FALSE

HistoryNext ==
  /\ Next
  /\ overlapped' = (overlapped \/ \E g, h \in Requests : g # h /\ Running(g)' /\ Running(h)')

HistorySpec == HistoryInit /\ [][HistoryNext]_<<vars, overlapped>>

(* Requests that come in turn, the last of which Set accepted, leave       *)
(* discovery and the collector with exactly the configured servers, and    *)
(* each of these with a client that has its configuration, also after      *)
(* requests whose Set failed.                                              *)
SyncedInTurn ==
  Quiet /\ ~failed /\ ~overlapped =>
    LET servers == Contents(store).servers
    IN  /\ discServers = UrlsOf(servers)
        /\ metricServers = UrlsOf(servers)
        /\ \A u \in Urls : u \in {servers[i].url : i \in DOMAIN servers}
                             => pool[u] = Clients(servers)[u]

(* A rejected update stays in the array, yet as long as requests come in   *)
(* turn no later Set writes it to the file.                                *)
SavedIsValid ==
  ~overlapped =>
    LET servers == Loaded(file).servers
    IN  \A i \in DOMAIN servers : servers[i].distance \in 1..10
=============================================================================
