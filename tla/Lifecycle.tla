----------------------------- MODULE Lifecycle -----------------------------
(***************************************************************************)
(* The process: main (src/cmd/llm-bridge/main.go) around the bridge of     *)
(* Dispatch.  main starts the goroutines of discovery and the collector    *)
(* and sits in Server.Start; when that returns it stops the goroutines,    *)
(* drains and stops the router's queue, waits in Server.Shutdown until no  *)
(* request is active or the drain timeout is over, and exits, which ends   *)
(* every goroutine wherever it is.  Requests come and go all the while.    *)
(*                                                                         *)
(* The pool is left alone (Admin and Dispatch have what the administrators *)
(* do to it), and the two goroutines are seen only through their context:  *)
(* Discovery and Collector show that they end when it is cancelled.        *)
(***************************************************************************)
EXTENDS Dispatch

VARIABLES
  main,       \* where main is
  cancelled   \* whether the goroutines' context is done

mainVars == <<main, cancelled>>

lifeVars == <<vars, mainVars>>

(* main is in Server.Start ("serve"), between disc.Stop and rtr.Stop       *)
(* ("stop"), in Server.Shutdown ("shutdown"), or has returned ("exited").  *)
LifeInit ==
  /\ Init
  /\ main = "serve"
  /\ cancelled = FALSE

(* SIGTERM or SIGINT cancels the context of signal.NotifyContext, from     *)
(* which the goroutines' contexts are derived.  Server.Start is given it   *)
(* too and does not look at it.                                            *)
Signal ==
  /\ main = "serve"
  /\ ~cancelled
  /\ cancelled' = TRUE
  /\ UNCHANGED <<vars, main>>

(* ListenAndServe fails: Start returns, the drain timeout begins to run,   *)
(* and disc.Stop and mc.Stop cancel the goroutines.                        *)
StartReturns ==
  /\ main = "serve"
  /\ main' = "stop"
  /\ cancelled' = TRUE
  /\ UNCHANGED vars

(* The Stop calls have waited for the goroutines; rtr.Drain.               *)
DrainQueue ==
  /\ main = "stop"
  /\ Drain
  /\ UNCHANGED mainVars

(* rtr.Stop, and on to srv.Shutdown.                                       *)
StopQueue ==
  /\ main = "stop"
  /\ Stop
  /\ main' = "shutdown"
  /\ UNCHANGED cancelled

(* Mutant of ShutdownReturns: Shutdown is given a context without timeout. *)
ShutdownReturnsWhenIdle ==
  /\ main = "shutdown"
  /\ \A r \in Requests : pc[r] \in {"idle", "done"}
  /\ main' = "exited"
  /\ UNCHANGED <<vars, cancelled>>

(* srv.Shutdown returns because no handler runs or because the drain       *)
(* timeout, which may be over at any moment, is over; main returns.        *)
ShutdownReturns ==
  /\ main = "shutdown"
  /\ main' = "exited"
  /\ UNCHANGED <<vars, cancelled>>

MainStep == DrainQueue \/ StopQueue \/ ShutdownReturns

(* The bridge goes on until the process ends.                              *)
Alive(A) == main # "exited" /\ A /\ UNCHANGED mainVars

LifeNext == StartReturns \/ MainStep \/ Alive(Serve)

-----------------------------------------------------------------------------
(* Fairness.  The Go scheduler runs every goroutine that can run; a        *)
(* sync.Mutex is handed to a waiter that has waited 1 ms, so a goroutine   *)
(* that finds qm.mu free again and again gets it (SF for the handlers and  *)
(* for main, whose other steps stay enabled until they are taken); the     *)
(* 100 ms ticker wakes Worker; time passes every deadline.  Nothing makes  *)
(* a request come, a signal come or Start return, and nothing ends an      *)
(* exchange with a backend: the client of AddServer has no timeout and     *)
(* RequestTimeoutSec is not used, so a backend that hangs is waited for.   *)

(* The handler of r runs on its own: its request has come, and it does not *)
(* wait for a backend.                                                     *)
Busy(r) == pc[r] \notin {"idle", "upstream", "done"}

LifeFairness ==
  /\ WF_lifeVars(Alive(WorkerStep))
  /\ SF_lifeVars(MainStep)
  /\ \A r \in Requests :
       /\ SF_lifeVars(Alive(Busy(r) /\ HandlerStep(r)))
       /\ WF_lifeVars(Alive(Expire(r)))

LifeSpec == LifeInit /\ [][LifeNext]_lifeVars /\ LifeFairness

(* With signals, on which nothing in LifeNext depends.                     *)
SignalSpec == LifeInit /\ [][LifeNext \/ Signal]_lifeVars /\ LifeFairness

-----------------------------------------------------------------------------
(* Properties.                                                             *)

(* The bridge holds no request for ever, although backends may: a request  *)
(* that routes, queues or gives its slot back comes to a backend or is     *)
(* answered, or the process ends.  That includes one that queues behind a  *)
(* slot whose user never returns, one that queues after Stop, whose worker *)
(* may be gone for good, and one that queues after Drain with a worker     *)
(* that Stop did not reach.                                                *)
IsSettled(r) == Busy(r) ~> ~Busy(r) \/ main = "exited"

(* Once Start has returned the process exits, although handlers may wait   *)
(* on a queue that nobody serves and Shutdown waits on the handlers.       *)
ShutdownEnds == main = "stop" ~> main = "exited"

(* docs/architecture.md and README.md: SIGTERM and SIGINT shut the bridge  *)
(* down.                                                                   *)
SignalEndsProcess == cancelled ~> main = "exited"
=============================================================================
