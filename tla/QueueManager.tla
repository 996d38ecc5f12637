---------------------------- MODULE QueueManager ----------------------------
(***************************************************************************)
(* router.queueManager (src/router/queue.go): requests that found every    *)
(* server full wait in a queue; one goroutine (Worker) passes over it on a *)
(* signal or every 100 ms and answers each item through the item's         *)
(* one-place result channel.                                               *)
(*                                                                         *)
(* qm.mu is held by Worker during a whole pass, route calls included.      *)
(* Every other critical section is a single step, so the mutex is free     *)
(* exactly when Worker is not in a pass.                                   *)
(***************************************************************************)
EXTENDS Router, SequencesExt

VARIABLES
  queue,       \* queueManager.queue: the requests waiting, oldest first
  cursor,      \* the pass's position in queue, 0 when there is no pass
  remaining,   \* the items this pass keeps
  late,        \* the items past their deadline at the pass's time.Now()
  expired,     \* the items of the queue past their deadline now
  started,     \* queueManager.started
  signal,      \* whether signalCh, of capacity 1, holds a token
  answer,      \* the content of each item's result channel, of capacity 1
  answerConn,  \* the connection in that channel, if it holds one
  lifecycle    \* whether Drain and Stop were called

queueVars == <<queue, cursor, remaining, late, expired, started, signal,
               answer, answerConn, lifecycle>>

Answers == {"empty", "conn", "timeout", "canceled"}

QueueInit ==
  /\ queue = <<>>
  /\ cursor = 0
  /\ remaining = <<>>
  /\ late = {}
  /\ expired = {}
  /\ started = FALSE
  /\ signal = FALSE
  /\ answer = [r \in Requests |-> "empty"]
  /\ answerConn = [r \in Requests |-> NoServer]
  /\ lifecycle = "up"

WorkerIdle == {"off", "select", "stopped"}

MuFree == pc[Worker] \in WorkerIdle

Queued(r) == \E i \in DOMAIN queue : queue[i] = r

(* The item of r is still to be answered by processQueue or drain.         *)
Pending(r) ==
  \/ \E i \in DOMAIN queue : i >= cursor /\ queue[i] = r
  \/ \E i \in DOMAIN remaining : remaining[i] = r

(* The item a pass is at.                                                  *)
Item == queue[cursor]

(* ensureStarted: the first request to queue starts the goroutine.         *)
EnsureStarted(r) ==
  /\ pc[r] = "ensure"
  /\ MuFree
  /\ started' = TRUE
  /\ pc' = [pc EXCEPT ![r] = "append",
                      ![Worker] = IF started THEN @ ELSE "select"]
  /\ UNCHANGED <<poolVars, frame, conn, bc, rrIndex, serving, strategy, ctxDone,
                 queue, cursor, remaining, late, expired, signal,
                 answer, answerConn, lifecycle>>

(* qm.queue = append(qm.queue, item)                                       *)
AppendItem(r) ==
  /\ pc[r] = "append"
  /\ MuFree
  /\ queue' = Append(queue, r)
  /\ Goto(r, "notify")
  /\ UNCHANGED <<poolVars, frame, conn, bc, rrIndex, serving, strategy, ctxDone,
                 cursor, remaining, late, expired, started, signal,
                 answer, answerConn, lifecycle>>

(* notify: a send on signalCh that does not wait when it is full.          *)
Notify(r) ==
  /\ pc[r] = "notify"
  /\ signal' = TRUE
  /\ Goto(r, "wait")
  /\ UNCHANGED <<poolVars, frame, conn, bc, rrIndex, serving, strategy, ctxDone,
                 queue, cursor, remaining, late, expired, started,
                 answer, answerConn, lifecycle>>

(* case res := <-result of enqueue's select.                               *)
TakeAnswer(r) ==
  /\ pc[r] = "wait"
  /\ answer[r] # "empty"
  /\ answer' = [answer EXCEPT ![r] = "empty"]
  /\ answerConn' = [answerConn EXCEPT ![r] = NoServer]
  /\ \/ /\ answer[r] = "conn"
        /\ conn' = [conn EXCEPT ![r] = answerConn[r]]
        /\ Goto(r, "proxy")
     \/ /\ answer[r] # "conn"
        /\ Goto(r, "done")
        /\ UNCHANGED conn
  /\ UNCHANGED <<poolVars, frame, bc, rrIndex, serving, strategy, ctxDone, queue,
                 cursor, remaining, late, expired, started, signal, lifecycle>>

(* Mutant of CancelTake: the connection in the answer is not released.     *)
CancelTakeLeaks(r) ==
  /\ pc[r] = "wait"
  /\ ctxDone[r]
  /\ answer[r] # "empty"
  /\ answer' = [answer EXCEPT ![r] = "empty"]
  /\ answerConn' = [answerConn EXCEPT ![r] = NoServer]
  /\ Goto(r, "done")
  /\ UNCHANGED <<poolVars, frame, conn, bc, rrIndex, serving, strategy, ctxDone, queue,
                 cursor, remaining, late, expired, started, signal, lifecycle>>

(* case <-ctx.Done(), the answer already there: its slot is given back     *)
(* before enqueue returns ctx.Err().                                       *)
CancelTake(r) ==
  /\ pc[r] = "wait"
  /\ ctxDone[r]
  /\ answer[r] # "empty"
  /\ answer' = [answer EXCEPT ![r] = "empty"]
  /\ answerConn' = [answerConn EXCEPT ![r] = NoServer]
  /\ \/ /\ answer[r] = "conn"
        /\ conn' = [conn EXCEPT ![r] = answerConn[r]]
        /\ Goto(r, "release")
     \/ /\ answer[r] # "conn"
        /\ Goto(r, "done")
        /\ UNCHANGED conn
  /\ UNCHANGED <<poolVars, frame, bc, rrIndex, serving, strategy, ctxDone, queue,
                 cursor, remaining, late, expired, started, signal, lifecycle>>

(* case <-ctx.Done(), no answer yet: enqueue goes on to removeItem.        *)
CancelWait(r) ==
  /\ pc[r] = "wait"
  /\ ctxDone[r]
  /\ answer[r] = "empty"
  /\ Goto(r, "remove")
  /\ UNCHANGED <<poolVars, frame, conn, bc, rrIndex, serving, strategy, ctxDone,
                 queueVars>>

(* Mutant of RemoveItem: the search stops before the last item.            *)
RemoveItemNotLast(r) ==
  /\ pc[r] = "remove"
  /\ MuFree
  /\ \/ \E i \in 1..(Len(queue) - 1) : queue[i] = r /\ queue' = RemoveAt(queue, i)
     \/ (\A i \in 1..(Len(queue) - 1) : queue[i] # r) /\ UNCHANGED queue
  /\ expired' = expired \ {r}
  /\ Goto(r, "done")
  /\ UNCHANGED <<poolVars, frame, conn, bc, rrIndex, serving, strategy, ctxDone,
                 cursor, remaining, late, started, signal,
                 answer, answerConn, lifecycle>>

(* Mutant of RemoveItem: the items behind the removed one are cut off.     *)
RemoveItemCutsTail(r) ==
  /\ pc[r] = "remove"
  /\ MuFree
  /\ \/ \E i \in DOMAIN queue : queue[i] = r /\ queue' = SubSeq(queue, 1, i - 1)
     \/ ~Queued(r) /\ UNCHANGED queue
  /\ expired' = expired \ {r}
  /\ Goto(r, "done")
  /\ UNCHANGED <<poolVars, frame, conn, bc, rrIndex, serving, strategy, ctxDone,
                 cursor, remaining, late, started, signal,
                 answer, answerConn, lifecycle>>

(* removeItem, and enqueue's return: the item may have left the queue.     *)
RemoveItem(r) ==
  /\ pc[r] = "remove"
  /\ MuFree
  /\ \/ \E i \in DOMAIN queue : queue[i] = r /\ queue' = RemoveAt(queue, i)
     \/ ~Queued(r) /\ UNCHANGED queue
  /\ expired' = expired \ {r}
  /\ Goto(r, "done")
  /\ UNCHANGED <<poolVars, frame, conn, bc, rrIndex, serving, strategy, ctxDone,
                 cursor, remaining, late, started, signal,
                 answer, answerConn, lifecycle>>

(* Mutant of BeginPass: there is no ticker.                                *)
BeginPassOnSignal(token) ==
  /\ token
  /\ pc[Worker] = "select"
  /\ queue # <<>>
  /\ signal
  /\ signal' = FALSE
  /\ cursor' = 1
  /\ remaining' = <<>>
  /\ late' = expired
  /\ Goto(Worker, "scan")
  /\ UNCHANGED <<poolVars, frame, conn, bc, rrIndex, serving, strategy, ctxDone,
                 queue, expired, started, answer, answerConn, lifecycle>>

(* run takes the signal (token) or a tick; processQueue locks qm.mu and    *)
(* reads the time.                                                         *)
BeginPass(token) ==
  /\ pc[Worker] = "select"
  /\ queue # <<>>
  /\ token => signal
  /\ signal' = (signal /\ ~token)
  /\ cursor' = 1
  /\ remaining' = <<>>
  /\ late' = expired
  /\ Goto(Worker, "scan")
  /\ UNCHANGED <<poolVars, frame, conn, bc, rrIndex, serving, strategy, ctxDone,
                 queue, expired, started, answer, answerConn, lifecycle>>

(* A pass over an empty queue does nothing but take the signal.            *)
EmptyPass ==
  /\ pc[Worker] = "select"
  /\ queue = <<>>
  /\ signal
  /\ signal' = FALSE
  /\ UNCHANGED <<poolVars, routerVars, queue, cursor, remaining, late, expired,
                 started, answer, answerConn, lifecycle>>

(* Sends a result to the item's channel; the send would wait while the     *)
(* channel is full.                                                        *)
Send(r, a, u) ==
  /\ answer[r] = "empty"
  /\ answer' = [answer EXCEPT ![r] = a]
  /\ answerConn' = [answerConn EXCEPT ![r] = u]

(* The body of processQueue's loop up to its call of route.                *)
ScanItem ==
  /\ pc[Worker] = "scan"
  /\ cursor <= Len(queue)
  /\ \/ /\ Item \in late
        /\ Send(Item, "timeout", NoServer)
        /\ cursor' = cursor + 1
        /\ UNCHANGED pc
     \/ /\ Item \notin late
        /\ Goto(Worker, "route")
        /\ UNCHANGED <<answer, answerConn, cursor>>
  /\ UNCHANGED <<poolVars, frame, conn, bc, rrIndex, serving, strategy, ctxDone,
                 queue, remaining, late, expired, started, signal, lifecycle>>

(* item.result <- &queueResult{conn: conn}                                 *)
Deliver ==
  /\ pc[Worker] = "deliver"
  /\ Send(Item, "conn", conn[Worker])
  /\ conn' = [conn EXCEPT ![Worker] = NoServer]
  /\ cursor' = cursor + 1
  /\ Goto(Worker, "scan")
  /\ UNCHANGED <<poolVars, frame, bc, rrIndex, serving, strategy, ctxDone,
                 queue, remaining, late, expired, started, signal, lifecycle>>

(* Mutant of KeepItem: the item is put in front.                           *)
KeepItemFront ==
  /\ pc[Worker] = "failed"
  /\ remaining' = <<Item>> \o remaining
  /\ cursor' = cursor + 1
  /\ Goto(Worker, "scan")
  /\ UNCHANGED <<poolVars, frame, conn, bc, rrIndex, serving, strategy, ctxDone,
                 queue, late, expired, started, signal, answer,
                 answerConn, lifecycle>>

(* route failed: remaining = append(remaining, item)                       *)
KeepItem ==
  /\ pc[Worker] = "failed"
  /\ remaining' = Append(remaining, Item)
  /\ cursor' = cursor + 1
  /\ Goto(Worker, "scan")
  /\ UNCHANGED <<poolVars, frame, conn, bc, rrIndex, serving, strategy, ctxDone,
                 queue, late, expired, started, signal, answer,
                 answerConn, lifecycle>>

(* qm.queue = remaining, and the mutex is unlocked.                        *)
EndPass ==
  /\ pc[Worker] = "scan"
  /\ cursor > Len(queue)
  /\ queue' = remaining
  /\ cursor' = 0
  /\ remaining' = <<>>
  /\ late' = {}
  /\ expired' = {r \in expired : \E i \in DOMAIN remaining : remaining[i] = r}
  /\ Goto(Worker, "select")
  /\ UNCHANGED <<poolVars, frame, conn, bc, rrIndex, serving, strategy, ctxDone,
                 started, signal, answer, answerConn, lifecycle>>

(* The time passes the deadline of an item in the queue.                   *)
Expire(r) ==
  /\ Pending(r)
  /\ r \notin expired
  /\ expired' = expired \cup {r}
  /\ UNCHANGED <<poolVars, routerVars, queue, cursor, remaining, late, started,
                 signal, answer, answerConn, lifecycle>>

(* Router.Drain: every queued item gets context.Canceled.  Each send would *)
(* wait, with qm.mu held, on a full channel.                               *)
Drain ==
  /\ lifecycle = "up"
  /\ MuFree
  /\ \A r \in Requests : Queued(r) => answer[r] = "empty"
  /\ answer' = [r \in Requests |-> IF Queued(r) THEN "canceled" ELSE answer[r]]
  /\ queue' = <<>>
  /\ expired' = {}
  /\ lifecycle' = "drained"
  /\ UNCHANGED <<poolVars, routerVars, cursor, remaining, late, started,
                 signal, answerConn>>

(* Router.Stop, called after Drain: a send on the unbuffered stopCh that   *)
(* does not wait.  It reaches Worker only if Worker is parked in run's     *)
(* select; otherwise nothing happens.                                      *)
Stop ==
  /\ lifecycle = "drained"
  /\ lifecycle' = "stopped"
  /\ \/ pc[Worker] = "select" /\ Goto(Worker, "stopped")
     \/ UNCHANGED pc
  /\ UNCHANGED <<poolVars, frame, conn, bc, rrIndex, serving, strategy, ctxDone,
                 queue, cursor, remaining, late, expired, started, signal,
                 answer, answerConn>>
=============================================================================
