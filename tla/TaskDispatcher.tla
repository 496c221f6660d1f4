--------------------------- MODULE TaskDispatcher ---------------------------
(***************************************************************************)
(* The task dispatcher of goutils/utils/task.go: a bounded channel of      *)
(* tasks, worker goroutines that run them and put a failed task back while *)
(* it has tries left, and a Stop that waits for every queued task before   *)
(* it closes the channel.  Each task is dispatched once, by a goroutine of *)
(* its own (the calls of Once and WithRetries in task_test.go).            *)
(***************************************************************************)
EXTENDS Integers, Sequences, FiniteSets

CONSTANTS
  Tasks,         \* task objects
  Workers,       \* worker goroutines started by Start
  NoTask,        \* a worker's task before its first one
  BufferSize,    \* capacity of dispatchQueue
  Retries        \* the numbers of retries clients ask for (0 for Once)

ASSUME TasksAssumption == IsFiniteSet(Tasks) /\ NoTask \notin Tasks
ASSUME WorkersAssumption == IsFiniteSet(Workers)
ASSUME BufferAssumption == BufferSize \in Nat \ {0}
ASSUME RetriesAssumption == Retries \subseteq Nat

VARIABLES
  queue,     \* td.dispatchQueue
  closed,    \* the channel has been closed
  queued,    \* the counter of the WaitGroup td.queued
  stop,      \* td.stop = 1
  stopper,   \* where the goroutine that calls Stop is
  client,    \* where the goroutine that dispatches each task is
  worker,    \* where each worker is
  held,      \* the task each worker has in hand
  numTries,  \* t.numTries
  granted,   \* history: the retries each task was dispatched with
  attempts,  \* history: how often taskFn was called
  notified,  \* history: how often the owner was told the outcome
  late       \* history: a dispatch began after Stop was called

vars == <<queue, closed, queued, stop, stopper, client, worker, held,
          numTries, granted, attempts, notified, late>>

ClientPC == {"new", "sending", "accepted", "refused", "dead"}
WorkerPC == {"idle", "running", "retrying", "finished", "exited", "dead"}
StopperPC == {"up", "wait", "waiting", "woken", "close", "stopped", "dead"}

(* The dispatcher's state stays typed, across dispatches, retries and Stop. *)
TypeOK ==
  /\ queue \in Seq(Tasks)
  /\ closed \in BOOLEAN
  /\ queued \in Int
  /\ stop \in BOOLEAN
  /\ stopper \in StopperPC
  /\ client \in [Tasks -> ClientPC]
  /\ worker \in [Workers -> WorkerPC]
  /\ held \in [Workers -> Tasks \cup {NoTask}]
  /\ numTries \in [Tasks -> Nat]
  /\ granted \in [Tasks -> Nat]
  /\ attempts \in [Tasks -> Nat]
  /\ notified \in [Tasks -> Nat]
  /\ late \in BOOLEAN

Init ==
  /\ queue = <<>>
  /\ closed = FALSE
  /\ queued = 0
  /\ stop = FALSE
  /\ stopper = "up"
  /\ client = [t \in Tasks |-> "new"]
  /\ worker = [w \in Workers |-> "idle"]
  /\ held = [w \in Workers |-> NoTask]
  /\ numTries = [t \in Tasks |-> 0]
  /\ granted = [t \in Tasks |-> 0]
  /\ attempts = [t \in Tasks |-> 0]
  /\ notified = [t \in Tasks |-> 0]
  /\ late = FALSE

-----------------------------------------------------------------------------
Panicked == stopper = "dead"

(* a goroutine panics: the process is gone *)
Panic ==
  /\ stopper' = "dead"
  /\ client' = [t \in Tasks |-> "dead"]
  /\ worker' = [w \in Workers |-> "dead"]
  /\ UNCHANGED <<queue, closed, queued, stop, held, numTries, granted,
                 attempts, notified, late>>

(* td.queued.Add(1) *)
Add == queued' = queued + 1

(* td.queued.Done(): the last one releases a Stop blocked in Wait *)
Done ==
  /\ queued' = queued - 1
  /\ stopper' = IF stopper = "waiting" /\ queued = 1 THEN "woken" ELSE stopper

Full == Len(queue) = BufferSize

-----------------------------------------------------------------------------
(* Once and WithRetries: dispatch counts the task, then tries to send it *)
Dispatch(t, retries) ==
  /\ client[t] = "new"
  /\ numTries' = [numTries EXCEPT ![t] = retries]
  /\ granted' = [granted EXCEPT ![t] = retries]
  /\ Add
  /\ client' = [client EXCEPT ![t] = "sending"]
  /\ late' = (late \/ stop)
  /\ UNCHANGED <<queue, closed, stop, stopper, worker, held, attempts,
                 notified>>

(* mutant: the dispatch sends again after the send that succeeded *)
MutSend(t) ==
  /\ client[t] = "sending"
  /\ ~closed /\ ~Full
  /\ queue' = Append(queue, t)
  /\ UNCHANGED <<closed, queued, stop, stopper, client, worker, held,
                 numTries, granted, attempts, notified, late>>

(* case td.dispatchQueue <- t, in the client; panics on a closed channel *)
Send(t) ==
  /\ client[t] = "sending"
  /\ \/ closed /\ Panic
     \/ /\ ~closed /\ ~Full
        /\ queue' = Append(queue, t)
        /\ client' = [client EXCEPT ![t] = "accepted"]
        /\ UNCHANGED <<closed, queued, stop, stopper, worker, held, numTries,
                       granted, attempts, notified, late>>

(* mutant: a timed out dispatch does not give its count back *)
MutSendTimeout(t) ==
  /\ client[t] = "sending"
  /\ ~closed /\ Full
  /\ client' = [client EXCEPT ![t] = "refused"]
  /\ UNCHANGED <<queue, closed, queued, stop, stopper, worker, held,
                 numTries, granted, attempts, notified, late>>

(* case <-time.After(td.putTimeout): only a full queue keeps the send waiting *)
SendTimeout(t) ==
  /\ client[t] = "sending"
  /\ ~closed /\ Full
  /\ Done
  /\ client' = [client EXCEPT ![t] = "refused"]
  /\ UNCHANGED <<queue, closed, stop, worker, held, numTries, granted,
                 attempts, notified, late>>

-----------------------------------------------------------------------------
(* for t := range td.dispatchQueue, up to the call of t.taskFn *)
Take(w) ==
  /\ worker[w] = "idle"
  /\ queue # <<>>
  /\ queue' = Tail(queue)
  /\ held' = [held EXCEPT ![w] = Head(queue)]
  /\ attempts' = [attempts EXCEPT ![Head(queue)] = @ + 1]
  /\ worker' = [worker EXCEPT ![w] = "running"]
  /\ UNCHANGED <<closed, queued, stop, stopper, client, numTries, granted,
                 notified, late>>

(* the range ends once the channel is closed and drained *)
Exit(w) ==
  /\ worker[w] = "idle"
  /\ queue = <<>> /\ closed
  /\ worker' = [worker EXCEPT ![w] = "exited"]
  /\ UNCHANGED <<queue, closed, queued, stop, stopper, client, held,
                 numTries, granted, attempts, notified, late>>

(* the owner's successFn or errorFn is called *)
Notify(w) == notified' = [notified EXCEPT ![held[w]] = @ + 1]

(* taskFn succeeded *)
Succeed(w) ==
  /\ worker[w] = "running"
  /\ Notify(w)
  /\ worker' = [worker EXCEPT ![w] = "finished"]
  /\ UNCHANGED <<queue, closed, queued, stop, stopper, client, held,
                 numTries, granted, attempts, late>>

(* taskFn failed for good: stopped, no tries left, or no data to go on with *)
Fail(w, outData) ==
  /\ worker[w] = "running"
  /\ stop \/ numTries[held[w]] = 0 \/ ~outData
  /\ Notify(w)
  /\ worker' = [worker EXCEPT ![w] = "finished"]
  /\ UNCHANGED <<queue, closed, queued, stop, stopper, client, held,
                 numTries, granted, attempts, late>>

(* taskFn failed with data left: one try less, and dispatch once more *)
Retry(w) ==
  /\ worker[w] = "running"
  /\ ~stop /\ numTries[held[w]] # 0
  /\ numTries' = [numTries EXCEPT ![held[w]] = @ - 1]
  /\ Add
  /\ worker' = [worker EXCEPT ![w] = "retrying"]
  /\ UNCHANGED <<queue, closed, stop, stopper, client, held, granted,
                 attempts, notified, late>>

(* case td.dispatchQueue <- t, in the worker *)
Resend(w) ==
  /\ worker[w] = "retrying"
  /\ closed \/ ~Full
  /\ IF closed THEN Panic
     ELSE /\ queue' = Append(queue, held[w])
          /\ worker' = [worker EXCEPT ![w] = "finished"]
          /\ UNCHANGED <<closed, queued, stop, stopper, client, held, numTries,
                         granted, attempts, notified, late>>

(* mutant: the error of the worker's own dispatch is only logged *)
MutResendTimeout(w) ==
  /\ worker[w] = "retrying"
  /\ ~closed /\ Full
  /\ Done
  /\ worker' = [worker EXCEPT ![w] = "finished"]
  /\ UNCHANGED <<queue, closed, stop, client, held, numTries, granted,
                 attempts, notified, late>>

(* the worker's own dispatch timed out: its owner gets the error *)
ResendTimeout(w) ==
  /\ worker[w] = "retrying"
  /\ ~closed /\ Full
  /\ Done
  /\ Notify(w)
  /\ worker' = [worker EXCEPT ![w] = "finished"]
  /\ UNCHANGED <<queue, closed, stop, client, held, numTries, granted,
                 attempts, late>>

(* td.queued.Done() at the end of the loop's body *)
Finish(w) ==
  /\ worker[w] = "finished"
  /\ Done
  /\ worker' = [worker EXCEPT ![w] = "idle"]
  /\ UNCHANGED <<queue, closed, stop, client, held, numTries, granted,
                 attempts, notified, late>>

-----------------------------------------------------------------------------
(* Stop: "signal to stop retrying" *)
Stop ==
  /\ stopper = "up"
  /\ stop' = TRUE
  /\ stopper' = "wait"
  /\ UNCHANGED <<queue, closed, queued, client, worker, held, numTries,
                 granted, attempts, notified, late>>

(* mutant: Stop does not wait for the tasks *)
MutStopWait ==
  /\ stopper = "wait"
  /\ stopper' = "close"
  /\ UNCHANGED <<queue, closed, queued, stop, client, worker, held, numTries,
                 granted, attempts, notified, late>>

(* td.queued.Wait() returns at once, or blocks *)
StopWait ==
  /\ stopper = "wait"
  /\ stopper' = IF queued = 0 THEN "close" ELSE "waiting"
  /\ UNCHANGED <<queue, closed, queued, stop, client, worker, held, numTries,
                 granted, attempts, notified, late>>

(* a released Wait panics when the WaitGroup has been reused meanwhile *)
StopWoken ==
  /\ stopper = "woken"
  /\ \/ queued # 0 /\ Panic
     \/ /\ queued = 0
        /\ stopper' = "close"
        /\ UNCHANGED <<queue, closed, queued, stop, client, worker, held,
                       numTries, granted, attempts, notified, late>>

(* close(td.dispatchQueue); Stop returns *)
Close ==
  /\ stopper = "close"
  /\ closed' = TRUE
  /\ stopper' = "stopped"
  /\ UNCHANGED <<queue, queued, stop, client, worker, held, numTries,
                 granted, attempts, notified, late>>

-----------------------------------------------------------------------------
dispatch(t) ==
  \/ Send(t)
  \/ SendTimeout(t)

runWorker(w) ==
  \/ Take(w)
  \/ Exit(w)
  \/ Succeed(w)
  \/ \E outData \in BOOLEAN : Fail(w, outData)
  \/ Retry(w)
  \/ Resend(w)
  \/ ResendTimeout(w)
  \/ Finish(w)

StopStep ==
  \/ StopWait
  \/ StopWoken
  \/ Close

Next ==
  \/ \E t \in Tasks, retries \in Retries : Dispatch(t, retries)
  \/ \E t \in Tasks : dispatch(t)
  \/ \E w \in Workers : runWorker(w)
  \/ Stop
  \/ StopStep

(***************************************************************************)
(* Goroutines are scheduled fairly and task functions return; whether a    *)
(* task is dispatched and whether Stop is called is up to the program.     *)
(***************************************************************************)
Fairness ==
  /\ \A t \in Tasks : WF_vars(dispatch(t))
  /\ \A w \in Workers : WF_vars(runWorker(w))
  /\ WF_vars(StopStep)

Spec == Init /\ [][Next]_vars

FairSpec == Spec /\ Fairness
-----------------------------------------------------------------------------
InHand(w) == worker[w] \in {"running", "retrying"}

InQueue(t) == \E i \in 1 .. Len(queue) : queue[i] = t

Sending == {t \in Tasks : client[t] = "sending"}
Busy == {w \in Workers : worker[w] \in {"running", "retrying", "finished"}}
Retrying == {w \in Workers : worker[w] = "retrying"}

(***************************************************************************)
(* The WaitGroup counts exactly the tasks in the channel, the loop bodies  *)
(* that have not reached their Done and the dispatches under way, those of *)
(* clients and those of workers: a timed out send gives its count back and *)
(* a retry never drops below what Stop waits for.                          *)
(***************************************************************************)
QueuedExact ==
  ~Panicked =>
    queued = Len(queue) + Cardinality(Busy) + Cardinality(Retrying)
               + Cardinality(Sending)

(***************************************************************************)
(* A task is in one place: once in the channel or with one worker, never   *)
(* both.  The workers read and write t.numTries and t.taskData without a   *)
(* lock, which is sound only because of this.                              *)
(***************************************************************************)
SoleOwner ==
  /\ \A i, j \in 1 .. Len(queue) : queue[i] = queue[j] => i = j
  /\ \A w \in Workers : InHand(w) => ~InQueue(held[w])
  /\ \A v, w \in Workers : InHand(v) /\ InHand(w) /\ held[v] = held[w] => v = w

(***************************************************************************)
(* The owner of a task hears of its outcome at most once, never after a    *)
(* dispatch that returned an error, and never while the task is queued or  *)
(* will be run again.                                                      *)
(***************************************************************************)
NotifiedOnce ==
  \A t \in Tasks :
    /\ notified[t] <= 1
    /\ client[t] \in {"new", "sending", "refused"} => notified[t] = 0
    /\ InQueue(t) => notified[t] = 0

(***************************************************************************)
(* taskFn runs at most once more often than the retries asked for, and     *)
(* never for a task whose dispatch was refused.                            *)
(***************************************************************************)
RetryBudget ==
  \A t \in Tasks :
    /\ attempts[t] <= granted[t] + 1
    /\ client[t] = "refused" => attempts[t] = 0

(***************************************************************************)
(* Stop waits "for all tasks to complete or error out" (task.go:128): once *)
(* it has returned, every accepted task has had its outcome reported and   *)
(* nothing sends on the closed channel, as long as no dispatch begins      *)
(* after Stop was called.                                                  *)
(***************************************************************************)
StopDrained ==
  ~late =>
    /\ stopper = "stopped" =>
         \A t \in Tasks : client[t] = "accepted" => notified[t] = 1
    /\ ~Panicked

(* Every accepted task has its outcome reported, whatever fails and retries *)
OutcomeReported ==
  \A t \in Tasks : client[t] = "accepted" ~> (notified[t] = 1 \/ Panicked)

(* A Stop that was called returns, and the workers end *)
StopEnds ==
  stopper = "wait" ~>
    \/ stopper = "stopped" /\ \A w \in Workers : worker[w] = "exited"
    \/ Panicked
=============================================================================
