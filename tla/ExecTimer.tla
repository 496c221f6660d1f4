----------------------------- MODULE ExecTimer -----------------------------
(***************************************************************************)
(* The execution timer of goutils/utils/timer.go.  One owner goroutine     *)
(* (Caller) starts and stops the timer.  Every call "go t.startTimer(..)"  *)
(* is a goroutine drawn from Loops that waits in a select for the context, *)
(* the stop channel or the ticker, and runs the callback on a tick.        *)
(*                                                                         *)
(* A step of the model is the code between two points where another        *)
(* goroutine can be observed: a channel operation, a WaitGroup operation,  *)
(* the critical section of t.mx, or an unlocked access of t.timeoutTimer.  *)
(***************************************************************************)
EXTENDS Integers, FiniteSets

CONSTANTS
  Loops,        \* goroutine ids for startTimer
  Caller,       \* the goroutine that calls Start and Stop
  Intervals,    \* what Start is given and what the callback returns (ms)
  ParentEnds    \* how the parent context may end: a subset of
                \* {"canceled", "deadline"}

ASSUME CallerAssumption == Caller \notin Loops
ASSUME LoopsAssumption == IsFiniteSet(Loops)
ASSUME IntervalsAssumption == Intervals \subseteq Int
ASSUME ParentEndsAssumption == ParentEnds \subseteq {"canceled", "deadline"}

VARIABLES
  pc,            \* where each goroutine is
  arg,           \* the argument each startTimer goroutine was given
  ctx,           \* "live", or why t.ctx is done
  ticker,        \* t.timeoutTimer # nil
  tickTime,      \* t.tickTime
  inflight,      \* the counter of the WaitGroup t.inflight
  callbackError, \* what t.callbackError holds
  signalled,     \* history: Stop returned after handing over its signal
  stopOnError    \* t.stopOnError, an argument of NewExecTimer

vars == <<pc, arg, ctx, ticker, tickTime, inflight, callbackError,
          signalled, stopOnError>>

Threads == Loops \cup {Caller}

LoopPC == {"idle", "set", "eval", "select", "stopwait",
           "invoke", "callback", "resume", "exit", "dead"}
CallerPC == {"new", "invoke", "callback", "resume", "exit", "started",
             "wait", "waiting", "woken", "check", "halt", "send", "stopped",
             "dead"}

(* The timer's state stays typed: a loop never takes a point of the caller's,
   and the count of callbacks in flight and the interval stay integers. *)
TypeOK ==
  /\ pc \in [Threads -> LoopPC \cup CallerPC]
  /\ pc[Caller] \in CallerPC
  /\ \A l \in Loops : pc[l] \in LoopPC
  /\ arg \in [Loops -> Int]
  /\ ctx \in {"live", "canceled", "deadline"}
  /\ ticker \in BOOLEAN
  /\ tickTime \in Int
  /\ inflight \in Int
  /\ callbackError \in {"none", "callback", "context"}
  /\ signalled \in BOOLEAN
  /\ stopOnError \in BOOLEAN

-----------------------------------------------------------------------------
(* NewExecTimer *)
Init ==
  /\ pc = [t \in Threads |-> IF t = Caller THEN "new" ELSE "idle"]
  /\ arg = [l \in Loops |-> 0]
  /\ ctx = "live"
  /\ ticker = FALSE
  /\ tickTime = 0
  /\ inflight = 0
  /\ callbackError = "none"
  /\ signalled = FALSE
  /\ stopOnError \in BOOLEAN

Goto(t, label) == pc' = [pc EXCEPT ![t] = label]

(* a goroutine panics: the process is gone *)
Panic ==
  /\ pc' = [t \in Threads |-> "dead"]
  /\ UNCHANGED <<arg, ctx, ticker, tickTime, inflight, callbackError,
                 signalled, stopOnError>>

Panicked == pc[Caller] = "dead"

(* t moves to label and "go t.startTimer(timeout)" starts another goroutine *)
SpawnLoop(t, label, timeout) ==
  \E l \in Loops \ {t} :
    /\ pc[l] = "idle"
    /\ pc' = [pc EXCEPT ![t] = label, ![l] = "set"]
    /\ arg' = [arg EXCEPT ![l] = timeout]

(* mutant: an existing ticker is replaced without recording its interval *)
MutSetTimerTicker(timeout) ==
  /\ ticker' = (timeout > 0)
  /\ tickTime' = IF timeout > 0 /\ ~ticker THEN timeout ELSE tickTime

(* the critical section of setTimerTicker *)
setTimerTicker(timeout) ==
  /\ ticker' = (timeout > 0)
  /\ tickTime' = IF timeout > 0 THEN timeout
                 ELSE IF ticker THEN 0 ELSE tickTime

-----------------------------------------------------------------------------
(* Start: with 0 the owner runs the callback itself, to learn the interval *)
Start(timeout) ==
  /\ pc[Caller] = "new"
  /\ \/ timeout = 0 /\ Goto(Caller, "invoke") /\ UNCHANGED arg
     \/ timeout # 0 /\ SpawnLoop(Caller, "started", timeout)
  /\ UNCHANGED <<ctx, ticker, tickTime, inflight, callbackError, signalled, stopOnError>>

(* invokeCallback returned false: the loop goes around, Start returns *)
Resume(t) == IF t = Caller THEN "started" ELSE "eval"

(* invokeCallback returned true: the loop is left *)
Leave(t) == IF t = Caller THEN "started" ELSE "idle"

(* invokeCallback up to the call: WaitTimeout saw no invocation in flight *)
BeginCallback(t) ==
  /\ pc[t] = "invoke"
  /\ tickTime > 0 => inflight = 0
  /\ inflight' = inflight + 1
  /\ Goto(t, "callback")
  /\ UNCHANGED <<arg, ctx, ticker, tickTime, callbackError, signalled, stopOnError>>

(* WaitTimeout gave up just before the next tick: the callback is skipped *)
SkipCallback(t) ==
  /\ pc[t] = "invoke"
  /\ tickTime > 0
  /\ inflight > 0
  /\ Goto(t, Resume(t))
  /\ UNCHANGED <<arg, ctx, ticker, tickTime, inflight, callbackError, signalled, stopOnError>>

(* mutant: the loop is resumed although a new timer was started *)
MutCallbackReturns(t, err, timeout) ==
  /\ pc[t] = "callback"
  /\ callbackError' = IF err THEN "callback" ELSE callbackError
  /\ \/ /\ err /\ stopOnError
        /\ setTimerTicker(0)
        /\ Goto(t, "exit")
        /\ UNCHANGED arg
     \/ /\ ~(err /\ stopOnError)
        /\ timeout \in {0, tickTime}
        /\ Goto(t, "resume")
        /\ UNCHANGED <<arg, ticker, tickTime>>
     \/ /\ ~(err /\ stopOnError)
        /\ timeout \notin {0, tickTime}
        /\ SpawnLoop(t, "resume", timeout)
        /\ UNCHANGED <<ticker, tickTime>>
  /\ UNCHANGED <<ctx, inflight, signalled, stopOnError>>

(***************************************************************************)
(* The callback returns (timeout, err).  An error under stopOnError drops  *)
(* the ticker and leaves the loop; an unchanged interval resumes it; any   *)
(* other interval starts a new timer goroutine and leaves this one.        *)
(***************************************************************************)
CallbackReturns(t, err, timeout) ==
  /\ pc[t] = "callback"
  /\ callbackError' = IF err THEN "callback" ELSE callbackError
  /\ \/ /\ err /\ stopOnError
        /\ setTimerTicker(0)
        /\ Goto(t, "exit")
        /\ UNCHANGED arg
     \/ /\ ~(err /\ stopOnError)
        /\ timeout \in {0, tickTime}
        /\ Goto(t, "resume")
        /\ UNCHANGED <<arg, ticker, tickTime>>
     \/ /\ ~(err /\ stopOnError)
        /\ timeout \notin {0, tickTime}
        /\ SpawnLoop(t, "exit", timeout)
        /\ UNCHANGED <<ticker, tickTime>>
  /\ UNCHANGED <<ctx, inflight, signalled, stopOnError>>

(* the deferred inflight.Done(); the last one releases a blocked Stop *)
EndCallback(t) ==
  /\ pc[t] \in {"resume", "exit"}
  /\ inflight' = inflight - 1
  /\ pc' = [u \in Threads |->
              IF u = t THEN IF pc[t] = "resume" THEN Resume(t) ELSE Leave(t)
              ELSE IF u = Caller /\ pc[u] = "waiting" /\ inflight = 1
                   THEN "woken"
              ELSE pc[u]]
  /\ UNCHANGED <<arg, ctx, ticker, tickTime, callbackError, signalled, stopOnError>>

-----------------------------------------------------------------------------
(* startTimer: schedule the next invocation *)
InstallTicker(l) ==
  /\ pc[l] = "set"
  /\ setTimerTicker(arg[l])
  /\ Goto(l, "eval")
  /\ UNCHANGED <<arg, ctx, inflight, callbackError, signalled, stopOnError>>

(* entering the select evaluates t.timeoutTimer.C, which panics on nil *)
EnterSelect(l) ==
  /\ pc[l] = "eval"
  /\ \/ ~ticker /\ Panic
     \/ /\ ticker
        /\ Goto(l, "select")
        /\ UNCHANGED <<arg, ctx, ticker, tickTime, inflight, callbackError, signalled, stopOnError>>

(* mutant: a cancelled context ends the loop at once *)
MutCtxDone(l) ==
  /\ pc[l] = "select"
  /\ ctx # "live"
  /\ Goto(l, "idle")
  /\ UNCHANGED <<arg, ctx, ticker, tickTime, inflight, callbackError, signalled, stopOnError>>

(* case <-t.ctx.Done() *)
CtxDone(l) ==
  /\ pc[l] = "select"
  /\ \/ /\ ctx = "canceled"
        /\ Goto(l, "stopwait")
        /\ UNCHANGED callbackError
     \/ /\ ctx = "deadline"
        /\ callbackError' = "context"
        /\ Goto(l, "idle")
  /\ UNCHANGED <<arg, ctx, ticker, tickTime, inflight, signalled, stopOnError>>

(* case <-t.timeoutTimer.C *)
Tick(l) ==
  /\ pc[l] = "select"
  /\ Goto(l, "invoke")
  /\ UNCHANGED <<arg, ctx, ticker, tickTime, inflight, callbackError, signalled, stopOnError>>

(* the parent context is cancelled or its deadline passes *)
ParentEnd(why) ==
  /\ ~Panicked
  /\ ctx = "live"
  /\ ctx' = why
  /\ UNCHANGED <<pc, arg, ticker, tickTime, inflight, callbackError, signalled, stopOnError>>

-----------------------------------------------------------------------------
(* Stop: t.cancel() *)
Stop ==
  /\ pc[Caller] \in {"new", "started"}
  /\ ctx' = IF ctx = "live" THEN "canceled" ELSE ctx
  /\ Goto(Caller, "wait")
  /\ UNCHANGED <<arg, ticker, tickTime, inflight, callbackError, signalled, stopOnError>>

(* t.inflight.Wait() returns at once, or blocks *)
StopWait ==
  /\ pc[Caller] = "wait"
  /\ Goto(Caller, IF inflight = 0 THEN "check" ELSE "waiting")
  /\ UNCHANGED <<arg, ctx, ticker, tickTime, inflight, callbackError, signalled, stopOnError>>

(* a released Wait panics when the WaitGroup has been reused meanwhile *)
StopWoken ==
  /\ pc[Caller] = "woken"
  /\ \/ inflight # 0 /\ Panic
     \/ /\ inflight = 0
        /\ Goto(Caller, "check")
        /\ UNCHANGED <<arg, ctx, ticker, tickTime, inflight, callbackError, signalled, stopOnError>>

(* if t.timeoutTimer != nil *)
StopCheck ==
  /\ pc[Caller] = "check"
  /\ Goto(Caller, IF ticker THEN "halt" ELSE "stopped")
  /\ UNCHANGED <<arg, ctx, ticker, tickTime, inflight, callbackError, signalled, stopOnError>>

(* t.timeoutTimer.Stop(); t.timeoutTimer = nil *)
StopHalt ==
  /\ pc[Caller] = "halt"
  /\ \/ ~ticker /\ Panic
     \/ /\ ticker
        /\ ticker' = FALSE
        /\ Goto(Caller, "send")
        /\ UNCHANGED <<arg, ctx, tickTime, inflight, callbackError, signalled, stopOnError>>

(* mutant: the stop channel is buffered, nobody needs to receive *)
MutStopSend(l) ==
  /\ pc[Caller] = "send"
  /\ Goto(Caller, "stopped")
  /\ signalled' = TRUE
  /\ UNCHANGED <<arg, ctx, ticker, tickTime, inflight, callbackError, stopOnError>>

(* t.stop <- true meets a loop in its select or in <-t.stop *)
StopSend(l) ==
  /\ pc[Caller] = "send"
  /\ pc[l] \in {"select", "stopwait"}
  /\ pc' = [pc EXCEPT ![Caller] = "stopped", ![l] = "idle"]
  /\ signalled' = TRUE
  /\ UNCHANGED <<arg, ctx, ticker, tickTime, inflight, callbackError, stopOnError>>

-----------------------------------------------------------------------------
invokeCallback(t) ==
  \/ BeginCallback(t)
  \/ SkipCallback(t)
  \/ \E err \in BOOLEAN, timeout \in Intervals :
       CallbackReturns(t, err, timeout)
  \/ EndCallback(t)

startTimer(l) ==
  \/ InstallTicker(l)
  \/ EnterSelect(l)
  \/ CtxDone(l)
  \/ Tick(l)

StopStep ==
  \/ StopWait
  \/ StopWoken
  \/ StopCheck
  \/ StopHalt
  \/ \E l \in Loops : StopSend(l)

Next ==
  \/ \E timeout \in Intervals : Start(timeout)
  \/ Stop
  \/ StopStep
  \/ \E t \in Threads : invokeCallback(t)
  \/ \E l \in Loops : startTimer(l)
  \/ \E why \in ParentEnds : ParentEnd(why)

(***************************************************************************)
(* Goroutines are scheduled fairly and callbacks return.  A select picks   *)
(* uniformly among its ready cases, so a case that is ready again and      *)
(* again is taken: strong fairness for the context and the stop channel.   *)
(* Nothing obliges the owner to call Stop or a ticker to tick.             *)
(***************************************************************************)
Fairness ==
  /\ WF_vars(StopStep)
  /\ \A t \in Threads : WF_vars(invokeCallback(t))
  /\ \A l \in Loops :
       /\ WF_vars(InstallTicker(l) \/ EnterSelect(l))
       /\ SF_vars(CtxDone(l))
       /\ SF_vars(StopSend(l))

Spec == Init /\ [][Next]_vars

FairSpec == Spec /\ Fairness

-----------------------------------------------------------------------------
(* goroutines that still run, or are about to run, the timer loop *)
Live(t) == pc[t] \in {"set", "eval", "select", "stopwait", "invoke",
                      "callback", "resume"}

(* goroutines between inflight.Add(1) and inflight.Done() *)
InFlight == {t \in Threads : pc[t] \in {"callback", "resume", "exit"}}

(***************************************************************************)
(* The hand-over from one timer goroutine to the next ("start a new timer  *)
(* as timeout has changed") never leaves two of them running: so callbacks *)
(* never overlap, however ticks, new intervals and Stop interleave.        *)
(***************************************************************************)
OneLiveLoop == \A t, u \in Threads : Live(t) /\ Live(u) => t = u

(***************************************************************************)
(* The WaitGroup counts exactly the invocations whose deferred Done is     *)
(* still due, so Stop's Wait and WaitTimeout wait for the right callbacks. *)
(***************************************************************************)
InflightExact == ~Panicked => inflight = Cardinality(InFlight)

(***************************************************************************)
(* When Stop returns after handing its signal over, no timer goroutine is  *)
(* left that could still run the callback ("signal current timer to stop").*)
(***************************************************************************)
StopQuiesces == signalled => \A t \in Threads : ~Live(t)

(***************************************************************************)
(* "terminate timer loop": with stopOnError, once the callback failed no   *)
(* goroutine runs the loop and the callback is never run again.            *)
(***************************************************************************)
StopOnErrorIsFinal ==
  stopOnError /\ callbackError = "callback" =>
    \A t \in Threads : ~Live(t)

(***************************************************************************)
(* Until Stop clears it, the ticker the live loop selects on is the one    *)
(* for the interval that loop was started with, the last one the callback  *)
(* asked for.                                                              *)
(***************************************************************************)
IntervalInForce ==
  pc[Caller] \notin {"send", "stopped"} =>
    \A l \in Loops :
      pc[l] \in {"eval", "select", "stopwait", "invoke", "callback", "resume"}
        => /\ ticker <=> arg[l] > 0
           /\ ticker => tickTime = arg[l]

(***************************************************************************)
(* Without stopOnError, and unless the parent's deadline has passed, a     *)
(* call of Stop returns: its signal finds the loop goroutine, whatever     *)
(* callbacks and hand-overs are under way.  A panic ends the process.      *)
(***************************************************************************)
StopTerminates ==
  (pc[Caller] = "wait" /\ ~stopOnError /\ ctx = "canceled")
    ~> (pc[Caller] = "stopped" \/ Panicked)

(***************************************************************************)
(* Every call of Stop returns: "err = timer.Stop()", after a callback that *)
(* failed under stopOnError too (timer_test.go:125).                       *)
(***************************************************************************)
StopAlwaysReturns == pc[Caller] = "wait" ~> (pc[Caller] = "stopped" \/ Panicked)

(***************************************************************************)
(* Stopping a timer never takes the process down: neither the loop nor     *)
(* Stop meets a ticker the other side has just cleared, and the WaitGroup  *)
(* is not reused under a waiting Stop.                                     *)
(***************************************************************************)
NoPanic == ~Panicked
=============================================================================
