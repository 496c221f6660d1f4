---------------------------- MODULE TimerClient -----------------------------
(* The execution timer that the Tailscale daemon and the port mapper hold: *)
(* its goroutines and its state, which are those of the module ExecTimer.  *)

CONSTANTS
  Loops,   \* goroutine ids for the timer's startTimer
  Owner    \* the goroutine that calls Start and Stop

VARIABLES
  pc, arg, ctx, ticker, tickTime, inflight, callbackError, signalled, stopOnError

timerVars == <<pc, arg, ctx, ticker, tickTime, inflight, callbackError, signalled, stopOnError>>
=============================================================================
