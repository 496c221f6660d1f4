-------------------------- MODULE TailscaleDaemon --------------------------
(***************************************************************************)
(* The embedded Tailscale daemon (common/tailscale/tailscale_daemon.go):   *)
(* its owner starts and stops it, an execution timer runs nodeCheck, the   *)
(* ipn server and the goroutine that publishes the WireGuard device run    *)
(* beside them, and nodeCheck starts goroutines that ping the peers.       *)
(*                                                                         *)
(* The timer is the module ExecTimer, step for step; what happens inside   *)
(* its callback is nodeCheck.  tsd.mx is taken by Stop, by nodeCheck and   *)
(* by the device goroutine.  The Tailscale libraries are external.         *)
(***************************************************************************)
EXTENDS Integers, FiniteSets, TimerClient

CONSTANTS
  Pingers,          \* bound: goroutine ids for pings under way at a time
  nodeCheckTimeout  \* what the timer is started with

ASSUME DaemonAssumption ==
  /\ Owner \notin Loops
  /\ IsFiniteSet(Loops)
  /\ nodeCheckTimeout \in Nat \ {0}

VARIABLES
  owner,      \* where Start and Stop are
  mx,         \* who holds tsd.mx
  canceled,   \* tsd.cancel() was called
  server,     \* the goroutine of the ipn server
  exit,       \* the counter of the WaitGroup tsd.exit
  backend,    \* tsd.LocalBackend # nil
  device,     \* tsd.wgDevice: "none", "pending" (goroutine started), "set"
  check,      \* check[t]: where in nodeCheck timer goroutine t is
  pinging     \* goroutines in the loop that pings a peer

Timer == INSTANCE ExecTimer WITH Caller <- Owner,
                                 Intervals <- {nodeCheckTimeout},
                                 ParentEnds <- {}

daemonVars == <<owner, mx, canceled, server, exit, backend, device, check, pinging>>
vars == <<timerVars, daemonVars>>

Free == "free"

(* NewTailscaleDaemon: the timer does not stop on an error.                *)
Init ==
  /\ Timer!Init
  /\ stopOnError = FALSE
  /\ owner = "new"
  /\ mx = Free
  /\ canceled = FALSE
  /\ server = "none"
  /\ exit = 0
  /\ backend = FALSE
  /\ device = "none"
  /\ check = [l \in Loops |-> "out"]
  /\ pinging = {}

---------------------------------------------------------------------------
(* Start and run.                                                          *)

Start ==
  /\ owner = "new"
  /\ Timer!Start(nodeCheckTimeout)
  /\ owner' = "run"
  /\ UNCHANGED <<mx, canceled, server, exit, backend, device, check, pinging>>

(* run returns an error; what it has started keeps running.                *)
RunFails ==
  /\ owner \in {"run", "engine", "backend"}
  /\ owner' = "failed"
  /\ backend' \in {backend, backend \/ owner = "backend"}
  /\ UNCHANGED <<timerVars, mx, canceled, server, exit, device, check, pinging>>

(* tsd.exit.Add(1), then the goroutine that runs the server.               *)
RunServer ==
  /\ owner = "run"
  /\ owner' = "engine"
  /\ server' = "spawned"
  /\ exit' = exit + 1
  /\ UNCHANGED <<timerVars, mx, canceled, backend, device, check, pinging>>

(* createEngine succeeds for one of the tun names, and tryEngine starts    *)
(* the goroutine that sets the device.                                     *)
CreateEngine ==
  /\ owner = "engine"
  /\ owner' = "backend"
  /\ device' = "pending"
  /\ UNCHANGED <<timerVars, mx, canceled, server, exit, backend, check, pinging>>

(* The critical section of the device goroutine.                           *)
SetDevice ==
  /\ device = "pending"
  /\ mx = Free
  /\ device' = "set"
  /\ UNCHANGED <<timerVars, owner, mx, canceled, server, exit, backend, check, pinging>>

SetLocalBackend ==
  /\ owner = "backend"
  /\ owner' = "up"
  /\ backend' = TRUE
  /\ UNCHANGED <<timerVars, mx, canceled, server, exit, device, check, pinging>>

ServerRuns ==
  /\ server = "spawned"
  /\ server' = "running"
  /\ UNCHANGED <<timerVars, owner, mx, canceled, exit, backend, device, check, pinging>>

(* srv.Run returns, when canceled or with an error, and tsd.exit.Done().   *)
ServerExits ==
  /\ server = "running"
  /\ server' = "exited"
  /\ exit' = exit - 1
  /\ UNCHANGED <<timerVars, owner, mx, canceled, backend, device, check, pinging>>

---------------------------------------------------------------------------
(* Stop: the mutex is held from before the timer is stopped until the      *)
(* server has exited.                                                      *)

Stop ==
  /\ owner \in {"new", "up", "failed"}
  /\ mx = Free
  /\ mx' = Owner
  /\ owner' = "stopTimer"
  /\ Timer!Stop
  /\ UNCHANGED <<canceled, server, exit, backend, device, check, pinging>>

StopTimer ==
  /\ owner = "stopTimer"
  /\ Timer!StopStep
  /\ UNCHANGED daemonVars

MutStopCancel ==
  /\ owner = "stopTimer"
  /\ pc[Owner] = "stopped"
  /\ owner' = "exitWait"
  /\ UNCHANGED <<timerVars, mx, canceled, server, exit, backend, device, check, pinging>>

StopCancel ==
  /\ owner = "stopTimer"
  /\ pc[Owner] = "stopped"
  /\ owner' = "exitWait"
  /\ canceled' = TRUE
  /\ UNCHANGED <<timerVars, mx, server, exit, backend, device, check, pinging>>

MutStopReturns ==
  /\ owner = "exitWait"
  /\ owner' = "stopped"
  /\ mx' = Free
  /\ UNCHANGED <<timerVars, canceled, server, exit, backend, device, check, pinging>>

StopReturns ==
  /\ owner = "exitWait"
  /\ exit = 0
  /\ owner' = "stopped"
  /\ mx' = Free
  /\ UNCHANGED <<timerVars, canceled, server, exit, backend, device, check, pinging>>

---------------------------------------------------------------------------
(* The timer's goroutines, but for the callback.                           *)
TimerLoop(l) ==
  /\ \/ Timer!startTimer(l)
     \/ Timer!BeginCallback(l)
     \/ Timer!SkipCallback(l)
     \/ Timer!EndCallback(l)
  /\ UNCHANGED daemonVars

(* nodeCheck up to the mutex.                                              *)
NodeCheck(l) ==
  /\ pc[l] = "callback"
  /\ check[l] = "out"
  /\ \/ /\ canceled
        /\ Timer!CallbackReturns(l, TRUE, nodeCheckTimeout)
        /\ UNCHANGED check
     \/ /\ ~ canceled
        /\ check' = [check EXCEPT ![l] = "lock"]
        /\ UNCHANGED timerVars
  /\ UNCHANGED <<owner, mx, canceled, server, exit, backend, device, pinging>>

NodeCheckLocks(l) ==
  /\ check[l] = "lock"
  /\ mx = Free
  /\ mx' = l
  /\ check' = [check EXCEPT ![l] = "locked"]
  /\ UNCHANGED <<timerVars, owner, canceled, server, exit, backend, device, pinging>>

MutNodeCheckReturns(l) ==
  /\ check[l] = "locked"
  /\ \E started \in SUBSET (Pingers \ pinging) :
       /\ started # {} => backend
       /\ pinging' = pinging \cup started
  /\ mx' = IF backend THEN Free ELSE l
  /\ check' = [check EXCEPT ![l] = "out"]
  /\ Timer!CallbackReturns(l, FALSE, nodeCheckTimeout)
  /\ UNCHANGED <<owner, canceled, server, exit, backend, device>>

(* The peers that are online get a goroutine each; without a backend the   *)
(* panic is recovered.  Either way the mutex is released.                  *)
NodeCheckReturns(l) ==
  /\ check[l] = "locked"
  /\ \E started \in SUBSET (Pingers \ pinging) :
       /\ started # {} => backend
       /\ pinging' = pinging \cup started
  /\ mx' = Free
  /\ check' = [check EXCEPT ![l] = "out"]
  /\ Timer!CallbackReturns(l, FALSE, nodeCheckTimeout)
  /\ UNCHANGED <<owner, canceled, server, exit, backend, device>>

(* A ping is answered, or the name cannot be resolved.                     *)
PingEnds(g) ==
  /\ g \in pinging
  /\ pinging' = pinging \ {g}
  /\ UNCHANGED <<timerVars, owner, mx, canceled, server, exit, backend, device, check>>

MutPingTimesOut(g) ==
  /\ g \in pinging
  /\ canceled
  /\ pinging' = pinging \ {g}
  /\ UNCHANGED <<timerVars, owner, mx, canceled, server, exit, backend, device, check>>

(* Its second is over.  When the daemon is canceled first, every further   *)
(* ping fails with Canceled, not DeadlineExceeded, and the loop goes on.   *)
PingTimesOut(g) ==
  /\ g \in pinging
  /\ ~ canceled
  /\ pinging' = pinging \ {g}
  /\ UNCHANGED <<timerVars, owner, mx, canceled, server, exit, backend, device, check>>

---------------------------------------------------------------------------
Running == ~ Timer!Panicked

Run == RunFails \/ RunServer \/ CreateEngine \/ SetLocalBackend
StopStep == StopTimer \/ StopCancel \/ StopReturns
Check(l) == NodeCheck(l) \/ NodeCheckLocks(l) \/ NodeCheckReturns(l)

Next ==
  /\ Running
  /\ \/ Start \/ Run \/ SetDevice \/ ServerRuns \/ ServerExits
     \/ Stop \/ StopStep
     \/ \E l \in Loops : TimerLoop(l) \/ Check(l)
     \/ \E g \in Pingers : PingEnds(g) \/ PingTimesOut(g)

Spec == Init /\ [][Next]_vars

(* Goroutines are scheduled fairly; the server ends once it is canceled,   *)
(* and a ping when its time is over.  A mutex that is released again and   *)
(* again is handed to everyone who waits for it (sync.Mutex is fair to a   *)
(* waiter that has starved for a millisecond).                             *)
Live(A) == Running /\ A

Fairness ==
  /\ WF_vars(Live(Run))
  /\ WF_vars(Live(StopStep))
  /\ SF_vars(Live(SetDevice))
  /\ WF_vars(Live(ServerRuns))
  /\ WF_vars(Live(canceled /\ ServerExits))
  /\ \A l \in Loops :
       /\ WF_vars(Live(TimerLoop(l)))
       /\ SF_vars(Live(UNCHANGED daemonVars /\ Timer!CtxDone(l)))
       /\ SF_vars(Live(UNCHANGED daemonVars /\ Timer!StopSend(l)))
       /\ WF_vars(Live(NodeCheck(l) \/ NodeCheckReturns(l)))
       /\ SF_vars(Live(NodeCheckLocks(l)))
  /\ \A g \in Pingers : WF_vars(Live(PingTimesOut(g)))

FairSpec == Spec /\ Fairness

---------------------------------------------------------------------------
(* "released when ipn server exits": when Stop returns the server is gone, *)
(* also when it had only just been started, or run had failed.             *)
ServerStopped == owner = "stopped" => server \in {"none", "exited"}

(* Stop waits for a node check that waits for the mutex Stop holds.        *)
Stuck == mx = Owner /\ \E l \in Loops : check[l] = "lock" /\ pc[Owner] \in {"waiting", "send"}

(* Stop returns, unless a node check had tested the context and came to    *)
(* the mutex after Stop: then they wait for each other.                    *)
StopTerminates == owner = "stopTimer" ~> owner = "stopped" \/ Stuck \/ ~ Running

(* The WireGuard device is published once there is an engine, although     *)
(* node checks before the backend is there end in a panic that nodeCheck   *)
(* recovers from.                                                          *)
DevicePublished == device = "pending" ~> device = "set" \/ Stuck \/ ~ Running

(* A goroutine that pings a peer comes to its end, within the second its   *)
(* context allows, unless the daemon is stopped meanwhile.                 *)
PingersEnd == \A g \in Pingers : g \in pinging ~> g \notin pinging \/ canceled \/ ~ Running
============================================================================
