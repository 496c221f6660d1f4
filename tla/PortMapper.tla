----------------------------- MODULE PortMapper -----------------------------
(***************************************************************************)
(* The port mapper of common/network/port_mapper.go: an owner connects it  *)
(* to the router and closes it, users add persistent mappings, and an      *)
(* execution timer renews the mappings' leases.  The timer is the module   *)
(* ExecTimer, step for step; its callback is refreshPortMappings.          *)
(*                                                                         *)
(* Time passes in Elapse, and only when every goroutine waits: for the     *)
(* ticker, for the router's answer, or for another goroutine.  The router  *)
(* is external; it answers within MaxCall, and a lease it grants may run   *)
(* from any moment of the call.                                            *)
(***************************************************************************)
EXTENDS Integers, Sequences, FiniteSets, TimerClient

CONSTANTS
  Mappings,      \* the mappings users ask for
  Discoveries,   \* what discovery finds: a sequence of routers per kind of
                 \* client, each by the external address it answers
  NoAnswer,      \* the answer of a router that fails to tell its address
  pRefresh,      \* the interval of the refresh
  Minute,        \* what a lease is longer than the interval
  Second,        \* the unit in which a lease is asked for
  MaxCall,       \* bound: how long the router takes for a call
  MaxFailures    \* bound: calls that fail

(* NewPortMapper: pPortMappingTimeout, in the whole seconds AddPortMapping *)
(* asks for.                                                               *)
Lease == ((pRefresh + Minute) \div Second) * Second

(* The router is quick enough for a refresh of all mappings to end before  *)
(* the next one, and for the margin of a minute.                           *)
ASSUME MapperAssumption ==
  /\ IsFiniteSet(Mappings)
  /\ Owner \notin Loops
  /\ {pRefresh, Second, MaxCall} \subseteq Nat \ {0}
  /\ {Minute, MaxFailures} \subseteq Nat
  /\ MaxCall * Cardinality(Mappings) < pRefresh
  /\ MaxCall * (Cardinality(Mappings) + 1) < Minute - Second

VARIABLES
  connection,     \* what Connect has returned: "new", "none", "error", "multiple", "ok"
  pPortMappings,
  adding,         \* what AddPersistantPortMapping is adding, and "call", "lock" or "out"
  refreshed,      \* the mapping being refreshed, under p.mx; 0 for none
  took,           \* took[r]: how long the call of r, "refresh" or "add", has taken
  since,          \* how long ago the ticker was made or ticked
  leases,         \* router: what is left of a mapping's lease
  missed,         \* history: the mappings whose last refresh failed
  failures        \* calls that have failed

mapperVars == <<connection, pPortMappings, adding, refreshed, took, since, leases, missed, failures>>
pvars == <<timerVars, mapperVars>>

MapperTimer == INSTANCE ExecTimer WITH Caller <- Owner,
                                       Intervals <- {pRefresh},
                                       ParentEnds <- {}

(* NewPortMapper: the timer does not stop on an error.                     *)
MapperInit ==
  /\ MapperTimer!Init
  /\ stopOnError = FALSE
  /\ connection = "new"
  /\ pPortMappings = <<>>
  /\ adding = [mapping |-> "", at |-> "out"]
  /\ refreshed = 0
  /\ took = [r \in {"refresh", "add"} |-> 0]
  /\ since = 0
  /\ leases = [m \in Mappings |-> 0]
  /\ missed = {}
  /\ failures = 0

---------------------------------------------------------------------------
(* Connect and Close.                                                      *)

(* The first kind of client with more than one router decides.  They must  *)
(* be known by one external address.                                       *)
Connected(found) ==
  LET several == {k \in DOMAIN found : Len(found[k]) > 1}
      routers == found[CHOOSE k \in several : \A j \in several : k <= j]
  IN IF several = {} THEN "none"
     ELSE IF Head(routers) = NoAnswer THEN "error"
     ELSE IF \E i \in DOMAIN routers : routers[i] \notin {Head(routers), NoAnswer} THEN "multiple"
     ELSE "ok"

(* A router is found: the timer is started with 0, to refresh at once.     *)
Connect(found) ==
  /\ connection # "ok"
  /\ connection' = Connected(found)
  /\ \/ connection' = "ok" /\ MapperTimer!Start(0)
     \/ connection' # "ok" /\ pc[Owner] = "new" /\ UNCHANGED timerVars
  /\ UNCHANGED <<pPortMappings, adding, refreshed, took, since, leases, missed, failures>>

ConnectFails ==
  /\ connection # "ok"
  /\ pc[Owner] = "new"
  /\ connection' = "error"
  /\ UNCHANGED <<timerVars, pPortMappings, adding, refreshed, took, since, leases, missed, failures>>

Close ==
  /\ MapperTimer!Stop \/ MapperTimer!StopStep
  /\ UNCHANGED mapperVars

---------------------------------------------------------------------------
(* AddPortMapping: the router's answer to a call of r for m.               *)
AddPortMapping(r, m, ok) ==
  /\ \/ /\ ok
        /\ \E d \in 0 .. took[r] : leases' = [leases EXCEPT ![m] = Lease - d]
        /\ UNCHANGED failures
     \/ /\ ~ ok
        /\ failures < MaxFailures
        /\ failures' = failures + 1
        /\ UNCHANGED leases
  /\ took' = [took EXCEPT ![r] = 0]

(* AddPersistantPortMapping: the call is made without the mutex.  It is    *)
(* called once for a mapping.                                              *)
AddPersistantPortMapping(m) ==
  /\ connection = "ok"
  /\ adding.at = "out"
  /\ \A i \in DOMAIN pPortMappings : pPortMappings[i] # m
  /\ adding' = [mapping |-> m, at |-> "call"]
  /\ UNCHANGED <<timerVars, connection, pPortMappings, refreshed, took, since, leases, missed, failures>>

Added(ok) ==
  /\ adding.at = "call"
  /\ AddPortMapping("add", adding.mapping, ok)
  /\ adding' = IF ok THEN [adding EXCEPT !.at = "lock"] ELSE [mapping |-> "", at |-> "out"]
  /\ UNCHANGED <<timerVars, connection, pPortMappings, refreshed, since, missed>>

(* ... and the mapping is recorded under the mutex.                        *)
Recorded ==
  /\ adding.at = "lock"
  /\ refreshed = 0
  /\ pPortMappings' = Append(pPortMappings, adding.mapping)
  /\ adding' = [mapping |-> "", at |-> "out"]
  /\ UNCHANGED <<timerVars, connection, refreshed, took, since, leases, missed, failures>>

---------------------------------------------------------------------------
(* refreshPortMappings, the callback, in goroutine t.                      *)
refreshPortMappings(t) ==
  /\ pc[t] = "callback"
  /\ refreshed = 0
  /\ \/ /\ pPortMappings = <<>>
        /\ MapperTimer!CallbackReturns(t, FALSE, pRefresh)
        /\ UNCHANGED refreshed
     \/ /\ pPortMappings # <<>>
        /\ refreshed' = 1
        /\ UNCHANGED timerVars
  /\ UNCHANGED <<connection, pPortMappings, adding, took, since, leases, missed, failures>>

(* mutant: a refresh that fails ends the round *)
MutRefreshed(t, ok) ==
  /\ pc[t] = "callback"
  /\ refreshed # 0
  /\ AddPortMapping("refresh", pPortMappings[refreshed], ok)
  /\ missed' = IF ok THEN missed \ {pPortMappings[refreshed]}
                     ELSE missed \cup {pPortMappings[refreshed]}
  /\ \/ /\ ok
        /\ refreshed < Len(pPortMappings)
        /\ refreshed' = refreshed + 1
        /\ UNCHANGED timerVars
     \/ /\ ~ ok \/ refreshed = Len(pPortMappings)
        /\ refreshed' = 0
        /\ MapperTimer!CallbackReturns(t, ~ ok, pRefresh)
  /\ UNCHANGED <<connection, pPortMappings, adding, since>>

(* A refresh that fails is logged, and the next mapping is refreshed.      *)
Refreshed(t, ok) ==
  /\ pc[t] = "callback"
  /\ refreshed # 0
  /\ AddPortMapping("refresh", pPortMappings[refreshed], ok)
  /\ missed' = IF ok THEN missed \ {pPortMappings[refreshed]}
                     ELSE missed \cup {pPortMappings[refreshed]}
  /\ \/ /\ refreshed < Len(pPortMappings)
        /\ refreshed' = refreshed + 1
        /\ UNCHANGED timerVars
     \/ /\ refreshed = Len(pPortMappings)
        /\ refreshed' = 0
        /\ MapperTimer!CallbackReturns(t, FALSE, pRefresh)
  /\ UNCHANGED <<connection, pPortMappings, adding, since>>

---------------------------------------------------------------------------
(* The timer's goroutines, but for the callback.  A tick is there when the *)
(* interval is over; a ticker that is made starts a new one.               *)
MapperTimerStep(t) ==
  \/ /\ \/ MapperTimer!BeginCallback(t)
        \/ MapperTimer!SkipCallback(t)
        \/ MapperTimer!EndCallback(t)
        \/ t \in Loops /\ (MapperTimer!EnterSelect(t) \/ MapperTimer!CtxDone(t))
     /\ UNCHANGED mapperVars
  \/ /\ t \in Loops
     /\ \/ MapperTimer!InstallTicker(t)
        \/ since = pRefresh /\ MapperTimer!Tick(t)
     /\ since' = 0
     /\ UNCHANGED <<connection, pPortMappings, adding, refreshed, took, leases, missed, failures>>

(* Nobody has a step to take that needs no time.                           *)
Waiting ==
  /\ \A t \in Loops \cup {Owner} :
       /\ pc[t] \in {"new", "idle", "started", "stopped", "waiting", "send", "select",
                     "stopwait", "callback"}
       /\ pc[t] = "callback" => refreshed # 0
       /\ pc[t] = "select" => ctx = "live" /\ since < pRefresh
       /\ pc[t] = "send" => \A l \in Loops : pc[l] \notin {"select", "stopwait"}
  /\ adding.at = "lock" => refreshed # 0
  /\ refreshed # 0 => took["refresh"] < MaxCall
  /\ adding.at = "call" => took["add"] < MaxCall

Elapse ==
  /\ connection = "ok"
  /\ Waiting
  /\ since' = IF ticker /\ since < pRefresh THEN since + 1 ELSE since
  /\ leases' = [m \in Mappings |-> IF leases[m] > 0 THEN leases[m] - 1 ELSE 0]
  /\ took' = [refresh |-> IF refreshed # 0 THEN took.refresh + 1 ELSE 0,
              add |-> IF adding.at = "call" THEN took.add + 1 ELSE 0]
  /\ UNCHANGED <<timerVars, connection, pPortMappings, adding, refreshed, missed, failures>>

MapperNext ==
  /\ ~ MapperTimer!Panicked
  /\ \/ \E found \in Discoveries : Connect(found)
     \/ ConnectFails
     \/ Close
     \/ \E m \in Mappings : AddPersistantPortMapping(m)
     \/ \E ok \in BOOLEAN : Added(ok)
     \/ Recorded
     \/ \E t \in Loops \cup {Owner} :
          \/ MapperTimerStep(t)
          \/ refreshPortMappings(t)
          \/ \E ok \in BOOLEAN : Refreshed(t, ok)
     \/ Elapse

MapperSpec == MapperInit /\ [][MapperNext]_pvars

---------------------------------------------------------------------------
(* As long as the mapper is not closed, a mapping recorded as persistent   *)
(* never lapses between two refreshes, unless its own last refresh failed: *)
(* neither one that was added while a refresh was under way and had to     *)
(* wait for p.mx, nor one behind a mapping whose refresh failed            *)
(* (pPortMappingTimeout is a minute longer than the interval).             *)
MappingsKept ==
  ctx = "live" /\ ~ MapperTimer!Panicked =>
    \A i \in DOMAIN pPortMappings :
      pPortMappings[i] \notin missed => leases[pPortMappings[i]] > 0
=============================================================================
