-------------------------- MODULE MCTimerClients ---------------------------
(***************************************************************************)
(* An instance for TLC of the components that hold an execution timer: the *)
(* Tailscale daemon and the port mapper.  A behaviour is of one of them;   *)
(* the other stays as it was made, and the timer is the first one's.       *)
(*                                                                         *)
(* One timer goroutine is enough: the callbacks always return the same     *)
(* interval, so that it never starts another one.                          *)
(***************************************************************************)
EXTENDS TailscaleDaemon, PortMapper

VARIABLE part   \* the component used

allvars == <<part, timerVars, daemonVars, mapperVars>>

(* no router; one router, besides two at different addresses; a router     *)
(* that does not tell its address; one router only; one router seen twice  *)
MCDiscoveries ==
  {<< <<>>, <<>>, <<>> >>, << <<"a">>, <<"a", "b">>, <<>> >>, << <<>>, <<>>, <<"x", "a">> >>,
   << <<>>, <<>>, <<"a">> >>, << <<"a", "x", "a">>, <<"a", "b">>, <<>> >>}

AllInit ==
  /\ part \in {"daemon", "mapper"}
  /\ Init /\ MapperInit

AllNext ==
  /\ UNCHANGED part
  /\ \/ part = "daemon" /\ Next /\ UNCHANGED mapperVars
     \/ part = "mapper" /\ MapperNext /\ UNCHANGED daemonVars

(* The port mapper's property is an invariant, and needs no fairness.      *)
AllSpec == AllInit /\ [][AllNext]_allvars /\ Fairness
=============================================================================
