--------------------------- MODULE NetworkContext ---------------------------
(***************************************************************************)
(* The Linux network context of goutils/network: the initialisation that   *)
(* every new context waits for, the route manager and the DNS manager.     *)
(*                                                                         *)
(* A goroutine started by the package reads the routes and sends its error *)
(* once, on a channel that NewNetworkContext receives from.  A context     *)
(* then changes the kernel's links and routes and the settings of          *)
(* systemd-resolved, and Clear is to undo that.  Several contexts share    *)
(* the kernel; their calls do not overlap.  The kernel (netlink, nftables) *)
(* and systemd-resolved are external.                                      *)
(***************************************************************************)
EXTENDS Naturals, Sequences, FiniteSets

CONSTANTS
  Clients,    \* goroutines, each with a context of its own
  Links,      \* links that can be made routable
  LAN,        \* the link of the default route that was read
  IPs,        \* addresses to be reached past the default route
  Foreign,    \* those of them that had a route before
  MaxFaults   \* bound: kernel calls that fail

None == "none"

ASSUME NetworkAssumption ==
  /\ LAN \notin Links
  /\ None \notin Links \cup {LAN}
  /\ Foreign \subseteq IPs
  /\ IsFiniteSet(Links) /\ IsFiniteSet(IPs)
  /\ MaxFaults \in Nat

VARIABLES
  reader,      \* readNetworkInfo: "reading", "ok" or "error" (sending), "done"
  known,       \* Network.DefaultIPv4Route # nil
  initialized,
  caller,      \* caller[c]: "idle", "wait", "failed", "ok"
  rm,          \* rm[c]: None, "manager", or "filter" when rm.pfr has tables
  dm,          \* dm[c]: c has a DNS manager
  routedItfs,  \* routedItfs[c]: the links c has made routable
  routedIPs,   \* routedIPs[c]: the addresses c has added routes to
  cleared,     \* cleared[c]: c has changed nothing since it was cleared
  died,        \* a nil route was dereferenced
  up,          \* kernel: the links that are up
  addr,        \* kernel: the links that have their address
  routes,      \* kernel: the addresses with a route over the LAN
  default,     \* kernel: the link of the default route
  tables,      \* kernel: the filter router's tables exist
  dns,         \* resolved: the links with settings of ours
  faults,      \* kernel calls that have failed
  replaced     \* history: a route manager with tables was replaced

initVars == <<reader, known, initialized, caller>>
contextVars == <<rm, dm, routedItfs, routedIPs, cleared>>
kernelVars == <<up, addr, routes, default, tables, dns, faults>>
nvars == <<initVars, contextVars, kernelVars, died, replaced>>

NetworkInit ==
  /\ reader = "reading"
  /\ known = FALSE
  /\ initialized = FALSE
  /\ caller = [c \in Clients |-> "idle"]
  /\ rm = [c \in Clients |-> None]
  /\ dm = [c \in Clients |-> FALSE]
  /\ routedItfs = [c \in Clients |-> <<>>]
  /\ routedIPs = [c \in Clients |-> {}]
  /\ cleared = [c \in Clients |-> TRUE]
  /\ died = FALSE
  /\ up = {}
  /\ addr = {}
  /\ routes = Foreign
  /\ default = LAN
  /\ tables = FALSE
  /\ dns = {}
  /\ faults = 0
  /\ replaced = FALSE

---------------------------------------------------------------------------
(* Initialisation.                                                         *)

(* The default IPv4 route may be known although something failed later.    *)
ReadNetworkInfo(ok, found) ==
  /\ reader = "reading"
  /\ ok => found
  /\ reader' = IF ok THEN "ok" ELSE "error"
  /\ known' = found
  /\ UNCHANGED <<initialized, caller, contextVars, kernelVars, died, replaced>>

NewNetworkContext(c) ==
  /\ caller[c] \in {"idle", "failed"}
  /\ caller' = [caller EXCEPT ![c] = IF initialized THEN "ok" ELSE "wait"]
  /\ UNCHANGED <<reader, known, initialized, contextVars, kernelVars, died, replaced>>

(* The one send on initErr meets a receive.                                *)
InitReceived(c) ==
  /\ caller[c] = "wait"
  /\ reader \in {"ok", "error"}
  /\ reader' = "done"
  /\ initialized' = TRUE
  /\ caller' = [caller EXCEPT ![c] = IF reader = "ok" THEN "ok" ELSE "failed"]
  /\ UNCHANGED <<known, contextVars, kernelVars, died, replaced>>

MutInitTimesOut(c) ==
  /\ caller[c] = "wait"
  /\ ~ initialized
  /\ caller' = [caller EXCEPT ![c] = "failed"]
  /\ UNCHANGED <<reader, known, initialized, contextVars, kernelVars, died, replaced>>

(* After 30 seconds; the value may also have gone to another caller.       *)
InitTimesOut(c) ==
  /\ caller[c] = "wait"
  /\ caller' = [caller EXCEPT ![c] = "failed"]
  /\ UNCHANGED <<reader, known, initialized, contextVars, kernelVars, died, replaced>>

---------------------------------------------------------------------------
(* Managers.                                                               *)

NewDNSManager(c) ==
  /\ caller[c] = "ok"
  /\ dm' = [dm EXCEPT ![c] = TRUE]
  /\ UNCHANGED <<initVars, rm, routedItfs, routedIPs, cleared, kernelVars, died, replaced>>

(* A new manager has an empty filter router; the old one's is forgotten.   *)
NewRouteManager(c) ==
  /\ caller[c] = "ok"
  /\ rm' = [rm EXCEPT ![c] = "manager"]
  /\ replaced' = (replaced \/ rm[c] = "filter")
  /\ UNCHANGED <<initVars, dm, routedItfs, routedIPs, cleared, kernelVars, died>>

(* The tables are made; reading a rule back may still fail.                *)
NewFilterRouter(c, fails) ==
  /\ rm[c] # None
  /\ fails => faults < MaxFaults
  /\ tables' = TRUE
  /\ rm' = IF fails THEN rm ELSE [rm EXCEPT ![c] = "filter"]
  /\ faults' = IF fails THEN faults + 1 ELSE faults
  /\ cleared' = [cleared EXCEPT ![c] = FALSE]
  /\ UNCHANGED <<initVars, dm, routedItfs, routedIPs, up, addr, routes, default, dns, died, replaced>>

---------------------------------------------------------------------------
(* Routes.                                                                 *)

(* AddrAdd is refused for an address that the link has; LinkSetUp fails or *)
(* the link is recorded.                                                   *)
NewRoutableInterface(c, l, fails) ==
  /\ rm[c] # None
  /\ l \notin addr
  /\ fails => faults < MaxFaults
  /\ addr' = addr \cup {l}
  /\ up' = IF fails THEN up ELSE up \cup {l}
  /\ routedItfs' = IF fails THEN routedItfs ELSE [routedItfs EXCEPT ![c] = Append(@, l)]
  /\ faults' = IF fails THEN faults + 1 ELSE faults
  /\ cleared' = [cleared EXCEPT ![c] = FALSE]
  /\ UNCHANGED <<initVars, rm, dm, routedIPs, routes, default, tables, dns, died, replaced>>

(* An address that has a route already is refused by the kernel and not    *)
(* recorded.                                                               *)
AddExternalRouteToIPs(c, ips) ==
  /\ rm[c] # None
  /\ \/ /\ ~ known
        /\ died' = TRUE
        /\ UNCHANGED <<routes, routedIPs, cleared>>
     \/ /\ known
        /\ routes' = routes \cup ips
        /\ routedIPs' = [routedIPs EXCEPT ![c] = @ \cup (ips \ routes)]
        /\ cleared' = [cleared EXCEPT ![c] = FALSE]
        /\ UNCHANGED died
  /\ UNCHANGED <<initVars, rm, dm, routedItfs, up, addr, default, tables, dns, faults, replaced>>

(* The links over which the kernel takes a route, of those that            *)
(* GetDefaultInterface and GetRoutableInterface find by name.              *)
Routable == up \cup {LAN}

(* RouteReplace over a link that is up: from MakeDefaultRoute, or from     *)
(* AddDefaultRoute when the gateway is its own next hop.                   *)
MakeDefaultRoute(c, l) ==
  /\ rm[c] # None
  /\ l \in Routable
  /\ default' = l
  /\ cleared' = [cleared EXCEPT ![c] = FALSE]
  /\ UNCHANGED <<initVars, rm, dm, routedItfs, routedIPs, up, addr, routes, tables, dns, faults, died, replaced>>

---------------------------------------------------------------------------
(* DNS: set on the first link made routable, if there is one.              *)

(* A call that fails is logged and the next one is made.                   *)
SetLink(c, calls, failed) ==
  /\ dm[c]
  /\ routedItfs[c] # <<>>
  /\ failed \subseteq calls
  /\ faults + Cardinality(failed) <= MaxFaults
  /\ faults' = faults + Cardinality(failed)
  /\ dns' = IF failed = calls THEN dns ELSE dns \cup {Head(routedItfs[c])}
  /\ cleared' = [cleared EXCEPT ![c] = FALSE]
  /\ UNCHANGED <<initVars, rm, dm, routedItfs, routedIPs, up, addr, routes, default, tables, died, replaced>>

AddDNSServers(c, failed) == SetLink(c, {"SetLinkDNS", "SetLinkDefaultRoute"}, failed)

AddSearchDomains(c, failed) == SetLink(c, {"SetLinkDomains"}, failed)

---------------------------------------------------------------------------
(* Clear.                                                                  *)

Itfs(c) == {routedItfs[c][i] : i \in DOMAIN routedItfs[c]}

(* The calls a manager's Clear makes; without a default route the route    *)
(* manager's Clear ends in a nil dereference before the last one.          *)
DNSCalls(c) == IF dm[c] THEN {<<"RevertLink", l>> : l \in Itfs(c)} ELSE {}

RouteCalls(c) ==
  IF rm[c] = None THEN {}
  ELSE {<<"DelTable", t>> : t \in {rm[c]} \cap {"filter"}}
       \cup {<<"LinkSetDown", l>> : l \in Itfs(c)}
       \cup {<<"RouteDel", ip>> : ip \in routedIPs[c]}
       \cup (IF known THEN {<<"RouteReplace", LAN>>} ELSE {})

(* A call that fails is logged, and what it was to undo stays.  A link     *)
(* that goes down takes its routes with it.                                *)
Undo(calls, failed) ==
  LET made == calls \ failed
  IN /\ failed \subseteq calls
     /\ faults + Cardinality(failed) <= MaxFaults
     /\ faults' = faults + Cardinality(failed)
     /\ dns' = {l \in dns : <<"RevertLink", l>> \notin made}
     /\ up' = {l \in up : <<"LinkSetDown", l>> \notin made}
     /\ routes' = {ip \in routes : <<"RouteDel", ip>> \notin made}
     /\ tables' = (tables /\ <<"DelTable", "filter">> \notin made)
     /\ default' = IF <<"RouteReplace", LAN>> \in made THEN LAN
                   ELSE IF <<"LinkSetDown", default>> \in made THEN None ELSE default
     /\ UNCHANGED addr

(* What the route manager forgets.  routedItfs stays.                      *)
Forget(c) ==
  /\ routedIPs' = [routedIPs EXCEPT ![c] = {}]
  /\ rm' = [rm EXCEPT ![c] = IF @ = "filter" THEN "manager" ELSE @]
  /\ died' = (rm[c] # None /\ ~ known)

DNSClear(c, failed) ==
  /\ dm[c]
  /\ Undo(DNSCalls(c), failed)
  /\ UNCHANGED <<initVars, contextVars, died, replaced>>

RouteClear(c, failed) ==
  /\ rm[c] # None
  /\ Undo(RouteCalls(c), failed)
  /\ Forget(c)
  /\ UNCHANGED <<initVars, dm, routedItfs, cleared, replaced>>

MutClear(c, failed) ==
  /\ caller[c] = "ok"
  /\ Undo(RouteCalls(c), failed)
  /\ Forget(c)
  /\ cleared' = [cleared EXCEPT ![c] = @ \/ ~ died']
  /\ UNCHANGED <<initVars, dm, routedItfs, replaced>>

(* networkContext.Clear: both managers.                                    *)
Clear(c, failed) ==
  /\ caller[c] = "ok"
  /\ Undo(DNSCalls(c) \cup RouteCalls(c), failed)
  /\ Forget(c)
  /\ cleared' = [cleared EXCEPT ![c] = @ \/ ~ died']
  /\ UNCHANGED <<initVars, dm, routedItfs, replaced>>

---------------------------------------------------------------------------
Manage(c) ==
  \/ NewDNSManager(c)
  \/ NewRouteManager(c)
  \/ \E fails \in BOOLEAN : NewFilterRouter(c, fails)
  \/ \E l \in Links, fails \in BOOLEAN : NewRoutableInterface(c, l, fails)
  \/ \E ips \in SUBSET IPs : AddExternalRouteToIPs(c, ips)
  \/ \E l \in Links \cup {LAN} : MakeDefaultRoute(c, l)
  \/ \E failed \in SUBSET {"SetLinkDNS", "SetLinkDefaultRoute"} : AddDNSServers(c, failed)
  \/ \E failed \in SUBSET {"SetLinkDomains"} : AddSearchDomains(c, failed)
  \/ \E failed \in SUBSET DNSCalls(c) : DNSClear(c, failed)
  \/ \E failed \in SUBSET RouteCalls(c) : RouteClear(c, failed)
  \/ \E failed \in SUBSET (DNSCalls(c) \cup RouteCalls(c)) : Clear(c, failed)

NetworkNext ==
  /\ ~ died
  /\ \/ \E ok, found \in BOOLEAN : ReadNetworkInfo(ok, found)
     \/ \E c \in Clients : NewNetworkContext(c) \/ InitReceived(c) \/ InitTimesOut(c) \/ Manage(c)

(* A timer that has expired is noticed.                                    *)
NetworkFairness == \A c \in Clients : WF_nvars(~ died /\ InitTimesOut(c))

NetworkSpec == NetworkInit /\ [][NetworkNext]_nvars /\ NetworkFairness

---------------------------------------------------------------------------
(* Once every context has been cleared since it last changed anything, the *)
(* links, routes, DNS settings and tables are what they were before the    *)
(* first one, whatever the contexts did in turns: networkContext.Clear.    *)
(* The addresses given to links stay, and are no part of this.             *)
(* Kernel calls that failed, and tables of a route manager that was        *)
(* replaced, are excepted.                                                 *)
Undone ==
  faults = 0 /\ (\A c \in Clients : cleared[c]) =>
    /\ up = {}
    /\ routes = Foreign
    /\ default = LAN
    /\ tables => replaced
    /\ dns = {}

(* NewNetworkContext returns, also to those who wait when the one value    *)
(* sent on initErr has gone to another caller.                             *)
NewReturns == \A c \in Clients : caller[c] = "wait" ~> caller[c] # "wait" \/ died
============================================================================
