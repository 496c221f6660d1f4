------------------------ MODULE MCPacketFilterRouter ------------------------
(* Two port forwards to one host, traffic forwarded with and without NAT   *)
(* under one key, groups of which two share a port map and one has its     *)
(* rules overwritten, and an address of each family for the lists.         *)
EXTENDS PacketFilterRouter, TLC

CONSTANTS
  ScopeSize,   \* bound: keys that take part in one behaviour
  MaxMishaps   \* bound: faults and spoilers after which a behaviour is followed
VARIABLE scope       \* the keys of this behaviour

MCFamilyOf == ("lan" :> "ip4") @@ ("dmz" :> "ip4") @@ ("a" :> "ip4") @@ ("b" :> "ip6") @@ ("net6" :> "ip6")

Group(iif, src, oif, dst, icmp, ports, deny) ==
  [iif |-> iif, src |-> src, oif |-> oif, dst |-> dst, icmp |-> icmp, ports |-> ports, deny |-> deny]
MCGroups ==
  {Group("none", "lan", "none", "none", "no", {"p1"}, FALSE),
   Group("none", "none", "none", "lan", "no", {"p1", "p2"}, TRUE),
   Group("e1", "none", "none", "none", "last", {"p1"}, FALSE),
   Group("e1", "none", "none", "net6", "no", {}, TRUE),
   Group("none", "lan", "none", "net6", "no", {}, TRUE),
   Group("none", "lan", "e2", "dmz", "first", {"p2"}, FALSE)}
MCPortForwards ==
  {[fam |-> "ip4", dst |-> d, port |-> "p1", to |-> "a"] : d \in {"none", "c"}}
MCTraffics ==
  {[fam |-> "ip4", dstFam |-> d, iif |-> "e1", src |-> "lan", oif |-> "e2", dst |-> "world", nat |-> n] :
     n \in BOOLEAN, d \in Families}

MCInit == Init /\ scope \in {S \in SUBSET Keys : Cardinality(S) = ScopeSize}
MCNext ==
  /\ Next
  /\ "key" \in DOMAIN op' => op'.key \in scope
  /\ UNCHANGED scope
MCSpec == MCInit /\ [][MCNext]_<<vars, scope>>

(* Every property is conditional on no race, so what follows one is not    *)
(* explored; nor is what follows more than MaxMishaps of the others.       *)
Explored == "race" \notin spoiled /\ faults + Cardinality(spoiled) <= MaxMishaps
===========================================================================
