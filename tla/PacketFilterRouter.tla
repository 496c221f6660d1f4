------------------------- MODULE PacketFilterRouter -------------------------
(***************************************************************************)
(* The nftables packet filter of goutils/network (Linux): security groups, *)
(* IP deny and allow lists, port and traffic forwards.  Every call becomes *)
(* a list of rules saved under a key.  Rules are shared: a rule that two   *)
(* keys need is installed once and counted in ruleRef.  Changes are queued *)
(* in the netlink connection (batch) and reach the kernel at the next      *)
(* Flush, all of them or none.                                             *)
(*                                                                         *)
(* The kernel (nft, objs, elems) and the netlink library are external.  A  *)
(* network, address, port or interface is an opaque value.                 *)
(***************************************************************************)
EXTENDS Integers, Sequences, FiniteSets

CONSTANTS
  Groups,        \* security groups callers set: [deny, src, dst, oif, icmp, ports, iif]
  PortForwards,  \* port forwards callers ask for: [fam, dst, port, to]
  Traffics,      \* traffic forwards: [fam, dstFam, iif, src, oif, dst, nat]
  IPs,           \* addresses put on the lists
  FamilyOf,      \* [network -> address family]
  MaxSaved,      \* bound: a key is not saved again once it holds this many rules
  MaxCopies      \* bound: copies of one rule in the kernel

None == "none"   \* an absent network, address or interface name
World == "world" \* prefixWorld4, prefixWorld6
Families == {"ip4", "ip6"}

ASSUME BoundsAssumption == MaxSaved \in Nat /\ MaxCopies \in Nat

VARIABLES
  up,          \* r.table # nil
  nft,         \* kernel: handles of the installed rules
  objs,        \* kernel: inbound chains and port maps that exist
  elems,       \* kernel: elements of sets and maps, [set, key, verdict]
  batch,       \* messages queued in r.nft since its last Flush
  ruleMap,     \* r.ruleMap: key -> sequence of [handle, rule]
  ruleRef,     \* r.ruleRef: handle -> count (0: no entry)
  known,       \* names in r.sgPortVmaps and r.inboundChains
  op,          \* the call under way
  faults,      \* history: calls to the kernel that failed
  spoiled      \* history: which of the things below have happened

kernel == <<nft, objs, elems>>
vars == <<up, nft, objs, elems, batch, ruleMap, ruleRef, known, op, faults, spoiled>>

(* What spoiled records: a lookup returned the wrong rule because its      *)
(* goroutines share exprData; a group was set whose key or ports another   *)
(* group in force already has; a group was set whose ICMP and port rules   *)
(* share one backing array; a router was made over the tables of an        *)
(* earlier one.                                                            *)
Spoilers == {"race", "overlap", "alias", "restart"}

NoBatch == [objs |-> {}, add |-> {}, rules |-> {}, del |-> {}, delRules |-> {}]
Idle == [kind |-> "idle"]

---------------------------------------------------------------------------
(* Keys, rules and map elements of each call.                              *)

Rule(fam, chain, iif, src, oif, dst, what, verdict, vmap) ==
  [fam |-> fam, chain |-> chain, iif |-> iif, src |-> src, oif |-> oif, dst |-> dst,
   what |-> what, verdict |-> verdict, vmap |-> vmap]

(* The interface and networks a group names, joined: the name does not say *)
(* whether a lone network is the source or the destination.                *)
Signature(g) == SelectSeq(<<g.iif, g.src, g.dst>>, LAMBDA n : n # None)

(* The key omits Deny and Oifname; the port map name omits the ports too.  *)
SecurityGroupKey(g) == <<"sg", Signature(g), g.icmp, g.ports>>
PortVmap(g, fam) == <<"vmap", fam, Signature(g)>>

MixedFamilies(g) ==
  /\ g.src # None
  /\ g.dst # None
  /\ FamilyOf[g.src] # FamilyOf[g.dst]

FamiliesOf(g) ==
  IF g.src = None /\ g.dst = None
  THEN Families
  ELSE {FamilyOf[n] : n \in {g.src, g.dst} \ {None}}

TargetChain(g) ==
  CASE g.dst # None -> <<"forward">>
    [] g.dst = None /\ g.iif # None -> <<"inbound", g.iif>>
    [] OTHER -> <<"input">>

(* The interface is matched by the rule only in the forward chain; an      *)
(* inbound chain is reached by the interface name already.                 *)
GroupRule(g, fam, what, verdict, vmap) ==
  Rule(fam, TargetChain(g), IF g.dst = None THEN None ELSE g.iif,
       g.src, g.oif, g.dst, what, verdict, vmap)

Verdict(g) == IF g.deny THEN "drop" ELSE "accept"
IcmpRule(g, fam) == GroupRule(g, fam, "icmp", Verdict(g), <<>>)
VmapRule(g, fam) == GroupRule(g, fam, "vmap", None, PortVmap(g, fam))

(* append(sgExprs, ...) twice: with a source, an output interface and a    *)
(* destination but no input interface sgExprs has length 8 and capacity    *)
(* 12, so the second append overwrites the three expressions of the first. *)
Clobbered(g) == g.iif = None /\ None \notin {g.src, g.oif, g.dst}

FamilyRules(g, fam) ==
  LET icmp == IcmpRule(g, fam)
      vmap == VmapRule(g, fam)
  IN CASE g.ports = {} /\ g.icmp = "no" -> <<GroupRule(g, fam, "all", Verdict(g), <<>>)>>
       [] g.ports = {} /\ g.icmp # "no" -> <<icmp>>
       [] g.ports # {} /\ g.icmp = "no" -> <<vmap>>
       [] g.ports # {} /\ g.icmp = "first" -> IF Clobbered(g) THEN <<vmap, vmap>> ELSE <<icmp, vmap>>
       [] OTHER -> IF Clobbered(g) THEN <<icmp, icmp>> ELSE <<vmap, icmp>>

(* Port by port, the map elements of a group in the given families.        *)
PortElems(g, fams) ==
  {[set |-> PortVmap(g, f), key |-> p, verdict |-> Verdict(g)] : f \in fams, p \in g.ports}

GroupRules(g) ==
  (IF "ip4" \in FamiliesOf(g) THEN FamilyRules(g, "ip4") ELSE <<>>)
    \o (IF "ip6" \in FamiliesOf(g) THEN FamilyRules(g, "ip6") ELSE <<>>)

(* The inbound chain and port maps a group needs, both families' chains at *)
(* once; those already in the router's tables are not created again.       *)
GroupObjs(g) ==
  (IF g.ports = {} THEN {} ELSE {PortVmap(g, f) : f \in FamiliesOf(g)})
    \cup (IF TargetChain(g)[1] = "inbound" THEN {TargetChain(g)} ELSE {})

PortForwardKey(f) == <<"port", f.dst, f.port, f.to>>

(* dnat, masquerade and accept; the last two depend on the target only and *)
(* are shared by every forward to it.                                      *)
PortForwardRules(f) ==
  <<Rule(f.fam, <<"nat_prerouting">>, None, None, None, f.dst, f.port, f.to, <<>>),
    Rule(f.fam, <<"nat_postrouting">>, None, None, None, f.to, "all", "masq", <<>>),
    Rule(f.fam, <<"forward">>, None, None, None, f.to, "all", "accept", <<>>)>>

TrafficKey(t) == <<"traffic", t.iif, t.src, t.oif, t.dst>>

TrafficRules(t) ==
  LET dst == IF t.dst = World THEN None ELSE t.dst
  IN <<Rule(t.fam, <<"forward">>, t.iif, t.src, t.oif, dst, "all", "accept", <<>>)>>
       \o IF t.nat
          THEN <<Rule(t.fam, <<"nat_postrouting">>, None, t.src, t.oif, dst, "all", "masq", <<>>)>>
          ELSE <<>>

DenyKey == <<"ip_denylist">>
AllowKey == <<"ip_allowlist">>

DenyListRules ==
  [i \in 1 .. 2 |->
     Rule(<<"ip4", "ip6">>[i], <<"prerouting">>, None, None, None, None, "denylist", "drop", <<>>)]

AllowListRules ==
  [i \in 1 .. 4 |->
     LET fam == IF i <= 2 THEN "ip4" ELSE "ip6"
     IN IF i % 2 = 1
        THEN Rule(fam, <<"prerouting">>, "lo", None, None, None, "all", "accept", <<>>)
        ELSE Rule(fam, <<"prerouting">>, None, None, None, None, "not allowlist", "drop", <<>>)]

ListElems(list, ips) == {[set |-> list, key |-> ip, verdict |-> None] : ip \in ips}

GroupKeys == {SecurityGroupKey(g) : g \in Groups}
Keys == GroupKeys \cup {PortForwardKey(f) : f \in PortForwards}
          \cup {TrafficKey(t) : t \in Traffics} \cup {DenyKey, AllowKey}

RuleLists == {GroupRules(g) : g \in Groups} \cup {PortForwardRules(f) : f \in PortForwards}
               \cup {TrafficRules(t) : t \in Traffics} \cup {DenyListRules, AllowListRules}
Objects == UNION {GroupObjs(g) : g \in Groups}
Rules == UNION {{l[i] : i \in DOMAIN l} : l \in RuleLists}

(* The kernel numbers rules as they come.  Here a handle is named by the   *)
(* rule it was given to and a number that tells copies of it apart.        *)
Handles == [rule : Rules, copy : 1 .. MaxCopies]

---------------------------------------------------------------------------
(* The kernel and the netlink connection (external).                       *)

(* The batch with objects and elements added and elements deleted.         *)
Queued(newObjs, adds, dels) ==
  [objs |-> batch.objs \cup newObjs, add |-> batch.add \cup adds, rules |-> batch.rules,
   del |-> batch.del \cup dels, delRules |-> batch.delRules]

(* Chains and maps a rule refers to.                                       *)
Needs(rule) == {o \in {rule.chain, rule.vmap} : o # <<>> /\ o[1] \in {"inbound", "vmap"}}

SameElem(a, b) == a.set = b.set /\ a.key = b.key

(* The kernel takes a batch if every object it names exists, no element    *)
(* changes its verdict and everything deleted is there.                    *)
Accepts ==
  LET present == objs \cup batch.objs
      after == elems \cup batch.add
  IN /\ \A a \in batch.add : a.set \in present \cup {DenyKey, AllowKey}
     /\ \A a \in batch.add, e \in after : SameElem(a, e) => a.verdict = e.verdict
     /\ \A d \in batch.del : \E e \in after : SameElem(d, e)
     /\ \A x \in batch.rules : Needs(x.rule) \subseteq present
     /\ batch.delRules \subseteq nft

FlushOK ==
  /\ Accepts
  /\ nft' = (nft \cup batch.rules) \ batch.delRules
  /\ objs' = objs \cup batch.objs
  /\ elems' = {e \in elems \cup batch.add : ~ \E d \in batch.del : SameElem(d, e)}
  /\ batch' = NoBatch

(* Rejected, or the netlink call failed: the messages are gone.            *)
FlushFails ==
  /\ batch' = NoBatch
  /\ faults' = faults + 1
  /\ UNCHANGED kernel

(* A handle for a rule to be added: one that nothing refers to.            *)
Refers(h) ==
  \/ h \in nft \cup batch.rules
  \/ ruleRef[h] # 0
  \/ \E k \in Keys : \E i \in DOMAIN ruleMap[k] : ruleMap[k][i].handle = h

NewHandle(h) ==
  /\ ~ Refers(h)
  /\ \A c \in 1 .. h.copy - 1 : Refers([h EXCEPT !.copy = c])

(* What findRuleInList may return: an installed copy of the rule, or       *)
(* NoRule when there is none.  Its goroutines all marshal into one         *)
(* exprData, so with two rules in the chain one of them may be compared    *)
(* with the expressions of the other: any answer is possible.              *)
NoRule == [rule |-> <<>>, copy |-> 0]
Matches(rule) == {x \in nft : x.rule = rule}
Listed(rule) == {x \in nft : x.rule.fam = rule.fam /\ x.rule.chain = rule.chain}
Exact(rule) == IF Matches(rule) = {} THEN {NoRule} ELSE Matches(rule)
FindRuleInList(rule) ==
  IF Cardinality(Listed(rule)) < 2 THEN Exact(rule) ELSE Listed(rule) \cup {NoRule}

Looked(rule, h) ==
  spoiled' = IF h \in Exact(rule) THEN spoiled ELSE spoiled \cup {"race"}

---------------------------------------------------------------------------
(* saveFilterRules: look every rule up and queue the missing ones, flush,  *)
(* look every rule up again for its handle, count it, record the key.      *)

Saving(kind, key, rules, i, saved) ==
  [kind |-> kind, key |-> key, todo |-> rules, i |-> i, saved |-> saved]

SaveFilterRules(key, rules) == op' = Saving("lookup", key, rules, 1, <<>>)

GetRulesFails ==
  /\ op.kind \in {"lookup", "ref"}
  /\ op.i <= Len(op.todo)
  /\ op' = Idle
  /\ faults' = faults + 1
  /\ UNCHANGED <<up, kernel, batch, ruleMap, ruleRef, known, spoiled>>

SaveLookup ==
  /\ op.kind = "lookup"
  /\ op.i <= Len(op.todo)
  /\ \E found \in FindRuleInList(op.todo[op.i]) :
       /\ Looked(op.todo[op.i], found)
       /\ IF found = NoRule
          THEN \E h \in Handles :
                 /\ h.rule = op.todo[op.i]
                 /\ NewHandle(h)
                 /\ batch' = [batch EXCEPT !.rules = @ \cup {h}]
          ELSE UNCHANGED batch
  /\ op' = [op EXCEPT !.i = @ + 1]
  /\ UNCHANGED <<up, kernel, ruleMap, ruleRef, known, faults>>

SaveFlush ==
  /\ op.kind = "lookup"
  /\ op.i > Len(op.todo)
  /\ \/ FlushOK /\ op' = Saving("ref", op.key, op.todo, 1, <<>>) /\ UNCHANGED faults
     \/ FlushFails /\ op' = Idle
  /\ UNCHANGED <<up, ruleMap, ruleRef, known, spoiled>>

SaveRef ==
  /\ op.kind = "ref"
  /\ op.i <= Len(op.todo)
  /\ \E found \in FindRuleInList(op.todo[op.i]) :
       /\ Looked(op.todo[op.i], found)
       /\ IF found = NoRule
          THEN op' = Idle /\ UNCHANGED ruleRef
          ELSE /\ op' = Saving("ref", op.key, op.todo, op.i + 1,
                               Append(op.saved, [handle |-> found, rule |-> op.todo[op.i]]))
               /\ ruleRef' = [ruleRef EXCEPT ![found] = @ + 1]
  /\ UNCHANGED <<up, kernel, batch, ruleMap, known, faults>>

MutSaveDone ==
  /\ op.kind = "ref"
  /\ op.i > Len(op.todo)
  /\ ruleMap' = [ruleMap EXCEPT ![op.key] = op.saved]
  /\ op' = Idle
  /\ UNCHANGED <<up, kernel, batch, ruleRef, known, faults, spoiled>>

SaveDone ==
  /\ op.kind = "ref"
  /\ op.i > Len(op.todo)
  /\ ruleMap' = [ruleMap EXCEPT ![op.key] = @ \o op.saved]
  /\ op' = Idle
  /\ UNCHANGED <<up, kernel, batch, ruleRef, known, faults, spoiled>>

---------------------------------------------------------------------------
(* DeleteFilter: rule by rule give up one reference, queue the deletion of *)
(* a rule at its last one, drop the key, flush.                            *)

DeleteFilter(key, touched) ==
  op' = [kind |-> "delete", key |-> key, i |-> 1, touched |-> touched]

MutDeleteRule ==
  /\ op.kind = "delete"
  /\ op.i <= Len(ruleMap[op.key])
  /\ LET h == ruleMap[op.key][op.i].handle
     IN /\ ruleRef' = [ruleRef EXCEPT ![h] = @ - 1]
        /\ batch' = [batch EXCEPT !.delRules = @ \cup {h}]
  /\ op' = [op EXCEPT !.i = @ + 1]
  /\ UNCHANGED <<up, kernel, ruleMap, known, faults, spoiled>>

DeleteRule ==
  /\ op.kind = "delete"
  /\ op.i <= Len(ruleMap[op.key])
  /\ LET h == ruleMap[op.key][op.i].handle
     IN /\ ruleRef' = [ruleRef EXCEPT ![h] = @ - 1]
        /\ batch' = IF ruleRef[h] = 1
                    THEN [batch EXCEPT !.delRules = @ \cup {h}]
                    ELSE batch
  /\ op' = [op EXCEPT !.i = @ + 1]
  /\ UNCHANGED <<up, kernel, ruleMap, known, faults, spoiled>>

(* The key is gone whether or not the flush succeeds.                      *)
DeleteFlush ==
  /\ op.kind = "delete"
  /\ op.i > Len(ruleMap[op.key])
  /\ ruleMap' = [ruleMap EXCEPT ![op.key] = <<>>]
  /\ \/ /\ FlushOK
        /\ op' = IF op.touched = {} THEN Idle ELSE [kind |-> "prune", touched |-> op.touched]
        /\ UNCHANGED faults
     \/ FlushFails /\ op' = Idle
  /\ UNCHANGED <<up, ruleRef, known, spoiled>>

(* The end of DeleteSecurityGroups: port maps left without elements are    *)
(* forgotten and deleted, unless a rule still looks them up.  A map whose  *)
(* elements cannot be read is passed over.                                 *)
PruneVmaps ==
  /\ op.kind = "prune"
  /\ \E unread \in SUBSET op.touched :
       LET empty == {m \in op.touched \ unread : \A e \in elems : e.set # m}
           refused == \E x \in nft : Needs(x.rule) \cap empty # {}
       IN /\ known' = known \ empty
          /\ \/ /\ ~ refused
                /\ objs' = objs \ empty
                /\ faults' = IF unread = {} THEN faults ELSE faults + 1
             \/ /\ empty # {}
                /\ UNCHANGED objs
                /\ faults' = faults + 1
  /\ op' = Idle
  /\ UNCHANGED <<up, nft, elems, batch, ruleMap, ruleRef, spoiled>>

---------------------------------------------------------------------------
(* The calls.                                                              *)

Ready(key) == op = Idle /\ up /\ Len(ruleMap[key]) < MaxSaved
Saved(key) == op = Idle /\ up /\ ruleMap[key] # <<>>

(* A new router starts with empty tables of its own, over whatever rules   *)
(* an earlier process or router left in the kernel.                        *)
NewFilterRouter ==
  /\ op = Idle
  /\ up' = TRUE
  /\ batch' = NoBatch
  /\ ruleMap' = [k \in Keys |-> <<>>]
  /\ ruleRef' = [h \in Handles |-> 0]
  /\ known' = {}
  /\ spoiled' = IF nft = {} /\ objs = {} /\ elems = {} THEN spoiled ELSE spoiled \cup {"restart"}
  /\ UNCHANGED <<kernel, op, faults>>

Overlaps(g) ==
  \E k \in GroupKeys :
    /\ ruleMap[k] # <<>>
    /\ k[2] = Signature(g)
    /\ k = SecurityGroupKey(g) \/ k[4] \cap g.ports # {}

SetSecurityGroups(g) ==
  /\ Ready(SecurityGroupKey(g))
  /\ ~ MixedFamilies(g)
  /\ batch' = Queued(GroupObjs(g) \ known, PortElems(g, FamiliesOf(g)), {})
  /\ known' = known \cup GroupObjs(g)
  /\ SaveFilterRules(SecurityGroupKey(g), GroupRules(g))
  /\ spoiled' = spoiled \cup (IF Overlaps(g) THEN {"overlap"} ELSE {})
                        \cup (IF Clobbered(g) /\ g.ports # {} /\ g.icmp # "no" THEN {"alias"} ELSE {})
  /\ UNCHANGED <<up, kernel, ruleMap, ruleRef, faults>>

MutDeleteSecurityGroups(g) ==
  /\ Saved(SecurityGroupKey(g))
  /\ DeleteFilter(SecurityGroupKey(g), {PortVmap(g, f) : f \in FamiliesOf(g)} \cap known)
  /\ UNCHANGED <<up, kernel, ruleMap, ruleRef, known, batch, faults, spoiled>>

(* The ports leave the map whoever else put them there.                    *)
DeleteSecurityGroups(g) ==
  /\ Saved(SecurityGroupKey(g))
  /\ LET fams == {f \in FamiliesOf(g) : PortVmap(g, f) \in known}
     IN /\ batch' = Queued({}, {}, PortElems(g, fams))
        /\ DeleteFilter(SecurityGroupKey(g), {PortVmap(g, f) : f \in fams})
  /\ UNCHANGED <<up, kernel, ruleMap, ruleRef, known, faults, spoiled>>

ForwardPort(f) ==
  /\ Ready(PortForwardKey(f))
  /\ SaveFilterRules(PortForwardKey(f), PortForwardRules(f))
  /\ UNCHANGED <<up, kernel, batch, ruleMap, ruleRef, known, faults, spoiled>>

DeleteForwardPort(f) ==
  /\ Saved(PortForwardKey(f))
  /\ DeleteFilter(PortForwardKey(f), {})
  /\ UNCHANGED <<up, kernel, batch, ruleMap, ruleRef, known, faults, spoiled>>

ForwardTraffic(t) ==
  /\ Ready(TrafficKey(t))
  /\ t.fam = t.dstFam
  /\ SaveFilterRules(TrafficKey(t), TrafficRules(t))
  /\ UNCHANGED <<up, kernel, batch, ruleMap, ruleRef, known, faults, spoiled>>

DeleteForwardTraffic(t) ==
  /\ Saved(TrafficKey(t))
  /\ DeleteFilter(TrafficKey(t), {})
  /\ UNCHANGED <<up, kernel, batch, ruleMap, ruleRef, known, faults, spoiled>>

(* Addresses are queued; only the first call of a list goes on to install  *)
(* its rules, and only that flushes.                                       *)
AddIPs(list, rules, ips) ==
  /\ op = Idle
  /\ up
  /\ batch' = Queued({}, ListElems(list, ips), {})
  /\ IF ruleMap[list] = <<>> THEN SaveFilterRules(list, rules) ELSE UNCHANGED op
  /\ UNCHANGED <<up, kernel, ruleMap, ruleRef, known, faults, spoiled>>

AddIPsToDenyList(ips) == AddIPs(DenyKey, DenyListRules, ips)
AddIPsToAllowList(ips) == AddIPs(AllowKey, AllowListRules, ips)

DeleteIPs(list, ips) ==
  /\ op = Idle
  /\ up
  /\ batch' = Queued({}, {}, ListElems(list, ips))
  /\ op' = [kind |-> "listflush", key |-> list]
  /\ UNCHANGED <<up, kernel, ruleMap, ruleRef, known, faults, spoiled>>

DeleteIPsFromDenyList(ips) == DeleteIPs(DenyKey, ips)
DeleteIPsFromAllowList(ips) == DeleteIPs(AllowKey, ips)

MutListFlush ==
  /\ op.kind = "listflush"
  /\ FlushOK
  /\ op' = Idle
  /\ UNCHANGED <<up, ruleMap, ruleRef, known, faults, spoiled>>

(* Flush, then count what is left; a set that cannot be read counts as     *)
(* empty.  When both families are empty the rules of the list go.          *)
ListFlush ==
  /\ op.kind = "listflush"
  /\ \/ FlushFails /\ op' = Idle
     \/ /\ FlushOK
        /\ \E unread \in SUBSET Families :
             /\ faults' = IF unread = {} THEN faults ELSE faults + 1
             /\ IF /\ ruleMap[op.key] # <<>>
                   /\ \A e \in elems' : e.set = op.key => FamilyOf[e.key] \in unread
                THEN DeleteFilter(op.key, {})
                ELSE op' = Idle
  /\ UNCHANGED <<up, ruleMap, ruleRef, known, spoiled>>

(* Only the tables and chains are dropped, with all they hold in the       *)
(* kernel; ruleMap, ruleRef and the caches stay.                           *)
Clear ==
  /\ op = Idle
  /\ up
  /\ up' = FALSE
  /\ batch' = NoBatch
  /\ \/ nft' = {} /\ objs' = {} /\ elems' = {} /\ UNCHANGED faults
     \/ UNCHANGED kernel /\ faults' = faults + 1
  /\ UNCHANGED <<ruleMap, ruleRef, known, op, spoiled>>

Init ==
  /\ up = FALSE
  /\ nft = {}
  /\ objs = {}
  /\ elems = {}
  /\ batch = NoBatch
  /\ ruleMap = [k \in Keys |-> <<>>]
  /\ ruleRef = [h \in Handles |-> 0]
  /\ known = {}
  /\ op = Idle
  /\ faults = 0
  /\ spoiled = {}

Save == GetRulesFails \/ SaveLookup \/ SaveFlush \/ SaveRef \/ SaveDone
Delete == DeleteRule \/ DeleteFlush \/ PruneVmaps

Next ==
  \/ NewFilterRouter
  \/ Save
  \/ Delete
  \/ ListFlush
  \/ Clear
  \/ \E g \in Groups : SetSecurityGroups(g) \/ DeleteSecurityGroups(g)
  \/ \E f \in PortForwards : ForwardPort(f) \/ DeleteForwardPort(f)
  \/ \E t \in Traffics : ForwardTraffic(t) \/ DeleteForwardTraffic(t)
  \/ \E ips \in (SUBSET IPs) \ {{}} :
       \/ AddIPsToDenyList(ips)
       \/ AddIPsToAllowList(ips)
       \/ DeleteIPsFromDenyList(ips)
       \/ DeleteIPsFromAllowList(ips)

Spec == Init /\ [][Next]_vars

---------------------------------------------------------------------------
(* Properties.                                                             *)

(* Who holds references: the positions of ruleMap, with the rules a save   *)
(* has counted but not yet appended and without those a delete has given   *)
(* up.                                                                     *)
Entries(k) == IF op.kind = "ref" /\ k = op.key THEN ruleMap[k] \o op.saved ELSE ruleMap[k]
Live(k) == {i \in DOMAIN Entries(k) : op.kind = "delete" /\ k = op.key => i >= op.i}
Positions == UNION {{<<k, i>> : i \in Live(k)} : k \in Keys}
Holders(h) == {p \in Positions : Entries(p[1])[p[2]].handle = h}

Entry == [handle : Handles, rule : Rules]
SaveCall == [kind : {"lookup", "ref"}, key : Keys, todo : Seq(Rules), i : Nat \ {0}, saved : Seq(Entry)]
DeleteCall == [kind : {"delete"}, key : Keys, i : Nat \ {0}, touched : SUBSET Objects]
PruneCall == [kind : {"prune"}, touched : SUBSET Objects]
ListCall == [kind : {"listflush"}, key : {DenyKey, AllowKey}]

(* Type invariant.                                                         *)
TypeOK ==
  /\ up \in BOOLEAN
  /\ nft \subseteq Handles
  /\ batch.rules \cup batch.delRules \subseteq Handles
  /\ batch.objs \cup known \cup objs \subseteq Objects
  /\ ruleMap \in [Keys -> Seq(Entry)]
  /\ ruleRef \in [Handles -> Int]
  /\ op \in {Idle} \cup SaveCall \cup DeleteCall \cup PruneCall \cup ListCall
  /\ faults \in Nat
  /\ spoiled \subseteq Spoilers

(* A rule some key still needs is in the kernel, as that key wrote it, and *)
(* its count covers every key that needs it: deleting one filter never     *)
(* deletes a rule another one shares, whatever calls fail on the way and   *)
(* whatever an earlier router left behind.                                 *)
SharedRulesStay ==
  up /\ "race" \notin spoiled =>
    \A p \in Positions :
      LET x == Entries(p[1])[p[2]]
      IN /\ x.handle \in nft
         /\ x.handle.rule = x.rule
         /\ ruleRef[x.handle] >= Cardinality(Holders(x.handle))

(* While nothing has gone wrong the counts are exact, so that the last     *)
(* delete of a rule removes it: between calls the kernel holds exactly the *)
(* rules that some key needs, each once.                                   *)
NoOrphans ==
  spoiled = {} /\ faults = 0 /\ op = Idle /\ up =>
    /\ \A h \in Handles : ruleRef[h] = Cardinality(Holders(h))
    /\ nft = {h \in Handles : Holders(h) # {}}
    /\ \A x, y \in nft : x.rule = y.rule => x = y

(* Between calls a port map holds exactly the ports of the groups in force *)
(* that use it, and exists only while it has some, as long as no call to   *)
(* the kernel failed and no two groups in force had a port of a map in     *)
(* common.                                                                 *)
PortsExact ==
  spoiled \cap {"race", "overlap", "restart"} = {} /\ faults = 0 /\ op = Idle /\ up =>
    \A f \in Families, s \in {Signature(g) : g \in Groups} :
      LET m == <<"vmap", f, s>>
          inForce == {k \in GroupKeys : k[2] = s /\ ruleMap[k] # <<>>}
          wanted == UNION {k[4] : k \in {j \in inForce : \E i \in DOMAIN ruleMap[j] : ruleMap[j][i].rule.fam = f}}
      IN /\ {e.key : e \in {d \in elems : d.set = m}} = wanted
         /\ m \in objs <=> wanted # {}

(* The rules of a list are in force exactly while it has addresses, in the *)
(* kernel or queued: the allow list never drops everything because it ran  *)
(* empty, the deny list never stands without the rule that consults it.    *)
ListRulesMatch ==
  spoiled \cap {"race", "restart"} = {} /\ faults = 0 /\ op = Idle /\ up =>
    \A list \in {DenyKey, AllowKey} :
      ruleMap[list] # <<>> <=> \E e \in elems \cup batch.add : e.set = list

(* Every group in force with ICMP among its ports has its ICMP rule in the *)
(* kernel (the comment of SetSecurityGroups: "For icmp protocol create     *)
(* rule with accept or deny").                                             *)
IcmpRulePresent ==
  spoiled \subseteq {"alias"} /\ faults = 0 /\ op = Idle /\ up =>
    \A g \in Groups :
      g.icmp # "no" /\ ruleMap[SecurityGroupKey(g)] # <<>> =>
        \A f \in FamiliesOf(g) : \E x \in nft : x.rule = IcmpRule(g, f)

===========================================================================
