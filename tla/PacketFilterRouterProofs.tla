---------------------- MODULE PacketFilterRouterProofs ----------------------
(* Proofs about PacketFilterRouter, for every set of groups, forwards and  *)
(* addresses and every number of failed kernel calls: the type invariant,  *)
(* that a rule some key needs is never deleted, that nothing is left       *)
(* behind while nothing fails, and that the rules of the IP lists match    *)
(* their addresses.                                                        *)
EXTENDS PacketFilterRouter, Facts

(* A leaf that names no prover is tried with these, in turn *)
USE SMT, Zenon, Z3, SMTT(10)

(* Lists of one and of two elements are sequences.                         *)
LEMMA ShortSeqs ==
  ASSUME NEW S, NEW x \in S, NEW y \in S
  PROVE  /\ <<x>> \in Seq(S)
         /\ <<x, y>> \in Seq(S)
OBVIOUS

(* Every rule list a call saves is a sequence of rules.                    *)
LEMMA ListsTyped ==
  /\ \A g \in Groups : GroupRules(g) \in Seq(Rules)
  /\ \A f \in PortForwards : PortForwardRules(f) \in Seq(Rules)
  /\ \A t \in Traffics : TrafficRules(t) \in Seq(Rules)
  /\ DenyListRules \in Seq(Rules)
  /\ AllowListRules \in Seq(Rules)
<1>1. ASSUME NEW l \in RuleLists, NEW S, l \in Seq(S)
      PROVE  l \in Seq(Rules)
  <2>1. \A i \in 1 .. Len(l) : l[i] \in Rules
    BY <1>1 DEF Rules
  <2>2. /\ Len(l) \in Nat
        /\ DOMAIN l = 1 .. Len(l)
        /\ l = [i \in 1 .. Len(l) |-> l[i]]
    BY <1>1
  <2> QED
    BY <2>1, <2>2, SeqFunction
<1>2. ASSUME NEW g \in Groups
      PROVE  GroupRules(g) \in Seq(Rules)
  <2> DEFINE A(f) == {GroupRule(g, f, "all", Verdict(g), <<>>), IcmpRule(g, f), VmapRule(g, f)}
             S == A("ip4") \cup A("ip6")
  <2>1. \A f \in {"ip4", "ip6"} : FamilyRules(g, f) \in Seq(S)
    <3> SUFFICES ASSUME NEW f \in {"ip4", "ip6"} PROVE FamilyRules(g, f) \in Seq(S)
      OBVIOUS
    <3> DEFINE a == GroupRule(g, f, "all", Verdict(g), <<>>)
               c == IcmpRule(g, f)
               v == VmapRule(g, f)
    <3>1. a \in S /\ c \in S /\ v \in S
      OBVIOUS
    <3>2. FamilyRules(g, f) \in {<<a>>, <<c>>, <<v>>, <<v, v>>, <<c, v>>, <<c, c>>, <<v, c>>}
      <4>1. CASE g.ports = {}
        BY <4>1 DEF FamilyRules
      <4>2. CASE g.ports # {} /\ g.icmp = "no"
        BY <4>2 DEF FamilyRules
      <4>3. CASE g.ports # {} /\ g.icmp = "first"
        BY <4>3 DEF FamilyRules
      <4>4. CASE g.ports # {} /\ g.icmp # "no" /\ g.icmp # "first"
        BY <4>4 DEF FamilyRules
      <4> QED
        BY <4>1, <4>2, <4>3, <4>4
    <3> HIDE DEF a, c, v, S
    <3>3. \A x, y \in S : <<x>> \in Seq(S) /\ <<x, y>> \in Seq(S)
      BY ShortSeqs
    <3>4. /\ <<a>> \in Seq(S) /\ <<c>> \in Seq(S) /\ <<v>> \in Seq(S)
          /\ <<v, v>> \in Seq(S) /\ <<c, v>> \in Seq(S)
          /\ <<c, c>> \in Seq(S) /\ <<v, c>> \in Seq(S)
      BY <3>1, <3>3
    <3> QED
      BY <3>2, <3>4, Zenon
  <2>2. GroupRules(g) \in Seq(S)
    <3> HIDE DEF S
    <3> QED
      BY <2>1 DEF GroupRules
  <2>3. GroupRules(g) \in RuleLists
    BY DEF RuleLists
  <2> QED
    BY <1>1, <2>2, <2>3
<1>3. ASSUME NEW f \in PortForwards
      PROVE  PortForwardRules(f) \in Seq(Rules)
  <2>1. PICK a, b, c : PortForwardRules(f) = <<a, b, c>>
    BY DEF PortForwardRules
  <2>2. PortForwardRules(f) \in Seq({a, b, c})
    BY <2>1
  <2> QED
    BY <1>1, <2>2 DEF RuleLists
<1>4. ASSUME NEW t \in Traffics
      PROVE  TrafficRules(t) \in Seq(Rules)
  <2> DEFINE dst == IF t.dst = World THEN None ELSE t.dst
             a == Rule(t.fam, <<"forward">>, t.iif, t.src, t.oif, dst, "all", "accept", <<>>)
             b == Rule(t.fam, <<"nat_postrouting">>, None, t.src, t.oif, dst, "all", "masq", <<>>)
  <2>1. TrafficRules(t) = <<a>> \o (IF t.nat THEN <<b>> ELSE <<>>)
    BY DEF TrafficRules
  <2> HIDE DEF a, b
  <2>2. TrafficRules(t) \in Seq({a, b})
    <3>1. <<a>> \in Seq({a, b}) /\ <<b>> \in Seq({a, b}) /\ <<>> \in Seq({a, b})
      BY ShortSeqs
    <3>2. CASE t.nat
      BY <2>1, <3>1, <3>2, SeqConcat
    <3>3. CASE ~ t.nat
      BY <2>1, <3>1, <3>3, SeqConcat
    <3> QED
      BY <3>2, <3>3
  <2> QED
    BY <1>1, <2>2 DEF RuleLists
<1>5. DenyListRules \in Seq(Rules)
  <2>1. DenyListRules \in Seq({DenyListRules[i] : i \in 1 .. 2})
    BY SeqFunction DEF DenyListRules
  <2> QED
    BY <1>1, <2>1 DEF RuleLists
<1>6. AllowListRules \in Seq(Rules)
  <2>1. AllowListRules \in Seq({AllowListRules[i] : i \in 1 .. 4})
    BY SeqFunction DEF AllowListRules
  <2> QED
    BY <1>1, <2>1 DEF RuleLists
<1> QED
  BY <1>2, <1>3, <1>4, <1>5, <1>6

---------------------------------------------------------------------------
(* The inductive invariant.                                                *)

BatchShape ==
  batch = [objs |-> batch.objs, add |-> batch.add, rules |-> batch.rules,
           del |-> batch.del, delRules |-> batch.delRules]

(* A count covers the holders it counts.                                   *)
Counted == \A h \in Handles : ruleRef[h] >= Cardinality(Holders(h))

(* A rule queued for deletion has no holder left.                          *)
Unneeded == \A h \in batch.delRules : Holders(h) = {}

OnlyDeleting == op.kind # "delete" => batch.delRules = {}

Installed ==
  up /\ "race" \notin spoiled =>
    \A p \in Positions :
      /\ Entries(p[1])[p[2]].handle \in nft
      /\ Entries(p[1])[p[2]].handle.rule = Entries(p[1])[p[2]].rule

IInv ==
  /\ TypeOK
  /\ BatchShape
  /\ IsFiniteSet(Positions)
  /\ Counted
  /\ Unneeded
  /\ OnlyDeleting
  /\ Installed

(* The shape of op by its kind.                                            *)
LEMMA OpShape ==
  ASSUME TypeOK
  PROVE  /\ op.kind \in {"lookup", "ref"} => op \in SaveCall
         /\ op.kind = "delete" => op \in DeleteCall
         /\ op.kind = "prune" => op \in PruneCall
         /\ op.kind = "listflush" => op \in ListCall
         /\ op.kind = "idle" => op = Idle
         /\ op.kind \in {"idle", "lookup", "ref", "delete", "prune", "listflush"}
BY DEF TypeOK, SaveCall, DeleteCall, PruneCall, ListCall, Idle

(* Entries are sequences of typed entries.                                 *)
LEMMA EntriesTyped ==
  ASSUME TypeOK, NEW k \in Keys
  PROVE  Entries(k) \in Seq(Entry)
<1>1. ruleMap[k] \in Seq(Entry)
  BY DEF TypeOK
<1>2. CASE op.kind = "ref" /\ k = op.key
  <2>1. op.saved \in Seq(Entry)
    BY <1>2, OpShape DEF SaveCall
  <2> QED
    BY <1>1, <1>2, <2>1, SeqConcat DEF Entries
<1>3. CASE ~ (op.kind = "ref" /\ k = op.key)
  BY <1>1, <1>3 DEF Entries
<1> QED
  BY <1>2, <1>3

(* Membership in Positions, spelled out.                                   *)
LEMMA PositionsAre ==
  /\ \A k \in Keys : \A i \in Live(k) : <<k, i>> \in Positions
  /\ \A p \in Positions : p = <<p[1], p[2]>> /\ p[1] \in Keys /\ p[2] \in Live(p[1])
BY DEF Positions

(* A step that keeps or drops positions and leaves the counts alone keeps  *)
(* them covered.                                                           *)
LEMMA Shrinks ==
  ASSUME FiniteFacts, IInv, TypeOK',
         \A p \in Positions' : p \in Positions /\ Entries(p[1])'[p[2]] = Entries(p[1])[p[2]]
  PROVE  /\ IsFiniteSet(Positions')
         /\ \A h : Holders(h)' \subseteq Holders(h)
         /\ \A h : Cardinality(Holders(h)') <= Cardinality(Holders(h))
         /\ ruleRef' = ruleRef => Counted'
         /\ batch'.delRules \subseteq batch.delRules => Unneeded'
         /\ (up' => up) /\ spoiled \subseteq spoiled' /\ (nft \ batch.delRules) \subseteq nft' => Installed'
<1>1. IsFiniteSet(Positions) /\ Positions' \subseteq Positions
  BY DEF IInv
<1>2. IsFiniteSet(Positions')
  BY <1>1, CountSubset
<1>3. \A h : Holders(h)' \subseteq Holders(h)
  BY DEF Holders
<1>4. \A h : IsFiniteSet(Holders(h))
  BY <1>1, CountSubset DEF Holders
<1>5. \A h : Cardinality(Holders(h)') <= Cardinality(Holders(h))
  BY <1>3, <1>4, CountSubset
<1>6. ASSUME ruleRef' = ruleRef
      PROVE  Counted'
  <2> SUFFICES ASSUME NEW h \in Handles
               PROVE  ruleRef'[h] >= Cardinality(Holders(h)')
    BY DEF Counted
  <2>1. ruleRef[h] \in Int /\ ruleRef[h] >= Cardinality(Holders(h))
    BY DEF IInv, Counted, TypeOK
  <2>2. Cardinality(Holders(h)) \in Nat /\ Cardinality(Holders(h)') \in Nat
    BY <1>3, <1>4, CountSubset
  <2> QED
    BY <1>5, <1>6, <2>1, <2>2
<1>7. ASSUME batch'.delRules \subseteq batch.delRules
      PROVE  Unneeded'
  BY <1>3, <1>7 DEF IInv, Unneeded
<1>8. ASSUME up' => up, spoiled \subseteq spoiled', (nft \ batch.delRules) \subseteq nft'
      PROVE  Installed'
  <2> SUFFICES ASSUME up', "race" \notin spoiled', NEW p \in Positions'
               PROVE  /\ Entries(p[1])'[p[2]].handle \in nft'
                      /\ Entries(p[1])'[p[2]].handle.rule = Entries(p[1])'[p[2]].rule
    BY DEF Installed
  <2> DEFINE x == Entries(p[1])[p[2]]
  <2>1. p \in Positions /\ Entries(p[1])'[p[2]] = x
    OBVIOUS
  <2>2. x.handle \in nft /\ x.handle.rule = x.rule
    BY <1>8, <2>1 DEF IInv, Installed
  <2>3. p \in Holders(x.handle)
    BY <2>1 DEF Holders
  <2>4. x.handle \notin batch.delRules
    BY <2>3 DEF IInv, Unneeded
  <2> HIDE DEF x
  <2> QED
    BY <1>8, <2>1, <2>2, <2>4
<1> QED
  BY <1>2, <1>3, <1>5, <1>6, <1>7, <1>8

(* What a save under way is made of.                                       *)
LEMMA SavingTyped ==
  ASSUME NEW kd \in {"lookup", "ref"}, NEW k \in Keys, NEW l \in Seq(Rules),
         NEW n \in Nat \ {0}, NEW s \in Seq(Entry)
  PROVE  Saving(kd, k, l, n, s) \in SaveCall
BY DEF Saving, SaveCall

(* Every step keeps the types; one case per action.                        *)
LEMMA TypesKept ==
  ASSUME TypeOK, BatchShape, [Next]_vars
  PROVE  TypeOK' /\ BatchShape'
<1> DEFINE OpType == {Idle} \cup SaveCall \cup DeleteCall \cup PruneCall \cup ListCall
<1>a. OpType' = OpType /\ Objects' = Objects /\ Keys' = Keys /\ Handles' = Handles
  OBVIOUS
<1>1. CASE UNCHANGED vars
  BY <1>1 DEF vars, TypeOK, BatchShape
<1>2. CASE NewFilterRouter
  <2>1. <<>> \in Seq(Entry)
    BY SeqEmpty
  <2>2. ruleMap' \in [Keys -> Seq(Entry)] /\ ruleRef' \in [Handles -> Int]
    BY <1>2, <2>1 DEF NewFilterRouter
  <2> QED
    BY <1>2, <2>2 DEF NewFilterRouter, TypeOK, BatchShape, NoBatch, kernel, Spoilers
<1>3. CASE GetRulesFails
  BY <1>3 DEF GetRulesFails, TypeOK, BatchShape, kernel
<1>4. CASE SaveLookup
  <2>1. op \in SaveCall
    BY <1>4, OpShape DEF SaveLookup
  <2>2. op' \in SaveCall
    <3>1. op' = [op EXCEPT !.i = @ + 1] /\ op.i + 1 \in Nat \ {0}
      BY <1>4, <2>1 DEF SaveLookup, SaveCall
    <3> QED
      BY <2>1, <3>1 DEF SaveCall
  <2>3. /\ batch'.rules \cup batch'.delRules \subseteq Handles
        /\ batch'.objs = batch.objs
        /\ BatchShape'
    BY <1>4 DEF SaveLookup, TypeOK, BatchShape
  <2>4. spoiled' \subseteq Spoilers
    BY <1>4 DEF SaveLookup, Looked, TypeOK, Spoilers
  <2> QED
    BY <1>4, <2>2, <2>3, <2>4 DEF SaveLookup, TypeOK, kernel
<1>f. ASSUME FlushOK \/ FlushFails
      PROVE  /\ nft' \subseteq Handles
             /\ batch'.rules \cup batch'.delRules \subseteq Handles
             /\ batch'.objs \cup objs' \subseteq Objects
             /\ BatchShape'
  BY <1>f DEF FlushOK, FlushFails, NoBatch, TypeOK, BatchShape, kernel
<1>5. CASE SaveFlush
  <2>1. op \in SaveCall
    BY <1>5, OpShape DEF SaveFlush
  <2>2. op' \in SaveCall \/ op' = Idle
    <3>1. op' = Idle \/ op' = Saving("ref", op.key, op.todo, 1, <<>>)
      BY <1>5 DEF SaveFlush
    <3>2. Saving("ref", op.key, op.todo, 1, <<>>) \in SaveCall
      <4>1. op.key \in Keys /\ op.todo \in Seq(Rules)
        BY <2>1 DEF SaveCall
      <4>2. <<>> \in Seq(Entry)
        BY SeqEmpty
      <4>3. "ref" \in {"lookup", "ref"} /\ 1 \in Nat \ {0}
        OBVIOUS
      <4> QED
        BY ZenonT(60), <4>1, <4>2, <4>3, SavingTyped
    <3> QED
      BY <3>1, <3>2
  <2>3. faults' \in Nat
    BY <1>5 DEF SaveFlush, FlushFails, TypeOK
  <2>4. FlushOK \/ FlushFails
    BY <1>5 DEF SaveFlush
  <2> QED
    BY <1>5, <1>f, <2>2, <2>3, <2>4 DEF SaveFlush, TypeOK
<1>6. CASE SaveRef
  <2>1. op \in SaveCall
    BY <1>6, OpShape DEF SaveRef
  <2>2. PICK found \in FindRuleInList(op.todo[op.i]) :
          /\ Looked(op.todo[op.i], found)
          /\ IF found = NoRule
             THEN op' = Idle /\ UNCHANGED ruleRef
             ELSE /\ op' = Saving("ref", op.key, op.todo, op.i + 1,
                                  Append(op.saved, [handle |-> found, rule |-> op.todo[op.i]]))
                  /\ ruleRef' = [ruleRef EXCEPT ![found] = @ + 1]
    BY <1>6 DEF SaveRef
  <2>3. spoiled' \subseteq Spoilers
    BY <2>2 DEF Looked, TypeOK, Spoilers
  <2>4. ruleRef' \in [Handles -> Int]
    BY <2>2 DEF TypeOK
  <2>5. op' \in SaveCall \/ op' = Idle
    <3>1. CASE found = NoRule
      BY <2>2, <3>1
    <3>2. CASE found # NoRule
      <4>1. found \in Handles
        BY <2>2, <3>2 DEF FindRuleInList, Exact, Matches, Listed, TypeOK
      <4>2. op.todo[op.i] \in Rules
        BY <1>6, <2>1, SeqElement DEF SaveRef, SaveCall
      <4>3. [handle |-> found, rule |-> op.todo[op.i]] \in Entry
        BY <4>1, <4>2 DEF Entry
      <4>4. Append(op.saved, [handle |-> found, rule |-> op.todo[op.i]]) \in Seq(Entry)
        BY <2>1, <4>3, SeqAppend DEF SaveCall
      <4> DEFINE s == Append(op.saved, [handle |-> found, rule |-> op.todo[op.i]])
      <4>5. op' = Saving("ref", op.key, op.todo, op.i + 1, s)
        BY <2>2, <3>2
      <4>6. s \in Seq(Entry)
        BY <4>4
      <4>7. op.i + 1 \in Nat \ {0} /\ op.key \in Keys /\ op.todo \in Seq(Rules)
        BY <2>1 DEF SaveCall
      <4> HIDE DEF s
      <4> QED
        BY <2>1, <4>5, <4>6, <4>7, SavingTyped
    <3> QED
      BY <3>1, <3>2
  <2> QED
    BY <1>6, <2>3, <2>4, <2>5 DEF SaveRef, TypeOK, BatchShape, kernel
<1>7. CASE SaveDone
  <2>1. op \in SaveCall
    BY <1>7, OpShape DEF SaveDone
  <2>2. ruleMap[op.key] \o op.saved \in Seq(Entry)
    BY <2>1, SeqConcat DEF SaveCall, TypeOK
  <2>3. ruleMap' \in [Keys -> Seq(Entry)]
    BY <1>7, <2>1, <2>2 DEF SaveDone, SaveCall, TypeOK
  <2> QED
    BY <1>7, <2>3 DEF SaveDone, TypeOK, BatchShape, kernel
<1>8. CASE DeleteRule
  <2>1. op \in DeleteCall
    BY <1>8, OpShape DEF DeleteRule
  <2>2. op' \in DeleteCall
    BY <1>8, <2>1 DEF DeleteRule, DeleteCall
  <2> DEFINE h == ruleMap[op.key][op.i].handle
  <2>3. h \in Handles
    <3>1. ruleMap[op.key] \in Seq(Entry) /\ op.i \in 1 .. Len(ruleMap[op.key])
      BY <1>8, <2>1 DEF DeleteRule, DeleteCall, TypeOK
    <3>2. ruleMap[op.key][op.i] \in Entry
      BY <3>1, SeqElement
    <3> QED
      BY <3>2 DEF Entry
  <2>4. ruleRef' \in [Handles -> Int]
    BY <1>8, <2>3 DEF DeleteRule, TypeOK
  <2>5. /\ batch'.rules \cup batch'.delRules \subseteq Handles
        /\ batch'.objs = batch.objs
        /\ BatchShape'
    BY <1>8, <2>3, Zenon DEF DeleteRule, TypeOK, BatchShape
  <2> QED
    BY <1>8, <2>2, <2>4, <2>5, Zenon DEF DeleteRule, TypeOK, kernel
<1>9. CASE DeleteFlush
  <2>1. op \in DeleteCall
    BY <1>9, OpShape DEF DeleteFlush
  <2>2. op' \in PruneCall \/ op' = Idle
    BY <1>9, <2>1 DEF DeleteFlush, DeleteCall, PruneCall
  <2>3. faults' \in Nat
    BY <1>9 DEF DeleteFlush, FlushFails, TypeOK
  <2>4. FlushOK \/ FlushFails
    BY <1>9 DEF DeleteFlush
  <2>5. <<>> \in Seq(Entry)
    BY SeqEmpty
  <2>6. ruleMap' \in [Keys -> Seq(Entry)]
    BY <1>9, <2>5, Zenon DEF DeleteFlush, TypeOK
  <2> QED
    BY <1>9, <1>f, <2>2, <2>3, <2>4, <2>6 DEF DeleteFlush, TypeOK
<1>10. CASE PruneVmaps
  <2>1. objs' \subseteq Objects /\ known' \subseteq Objects /\ faults' \in Nat
    BY <1>10 DEF PruneVmaps, TypeOK
  <2> QED
    BY <1>10, <2>1 DEF PruneVmaps, TypeOK, BatchShape
<1>s. ASSUME NEW k \in Keys, NEW l \in Seq(Rules), SaveFilterRules(k, l)
      PROVE  op' \in SaveCall
  <2>1. <<>> \in Seq(Entry) /\ "lookup" \in {"lookup", "ref"} /\ 1 \in Nat \ {0}
    BY SeqEmpty
  <2> QED
    BY ZenonT(60), <1>s, <2>1, SavingTyped DEF SaveFilterRules
<1>d. ASSUME NEW k \in Keys, NEW t \in SUBSET Objects, DeleteFilter(k, t)
      PROVE  op' \in DeleteCall
  BY <1>d DEF DeleteFilter, DeleteCall
<1>q. ASSUME NEW o \in SUBSET Objects, NEW a, NEW d, batch' = Queued(o, a, d)
      PROVE  /\ batch'.rules = batch.rules /\ batch'.delRules = batch.delRules
             /\ batch'.objs \subseteq Objects
             /\ BatchShape'
  BY <1>q DEF Queued, BatchShape, TypeOK
<1>k. DenyKey \in Keys /\ AllowKey \in Keys
  BY DEF Keys
<1>11. ASSUME NEW g \in Groups, SetSecurityGroups(g)
       PROVE  TypeOK' /\ BatchShape'
  <2>1. op' \in SaveCall
    BY <1>11, <1>s, ListsTyped, ZenonT(60) DEF SetSecurityGroups, Keys, GroupKeys
  <2>2. GroupObjs(g) \subseteq Objects
    BY DEF Objects
  <2>3. spoiled' \subseteq Spoilers
    BY <1>11 DEF SetSecurityGroups, TypeOK, Spoilers
  <2>4. /\ batch'.rules = batch.rules /\ batch'.delRules = batch.delRules
        /\ batch'.objs \subseteq Objects
        /\ BatchShape'
    BY <1>11, <1>q, <2>2 DEF SetSecurityGroups
  <2> QED
    BY ZenonT(60), <1>11, <2>1, <2>2, <2>3, <2>4 DEF SetSecurityGroups, TypeOK, kernel
<1>12. ASSUME NEW g \in Groups, DeleteSecurityGroups(g)
       PROVE  TypeOK' /\ BatchShape'
  <2> DEFINE fams == {f \in FamiliesOf(g) : PortVmap(g, f) \in known}
             t == {PortVmap(g, f) : f \in fams}
  <2>1. t \subseteq Objects
    BY DEF TypeOK
  <2>2. DeleteFilter(SecurityGroupKey(g), t) /\ batch' = Queued({}, {}, PortElems(g, fams))
    BY <1>12 DEF DeleteSecurityGroups
  <2>3. SecurityGroupKey(g) \in Keys
    BY DEF Keys, GroupKeys
  <2> HIDE DEF t, fams
  <2>4. op' \in DeleteCall
    BY <1>d, <2>1, <2>2, <2>3
  <2>5. /\ batch'.rules = batch.rules /\ batch'.delRules = batch.delRules
        /\ batch'.objs \subseteq Objects
        /\ BatchShape'
    BY <1>q, <2>2
  <2> QED
    BY <1>12, <2>4, <2>5, Zenon DEF DeleteSecurityGroups, TypeOK, kernel
<1>13. ASSUME NEW f \in PortForwards, ForwardPort(f)
       PROVE  TypeOK' /\ BatchShape'
  <2>1. op' \in SaveCall
    BY <1>13, <1>s, ListsTyped, Zenon DEF ForwardPort, Keys
  <2> QED
    BY <1>13, <2>1 DEF ForwardPort, TypeOK, BatchShape, kernel
<1>14. ASSUME NEW f \in PortForwards, DeleteForwardPort(f)
       PROVE  TypeOK' /\ BatchShape'
  <2>1. op' \in DeleteCall
    BY <1>14, <1>d DEF DeleteForwardPort, Keys
  <2> QED
    BY <1>14, <2>1 DEF DeleteForwardPort, TypeOK, BatchShape, kernel
<1>15. ASSUME NEW t \in Traffics, ForwardTraffic(t)
       PROVE  TypeOK' /\ BatchShape'
  <2>1. op' \in SaveCall
    BY <1>15, <1>s, ListsTyped DEF ForwardTraffic, Keys
  <2> QED
    BY <1>15, <2>1 DEF ForwardTraffic, TypeOK, BatchShape, kernel
<1>16. ASSUME NEW t \in Traffics, DeleteForwardTraffic(t)
       PROVE  TypeOK' /\ BatchShape'
  <2>1. op' \in DeleteCall
    BY <1>16, <1>d DEF DeleteForwardTraffic, Keys
  <2> QED
    BY <1>16, <2>1 DEF DeleteForwardTraffic, TypeOK, BatchShape, kernel
<1>17. ASSUME NEW k \in {DenyKey, AllowKey}, NEW l \in Seq(Rules), NEW ips, AddIPs(k, l, ips)
       PROVE  TypeOK' /\ BatchShape'
  <2>1. op' \in SaveCall \/ op' = op
    BY <1>17, <1>k, <1>s DEF AddIPs
  <2>2. /\ batch'.rules = batch.rules /\ batch'.delRules = batch.delRules
        /\ batch'.objs \subseteq Objects
        /\ BatchShape'
    BY <1>17, <1>q DEF AddIPs
  <2> QED
    BY <1>17, <2>1, <2>2 DEF AddIPs, TypeOK, kernel
<1>18. ASSUME NEW k \in {DenyKey, AllowKey}, NEW ips, DeleteIPs(k, ips)
       PROVE  TypeOK' /\ BatchShape'
  <2>1. op' \in ListCall
    BY <1>18 DEF DeleteIPs, ListCall
  <2>2. /\ batch'.rules = batch.rules /\ batch'.delRules = batch.delRules
        /\ batch'.objs \subseteq Objects
        /\ BatchShape'
    BY <1>18, <1>q DEF DeleteIPs
  <2> QED
    BY <1>18, <2>1, <2>2 DEF DeleteIPs, TypeOK, kernel
<1>19. CASE ListFlush
  <2>1. op.key \in Keys
    BY <1>19, <1>k, OpShape DEF ListFlush, ListCall
  <2>2. op' \in DeleteCall \/ op' = Idle
    <3>1. op' = Idle \/ DeleteFilter(op.key, {})
      BY <1>19 DEF ListFlush
    <3> QED
      BY <1>d, <2>1, <3>1
  <2>3. faults' \in Nat
    BY <1>19 DEF ListFlush, FlushFails, TypeOK
  <2>4. FlushOK \/ FlushFails
    BY <1>19 DEF ListFlush
  <2> QED
    BY <1>19, <1>f, <2>2, <2>3, <2>4 DEF ListFlush, TypeOK
<1>20. CASE Clear
  <2>1. nft' \subseteq Handles /\ objs' \subseteq Objects /\ faults' \in Nat
    BY <1>20 DEF Clear, TypeOK, kernel
  <2>2. batch'.rules = {} /\ batch'.delRules = {} /\ batch'.objs = {} /\ BatchShape'
    BY <1>20 DEF Clear, NoBatch, BatchShape
  <2> QED
    BY <1>20, <2>1, <2>2, Zenon DEF Clear, TypeOK
<1>21. ASSUME NEW ips, AddIPsToDenyList(ips) \/ AddIPsToAllowList(ips)
       PROVE  TypeOK' /\ BatchShape'
  BY <1>17, <1>21, ListsTyped DEF AddIPsToDenyList, AddIPsToAllowList
<1>22. ASSUME NEW ips, DeleteIPsFromDenyList(ips) \/ DeleteIPsFromAllowList(ips)
       PROVE  TypeOK' /\ BatchShape'
  BY <1>18, <1>22 DEF DeleteIPsFromDenyList, DeleteIPsFromAllowList
<1>23. CASE Save \/ Delete
  BY <1>3, <1>4, <1>5, <1>6, <1>7, <1>8, <1>9, <1>10, <1>23 DEF Save, Delete
<1> QED
  BY <1>1, <1>2, <1>11, <1>12, <1>13, <1>14, <1>15, <1>16, <1>19, <1>20, <1>21, <1>22, <1>23
     DEF Next

---------------------------------------------------------------------------
(* The steps that neither count nor uncount a reference: they leave        *)
(* ruleMap alone, and what a save had counted may be lost.                 *)
LEMMA QuietShrinks ==
  ASSUME TypeOK, TypeOK', ruleMap' = ruleMap, op.kind # "delete",
         op'.kind = "ref" => op'.saved = <<>>
  PROVE  \A p \in Positions' : p \in Positions /\ Entries(p[1])'[p[2]] = Entries(p[1])[p[2]]
<1> SUFFICES ASSUME NEW p \in Positions'
             PROVE  p \in Positions /\ Entries(p[1])'[p[2]] = Entries(p[1])[p[2]]
  OBVIOUS
<1> DEFINE k == p[1]
           i == p[2]
<1>1. p = <<k, i>> /\ k \in Keys /\ i \in Live(k)'
  BY DEF Positions
<1>2. ruleMap[k] \in Seq(Entry)
  BY <1>1 DEF TypeOK
<1>3. Entries(k)' = ruleMap[k]
  <2>1. ruleMap[k] \o <<>> = ruleMap[k]
    BY <1>2, SeqConcatEmpty
  <2> QED
    BY <2>1, Zenon DEF Entries
<1>4. i \in DOMAIN ruleMap[k]
  BY <1>1, <1>3 DEF Live
<1>5. i \in DOMAIN Entries(k) /\ Entries(k)[i] = ruleMap[k][i]
  <2>1. CASE op.kind = "ref" /\ k = op.key
    <3>1. op.saved \in Seq(Entry)
      BY <2>1, OpShape DEF SaveCall
    <3>2. Entries(k) = ruleMap[k] \o op.saved
      BY <2>1 DEF Entries
    <3>3. i \in 1 .. Len(ruleMap[k])
      BY <1>2, <1>4
    <3> DEFINE a == ruleMap[k]
               b == op.saved
    <3>4. a \in Seq(Entry) /\ b \in Seq(Entry) /\ i \in 1 .. Len(a)
      BY <1>2, <3>1, <3>3
    <3> HIDE DEF a, b
    <3>5. i \in DOMAIN (a \o b) /\ (a \o b)[i] = a[i]
      BY <3>4
    <3> QED
      BY <3>2, <3>5, Zenon DEF a, b
  <2>2. CASE ~ (op.kind = "ref" /\ k = op.key)
    BY ZenonT(60), <1>4, <2>2 DEF Entries
  <2> QED
    BY <2>1, <2>2
<1>6. i \in Live(k)
  BY <1>5 DEF Live
<1> QED
  BY <1>1, <1>3, <1>5, <1>6, PositionsAre

LEMMA QuietStep ==
  ASSUME FiniteFacts, IInv, TypeOK', BatchShape', ruleMap' = ruleMap, ruleRef' = ruleRef, op.kind # "delete",
         op'.kind = "ref" => op'.saved = <<>>, up' => up, spoiled \subseteq spoiled',
         up' => nft \subseteq nft', batch'.delRules = {}
  PROVE  IInv'
<1>1. \A p \in Positions' : p \in Positions /\ Entries(p[1])'[p[2]] = Entries(p[1])[p[2]]
  BY QuietShrinks DEF IInv
<1>2. IsFiniteSet(Positions') /\ Counted' /\ Unneeded'
  BY <1>1, Shrinks
<1>3. Installed'
  <2>1. CASE up'
    BY <1>1, <2>1, Shrinks
  <2>2. CASE ~ up'
    BY <2>2 DEF Installed
  <2> QED
    BY <2>1, <2>2
<1> QED
  BY <1>2, <1>3 DEF IInv, OnlyDeleting

(* The step appends the position q: a reference to found, for rule.        *)
RefAt(q, found, rule) ==
  /\ q \notin Positions
  /\ Positions' = Positions \cup {q}
  /\ \A p \in Positions : Entries(p[1])'[p[2]] = Entries(p[1])[p[2]]
  /\ Entries(q[1])'[q[2]].handle = found
  /\ Entries(q[1])'[q[2]].rule = rule
  /\ \A g : Holders(g)' = Holders(g) \cup (IF g = found THEN {q} ELSE {})

(* What the steps that take and give up references do to the positions:    *)
(* saving appends one for the rule it found, deleting drops the one it has *)
(* reached, and the end of a save only moves what was counted to ruleMap.  *)
LEMMA RefTaken ==
  ASSUME TypeOK, SaveRef, NEW found \in FindRuleInList(op.todo[op.i]), found # NoRule,
         op' = Saving("ref", op.key, op.todo, op.i + 1,
                      Append(op.saved, [handle |-> found, rule |-> op.todo[op.i]]))
  PROVE  /\ found \in nft /\ found \in Handles
         /\ \E q : RefAt(q, found, op.todo[op.i])
<1> USE DEF kernel
<1>1. op \in SaveCall /\ op.kind = "ref"
  BY OpShape DEF SaveRef
<1>2. op.key \in Keys /\ ruleMap[op.key] \in Seq(Entry) /\ op.saved \in Seq(Entry)
  BY <1>1 DEF SaveCall, TypeOK
<1>k. PICK k0 \in Keys : k0 = op.key
  BY <1>2
<1>a. PICK a \in Seq(Entry) : a = ruleMap[op.key]
  BY <1>2
<1>b. PICK b \in Seq(Entry) : b = op.saved
  BY <1>2
<1>x. PICK x : x = [handle |-> found, rule |-> op.todo[op.i]]
  BY ZenonT(60)
<1>n. PICK n \in Nat : n = Len(a) + Len(b) + 1
  OBVIOUS
<1> DEFINE q == <<k0, n>>
<1>3. op'.kind = "ref" /\ op'.key = k0 /\ op'.saved = Append(b, x)
  <2>1. op' = Saving("ref", k0, op.todo, op.i + 1, Append(b, x))
    BY <1>k, <1>b, <1>x
  <2> QED BY <2>1 DEF Saving
<1>4. ruleMap' = ruleMap /\ batch' = batch /\ nft' = nft /\ up' = up
  BY DEF SaveRef
<1>5. found \in nft /\ found \in Handles
  BY DEF FindRuleInList, Exact, Matches, Listed, TypeOK
<1>6. Entries(k0) = a \o b /\ Entries(k0)' = a \o Append(b, x)
  BY <1>1, <1>3, <1>4, <1>k, <1>a, <1>b, Zenon DEF Entries
<1>7. \A k : k # k0 => Entries(k)' = Entries(k)
  BY <1>1, <1>3, <1>4, <1>k DEF Entries
<1>8. x \in Entry
  <2>1. op.todo[op.i] \in Rules
    BY <1>1, SeqElement DEF SaveRef, SaveCall
  <2> QED
    BY <1>5, <1>x, <2>1 DEF Entry
<1>9. x.handle = found /\ x.rule = op.todo[op.i]
  BY <1>x
<1>10. /\ DOMAIN (a \o b) = 1 .. n - 1
       /\ DOMAIN (a \o Append(b, x)) = 1 .. n
       /\ (a \o Append(b, x))[n] = x
       /\ \A i \in 1 .. n - 1 : (a \o Append(b, x))[i] = (a \o b)[i]
       /\ n \in Nat \ {0}
  <2>1. Append(b, x) \in Seq(Entry) /\ Len(Append(b, x)) = Len(b) + 1
    BY <1>8, SeqAppend
  <2> QED
    BY <1>8, <1>n, <2>1
<1>11. Live(k0) = 1 .. n - 1 /\ Live(k0)' = 1 .. n
  BY <1>1, <1>3, <1>6, <1>10 DEF Live
<1>12. \A k : k # k0 => Live(k)' = Live(k)
  BY <1>1, <1>3, <1>7 DEF Live
<1>13. Live(k0)' = Live(k0) \cup {n} /\ n \notin Live(k0)
  BY <1>10, <1>11
<1>14. Positions' = Positions \cup {q} /\ q \notin Positions
  <2>1. \A k \in Keys : Live(k)' = IF k = k0 THEN Live(k) \cup {n} ELSE Live(k)
    BY <1>12, <1>13
  <2>2. Positions' = Positions \cup {q}
    BY <2>1 DEF Positions
  <2>3. q \notin Positions
    BY <1>13 DEF Positions
  <2> QED
    BY <2>2, <2>3
<1>15. \A p \in Positions : Entries(p[1])'[p[2]] = Entries(p[1])[p[2]]
  <2> SUFFICES ASSUME NEW p \in Positions PROVE Entries(p[1])'[p[2]] = Entries(p[1])[p[2]]
    OBVIOUS
  <2>1. p[2] \in Live(p[1])
    BY PositionsAre
  <2>2. CASE p[1] = k0
    <3>1. p[2] \in 1 .. n - 1
      BY <1>11, <2>1, <2>2
    <3>2. Entries(k0)'[p[2]] = Entries(k0)[p[2]]
      BY <1>6, <1>10, <3>1
    <3> QED
      BY <2>2, <3>2
  <2>3. CASE p[1] # k0
    BY <1>7, <2>3
  <2> QED
    BY <2>2, <2>3
<1>16. Entries(q[1])'[q[2]] = x
  BY <1>6, <1>10
<1>17. \A g : Holders(g)' = Holders(g) \cup (IF g = found THEN {q} ELSE {})
  <2>1. \A g : Holders(g)' = {p \in Positions' : Entries(p[1])'[p[2]].handle = g}
    BY DEF Holders
  <2> QED
    BY <1>9, <1>14, <1>15, <1>16, <2>1 DEF Holders
<1> QED
  <2> HIDE DEF q
  <2>1. Entries(q[1])'[q[2]].handle = found /\ Entries(q[1])'[q[2]].rule = op.todo[op.i]
    BY <1>9, <1>16
  <2> QED
    BY <1>5, <1>14, <1>15, <1>17, <2>1 DEF RefAt

LEMMA RefGiven ==
  ASSUME TypeOK, DeleteRule
  PROVE  LET q == <<op.key, op.i>>
             h == ruleMap[op.key][op.i].handle
         IN /\ h \in Handles
            /\ q \in Positions /\ Positions' = Positions \ {q}
            /\ \A k : Entries(k)' = Entries(k)
            /\ Entries(q[1])[q[2]].handle = h
            /\ \A g : Holders(g)' = Holders(g) \ (IF g = h THEN {q} ELSE {})
            /\ q \in Holders(h)
<1> USE DEF kernel
<1> DEFINE q == <<op.key, op.i>>
           h == ruleMap[op.key][op.i].handle
<1>1. op \in DeleteCall /\ op.kind = "delete"
  BY OpShape DEF DeleteRule
<1>2. op.key \in Keys /\ op.i \in Nat \ {0} /\ ruleMap[op.key] \in Seq(Entry)
      /\ op.i \in DOMAIN ruleMap[op.key]
  BY <1>1 DEF DeleteRule, DeleteCall, TypeOK
<1>3. op'.kind = "delete" /\ op'.key = op.key /\ op'.i = op.i + 1
  BY <1>1 DEF DeleteRule, DeleteCall
<1>4. \A k : Entries(k)' = ruleMap[k] /\ Entries(k) = ruleMap[k]
  BY <1>1, <1>3 DEF DeleteRule, Entries
<1>5. \A k \in Keys : DOMAIN ruleMap[k] \subseteq Nat
  BY DEF TypeOK
<1>6. \A k \in Keys : Live(k)' = Live(k) \ (IF k = op.key THEN {op.i} ELSE {})
  BY <1>1, <1>2, <1>3, <1>4, <1>5 DEF Live
<1>7. q \in Positions
  <2>1. op.i \in Live(op.key)
    BY <1>2, <1>4 DEF Live
  <2> QED
    BY <1>2, <2>1, PositionsAre
<1>8. Positions' = Positions \ {q}
  BY <1>2, <1>6 DEF Positions
<1>9. Entries(q[1])[q[2]].handle = h
  BY <1>4
<1>10. \A g : Holders(g)' = Holders(g) \ (IF g = h THEN {q} ELSE {})
  BY <1>4, <1>8, <1>9 DEF Holders
<1>11. q \in Holders(h)
  BY <1>7, <1>9 DEF Holders
<1>12. h \in Handles
  <2>1. ruleMap[op.key][op.i] \in Entry
    BY <1>2, SeqElement
  <2> QED
    BY <2>1 DEF Entry
<1>13. \A k : Entries(k)' = Entries(k)
  BY <1>4
<1> QED
  BY <1>7, <1>8, <1>9, <1>10, <1>11, <1>12, <1>13

LEMMA PlacesMoved ==
  ASSUME TypeOK, SaveDone
  PROVE  /\ Positions' = Positions
         /\ \A k \in Keys : Entries(k)' = Entries(k)
<1>1. op \in SaveCall /\ op.kind = "ref" /\ op' = Idle
  BY OpShape DEF SaveDone
<1>2. \A k \in Keys : Entries(k)' = Entries(k)
  BY <1>1 DEF SaveDone, Entries, Idle, SaveCall, TypeOK
<1>3. \A k \in Keys : Live(k)' = Live(k)
  BY <1>1, <1>2 DEF Live, Idle
<1> QED
  BY <1>2, <1>3 DEF Positions

(* One case per action; the five that touch references come last.          *)
LEMMA StepKept ==
  ASSUME FiniteFacts, IInv, [Next]_vars
  PROVE  IInv'
<1> USE DEF kernel
<1>0. TypeOK /\ BatchShape /\ TypeOK' /\ BatchShape'
  BY TypesKept DEF IInv
<1>d. op.kind # "delete" => batch.delRules = {}
  BY DEF IInv, OnlyDeleting
<1>f. ASSUME FlushOK \/ FlushFails
      PROVE  /\ batch'.delRules = {}
             /\ nft \ batch.delRules \subseteq nft'
  BY <1>f DEF FlushOK, FlushFails, NoBatch
<1>q. ASSUME NEW o, NEW a, NEW d, batch' = Queued(o, a, d)
      PROVE  batch'.delRules = batch.delRules
  BY <1>q DEF Queued
<1>1. CASE UNCHANGED vars
  <2>1. op' = op /\ ruleMap' = ruleMap /\ ruleRef' = ruleRef /\ up' = up /\ nft' = nft
        /\ spoiled' = spoiled /\ batch' = batch
    BY <1>1 DEF vars
  <2>2. \A k : Entries(k)' = Entries(k)
    BY <2>1 DEF Entries
  <2>3. \A k : Live(k)' = Live(k)
    BY <2>1, <2>2 DEF Live
  <2>4. Positions' = Positions
    BY <2>3 DEF Positions
  <2>5. IsFiniteSet(Positions') /\ Counted' /\ Unneeded' /\ Installed'
    BY <1>0, <2>1, <2>2, <2>4, Shrinks
  <2> QED
    BY <1>0, <2>1, <2>5 DEF IInv, OnlyDeleting
<1>3. CASE GetRulesFails
  <2>1. op'.kind = "idle" /\ op.kind # "delete"
    BY <1>3 DEF GetRulesFails, Idle
  <2> QED
    BY <1>0, <1>3, <1>d, <2>1, QuietStep DEF GetRulesFails
<1>4. CASE SaveLookup
  <2>1. op \in SaveCall /\ op.kind = "lookup"
    BY <1>0, <1>4, OpShape DEF SaveLookup
  <2>2. op'.kind = "lookup"
    BY <1>4, <2>1 DEF SaveLookup, SaveCall
  <2>3. batch'.delRules = {}
    BY <1>0, <1>4, <1>d, <2>1 DEF SaveLookup, BatchShape
  <2>4. spoiled \subseteq spoiled'
    BY <1>4 DEF SaveLookup, Looked
  <2> QED
    BY <1>0, <1>4, <2>1, <2>2, <2>3, <2>4, QuietStep DEF SaveLookup
<1>5. CASE SaveFlush
  <2>1. op'.kind = "idle" \/ (op'.kind = "ref" /\ op'.saved = <<>>)
    BY <1>5 DEF SaveFlush, Idle, Saving
  <2>2. op.kind = "lookup" /\ batch'.delRules = {} /\ nft \subseteq nft'
    BY <1>5, <1>d, <1>f DEF SaveFlush
  <2> QED
    BY <1>0, <1>5, <2>1, <2>2, QuietStep DEF SaveFlush
<1>10. CASE PruneVmaps
  <2>1. op'.kind = "idle" /\ op.kind # "delete"
    BY <1>10 DEF PruneVmaps, Idle
  <2> QED
    BY <1>0, <1>10, <1>d, <2>1, QuietStep DEF PruneVmaps
<1>s. ASSUME op = Idle, ruleMap' = ruleMap, ruleRef' = ruleRef, up' => up, spoiled \subseteq spoiled',
             up' => nft' = nft, batch'.delRules = {},
             \/ \E k, l : SaveFilterRules(k, l)
             \/ \E k, t : DeleteFilter(k, t)
             \/ op' = op
             \/ op'.kind = "listflush"
      PROVE  IInv'
  <2>1. op.kind = "idle" /\ op'.kind # "ref"
    BY <1>s DEF SaveFilterRules, Saving, DeleteFilter, Idle
  <2> QED
    BY <1>0, <1>s, <2>1, QuietStep
<1>i. op = Idle => batch.delRules = {}
  BY <1>d DEF Idle
<1>11. ASSUME NEW g \in Groups, SetSecurityGroups(g)
       PROVE  IInv'
  <2>1. op = Idle /\ batch'.delRules = {}
    BY <1>11, <1>i, <1>q, ZenonT(60) DEF SetSecurityGroups, Ready
  <2> QED
    BY <1>11, <1>s, <2>1 DEF SetSecurityGroups
<1>12. ASSUME NEW g \in Groups, DeleteSecurityGroups(g)
       PROVE  IInv'
  <2>1. op = Idle /\ batch'.delRules = {}
    BY <1>12, <1>i, <1>q, Zenon DEF DeleteSecurityGroups, Saved
  <2> QED
    BY <1>12, <1>s, <2>1, Zenon DEF DeleteSecurityGroups
<1>13. ASSUME NEW f \in PortForwards, ForwardPort(f) \/ DeleteForwardPort(f)
       PROVE  IInv'
  BY <1>13, <1>i, <1>s DEF ForwardPort, DeleteForwardPort, Ready, Saved
<1>15. ASSUME NEW t \in Traffics, ForwardTraffic(t) \/ DeleteForwardTraffic(t)
       PROVE  IInv'
  BY <1>15, <1>i, <1>s DEF ForwardTraffic, DeleteForwardTraffic, Ready, Saved
<1>17. ASSUME NEW k, NEW l, NEW ips, AddIPs(k, l, ips)
       PROVE  IInv'
  <2>1. op = Idle /\ batch'.delRules = {}
    BY <1>17, <1>i, <1>q DEF AddIPs
  <2> QED
    BY <1>17, <1>s, <2>1 DEF AddIPs
<1>18. ASSUME NEW k, NEW ips, DeleteIPs(k, ips)
       PROVE  IInv'
  <2>1. op = Idle /\ batch'.delRules = {}
    BY <1>18, <1>i, <1>q DEF DeleteIPs
  <2> QED
    BY <1>18, <1>s, <2>1 DEF DeleteIPs
<1>19. CASE ListFlush
  <2>1. op'.kind # "ref" /\ op.kind # "delete"
    BY <1>19 DEF ListFlush, DeleteFilter, Idle
  <2>2. batch'.delRules = {} /\ nft \subseteq nft'
    BY <1>19, <1>d, <1>f DEF ListFlush
  <2> QED
    BY <1>0, <1>19, <2>1, <2>2, QuietStep DEF ListFlush
<1>20. CASE Clear
  <2>1. batch'.delRules = {} /\ op' = op /\ op = Idle /\ ~ up'
    BY <1>20 DEF Clear, NoBatch
  <2> QED
    BY <1>20, <1>s, <2>1 DEF Clear
<1>2. CASE NewFilterRouter
  <2>1. \A k \in Keys : Entries(k)' = <<>>
    BY <1>2 DEF NewFilterRouter, Entries, Idle
  <2>2. Positions' = {}
    BY <2>1 DEF Positions, Live
  <2>3. IsFiniteSet(Positions') /\ Cardinality({}) = 0
    BY <2>2 DEF FiniteFacts
  <2>4. \A h : Holders(h)' = {}
    BY <2>2 DEF Holders
  <2>5. Counted'
    <3>1. \A h \in Handles : ruleRef'[h] = 0
      BY <1>2 DEF NewFilterRouter
    <3> QED
      BY <2>3, <2>4, <3>1 DEF Counted
  <2>6. Unneeded' /\ OnlyDeleting' /\ Installed'
    BY <1>2, <2>2 DEF NewFilterRouter, NoBatch, Unneeded, OnlyDeleting, Installed
  <2> QED
    BY <1>0, <2>3, <2>5, <2>6 DEF IInv
<1>7. CASE SaveDone
  <2>1. op.kind = "ref" /\ op' = Idle
    BY <1>7 DEF SaveDone
  <2>2. Positions' = Positions /\ \A k \in Keys : Entries(k)' = Entries(k)
    BY <1>0, <1>7, PlacesMoved
  <2>3. batch' = batch /\ ruleRef' = ruleRef /\ nft' = nft /\ up' = up /\ spoiled' = spoiled
    BY <1>7 DEF SaveDone
  <2>4. \A p \in Positions' : p \in Positions /\ Entries(p[1])'[p[2]] = Entries(p[1])[p[2]]
    BY <2>2, PositionsAre
  <2>5. IsFiniteSet(Positions') /\ Counted' /\ Unneeded' /\ Installed'
    BY <1>0, <2>3, <2>4, Shrinks, Zenon
  <2>6. OnlyDeleting'
    BY <1>d, <2>1, <2>3 DEF OnlyDeleting
  <2> QED
    BY <1>0, <2>5, <2>6 DEF IInv
<1>9. CASE DeleteFlush
  <2>1. op \in DeleteCall /\ op.kind = "delete" /\ op'.kind \in {"idle", "prune"}
    BY <1>0, <1>9, OpShape DEF DeleteFlush, Idle
  <2>2. \A k \in Keys : Entries(k)' = IF k = op.key THEN <<>> ELSE Entries(k)
    BY <1>0, <1>9, <2>1 DEF DeleteFlush, Entries, TypeOK
  <2>3. \A k \in Keys : Live(k)' = IF k = op.key THEN {} ELSE Live(k)
    BY <2>1, <2>2 DEF Live
  <2>4. \A p \in Positions' : p \in Positions /\ Entries(p[1])'[p[2]] = Entries(p[1])[p[2]]
    <3> SUFFICES ASSUME NEW p \in Positions'
                 PROVE  p \in Positions /\ Entries(p[1])'[p[2]] = Entries(p[1])[p[2]]
      OBVIOUS
    <3>1. p = <<p[1], p[2]>> /\ p[1] \in Keys /\ p[2] \in Live(p[1])'
      BY DEF Positions
    <3>2. p[1] # op.key /\ p[2] \in Live(p[1])
      BY <2>3, <3>1
    <3> QED
      BY <2>2, <3>1, <3>2, PositionsAre
  <2>5. FlushOK \/ FlushFails
    BY <1>9 DEF DeleteFlush
  <2>6. batch'.delRules = {} /\ nft \ batch.delRules \subseteq nft'
    BY <1>f, <2>5
  <2>7. IsFiniteSet(Positions') /\ Counted' /\ Unneeded' /\ Installed'
    BY <1>0, <1>9, <2>4, <2>6, Shrinks DEF DeleteFlush
  <2> QED
    BY <1>0, <2>6, <2>7 DEF IInv, OnlyDeleting
<1>8. CASE DeleteRule
  <2> DEFINE q == <<op.key, op.i>>
             h == ruleMap[op.key][op.i].handle
  <2>1. op \in DeleteCall /\ op.kind = "delete"
    BY <1>0, <1>8, OpShape DEF DeleteRule
  <2>3. op'.kind = "delete"
    BY <1>8, <2>1 DEF DeleteRule, DeleteCall
  <2>8. Positions' = Positions \ {q} /\ \A k : Entries(k)' = Entries(k)
    BY <1>0, <1>8, RefGiven
  <2>10. \A g : Holders(g)' = Holders(g) \ (IF g = h THEN {q} ELSE {})
    BY <1>0, <1>8, RefGiven
  <2>11. q \in Holders(h)
    BY <1>0, <1>8, RefGiven
  <2>12. h \in Handles
    BY <1>0, <1>8, RefGiven
  <2>13. \A g : IsFiniteSet(Holders(g))
    BY CountSubset DEF IInv, Holders
  <2>14. /\ Cardinality(Holders(h)) \in Nat
         /\ Cardinality(Holders(h) \ {q}) = Cardinality(Holders(h)) - 1
         /\ IsFiniteSet(Holders(h) \ {q})
    BY <2>11, <2>13, CountRemove
  <2>15. ruleRef' = [ruleRef EXCEPT ![h] = @ - 1]
    BY <1>8 DEF DeleteRule
  <2>16. /\ ruleRef \in [Handles -> Int]
         /\ \A g \in Handles : ruleRef[g] >= Cardinality(Holders(g))
    BY <1>0 DEF TypeOK, IInv, Counted
  <2>17. \A p \in Positions' : p \in Positions /\ Entries(p[1])'[p[2]] = Entries(p[1])[p[2]]
    BY <2>8
  <2>18. batch'.delRules = batch.delRules \cup (IF ruleRef[h] = 1 THEN {h} ELSE {})
    BY <1>0, <1>8, Zenon DEF DeleteRule, BatchShape
  <2>19. nft' = nft /\ up' = up /\ spoiled' = spoiled
    BY <1>8 DEF DeleteRule
  <2>20. IsFiniteSet(Positions') /\ Installed'
    BY <1>0, <2>17, <2>19, Shrinks
  <2> HIDE DEF q, h
  <2>21. Counted'
    <3> SUFFICES ASSUME NEW g \in Handles PROVE ruleRef'[g] >= Cardinality(Holders(g)')
      BY DEF Counted
    <3>1. CASE g = h
      BY <2>10, <2>14, <2>15, <2>16, <3>1
    <3>2. CASE g # h
      <4>1. ruleRef'[g] = ruleRef[g]
        BY <2>15, <2>16, <3>2
      <4>2. Holders(g)' = Holders(g)
        BY <2>10, <3>2
      <4> QED
        BY <2>16, <4>1, <4>2
    <3> QED
      BY <3>1, <3>2
  <2>22. Unneeded'
    <3> SUFFICES ASSUME NEW g \in batch'.delRules PROVE Holders(g)' = {}
      BY DEF Unneeded
    <3>1. CASE g \in batch.delRules
      BY <2>10, <3>1 DEF IInv, Unneeded
    <3>2. CASE g = h /\ ruleRef[h] = 1
      <4>1. Cardinality(Holders(h)) <= 1
        BY <2>12, <2>14, <2>16, <3>2
      <4>2. Cardinality(Holders(h) \ {q}) = 0
        BY <2>14, <4>1, CountSubset
      <4>3. Holders(h) \ {q} = {}
        BY <2>14, <4>2, CountZero
      <4> QED
        BY <2>10, <3>2, <4>3
    <3> QED
      BY <2>18, <3>1, <3>2
  <2> QED
    BY <1>0, <2>3, <2>20, <2>21, <2>22 DEF IInv, OnlyDeleting
<1>6. CASE SaveRef
  <2>1. op \in SaveCall /\ op.kind = "ref"
    BY <1>0, <1>6, OpShape, Zenon DEF SaveRef
  <2>2. PICK found \in FindRuleInList(op.todo[op.i]) :
          /\ Looked(op.todo[op.i], found)
          /\ IF found = NoRule
             THEN op' = Idle /\ UNCHANGED ruleRef
             ELSE /\ op' = Saving("ref", op.key, op.todo, op.i + 1,
                                  Append(op.saved, [handle |-> found, rule |-> op.todo[op.i]]))
                  /\ ruleRef' = [ruleRef EXCEPT ![found] = @ + 1]
    BY <1>6, Zenon DEF SaveRef
  <2>3. spoiled \subseteq spoiled'
    BY <2>2 DEF Looked
  <2>4. CASE found = NoRule
    <3>1. op'.kind = "idle" /\ ruleRef' = ruleRef
      BY <2>2, <2>4 DEF Idle
    <3> QED
      BY <1>0, <1>6, <1>d, <2>1, <2>3, <3>1, QuietStep DEF SaveRef
  <2>5. CASE found # NoRule
    <3>3. ruleRef' = [ruleRef EXCEPT ![found] = @ + 1]
      BY <2>2, <2>5
    <3>4. ruleMap' = ruleMap /\ batch' = batch /\ nft' = nft /\ up' = up
      BY <1>6 DEF SaveRef
    <3>5. found \in nft /\ found \in Handles
      BY <1>0, <1>6, <2>2, <2>5, RefTaken
    <3>6. "race" \notin spoiled' => found.rule = op.todo[op.i]
      BY <2>2, <2>5 DEF Looked, Exact, Matches
    <3>7. PICK q : RefAt(q, found, op.todo[op.i])
      BY <1>0, <1>6, <2>2, <2>5, RefTaken
    <3>8. op'.kind = "ref"
      BY <2>2, <2>5 DEF Saving
    <3>19. q \notin Holders(found)
      BY <3>7 DEF Holders, RefAt
    <3>20. IsFiniteSet(Positions') /\ \A g : IsFiniteSet(Holders(g))
      BY <3>7, CountAdd, CountSubset, Zenon DEF IInv, Holders, RefAt
    <3>21. Cardinality(Holders(found) \cup {q}) = Cardinality(Holders(found)) + 1
           /\ Cardinality(Holders(found)) \in Nat
      BY ZenonT(60), <3>19, <3>20, CountAdd
    <3>22. Counted'
      <4> SUFFICES ASSUME NEW g \in Handles PROVE ruleRef'[g] >= Cardinality(Holders(g)')
        BY DEF Counted
      <4>1. ruleRef \in [Handles -> Int] /\ ruleRef[g] >= Cardinality(Holders(g))
        BY <1>0 DEF TypeOK, IInv, Counted
      <4>2. CASE g = found
        <5>1. ruleRef'[g] = ruleRef[g] + 1
          BY <3>3, <4>1, <4>2
        <5>2. Holders(g)' = Holders(found) \cup {q}
          BY <3>7, <4>2 DEF RefAt
        <5>3. Cardinality(Holders(g)') = Cardinality(Holders(found)) + 1
          BY <3>21, <5>2
        <5>4. ruleRef[g] >= Cardinality(Holders(found)) /\ ruleRef[g] \in Int
          BY <4>1, <4>2
        <5> QED
          BY <3>21, <5>1, <5>3, <5>4
      <4>3. CASE g # found
        <5>1. ruleRef'[g] = ruleRef[g]
          BY <3>3, <4>1, <4>3
        <5>2. Holders(g)' = Holders(g)
          BY ZenonT(60), <3>7, <4>3 DEF RefAt
        <5> QED
          BY <4>1, <5>1, <5>2
      <4> QED
        BY <4>2, <4>3
    <3>23. batch'.delRules = {}
      BY <1>d, <2>1, <3>4
    <3>24. Installed'
      <4> SUFFICES ASSUME up', "race" \notin spoiled', NEW p \in Positions'
                   PROVE  /\ Entries(p[1])'[p[2]].handle \in nft'
                          /\ Entries(p[1])'[p[2]].handle.rule = Entries(p[1])'[p[2]].rule
        BY DEF Installed
      <4>1. CASE p = q
        BY <3>4, <3>5, <3>6, <3>7, <4>1 DEF RefAt
      <4>2. CASE p \in Positions
        BY <2>3, <3>4, <3>7, <4>2 DEF RefAt, IInv, Installed
      <4> QED
        BY <3>7, <4>1, <4>2 DEF RefAt
    <3> QED
      BY <1>0, <3>20, <3>22, <3>23, <3>24 DEF IInv, Unneeded, OnlyDeleting
  <2> QED
    BY <2>4, <2>5
<1>21. CASE Save \/ Delete
  BY <1>3, <1>4, <1>5, <1>6, <1>7, <1>8, <1>9, <1>10, <1>21 DEF Save, Delete
<1>22. ASSUME NEW ips, \/ AddIPsToDenyList(ips) \/ AddIPsToAllowList(ips)
                       \/ DeleteIPsFromDenyList(ips) \/ DeleteIPsFromAllowList(ips)
       PROVE  IInv'
  BY <1>17, <1>18, <1>22 DEF AddIPsToDenyList, AddIPsToAllowList,
       DeleteIPsFromDenyList, DeleteIPsFromAllowList
<1> QED
  BY <1>1, <1>2, <1>11, <1>12, <1>13, <1>15, <1>19, <1>20, <1>21, <1>22 DEF Next

(* A new process starts with the invariant.                                *)
LEMMA InitHolds ==
  ASSUME FiniteFacts, Init
  PROVE  IInv
<1>1. <<>> \in Seq(Entry)
  BY SeqEmpty
<1>2. ruleMap \in [Keys -> Seq(Entry)] /\ ruleRef \in [Handles -> Int]
  BY <1>1 DEF Init
<1>3. TypeOK /\ BatchShape
  BY <1>2, Zenon DEF Init, TypeOK, BatchShape, NoBatch
<1>4. \A k \in Keys : Entries(k) = <<>>
  BY DEF Init, Entries, Idle
<1>5. Positions = {}
  BY <1>4 DEF Positions, Live
<1>6. IsFiniteSet(Positions) /\ Cardinality({}) = 0
  BY <1>5 DEF FiniteFacts
<1>7. \A h : Holders(h) = {}
  BY <1>5 DEF Holders
<1>8. Counted
  <2> SUFFICES ASSUME NEW h \in Handles PROVE ruleRef[h] >= Cardinality(Holders(h))
    BY DEF Counted
  <2>1. ruleRef[h] = 0
    BY DEF Init
  <2> QED
    BY <1>6, <1>7, <2>1
<1> QED
  BY <1>3, <1>5, <1>6, <1>8 DEF Init, IInv, Unneeded, OnlyDeleting, Installed, NoBatch

(* What the invariant says of one rule that a key needs.                   *)
LEMMA HoldersSafe == IInv => SharedRulesStay
<1> SUFFICES ASSUME IInv, up, "race" \notin spoiled, NEW p \in Positions
             PROVE  LET x == Entries(p[1])[p[2]]
                    IN /\ x.handle \in nft
                       /\ x.handle.rule = x.rule
                       /\ ruleRef[x.handle] >= Cardinality(Holders(x.handle))
  BY DEF SharedRulesStay
<1>1. /\ Entries(p[1])[p[2]].handle \in nft
      /\ Entries(p[1])[p[2]].handle.rule = Entries(p[1])[p[2]].rule
  BY DEF IInv, Installed
<1>2. nft \subseteq Handles
  BY DEF IInv, TypeOK
<1> QED
  BY <1>1, <1>2 DEF IInv, Counted

---------------------------------------------------------------------------
(* What the accounts in FilterAccountProofs rest on.                       *)

(* The elements for the addresses of a list are those of its set *)
LEMMA NamedByList ==
  ASSUME NEW list, NEW ips
  PROVE  /\ \A e \in ListElems(list, ips) : e.set = list
         /\ ips # {} => \E e \in ListElems(list, ips) : e.set = list
<1>1. \A e \in ListElems(list, ips) : e.set = list
  BY DEF ListElems
<1>2. ASSUME ips # {}
      PROVE  \E e \in ListElems(list, ips) : e.set = list
  <2>1. PICK ip \in ips : TRUE
    BY <1>2
  <2>2. [set |-> list, key |-> ip, verdict |-> None] \in ListElems(list, ips)
    BY <2>1 DEF ListElems
  <2> QED
    BY <1>1, <2>2
<1> QED
  BY <1>1, <1>2

Distinct(s) == \A i, j \in DOMAIN s : s[i] = s[j] => i = j

(* No list of rules names a rule twice, unless the rules of a group share  *)
(* one backing array.                                                      *)
LEMMA ConcatDistinct ==
  ASSUME NEW S, NEW a \in Seq(S), NEW b \in Seq(S), Distinct(a), Distinct(b),
         \A i \in DOMAIN a, j \in DOMAIN b : a[i] # b[j]
  PROVE  Distinct(a \o b)
<1>1. /\ DOMAIN a = 1 .. Len(a) /\ DOMAIN b = 1 .. Len(b)
      /\ DOMAIN (a \o b) = 1 .. Len(a) + Len(b)
      /\ Len(a) \in Nat /\ Len(b) \in Nat
  OBVIOUS
<1> SUFFICES ASSUME NEW i \in 1 .. Len(a) + Len(b), NEW j \in 1 .. Len(a) + Len(b),
                    (a \o b)[i] = (a \o b)[j]
             PROVE  i = j
  BY <1>1 DEF Distinct
<1>2. \A m \in 1 .. Len(a) + Len(b) :
        (a \o b)[m] = IF m <= Len(a) THEN a[m] ELSE b[m - Len(a)]
  OBVIOUS
<1>3. CASE i <= Len(a) /\ j <= Len(a)
  BY <1>1, <1>2, <1>3 DEF Distinct
<1>4. CASE ~ (i <= Len(a)) /\ ~ (j <= Len(a))
  <2>1. i - Len(a) \in DOMAIN b /\ j - Len(a) \in DOMAIN b /\ b[i - Len(a)] = b[j - Len(a)]
    BY <1>1, <1>2, <1>4
  <2>2. i - Len(a) = j - Len(a)
    BY <2>1 DEF Distinct
  <2> QED
    BY <1>1, <2>2
<1>5. CASE i <= Len(a) /\ ~ (j <= Len(a))
  <2>1. i \in DOMAIN a /\ j - Len(a) \in DOMAIN b /\ a[i] = b[j - Len(a)]
    BY <1>1, <1>2, <1>5
  <2> QED
    BY <2>1
<1>6. CASE ~ (i <= Len(a)) /\ j <= Len(a)
  <2>1. j \in DOMAIN a /\ i - Len(a) \in DOMAIN b /\ a[j] = b[i - Len(a)]
    BY <1>1, <1>2, <1>6
  <2> QED
    BY <2>1
<1> QED
  BY <1>3, <1>4, <1>5, <1>6

Overwritten(g) == Clobbered(g) /\ g.ports # {} /\ g.icmp # "no"

LEMMA ListsDistinct ==
  /\ \A g \in Groups : ~ Overwritten(g) => Distinct(GroupRules(g))
  /\ \A f \in PortForwards : Distinct(PortForwardRules(f))
  /\ \A t \in Traffics : Distinct(TrafficRules(t))
  /\ Distinct(DenyListRules)
  /\ Distinct(AllowListRules)
<1>1. ASSUME NEW g \in Groups, ~ Overwritten(g)
      PROVE  Distinct(GroupRules(g))
  <2> DEFINE Of(f) == {GroupRule(g, f, "all", Verdict(g), <<>>), IcmpRule(g, f), VmapRule(g, f)}
             S == Of("ip4") \cup Of("ip6")
  <2>1. ASSUME NEW f \in {"ip4", "ip6"}
        PROVE  /\ FamilyRules(g, f) \in Seq(S)
               /\ Distinct(FamilyRules(g, f))
               /\ \A i \in DOMAIN FamilyRules(g, f) : FamilyRules(g, f)[i].fam = f
    <3> DEFINE a == GroupRule(g, f, "all", Verdict(g), <<>>)
               c == IcmpRule(g, f)
               v == VmapRule(g, f)
    <3>1. a \in S /\ c \in S /\ v \in S /\ c # v
      BY Zenon DEF IcmpRule, VmapRule, GroupRule, Rule
    <3>2. a.fam = f /\ c.fam = f /\ v.fam = f
      BY DEF IcmpRule, VmapRule, GroupRule, Rule
    <3>3. FamilyRules(g, f) \in {<<a>>, <<c>>, <<v>>, <<c, v>>, <<v, c>>}
      <4>1. CASE g.ports = {}
        BY <4>1 DEF FamilyRules
      <4>2. CASE g.ports # {} /\ g.icmp = "no"
        BY <4>2 DEF FamilyRules
      <4>3. CASE g.ports # {} /\ g.icmp = "first"
        BY <1>1, <4>3 DEF FamilyRules, Overwritten
      <4>4. CASE g.ports # {} /\ g.icmp # "no" /\ g.icmp # "first"
        BY <1>1, <4>4 DEF FamilyRules, Overwritten
      <4> QED
        BY <4>1, <4>2, <4>3, <4>4, Zenon
    <3> HIDE DEF a, c, v, S
    <3>4. \A x, y \in S : <<x>> \in Seq(S) /\ <<x, y>> \in Seq(S)
      BY ShortSeqs
    <3>5. \A x, y \in S : Distinct(<<x>>) /\ (x # y => Distinct(<<x, y>>))
      BY DEF Distinct
    <3>6. \A x, y : x.fam = f /\ y.fam = f =>
            /\ \A i \in DOMAIN <<x>> : <<x>>[i].fam = f
            /\ \A i \in DOMAIN <<x, y>> : <<x, y>>[i].fam = f
      OBVIOUS
    <3> DEFINE Good(s) == /\ s \in Seq(S)
                          /\ Distinct(s)
                          /\ \A i \in DOMAIN s : s[i].fam = f
    <3>7. Good(<<a>>) /\ Good(<<c>>) /\ Good(<<v>>)
      BY <3>1, <3>2, <3>4, <3>5, <3>6, Zenon
    <3>8. Good(<<c, v>>) /\ Good(<<v, c>>)
      BY <3>1, <3>2, <3>4, <3>5, <3>6, Zenon
    <3> HIDE DEF Good
    <3>9. Good(FamilyRules(g, f))
      BY <3>3, <3>7, <3>8
    <3> QED
      BY <3>9 DEF Good
  <2> HIDE DEF S
  <2> DEFINE p == IF "ip4" \in FamiliesOf(g) THEN FamilyRules(g, "ip4") ELSE <<>>
             q == IF "ip6" \in FamiliesOf(g) THEN FamilyRules(g, "ip6") ELSE <<>>
  <2>2. <<>> \in Seq(S) /\ Distinct(<<>>)
    BY SeqEmpty DEF Distinct
  <2>3. p \in Seq(S) /\ Distinct(p) /\ \A i \in DOMAIN p : p[i].fam = "ip4"
    BY <2>1, <2>2
  <2>4. q \in Seq(S) /\ Distinct(q) /\ \A i \in DOMAIN q : q[i].fam = "ip6"
    BY <2>1, <2>2
  <2>5. GroupRules(g) = p \o q
    BY DEF GroupRules
  <2> HIDE DEF p, q
  <2>6. \A i \in DOMAIN p, j \in DOMAIN q : p[i] # q[j]
    BY <2>3, <2>4
  <2> QED
    BY <2>3, <2>4, <2>5, <2>6, ConcatDistinct
<1>2. ASSUME NEW f \in PortForwards
      PROVE  Distinct(PortForwardRules(f))
  <2> DEFINE a == Rule(f.fam, <<"nat_prerouting">>, None, None, None, f.dst, f.port, f.to, <<>>)
             b == Rule(f.fam, <<"nat_postrouting">>, None, None, None, f.to, "all", "masq", <<>>)
             c == Rule(f.fam, <<"forward">>, None, None, None, f.to, "all", "accept", <<>>)
  <2>0. PortForwardRules(f) = <<a, b, c>>
    BY DEF PortForwardRules
  <2>1. /\ a.chain = <<"nat_prerouting">>
        /\ b.chain = <<"nat_postrouting">>
        /\ c.chain = <<"forward">>
    BY DEF Rule
  <2> HIDE DEF a, b, c
  <2>2. a # b /\ b # c /\ a # c
    BY <2>1
  <2>3. \A x, y, z : x # y /\ y # z /\ x # z => Distinct(<<x, y, z>>)
    BY DEF Distinct
  <2> QED
    BY <2>0, <2>2, <2>3
<1>3. ASSUME NEW t \in Traffics
      PROVE  Distinct(TrafficRules(t))
  <2> DEFINE dst == IF t.dst = World THEN None ELSE t.dst
             a == Rule(t.fam, <<"forward">>, t.iif, t.src, t.oif, dst, "all", "accept", <<>>)
             b == Rule(t.fam, <<"nat_postrouting">>, None, t.src, t.oif, dst, "all", "masq", <<>>)
  <2>0. TrafficRules(t) = <<a>> \o (IF t.nat THEN <<b>> ELSE <<>>)
    BY DEF TrafficRules
  <2>1. a.chain = <<"forward">> /\ b.chain = <<"nat_postrouting">>
    BY DEF Rule
  <2> HIDE DEF a, b
  <2>2. a # b
    BY <2>1
  <2>3. /\ <<a>> \in Seq({a, b}) /\ <<b>> \in Seq({a, b}) /\ <<>> \in Seq({a, b})
        /\ Distinct(<<a>>) /\ Distinct(<<b>>) /\ Distinct(<<>>)
    BY DEF Distinct
  <2>4. CASE t.nat
    <3>1. \A i \in DOMAIN <<a>>, j \in DOMAIN <<b>> : <<a>>[i] # <<b>>[j]
      BY <2>2
    <3> QED
      BY <2>0, <2>3, <2>4, <3>1, ConcatDistinct, Zenon
  <2>5. CASE ~ t.nat
    BY <2>0, <2>3, <2>5, SeqConcatEmpty
  <2> QED
    BY <2>4, <2>5
<1>4. Distinct(DenyListRules)
  BY DEF Distinct, DenyListRules, Rule
<1>5. Distinct(AllowListRules)
  <2> DEFINE l == AllowListRules
  <2>0. 1 % 2 = 1 /\ 2 % 2 = 0 /\ 3 % 2 = 1 /\ 4 % 2 = 0
    OBVIOUS
  <2>1. DOMAIN l = 1 .. 4
    BY DEF AllowListRules
  <2> DEFINE Lo(f) == Rule(f, <<"prerouting">>, "lo", None, None, None, "all", "accept", <<>>)
             Drop(f) == Rule(f, <<"prerouting">>, None, None, None, None, "not allowlist", "drop", <<>>)
  <2>2. /\ l[1] = Lo("ip4")
        /\ l[2] = Drop("ip4")
        /\ l[3] = Lo("ip6")
        /\ l[4] = Drop("ip6")
    <3> HIDE DEF Lo, Drop
    <3>1. l = [i \in 1 .. 4 |-> IF i % 2 = 1 THEN Lo(IF i <= 2 THEN "ip4" ELSE "ip6")
                                            ELSE Drop(IF i <= 2 THEN "ip4" ELSE "ip6")]
      BY DEF AllowListRules, Lo, Drop
    <3> HIDE DEF l
    <3> QED
      BY <2>0, <3>1
  <2>3. \A f : Lo(f).fam = f /\ Drop(f).fam = f /\ Lo(f).iif = "lo" /\ Drop(f).iif = None
    BY DEF Rule
  <2> HIDE DEF Lo, Drop
  <2> HIDE DEF l
  <2>4. "lo" # None
    BY DEF None
  <2>5. /\ l[1] # l[2] /\ l[1] # l[3] /\ l[1] # l[4]
        /\ l[2] # l[3] /\ l[2] # l[4] /\ l[3] # l[4]
    BY <2>2, <2>3, <2>4
  <2>6. \A i \in 1 .. 4 : i = 1 \/ i = 2 \/ i = 3 \/ i = 4
    OBVIOUS
  <2>7. Distinct(l)
    BY <2>1, <2>5, <2>6 DEF Distinct
  <2> QED
    BY <2>7 DEF l
<1> QED
  BY <1>1, <1>2, <1>3, <1>4, <1>5

(* The steps between which no reference is taken or given up.              *)
LEMMA HoldersSame ==
  ASSUME TypeOK, TypeOK', ruleMap' = ruleMap, op.kind \notin {"ref", "delete"},
         op'.kind = "ref" => op'.saved = <<>>, op'.kind = "delete" => op'.i = 1
  PROVE  \A h : Holders(h)' = Holders(h)
<1>1. ASSUME NEW k \in Keys
      PROVE  Entries(k)' = Entries(k) /\ Live(k)' = Live(k)
  <2>1. ruleMap[k] \in Seq(Entry) /\ ruleMap[k] \o <<>> = ruleMap[k]
    BY <1>1, SeqConcatEmpty DEF TypeOK
  <2>2. Entries(k) = ruleMap[k]
    BY DEF Entries
  <2>3. Entries(k)' = ruleMap[k]
    BY <2>1, Zenon DEF Entries
  <2>4. \A i \in DOMAIN ruleMap[k] : i >= 1
    BY <2>1
  <2> QED
    BY <2>2, <2>3, <2>4 DEF Live
<1>2. Positions' = Positions
  BY <1>1 DEF Positions
<1> QED
  BY <1>1, <1>2, PositionsAre DEF Holders

LEMMA HoldersDropped ==
  ASSUME TypeOK, DeleteFlush
  PROVE  \A h : Holders(h)' = Holders(h)
<1>1. op \in DeleteCall /\ op.kind = "delete" /\ op'.kind \in {"idle", "prune"}
  BY OpShape DEF DeleteFlush, Idle
<1>2. \A k \in Keys : Entries(k) = ruleMap[k] /\ Entries(k)' = IF k = op.key THEN <<>> ELSE Entries(k)
  BY <1>1 DEF DeleteFlush, Entries, TypeOK
<1>3. Live(op.key) = {}
  <2>1. op.key \in Keys /\ ruleMap[op.key] \in Seq(Entry) /\ op.i > Len(ruleMap[op.key]) /\ op.i \in Nat
    BY <1>1 DEF DeleteFlush, DeleteCall, TypeOK
  <2> QED
    BY <1>1, <1>2, <2>1 DEF Live
<1>4. \A k \in Keys : Live(k)' = Live(k)
  BY <1>1, <1>2, <1>3 DEF Live
<1>5. Positions' = Positions
  BY <1>4 DEF Positions
<1>6. \A p \in Positions : Entries(p[1])' = Entries(p[1])
  BY <1>2, <1>3, PositionsAre
<1> QED
  BY <1>5, <1>6 DEF Holders
=============================================================================
