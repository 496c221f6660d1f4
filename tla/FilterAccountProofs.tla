------------------------ MODULE FilterAccountProofs ------------------------
(***************************************************************************)
(* The accounts of the packet filter: while nothing has gone wrong, the    *)
(* counts are exact, nothing is left behind in the kernel, and the rules   *)
(* of an address list stand while it has addresses.                        *)
(***************************************************************************)
EXTENDS PacketFilterRouterProofs

(* A leaf that names no prover is tried with these, in turn *)
USE SMT, Zenon, Z3, SMTT(10)

---------------------------------------------------------------------------
(* The counts are exact and nothing is left behind.  The invariant above   *)
(* only bounds the counts from below; while nothing has gone wrong more is *)
(* true, and it rests on every rule being found again after the flush.     *)

(* No kernel call failed and no lookup was answered wrongly.               *)
Sound == up /\ "race" \notin spoiled /\ faults = 0
Clean == up /\ spoiled = {} /\ faults = 0

(* The rules looked up so far are in the kernel or queued; after the flush *)
(* all of them are in the kernel, and each one visited has been counted.   *)
Found ==
  Sound =>
    /\ op.kind = "lookup" =>
         \A i \in DOMAIN op.todo : i < op.i => \E h \in nft \cup batch.rules : h.rule = op.todo[i]
    /\ op.kind = "ref" =>
         /\ \A i \in DOMAIN op.todo : \E h \in nft : h.rule = op.todo[i]
         /\ Len(op.saved) = op.i - 1

(* What the call under way will still give a holder or delete.             *)
Owed(h) ==
  \/ op.kind = "ref" /\ \E i \in DOMAIN op.todo : i >= op.i /\ h.rule = op.todo[i]
  \/ op.kind = "delete" /\ h \in batch.delRules

Exactly == \A h \in Handles : ruleRef[h] = Cardinality(Holders(h))
Single == \A x, y \in nft \cup batch.rules : x.rule = y.rule => x = y
Needed == \A h \in nft : Holders(h) # {} \/ Owed(h)
QueuedOnce ==
  /\ op.kind # "lookup" => batch.rules = {}
  /\ op.kind = "lookup" =>
       /\ Distinct(op.todo)
       /\ \A h \in batch.rules : \E i \in DOMAIN op.todo : i < op.i /\ h.rule = op.todo[i]

Accounted == Clean => Exactly /\ Single /\ Needed /\ QueuedOnce

(* A rule that is given its handle is one of those being saved; the record *)
(* of a save that has just begun has its type.                             *)
LEMMA RefShape ==
  ASSUME TypeOK, SaveRef
  PROVE  op \in SaveCall /\ op.kind = "ref" /\ op.i \in DOMAIN op.todo /\ op.i \in Nat
BY OpShape DEF SaveRef, SaveCall

LEMMA LookupShape ==
  ASSUME TypeOK', op'.kind = "lookup"
  PROVE  op' \in SaveCall
BY DEF TypeOK, SaveCall, DeleteCall, PruneCall, ListCall, Idle

(* A call that starts leaves the kernel alone, and what it saves is one of *)
(* the lists.                                                              *)
Starts ==
  /\ op = Idle
  /\ UNCHANGED <<up, nft, ruleMap, ruleRef, faults>>
  /\ spoiled \subseteq spoiled'
  /\ batch'.rules = batch.rules
  /\ \/ op' = op
     \/ op'.kind = "listflush"
     \/ \E k, t : DeleteFilter(k, t)
     \/ \E k, l : SaveFilterRules(k, l) /\ (spoiled' = {} => Distinct(l))

LEMMA CallsStart ==
  ASSUME [Next]_vars
  PROVE  \/ UNCHANGED vars \/ NewFilterRouter \/ Save \/ Delete \/ ListFlush \/ Clear
         \/ Starts
<1> USE DEF kernel
<1>q. ASSUME NEW o, NEW a, NEW d, batch' = Queued(o, a, d)
      PROVE  batch'.rules = batch.rules
  BY <1>q DEF Queued
<1>1. ASSUME NEW g \in Groups, SetSecurityGroups(g)
      PROVE  Starts
  <2>1. op = Idle /\ UNCHANGED <<up, nft, ruleMap, ruleRef, faults>> /\ spoiled \subseteq spoiled'
    BY <1>1 DEF SetSecurityGroups, Ready
  <2>2. batch'.rules = batch.rules
    BY <1>1, <1>q DEF SetSecurityGroups
  <2>3. SaveFilterRules(SecurityGroupKey(g), GroupRules(g))
    BY <1>1 DEF SetSecurityGroups
  <2>4. spoiled' = {} => ~ Overwritten(g)
    BY <1>1 DEF SetSecurityGroups, Overwritten
  <2>5. spoiled' = {} => Distinct(GroupRules(g))
    BY <2>4, ListsDistinct
  <2> QED
    BY <2>1, <2>2, <2>3, <2>5 DEF Starts
<1>2. ASSUME NEW g \in Groups, DeleteSecurityGroups(g)
      PROVE  Starts
  <2>1. batch'.rules = batch.rules
    BY <1>2, <1>q DEF DeleteSecurityGroups
  <2>2. \E k, t : DeleteFilter(k, t)
    BY <1>2 DEF DeleteSecurityGroups
  <2> QED
    BY <1>2, <2>1, <2>2 DEF Starts, DeleteSecurityGroups, Saved
<1>3. ASSUME NEW f \in PortForwards, ForwardPort(f) \/ DeleteForwardPort(f)
      PROVE  Starts
  <2>1. Distinct(PortForwardRules(f))
    BY ListsDistinct
  <2> QED
    BY <1>3, <2>1 DEF Starts, ForwardPort, DeleteForwardPort, Ready, Saved
<1>4. ASSUME NEW t \in Traffics, ForwardTraffic(t) \/ DeleteForwardTraffic(t)
      PROVE  Starts
  <2>1. Distinct(TrafficRules(t))
    BY ListsDistinct
  <2> QED
    BY <1>4, <2>1 DEF Starts, ForwardTraffic, DeleteForwardTraffic, Ready, Saved
<1>5. ASSUME NEW k, NEW l, Distinct(l), NEW ips, AddIPs(k, l, ips)
      PROVE  Starts
  <2>1. batch'.rules = batch.rules
    BY <1>5, <1>q DEF AddIPs
  <2> QED
    BY <1>5, <2>1 DEF Starts, AddIPs
<1>6. ASSUME NEW k, NEW ips, DeleteIPs(k, ips)
      PROVE  Starts
  <2>1. batch'.rules = batch.rules
    BY <1>6, <1>q DEF DeleteIPs
  <2> QED
    BY <1>6, <2>1 DEF Starts, DeleteIPs
<1>7. Distinct(DenyListRules) /\ Distinct(AllowListRules)
  BY ListsDistinct
<1>8. ASSUME NEW ips, \/ AddIPsToDenyList(ips) \/ AddIPsToAllowList(ips)
                      \/ DeleteIPsFromDenyList(ips) \/ DeleteIPsFromAllowList(ips)
      PROVE  Starts
  BY <1>5, <1>6, <1>7, <1>8 DEF AddIPsToDenyList, AddIPsToAllowList,
       DeleteIPsFromDenyList, DeleteIPsFromAllowList
<1> QED
  BY <1>1, <1>2, <1>3, <1>4, <1>8 DEF Next

(* What a lookup answers when no lookup is answered wrongly.               *)
LEMMA AnswerExact ==
  ASSUME TypeOK, NEW rule, NEW found \in FindRuleInList(rule), Looked(rule, found), "race" \notin spoiled'
  PROVE  /\ spoiled' = spoiled
         /\ found = NoRule => Matches(rule) = {}
         /\ found # NoRule => found \in nft /\ found.rule = rule
<1>1. found \in Exact(rule) /\ spoiled' = spoiled
  BY DEF Looked
<1>2. \A h \in nft : h # NoRule
  BY DEF TypeOK, Handles, NoRule
<1> QED
  BY <1>1, <1>2 DEF Exact, Matches

(* The lookup of a rule finds it or queues a copy of it.                   *)
LEMMA LookupStep ==
  ASSUME TypeOK, BatchShape, SaveLookup, "race" \notin spoiled'
  PROVE  /\ spoiled' = spoiled
         /\ op \in SaveCall /\ op.i \in DOMAIN op.todo
         /\ op'.kind = "lookup" /\ op'.todo = op.todo /\ op'.i = op.i + 1
         /\ \/ batch' = batch /\ \E h \in nft : h.rule = op.todo[op.i]
            \/ /\ \A h \in nft : h.rule # op.todo[op.i]
               /\ \E h \in Handles : h.rule = op.todo[op.i] /\ batch'.rules = batch.rules \cup {h}
<1>1. op \in SaveCall
  BY OpShape DEF SaveLookup
<1>2. op'.kind = "lookup" /\ op'.todo = op.todo /\ op'.i = op.i + 1
  BY <1>1 DEF SaveLookup, SaveCall
<1>3. op.i \in DOMAIN op.todo
  BY <1>1 DEF SaveLookup, SaveCall
<1>4. PICK found \in FindRuleInList(op.todo[op.i]) :
        /\ Looked(op.todo[op.i], found)
        /\ IF found = NoRule
           THEN \E h \in Handles : h.rule = op.todo[op.i] /\ batch' = [batch EXCEPT !.rules = @ \cup {h}]
           ELSE batch' = batch
  BY DEF SaveLookup
<1>5. /\ spoiled' = spoiled
      /\ found = NoRule => Matches(op.todo[op.i]) = {}
      /\ found # NoRule => found \in nft /\ found.rule = op.todo[op.i]
  BY <1>4, AnswerExact
<1>6. CASE found = NoRule
  <2>1. PICK h \in Handles : h.rule = op.todo[op.i] /\ batch' = [batch EXCEPT !.rules = @ \cup {h}]
    BY <1>4, <1>6
  <2>2. batch'.rules = batch.rules \cup {h}
    BY <2>1 DEF BatchShape
  <2> QED
    BY <1>1, <1>2, <1>3, <1>5, <1>6, <2>1, <2>2 DEF Matches
<1>7. CASE found # NoRule
  BY <1>1, <1>2, <1>3, <1>4, <1>5, <1>7
<1> QED
  BY <1>6, <1>7

(* Every rule a save looks up is there when it comes back for it.          *)
LEMMA FoundKept ==
  ASSUME IInv, Found, [Next]_vars
  PROVE  Found'
<1> USE DEF kernel
<1>0. TypeOK /\ BatchShape /\ (op.kind # "delete" => batch.delRules = {})
  BY DEF IInv, OnlyDeleting
<1>1. CASE op'.kind \notin {"lookup", "ref"}
  BY <1>1 DEF Found
<1>2. CASE UNCHANGED vars
  BY <1>2 DEF Found, vars, Sound
<1>3. CASE SaveLookup
  <2> SUFFICES ASSUME Sound' PROVE Found'
    BY DEF Found
  <2>1. Sound /\ "race" \notin spoiled' /\ nft' = nft
    BY <1>3, LookupStep DEF Sound, SaveLookup, Looked
  <2>2. op.kind = "lookup"
    BY <1>3 DEF SaveLookup
  <2>3. \A i \in DOMAIN op.todo : i < op.i => \E h \in nft \cup batch.rules : h.rule = op.todo[i]
    BY <2>1, <2>2 DEF Found
  <2>4. /\ op \in SaveCall /\ op.i \in DOMAIN op.todo
        /\ op'.kind = "lookup" /\ op'.todo = op.todo /\ op'.i = op.i + 1
        /\ batch.rules \subseteq batch'.rules
        /\ \E h \in nft \cup batch'.rules : h.rule = op.todo[op.i]
    BY <1>0, <1>3, <2>1, LookupStep
  <2>5. \A i \in DOMAIN op.todo : i < op.i + 1 => i < op.i \/ i = op.i
    BY <2>4 DEF SaveCall
  <2>6. \A i \in DOMAIN op'.todo : i < op'.i => \E h \in nft' \cup batch'.rules : h.rule = op'.todo[i]
    BY <2>1, <2>3, <2>4, <2>5
  <2> QED
    BY <2>4, <2>6 DEF Found
<1>4. CASE SaveFlush
  <2> SUFFICES ASSUME Sound', op'.kind = "ref" PROVE Found'
    BY <1>4 DEF Found, SaveFlush, Saving, Idle
  <2>1. op.kind = "lookup" /\ FlushOK /\ op' = Saving("ref", op.key, op.todo, 1, <<>>) /\ Sound
    BY <1>4 DEF SaveFlush, Idle, Sound
  <2>2. op \in SaveCall /\ op.i > Len(op.todo)
    BY <1>0, <1>4, OpShape DEF SaveFlush
  <2>3. \A i \in DOMAIN op.todo : i < op.i
    BY <2>2 DEF SaveCall
  <2>4. nft' = nft \cup batch.rules
    BY <1>0, <2>1 DEF FlushOK
  <2>5. op'.todo = op.todo /\ op'.i = 1 /\ op'.saved = <<>> /\ Len(<<>>) = 1 - 1
    BY <2>1 DEF Saving
  <2> QED
    BY <2>1, <2>3, <2>4, <2>5 DEF Found
<1>5. CASE SaveRef
  <2> SUFFICES ASSUME Sound', op'.kind = "ref" PROVE Found'
    BY <1>1, <1>5 DEF Found, SaveRef, Saving, Idle
  <2>1. op.kind = "ref" /\ nft' = nft /\ Sound
    BY <1>5 DEF SaveRef, Sound, Looked
  <2>2. op \in SaveCall
    BY <1>0, <2>1, OpShape
  <2>3. PICK x : op' = Saving("ref", op.key, op.todo, op.i + 1, Append(op.saved, x))
    BY <1>5 DEF SaveRef, Idle
  <2>4. op'.todo = op.todo /\ op'.i = op.i + 1 /\ op'.saved = Append(op.saved, x)
    BY <2>3 DEF Saving
  <2>5. Len(op.saved) = op.i - 1 /\ \A i \in DOMAIN op.todo : \E h \in nft : h.rule = op.todo[i]
    BY <2>1 DEF Found
  <2>6. Len(Append(op.saved, x)) = op.i
    BY <2>2, <2>5 DEF SaveCall
  <2>7. Len(op'.saved) = op'.i - 1
    BY <2>2, <2>4, <2>6 DEF SaveCall
  <2> QED
    BY <2>1, <2>4, <2>5, <2>7 DEF Found
<1>6. CASE Starts /\ op'.kind = "lookup"
  <2>1. op'.i = 1 /\ op'.kind = "lookup"
    BY <1>6 DEF Starts, SaveFilterRules, Saving, DeleteFilter, Idle
  <2>2. \A k, l : SaveFilterRules(k, l) => op'.todo = l
    BY DEF SaveFilterRules, Saving
  <2>3. op' \in SaveCall
    BY <1>0, <2>1, TypesKept, LookupShape
  <2>4. \A i \in DOMAIN op'.todo : ~ (i < op'.i)
    BY <2>1, <2>3 DEF SaveCall
  <2> QED
    BY <2>1, <2>4 DEF Found
<1>7. (NewFilterRouter \/ GetRulesFails \/ SaveDone \/ Delete \/ ListFlush \/ Clear) => op'.kind \notin {"lookup", "ref"}
  <2>1. NewFilterRouter \/ GetRulesFails \/ SaveDone \/ Clear => op' = Idle
    BY Zenon DEF NewFilterRouter, GetRulesFails, SaveDone, Clear
  <2>2. Delete => op'.kind \in {"delete", "idle", "prune"}
    <3>1. DeleteRule => op'.kind = "delete"
      BY <1>0, OpShape DEF DeleteRule, DeleteCall
    <3>2. DeleteFlush \/ PruneVmaps => op'.kind \in {"idle", "prune"}
      BY DEF DeleteFlush, PruneVmaps, Idle
    <3> QED
      BY <3>1, <3>2 DEF Delete
  <2>3. ListFlush => op'.kind \in {"idle", "delete"}
    BY DEF ListFlush, DeleteFilter, Idle
  <2> QED
    BY <2>1, <2>2, <2>3 DEF Idle
<1>8. Starts => op'.kind # "ref"
  BY DEF Starts, SaveFilterRules, Saving, DeleteFilter, Idle
<1> QED
  BY <1>1, <1>2, <1>3, <1>4, <1>5, <1>6, <1>7, <1>8, CallsStart DEF Save

(* A step that leaves the holders and the counts alone, and does not stop  *)
(* owing a rule that is still there, keeps the counts exact.               *)
LEMMA StillAccounted ==
  ASSUME Accounted, Clean' => Clean, ruleRef' = ruleRef, \A h : Holders(h)' = Holders(h),
         Clean' => (nft' \subseteq nft /\ batch'.rules \subseteq batch.rules /\ QueuedOnce'
                    /\ \A h \in nft' : Owed(h) => Owed(h)')
  PROVE  Accounted'
<1> SUFFICES ASSUME Clean' PROVE Exactly' /\ Single' /\ Needed' /\ QueuedOnce'
  BY DEF Accounted
<1>1. Exactly /\ Single /\ Needed
  BY DEF Accounted
<1>2. Exactly'
  BY <1>1 DEF Exactly
<1>3. Single'
  BY <1>1 DEF Single
<1>4. Needed'
  BY <1>1 DEF Needed
<1> QED
  BY <1>2, <1>3, <1>4

(* While nothing goes wrong, counts stay exact and each rule installed has *)
(* a holder or is about to get one or to go.                               *)
LEMMA AccountedKept ==
  ASSUME FiniteFacts, IInv, Found, Accounted, [Next]_vars
  PROVE  Accounted'
<1> USE DEF kernel
<1>0. TypeOK /\ TypeOK' /\ BatchShape /\ (op.kind # "delete" => batch.delRules = {})
  BY TypesKept DEF IInv, OnlyDeleting
<1>t. faults \in Nat
  BY <1>0 DEF TypeOK
<1>f. FlushFails => faults' # 0
  BY <1>t DEF FlushFails
<1>h. \A h : IsFiniteSet(Holders(h)) /\ Cardinality(Holders(h)) \in Nat
  BY CountSubset DEF IInv, Holders
<1>c. Clean => Sound
  BY DEF Clean, Sound
<1>1. CASE UNCHANGED vars
  <2>1. \A h : Holders(h)' = Holders(h)
    BY <1>1 DEF vars, Holders, Positions, Live, Entries
  <2> QED
    BY <1>1, <2>1, StillAccounted DEF Accounted, vars, Clean, QueuedOnce, Owed
<1>2. CASE NewFilterRouter
  <2> SUFFICES ASSUME Clean' PROVE Exactly' /\ Single' /\ Needed' /\ QueuedOnce'
    BY DEF Accounted
  <2>1. nft' = {} /\ batch'.rules = {} /\ op'.kind = "idle"
    BY <1>2 DEF NewFilterRouter, NoBatch, Idle, Clean
  <2>2. \A k \in Keys : Entries(k)' = <<>>
    BY <1>2 DEF NewFilterRouter, Entries, Idle
  <2>3. Positions' = {}
    BY <2>2 DEF Positions, Live
  <2>4. \A h : Holders(h)' = {}
    BY <2>3 DEF Holders
  <2>5. Exactly'
    <3>1. Cardinality({}) = 0 /\ \A h \in Handles : ruleRef'[h] = 0
      BY <1>2 DEF FiniteFacts, NewFilterRouter
    <3> QED
      BY <2>4, <3>1 DEF Exactly
  <2> QED
    BY <2>1, <2>5 DEF Single, Needed, QueuedOnce
<1>3. CASE GetRulesFails \/ Clear
  <2>1. ~ Clean'
    BY <1>3, <1>t DEF GetRulesFails, Clear, Clean
  <2> QED
    BY <2>1 DEF Accounted
<1>4. CASE SaveLookup
  <2> SUFFICES ASSUME Clean' PROVE Exactly' /\ Single' /\ Needed' /\ QueuedOnce'
    BY DEF Accounted
  <2>1. "race" \notin spoiled' /\ nft' = nft /\ ruleRef' = ruleRef /\ ruleMap' = ruleMap /\ op.kind = "lookup"
    BY <1>4 DEF Clean, SaveLookup
  <2>2. /\ spoiled' = spoiled
        /\ op \in SaveCall /\ op.i \in DOMAIN op.todo
        /\ op'.kind = "lookup" /\ op'.todo = op.todo /\ op'.i = op.i + 1
    BY <1>0, <1>4, <2>1, LookupStep
  <2>3. Clean
    BY <1>4, <2>2 DEF Clean, SaveLookup
  <2>4. Exactly /\ Single /\ Needed /\ QueuedOnce
    BY <2>3 DEF Accounted
  <2>5. \A h : Holders(h)' = Holders(h)
    BY <1>0, <2>1, <2>2, HoldersSame
  <2>6. Exactly'
    BY <2>1, <2>4, <2>5 DEF Exactly
  <2>7. Needed'
    BY <2>1, <2>4, <2>5 DEF Needed, Owed
  <2>8. /\ Distinct(op.todo)
        /\ \A h \in batch.rules : \E i \in DOMAIN op.todo : i < op.i /\ h.rule = op.todo[i]
    BY <2>1, <2>4 DEF QueuedOnce
  <2>9. op.i < op.i + 1 /\ \A i \in DOMAIN op.todo : i < op.i => i < op.i + 1 /\ i # op.i
    BY <2>2 DEF SaveCall
  <2>10. CASE batch' = batch
    <3>1. QueuedOnce'
      BY <2>2, <2>8, <2>9, <2>10 DEF QueuedOnce
    <3> QED
      BY <2>1, <2>4, <2>6, <2>7, <2>10, <3>1 DEF Single
  <2>11. CASE batch' # batch
    <3>1. PICK h \in Handles : h.rule = op.todo[op.i] /\ batch'.rules = batch.rules \cup {h}
      BY <1>0, <1>4, <2>1, <2>11, LookupStep
    <3>2. \A x \in nft : x.rule # op.todo[op.i]
      BY <1>0, <1>4, <2>1, <2>11, LookupStep
    <3>3. \A x \in batch.rules : x.rule # op.todo[op.i]
      BY <2>2, <2>8, <2>9 DEF Distinct
    <3>4. Single'
      BY <2>1, <2>4, <3>1, <3>2, <3>3 DEF Single
    <3>5. QueuedOnce'
      BY <2>2, <2>8, <2>9, <3>1 DEF QueuedOnce
    <3> QED
      BY <2>6, <2>7, <3>4, <3>5
  <2> QED
    BY <2>10, <2>11
<1>5. CASE SaveFlush
  <2> SUFFICES ASSUME Clean' PROVE Exactly' /\ Single' /\ Needed' /\ QueuedOnce'
    BY DEF Accounted
  <2>1. /\ op.kind = "lookup" /\ FlushOK /\ op' = Saving("ref", op.key, op.todo, 1, <<>>)
        /\ ruleRef' = ruleRef /\ ruleMap' = ruleMap /\ Clean
    BY <1>5, <1>f DEF SaveFlush, Clean
  <2>2. Exactly /\ Single /\ Needed /\ QueuedOnce
    BY <2>1 DEF Accounted
  <2>3. op'.kind = "ref" /\ op'.todo = op.todo /\ op'.i = 1 /\ op'.saved = <<>>
    BY <2>1 DEF Saving
  <2>4. nft' = nft \cup batch.rules /\ batch'.rules = {}
    BY <1>0, <2>1 DEF FlushOK, NoBatch
  <2>5. \A h : Holders(h)' = Holders(h)
    BY <1>0, <2>1, <2>3, HoldersSame
  <2>6. Exactly'
    BY <2>1, <2>2, <2>5 DEF Exactly
  <2>7. Single' /\ QueuedOnce'
    BY <2>2, <2>3, <2>4 DEF Single, QueuedOnce
  <2>8. Needed'
    <3>1. \A i \in DOMAIN op.todo : i >= 1
      <4>1. op \in SaveCall
        BY <1>0, <2>1, OpShape
      <4> QED
        BY <4>1 DEF SaveCall
    <3>2. \A h \in batch.rules : Owed(h)'
      BY <2>1, <2>2, <2>3, <3>1 DEF QueuedOnce, Owed
    <3>3. \A h \in nft : Holders(h)' # {}
      BY <2>1, <2>2, <2>5 DEF Needed, Owed
    <3> QED
      BY <2>4, <3>2, <3>3 DEF Needed
  <2> QED
    BY <2>6, <2>7, <2>8
<1>7. CASE SaveDone
  <2>1. Positions' = Positions /\ \A k \in Keys : Entries(k)' = Entries(k)
    BY <1>0, <1>7, PlacesMoved
  <2>2. \A h : Holders(h)' = Holders(h)
    BY <2>1, PositionsAre DEF Holders
  <2>3. op \in SaveCall /\ op.i > Len(op.todo) /\ op.kind = "ref" /\ op' = Idle
    BY <1>0, <1>7, OpShape DEF SaveDone
  <2>4. \A h : ~ Owed(h)
    BY <2>3 DEF Owed, SaveCall
  <2>5. (Clean' => Clean) /\ nft' = nft /\ ruleRef' = ruleRef /\ batch' = batch
    BY <1>7 DEF SaveDone, Clean
  <2>6. Clean' => QueuedOnce'
    BY <2>3, <2>5 DEF Accounted, QueuedOnce, Idle
  <2> QED
    BY <2>2, <2>4, <2>5, <2>6, StillAccounted
<1>9. CASE DeleteFlush
  <2>1. \A h : Holders(h)' = Holders(h)
    BY <1>0, <1>9, HoldersDropped
  <2>2. Clean' => FlushOK /\ Clean
    BY <1>9, <1>f DEF DeleteFlush, Clean
  <2>3. Clean' => batch.rules = {}
    BY <1>9, <2>2 DEF Accounted, QueuedOnce, DeleteFlush
  <2>4. Clean' => nft' = nft \ batch.delRules /\ batch'.rules = {}
    BY <2>2, <2>3 DEF FlushOK, NoBatch
  <2>5. ruleRef' = ruleRef /\ op.kind = "delete" /\ op'.kind \in {"idle", "prune"}
    BY <1>9 DEF DeleteFlush, Idle
  <2>6. Clean' => QueuedOnce'
    BY <2>4, <2>5 DEF QueuedOnce
  <2>7. Clean' => \A h \in nft' : ~ Owed(h)
    BY <2>4, <2>5 DEF Owed
  <2> QED
    BY <2>1, <2>2, <2>3, <2>4, <2>5, <2>6, <2>7, StillAccounted
<1>10. CASE PruneVmaps
  <2>1. /\ op.kind = "prune" /\ op' = Idle
        /\ nft' = nft /\ batch' = batch /\ ruleMap' = ruleMap /\ ruleRef' = ruleRef
        /\ spoiled' = spoiled /\ up' = up
    BY <1>10 DEF PruneVmaps
  <2>2. faults' = 0 => faults = 0
    BY <1>10, <1>t DEF PruneVmaps
  <2>3. \A h : Holders(h)' = Holders(h)
    BY <1>0, <2>1, HoldersSame DEF Idle
  <2>4. Clean' => Clean
    BY <2>1, <2>2 DEF Clean
  <2>5. Clean' => QueuedOnce'
    BY <2>1, <2>4 DEF Accounted, QueuedOnce, Idle
  <2>6. \A h : ~ Owed(h)
    BY <2>1 DEF Owed
  <2> QED
    BY <2>1, <2>3, <2>4, <2>5, <2>6, StillAccounted
<1>11. CASE ListFlush
  <2>1. /\ op.kind = "listflush" /\ op'.kind \in {"idle", "delete"} /\ (op'.kind = "delete" => op'.i = 1)
        /\ ruleMap' = ruleMap /\ ruleRef' = ruleRef /\ spoiled' = spoiled /\ up' = up
    BY <1>11 DEF ListFlush, DeleteFilter, Idle
  <2>2. faults' = 0 => FlushOK /\ faults = 0
    BY <1>11, <1>f, <1>t DEF ListFlush
  <2>3. \A h : Holders(h)' = Holders(h)
    BY <1>0, <2>1, HoldersSame
  <2>4. Clean' => Clean /\ FlushOK
    BY <2>1, <2>2 DEF Clean
  <2>5. Clean' => batch.rules = {}
    BY <2>1, <2>4 DEF Accounted, QueuedOnce
  <2>6. Clean' => nft' = nft /\ batch'.rules = {}
    BY <1>0, <2>1, <2>4, <2>5 DEF FlushOK, NoBatch
  <2>7. Clean' => QueuedOnce'
    BY <2>1, <2>6 DEF QueuedOnce
  <2>8. \A h : ~ Owed(h)
    BY <2>1 DEF Owed
  <2> QED
    BY <2>1, <2>3, <2>4, <2>5, <2>6, <2>7, <2>8, StillAccounted
<1>12. CASE Starts
  <2>1. /\ op.kind = "idle" /\ op'.kind # "ref" /\ (op'.kind = "delete" => op'.i = 1)
        /\ nft' = nft /\ ruleMap' = ruleMap /\ ruleRef' = ruleRef /\ batch'.rules = batch.rules
    BY <1>12 DEF Starts, SaveFilterRules, Saving, DeleteFilter, Idle
  <2>2. Clean' => Clean /\ spoiled' = {}
    BY <1>12 DEF Starts, Clean
  <2>3. \A h : Holders(h)' = Holders(h)
    BY <1>0, <2>1, HoldersSame
  <2>4. Clean' => batch.rules = {}
    BY <2>1, <2>2 DEF Accounted, QueuedOnce
  <2>5. Clean' /\ op'.kind = "lookup" => Distinct(op'.todo)
    BY <1>12, <2>2 DEF Starts, SaveFilterRules, Saving, DeleteFilter, Idle
  <2>6. Clean' => QueuedOnce'
    BY <2>1, <2>4, <2>5 DEF QueuedOnce
  <2>7. \A h : ~ Owed(h)
    BY <2>1 DEF Owed
  <2> QED
    BY <2>1, <2>2, <2>3, <2>4, <2>6, <2>7, StillAccounted
<1>8. CASE DeleteRule
  <2> SUFFICES ASSUME Clean' PROVE Exactly' /\ Single' /\ Needed' /\ QueuedOnce'
    BY DEF Accounted
  <2> DEFINE q == <<op.key, op.i>>
             h == ruleMap[op.key][op.i].handle
  <2>1. op \in DeleteCall /\ op.kind = "delete"
    BY <1>0, <1>8, OpShape DEF DeleteRule
  <2>2. op'.kind = "delete"
    BY <1>8, <2>1 DEF DeleteRule, DeleteCall
  <2>3. h \in Handles /\ q \in Holders(h) /\ \A g : Holders(g)' = Holders(g) \ (IF g = h THEN {q} ELSE {})
    BY <1>0, <1>8, RefGiven
  <2>4. nft' = nft /\ Clean /\ ruleRef' = [ruleRef EXCEPT ![h] = @ - 1]
    BY <1>8 DEF DeleteRule, Clean
  <2>5. /\ batch'.delRules = batch.delRules \cup (IF ruleRef[h] = 1 THEN {h} ELSE {})
        /\ batch'.rules = batch.rules
    BY <1>0, <1>8 DEF DeleteRule, BatchShape
  <2>6. Exactly /\ Single /\ Needed /\ QueuedOnce
    BY <2>4 DEF Accounted
  <2> HIDE DEF q, h
  <2>7. /\ Cardinality(Holders(h)) \in Nat
        /\ Cardinality(Holders(h) \ {q}) = Cardinality(Holders(h)) - 1
        /\ IsFiniteSet(Holders(h) \ {q})
    BY <1>h, <2>3, CountRemove
  <2>8. ruleRef \in [Handles -> Int] /\ ruleRef[h] = Cardinality(Holders(h))
    BY <1>0, <2>3, <2>6 DEF TypeOK, Exactly
  <2>9. Exactly'
    <3> SUFFICES ASSUME NEW g \in Handles PROVE ruleRef'[g] = Cardinality(Holders(g)')
      BY DEF Exactly
    <3>1. CASE g = h
      BY <2>3, <2>4, <2>7, <2>8, <3>1, Zenon
    <3>2. CASE g # h
      <4>1. ruleRef'[g] = ruleRef[g]
        BY <2>4, <2>8, <3>2
      <4>2. Holders(g)' = Holders(g)
        BY <2>3, <3>2, Zenon
      <4> QED
        BY <2>6, <4>1, <4>2 DEF Exactly
    <3> QED
      BY <3>1, <3>2
  <2>10. Needed'
    <3> SUFFICES ASSUME NEW g \in nft PROVE Holders(g)' # {} \/ Owed(g)'
      BY <2>4 DEF Needed
    <3>1. CASE Owed(g)
      BY <2>1, <2>2, <2>5, <3>1 DEF Owed
    <3>2. CASE Holders(g) # {} /\ g # h
      BY <2>3, <3>2
    <3>3. CASE g = h /\ ruleRef[h] = 1
      BY <2>2, <2>5, <3>3 DEF Owed
    <3>4. CASE g = h /\ ruleRef[h] # 1
      <4>1. Cardinality(Holders(h) \ {q}) # 0
        BY <2>7, <2>8, <3>4
      <4>2. Holders(h) \ {q} # {}
        BY <4>1 DEF FiniteFacts
      <4> QED
        BY <2>3, <3>4, <4>2
    <3> QED
      BY <2>6, <3>1, <3>2, <3>3, <3>4 DEF Needed
  <2>11. Single' /\ QueuedOnce'
    BY <2>1, <2>2, <2>4, <2>5, <2>6 DEF Single, QueuedOnce
  <2> QED
    BY <2>9, <2>10, <2>11
<1>6. CASE SaveRef
  <2> SUFFICES ASSUME Clean' PROVE Exactly' /\ Single' /\ Needed' /\ QueuedOnce'
    BY DEF Accounted
  <2>1. op \in SaveCall /\ op.kind = "ref" /\ op.i \in DOMAIN op.todo /\ op.i \in Nat
    BY <1>0, <1>6, RefShape
  <2>2. PICK found \in FindRuleInList(op.todo[op.i]) :
          /\ Looked(op.todo[op.i], found)
          /\ IF found = NoRule
             THEN op' = Idle /\ UNCHANGED ruleRef
             ELSE /\ op' = Saving("ref", op.key, op.todo, op.i + 1,
                                  Append(op.saved, [handle |-> found, rule |-> op.todo[op.i]]))
                  /\ ruleRef' = [ruleRef EXCEPT ![found] = @ + 1]
    BY <1>6 DEF SaveRef
  <2>3. "race" \notin spoiled'
    BY DEF Clean
  <2>4. /\ spoiled' = spoiled
        /\ found = NoRule => Matches(op.todo[op.i]) = {}
        /\ found # NoRule => found \in nft /\ found.rule = op.todo[op.i]
    BY <1>0, <2>2, <2>3, AnswerExact, Zenon
  <2>5. nft' = nft /\ batch' = batch /\ Clean
    BY <1>6, <2>4 DEF SaveRef, Clean
  <2>6. found # NoRule
    BY <1>c, <2>1, <2>4, <2>5 DEF Found, Matches
  <2>7. op'.kind = "ref" /\ op'.todo = op.todo /\ op'.i = op.i + 1
    BY <2>2, <2>6 DEF Saving
  <2>8. ruleRef' = [ruleRef EXCEPT ![found] = @ + 1]
    BY <2>2, <2>6
  <2>9. PICK q : RefAt(q, found, op.todo[op.i])
    BY <1>0, <1>6, <2>2, <2>6, RefTaken
  <2>10. \A g : Holders(g)' = Holders(g) \cup (IF g = found THEN {q} ELSE {})
    BY <2>9 DEF RefAt
  <2>11. q \notin Holders(found)
    BY <2>9 DEF RefAt, Holders
  <2>12. Cardinality(Holders(found) \cup {q}) = Cardinality(Holders(found)) + 1
    BY <1>h, <2>11, CountAdd
  <2>13. Exactly /\ Single /\ Needed /\ QueuedOnce
    BY <2>5 DEF Accounted
  <2>14. ruleRef \in [Handles -> Int] /\ found \in Handles
    BY <1>0, <2>4, <2>6, Zenon DEF TypeOK
  <2>15. Exactly'
    <3> SUFFICES ASSUME NEW g \in Handles PROVE ruleRef'[g] = Cardinality(Holders(g)')
      BY DEF Exactly
    <3>1. CASE g = found
      <4>1. ruleRef'[g] = ruleRef[found] + 1 /\ ruleRef[found] = Cardinality(Holders(found))
        BY <2>8, <2>13, <2>14, <3>1 DEF Exactly
      <4>2. Holders(g)' = Holders(found) \cup {q}
        BY <2>10, <3>1
      <4> QED
        BY <2>12, <4>1, <4>2
    <3>2. CASE g # found
      <4>1. ruleRef'[g] = ruleRef[g]
        BY <2>8, <2>14, <3>2
      <4>2. Holders(g)' = Holders(g)
        BY ZenonT(60), <2>10, <3>2
      <4> QED
        BY <2>13, <4>1, <4>2 DEF Exactly
    <3> QED
      BY <3>1, <3>2
  <2>16. Needed'
    <3> SUFFICES ASSUME NEW g \in nft PROVE Holders(g)' # {} \/ Owed(g)'
      BY <2>5 DEF Needed
    <3>1. CASE Holders(g) # {}
      BY <2>10, <3>1
    <3>2. CASE g = found
      BY <2>10, <3>2
    <3>3. CASE Owed(g) /\ g # found
      <4>1. PICK i \in DOMAIN op.todo : i >= op.i /\ g.rule = op.todo[i]
        BY <2>1, <3>3 DEF Owed
      <4>2. i # op.i
        BY <2>4, <2>6, <2>13, <3>3, <4>1 DEF Single
      <4>3. i >= op.i + 1
        BY <2>1, <4>1, <4>2 DEF SaveCall
      <4> QED
        BY <2>7, <4>1, <4>3 DEF Owed
    <3> QED
      BY <2>13, <3>1, <3>2, <3>3 DEF Needed
  <2>17. Single' /\ QueuedOnce'
    BY <2>1, <2>5, <2>7, <2>13 DEF Single, QueuedOnce
  <2> QED
    BY <2>15, <2>16, <2>17
<1> QED
  BY <1>1, <1>2, <1>3, <1>4, <1>5, <1>6, <1>7, <1>8, <1>9, <1>10, <1>11, <1>12, CallsStart
     DEF Save, Delete

---------------------------------------------------------------------------
(* The lists: their rules stand while they have addresses.                 *)

Lists == {DenyKey, AllowKey}
Filled(list) == \E e \in elems \cup batch.add : e.set = list
OnList(kinds, list) == op.kind \in kinds /\ op.key = list

(* What is queued for deletion belongs to the call under way.              *)
DeletesOwn ==
  \A d \in batch.del : \/ op.kind = "listflush" /\ d.set = op.key
                       \/ op.kind = "delete" /\ d.set \notin Lists

(* A list has addresses from the moment its rules are being saved, and has *)
(* none from the moment they are being deleted.                            *)
ListKept(list) ==
  /\ OnList({"lookup", "ref"}, list) => Filled(list) /\ op.todo # <<>>
  /\ OnList({"delete"}, list) => ~ Filled(list)
  /\ ~ OnList({"lookup", "ref", "delete"}, list) => (ruleMap[list] # <<>> <=> Filled(list))

Listing == Sound /\ "restart" \notin spoiled
ListsKept == Listing => DeletesOwn /\ \A list \in Lists : ListKept(list)

LEMMA KeysApart ==
  /\ DenyKey # AllowKey
  /\ Lists \subseteq Keys
  /\ \A g : SecurityGroupKey(g) \notin Lists
  /\ \A g, f : PortVmap(g, f) \notin Lists
  /\ \A f : PortForwardKey(f) \notin Lists
  /\ \A t : TrafficKey(t) \notin Lists
<1>1. DenyKey[1] = "ip_denylist" /\ AllowKey[1] = "ip_allowlist"
  BY DEF DenyKey, AllowKey
<1>2. /\ \A g : SecurityGroupKey(g)[1] = "sg"
      /\ \A g, f : PortVmap(g, f)[1] = "vmap"
      /\ \A f : PortForwardKey(f)[1] = "port"
      /\ \A t : TrafficKey(t)[1] = "traffic"
  BY DEF SecurityGroupKey, PortVmap, PortForwardKey, TrafficKey
<1>3. "ip_denylist" # "ip_allowlist"
  OBVIOUS
<1>4. Lists \subseteq Keys
  BY DEF Lists, Keys
<1> QED
  BY <1>1, <1>2, <1>3, <1>4 DEF Lists

LEMMA PortsApart == \A g, fams : \A e \in PortElems(g, fams) : e.set \notin Lists
BY KeysApart DEF PortElems

(* A flush that deletes nothing of a list leaves it filled or empty.       *)
LEMMA FilledFlushed ==
  ASSUME FlushOK, NEW list, \A d \in batch.del : d.set # list
  PROVE  Filled(list)' <=> Filled(list)
<1>1. batch'.add = {} /\ elems' = {e \in elems \cup batch.add : ~ \E d \in batch.del : SameElem(d, e)}
  BY DEF FlushOK, NoBatch
<1> QED
  BY <1>1 DEF Filled, SameElem

(* A call that starts and is not about a list.                             *)
LEMMA OtherStarts ==
  ASSUME ListsKept, op = Idle, op'.kind \in {"lookup", "delete"}, op'.key \notin Lists,
         UNCHANGED <<up, elems, ruleMap, faults>>, spoiled \subseteq spoiled',
         NEW A, NEW D, batch'.add = batch.add \cup A, batch'.del = batch.del \cup D,
         \A e \in A : e.set \notin Lists, \A d \in D : op'.kind = "delete" /\ d.set \notin Lists
  PROVE  ListsKept'
<1> SUFFICES ASSUME Listing' PROVE DeletesOwn' /\ \A list \in Lists : ListKept(list)'
  BY DEF ListsKept
<1>1. Listing
  BY DEF Listing, Sound
<1>2. DeletesOwn /\ \A list \in Lists : ListKept(list)
  BY <1>1 DEF ListsKept
<1>3. batch.del = {}
  BY <1>2 DEF DeletesOwn, Idle
<1>4. DeletesOwn'
  BY <1>3 DEF DeletesOwn
<1>5. ASSUME NEW list \in Lists
      PROVE  ListKept(list)'
  <2>1. Filled(list)' <=> Filled(list)
    BY <1>5 DEF Filled
  <2>2. ruleMap[list] # <<>> <=> Filled(list)
    BY <1>2, <1>5 DEF ListKept, OnList, Idle
  <2>3. \A kinds : ~ OnList(kinds, list)'
    BY <1>5 DEF OnList
  <2> QED
    BY <2>1, <2>2, <2>3 DEF ListKept
<1> QED
  BY <1>4, <1>5

(* Every call starts with the lists as they should be.                     *)
LEMMA ListsStart ==
  ASSUME ListsKept,
         \/ \E g \in Groups : SetSecurityGroups(g) \/ DeleteSecurityGroups(g)
         \/ \E f \in PortForwards : ForwardPort(f) \/ DeleteForwardPort(f)
         \/ \E t \in Traffics : ForwardTraffic(t) \/ DeleteForwardTraffic(t)
         \/ \E ips \in (SUBSET IPs) \ {{}} :
              \/ AddIPsToDenyList(ips)
              \/ AddIPsToAllowList(ips)
              \/ DeleteIPsFromDenyList(ips)
              \/ DeleteIPsFromAllowList(ips)
  PROVE  ListsKept'
<1> USE DEF kernel
<1>q. ASSUME NEW o, NEW A, NEW D, batch' = Queued(o, A, D)
      PROVE  batch'.add = batch.add \cup A /\ batch'.del = batch.del \cup D
  BY <1>q DEF Queued
<1>s. ASSUME NEW k, NEW l, SaveFilterRules(k, l)
      PROVE  op'.kind = "lookup" /\ op'.key = k /\ op'.todo = l
  BY <1>s DEF SaveFilterRules, Saving
<1>d. ASSUME NEW k, NEW t, DeleteFilter(k, t)
      PROVE  op'.kind = "delete" /\ op'.key = k
  BY <1>d DEF DeleteFilter
<1>1. ASSUME NEW g \in Groups, SetSecurityGroups(g)
      PROVE  ListsKept'
  <2>1. op = Idle /\ UNCHANGED <<up, elems, ruleMap, faults>> /\ spoiled \subseteq spoiled'
    BY <1>1, Zenon DEF SetSecurityGroups, Ready
  <2>2. op'.kind = "lookup" /\ op'.key \notin Lists
    BY <1>1, <1>s, KeysApart, Zenon DEF SetSecurityGroups
  <2>3. batch'.add = batch.add \cup PortElems(g, FamiliesOf(g)) /\ batch'.del = batch.del \cup {}
    BY <1>1, <1>q, Zenon DEF SetSecurityGroups
  <2> QED
    BY PortsApart, <2>1, <2>2, <2>3, OtherStarts, Zenon
<1>2. ASSUME NEW g \in Groups, DeleteSecurityGroups(g)
      PROVE  ListsKept'
  <2>1. op = Idle /\ UNCHANGED <<up, elems, ruleMap, faults>> /\ spoiled' = spoiled
    BY <1>2, Zenon DEF DeleteSecurityGroups, Saved
  <2>2. PICK fams, t : /\ batch' = Queued({}, {}, PortElems(g, fams))
                       /\ DeleteFilter(SecurityGroupKey(g), t)
    BY <1>2, Zenon DEF DeleteSecurityGroups
  <2>3. op'.kind = "delete" /\ op'.key \notin Lists
    BY <1>d, <2>2, KeysApart
  <2>4. batch'.add = batch.add \cup {} /\ batch'.del = batch.del \cup PortElems(g, fams)
    BY <1>q, <2>2, Zenon
  <2> QED
    BY PortsApart, <2>1, <2>3, <2>4, OtherStarts, Zenon
<1>o. ASSUME op = Idle, UNCHANGED <<up, elems, ruleMap, faults, batch, spoiled>>, NEW k, k \notin Lists,
             (\E l : SaveFilterRules(k, l)) \/ (\E t : DeleteFilter(k, t))
      PROVE  ListsKept'
  <2>1. op'.kind \in {"lookup", "delete"} /\ op'.key \notin Lists
    BY <1>o, <1>s, <1>d
  <2>2. batch'.add = batch.add \cup {} /\ batch'.del = batch.del \cup {}
    BY <1>o
  <2> QED
    BY <1>o, <2>1, <2>2, OtherStarts, Zenon
<1>3. ASSUME NEW f \in PortForwards, ForwardPort(f) \/ DeleteForwardPort(f)
      PROVE  ListsKept'
  BY <1>3, <1>o, KeysApart DEF ForwardPort, DeleteForwardPort, Ready, Saved
<1>4. ASSUME NEW t \in Traffics, ForwardTraffic(t) \/ DeleteForwardTraffic(t)
      PROVE  ListsKept'
  BY <1>4, <1>o, KeysApart, Zenon DEF ForwardTraffic, DeleteForwardTraffic, Ready, Saved
<1>5. ASSUME NEW list \in Lists, NEW l, l # <<>>, NEW ips, ips # {}, AddIPs(list, l, ips)
      PROVE  ListsKept'
  <2> SUFFICES ASSUME Listing' PROVE DeletesOwn' /\ \A x \in Lists : ListKept(x)'
    BY DEF ListsKept
  <2>1. op = Idle /\ elems' = elems /\ ruleMap' = ruleMap /\ Listing
    BY <1>5 DEF AddIPs, Listing, Sound
  <2>2. DeletesOwn /\ \A x \in Lists : ListKept(x)
    BY <2>1 DEF ListsKept
  <2>3. batch'.add = batch.add \cup ListElems(list, ips) /\ batch'.del = batch.del \cup {}
    BY <1>5, <1>q, Zenon DEF AddIPs
  <2>4. batch.del = {}
    BY <2>1, <2>2 DEF DeletesOwn, Idle
  <2>5. DeletesOwn'
    BY <2>3, <2>4 DEF DeletesOwn
  <2>6. Filled(list)'
    BY NamedByList, <1>5, <2>3 DEF Filled
  <2>7. \A x \in Lists : ruleMap[x] # <<>> <=> Filled(x)
    BY <2>1, <2>2 DEF ListKept, OnList, Idle
  <2>8. ASSUME NEW x \in Lists, x # list
        PROVE  ListKept(x)'
    <3>1. Filled(x)' <=> Filled(x)
      BY NamedByList, <2>1, <2>3, <2>8 DEF Filled
    <3>2. \A kinds : kinds \subseteq {"lookup", "ref", "delete"} => ~ OnList(kinds, x)'
      <4>1. op' = Idle \/ op'.key = list
        BY <1>5, <1>s, <2>1 DEF AddIPs
      <4> QED
        BY <2>8, <4>1 DEF OnList, Idle
    <3> QED
      BY <2>1, <2>7, <2>8, <3>1, <3>2 DEF ListKept
  <2>9. ListKept(list)'
    <3>1. CASE ruleMap[list] = <<>>
      <4>1. op'.kind = "lookup" /\ op'.key = list /\ op'.todo = l
        BY <1>5, <1>s, <3>1, Zenon DEF AddIPs
      <4> QED
        BY <1>5, <2>6, <4>1 DEF ListKept, OnList
    <3>2. CASE ruleMap[list] # <<>>
      <4>1. op' = Idle
        BY <1>5, <2>1, <3>2, Zenon DEF AddIPs
      <4> QED
        BY <2>1, <2>6, <3>2, <4>1 DEF ListKept, OnList, Idle
    <3> QED
      BY <3>1, <3>2
  <2> QED
    BY <2>5, <2>8, <2>9
<1>6. ASSUME NEW list \in Lists, NEW ips, DeleteIPs(list, ips)
      PROVE  ListsKept'
  <2> SUFFICES ASSUME Listing' PROVE DeletesOwn' /\ \A x \in Lists : ListKept(x)'
    BY DEF ListsKept
  <2>1. op = Idle /\ elems' = elems /\ ruleMap' = ruleMap /\ Listing
    BY <1>6 DEF DeleteIPs, Listing, Sound
  <2>2. DeletesOwn /\ \A x \in Lists : ListKept(x)
    BY <2>1 DEF ListsKept
  <2>3. batch'.add = batch.add \cup {} /\ batch'.del = batch.del \cup ListElems(list, ips)
    BY <1>6, <1>q, Zenon DEF DeleteIPs
  <2>4. batch.del = {}
    BY <2>1, <2>2, Zenon DEF DeletesOwn, Idle
  <2>5. op'.kind = "listflush" /\ op'.key = list
    BY <1>6 DEF DeleteIPs
  <2>6. DeletesOwn'
    BY NamedByList, <2>3, <2>4, <2>5 DEF DeletesOwn
  <2>7. \A x \in Lists : (ruleMap[x] # <<>> <=> Filled(x)) /\ (Filled(x)' <=> Filled(x))
    BY <2>1, <2>2, <2>3, Zenon DEF ListKept, OnList, Idle, Filled
  <2> QED
    BY <2>1, <2>5, <2>6, <2>7 DEF ListKept, OnList
<1>7. DenyListRules # <<>> /\ AllowListRules # <<>> /\ DenyKey \in Lists /\ AllowKey \in Lists
  <2>1. DOMAIN DenyListRules = 1 .. 2 /\ DOMAIN AllowListRules = 1 .. 4
    BY DEF DenyListRules, AllowListRules
  <2>2. 1 \in 1 .. 2 /\ 1 \in 1 .. 4 /\ DOMAIN <<>> = {}
    OBVIOUS
  <2> QED
    BY <2>1, <2>2 DEF Lists
<1>8. ASSUME NEW ips \in (SUBSET IPs) \ {{}},
             \/ AddIPsToDenyList(ips) \/ AddIPsToAllowList(ips)
             \/ DeleteIPsFromDenyList(ips) \/ DeleteIPsFromAllowList(ips)
      PROVE  ListsKept'
  <2>1. ips # {}
    OBVIOUS
  <2>2. CASE AddIPsToDenyList(ips)
    BY <1>5, <1>7, <2>1, <2>2 DEF AddIPsToDenyList
  <2>3. CASE AddIPsToAllowList(ips)
    BY <1>5, <1>7, <2>1, <2>3 DEF AddIPsToAllowList
  <2>4. CASE DeleteIPsFromDenyList(ips) \/ DeleteIPsFromAllowList(ips)
    BY <1>6, <1>7, <2>4 DEF DeleteIPsFromDenyList, DeleteIPsFromAllowList
  <2> QED
    BY <1>8, <2>2, <2>3, <2>4
<1> QED
  BY <1>1, <1>2, <1>3, <1>4, <1>8

(* Every step keeps the lists as they should be.                           *)
LEMMA ListsStep ==
  ASSUME IInv, Found, ListsKept, [Next]_vars
  PROVE  ListsKept'
<1> USE DEF kernel
<1>0. TypeOK /\ BatchShape /\ Lists \subseteq Keys /\ faults \in Nat /\ ruleMap \in [Keys -> Seq(Entry)]
  BY KeysApart, Zenon DEF IInv, TypeOK
<1>f. FlushFails => faults' # 0
  BY <1>0 DEF FlushFails
<1>s. ASSUME Listing', Listing, ruleMap' = ruleMap, elems' = elems, batch'.add = batch.add, batch'.del = batch.del,
             op'.kind = op.kind, op.kind \in {"lookup", "ref"} => op'.todo = op.todo,
             op.kind \in {"lookup", "ref", "delete", "listflush"} => op'.key = op.key
      PROVE  DeletesOwn' /\ \A list \in Lists : ListKept(list)'
  <2>1. DeletesOwn /\ \A list \in Lists : ListKept(list)
    BY <1>s DEF ListsKept
  <2>2. DeletesOwn'
    BY <1>s, <2>1 DEF DeletesOwn
  <2>3. ASSUME NEW list \in Lists
        PROVE  ListKept(list)'
    <3>1. Filled(list)' <=> Filled(list)
      BY <1>s DEF Filled
    <3>2. ListKept(list)
      BY <2>1, <2>3
    <3> QED
      BY <1>s, <3>1, <3>2 DEF ListKept, OnList
  <2> QED
    BY <2>2, <2>3
<1>1. CASE UNCHANGED vars
  BY <1>1, <1>s DEF ListsKept, vars, Listing, Sound
<1>2. CASE NewFilterRouter
  <2> SUFFICES ASSUME Listing' PROVE DeletesOwn' /\ \A list \in Lists : ListKept(list)'
    BY DEF ListsKept
  <2>1. elems' = {} /\ batch' = NoBatch /\ op' = Idle /\ \A list \in Lists : ruleMap'[list] = <<>>
    BY <1>0, <1>2 DEF NewFilterRouter, Listing
  <2>2. \A list \in Lists : ~ Filled(list)'
    BY <2>1 DEF Filled, NoBatch
  <2> QED
    BY <2>1, <2>2 DEF DeletesOwn, ListKept, OnList, Idle, NoBatch
<1>3. CASE GetRulesFails \/ Clear
  <2>1. ~ Listing'
    BY <1>0, <1>3 DEF GetRulesFails, Clear, Listing, Sound
  <2> QED
    BY <2>1 DEF ListsKept
<1>4. CASE SaveLookup
  <2> SUFFICES ASSUME Listing' PROVE DeletesOwn' /\ \A list \in Lists : ListKept(list)'
    BY DEF ListsKept
  <2>1. op \in SaveCall /\ op.kind = "lookup"
    BY <1>0, <1>4, OpShape DEF SaveLookup
  <2>2. op'.kind = op.kind /\ op'.todo = op.todo /\ op'.key = op.key
    BY <1>4, <2>1 DEF SaveLookup, SaveCall
  <2>3. batch'.add = batch.add /\ batch'.del = batch.del
    BY <1>0, <1>4 DEF SaveLookup, BatchShape
  <2>4. ruleMap' = ruleMap /\ elems' = elems /\ Listing
    BY <1>4 DEF SaveLookup, Looked, Listing, Sound
  <2> QED
    BY <1>s, <2>2, <2>3, <2>4
<1>5. CASE SaveFlush
  <2> SUFFICES ASSUME Listing' PROVE DeletesOwn' /\ \A list \in Lists : ListKept(list)'
    BY DEF ListsKept
  <2>1. /\ op.kind = "lookup" /\ FlushOK /\ op' = Saving("ref", op.key, op.todo, 1, <<>>)
        /\ ruleMap' = ruleMap /\ Listing
    BY <1>5, <1>f DEF SaveFlush, Listing, Sound
  <2>2. DeletesOwn /\ \A list \in Lists : ListKept(list)
    BY <2>1 DEF ListsKept
  <2>3. batch.del = {} /\ batch'.del = {}
    BY <2>1, <2>2, Zenon DEF DeletesOwn, FlushOK, NoBatch
  <2>4. \A list : Filled(list)' <=> Filled(list)
    BY <2>1, <2>3, FilledFlushed, Zenon
  <2>5. op'.kind = "ref" /\ op'.key = op.key /\ op'.todo = op.todo
    BY <2>1 DEF Saving
  <2>6. DeletesOwn'
    BY <2>3 DEF DeletesOwn
  <2> QED
    BY <2>1, <2>2, <2>4, <2>5, <2>6 DEF ListKept, OnList
<1>6. CASE SaveRef
  <2> SUFFICES ASSUME Listing' PROVE DeletesOwn' /\ \A list \in Lists : ListKept(list)'
    BY DEF ListsKept
  <2>1. op \in SaveCall /\ op.kind = "ref" /\ op.i \in DOMAIN op.todo
    BY <1>0, <1>6, RefShape
  <2>2. PICK found \in FindRuleInList(op.todo[op.i]) :
          /\ Looked(op.todo[op.i], found)
          /\ IF found = NoRule
             THEN op' = Idle
             ELSE op' = Saving("ref", op.key, op.todo, op.i + 1,
                               Append(op.saved, [handle |-> found, rule |-> op.todo[op.i]]))
    BY <1>6, Zenon DEF SaveRef
  <2>3. "race" \notin spoiled'
    BY DEF Listing, Sound
  <2>4. spoiled' = spoiled /\ (found = NoRule => Matches(op.todo[op.i]) = {})
    BY <1>0, <2>2, <2>3, AnswerExact, Zenon
  <2>5. ruleMap' = ruleMap /\ elems' = elems /\ batch' = batch /\ Listing
    BY <1>6, <2>4 DEF SaveRef, Listing, Sound
  <2>6. found # NoRule
    BY <2>1, <2>4, <2>5 DEF Listing, Found, Matches
  <2>7. op'.kind = op.kind /\ op'.key = op.key /\ op'.todo = op.todo
    BY <2>1, <2>2, <2>6 DEF Saving
  <2> QED
    BY <1>s, <2>5, <2>7, Zenon
<1>7. CASE SaveDone
  <2> SUFFICES ASSUME Listing' PROVE DeletesOwn' /\ \A list \in Lists : ListKept(list)'
    BY DEF ListsKept
  <2>1. op \in SaveCall /\ op.kind = "ref" /\ op.i > Len(op.todo) /\ op' = Idle
    BY <1>0, <1>7, OpShape DEF SaveDone
  <2>2. elems' = elems /\ batch' = batch /\ ruleMap' = [ruleMap EXCEPT ![op.key] = @ \o op.saved] /\ Listing
    BY <1>7 DEF SaveDone, Listing, Sound
  <2>3. DeletesOwn /\ \A list \in Lists : ListKept(list)
    BY <2>2 DEF ListsKept
  <2>4. DeletesOwn'
    BY <2>1, <2>2, <2>3 DEF DeletesOwn
  <2>5. \A list : Filled(list)' <=> Filled(list)
    BY <2>2 DEF Filled
  <2>6. ASSUME NEW list \in Lists, list # op.key
        PROVE  ListKept(list)'
    <3>1. ruleMap'[list] = ruleMap[list]
      BY <2>2, <2>6
    <3> QED
      BY <2>1, <2>3, <2>5, <2>6, <3>1 DEF ListKept, OnList, Idle
  <2>7. ASSUME NEW list \in Lists, list = op.key
        PROVE  ListKept(list)'
    <3>1. Filled(list) /\ op.todo # <<>>
      BY <2>1, <2>3, <2>7 DEF ListKept, OnList
    <3>2. Len(op.saved) = op.i - 1
      BY <2>1, <2>2 DEF Listing, Found
    <3>3. op.todo \in Seq(Rules) /\ op.saved \in Seq(Entry) /\ op.i \in Nat /\ ruleMap[list] \in Seq(Entry)
      BY <1>0, <2>1, <2>7 DEF SaveCall
    <3>4. Len(op.todo) # 0
      BY <3>1, <3>3, SeqEmpty
    <3>5. Len(op.saved) > 0
      BY <2>1, <3>2, <3>3, <3>4
    <3>6. Len(ruleMap[list]) \in Nat /\ Len(op.saved) \in Nat
      BY <3>3, SeqLen
    <3>7. ruleMap[list] \o op.saved # <<>>
      <4> DEFINE a == ruleMap[list]
                 b == op.saved
      <4>1. a \in Seq(Entry) /\ b \in Seq(Entry) /\ Len(b) > 0 /\ Len(a) \in Nat /\ Len(b) \in Nat
        BY <3>3, <3>5, <3>6
      <4> HIDE DEF a, b
      <4>2. a \o b \in Seq(Entry) /\ Len(a \o b) = Len(a) + Len(b)
        BY <4>1, SeqConcat
      <4>3. Len(a \o b) # 0
        BY <4>1, <4>2
      <4>4. a \o b # <<>>
        BY <4>2, <4>3, SeqEmpty
      <4> QED
        BY <4>4 DEF a, b
    <3>8. ruleMap'[list] # <<>>
      BY <1>0, <2>2, <2>7, <3>7
    <3> QED
      BY <2>1, <2>5, <3>1, <3>8, Zenon DEF ListKept, OnList, Idle
  <2> QED
    BY <2>4, <2>6, <2>7
<1>8. CASE DeleteRule
  <2> SUFFICES ASSUME Listing' PROVE DeletesOwn' /\ \A list \in Lists : ListKept(list)'
    BY DEF ListsKept
  <2>1. op \in DeleteCall /\ op.kind = "delete"
    BY <1>0, <1>8, OpShape DEF DeleteRule
  <2>2. op'.kind = op.kind /\ op'.key = op.key
    BY <1>8, <2>1 DEF DeleteRule, DeleteCall
  <2>3. batch'.add = batch.add /\ batch'.del = batch.del
    BY <1>0, <1>8 DEF DeleteRule, BatchShape
  <2>4. ruleMap' = ruleMap /\ elems' = elems /\ Listing
    BY <1>8 DEF DeleteRule, Listing, Sound
  <2> QED
    BY <1>s, <2>1, <2>2, <2>3, <2>4
<1>9. CASE DeleteFlush
  <2> SUFFICES ASSUME Listing' PROVE DeletesOwn' /\ \A list \in Lists : ListKept(list)'
    BY DEF ListsKept
  <2>1. /\ op.kind = "delete" /\ FlushOK /\ op'.kind \in {"idle", "prune"}
        /\ ruleMap' = [ruleMap EXCEPT ![op.key] = <<>>] /\ Listing
    BY <1>9, <1>f DEF DeleteFlush, Listing, Sound, Idle
  <2>2. DeletesOwn /\ \A list \in Lists : ListKept(list)
    BY <2>1 DEF ListsKept
  <2>3. batch'.del = {} /\ \A list \in Lists : \A d \in batch.del : d.set # list
    BY <2>1, <2>2 DEF DeletesOwn, FlushOK, NoBatch
  <2>4. \A list \in Lists : Filled(list)' <=> Filled(list)
    BY <2>1, <2>3, FilledFlushed
  <2>5. ASSUME NEW list \in Lists
        PROVE  ruleMap'[list] # <<>> <=> Filled(list)'
    <3>1. CASE list = op.key
      <4>1. ~ Filled(list)
        BY <2>1, <2>2, <2>5, <3>1 DEF ListKept, OnList
      <4>2. ruleMap'[list] = <<>>
        BY <1>0, <2>1, <2>5, <3>1
      <4> QED
        BY <2>4, <2>5, <4>1, <4>2
    <3>2. CASE list # op.key
      <4>1. ruleMap[list] # <<>> <=> Filled(list)
        BY <2>2, <2>5, <3>2 DEF ListKept, OnList
      <4>2. ruleMap'[list] = ruleMap[list]
        BY <2>1, <3>2
      <4> QED
        BY <2>4, <2>5, <4>1, <4>2
    <3> QED
      BY <3>1, <3>2
  <2> QED
    BY <2>1, <2>3, <2>5 DEF ListKept, OnList, DeletesOwn
<1>10. CASE PruneVmaps
  <2> SUFFICES ASSUME Listing' PROVE DeletesOwn' /\ \A list \in Lists : ListKept(list)'
    BY DEF ListsKept
  <2>1. /\ op.kind = "prune" /\ op' = Idle /\ elems' = elems /\ batch' = batch
        /\ ruleMap' = ruleMap /\ spoiled' = spoiled /\ up' = up
    BY <1>10 DEF PruneVmaps
  <2>2. faults' = 0 => faults = 0
    BY <1>0, <1>10 DEF PruneVmaps
  <2>3. Listing
    BY <2>1, <2>2 DEF Listing, Sound
  <2>4. DeletesOwn /\ \A list \in Lists : ListKept(list)
    BY <2>3 DEF ListsKept
  <2>5. DeletesOwn'
    BY <2>1, <2>4 DEF DeletesOwn
  <2>6. \A list : Filled(list)' <=> Filled(list)
    BY <2>1 DEF Filled
  <2> QED
    BY <2>1, <2>4, <2>5, <2>6 DEF ListKept, OnList, Idle
<1>11. CASE ListFlush
  <2> SUFFICES ASSUME Listing' PROVE DeletesOwn' /\ \A list \in Lists : ListKept(list)'
    BY DEF ListsKept
  <2>1. op.kind = "listflush" /\ op.key \in Lists /\ ruleMap' = ruleMap
    BY <1>0, <1>11, OpShape DEF ListFlush, ListCall, Lists
  <2>2. /\ FlushOK /\ Listing
        /\ IF ruleMap[op.key] # <<>> /\ \A e \in elems' : e.set # op.key
           THEN DeleteFilter(op.key, {})
           ELSE op' = Idle
    <3>1. faults' = 0 /\ spoiled' = spoiled /\ up' = up
      BY <1>11, Zenon DEF Listing, Sound, ListFlush
    <3>2. FlushOK /\ \E unread \in SUBSET Families :
             /\ faults' = IF unread = {} THEN faults ELSE faults + 1
             /\ IF /\ ruleMap[op.key] # <<>>
                   /\ \A e \in elems' : e.set = op.key => FamilyOf[e.key] \in unread
                THEN DeleteFilter(op.key, {})
                ELSE op' = Idle
      BY <1>11, <1>f, <3>1, Zenon DEF ListFlush
    <3>3. PICK unread \in SUBSET Families :
             /\ faults' = IF unread = {} THEN faults ELSE faults + 1
             /\ IF /\ ruleMap[op.key] # <<>>
                   /\ \A e \in elems' : e.set = op.key => FamilyOf[e.key] \in unread
                THEN DeleteFilter(op.key, {})
                ELSE op' = Idle
      BY <3>2, Zenon
    <3>4. unread = {} /\ faults = 0
      BY <1>0, <3>1, <3>3
    <3> QED
      BY <3>1, <3>2, <3>3, <3>4 DEF Listing, Sound
  <2>3. DeletesOwn /\ \A list \in Lists : ListKept(list)
    BY <2>2 DEF ListsKept
  <2>4. batch' = NoBatch /\ batch'.add = {} /\ batch'.del = {}
    BY <2>2, Zenon DEF FlushOK, NoBatch
  <2>5. DeletesOwn'
    BY <2>4 DEF DeletesOwn
  <2>7. \A list \in Lists : ruleMap[list] # <<>> <=> Filled(list)
    BY <2>1, <2>3 DEF ListKept, OnList
  <2>8. ASSUME NEW list \in Lists, list # op.key
        PROVE  ListKept(list)'
    <3>1. \A d \in batch.del : d.set # list
      BY <2>1, <2>3, <2>8 DEF DeletesOwn
    <3>2. Filled(list)' <=> Filled(list)
      BY <2>2, <3>1, FilledFlushed
    <3>3. op' = Idle \/ op'.key = op.key
      BY <2>2 DEF DeleteFilter
    <3> QED
      BY <2>1, <2>7, <2>8, <3>2, <3>3 DEF ListKept, OnList, Idle
  <2>9. ASSUME NEW list \in Lists, list = op.key
        PROVE  ListKept(list)'
    <3>1. CASE ruleMap[list] # <<>> /\ \A e \in elems' : e.set # list
      <4>1. op'.kind = "delete" /\ op'.key = list
        BY <2>2, <2>9, <3>1 DEF DeleteFilter
      <4>2. ~ Filled(list)'
        BY <2>4, <3>1 DEF Filled
      <4> QED
        BY <4>1, <4>2 DEF ListKept, OnList
    <3>2. CASE ruleMap[list] # <<>> /\ \E e \in elems' : e.set = list
      <4>1. op' = Idle /\ ruleMap'[list] # <<>>
        BY <2>1, <2>2, <2>9, <3>2
      <4>2. Filled(list)'
        BY <3>2 DEF Filled
      <4> QED
        BY <4>1, <4>2 DEF ListKept, OnList, Idle
    <3>3. CASE ruleMap[list] = <<>>
      <4>1. op' = Idle /\ ruleMap'[list] = <<>>
        BY <2>1, <2>2, <2>9, <3>3
      <4>2. ~ Filled(list)
        BY <2>7, <3>3
      <4>3. elems' \subseteq elems \cup batch.add
        BY <2>2 DEF FlushOK
      <4>4. ~ Filled(list)'
        BY <2>4, <4>2, <4>3 DEF Filled
      <4> QED
        BY <4>1, <4>4 DEF ListKept, OnList, Idle
    <3> QED
      BY <3>1, <3>2, <3>3
  <2> QED
    BY <2>5, <2>8, <2>9
<1> QED
  BY <1>1, <1>2, <1>3, <1>4, <1>5, <1>6, <1>7, <1>8, <1>9, <1>10, <1>11, ListsStart
     DEF Next, Save, Delete

---------------------------------------------------------------------------
(* All of it together: what each step keeps, and what a state so kept says *)
(* between calls.                                                          *)
FullInv == IInv /\ Found /\ Accounted /\ ListsKept

LEMMA FullStep ==
  ASSUME FiniteFacts, FullInv, [Next]_vars
  PROVE  FullInv'
<1>1. IInv'
  BY StepKept DEF FullInv
<1>2. Found'
  BY FoundKept DEF FullInv
<1>3. Accounted'
  BY AccountedKept DEF FullInv
<1>4. ListsKept'
  BY ListsStep DEF FullInv
<1> QED
  BY <1>1, <1>2, <1>3, <1>4 DEF FullInv

(* At the start the router is down.                                        *)
LEMMA FullInit ==
  ASSUME FiniteFacts, Init
  PROVE  FullInv
<1>1. IInv
  BY InitHolds
<1>2. ~ up
  BY DEF Init
<1> QED
  BY <1>1, <1>2 DEF FullInv, Found, Accounted, ListsKept, Sound, Clean, Listing

LEMMA BetweenCalls ==
  ASSUME FiniteFacts, FullInv
  PROVE  NoOrphans /\ ListRulesMatch
<1>1. ASSUME spoiled = {}, faults = 0, op = Idle, up
      PROVE  /\ \A h \in Handles : ruleRef[h] = Cardinality(Holders(h))
             /\ nft = {h \in Handles : Holders(h) # {}}
             /\ \A x, y \in nft : x.rule = y.rule => x = y
  <2>1. Exactly /\ Single /\ Needed
    BY <1>1 DEF FullInv, Accounted, Clean
  <2>2. \A h : ~ Owed(h)
    BY <1>1 DEF Owed, Idle
  <2>3. \A h : Holders(h) # {} => h \in nft
    BY <1>1 DEF FullInv, IInv, Installed, Holders
  <2>4. nft \subseteq Handles
    BY DEF FullInv, IInv, TypeOK
  <2>5. nft = {h \in Handles : Holders(h) # {}}
    BY <2>1, <2>2, <2>3, <2>4 DEF Needed
  <2> QED
    BY <2>1, <2>5 DEF Exactly, Single
<1>2. ASSUME spoiled \cap {"race", "restart"} = {}, faults = 0, op = Idle, up, NEW list \in {DenyKey, AllowKey}
      PROVE  ruleMap[list] # <<>> <=> \E e \in elems \cup batch.add : e.set = list
  <2>1. ListKept(list)
    BY <1>2 DEF FullInv, ListsKept, Listing, Sound, Lists
  <2> QED
    BY <1>2, <2>1 DEF ListKept, OnList, Idle, Filled
<1> QED
  BY <1>1, <1>2 DEF NoOrphans, ListRulesMatch

-----------------------------------------------------------------------------
USE DEF IsFiniteSet, Cardinality
LOCAL INSTANCE FiniteSetTheorems

(* The sizes of finite sets, from the library *)
LEMMA FiniteFactsHold == FiniteFacts
<1>1. IsFiniteSet({}) /\ Cardinality({}) = 0
  BY FS_EmptySet
<1>2. \A S : IsFiniteSet(S) => Cardinality(S) \in Nat
  BY FS_CardinalityType
<1>3. \A S : IsFiniteSet(S) /\ Cardinality(S) = 0 => S = {}
  BY FS_EmptySet
<1>4. \A S : IsFiniteSet(S) => \A T \in SUBSET S :
        /\ IsFiniteSet(T)
        /\ Cardinality(T) <= Cardinality(S)
        /\ Cardinality(T) = Cardinality(S) => T = S
  BY FS_Subset
<1>5. \A S, x : IsFiniteSet(S) /\ x \notin S =>
        IsFiniteSet(S \cup {x}) /\ Cardinality(S \cup {x}) = Cardinality(S) + 1
  BY FS_AddElement
<1>6. \A S, x : IsFiniteSet(S) /\ x \in S =>
        IsFiniteSet(S \ {x}) /\ Cardinality(S \ {x}) = Cardinality(S) - 1
  BY FS_RemoveElement
<1> QED BY <1>1, <1>2, <1>3, <1>4, <1>5, <1>6, Zenon DEF FiniteFacts, IsFiniteSet, Cardinality

(* In every state of every behaviour the counts cover the holders, a rule  *)
(* queued for deletion has none, and while nothing has gone wrong the      *)
(* counts are exact and the lists match their rules.                       *)
THEOREM FilterInvariant == Spec => []FullInv
<1>1. FullInv /\ [Next]_vars => FullInv'
  BY FullStep, FiniteFactsHold
<1>2. Init => FullInv
  BY FullInit, FiniteFactsHold
<1> QED
  BY <1>1, <1>2, PTL DEF Spec

(* The types of the packet filter's state hold.                            *)
THEOREM FilterTypeOK == Spec => []TypeOK
<1>1. FullInv => TypeOK
  BY DEF FullInv, IInv
<1> QED
  BY <1>1, FilterInvariant, PTL

(* Whatever is saved and deleted, however many kernel calls fail and       *)
(* however often the router is replaced, a rule that a key needs stays in  *)
(* the kernel and its count covers every key that needs it.                *)
THEOREM FilterSharedRulesStay == Spec => []SharedRulesStay
<1>1. FullInv => SharedRulesStay
  BY HoldersSafe DEF FullInv
<1> QED
  BY <1>1, FilterInvariant, PTL

(* As long as no kernel call fails and none of the spoilers has happened   *)
(* (a lookup answered wrongly, groups that overlap, a group whose rules    *)
(* are overwritten, a router over old tables), saveFilterRules and         *)
(* DeleteFilter leave nothing behind and lose nothing: between calls       *)
(* ruleRef counts exactly the keys that need a rule, and the kernel holds  *)
(* exactly the rules some key needs, each once.                            *)
THEOREM FilterNoOrphans == Spec => []NoOrphans
<1>1. FullInv => NoOrphans
  BY BetweenCalls, FiniteFactsHold
<1> QED
  BY <1>1, FilterInvariant, PTL

(* However adds and deletes of addresses are interleaved with other calls, *)
(* the rules of the deny list and of the allow list are saved exactly      *)
(* while the list has addresses, in the kernel or queued.                  *)
THEOREM FilterListRulesMatch == Spec => []ListRulesMatch
<1>1. FullInv => ListRulesMatch
  BY BetweenCalls, FiniteFactsHold
<1> QED
  BY <1>1, FilterInvariant, PTL

===========================================================================
