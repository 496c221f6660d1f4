------------------------------ MODULE Counter -------------------------------
(***************************************************************************)
(* One counter, used by its owner and collected by the monitor service,    *)
(* and the abstract counter it implements.                                 *)
(***************************************************************************)
EXTENDS CounterOps

CONSTANTS
  Values,      \* arguments of Set, Add and SetInc
  MaxTotal     \* bound: the owner keeps the total within -MaxTotal..MaxTotal

ASSUME ValuesAssumption == Values \subseteq Int
ASSUME MaxTotalAssumption == MaxTotal \in Nat

VARIABLES
  counter,     \* the Counter object
  published,   \* history: the sum of the snapshots collect returned
  call         \* history: the owner's last call

vars == <<counter, published, call>>

Called(op, arg) == call' = [op |-> op, arg |-> arg, turn |-> 1 - call.turn]

Init ==
  /\ \E cumalative, ignoreZero \in BOOLEAN : counter = NewCounter(cumalative, ignoreZero)
  /\ published = 0
  /\ call = [op |-> "New", arg |-> 0, turn |-> 0]

(* one call of the owner, which leaves the counter as c *)
Operate(op, arg, c) ==
  /\ Get(c) \in -MaxTotal .. MaxTotal
  /\ counter' = c
  /\ Called(op, arg)
  /\ UNCHANGED published

CallSet(v) == Operate("Set", v, Set(counter, v))
CallInc == Operate("Inc", 0, Inc(counter))
CallAdd(v) == Operate("Add", v, Add(counter, v))
CallSetInc(v) == Operate("SetInc", v, SetInc(counter, v))

(* the monitor service collects the counter *)
Collect ==
  /\ counter' = Collected(counter)
  /\ published' =
       IF counter.cumalative /\ HasSnapshot(counter)
         THEN published + counter.value ELSE published
  /\ UNCHANGED call

Next ==
  \/ CallInc
  \/ Collect
  \/ \E v \in Values : CallSet(v) \/ CallAdd(v) \/ CallSetInc(v)

Spec == Init /\ [][Next]_vars

-----------------------------------------------------------------------------
CallType == [op : {"New", "Set", "Inc", "Add", "SetInc"}, arg : Int, turn : {0, 1}]

(* The counter and its callers stay typed. *)
CounterTypeOK ==
  /\ counter \in CounterType
  /\ published \in Int
  /\ call \in CallType

(***************************************************************************)
(* The snapshots of a cumulative counter add up: what was published plus   *)
(* what is still to be collected is what its owner set and added, so every *)
(* amount is published exactly once, however Set, Inc, Add and collect     *)
(* interleave.  A counter that is not cumulative accumulates nothing.      *)
(***************************************************************************)
PublishedOnce ==
  IF counter.cumalative THEN published + counter.value = Get(counter)
                        ELSE counter.cumalativeValue = 0

Abs == INSTANCE AbstractCounter WITH total <- Get(counter), incBy <- counter.incBy

(* Get returns what the owner's calls made of the counter; collecting it is
   a stuttering step *)
ImplementsAbstract == Abs!AbsSpec
=============================================================================
