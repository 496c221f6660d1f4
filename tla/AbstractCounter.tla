--------------------------- MODULE AbstractCounter --------------------------
(***************************************************************************)
(* What a counter promises its owner: one number that each call of Set,    *)
(* Inc and Add moves and nothing else does.  That the monitor service      *)
(* collects it in between does not show.                                   *)
(***************************************************************************)
EXTENDS Integers

CONSTANT Values   \* the arguments the owner calls it with

VARIABLES
  total,   \* what Get returns
  incBy,   \* the step of Inc
  call     \* the owner's last call: its name, its argument and a turn bit

Call(op, arg) == call' = [op |-> op, arg |-> arg, turn |-> 1 - call.turn]

SetTotal(v) == Call("Set", v) /\ total' = v /\ UNCHANGED incBy

IncTotal == Call("Inc", 0) /\ total' = total + incBy /\ UNCHANGED incBy

AddTotal(v) == Call("Add", v) /\ total' = total + v /\ UNCHANGED incBy

SetStep(v) == Call("SetInc", v) /\ incBy' = v /\ UNCHANGED total

AbsInit ==
  /\ total = 0
  /\ incBy = 1
  /\ call = [op |-> "New", arg |-> 0, turn |-> 0]

AbsNext ==
  \/ IncTotal
  \/ \E v \in Values : SetTotal(v) \/ AddTotal(v) \/ SetStep(v)

absvars == <<total, incBy, call>>

AbsSpec == AbsInit /\ [][AbsNext]_absvars
=============================================================================
