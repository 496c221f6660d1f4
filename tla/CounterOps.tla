----------------------------- MODULE CounterOps -----------------------------
(***************************************************************************)
(* The counter of common/monitors/counter.go as a record and its           *)
(* operations as operators on it.  Every operation runs under the          *)
(* counter's own lock, so each is one step.  Name, attributes and          *)
(* timestamps are left out.                                                *)
(***************************************************************************)
EXTENDS Integers

NewCounter(cumalative, ignoreZeroSnapshots) ==
  [cumalative |-> cumalative, ignoreZeroSnapshots |-> ignoreZeroSnapshots,
   incBy |-> 1, value |-> 0, cumalativeValue |-> 0]

CounterType ==
  [cumalative : BOOLEAN, ignoreZeroSnapshots : BOOLEAN,
   incBy : Int, value : Int, cumalativeValue : Int]

Get(c) == c.value + c.cumalativeValue

SetInc(c, incValue) == [c EXCEPT !.incBy = incValue]

(* mutant: the value set is not corrected by what was already published *)
MutSet(c, v) == [c EXCEPT !.value = v]

(* a cumulative counter stores the difference to what it has published *)
Set(c, v) ==
  [c EXCEPT !.value = IF c.cumalative THEN v - c.cumalativeValue ELSE v]

Inc(c) == [c EXCEPT !.value = @ + c.incBy]

Add(c, v) == [c EXCEPT !.value = @ + v]

(* collect returns a snapshot, of the current value, or nil *)
HasSnapshot(c) == ~c.ignoreZeroSnapshots \/ c.value # 0

(* mutant: a published value is not added to the cumulative value *)
MutCollected(c) ==
  IF HasSnapshot(c) /\ c.cumalative THEN [c EXCEPT !.value = 0] ELSE c

(* what collect leaves behind *)
Collected(c) ==
  IF HasSnapshot(c) /\ c.cumalative
    THEN [c EXCEPT !.cumalativeValue = @ + c.value, !.value = 0]
    ELSE c
=============================================================================
