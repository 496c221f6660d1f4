---------------------------- MODULE MCApiClient ----------------------------
(***************************************************************************)
(* One caller: responses to its earlier requests stand for those of other  *)
(* callers.  Two sessions are enough for a cipher to be the current one or *)
(* a stale one.  A new key has one or two ticks left, one of which is the  *)
(* margin.                                                                 *)
(***************************************************************************)
EXTENDS ApiClient

MCLifetimes == 1 .. 2
============================================================================
