----------------------------- MODULE MCObjects ------------------------------
(***************************************************************************)
(* An instance for TLC of the objects whose calls do not overlap: the      *)
(* counter, the output filter, the write-at buffer, the JSON parser and    *)
(* the network contexts.  A behaviour is of one of the five; the others    *)
(* stay as they were made.                                                 *)
(*                                                                         *)
(* Two network contexts share two links and two addresses, one of which    *)
(* has a route of its own before; one kernel call may fail.                *)
(***************************************************************************)
EXTENDS Counter, FilterWriter, WriteAtBuffer, JSONStreamParser, NetworkContext

VARIABLE which   \* the object used

allvars == <<which, vars, fvars, wvars, jvars, nvars>>

MCValues == {-1, 0, 2}

(* documents for the parser: S is a string, N a number and X null *)
K == <<"k", 0>>
L == <<"l", 0>>
S == Leaf(String(K))
N == Leaf(Token("number"))
X == Leaf(Token("null"))

(* at most two members, of which one is big *)
Around(big, small) ==
  {<<>>} \cup {<<b>> : b \in big}
    \cup {<<b, s>> : b \in big, s \in small} \cup {<<s, b>> : b \in big, s \in small}

Containers(keys, big, small) ==
  {Object(pairs) : pairs \in Around(keys \X big, keys \X small)}
    \cup {List(elements) : elements \in Around(big, small)}

One == {S, N} \cup Containers({K, L}, {S, N}, {S})
Two == One \cup Containers({K}, One, {S, N})
Three == Containers({K, L}, Two, {S})

(* documents with null and with a key of the form of a placeholder *)
Odd ==
  Containers({K}, {X} \cup Containers({K}, {X}, {S}), {S, N})
    \cup Containers({Placeholder(0)}, Containers({K}, {S}, {}), {S, N})
    \cup {Object(<< <<K, List(<<X, N>>)>> >>),
          List(<<List(<<Object(<< <<K, Object(<< <<L, X>> >>)>>, <<L, X>> >>)>>)>>),
          List(<<List(<<S, Object(<< <<K, X>> >>)>>)>>)}

MCDocuments == Three \cup Odd

(* FilterExact excepts filters whose flags disagree with their lists, so   *)
(* that what is written through them is not followed.                      *)
Followed == phase' # "setup" => FlagsAgree

AllInit ==
  /\ which \in {"counter", "filter", "writeat", "parser", "context"}
  /\ Init /\ FilterInit /\ WriteAtInit /\ NetworkInit
  /\ IF which = "parser" THEN ParserInit ELSE Begin(Object(<<>>))
  /\ which # "counter" => counter = NewCounter(FALSE, FALSE)
  /\ which # "writeat" => cuts = {0}

AllNext ==
  /\ UNCHANGED which
  /\ \/ which = "counter" /\ Next /\ UNCHANGED <<fvars, wvars, jvars, nvars>>
     \/ which = "filter" /\ FilterNext /\ Followed /\ UNCHANGED <<vars, wvars, jvars, nvars>>
     \/ which = "writeat" /\ WriteAtNext /\ UNCHANGED <<vars, fvars, jvars, nvars>>
     \/ which = "parser" /\ ParserNext /\ UNCHANGED <<vars, fvars, wvars, nvars>>
     \/ which = "context" /\ NetworkNext /\ UNCHANGED <<vars, fvars, wvars, jvars>>

AllSpec == AllInit /\ [][AllNext]_allvars /\ NetworkFairness
=============================================================================
