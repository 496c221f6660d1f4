-------------------------- MODULE JSONStreamParser --------------------------
(***************************************************************************)
(* The parser of goutils/persistence/json_stream_parser.go with the Map    *)
(* and Array it builds (map.go, array.go).  It takes one token of the      *)
(* decoder at a time.                                                      *)
(*                                                                         *)
(* A Map is a reference to the store `maps`; an Array is a slice, hence a  *)
(* value, and its parent holds the empty slice it began as until Finalize  *)
(* puts the filled one in its place.  A key is a pair: the placeholder of  *)
(* an array element, "@" and an index in the code, is <<"@", index>>.      *)
(***************************************************************************)
EXTENDS Integers, Sequences, SequencesExt

CONSTANT Documents   \* the documents parsed, each an object or an array

VARIABLES
  document,        \* the document
  input,           \* the tokens the decoder has still to return
  keyPath,         \* the keys down to the current element
  umStack,         \* the unmarshallers down to the current one
  maps,            \* the Maps made so far
  prevType,        \* type of the last token
  lastArrayIndex,  \* index of the last array element
  currUnmarshaller,\* what Parse returns at the end of the input
  outcome          \* "new", "parsing", "ok", "error" or "panic"

jvars == <<document, input, keyPath, umStack, maps, prevType, lastArrayIndex,
           currUnmarshaller, outcome>>

-----------------------------------------------------------------------------
(* Documents, the tokens they are written as and what they mean *)
RootKey == <<"", 0>>
Placeholder(i) == <<"@", i>>
IsPlaceholder(key) == key[1] = "@"

Token(t) == [t |-> t, key |-> RootKey]
String(key) == [t |-> "string", key |-> key]

Leaf(token) == [kind |-> "leaf", token |-> token]
Object(pairs) == [kind |-> "object", pairs |-> pairs]
List(elements) == [kind |-> "list", elements |-> elements]

RECURSIVE Tokens(_)
Tokens(d) ==
  CASE d.kind = "leaf" -> <<d.token>>
    [] d.kind = "list" ->
         <<Token("[")>> \o FlattenSeq([i \in DOMAIN d.elements |-> Tokens(d.elements[i])])
           \o <<Token("]")>>
    [] d.kind = "object" ->
         <<Token("{")>>
           \o FlattenSeq([i \in DOMAIN d.pairs |->
                            <<String(d.pairs[i][1])>> \o Tokens(d.pairs[i][2])])
           \o <<Token("}")>>

(* the last of two pairs with the same key counts *)
RECURSIVE Meaning(_)
Meaning(d) ==
  CASE d.kind = "leaf" -> d
    [] d.kind = "list" ->
         [kind |-> "list", of |-> [i \in DOMAIN d.elements |-> Meaning(d.elements[i])]]
    [] d.kind = "object" ->
         [kind |-> "object",
          of |-> [key \in {d.pairs[i][1] : i \in DOMAIN d.pairs} |->
                    Meaning(d.pairs[SelectLastInSeq(d.pairs, LAMBDA p : p[1] = key)][2])]]

-----------------------------------------------------------------------------
(* Unmarshallers and values *)
MapAt(i) == [kind |-> "object", at |-> i]
NewArray == [kind |-> "list", elements |-> <<>>]

Put(m, key, value) ==
  [k \in DOMAIN m \cup {key} |-> IF k = key THEN value ELSE m[k]]

(* what a value that was parsed means, with its references followed *)
RECURSIVE ValueOf(_)
ValueOf(v) ==
  CASE v.kind = "leaf" -> v
    [] v.kind = "list" ->
         [kind |-> "list", of |-> [i \in DOMAIN v.elements |-> ValueOf(v.elements[i])]]
    [] v.kind = "object" ->
         [kind |-> "object", of |-> [key \in DOMAIN maps[v.at] |-> ValueOf(maps[v.at][key])]]

(* Unmarshal of an unmarshaller u: the value stored under key, u after it
   and the Maps after it.  A Map has no place for an array value. *)
Accepts(u, elemType) == u.kind = "list" \/ elemType # "EtArrayValue"

Stored(elemType, token) ==
  CASE elemType = "EtObject" -> MapAt(Len(maps) + 1)
    [] elemType = "EtArray" -> NewArray
    [] OTHER -> Leaf(token)

Updated(u, value) ==
  IF u.kind = "list" THEN [u EXCEPT !.elements = Append(@, value)] ELSE u

MapsAfter(u, key, value) ==
  LET all == IF value.kind = "object" THEN Append(maps, << >>) ELSE maps
  IN  IF u.kind = "object" THEN [all EXCEPT ![u.at] = Put(@, key, value)] ELSE all

(* the unmarshaller below the top of the stack *)
Parent == umStack[Len(umStack) - 1]

(* Finalize stores a finished Array in its parent; a Map is there already *)
FinalizeFails(key) ==
  IF Parent.kind = "list" THEN ~IsPlaceholder(key) ELSE key \notin DOMAIN maps[Parent.at]

FinalizePanics(key) == Parent.kind = "list" /\ key[2] + 1 \notin DOMAIN Parent.elements

(* mutant: a finished Array is stored in an array, and not in an object *)
MutFinalize(key, node) ==
  /\ umStack' =
       IF Parent.kind = "list"
         THEN Append(Front(Front(umStack)), [Parent EXCEPT !.elements[key[2] + 1] = node])
         ELSE Front(umStack)
  /\ maps' = maps

Finalize(key, node) ==
  /\ umStack' =
       IF Parent.kind = "list"
         THEN Append(Front(Front(umStack)), [Parent EXCEPT !.elements[key[2] + 1] = node])
         ELSE Front(umStack)
  /\ maps' =
       IF Parent.kind = "object" THEN [maps EXCEPT ![Parent.at] = Put(@, key, node)] ELSE maps

-----------------------------------------------------------------------------
(* Parse *)
typeFromToken(prev, token) ==
  CASE token.t = "{" -> "EtObject"
    [] token.t = "[" -> "EtArray"
    [] token.t \in {"}", "]", "null"} -> "EtUnknown"
    [] prev = "EtKey" -> "EtValue"
    [] prev = "EtValue" -> "EtKey"
    [] prev \in {"EtArray", "EtArrayValue"} -> "EtArrayValue"
    [] OTHER -> IF token.t = "string" THEN "EtKey" ELSE "invalid"

(* the root unmarshaller is of the kind of the document *)
Begin(d) ==
  /\ document = d /\ input = Tokens(d)
  /\ keyPath = <<RootKey>> /\ maps = << << >> >>
  /\ umStack = <<IF d.kind = "object" THEN MapAt(1) ELSE NewArray>>
  /\ prevType = "EtUnknown" /\ lastArrayIndex = -1
  /\ currUnmarshaller = umStack[1] /\ outcome = "new"

ParserInit == \E d \in Documents : Begin(d)

FirstToken ==
  /\ outcome = "new" /\ outcome' = "parsing"
  /\ prevType' = typeFromToken("EtUnknown", Head(input))
  /\ input' = Tail(input)
  /\ UNCHANGED <<document, keyPath, umStack, maps, lastArrayIndex, currUnmarshaller>>

Finish(how) ==
  /\ outcome' = how
  /\ UNCHANGED <<document, input, keyPath, umStack, maps, prevType, lastArrayIndex,
                 currUnmarshaller>>

(* the loop reads a token, of which there is one, with the stacks in place *)
Reading ==
  /\ outcome = "parsing" /\ input # <<>>
  /\ umStack # <<>> /\ keyPath # <<>>

NextType == typeFromToken(prevType, Head(input))

(* an iteration of the loop that ends with the type and the index given *)
Iteration(type, index) ==
  /\ input' = Tail(input)
  /\ prevType' = type /\ lastArrayIndex' = index
  /\ currUnmarshaller' = Last(umStack)
  /\ UNCHANGED <<document, outcome>>

KeyToken ==
  /\ Reading /\ NextType = "EtKey"
  /\ keyPath' = Append(keyPath, Head(input).key)
  /\ Iteration("EtKey", -1)
  /\ UNCHANGED <<umStack, maps>>

(* the element goes to the unmarshaller on top of the stack *)
Unmarshal(key, value, push) ==
  LET u == Updated(Last(umStack), value)
  IN  /\ umStack' = Append(Front(umStack), u) \o push
      /\ maps' = MapsAfter(Last(umStack), key, value)

(* an array element has no key of its own *)
StartNode ==
  /\ Reading /\ NextType \in {"EtObject", "EtArray"}
  /\ LET implicit == Len(umStack) = Len(keyPath)
         key == IF implicit THEN Placeholder(lastArrayIndex + 1) ELSE Last(keyPath)
         node == Stored(NextType, Head(input))
     IN  /\ keyPath' = IF implicit THEN Append(keyPath, key) ELSE keyPath
         /\ Unmarshal(key, node, <<node>>)
  /\ Iteration(NextType, -1)

ValueToken ==
  /\ Reading /\ NextType = "EtValue"
  /\ Unmarshal(Last(keyPath), Stored("EtValue", Head(input)), <<>>)
  /\ keyPath' = Front(keyPath)
  /\ Iteration("EtValue", -1)

ArrayValue ==
  /\ Reading /\ NextType = "EtArrayValue" /\ Accepts(Last(umStack), "EtArrayValue")
  /\ Unmarshal(Placeholder(lastArrayIndex + 1), Stored("EtArrayValue", Head(input)), <<>>)
  /\ Iteration("EtArrayValue", lastArrayIndex + 1)
  /\ UNCHANGED keyPath

(* there is a parent, and the node that ends is an Array *)
Finalizes == Len(umStack) > 1 /\ Last(umStack).kind = "list"

(* the end of an object or of an array, and null *)
EndNode ==
  /\ Reading /\ NextType = "EtUnknown"
  /\ LET key == Last(keyPath) IN
       /\ Finalizes => ~FinalizeFails(key) /\ ~FinalizePanics(key)
       /\ IF Finalizes THEN Finalize(key, Last(umStack))
                       ELSE umStack' = Front(umStack) /\ UNCHANGED maps
       /\ keyPath' = Front(keyPath)
       /\ IF IsPlaceholder(key) THEN Iteration("EtArrayValue", key[2])
                                ELSE Iteration("EtUnknown", -1)

ParseError ==
  /\ Reading
  /\ \/ NextType = "invalid"
     \/ NextType = "EtArrayValue" /\ ~Accepts(Last(umStack), "EtArrayValue")
     \/ NextType = "EtUnknown" /\ Finalizes /\ FinalizeFails(Last(keyPath))
  /\ Finish("error")

(* an index out of range, which panics *)
ParsePanic ==
  /\ outcome = "parsing" /\ input # <<>>
  /\ \/ umStack = <<>> \/ keyPath = <<>>
     \/ /\ Reading /\ NextType = "EtUnknown" /\ Finalizes
        /\ ~FinalizeFails(Last(keyPath)) /\ FinalizePanics(Last(keyPath))
  /\ Finish("panic")

EndOfInput ==
  /\ outcome = "parsing" /\ input = <<>>
  /\ Finish("ok")

ParserNext ==
  \/ FirstToken \/ KeyToken \/ StartNode \/ ValueToken \/ ArrayValue \/ EndNode
  \/ ParseError \/ ParsePanic \/ EndOfInput

-----------------------------------------------------------------------------
(* null ends a node in typeFromToken, and a key of the form of a placeholder
   is taken for one *)
Supported ==
  LET tokens == Tokens(document)
  IN  \A i \in DOMAIN tokens : tokens[i].t # "null" /\ ~IsPlaceholder(tokens[i].key)

(***************************************************************************)
(* What Parse returns is the document: every value is under its key or at  *)
(* its index, at any depth, the Arrays that were still being filled when   *)
(* they were stored included, and Parse ends without an error.  A document *)
(* with null, or with a key of the form "@0", is excepted.                 *)
(***************************************************************************)
ParsedExact ==
  outcome \notin {"new", "parsing"} /\ Supported =>
    outcome = "ok" /\ ValueOf(currUnmarshaller) = Meaning(document)
=============================================================================
