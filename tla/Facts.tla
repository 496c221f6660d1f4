-------------------------------- MODULE Facts --------------------------------
(***************************************************************************)
(* Facts on sequences and on the size of finite sets that several of the   *)
(* proofs share.  FiniteFacts is a hypothesis of the lemmas that count:    *)
(* a proof module discharges it, after its lemmas, from the library.       *)
(***************************************************************************)
EXTENDS Integers, Sequences, FiniteSets, TLAPS

(* The empty list is a list of anything, and the only one of length zero *)
LEMMA SeqEmpty ==
  ASSUME NEW S
  PROVE  /\ <<>> \in Seq(S)
         /\ \A s \in Seq(S) : s = <<>> <=> Len(s) = 0
OBVIOUS

(* A list is a function on its positions *)
LEMMA SeqLen ==
  ASSUME NEW S, NEW s \in Seq(S)
  PROVE  /\ Len(s) \in Nat
         /\ DOMAIN s = 1 .. Len(s)
         /\ s \in [1 .. Len(s) -> S]
OBVIOUS

(* What a list holds *)
LEMMA SeqElement ==
  ASSUME NEW S, NEW s \in Seq(S), NEW i \in 1 .. Len(s)
  PROVE  s[i] \in S
OBVIOUS

(* A list of elements of S is one of elements of a larger set *)
LEMMA SeqLarger ==
  ASSUME NEW S, NEW T, S \subseteq T, NEW s \in Seq(S)
  PROVE  s \in Seq(T)
OBVIOUS

(* Lists from functions *)
LEMMA SeqFunction ==
  ASSUME NEW S, NEW n \in Nat, NEW f \in [1 .. n -> S]
  PROVE  f \in Seq(S) /\ Len(f) = n
OBVIOUS

(* Go's append of one element *)
LEMMA SeqAppend ==
  ASSUME NEW S, NEW s \in Seq(S), NEW x \in S
  PROVE  /\ Append(s, x) \in Seq(S)
         /\ Append(s, x) # <<>>
         /\ Len(Append(s, x)) = Len(s) + 1
         /\ Append(s, x)[Len(s) + 1] = x
         /\ \A i \in 1 .. Len(s) : Append(s, x)[i] = s[i]
OBVIOUS

(* Go's append of a list *)
LEMMA SeqConcat ==
  ASSUME NEW S, NEW s \in Seq(S), NEW t \in Seq(S)
  PROVE  /\ s \o t \in Seq(S)
         /\ Len(s \o t) = Len(s) + Len(t)
         /\ \A i \in 1 .. Len(s) : (s \o t)[i] = s[i]
         /\ \A i \in Len(s) + 1 .. Len(s) + Len(t) : (s \o t)[i] = t[i - Len(s)]
OBVIOUS

(* Appending nothing *)
LEMMA SeqConcatEmpty ==
  ASSUME NEW S, NEW s \in Seq(S)
  PROVE  s \o <<>> = s /\ <<>> \o s = s
OBVIOUS

-----------------------------------------------------------------------------
(* A list, whatever it holds *)
IsList(s) == s \in Seq({s[i] : i \in DOMAIN s})

LEMMA ListFunction ==
  ASSUME NEW S, NEW n \in Nat, NEW f \in [1 .. n -> S]
  PROVE  IsList(f) /\ Len(f) = n
<1>1. f \in [1 .. n -> {f[i] : i \in DOMAIN f}]
  OBVIOUS
<1> QED BY <1>1, SeqFunction DEF IsList

LEMMA ListLen ==
  ASSUME NEW s, IsList(s)
  PROVE  /\ Len(s) \in Nat
         /\ DOMAIN s = 1 .. Len(s)
         /\ s = <<>> <=> Len(s) = 0
BY SeqLen, SeqEmpty DEF IsList

LEMMA ListAppend ==
  ASSUME NEW s, IsList(s), NEW x
  PROVE  /\ IsList(Append(s, x))
         /\ Len(Append(s, x)) = Len(s) + 1
         /\ Append(s, x)[Len(s) + 1] = x
         /\ \A i \in 1 .. Len(s) : Append(s, x)[i] = s[i]
<1> DEFINE S == {s[i] : i \in DOMAIN s} \cup {x}
<1>1. s \in Seq(S) /\ x \in S
  BY SeqLarger DEF IsList
<1> HIDE DEF S
<1>2. /\ Append(s, x) \in Seq(S)
      /\ Len(Append(s, x)) = Len(s) + 1
      /\ Append(s, x)[Len(s) + 1] = x
      /\ \A i \in 1 .. Len(s) : Append(s, x)[i] = s[i]
  BY <1>1, SeqAppend
<1>3. Append(s, x) \in [1 .. Len(Append(s, x)) -> S] /\ Len(Append(s, x)) \in Nat
  BY <1>2, SeqLen
<1> QED BY <1>2, <1>3, ListFunction

(* An assignment to one element *)
LEMMA ListExcept ==
  ASSUME NEW s, IsList(s), NEW k, NEW x
  PROVE  /\ IsList([s EXCEPT ![k] = x])
         /\ Len([s EXCEPT ![k] = x]) = Len(s)
<1> DEFINE t == [s EXCEPT ![k] = x]
           S == {s[i] : i \in DOMAIN s} \cup {x}
<1>1. Len(s) \in Nat /\ s \in [1 .. Len(s) -> S]
  BY SeqLen, SeqLarger DEF IsList
<1> HIDE DEF S
<1>2. x \in S
  BY DEF S
<1>3. t \in [1 .. Len(s) -> S]
  BY <1>1, <1>2
<1> HIDE DEF t
<1>4. IsList(t) /\ Len(t) = Len(s)
  BY <1>1, <1>3, ListFunction
<1> QED BY <1>4 DEF t

LEMMA ListChanged ==
  ASSUME NEW s, IsList(s), NEW t, t = s \/ \E k, x : t = [s EXCEPT ![k] = x]
  PROVE  IsList(t) /\ Len(t) = Len(s)
<1>1. ASSUME NEW k, NEW x, t = [s EXCEPT ![k] = x]
      PROVE  IsList(t) /\ Len(t) = Len(s)
  BY <1>1, ListExcept
<1> QED BY <1>1

-----------------------------------------------------------------------------
(* How the size of a finite set changes with its elements *)
FiniteFacts ==
  /\ IsFiniteSet({})
  /\ Cardinality({}) = 0
  /\ \A S : IsFiniteSet(S) => Cardinality(S) \in Nat
  /\ \A S : IsFiniteSet(S) /\ Cardinality(S) = 0 => S = {}
  /\ \A S : IsFiniteSet(S) => \A T \in SUBSET S :
       /\ IsFiniteSet(T)
       /\ Cardinality(T) <= Cardinality(S)
       /\ Cardinality(T) = Cardinality(S) => T = S
  /\ \A S, x : IsFiniteSet(S) /\ x \notin S =>
       IsFiniteSet(S \cup {x}) /\ Cardinality(S \cup {x}) = Cardinality(S) + 1
  /\ \A S, x : IsFiniteSet(S) /\ x \in S =>
       IsFiniteSet(S \ {x}) /\ Cardinality(S \ {x}) = Cardinality(S) - 1

(* A subset is finite and no larger *)
LEMMA CountSubset ==
  ASSUME FiniteFacts, NEW S, NEW T, IsFiniteSet(S), T \subseteq S
  PROVE  /\ IsFiniteSet(T)
         /\ Cardinality(T) \in Nat
         /\ Cardinality(S) \in Nat
         /\ Cardinality(T) <= Cardinality(S)
         /\ Cardinality(T) = Cardinality(S) => T = S
BY DEF FiniteFacts

(* One element more *)
LEMMA CountAdd ==
  ASSUME FiniteFacts, NEW S, NEW T, NEW x, IsFiniteSet(S), x \notin S, T = S \cup {x}
  PROVE  /\ IsFiniteSet(T)
         /\ Cardinality(S) \in Nat
         /\ Cardinality(T) = Cardinality(S) + 1
BY DEF FiniteFacts

(* One element less *)
LEMMA CountRemove ==
  ASSUME FiniteFacts, NEW S, NEW T, NEW x, IsFiniteSet(S), x \in S, T = S \ {x}
  PROVE  /\ IsFiniteSet(T)
         /\ Cardinality(S) \in Nat
         /\ Cardinality(T) = Cardinality(S) - 1
BY DEF FiniteFacts

(* No element left *)
LEMMA CountZero ==
  ASSUME FiniteFacts, NEW S, IsFiniteSet(S)
  PROVE  Cardinality(S) = 0 <=> S = {}
BY DEF FiniteFacts
=============================================================================
