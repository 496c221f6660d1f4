---------------------------- MODULE ClientProofs ----------------------------
(***************************************************************************)
(* Proofs about the two clients of a peer that answers when it likes: the  *)
(* expect stream and the authenticated client, the latter for any number of*)
(* callers, sessions and responses under way.                              *)
(***************************************************************************)
EXTENDS ApiClient, ExpectStream, Facts

(* A leaf that names no prover is tried with these, in turn *)
USE SMT, Zenon, Z3, SMTT(10)

-----------------------------------------------------------------------------
(* The expect stream.  What the service has handed over and the client has *)
(* not been shown is what the handler of its output is about to echo.      *)

Places == {"new", "loop", "read", "echo", "match", "send", "end", "done"}

ExpectIInv ==
  /\ hpc \in [Handlers -> Places]
  /\ DOMAIN chunk = Handlers
  /\ echoed \in Seq(Alphabet)
  /\ IF hpc["out"] = "echo"
       THEN chunk["out"] \in Seq(Alphabet) /\ served = echoed \o chunk["out"]
       ELSE served = echoed
  /\ owner = "setup" => \A h \in Handlers : hpc[h] = "new"
  /\ owner = "closed" => \A h \in Handlers : hpc[h] = "done"

(* A step leaves the output alone *)
Silent ==
  /\ hpc' \in [Handlers -> Places]
  /\ DOMAIN chunk' = Handlers
  /\ hpc'["out"] = "echo" <=> hpc["out"] = "echo"
  /\ hpc["out"] = "echo" => chunk'["out"] = chunk["out"]
  /\ UNCHANGED <<echoed, served>>
  /\ owner' = "setup" => \A h \in Handlers : hpc'[h] = "new"
  /\ owner' = "closed" => \A h \in Handlers : hpc'[h] = "done"

LEMMA SilentKeeps ==
  ASSUME ExpectIInv, Silent
  PROVE  ExpectIInv'
BY Zenon DEF ExpectIInv, Silent

(* The owner's calls, and what the peers do outside a handler *)
LEMMA OwnerSteps ==
  ASSUME ExpectIInv,
         \/ \E more : AddExpects(more)
         \/ StartHandlers \/ CloseBegin \/ Closing \/ PeerEnds
  PROVE  ExpectIInv'
<1>1. CASE StartHandlers
  BY <1>1, SilentKeeps DEF StartHandlers, ExpectIInv, Silent, Places, Handlers
<1>2. CASE CloseWait
  BY <1>2, SilentKeeps DEF CloseWait, streams, ExpectIInv, Silent, Places, Handlers
<1>3. ASSUME UNCHANGED <<hpc, chunk, served, echoed>>,
             owner' = owner \/ owner' \notin {"setup", "closed"}
      PROVE  Silent
  BY <1>3 DEF ExpectIInv, Silent
<1>4. CASE \E more : AddExpects(more)
  BY <1>3, <1>4, SilentKeeps DEF AddExpects, streams
<1>5. CASE CloseBegin \/ CloseInput \/ CloseReader \/ PeerEnds
  BY <1>3, <1>5, SilentKeeps DEF CloseBegin, CloseInput, CloseReader, PeerEnds
<1> QED BY <1>1, <1>2, <1>4, <1>5 DEF Closing

(* The service writes, or the client types *)
LEMMA PeerWrites ==
  ASSUME ExpectIInv, NEW sent \in Chunks, ServiceWrites(sent) \/ ClientTypes(sent)
  PROVE  ExpectIInv'
<1>1. sent \in Seq(Alphabet)
  BY ChunksAssumption
<1>2. CASE ServiceWrites(sent)
  BY <1>1, <1>2 DEF ServiceWrites, Go, ExpectIInv, Places, Handlers
<1>3. CASE ClientTypes(sent)
  <2>1. Silent
    BY <1>3 DEF ClientTypes, Go, ExpectIInv, Silent, Places, Handlers
  <2> QED BY <2>1, SilentKeeps
<1> QED BY <1>2, <1>3

(* A handler's step that reads or echoes *)
LEMMA HandlerEchoes ==
  ASSUME ExpectIInv, NEW h \in Handlers, ReadFails(h) \/ Echo(h)
  PROVE  ExpectIInv'
<1>1. CASE h = "in"
  <2>1. Silent
    BY <1>1 DEF ReadFails, Echo, Search, Go, ExpectIInv, Silent, Places, Handlers
  <2> QED BY <2>1, SilentKeeps
<1>2. CASE h = "out" /\ ReadFails(h)
  <2>1. hpc["out"] = "read" /\ served = echoed /\ owner \notin {"setup", "closed"}
    BY <1>2 DEF ReadFails, ExpectIInv, Handlers
  <2>2. echoed \o <<>> = echoed /\ <<>> \in Seq(Alphabet)
    BY SeqConcatEmpty, SeqEmpty DEF ExpectIInv
  <2> QED BY <1>2, <2>1, <2>2 DEF ReadFails, Go, ExpectIInv, Places, Handlers
<1>3. CASE h = "out" /\ Echo(h)
  <2>1. hpc["out"] = "echo" /\ owner \notin {"setup", "closed"}
    BY <1>3 DEF Echo, ExpectIInv, Handlers
  <2>2. hpc' \in [Handlers -> Places] /\ hpc'["out"] \in {"loop", "match"}
    BY <1>3 DEF Echo, Search, Go, ExpectIInv, Places, Handlers
  <2>3. echoed' = echoed \o chunk["out"] /\ UNCHANGED <<served, chunk, owner>>
    BY <1>3 DEF Echo
  <2>4. echoed' \in Seq(Alphabet) /\ served' = echoed'
    BY <2>1, <2>3, SeqConcat DEF ExpectIInv
  <2> QED BY <2>1, <2>2, <2>3, <2>4 DEF ExpectIInv
<1> QED BY <1>1, <1>2, <1>3 DEF Handlers

(* The other steps of a handler *)
LEMMA HandlerSilent ==
  ASSUME ExpectIInv, NEW h \in Handlers,
         LoopTop(h) \/ Evaluate(h) \/ SendCommand(h) \/ NextSegment(h) \/ End(h)
  PROVE  ExpectIInv'
<1>1. /\ hpc[h] \in {"loop", "match", "send", "end"}
      /\ UNCHANGED <<owner, echoed, served>>
      /\ DOMAIN chunk' = Handlers
      /\ \A g \in Handlers \ {h} : chunk'[g] = chunk[g]
  BY Zenon DEF LoopTop, Evaluate, SendCommand, NextSegment, End, ExpectIInv
<1>2. \E place \in Places \ {"echo"} : hpc' = [hpc EXCEPT ![h] = place]
  <2>1. CASE UNCHANGED hpc
    <3>1. hpc' = [hpc EXCEPT ![h] = hpc[h]]
      BY <2>1 DEF ExpectIInv
    <3> QED BY <1>1, <3>1, Zenon DEF Places
  <2>2. CASE Evaluate(h)
    <3>1. UNCHANGED hpc \/ Go(h, "send")
      BY <2>2, Zenon DEF Evaluate
    <3> QED BY <2>1, <3>1 DEF Go, Places
  <2>3. CASE NextSegment(h)
    <3>1. UNCHANGED hpc \/ Go(h, "loop")
      BY <2>3, Zenon DEF NextSegment
    <3> QED BY <2>1, <3>1 DEF Go, Places
  <2>4. CASE LoopTop(h) \/ SendCommand(h) \/ End(h)
    BY <2>4 DEF LoopTop, SendCommand, End, Go, Places
  <2> QED BY <2>2, <2>3, <2>4
<1>3. Silent
  BY <1>1, <1>2 DEF Silent, ExpectIInv, Handlers
<1> QED BY <1>3, SilentKeeps

LEMMA ExpectStep ==
  ASSUME ExpectIInv, [ExpectNext]_evars
  PROVE  ExpectIInv'
<1>1. CASE UNCHANGED evars
  BY <1>1 DEF evars, ExpectIInv
<1>2. CASE ExpectNext
  BY <1>2, OwnerSteps, PeerWrites, HandlerEchoes, HandlerSilent, Zenon
     DEF ExpectNext, Handle, AddExpectInTrigger, AddExpectOutTrigger
<1> QED BY <1>1, <1>2

(***************************************************************************)
(* What the client of an expect stream is shown is a prefix of what the    *)
(* service wrote, and all of it once Close has returned: whatever expects  *)
(* are added, in whatever chunks the service writes, and wherever Close or *)
(* an exit meets the handlers (startStreamHandler, Close).                 *)
(***************************************************************************)
THEOREM ExpectFlushedOnClose == ExpectSpec => []FlushedOnClose
<1>1. ExpectInit => ExpectIInv
  BY SeqEmpty DEF ExpectInit, ExpectIInv, Places, Handlers
<1>2. ExpectIInv => FlushedOnClose
  <2> SUFFICES ASSUME ExpectIInv PROVE FlushedOnClose
    OBVIOUS
  <2>1. owner = "closed" => echoed = served
    BY DEF ExpectIInv, Handlers
  <2>2. Len(echoed) <= Len(served) /\ echoed = SubSeq(served, 1, Len(echoed))
    BY SeqConcat DEF ExpectIInv
  <2> QED BY <2>1, <2>2 DEF FlushedOnClose
<1> QED BY <1>1, <1>2, ExpectStep, PTL DEF ExpectSpec

-----------------------------------------------------------------------------
(* The authenticated client. *)

(* The checksum of a response is made with the hash key of the request it  *)
(* answers.                                                                *)
Sealed ==
  /\ \A r \in replies : r.answers = r.sum
  /\ \A c \in Callers : got[c].answers = got[c].sum

(* A call gets to its end only with a response under its own hash key.     *)
Matched == \A c \in Callers : at[c] = "ok" => got[c].sum = tok[c]

(* While authentication is under way, or has failed, the client does not   *)
(* count as authenticated.                                                 *)
Unauthed == loop \in {"auth", "failed"} => ~ authed

(* Until a shared secret comes out short, who is past WaitForAuth finds a  *)
(* cipher and has fetched no nil one.                                      *)
Provided ==
  "shortSecret" \notin history =>
    /\ crypt # NoSession \/ \A c \in Callers : at[c] \in {"idle", "again"}
    /\ \A c \in Callers : held[c] # NoSession

IInv ==
  /\ TypeOK
  /\ Sealed
  /\ Matched
  /\ Unauthed
  /\ KeysAgree
  /\ Provided
  /\ CipherAtHand
  /\ RenewalInTime

LEMMA FreshIn == \A S : S # {} => Fresh(S) \in S
BY DEF Fresh

(* Records of calls that are over.                                         *)
LEMMA NothingTyped ==
  /\ NoRequest \in Requests
  /\ NoReply \in Reply
  /\ NoReply.answers = NoReply.sum
BY DEF NoRequest, Request, Requests, NoReply, Reply

(* A call that is over keeps what concerns the calls.                      *)
LEMMA OverKeeps ==
  ASSUME TypeOK, Sealed, Matched, NEW c \in Callers, Over(c), replies' = replies
  PROVE  /\ at' \in [Callers -> Steps]
         /\ tok' \in [Callers -> Tokens \cup {NoToken}]
         /\ req' \in [Callers -> Requests]
         /\ got' \in [Callers -> Reply]
         /\ Sealed' /\ Matched'
         /\ \A d \in Callers : at'[d] = at[d] \/ at'[d] = "idle"
<1>1. at' \in [Callers -> Steps]
  BY DEF Over, TypeOK, Steps
<1>2. tok' \in [Callers -> Tokens \cup {NoToken}]
  BY DEF Over, TypeOK
<1>3. req' \in [Callers -> Requests] /\ got' \in [Callers -> Reply]
  BY NothingTyped DEF Over, TypeOK
<1>4. Sealed'
  BY NothingTyped DEF Over, TypeOK, Sealed
<1>5. Matched'
  BY DEF Over, TypeOK, Matched
<1> QED
  BY <1>1, <1>2, <1>3, <1>4, <1>5 DEF Over, TypeOK

(* A step of the timer goroutine that leaves the calls and their responses *)
(* alone keeps what concerns them.                                         *)
LEMMA CallsUntouched ==
  ASSUME TypeOK, Sealed, Matched, UNCHANGED <<callVars, replies>>
  PROVE  /\ at' \in [Callers -> Steps]
         /\ tok' \in [Callers -> Tokens \cup {NoToken}]
         /\ held' \in [Callers -> Sessions \cup {NoSession, Unread}]
         /\ req' \in [Callers -> Requests]
         /\ got' \in [Callers -> Reply]
         /\ replies' \subseteq Reply
         /\ Sealed' /\ Matched'
BY DEF TypeOK, Sealed, Matched, callVars

LEMMA LoopKeeps == IInv /\ Loop => IInv'
<1> SUFFICES ASSUME IInv, Loop PROVE IInv'
  OBVIOUS
<1>0. UNCHANGED <<callVars, replies>>
  BY DEF Loop, Start, Fire, Ends, AuthenticateFails, AuthenticateShort, Authenticate,
         AuthCallback, Stop, Reset, Tick, callVars
<1>t. TypeOK /\ Sealed /\ Matched /\ Unauthed /\ KeysAgree /\ Provided /\ CipherAtHand /\ RenewalInTime
  BY DEF IInv
<1>c. /\ at' \in [Callers -> Steps]
      /\ tok' \in [Callers -> Tokens \cup {NoToken}]
      /\ held' \in [Callers -> Sessions \cup {NoSession, Unread}]
      /\ req' \in [Callers -> Requests]
      /\ got' \in [Callers -> Reply]
      /\ replies' \subseteq Reply
      /\ Sealed' /\ Matched'
  BY <1>0, <1>t, CallsUntouched
<1>p. at' = at /\ held' = held
  BY <1>0 DEF callVars
<1>1. CASE Start \/ Fire \/ AuthenticateFails \/ Stop \/ Reset
  <2>1. /\ crypt' = crypt /\ idKey' = idKey /\ left' = left /\ dead' = dead /\ history' = history
    BY <1>1 DEF Start, Fire, AuthenticateFails, Stop, Reset, authVars
  <2>a. authed' = FALSE \/ authed' = authed
    BY <1>1 DEF Start, Fire, AuthenticateFails, Stop, Reset, authVars
  <2>b. authed' \in BOOLEAN /\ (authed' => authed)
    <3>1. authed \in BOOLEAN
      BY <1>t DEF TypeOK
    <3>2. CASE authed' = FALSE
      BY <3>2, Zenon
    <3>3. CASE authed' = authed
      BY <3>1, <3>3
    <3> QED
      BY <2>a, <3>2, <3>3, Zenon
  <2>2. loop' \in {"off", "waiting", "auth", "failed", "renewed", "stopped"} /\ interval' \in Int /\ due' \in Int
    BY <1>1, <1>t DEF Start, Fire, AuthenticateFails, Stop, Reset, loopVars, TypeOK
  <2>3. TypeOK'
    BY <1>c, <1>t, <2>1, <2>2, <2>b DEF TypeOK
  <2>4. Unauthed'
    BY <1>1, <1>t DEF Unauthed, Start, Fire, AuthenticateFails, Stop, Reset, authVars, loopVars
  <2>5. RenewalInTime'
    BY <1>1, <1>t, <2>1, <2>b DEF RenewalInTime, Start, Fire, AuthenticateFails, Stop, Reset, authVars, loopVars
  <2>6. KeysAgree' /\ CipherAtHand'
    BY <1>t, <2>1, <2>b DEF KeysAgree, CipherAtHand
  <2>7. Provided'
    BY <1>t, <1>p, <2>1 DEF Provided
  <2> QED
    BY <1>c, <2>3, <2>4, <2>5, <2>6, <2>7 DEF IInv
<1>2. CASE AuthenticateShort
  <2>1. /\ crypt' = NoSession /\ ~ authed /\ authed' = authed /\ dead' = dead /\ loop' = "failed"
        /\ history' = history \cup {"shortSecret"} /\ UNCHANGED <<idKey, left, interval, due>>
    BY <1>2, <1>t DEF AuthenticateShort, Unauthed
  <2>2. TypeOK'
    BY <1>c, <1>t, <2>1 DEF TypeOK, Events
  <2>3. Unauthed' /\ KeysAgree' /\ Provided' /\ CipherAtHand' /\ RenewalInTime'
    BY <1>t, <2>1 DEF Unauthed, KeysAgree, Provided, CipherAtHand, RenewalInTime
  <2> QED
    BY <1>c, <2>2, <2>3 DEF IInv
<1>3. CASE Authenticate
  <2>1. crypt' \in Sessions
    BY <1>3, FreshIn DEF Authenticate
  <2>2. /\ idKey' = crypt' /\ left' \in Lifetimes /\ authed' = TRUE /\ loop' = "renewed"
        /\ UNCHANGED <<interval, due, dead, history>>
    BY <1>3 DEF Authenticate
  <2>3. left' \in Nat /\ crypt' # NoSession
    BY <2>1, <2>2, TimesAssumption, NilAssumption
  <2>4. TypeOK'
    BY <1>c, <1>t, <2>1, <2>2, <2>3 DEF TypeOK
  <2>5. Unauthed' /\ KeysAgree' /\ CipherAtHand' /\ RenewalInTime'
    BY <1>t, <2>2, <2>3 DEF Unauthed, KeysAgree, CipherAtHand, RenewalInTime
  <2>6. Provided'
    BY <1>p, <1>t, <2>2, <2>3 DEF Provided
  <2> QED
    BY <1>c, <2>4, <2>5, <2>6 DEF IInv
<1>4. CASE AuthCallback
  <2>1. UNCHANGED authVars /\ loop' \in {"off", "waiting"}
    BY <1>4 DEF AuthCallback
  <2>2. Delay \in Int
    BY <1>t, TimesAssumption DEF Delay, TypeOK
  <2>3. interval' \in Int /\ due' \in Int /\ due' = interval'
    BY <1>4, <1>t, <2>2 DEF AuthCallback, TypeOK
  <2>4. dead' \in BOOLEAN /\ history' \subseteq Events /\ (dead' => history' # {})
    BY <1>4, <1>t, <2>2 DEF AuthCallback, TypeOK, Events, CipherAtHand
  <2>5. TypeOK'
    BY <1>c, <1>t, <2>1, <2>3, <2>4 DEF TypeOK, authVars
  <2>6. Unauthed' /\ KeysAgree' /\ CipherAtHand'
    BY <1>t, <2>1, <2>4 DEF Unauthed, KeysAgree, CipherAtHand, authVars
  <2>7. Provided'
    <3>1. "shortSecret" \notin history' => "shortSecret" \notin history
      BY <1>4 DEF AuthCallback
    <3> QED
      BY <1>p, <1>t, <2>1, <3>1 DEF Provided, authVars
  <2>8. RenewalInTime'
    <3> SUFFICES ASSUME authed', due' > 0, "usedUp" \notin history' PROVE left' = due' + Margin
      BY DEF RenewalInTime
    <3>1. loop = "renewed"
      BY <1>4, <1>t, <2>1 DEF AuthCallback, Unauthed, authVars
    <3>2. Delay = left - Margin
      BY <3>1 DEF Delay
    <3>3. Delay > 0
      BY <1>4, <2>2 DEF AuthCallback
    <3>4. due' = left - Margin
      BY <1>4, <2>3, <3>2, <3>3 DEF AuthCallback
    <3> QED
      BY <1>t, <2>1, <3>4, TimesAssumption DEF authVars, TypeOK
  <2> QED
    BY <1>c, <2>5, <2>6, <2>7, <2>8 DEF IInv
<1>5. CASE Tick
  <2>1. UNCHANGED <<crypt, idKey, authed, loop, interval, dead, history>>
    BY <1>5 DEF Tick
  <2>2. left' \in Nat /\ due' \in Int
    BY <1>5, <1>t DEF Tick, TypeOK
  <2>3. TypeOK'
    BY <1>c, <1>t, <2>1, <2>2 DEF TypeOK
  <2>4. Unauthed' /\ KeysAgree' /\ CipherAtHand'
    BY <1>t, <2>1 DEF Unauthed, KeysAgree, CipherAtHand
  <2>5. Provided'
    BY <1>p, <1>t, <2>1 DEF Provided
  <2>6. RenewalInTime'
    BY <1>5, <1>t, <2>1, TimesAssumption DEF RenewalInTime, Tick, TypeOK
  <2> QED
    BY <1>c, <2>3, <2>4, <2>5, <2>6 DEF IInv
<1> QED
  BY <1>1, <1>2, <1>3, <1>4, <1>5 DEF Loop, Ends

(* A step of a caller that changes only where its call is.                 *)
LEMMA MoveKeeps ==
  ASSUME IInv, NEW c \in Callers, NEW w \in Steps, Moves(c, w),
         w = "ok" => got[c].sum = tok[c],
         crypt # NoSession \/ w \in {"idle", "again"} \/ at[c] \notin {"idle", "again"},
         UNCHANGED <<authVars, loopVars, dead, tok, held, req, got, replies, history>>
  PROVE  IInv'
<1>1. at' \in [Callers -> Steps] /\ at' = [at EXCEPT ![c] = w]
  BY DEF Moves, IInv, TypeOK
<1>2. TypeOK'
  BY <1>1 DEF IInv, TypeOK, authVars, loopVars
<1>3. Sealed' /\ Unauthed' /\ KeysAgree' /\ CipherAtHand' /\ RenewalInTime'
  BY DEF IInv, Sealed, Unauthed, KeysAgree, CipherAtHand, RenewalInTime, authVars, loopVars
<1>4. Matched'
  BY <1>1 DEF IInv, Matched, TypeOK
<1>5. Provided'
  BY <1>1 DEF IInv, Provided, TypeOK, authVars
<1> QED
  BY <1>2, <1>3, <1>4, <1>5 DEF IInv

(* A caller past WaitForAuth.                                              *)
Past(c) == at[c] \notin {"idle", "again"}

(* What the use of a cipher does to the client: nothing, but for a nil one.*)
LEMMA UsesKeeps ==
  ASSUME IInv, NEW c \in Callers, Uses(c), Past(c)
  PROVE  /\ held' \in [Callers -> Sessions \cup {NoSession, Unread}]
         /\ dead' \in BOOLEAN
         /\ CipherAtHand' /\ KeysAgree' /\ Unauthed' /\ RenewalInTime'
         /\ UNCHANGED <<authVars, loopVars, replies, history>>
         /\ "shortSecret" \notin history' => crypt' # NoSession /\ \A d \in Callers : held'[d] # NoSession
<1>1. held' \in [Callers -> Sessions \cup {NoSession, Unread}] /\ held' = [held EXCEPT ![c] = Unread]
  BY DEF Uses, IInv, TypeOK
<1>2. UNCHANGED <<authVars, loopVars, replies, history>>
  BY DEF Uses
<1>3. dead' = (dead \/ held[c] = NoSession)
  BY DEF Uses
<1>4. CipherAtHand'
  BY <1>2, <1>3, Zenon DEF IInv, CipherAtHand, Provided
<1>5. KeysAgree' /\ Unauthed' /\ RenewalInTime'
  BY <1>2 DEF IInv, KeysAgree, Unauthed, RenewalInTime, authVars, loopVars
<1>6. "shortSecret" \notin history' => crypt' # NoSession /\ \A d \in Callers : held'[d] # NoSession
  BY <1>1, <1>2 DEF IInv, Provided, Past, Unread, NoSession, TypeOK, authVars
<1> QED
  BY <1>1, <1>2, <1>3, <1>4, <1>5, <1>6

(* Steps of a caller after which its call is over.                         *)
LEMMA EndKeeps ==
  ASSUME IInv, NEW c \in Callers, Over(c),
         \/ Uses(c) /\ Past(c)
         \/ UNCHANGED <<authVars, loopVars, dead, held, replies, history>>
  PROVE  IInv'
<1>1. replies' = replies
  BY DEF Uses
<1>2. /\ at' \in [Callers -> Steps]
      /\ tok' \in [Callers -> Tokens \cup {NoToken}]
      /\ req' \in [Callers -> Requests]
      /\ got' \in [Callers -> Reply]
      /\ Sealed' /\ Matched'
      /\ \A d \in Callers : at'[d] = at[d] \/ at'[d] = "idle"
  BY <1>1, OverKeeps DEF IInv
<1>3. CASE Uses(c) /\ Past(c)
  <2>1. /\ held' \in [Callers -> Sessions \cup {NoSession, Unread}]
        /\ dead' \in BOOLEAN
        /\ CipherAtHand' /\ KeysAgree' /\ Unauthed' /\ RenewalInTime'
        /\ UNCHANGED <<authVars, loopVars, replies, history>>
        /\ "shortSecret" \notin history' => crypt' # NoSession /\ \A d \in Callers : held'[d] # NoSession
    BY <1>3, UsesKeeps
  <2>2. TypeOK'
    BY <1>2, <2>1 DEF IInv, TypeOK, authVars, loopVars
  <2>3. Provided'
    BY <2>1 DEF Provided
  <2> QED
    BY <1>2, <2>1, <2>2, <2>3 DEF IInv
<1>4. CASE UNCHANGED <<authVars, loopVars, dead, held, replies, history>>
  <2>1. TypeOK'
    BY <1>2, <1>4 DEF IInv, TypeOK, authVars, loopVars
  <2>2. Unauthed' /\ KeysAgree' /\ CipherAtHand' /\ RenewalInTime'
    BY <1>4 DEF IInv, Unauthed, KeysAgree, CipherAtHand, RenewalInTime, authVars, loopVars
  <2>3. Provided'
    BY <1>2, <1>4, Zenon DEF IInv, Provided, authVars
  <2> QED
    BY <1>2, <2>1, <2>2, <2>3 DEF IInv
<1> QED
  BY <1>3, <1>4

(* Steps that use the cipher and go on with the call.                      *)
LEMMA GoOnKeeps ==
  ASSUME IInv, NEW c \in Callers, NEW w \in Steps, Uses(c), Past(c), Moves(c, w),
         w = "ok" => got[c].sum = tok[c],
         req' \in [Callers -> Requests], UNCHANGED <<tok, got>>
  PROVE  IInv'
<1>1. /\ held' \in [Callers -> Sessions \cup {NoSession, Unread}]
      /\ dead' \in BOOLEAN
      /\ CipherAtHand' /\ KeysAgree' /\ Unauthed' /\ RenewalInTime'
      /\ UNCHANGED <<authVars, loopVars, replies, history>>
      /\ "shortSecret" \notin history' => crypt' # NoSession /\ \A d \in Callers : held'[d] # NoSession
  BY UsesKeeps, Zenon
<1>2. at' \in [Callers -> Steps] /\ at' = [at EXCEPT ![c] = w]
  BY DEF Moves, IInv, TypeOK
<1>3. TypeOK'
  BY <1>1, <1>2 DEF IInv, TypeOK, authVars, loopVars
<1>4. Sealed'
  BY <1>1, Zenon DEF IInv, Sealed
<1>5. Matched'
  BY <1>2 DEF IInv, Matched, TypeOK
<1>6. Provided'
  BY <1>1, Zenon DEF Provided
<1> QED
  BY <1>1, <1>3, <1>4, <1>5, <1>6, Zenon DEF IInv

LEMMA CallersKeep == IInv /\ (\E c \in Callers : Asks(c) \/ Step(c) \/ Respond(c)) => IInv'
<1> SUFFICES ASSUME IInv, NEW c \in Callers, Asks(c) \/ Step(c) \/ Respond(c) PROVE IInv'
  OBVIOUS
<1>t. TypeOK
  BY DEF IInv
<1>1. CASE WaitForAuth(c)
  <2>1. CASE IsAuthenticated /\ Moves(c, "ready")
    <3>1. crypt # NoSession
      BY <2>1 DEF IsAuthenticated, IInv, KeysAgree
    <3> QED
      BY <1>1, <2>1, <3>1, MoveKeeps DEF WaitForAuth, Steps
  <2>2. CASE ~ IsAuthenticated
    <3>1. Moves(c, "again") \/ Moves(c, "idle")
      BY <1>1, <2>2 DEF WaitForAuth
    <3> QED
      BY <1>1, <3>1, MoveKeeps DEF WaitForAuth, Steps
  <2> QED
    BY <1>1, <2>1, <2>2 DEF WaitForAuth
<1>2. ASSUME NEW query \in BOOLEAN, NEW hasBody \in BOOLEAN, NewRequest(c, query, hasBody)
      PROVE  IInv'
  <2>1. PICK w \in {"encrypt", "sign"} : at' = [at EXCEPT ![c] = w]
    BY <1>2, Zenon DEF NewRequest, Moves
  <2>2. tok' \in [Callers -> Tokens \cup {NoToken}] /\ \A d \in Callers : d # c => tok'[d] = tok[d]
    BY <1>2, <1>t, FreshIn DEF NewRequest, TypeOK
  <2>3. Request(idKey, query, NoSession, NoSession) \in Requests
    BY <1>t DEF Request, Requests, TypeOK
  <2>4. req' \in [Callers -> Requests]
    BY <1>2, <1>t, <2>3 DEF NewRequest, TypeOK
  <2>5. UNCHANGED <<authVars, loopVars, dead, held, got, replies, history>> /\ at[c] = "ready"
    BY <1>2 DEF NewRequest
  <2>6. at' \in [Callers -> Steps]
    BY <1>t, <2>1 DEF TypeOK, Steps
  <2>7. TypeOK'
    BY <1>t, <2>2, <2>4, <2>5, <2>6 DEF TypeOK, authVars, loopVars
  <2>8. Sealed' /\ Unauthed' /\ KeysAgree' /\ CipherAtHand' /\ RenewalInTime'
    BY <2>5 DEF IInv, Sealed, Unauthed, KeysAgree, CipherAtHand, RenewalInTime, authVars, loopVars
  <2>9. Matched'
    BY <1>t, <2>1, <2>2, <2>5 DEF IInv, Matched, TypeOK
  <2>10. Provided'
    BY <2>5, Zenon DEF IInv, Provided, authVars
  <2> QED
    BY <2>7, <2>8, <2>9, <2>10 DEF IInv
<1>3. CASE Crypt(c)
  <2>1. /\ held' = [held EXCEPT ![c] = crypt]
        /\ UNCHANGED <<authVars, loopVars, dead, at, tok, req, got, replies, history>>
        /\ at[c] \notin {"idle", "again"}
    BY <1>3 DEF Crypt
  <2>2. held' \in [Callers -> Sessions \cup {NoSession, Unread}]
    BY <1>t, <2>1 DEF TypeOK
  <2>3. TypeOK'
    BY <1>t, <2>1, <2>2 DEF TypeOK, authVars, loopVars
  <2>4. Sealed' /\ Matched' /\ Unauthed' /\ KeysAgree' /\ CipherAtHand' /\ RenewalInTime'
    BY <2>1 DEF IInv, Sealed, Matched, Unauthed, KeysAgree, CipherAtHand, RenewalInTime, authVars, loopVars
  <2>5. Provided'
    BY <1>t, <2>1 DEF IInv, Provided, TypeOK, authVars
  <2> QED
    BY <2>3, <2>4, <2>5 DEF IInv
<1>r. ASSUME NEW r \in Requests, NEW b \in Sessions \cup {NoSession}
      PROVE  Request(r.id, r.query, b, r.token) \in Requests /\ Request(r.id, r.query, r.body, b) \in Requests
  BY DEF Request, Requests
<1>h. Uses(c) => held[c] \in Sessions \cup {NoSession}
  BY <1>t DEF Uses, TypeOK
<1>4. CASE EncryptPayload(c)
  <2>1. Uses(c) /\ Past(c) /\ Moves(c, "sign") /\ UNCHANGED <<tok, got>>
    BY <1>4 DEF EncryptPayload, Past
  <2>2. req[c] \in Requests
    BY <1>t DEF TypeOK
  <2>3. req' = [req EXCEPT ![c] = Request(req[c].id, req[c].query, held[c], req[c].token)]
    BY <1>4 DEF EncryptPayload
  <2>4. req' \in [Callers -> Requests]
    BY <1>h, <1>r, <1>t, <2>1, <2>2, <2>3, Zenon DEF TypeOK
  <2> QED
    BY <2>1, <2>4, GoOnKeeps DEF Steps
<1>5. CASE SignRequest(c)
  <2>1. CASE Over(c) /\ UNCHANGED <<authVars, loopVars, dead, held, replies, history>>
    BY <2>1, EndKeeps
  <2>2. CASE Moves(c, "token") /\ UNCHANGED <<authVars, loopVars, dead, tok, held, req, got, replies, history>>
    BY <1>5, <2>2, MoveKeeps DEF SignRequest, Steps
  <2> QED
    BY <1>5, <2>1, <2>2 DEF SignRequest
<1>6. CASE GetEncryptedToken(c)
  <2>1. Uses(c) /\ Past(c) /\ Moves(c, "sent") /\ UNCHANGED <<tok, got>>
    BY <1>6 DEF GetEncryptedToken, Past
  <2>2. req[c] \in Requests
    BY <1>t DEF TypeOK
  <2>3. req' = [req EXCEPT ![c] = Request(req[c].id, req[c].query, req[c].body, held[c])]
    BY <1>6 DEF GetEncryptedToken
  <2>4. req' \in [Callers -> Requests]
    BY <1>h, <1>r, <1>t, <2>1, <2>2, <2>3 DEF TypeOK
  <2> QED
    BY <2>1, <2>4, GoOnKeeps DEF Steps
<1>7. CASE Respond(c)
  <2> DEFINE r == [answers |-> tok[c], sum |-> tok[c], key |-> req[c].id]
  <2>1. /\ replies' = replies \cup {r}
        /\ at' = [at EXCEPT ![c] = "answered"] /\ at[c] = "sent"
        /\ UNCHANGED <<authVars, loopVars, dead, tok, held, req, got, history>>
    BY <1>7 DEF Respond, Moves
  <2>2. r \in Reply /\ r.answers = r.sum
    BY <1>t DEF TypeOK, Reply, Requests
  <2> HIDE DEF r
  <2>3. at' \in [Callers -> Steps]
    BY <1>t, <2>1 DEF TypeOK, Steps
  <2>4. TypeOK'
    BY <1>t, <2>1, <2>2, <2>3 DEF TypeOK, authVars, loopVars
  <2>5. Sealed' /\ Unauthed' /\ KeysAgree' /\ CipherAtHand' /\ RenewalInTime'
    BY <2>1, <2>2 DEF IInv, Sealed, Unauthed, KeysAgree, CipherAtHand, RenewalInTime, authVars, loopVars
  <2>6. Matched' /\ Provided'
    BY <1>t, <2>1 DEF IInv, Matched, Provided, TypeOK, authVars
  <2> QED
    BY <2>4, <2>5, <2>6 DEF IInv
<1>8. CASE RequestFails(c)
  BY <1>8, EndKeeps DEF RequestFails
<1>9. CASE Receive(c)
  <2>1. PICK r \in replies : got' = [got EXCEPT ![c] = r] /\ replies' = replies \ {r}
    BY <1>9, Zenon DEF Receive
  <2>2. /\ at' = [at EXCEPT ![c] = "setToken"] /\ at[c] \in {"sent", "answered"}
        /\ req' = [req EXCEPT ![c] = NoRequest]
        /\ UNCHANGED <<authVars, loopVars, dead, tok, held, history>>
    BY <1>9 DEF Receive, Moves
  <2>3. at' \in [Callers -> Steps] /\ got' \in [Callers -> Reply] /\ req' \in [Callers -> Requests]
    BY <1>t, <2>1, <2>2, NothingTyped, Zenon DEF TypeOK, Steps
  <2>4. TypeOK'
    BY <1>t, <2>1, <2>2, <2>3, Zenon DEF TypeOK, authVars, loopVars
  <2>5. Sealed'
    BY <1>t, <2>1, Zenon DEF IInv, Sealed, TypeOK
  <2>6. Unauthed' /\ KeysAgree' /\ CipherAtHand' /\ RenewalInTime'
    BY <2>2 DEF IInv, Unauthed, KeysAgree, CipherAtHand, RenewalInTime, authVars, loopVars
  <2>7. Matched' /\ Provided'
    BY <1>t, <2>1, <2>2, Zenon DEF IInv, Matched, Provided, TypeOK, authVars
  <2> QED
    BY <2>4, <2>5, <2>6, <2>7 DEF IInv
<1>10. CASE SetEncryptedToken(c)
  <2>1. CASE Over(c)
    BY <1>10, <2>1, EndKeeps DEF SetEncryptedToken, Past
  <2>2. CASE Moves(c, "decrypt") /\ UNCHANGED <<tok, req, got>>
    <3>1. req' \in [Callers -> Requests]
      BY <1>t, <2>2 DEF TypeOK
    <3> QED
      BY <1>10, <2>2, <3>1, GoOnKeeps, Zenon DEF SetEncryptedToken, Past, Steps
  <2> QED
    BY <1>10, <2>1, <2>2, Zenon DEF SetEncryptedToken
<1>11. CASE DecryptPayload(c)
  <2>1. CASE Over(c)
    BY <1>11, <2>1, EndKeeps, Zenon DEF DecryptPayload, Past
  <2>2. CASE got[c].sum = tok[c] /\ Moves(c, "ok") /\ UNCHANGED <<tok, req, got>>
    <3>1. req' \in [Callers -> Requests]
      BY <1>t, <2>2 DEF TypeOK
    <3> QED
      BY <1>11, <2>2, <3>1, GoOnKeeps, Zenon DEF DecryptPayload, Past, Steps
  <2> QED
    BY <1>11, <2>1, <2>2 DEF DecryptPayload
<1>12. CASE Return(c)
  BY <1>12, EndKeeps DEF Return
<1>13. CASE Asks(c)
  BY <1>1, <1>2, <1>13 DEF Asks
<1>14. CASE Step(c)
  BY <1>3, <1>4, <1>5, <1>6, <1>8, <1>9, <1>10, <1>11, <1>12, <1>14 DEF Step
<1> QED
  BY <1>7, <1>13, <1>14

LEMMA LoseKeeps == IInv /\ Lose => IInv'
<1> SUFFICES ASSUME IInv, Lose PROVE IInv'
  OBVIOUS
<1>1. replies' \subseteq replies /\ UNCHANGED <<authVars, loopVars, dead, callVars, history>>
  BY DEF Lose
<1>2. TypeOK'
  BY <1>1 DEF IInv, TypeOK, authVars, loopVars, callVars
<1>3. Sealed' /\ Matched' /\ Provided'
  BY <1>1 DEF IInv, Sealed, Matched, Provided, authVars, callVars
<1>4. Unauthed' /\ KeysAgree' /\ CipherAtHand' /\ RenewalInTime'
  BY <1>1 DEF IInv, Unauthed, KeysAgree, CipherAtHand, RenewalInTime, authVars, loopVars
<1> QED
  BY <1>2, <1>3, <1>4 DEF IInv

LEMMA InitHolds == Init => IInv
<1> SUFFICES ASSUME Init PROVE IInv
  OBVIOUS
<1>1. TypeOK
  <2>1. authed \in BOOLEAN /\ dead \in BOOLEAN
    BY Zenon DEF Init
  <2>2. left \in Nat /\ interval \in Int /\ due \in Int
    BY DEF Init
  <2>3. replies \subseteq Reply /\ history \subseteq Events /\ {crypt, idKey} \subseteq Sessions \cup {NoSession}
    BY DEF Init
  <2>4. at \in [Callers -> Steps] /\ loop \in {"off", "waiting", "auth", "failed", "renewed", "stopped"}
    BY DEF Init, Steps
  <2>5. req \in [Callers -> Requests] /\ got \in [Callers -> Reply]
    BY NothingTyped DEF Init
  <2>6. tok \in [Callers -> Tokens \cup {NoToken}] /\ held \in [Callers -> Sessions \cup {NoSession, Unread}]
    BY DEF Init
  <2> QED
    BY <2>1, <2>2, <2>3, <2>4, <2>5, <2>6 DEF TypeOK
<1>2. Sealed /\ Matched /\ Provided
  BY NothingTyped DEF Init, Sealed, Matched, Provided, Unread, NoSession
<1>3. Unauthed /\ KeysAgree /\ CipherAtHand /\ RenewalInTime
  BY DEF Init, Unauthed, KeysAgree, CipherAtHand, RenewalInTime
<1> QED
  BY <1>1, <1>2, <1>3 DEF IInv

LEMMA StutterKeeps == IInv /\ UNCHANGED vars => IInv'
<1> SUFFICES ASSUME IInv, UNCHANGED vars PROVE IInv'
  OBVIOUS
<1>1. UNCHANGED <<authVars, loopVars, dead, callVars, replies, history>>
  BY DEF vars
<1>2. TypeOK'
  BY <1>1 DEF IInv, TypeOK, authVars, loopVars, callVars
<1>3. Sealed' /\ Matched' /\ Provided'
  BY <1>1 DEF IInv, Sealed, Matched, Provided, authVars, callVars
<1>4. Unauthed' /\ KeysAgree' /\ CipherAtHand' /\ RenewalInTime'
  BY <1>1 DEF IInv, Unauthed, KeysAgree, CipherAtHand, RenewalInTime, authVars, loopVars
<1> QED
  BY <1>2, <1>3, <1>4 DEF IInv

(* The invariant holds in every state of every behaviour.                  *)
THEOREM ApiInvariant == Spec => []IInv
<1>1. IInv /\ [Next]_vars => IInv'
  BY LoopKeeps, CallersKeep, LoseKeeps, StutterKeeps DEF Next
<1> QED
  BY <1>1, InitHolds, PTL DEF Spec

(* The types of the client's state hold.                                   *)
THEOREM ApiTypeOK == Spec => []TypeOK
<1>1. IInv => TypeOK
  BY DEF IInv
<1> QED
  BY <1>1, ApiInvariant, PTL

(* A call that succeeds returns the answer to its own request, for any     *)
(* number of callers, sessions and responses under way.                    *)
THEOREM ApiAnswersOwnRequest == Spec => []AnswersOwnRequest
<1>1. IInv => AnswersOwnRequest
  BY DEF IInv, Sealed, Matched, AnswersOwnRequest
<1> QED
  BY <1>1, ApiInvariant, PTL

(* An authenticated client has a cipher, and names its session to the node.*)
THEOREM ApiKeysAgree == Spec => []KeysAgree
<1>1. IInv => KeysAgree
  BY DEF IInv
<1> QED
  BY <1>1, ApiInvariant, PTL

(* No nil cipher is dereferenced unless a shared secret came out short or  *)
(* a key was used up when it came.                                         *)
THEOREM ApiCipherAtHand == Spec => []CipherAtHand
<1>1. IInv => CipherAtHand
  BY DEF IInv
<1> QED
  BY <1>1, ApiInvariant, PTL

(* The timer fires the margin before the key expires, for any lifetimes.   *)
THEOREM ApiRenewalInTime == Spec => []RenewalInTime
<1>1. IInv => RenewalInTime
  BY DEF IInv
<1> QED
  BY <1>1, ApiInvariant, PTL
=============================================================================
