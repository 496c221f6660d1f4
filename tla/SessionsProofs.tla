--------------------------- MODULE SessionsProofs ---------------------------
(***************************************************************************)
(* Proofs about the OAuth flow, the counter and the command runner.        *)
(***************************************************************************)
EXTENDS Counter, Cli, Authenticator, Facts

(* A leaf that names no prover is tried with these, in turn *)
USE SMT, Zenon, Z3, SMTT(10)

-----------------------------------------------------------------------------
(* The OAuth flow.  Once a redirect's token is saved nothing refuses it,   *)
(* so that two of them with the same state stay for ever.                  *)

Saved(r) == request[r].at \in {"saved", "delay", "gone"}

SavedTwice ==
  \E r, q \in Requests : r # q /\ request[r].state = request[q].state /\ Saved(r) /\ Saved(q)

Ended(f) == server[f] \in {"shutdown", "exited"}

RequestType ==
  [at : {"none", "received", "refused", "exchange", "saved", "delay", "gone"},
   server : 0 .. MaxFlows, state : 0 .. MaxFlows]

AuthTypeOK ==
  /\ flow \in 0 .. MaxFlows
  /\ server \in [Flows -> {"none", "serving", "shutdown", "exited"}]
  /\ localHttpServer \in 0 .. flow
  /\ state \in 0 .. flow
  /\ token \in 0 .. flow
  /\ request \in [Requests -> RequestType]
  /\ \A r \in Requests : request[r].at # "none" => request[r].state \in 1 .. flow
  /\ \A f \in Flows : server[f] = "none" <=> f > flow
  /\ calls \in 0 .. MaxWaits
  /\ waiters \in [Waits -> {"none", "in", "woken", "gone"}]
  /\ owner_ = "waiting" => calls > 0 /\ flow > 0

(* The wait is over, and no flow can be started before the owner knows *)
WaitOver == owner_ = "waiting" /\ waiters[calls] = "gone" => Unfinished = {}

TokenSaved == \A r \in Requests : Saved(r) => token # 0

(* One flow at a time *)
InTurn ==
  ~overlapped =>
    /\ \A f \in 1 .. flow - 1 : server[f] = "exited"
    /\ localHttpServer \in {0, flow}
    /\ result = "completed" => flow > 0 /\ server[flow] = "exited" /\ ~serverError

(* A server that has come to its end, with no error and no cancel, was     *)
(* shut down for a redirect of its flow, or for one of a flow that had     *)
(* another: the redirect of an earlier flow meets a server only after that *)
(* flow's own has gone.                                                    *)
EndExplained ==
  ~canceled =>
    \A f \in Flows : Ended(f) /\ ~serverError =>
      /\ token # 0
      /\ \/ overlapped \/ SavedTwice
         \/ \E r \in Requests : request[r].at = "gone" /\ request[r].state = f

LastToken ==
  ~canceled =>
    \A r \in Requests : Saved(r) /\ request[r].state = flow =>
      token = flow \/ overlapped \/ SavedTwice \/ serverError

Completed ==
  ~canceled /\ result = "completed" => token # 0 /\ (token = flow \/ overlapped \/ SavedTwice)

AuthIInv ==
  AuthTypeOK /\ WaitOver /\ TokenSaved /\ InTurn /\ EndExplained /\ LastToken /\ Completed

(* A step that leaves all of this alone: a panic, a stutter *)
LEMMA NothingMoves ==
  ASSUME AuthIInv,
         UNCHANGED <<flow, server, localHttpServer, state, serverError, token, request, canceled,
                     owner_, waiters, result, calls, overlapped>>
  PROVE  AuthIInv'
<1>1. AuthTypeOK'
  BY DEF AuthIInv, AuthTypeOK
<1>2. WaitOver' /\ TokenSaved' /\ InTurn'
  BY DEF AuthIInv, WaitOver, TokenSaved, InTurn, Unfinished, Saved
<1>3. SavedTwice' <=> SavedTwice
  BY DEF SavedTwice, Saved
<1>4. EndExplained'
  BY <1>3 DEF AuthIInv, EndExplained, Ended
<1>5. LastToken' /\ Completed'
  BY <1>3 DEF AuthIInv, LastToken, Completed, Saved
<1> QED BY <1>1, <1>2, <1>4, <1>5 DEF AuthIInv

(* The owner's steps that start nothing and end nothing *)
LEMMA OwnerWaits ==
  ASSUME AuthIInv,
         \/ WaitForOAuthFlowCompletion \/ WaitTimesOut \/ Cancel \/ WaitStopped
         \/ \E w \in Waits : WaiterReturns(w)
  PROVE  AuthIInv'
<1>1. /\ UNCHANGED <<flow, server, localHttpServer, state, serverError, token, request, overlapped>>
      /\ result' \in {result, "none", "timeout", "canceled"}
  BY DEF WaitForOAuthFlowCompletion, WaitTimesOut, Cancel, WaitStopped, WaiterReturns, Crash
<1>2. AuthTypeOK'
  <2>1. CASE WaitForOAuthFlowCompletion
    BY <2>1, AuthAssumption DEF WaitForOAuthFlowCompletion, AuthIInv, AuthTypeOK, Waits
  <2>2. CASE WaitTimesOut \/ Cancel \/ WaitStopped
    BY <2>2 DEF WaitTimesOut, Cancel, WaitStopped, AuthIInv, AuthTypeOK
  <2>3. ASSUME NEW w \in Waits, WaiterReturns(w) PROVE AuthTypeOK'
    BY <2>3 DEF WaiterReturns, Crash, AuthIInv, AuthTypeOK
  <2> QED BY <2>1, <2>2, <2>3
<1>3. WaitOver'
  <2>1. CASE WaitForOAuthFlowCompletion
    BY <2>1, AuthAssumption DEF WaitForOAuthFlowCompletion, AuthIInv, AuthTypeOK, WaitOver, Waits
  <2>2. CASE WaitTimesOut \/ Cancel \/ WaitStopped
    BY <2>2 DEF WaitTimesOut, Cancel, WaitStopped, AuthIInv, WaitOver, Unfinished
  <2>3. ASSUME NEW w \in Waits, WaiterReturns(w) PROVE WaitOver'
    BY <2>3, Zenon DEF WaiterReturns, Crash, AuthIInv, AuthTypeOK, WaitOver, Unfinished, Waits
  <2> QED BY <2>1, <2>2, <2>3
<1>4. TokenSaved' /\ InTurn'
  BY <1>1 DEF AuthIInv, TokenSaved, InTurn, Saved
<1>5. canceled => canceled'
  BY Zenon DEF WaitForOAuthFlowCompletion, WaitTimesOut, Cancel, WaitStopped, WaiterReturns, Crash
<1>6. EndExplained' /\ LastToken' /\ Completed'
  BY <1>1, <1>5 DEF AuthIInv, EndExplained, LastToken, Completed, Ended, Saved, SavedTwice
<1> QED BY <1>2, <1>3, <1>4, <1>6 DEF AuthIInv

(* The wait that returns *)
LEMMA OwnerReturns ==
  ASSUME AuthIInv, WaitReturns
  PROVE  AuthIInv'
<1>1. /\ UNCHANGED <<flow, server, localHttpServer, state, serverError, token, request, canceled,
                     waiters, calls, overlapped>>
      /\ owner_' = "idle"
      /\ result' = IF serverError THEN "error" ELSE "completed"
  BY DEF WaitReturns
<1>2. AuthTypeOK' /\ WaitOver' /\ TokenSaved'
  BY <1>1 DEF AuthIInv, AuthTypeOK, WaitOver, TokenSaved, Saved
<1>3. Unfinished = {} /\ flow > 0
  BY DEF WaitReturns, AuthIInv, AuthTypeOK, WaitOver
<1>4. \A f \in 1 .. flow : server[f] = "exited"
  BY <1>3, AuthAssumption DEF AuthIInv, AuthTypeOK, Unfinished, Flows
<1>5. InTurn'
  BY <1>1, <1>3, <1>4 DEF AuthIInv, InTurn, AuthTypeOK
<1>6. EndExplained' /\ LastToken'
  BY <1>1 DEF AuthIInv, EndExplained, LastToken, Ended, Saved, SavedTwice
<1>7. Completed'
  <2> SUFFICES ASSUME ~canceled, ~serverError
               PROVE  token # 0 /\ (token = flow \/ overlapped \/ SavedTwice)
    BY <1>1 DEF Completed, SavedTwice, Saved
  <2>1. flow \in Flows /\ Ended(flow)
    BY <1>3, <1>4 DEF AuthIInv, AuthTypeOK, Flows, Ended
  <2> QED BY <2>1 DEF AuthIInv, EndExplained, LastToken, Saved
<1> QED BY <1>2, <1>5, <1>6, <1>7 DEF AuthIInv

LEMMA FlowStarts ==
  ASSUME AuthIInv, StartOAuthFlow
  PROVE  AuthIInv'
<1>1. /\ flow < MaxFlows /\ flow' = flow + 1
      /\ server' = [server EXCEPT ![flow + 1] = "serving"]
      /\ overlapped' = (overlapped \/ Unfinished # {})
      /\ localHttpServer' = flow + 1 /\ state' = flow + 1 /\ result' = "none"
      /\ owner_ = "idle"
      /\ UNCHANGED <<serverError, token, request, canceled, owner_, waiters, calls>>
  BY DEF StartOAuthFlow
<1>2. flow \in Nat /\ flow + 1 \in Flows
  BY <1>1, AuthAssumption DEF AuthIInv, AuthTypeOK, Flows
<1>3. AuthTypeOK'
  BY <1>1, <1>2, AuthAssumption DEF AuthIInv, AuthTypeOK, Flows
<1>4. WaitOver' /\ TokenSaved' /\ Completed'
  BY <1>1 DEF AuthIInv, WaitOver, TokenSaved, Completed, Saved
<1>5. InTurn'
  <2>0. ~overlapped' => ~overlapped /\ Unfinished = {}
    BY <1>1, Zenon
  <2> SUFFICES ASSUME Unfinished = {}
               PROVE  \A f \in 1 .. flow : server'[f] = "exited"
    <3>1. flow' - 1 = flow /\ localHttpServer' = flow' /\ result' = "none"
      BY <1>1, <1>2
    <3> QED BY <2>0, <3>1 DEF InTurn
  <2>1. \A f \in 1 .. flow : f \in Flows /\ f # flow + 1 /\ server[f] = "exited"
    BY <1>2, AuthAssumption DEF AuthIInv, AuthTypeOK, Unfinished, Flows
  <2> QED BY <1>1, <2>1 DEF AuthIInv, AuthTypeOK
<1>6. EndExplained'
  <2>1. \A f \in Flows : Ended(f)' => Ended(f)
    BY <1>1, <1>2 DEF AuthIInv, AuthTypeOK, Ended
  <2>2. (SavedTwice \/ overlapped) => (SavedTwice \/ overlapped)'
    BY <1>1, Zenon DEF SavedTwice, Saved
  <2> QED BY <1>1, <2>1, <2>2 DEF AuthIInv, EndExplained
<1>7. LastToken'
  <2>1. \A r \in Requests : ~(Saved(r)' /\ request'[r].state = flow')
    BY <1>1, <1>2 DEF AuthIInv, AuthTypeOK, Saved
  <2> QED BY <2>1 DEF LastToken
<1> QED BY <1>3, <1>4, <1>5, <1>6, <1>7 DEF AuthIInv

(* A server is gone *)
LEMMA ServerGone ==
  ASSUME AuthIInv, NEW f \in Flows, ListenFails(f) \/ ServerClosed(f)
  PROVE  AuthIInv'
<1>1. /\ server[f] \in {"serving", "shutdown"}
      /\ server' = [server EXCEPT ![f] = "exited"]
      /\ localHttpServer' = 0
      /\ waiters' = [w \in Waits |->
                       IF Unfinished = {f} /\ waiters[w] = "in" THEN "woken" ELSE waiters[w]]
      /\ UNCHANGED <<flow, state, token, request, canceled, owner_, result, calls, overlapped>>
  BY DEF ListenFails, ServerClosed, ServerExits
<1>2. \/ server[f] = "shutdown" /\ UNCHANGED serverError
      \/ server[f] = "serving" /\ serverError' = TRUE
  BY Zenon DEF ListenFails, ServerClosed
<1>3. AuthTypeOK'
  <2>1. server' \in [Flows -> {"none", "serving", "shutdown", "exited"}]
    BY <1>1 DEF AuthIInv, AuthTypeOK
  <2>2. \A g \in Flows : server'[g] = "none" <=> g > flow
    BY <1>1 DEF AuthIInv, AuthTypeOK
  <2>3. waiters' \in [Waits -> {"none", "in", "woken", "gone"}]
    BY <1>1 DEF AuthIInv, AuthTypeOK
  <2>4. 0 \in 0 .. flow
    BY DEF AuthIInv, AuthTypeOK
  <2> QED BY <1>1, <2>1, <2>2, <2>3, <2>4 DEF AuthIInv, AuthTypeOK
<1>4. WaitOver'
  <2>1. Unfinished' \subseteq Unfinished
    BY <1>1 DEF AuthIInv, AuthTypeOK, Unfinished
  <2>2. waiters'[calls] = "gone" /\ owner_ = "waiting" => waiters[calls] = "gone"
    BY <1>1 DEF AuthIInv, AuthTypeOK, Waits
  <2> QED BY <1>1, <2>1, <2>2 DEF AuthIInv, WaitOver
<1>5. TokenSaved'
  BY <1>1 DEF AuthIInv, TokenSaved, Saved
<1>6. InTurn'
  <2> SUFFICES ASSUME ~overlapped PROVE InTurn'
    BY <1>1 DEF InTurn
  <2>1. \A g \in 1 .. flow - 1 : g \in Flows /\ server'[g] = "exited"
    BY <1>1, AuthAssumption DEF AuthIInv, AuthTypeOK, InTurn, Flows
  <2>2. flow \in Flows /\ server[flow] = "exited" => server'[flow] = "exited"
    BY <1>1 DEF AuthIInv, AuthTypeOK
  <2>3. result = "completed" => serverError' = serverError
    <3>1. f <= flow /\ f # 0
      BY <1>1 DEF AuthIInv, AuthTypeOK, Flows
    <3>2. f = flow \/ f \in 1 .. flow - 1
      BY <3>1 DEF AuthIInv, AuthTypeOK, Flows
    <3> QED BY <1>1, <3>2 DEF AuthIInv, InTurn
  <2>4. flow > 0 => flow \in Flows
    BY AuthAssumption DEF AuthIInv, AuthTypeOK, Flows
  <2> QED BY <1>1, <2>1, <2>2, <2>3, <2>4 DEF AuthIInv, InTurn
<1>7. (SavedTwice => SavedTwice') /\ \A r \in Requests : Saved(r)' <=> Saved(r)
  BY <1>1 DEF SavedTwice, Saved
<1>8. serverError => serverError'
  BY <1>2, Zenon
<1>9. EndExplained'
  <2>1. \A g \in Flows : Ended(g)' /\ ~serverError' => Ended(g) /\ ~serverError
    BY <1>1, <1>2 DEF AuthIInv, AuthTypeOK, Ended
  <2> QED BY <1>1, <1>7, <2>1, Zenon DEF AuthIInv, EndExplained
<1>10. LastToken'
  BY <1>1, <1>7, <1>8 DEF AuthIInv, LastToken
<1>11. Completed'
  BY <1>1, <1>7 DEF AuthIInv, Completed
<1> QED BY <1>3, <1>4, <1>5, <1>6, <1>9, <1>10, <1>11 DEF AuthIInv

(* A cancel shuts the server down *)
LEMMA CancelShutsDown ==
  ASSUME AuthIInv, WaitCanceled
  PROVE  AuthIInv'
<1>1. CASE localHttpServer = 0
  <2>1. UNCHANGED <<flow, server, localHttpServer, state, serverError, token, request, canceled,
                 owner_, waiters, result, calls, overlapped>>
    BY <1>1 DEF WaitCanceled, Shutdown, Crash
  <2> QED BY <2>1, NothingMoves
<1>2. CASE localHttpServer # 0
  <2>1. /\ canceled /\ owner_' = "stopping"
        /\ server' = [server EXCEPT ![localHttpServer] = IF @ = "serving" THEN "shutdown" ELSE @]
        /\ UNCHANGED <<flow, localHttpServer, state, serverError, token, request, canceled,
                       waiters, result, calls, overlapped>>
    BY <1>2 DEF WaitCanceled, Shutdown
  <2>2. localHttpServer \in Flows
    BY <1>2, AuthAssumption DEF AuthIInv, AuthTypeOK, Flows
  <2>3. AuthTypeOK'
    BY <2>1, <2>2 DEF AuthIInv, AuthTypeOK
  <2>4. \A f \in Flows : server[f] = "exited" => server'[f] = "exited"
    BY <2>1, <2>2 DEF AuthIInv, AuthTypeOK
  <2>5. InTurn'
    <3>1. 1 .. flow - 1 \subseteq Flows /\ (flow > 0 => flow \in Flows)
      BY AuthAssumption DEF AuthIInv, AuthTypeOK, Flows
    <3> QED BY <2>1, <2>4, <3>1 DEF AuthIInv, InTurn
  <2> QED BY <2>1, <2>3, <2>5 DEF AuthIInv, WaitOver, TokenSaved, EndExplained, LastToken,
                                  Completed, Saved
<1> QED BY <1>1, <1>2

(* A request moves on in its handler *)
LEMMA RequestMoves ==
  ASSUME AuthTypeOK, NEW r \in Requests, request[r].at # "none",
         NEW at \in {"refused", "exchange", "saved", "delay", "gone"}, Move(r, at)
  PROVE  /\ request' \in [Requests -> RequestType]
         /\ request'[r].at = at
         /\ \A q \in Requests : request'[q].state = request[q].state
         /\ \A q \in Requests \ {r} : request'[q].at = request[q].at
BY DEF Move, AuthTypeOK, RequestType

(* A step that moves one request on, or receives one, before its token is  *)
(* saved, or after                                                         *)
HandlerOnly(r) ==
  /\ request' \in [Requests -> RequestType]
  /\ \A q \in Requests \ {r} : request'[q] = request[q]
  /\ request'[r].state \in 1 .. flow
  /\ Saved(r)' <=> Saved(r)
  /\ Saved(r) => request'[r].state = request[r].state
  /\ request[r].at # "gone"
  /\ state' \in {0, state}
  /\ UNCHANGED <<flow, server, localHttpServer, serverError, token, canceled, owner_, waiters,
                 result, calls, overlapped>>

LEMMA HandlerKeeps ==
  ASSUME AuthIInv, NEW r \in Requests, HandlerOnly(r)
  PROVE  AuthIInv'
<1>1. \A q \in Requests : (Saved(q)' <=> Saved(q)) /\ (Saved(q) => request'[q].state = request[q].state)
  BY DEF HandlerOnly, Saved
<1>2. \A q \in Requests : request[q].at = "gone" => request'[q] = request[q]
  BY DEF HandlerOnly
<1>3. SavedTwice => SavedTwice'
  BY <1>1 DEF SavedTwice
<1>4. UNCHANGED <<flow, server, serverError, token, canceled, owner_, waiters, result, calls,
                  localHttpServer, overlapped>>
  BY DEF HandlerOnly
<1>5. AuthTypeOK'
  BY DEF HandlerOnly, AuthIInv, AuthTypeOK
<1>6. WaitOver'
  BY <1>4 DEF AuthIInv, WaitOver, Unfinished
<1>7. TokenSaved'
  BY <1>1, <1>4 DEF AuthIInv, TokenSaved
<1>8. InTurn'
  BY <1>4 DEF AuthIInv, InTurn
<1>9. EndExplained'
  <2>1. \A f \in Flows : Ended(f)' <=> Ended(f)
    BY <1>4 DEF Ended
  <2> QED BY <1>2, <1>3, <1>4, <2>1 DEF AuthIInv, EndExplained
<1>10. LastToken'
  BY <1>1, <1>3, <1>4, Zenon DEF AuthIInv, LastToken
<1>11. Completed'
  BY <1>3, <1>4 DEF AuthIInv, Completed
<1> QED BY <1>5, <1>6, <1>7, <1>8, <1>9, <1>10, <1>11 DEF AuthIInv

LEMMA RedirectReceived ==
  ASSUME AuthIInv, NEW r \in Requests, NEW f \in Flows, NEW g \in Flows, Receive(r, f, g)
  PROVE  AuthIInv'
<1> DEFINE new == [at |-> "received", server |-> f, state |-> g]
<1>1. /\ request[r].at = "none" /\ g <= flow
      /\ request' = [request EXCEPT ![r] = new]
      /\ UNCHANGED <<flow, server, localHttpServer, state, serverError, token, canceled, owner_,
                     waiters, result, calls, overlapped>>
  BY DEF Receive
<1>2. new \in RequestType /\ new.state \in 1 .. flow
  BY <1>1 DEF AuthIInv, AuthTypeOK, RequestType, Flows
<1>3. /\ request' \in [Requests -> RequestType]
      /\ request'[r] = new
      /\ \A q \in Requests \ {r} : request'[q] = request[q]
  BY <1>1, <1>2 DEF AuthIInv, AuthTypeOK
<1>4. ~Saved(r) /\ ~Saved(r)'
  BY <1>1, <1>3 DEF Saved
<1>5. HandlerOnly(r)
  BY <1>1, <1>2, <1>3, <1>4 DEF HandlerOnly
<1> QED BY <1>5, HandlerKeeps

(* A redirect is refused, accepted, or ended *)
LEMMA RedirectHandled ==
  ASSUME AuthIInv, NEW r \in Requests,
         \/ Check(r)
         \/ request[r].at = "exchange" /\ Refuse(r)
         \/ CallbackDone(r)
  PROVE  AuthIInv'
<1>0. \E at \in {"refused", "exchange", "delay", "gone"} :
        /\ Move(r, at)
        /\ request[r].at \in (IF at \in {"refused", "exchange"} THEN {"received", "exchange"}
                                                              ELSE {"saved"})
  <2>1. CASE Check(r) \/ (request[r].at = "exchange" /\ Refuse(r))
    BY <2>1, Zenon DEF Check, Refuse
  <2>2. CASE CallbackDone(r)
    <3>1. Move(r, "delay") \/ Move(r, "gone")
      BY <2>2 DEF CallbackDone
    <3> QED BY <2>2, <3>1, Zenon DEF CallbackDone
  <2> QED BY <2>1, <2>2
<1>1. PICK at \in {"refused", "exchange", "delay", "gone"} :
        /\ Move(r, at)
        /\ request[r].at \in (IF at \in {"refused", "exchange"} THEN {"received", "exchange"}
                                                              ELSE {"saved"})
  BY <1>0
<1>2. /\ state' \in {0, state}
      /\ UNCHANGED <<flow, server, localHttpServer, serverError, token, canceled, owner_, waiters,
                     result, calls, overlapped>>
  BY Zenon DEF Check, Refuse, CallbackDone
<1>3. HandlerOnly(r)
  <2>1. request' \in [Requests -> RequestType] /\ request'[r].at = at
          /\ request'[r].state = request[r].state
    BY <1>1, RequestMoves, Zenon DEF AuthIInv
  <2>2. \A q \in Requests \ {r} : request'[q] = request[q]
    BY <1>1 DEF Move, AuthIInv, AuthTypeOK
  <2>3. request[r].state \in 1 .. flow
    BY <1>1 DEF AuthIInv, AuthTypeOK
  <2> QED BY <1>1, <1>2, <2>1, <2>2, <2>3, Zenon DEF HandlerOnly, Saved
<1> QED BY <1>3, HandlerKeeps

(* The token is saved.  An earlier flow that still has a redirect to save  *)
(* has been ended by another one.                                          *)
LEMMA TokenExchanged ==
  ASSUME AuthIInv, NEW r \in Requests, Exchange(r)
  PROVE  AuthIInv'
<1>1. CASE Refuse(r)
  BY <1>1, RedirectHandled, Zenon DEF Exchange
<1>2. CASE ~Refuse(r)
  <2>1. /\ request[r].at = "exchange" /\ Move(r, "saved") /\ token' = request[r].state
        /\ UNCHANGED <<flow, server, localHttpServer, state, serverError, canceled, owner_,
                       waiters, result, calls, overlapped>>
    BY <1>2 DEF Exchange
  <2>2. request[r].state \in 1 .. flow /\ flow \in Nat
    BY <2>1 DEF AuthIInv, AuthTypeOK
  <2>3. /\ request' \in [Requests -> RequestType]
        /\ request'[r].at = "saved"
        /\ \A q \in Requests : request'[q].state = request[q].state
        /\ \A q \in Requests \ {r} : request'[q].at = request[q].at
    BY <2>1, RequestMoves, Zenon DEF AuthIInv
  <2>4. \A q \in Requests : /\ Saved(q) => Saved(q)'
                            /\ request[q].at = "gone" => request'[q].at = "gone"
    BY <2>1, <2>3, Zenon DEF Saved
  <2>5. SavedTwice => SavedTwice'
    BY <2>3, <2>4, Zenon DEF SavedTwice
  <2>6. token' # 0 /\ token' \in 0 .. flow
    <3>1. token' \in 1 .. flow
      BY <2>1, <2>2, Zenon
    <3> QED BY <3>1
  <2>7. AuthTypeOK'
    <3>1. \A q \in Requests : request'[q].at # "none" => request[q].at # "none"
      <4>1. \A q \in Requests \ {r} : request'[q].at # "none" => request[q].at # "none"
        BY <2>3
      <4> QED BY <2>1, <4>1, Zenon
    <3>2. \A q \in Requests : request'[q].at # "none" => request'[q].state \in 1 .. flow
      BY <2>3, <3>1 DEF AuthIInv, AuthTypeOK
    <3> QED BY <2>1, <2>3, <2>6, <3>2 DEF AuthIInv, AuthTypeOK
  <2>8. WaitOver' /\ TokenSaved' /\ InTurn'
    <3>1. WaitOver' /\ TokenSaved'
      BY <2>1, <2>6 DEF AuthIInv, WaitOver, TokenSaved, Unfinished
    <3> QED BY <2>1, <3>1, Zenon DEF AuthIInv, InTurn
  <2>9. EndExplained'
    <3>1. \A f \in Flows : Ended(f)' <=> Ended(f)
      BY <2>1, Zenon DEF Ended
    <3>2. \A f \in Flows : (\E q \in Requests : request[q].at = "gone" /\ request[q].state = f) =>
                             \E q \in Requests : request'[q].at = "gone" /\ request'[q].state = f
      BY <2>3, <2>4, Zenon
    <3> QED BY <2>1, <2>5, <2>6, <3>1, <3>2, Zenon DEF AuthIInv, EndExplained
  <2>10. ~canceled => token' = flow \/ overlapped \/ SavedTwice' \/ serverError
    <3> SUFFICES ASSUME ~canceled, ~overlapped, ~serverError, request[r].state # flow
                 PROVE  SavedTwice'
      BY <2>1, Zenon
    <3> DEFINE g == request[r].state
    <3>1. g \in 1 .. flow - 1
      BY <2>2
    <3>2. g \in Flows /\ server[g] = "exited"
      BY <3>1, AuthAssumption DEF AuthIInv, AuthTypeOK, InTurn, Flows
    <3>3. CASE SavedTwice
      BY <2>5, <3>3
    <3>4. CASE ~SavedTwice
      <4>1. PICK q \in Requests : request[q].at = "gone" /\ request[q].state = g
        BY <3>2, <3>4 DEF AuthIInv, EndExplained, Ended
      <4>2. q # r /\ Saved(q)' /\ Saved(r)' /\ request'[q].state = request'[r].state
        BY <2>1, <2>3, <4>1, Zenon DEF Saved
      <4> QED BY <4>2 DEF SavedTwice
    <3> QED BY <3>3, <3>4
  <2>11. LastToken'
    BY <2>1, <2>10, Zenon DEF LastToken
  <2>12. Completed'
    <3>1. result = "completed" /\ ~overlapped => ~serverError
      BY DEF AuthIInv, InTurn
    <3> QED BY <2>1, <2>6, <2>10, <3>1, Zenon DEF Completed
  <2> QED BY <2>7, <2>8, <2>9, <2>11, <2>12 DEF AuthIInv
<1> QED BY <1>1, <1>2

(* The delayed shutdown.  It may meet the server of a later flow, but then *)
(* the server of its own was ended by another redirect.                    *)
LEMMA ShutdownDelayed ==
  ASSUME AuthIInv, NEW r \in Requests, DelayedShutdown(r)
  PROVE  AuthIInv'
<1>1. CASE localHttpServer = 0
  <2>1. UNCHANGED <<flow, server, localHttpServer, state, serverError, token, request, canceled,
                    owner_, waiters, result, calls, overlapped>>
    BY <1>1 DEF DelayedShutdown, Shutdown, Crash
  <2> QED BY <2>1, NothingMoves
<1>2. CASE localHttpServer # 0
  <2> DEFINE f == localHttpServer
  <2>1. /\ request[r].at = "delay" /\ Move(r, "gone")
        /\ server' = [server EXCEPT ![f] = IF @ = "serving" THEN "shutdown" ELSE @]
        /\ UNCHANGED <<flow, localHttpServer, state, serverError, token, canceled, owner_,
                       waiters, result, calls, overlapped>>
    BY <1>2 DEF DelayedShutdown, Shutdown
  <2>2. f \in Flows /\ flow \in Nat /\ request[r].state \in 1 .. flow
    BY <1>2, <2>1, AuthAssumption DEF AuthIInv, AuthTypeOK, Flows
  <2>3. /\ request' \in [Requests -> RequestType]
        /\ request'[r].at = "gone"
        /\ \A q \in Requests : request'[q].state = request[q].state
        /\ \A q \in Requests \ {r} : request'[q].at = request[q].at
    BY <2>1, RequestMoves, Zenon DEF AuthIInv
  <2>4. \A q \in Requests : /\ Saved(q)' <=> Saved(q)
                            /\ request[q].at = "gone" => request'[q].at = "gone"
    BY <2>1, <2>3, Zenon DEF Saved
  <2>5. SavedTwice => SavedTwice'
    BY <2>3, <2>4, Zenon DEF SavedTwice
  <2>6. \A g \in Flows : /\ server[g] = "exited" => server'[g] = "exited"
                         /\ server'[g] \in {"serving", "shutdown"} => server[g] \in {"serving", "shutdown"}
                         /\ Ended(g)' => Ended(g) \/ g = f
    BY <2>1, <2>2 DEF AuthIInv, AuthTypeOK, Ended
  <2>7. AuthTypeOK'
    <3>1. \A q \in Requests : request'[q].at # "none" => request[q].at # "none"
      BY <2>1, <2>3, Zenon
    <3>2. server' \in [Flows -> {"none", "serving", "shutdown", "exited"}]
      BY <2>1, <2>2 DEF AuthIInv, AuthTypeOK
    <3>3. \A g \in Flows : server'[g] = "none" <=> g > flow
      BY <2>1, <2>2 DEF AuthIInv, AuthTypeOK
    <3> QED BY <2>1, <2>2, <2>3, <3>1, <3>2, <3>3 DEF AuthIInv, AuthTypeOK
  <2>8. WaitOver' /\ TokenSaved'
    <3>1. Unfinished' \subseteq Unfinished
      BY <2>6, Zenon DEF Unfinished
    <3> QED BY <2>1, <2>4, <3>1, Zenon DEF AuthIInv, WaitOver, TokenSaved
  <2>9. InTurn'
    <3>1. 1 .. flow - 1 \subseteq Flows /\ (flow > 0 => flow \in Flows)
      BY AuthAssumption DEF AuthIInv, AuthTypeOK, Flows
    <3> QED BY <2>1, <2>6, <3>1 DEF AuthIInv, InTurn
  <2>10. token # 0
    BY <2>1 DEF AuthIInv, TokenSaved, Saved
  <2>11. ~canceled /\ ~overlapped /\ ~serverError =>
           SavedTwice' \/ \E q \in Requests : request'[q].at = "gone" /\ request'[q].state = f
    <3> SUFFICES ASSUME ~canceled, ~overlapped, ~serverError, request[r].state # f
                 PROVE  SavedTwice'
      BY <2>3
    <3> DEFINE g == request[r].state
    <3>1. f = flow
      BY <1>2 DEF AuthIInv, InTurn
    <3>2. g \in 1 .. flow - 1
      BY <2>2, <3>1
    <3>3. g \in Flows /\ server[g] = "exited"
      BY <3>2, AuthAssumption DEF AuthIInv, AuthTypeOK, InTurn, Flows
    <3>4. CASE SavedTwice
      BY <2>5, <3>4
    <3>5. CASE ~SavedTwice
      <4>1. PICK q \in Requests : request[q].at = "gone" /\ request[q].state = g
        BY <3>3, <3>5 DEF AuthIInv, EndExplained, Ended
      <4>2. q # r /\ Saved(q)' /\ Saved(r)' /\ request'[q].state = request'[r].state
        BY <2>1, <2>3, <4>1, Zenon DEF Saved
      <4> QED BY <4>2, Zenon DEF SavedTwice
    <3> QED BY <3>4, <3>5
  <2>12. EndExplained'
    <3> SUFFICES ASSUME ~canceled, ~serverError, NEW g \in Flows, Ended(g)'
                 PROVE  \/ overlapped \/ SavedTwice'
                        \/ \E q \in Requests : request'[q].at = "gone" /\ request'[q].state = g
      BY <2>1, <2>10 DEF EndExplained
    <3>1. CASE g = f
      BY <2>11, <3>1
    <3>2. CASE Ended(g)
      BY <2>3, <2>4, <2>5, <3>2, Zenon DEF AuthIInv, EndExplained
    <3> QED BY <2>6, <3>1, <3>2, Zenon
  <2>13. LastToken' /\ Completed'
    BY <2>1, <2>3, <2>4, <2>5, Zenon DEF AuthIInv, LastToken, Completed
  <2> QED BY <2>7, <2>8, <2>9, <2>12, <2>13 DEF AuthIInv
<1> QED BY <1>1, <1>2

LEMMA AuthStep ==
  ASSUME AuthIInv, [AuthNext]_avars
  PROVE  AuthIInv'
<1>1. CASE UNCHANGED avars
  BY <1>1, NothingMoves DEF avars
<1>2. CASE AuthNext
  BY <1>2, OwnerWaits, OwnerReturns, FlowStarts, ServerGone, CancelShutsDown, RedirectReceived,
     RedirectHandled, TokenExchanged, ShutdownDelayed, Zenon
     DEF AuthNext, Handling
<1> QED BY <1>1, <1>2

(***************************************************************************)
(* A wait that reports a completed flow, with no error and no cancel, has  *)
(* the token of that flow, for any number of flows, waits and redirects in *)
(* any order; and some token at least when a flow was started while        *)
(* another ran, or two redirects of one flow were accepted                 *)
(* (StartOAuthFlow, WaitForOAuthFlowCompletion, OAuthHandler).             *)
(***************************************************************************)
THEOREM AuthCompletedHasToken == AuthSpec => []CompletedHasToken
<1>1. AuthInit => AuthIInv
  <2> SUFFICES ASSUME AuthInit PROVE AuthIInv
    OBVIOUS
  <2>1. request \in [Requests -> RequestType] /\ \A r \in Requests : request[r].at = "none"
    BY AuthAssumption DEF AuthInit, RequestType
  <2>2. AuthTypeOK
    BY <2>1, AuthAssumption DEF AuthInit, AuthTypeOK, Flows, Waits
  <2>3. \A r \in Requests : ~Saved(r)
    BY <2>1 DEF Saved
  <2>4. \A f \in Flows : ~Ended(f)
    BY DEF AuthInit, Ended
  <2>5. WaitOver /\ InTurn /\ Completed
    BY DEF AuthInit, WaitOver, InTurn, Completed
  <2> QED BY <2>2, <2>3, <2>4, <2>5, Zenon DEF AuthIInv, TokenSaved, EndExplained, LastToken
<1>2. AuthIInv => CompletedHasToken
  <2>1. SavedTwice => AcceptedTwice
    BY DEF SavedTwice, Saved, AcceptedTwice
  <2> QED BY <2>1 DEF AuthIInv, Completed, CompletedHasToken
<1> QED BY <1>1, <1>2, AuthStep, PTL DEF AuthSpec

-----------------------------------------------------------------------------
(* The counter adds up and implements the abstract counter, for all values *)
(* its owner may use.                                                      *)

(* Every operation of counter.go returns a counter of the same kind, with
   the total its name promises *)
LEMMA OperationFacts ==
  ASSUME NEW k \in CounterType, NEW v \in Int
  PROVE  /\ Set(k, v) \in CounterType /\ Inc(k) \in CounterType
         /\ Add(k, v) \in CounterType /\ SetInc(k, v) \in CounterType
         /\ Collected(k) \in CounterType
         /\ \A d \in {Set(k, v), Inc(k), Add(k, v), SetInc(k, v)} :
              d.cumalative = k.cumalative /\ d.cumalativeValue = k.cumalativeValue
         /\ Collected(k).cumalative = k.cumalative
         /\ Collected(k).incBy = k.incBy
         /\ Get(Collected(k)) = Get(k)
<1>1. Set(k, v) \in CounterType /\ Inc(k) \in CounterType
  BY DEF CounterType, Set, Inc
<1>2. Add(k, v) \in CounterType /\ SetInc(k, v) \in CounterType
  BY DEF CounterType, Add, SetInc
<1>3. /\ Set(k, v).cumalative = k.cumalative /\ Set(k, v).cumalativeValue = k.cumalativeValue
      /\ Inc(k).cumalative = k.cumalative /\ Inc(k).cumalativeValue = k.cumalativeValue
  BY DEF CounterType, Set, Inc
<1>4. /\ Add(k, v).cumalative = k.cumalative /\ Add(k, v).cumalativeValue = k.cumalativeValue
      /\ SetInc(k, v).cumalative = k.cumalative /\ SetInc(k, v).cumalativeValue = k.cumalativeValue
  BY DEF CounterType, Add, SetInc
<1>5. /\ Collected(k) \in CounterType /\ Collected(k).cumalative = k.cumalative
      /\ Collected(k).incBy = k.incBy /\ Get(Collected(k)) = Get(k)
  <2>1. CASE HasSnapshot(k) /\ k.cumalative
    <3> DEFINE d == [k EXCEPT !.cumalativeValue = @ + k.value, !.value = 0]
    <3>1. Collected(k) = d
      BY <2>1 DEF Collected
    <3>2. d.cumalative = k.cumalative /\ d.incBy = k.incBy
      BY DEF CounterType
    <3>4. k.cumalativeValue + k.value \in Int
      BY DEF CounterType
    <3>5. d \in CounterType
      <4> DEFINE e == [k EXCEPT !.cumalativeValue = @ + k.value]
      <4>1. e \in CounterType
        BY <3>4 DEF CounterType
      <4>2. d = [e EXCEPT !.value = 0]
        OBVIOUS
      <4> HIDE DEF e
      <4> QED BY <4>1, <4>2 DEF CounterType
    <3>3. d.value = 0 /\ d.cumalativeValue = k.cumalativeValue + k.value
      BY DEF CounterType
    <3> QED BY <3>1, <3>2, <3>3, <3>5 DEF Get, CounterType
  <2>2. CASE ~(HasSnapshot(k) /\ k.cumalative)
    BY <2>2 DEF Collected
  <2> QED BY <2>1, <2>2
<1> QED BY <1>1, <1>2, <1>3, <1>4, <1>5

(* published is kept apart from the counter: the two agree *)
CounterInv ==
  /\ CounterTypeOK
  /\ published = counter.cumalativeValue
  /\ ~counter.cumalative => counter.cumalativeValue = 0

(* The counter's invariant is inductive *)
THEOREM CounterInvariant == Spec => []CounterInv
<1> USE ValuesAssumption
<1>1. Init => CounterInv
  <2> SUFFICES ASSUME Init PROVE CounterInv
    OBVIOUS
  <2>1. PICK a, b \in BOOLEAN : counter = NewCounter(a, b)
    BY DEF Init
  <2>2. counter \in CounterType /\ counter.cumalativeValue = 0
    BY <2>1 DEF NewCounter, CounterType
  <2>3. published = 0 /\ call \in CallType
    BY DEF Init, CallType
  <2> QED BY <2>2, <2>3 DEF CounterInv, CounterTypeOK
<1>2. CounterInv /\ [Next]_vars => CounterInv'
  <2> SUFFICES ASSUME CounterInv, [Next]_vars PROVE CounterInv'
    OBVIOUS
  <2>0. counter \in CounterType /\ published \in Int /\ call \in CallType
    BY DEF CounterInv, CounterTypeOK
  <2>1. ASSUME NEW op \in {"Set", "Inc", "Add", "SetInc"}, NEW arg \in Int, NEW k \in CounterType,
               Operate(op, arg, k), k.cumalative = counter.cumalative,
               k.cumalativeValue = counter.cumalativeValue
        PROVE  CounterInv'
    <3>1. call' \in CallType
      BY <2>0, <2>1 DEF Operate, Called, CallType
    <3> QED BY <2>0, <2>1, <3>1 DEF Operate, CounterInv, CounterTypeOK
  <2>2. CASE CallInc
    BY <2>0, <2>1, <2>2, OperationFacts DEF CallInc
  <2>3. ASSUME NEW v \in Values, CallSet(v) PROVE CounterInv'
    BY <2>0, <2>1, <2>3, OperationFacts DEF CallSet
  <2>4. ASSUME NEW v \in Values, CallAdd(v) PROVE CounterInv'
    BY <2>0, <2>1, <2>4, OperationFacts DEF CallAdd
  <2>5. ASSUME NEW v \in Values, CallSetInc(v) PROVE CounterInv'
    BY <2>0, <2>1, <2>5, OperationFacts DEF CallSetInc
  <2>6. CASE Collect
    <3>1. counter' \in CounterType
      BY <2>0, <2>6, OperationFacts DEF Collect
    <3>2. published' = counter'.cumalativeValue /\ published' \in Int
      BY <2>0, <2>6 DEF Collect, Collected, CounterInv, CounterType
    <3>3. ~counter'.cumalative => counter'.cumalativeValue = 0
      BY <2>0, <2>6 DEF Collect, Collected, CounterInv, CounterType
    <3> QED BY <2>0, <2>6, <3>1, <3>2, <3>3 DEF CounterInv, CounterTypeOK, Collect
  <2>7. CASE UNCHANGED vars
    BY <2>7 DEF vars, CounterInv, CounterTypeOK
  <2> QED BY <2>2, <2>3, <2>4, <2>5, <2>6, <2>7 DEF Next
<1> QED BY <1>1, <1>2, PTL DEF Spec

(* The snapshots of a cumulative counter publish every amount exactly once *)
THEOREM CounterPublishedOnce == Spec => []PublishedOnce
<1>1. CounterInv => PublishedOnce
  BY DEF CounterInv, CounterTypeOK, CounterType, PublishedOnce, Get
<1> QED BY <1>1, CounterInvariant, PTL

(* Get returns what Set, Inc and Add made of the counter; collect does not
   show: counter.go implements the abstract counter *)
THEOREM CounterImplements == Spec => ImplementsAbstract
<1> USE ValuesAssumption
<1>1. Init => Abs!AbsInit
  BY DEF Init, Abs!AbsInit, NewCounter, Get
<1>2. CounterInv /\ [Next]_vars => [Abs!AbsNext]_(Abs!absvars)
  <2> SUFFICES ASSUME CounterInv, [Next]_vars PROVE [Abs!AbsNext]_(Abs!absvars)
    OBVIOUS
  <2>0. counter \in CounterType
    BY DEF CounterInv, CounterTypeOK
  <2>1. CASE CallInc
    <3>1. Get(counter') = Get(counter) + counter.incBy /\ counter'.incBy = counter.incBy
      BY <2>0, <2>1 DEF CallInc, Operate, Inc, Get, CounterType
    <3> QED BY <2>1, <3>1 DEF CallInc, Operate, Called, Abs!AbsNext, Abs!IncTotal, Abs!Call
  <2>2. ASSUME NEW v \in Values, CallSet(v) PROVE Abs!AbsNext
    <3>1. Get(counter') = v /\ counter'.incBy = counter.incBy
      BY <2>0, <2>2 DEF CallSet, Operate, Set, Get, CounterType, CounterInv
    <3> QED BY <2>2, <3>1 DEF CallSet, Operate, Called, Abs!AbsNext, Abs!SetTotal, Abs!Call
  <2>3. ASSUME NEW v \in Values, CallAdd(v) PROVE Abs!AbsNext
    <3>1. Get(counter') = Get(counter) + v /\ counter'.incBy = counter.incBy
      BY <2>0, <2>3 DEF CallAdd, Operate, Add, Get, CounterType
    <3> QED BY <2>3, <3>1 DEF CallAdd, Operate, Called, Abs!AbsNext, Abs!AddTotal, Abs!Call
  <2>4. ASSUME NEW v \in Values, CallSetInc(v) PROVE Abs!AbsNext
    <3>1. Get(counter') = Get(counter) /\ counter'.incBy = v
      BY <2>0, <2>4 DEF CallSetInc, Operate, SetInc, Get, CounterType
    <3> QED BY <2>4, <3>1 DEF CallSetInc, Operate, Called, Abs!AbsNext, Abs!SetStep, Abs!Call
  <2>5. CASE Collect
    <3>1. Get(counter') = Get(counter) /\ counter'.incBy = counter.incBy
      BY <2>0, <2>5, OperationFacts DEF Collect
    <3> QED BY <2>5, <3>1 DEF Collect, Abs!absvars
  <2>6. CASE UNCHANGED vars
    BY <2>6 DEF vars, Abs!absvars
  <2> QED BY <2>1, <2>2, <2>3, <2>4, <2>5, <2>6 DEF Next
<1> QED BY <1>1, <1>2, CounterInvariant, PTL DEF Spec, ImplementsAbstract, Abs!AbsSpec

-----------------------------------------------------------------------------
(* The command runner.  What cleanUp puts back is the buffer the CLI was   *)
(* made with, since of the two buffers that were saved the first one is    *)
(* that buffer, and filteredAll tells which was the first.                 *)

WriterType == [filter : Nat, pipe : Int, over : BOOLEAN]

CliType ==
  [outputBuffer : WriterType, errorBuffer : WriterType, outBuffer : WriterType,
   errBuffer : WriterType, outPipeWriter : Nat, errPipeWriter : Nat, outFilteredWriter : Nat,
   outUnfilteredBuffer : WriterType, filteredAll : BOOLEAN, command : Nat]

CliTypeOK ==
  /\ IsList(filters) /\ IsList(pipes) /\ IsList(commands)
  /\ c \in CliType
  /\ \A i \in 1 .. Len(pipes) : "closed" \in DOMAIN pipes[i]
  /\ c.outPipeWriter \in 0 .. Len(pipes) /\ c.errPipeWriter \in 0 .. Len(pipes)

(* The output's stages, and the buffers that were saved when they were made *)
OutStages ==
  /\ c.outputBuffer.filter = c.outFilteredWriter
  /\ c.outputBuffer.pipe = c.outPipeWriter
  /\ c.outUnfilteredBuffer = Nil <=> c.outFilteredWriter = 0
  /\ c.outBuffer = Nil <=> c.outPipeWriter = 0
  /\ c.outFilteredWriter = 0 /\ c.outPipeWriter = 0 => c.outputBuffer = Buffer
  /\ c.outPipeWriter # 0 /\ (c.outFilteredWriter = 0 \/ c.filteredAll) => c.outBuffer = Buffer
  /\ c.outFilteredWriter # 0 /\ ~c.filteredAll => c.outUnfilteredBuffer = Buffer
  /\ c.filteredAll => c.outFilteredWriter # 0 /\ c.outPipeWriter # 0

ErrStages ==
  /\ c.errorBuffer = [Buffer EXCEPT !.pipe = c.errPipeWriter]
  /\ c.errBuffer = IF c.errPipeWriter = 0 THEN Nil ELSE Buffer

Cleaned == c.command = 0 /\ commands # <<>> => c = NewCLI

HeldOpen == \A i \in {c.outPipeWriter, c.errPipeWriter} \ {0} : ~pipes[i].closed

CliIInv == CliTypeOK /\ OutStages /\ ErrStages /\ Cleaned /\ HeldOpen

(* A cli as it is made *)
LEMMA NewCliFacts ==
  /\ NewCLI \in CliType
  /\ Buffer.filter = 0 /\ Buffer.pipe = 0 /\ [Buffer EXCEPT !.pipe = 0] = Buffer
  /\ Buffer # Nil
<1>1. Buffer \in WriterType
  BY DEF Buffer, WriterType
<1>2. -1 \in Int
  OBVIOUS
<1>3. Nil \in WriterType
  BY <1>1, <1>2 DEF Nil, WriterType
<1>4. NewCLI \in CliType
  BY <1>1, <1>3 DEF NewCLI, CliType
<1>5. Buffer.filter = 0 /\ Buffer.pipe = 0 /\ [Buffer EXCEPT !.pipe = 0] = Buffer
  BY DEF Buffer
<1>6. Nil.pipe = -1
  BY DEF Buffer, Nil
<1> QED BY <1>4, <1>5, <1>6

(* The buffer the CLI was made with is put back *)
LEMMA RestoredBuffer ==
  ASSUME CliIInv
  PROVE  Restored = Buffer /\ (IF c.errBuffer # Nil THEN c.errBuffer ELSE c.errorBuffer) = Buffer
<1>1. Buffer # Nil
  BY NewCliFacts
<1>2. Restored = Buffer
  <2>1. CASE c.outBuffer # Nil
    BY <1>1, <2>1 DEF CliIInv, CliTypeOK, CliType, OutStages, Restored
  <2>2. CASE c.outBuffer = Nil /\ c.outUnfilteredBuffer # Nil
    BY <1>1, <2>2 DEF CliIInv, CliTypeOK, CliType, OutStages, Restored
  <2>3. CASE c.outBuffer = Nil /\ c.outUnfilteredBuffer = Nil
    BY <1>1, <2>3 DEF CliIInv, CliTypeOK, CliType, OutStages, Restored
  <2> QED BY <2>1, <2>2, <2>3
<1>3. c.errPipeWriter = 0 => c.errorBuffer = Buffer
  BY DEF CliIInv, ErrStages, Buffer
<1> QED BY <1>1, <1>2, <1>3 DEF CliIInv, ErrStages

(* A step that leaves the cli, and whether its pipes are closed, as they were *)
LEMMA StagesKept ==
  ASSUME CliIInv, UNCHANGED c,
         IsList(filters'), IsList(pipes'), IsList(commands'),
         Len(pipes') = Len(pipes), Len(commands') = Len(commands),
         \A i \in 1 .. Len(pipes) : "closed" \in DOMAIN pipes'[i] /\ pipes'[i].closed = pipes[i].closed
  PROVE  CliIInv'
<1>1. CliTypeOK'
  BY DEF CliIInv, CliTypeOK
<1>2. Cleaned'
  <2>1. commands' # <<>> <=> commands # <<>>
    BY ListLen DEF CliIInv, CliTypeOK
  <2> QED BY <2>1 DEF CliIInv, Cleaned
<1>3. HeldOpen'
  <2>1. {c.outPipeWriter, c.errPipeWriter} \ {0} \subseteq 1 .. Len(pipes)
    BY ListLen DEF CliIInv, CliTypeOK
  <2> QED BY <2>1 DEF CliIInv, HeldOpen
<1> QED BY <1>1, <1>2, <1>3 DEF CliIInv, OutStages, ErrStages

(* Steps of the processes, and of calls that do not end *)
LEMMA CommandsChange ==
  ASSUME CliIInv, UNCHANGED <<c, filters, pipes>>,
         \/ UNCHANGED commands
         \/ \E k, new : commands' = [commands EXCEPT ![k] = new]
  PROVE  CliIInv'
<1>1. IsList(commands') /\ Len(commands') = Len(commands)
  BY ListChanged, Zenon DEF CliIInv, CliTypeOK
<1> QED BY <1>1, StagesKept DEF CliIInv, CliTypeOK

(* Copying a byte, and reading the end of a pipe *)
LEMMA BytesMove ==
  ASSUME CliIInv, NEW k, Copy(k)
  PROVE  CliIInv'
<1>1. UNCHANGED c
  BY Zenon DEF Copy
<1>2. \E copied, copying, shown :
        commands' = [commands EXCEPT ![k].copied = copied, ![k].copying = copying, ![k].shown = shown]
  BY Zenon DEF Copy
<1>3. \E new : commands' = [commands EXCEPT ![k] = new]
  BY <1>2, Zenon
<1>4. IsList(commands') /\ Len(commands') = Len(commands)
  BY <1>3, ListChanged, Zenon DEF CliIInv, CliTypeOK
<1>5. UNCHANGED filters \/ \E i, new : filters' = [filters EXCEPT ![i] = new]
  BY Zenon DEF Copy
<1>6. IsList(filters')
  BY <1>5, ListChanged, Zenon DEF CliIInv, CliTypeOK
<1>7. UNCHANGED pipes \/ \E i, got : pipes' = [pipes EXCEPT ![i].got = got]
  BY Zenon DEF Copy
<1>8. IsList(pipes') /\ Len(pipes') = Len(pipes)
  BY <1>7, ListChanged, Zenon DEF CliIInv, CliTypeOK
<1>9. \A i \in 1 .. Len(pipes) : "closed" \in DOMAIN pipes'[i] /\ pipes'[i].closed = pipes[i].closed
  BY <1>7, ListLen DEF CliIInv, CliTypeOK
<1> QED BY <1>1, <1>4, <1>6, <1>8, <1>9, StagesKept

LEMMA PipeRead ==
  ASSUME CliIInv, NEW k, ReadEnd(k)
  PROVE  CliIInv'
<1>1. UNCHANGED <<c, filters, commands>> /\ pipes' = [pipes EXCEPT ![k].ended = TRUE]
  BY DEF ReadEnd
<1>2. IsList(pipes') /\ Len(pipes') = Len(pipes)
  BY <1>1, ListChanged, Zenon DEF CliIInv, CliTypeOK
<1>3. \A i \in 1 .. Len(pipes) : "closed" \in DOMAIN pipes'[i] /\ pipes'[i].closed = pipes[i].closed
  BY <1>1, ListLen DEF CliIInv, CliTypeOK
<1> QED BY <1>1, <1>2, <1>3, StagesKept DEF CliIInv, CliTypeOK

(* The cleanup of a Wait or a Stop *)
LEMMA CleanUp ==
  ASSUME CliIInv, NEW new, cleanUp(new)
  PROVE  CliIInv'
<1>1. c' = NewCLI
  <2>1. c' = [NewCLI EXCEPT !.outputBuffer = Buffer, !.errorBuffer = Buffer]
    BY RestoredBuffer, Zenon DEF cleanUp
  <2> QED BY <2>1, Zenon DEF NewCLI
<1>2. CloseStages(new)
  BY DEF cleanUp
<1>3. \E x : commands' = [commands EXCEPT ![c.command] = x]
  BY <1>2, Zenon DEF CloseStages, Update
<1>4. IsList(commands')
  BY <1>3, ListChanged, Zenon DEF CliIInv, CliTypeOK
<1>5. filters' = filters \/ \E i, x : filters' = [filters EXCEPT ![i] = x]
  BY <1>2, Zenon DEF CloseStages
<1>6. IsList(filters')
  BY <1>5, ListChanged, Zenon DEF CliIInv, CliTypeOK
<1>7. IsList(pipes') /\ \A i \in 1 .. Len(pipes') : "closed" \in DOMAIN pipes'[i]
  <2> DEFINE held == {c.outPipeWriter, c.errPipeWriter}
             p == [i \in DOMAIN pipes |->
                     IF i \in held THEN [pipes[i] EXCEPT !.closed = TRUE] ELSE pipes[i]]
  <2>1. pipes' = p
    BY <1>2 DEF CloseStages
  <2>2. Len(pipes) \in Nat /\ DOMAIN pipes = 1 .. Len(pipes)
    BY ListLen DEF CliIInv, CliTypeOK
  <2>3. \A i \in 1 .. Len(pipes) : "closed" \in DOMAIN p[i]
    BY <2>2 DEF CliIInv, CliTypeOK
  <2>4. p \in [1 .. Len(pipes) -> {p[i] : i \in 1 .. Len(pipes)}]
    BY <2>2, Zenon
  <2> HIDE DEF p
  <2>5. IsList(p) /\ Len(p) = Len(pipes)
    BY <2>2, <2>4, ListFunction, Zenon
  <2> QED BY <2>1, <2>3, <2>5
<1>8. Len(pipes') \in Nat /\ Len(filters') \in Nat
  BY <1>6, <1>7, ListLen
<1>9. CliTypeOK'
  BY <1>1, <1>4, <1>6, <1>7, <1>8, NewCliFacts DEF CliTypeOK, NewCLI
<1>10. OutStages' /\ ErrStages'
  BY <1>1, NewCliFacts DEF OutStages, ErrStages, NewCLI
<1>11. Cleaned' /\ HeldOpen'
  BY <1>1 DEF Cleaned, HeldOpen, NewCLI
<1> QED BY <1>9, <1>10, <1>11 DEF CliIInv

(* A filter goes over what there is *)
LEMMA FilterApplied ==
  ASSUME CliIInv, NEW f, ApplyFilter(f)
  PROVE  CliIInv'
<1> DEFINE n == Len(filters) + 1
           w == [c.outputBuffer EXCEPT !.filter = n, !.over = c.outputBuffer.pipe # 0]
<1>1. /\ Free /\ c.outUnfilteredBuffer = Nil
      /\ filters' = Append(filters, [filter |-> f, writer |-> NewFilterWriter(f)])
      /\ c' = [c EXCEPT !.filteredAll = c.outPipeWriter # 0,
                        !.outUnfilteredBuffer = c.outputBuffer,
                        !.outFilteredWriter = n, !.outputBuffer = w]
      /\ UNCHANGED <<pipes, commands>>
  BY DEF ApplyFilter
<1>2. IsList(filters') /\ n \in Nat \ {0}
  BY <1>1, ListAppend, ListLen DEF CliIInv, CliTypeOK
<1>3. c \in CliType /\ c.outputBuffer \in WriterType
  BY DEF CliIInv, CliTypeOK, CliType
<1>4. w \in WriterType /\ w.filter = n /\ w.pipe = c.outputBuffer.pipe
  BY <1>2, <1>3, Zenon DEF WriterType
<1>5. /\ c' \in CliType
      /\ c'.outPipeWriter = c.outPipeWriter /\ c'.errPipeWriter = c.errPipeWriter
      /\ c'.outputBuffer = w /\ c'.outFilteredWriter = n
      /\ c'.outUnfilteredBuffer = c.outputBuffer /\ c'.outBuffer = c.outBuffer
      /\ c'.errBuffer = c.errBuffer /\ c'.errorBuffer = c.errorBuffer
      /\ c'.command = c.command
      /\ c'.filteredAll = (c.outPipeWriter # 0)
  <2> HIDE DEF w, n
  <2> QED BY <1>1, <1>2, <1>3, <1>4, Zenon DEF CliType
<1>6. CliTypeOK'
  BY <1>1, <1>2, <1>5 DEF CliIInv, CliTypeOK
<1>7. OutStages'
  <2>1. c.outFilteredWriter = 0
    BY <1>1 DEF CliIInv, OutStages
  <2>2. c.outputBuffer # Nil
    <3>1. c.outputBuffer.pipe = c.outPipeWriter /\ c.outPipeWriter \in Nat /\ Nil.pipe = -1
      BY <1>3 DEF CliIInv, OutStages, CliType, Nil, Buffer
    <3> QED BY <3>1
  <2> HIDE DEF w, n
  <2> QED BY <1>2, <1>4, <1>5, <2>1, <2>2, Zenon DEF CliIInv, OutStages
<1>8. ErrStages' /\ HeldOpen'
  BY <1>1, <1>5 DEF CliIInv, ErrStages, HeldOpen
<1>9. Cleaned'
  BY <1>1, <1>5 DEF Free, Cleaned
<1> QED BY <1>6, <1>7, <1>8, <1>9 DEF CliIInv

(* A new pipe is open *)
LEMMA PipeMade ==
  ASSUME CliIInv, pipes' = Append(pipes, NewPipe)
  PROVE  /\ IsList(pipes') /\ Len(pipes) \in Nat
         /\ Len(pipes') = Len(pipes) + 1
         /\ \A i \in 1 .. Len(pipes') : "closed" \in DOMAIN pipes'[i]
         /\ ~pipes'[Len(pipes) + 1].closed
         /\ \A i \in {c.outPipeWriter, c.errPipeWriter} \ {0} : ~pipes'[i].closed
<1>1. IsList(pipes) /\ Len(pipes) \in Nat
  BY ListLen DEF CliIInv, CliTypeOK
<1>2. /\ IsList(pipes')
      /\ Len(pipes') = Len(pipes) + 1
      /\ pipes'[Len(pipes) + 1] = NewPipe
      /\ \A i \in 1 .. Len(pipes) : pipes'[i] = pipes[i]
  BY <1>1, ListAppend
<1>3. "closed" \in DOMAIN NewPipe /\ ~NewPipe.closed
  BY DEF NewPipe
<1>4. \A i \in 1 .. Len(pipes') : i \in 1 .. Len(pipes) \/ i = Len(pipes) + 1
  BY <1>1, <1>2
<1>5. {c.outPipeWriter, c.errPipeWriter} \ {0} \subseteq 1 .. Len(pipes)
  BY <1>1 DEF CliIInv, CliTypeOK
<1> QED BY <1>1, <1>2, <1>3, <1>4, <1>5 DEF CliIInv, CliTypeOK, HeldOpen

LEMMA OutputPiped ==
  ASSUME CliIInv, GetPipedOutputBuffer
  PROVE  CliIInv'
<1> DEFINE n == Len(pipes) + 1
           w == [c.outputBuffer EXCEPT !.pipe = n]
<1>1. /\ Free /\ c.outPipeWriter = 0
      /\ pipes' = Append(pipes, NewPipe)
      /\ c' = [c EXCEPT !.outBuffer = c.outputBuffer, !.outPipeWriter = n, !.outputBuffer = w]
      /\ UNCHANGED <<filters, commands>>
  BY DEF GetPipedOutputBuffer
<1>2. /\ IsList(pipes') /\ n \in Nat \ {0}
      /\ Len(pipes') = n
      /\ \A i \in 1 .. Len(pipes') : "closed" \in DOMAIN pipes'[i]
      /\ ~pipes'[n].closed
      /\ \A i \in {c.outPipeWriter, c.errPipeWriter} \ {0} : ~pipes'[i].closed
  <2>1. Len(pipes) \in Nat
    BY ListLen DEF CliIInv, CliTypeOK
  <2>2. n \in Nat \ {0}
    BY <2>1
  <2> QED BY <1>1, <2>2, PipeMade, Zenon
<1>3. c \in CliType /\ c.outputBuffer \in WriterType
  BY DEF CliIInv, CliTypeOK, CliType
<1>4. w \in WriterType /\ w.pipe = n /\ w.filter = c.outputBuffer.filter
  BY <1>2, <1>3 DEF WriterType
<1> HIDE DEF w, n
<1>5. /\ c' \in CliType
      /\ c'.outPipeWriter = n /\ c'.errPipeWriter = c.errPipeWriter
      /\ c'.outputBuffer = w /\ c'.outFilteredWriter = c.outFilteredWriter
      /\ c'.outUnfilteredBuffer = c.outUnfilteredBuffer /\ c'.outBuffer = c.outputBuffer
      /\ c'.errBuffer = c.errBuffer /\ c'.errorBuffer = c.errorBuffer
      /\ c'.command = c.command /\ c'.filteredAll = c.filteredAll
  BY <1>1, <1>2, <1>3, <1>4, Zenon DEF CliType
<1>6. CliTypeOK'
  <2>1. c.errPipeWriter \in 0 .. n /\ n \in 0 .. n
    BY <1>2, <1>3, PipeMade, <1>1 DEF CliIInv, CliTypeOK, n
  <2> QED BY <1>1, <1>2, <1>5, <2>1 DEF CliIInv, CliTypeOK
<1>7. OutStages'
  <2>1. c.outputBuffer # Nil
    <3>1. c.outputBuffer.pipe = 0 /\ Nil.pipe = -1
      BY <1>1 DEF CliIInv, OutStages, Nil, Buffer
    <3> QED BY <3>1
  <2> QED BY <1>1, <1>2, <1>4, <1>5, <2>1 DEF CliIInv, OutStages
<1>8. ErrStages' /\ HeldOpen'
  BY <1>1, <1>2, <1>5, Zenon DEF CliIInv, ErrStages, HeldOpen
<1>9. Cleaned'
  BY <1>1, <1>5 DEF Free, Cleaned
<1> QED BY <1>6, <1>7, <1>8, <1>9 DEF CliIInv

LEMMA ErrorPiped ==
  ASSUME CliIInv, GetPipedErrorBuffer
  PROVE  CliIInv'
<1> DEFINE n == Len(pipes) + 1
           w == [c.errorBuffer EXCEPT !.pipe = n]
<1>1. /\ Free /\ c.errPipeWriter = 0
      /\ pipes' = Append(pipes, NewPipe)
      /\ c' = [c EXCEPT !.errBuffer = c.errorBuffer, !.errPipeWriter = n, !.errorBuffer = w]
      /\ UNCHANGED <<filters, commands>>
  BY DEF GetPipedErrorBuffer
<1>2. /\ IsList(pipes') /\ n \in Nat \ {0}
      /\ Len(pipes') = n
      /\ \A i \in 1 .. Len(pipes') : "closed" \in DOMAIN pipes'[i]
      /\ ~pipes'[n].closed
      /\ \A i \in {c.outPipeWriter, c.errPipeWriter} \ {0} : ~pipes'[i].closed
  <2>1. Len(pipes) \in Nat
    BY ListLen DEF CliIInv, CliTypeOK
  <2>2. n \in Nat \ {0}
    BY <2>1
  <2> QED BY <1>1, <2>2, PipeMade, Zenon
<1>3. c \in CliType /\ c.errorBuffer \in WriterType
  BY DEF CliIInv, CliTypeOK, CliType
<1>4. c.errorBuffer = Buffer
  BY <1>1 DEF CliIInv, ErrStages, Buffer
<1>5. w \in WriterType /\ w = [Buffer EXCEPT !.pipe = n]
  BY <1>2, <1>3, <1>4 DEF WriterType
<1> HIDE DEF w, n
<1>6. /\ c' \in CliType
      /\ c'.outPipeWriter = c.outPipeWriter /\ c'.errPipeWriter = n
      /\ c'.outputBuffer = c.outputBuffer /\ c'.outFilteredWriter = c.outFilteredWriter
      /\ c'.outUnfilteredBuffer = c.outUnfilteredBuffer /\ c'.outBuffer = c.outBuffer
      /\ c'.errBuffer = c.errorBuffer /\ c'.errorBuffer = w
      /\ c'.command = c.command /\ c'.filteredAll = c.filteredAll
  BY <1>1, <1>2, <1>3, <1>5, Zenon DEF CliType
<1>7. CliTypeOK'
  <2>1. c.outPipeWriter \in 0 .. n /\ n \in 0 .. n
    BY <1>2, <1>3, PipeMade, <1>1 DEF CliIInv, CliTypeOK, n
  <2> QED BY <1>1, <1>2, <1>6, <2>1 DEF CliIInv, CliTypeOK
<1>8. OutStages'
  BY <1>6 DEF CliIInv, OutStages
<1>9. ErrStages' /\ HeldOpen'
  BY <1>1, <1>2, <1>4, <1>5, <1>6, Zenon DEF CliIInv, ErrStages, HeldOpen
<1>10. Cleaned'
  BY <1>1, <1>6 DEF Free, Cleaned
<1> QED BY <1>7, <1>8, <1>9, <1>10 DEF CliIInv

LEMMA CommandStarted ==
  ASSUME CliIInv, NEW started, StartWithEnv(started)
  PROVE  CliIInv'
<1>1. /\ commands' = Append(commands, NewCommand(started))
      /\ c' = [c EXCEPT !.command = Len(commands) + 1]
      /\ UNCHANGED <<filters, pipes>>
  BY DEF StartWithEnv
<1>2. IsList(commands') /\ Len(commands) + 1 \in Nat \ {0}
  BY <1>1, ListAppend, ListLen DEF CliIInv, CliTypeOK
<1>3. /\ c' \in CliType
      /\ c'.command # 0
      /\ c'.outPipeWriter = c.outPipeWriter /\ c'.errPipeWriter = c.errPipeWriter
      /\ c'.outputBuffer = c.outputBuffer /\ c'.outFilteredWriter = c.outFilteredWriter
      /\ c'.outUnfilteredBuffer = c.outUnfilteredBuffer /\ c'.outBuffer = c.outBuffer
      /\ c'.errBuffer = c.errBuffer /\ c'.errorBuffer = c.errorBuffer
      /\ c'.filteredAll = c.filteredAll
  BY <1>1, <1>2, Zenon DEF CliIInv, CliTypeOK, CliType
<1>4. CliTypeOK'
  BY <1>1, <1>2, <1>3 DEF CliIInv, CliTypeOK
<1>5. OutStages' /\ ErrStages' /\ Cleaned' /\ HeldOpen'
  BY <1>1, <1>3 DEF CliIInv, OutStages, ErrStages, Cleaned, HeldOpen
<1> QED BY <1>4, <1>5 DEF CliIInv

LEMMA CliStep ==
  ASSUME CliIInv, [CliNext]_clivars
  PROVE  CliIInv'
<1>1. CASE UNCHANGED <<c, filters, pipes, commands>>
  BY <1>1, CommandsChange
<1>2. CASE Returns
  <2>1. CASE WaitDone \/ StopDone
    BY <2>1, CleanUp DEF WaitDone, StopDone
  <2>2. CASE WaitTimeout \/ Signal \/ StopTimeout
    <3>1. UNCHANGED <<c, filters, pipes>>
      BY <2>2 DEF WaitTimeout, Signal, StopTimeout, Call, Panic
    <3>2. UNCHANGED commands \/ \E new : Update(new)
      BY <2>2 DEF WaitTimeout, Signal, StopTimeout, Call, Panic
    <3> QED BY <3>1, <3>2, CommandsChange DEF Update
  <2> QED BY <1>2, <2>1, <2>2 DEF Returns
<1>3. ASSUME NEW run, NEW stop, Wait(run, stop) \/ Stop(stop) PROVE CliIInv'
  <2>1. UNCHANGED <<c, filters, pipes>> /\ \E new : Update(new)
    BY <1>3 DEF Wait, Stop, Call
  <2> QED BY <2>1, CommandsChange, Zenon DEF Update
<1>4. ASSUME NEW k, NEW text, Exit(k) \/ Reap(k) \/ CopyEnd(k) \/ WriteOutput(k, text) PROVE CliIInv'
  <2>1. \E new : Change(k, new)
    BY <1>4 DEF Exit, Reap, CopyEnd, WriteOutput
  <2> QED BY <2>1, CommandsChange, Zenon DEF Change
<1>5. CASE CliNext
  BY <1>1, <1>2, <1>3, <1>4, <1>5, FilterApplied, OutputPiped, ErrorPiped, CommandStarted, BytesMove, PipeRead
     DEF CliNext, SetUpTwice, Panic
<1> QED BY <1>1, <1>5 DEF clivars

(***************************************************************************)
(* The output of the next command goes through the filter and the pipe the *)
(* cli knows of, the pipes are open, and a cleanup leaves the cli as it    *)
(* was made, for any filters and any order in which the caller applies     *)
(* them, makes pipes, starts, waits and stops (ApplyFilter,                *)
(* GetPipedOutputBuffer, GetPipedErrorBuffer, cleanUp).                    *)
(***************************************************************************)
THEOREM CliStagesLive == CliSpec => []StagesLive
<1>1. CliInit => CliIInv
  <2> SUFFICES ASSUME CliInit PROVE CliIInv
    OBVIOUS
  <2>1. c = NewCLI /\ filters = <<>> /\ pipes = <<>> /\ commands = <<>>
    BY DEF CliInit
  <2>2. IsList(<<>>) /\ Len(<<>>) = 0
    BY SeqEmpty DEF IsList
  <2>3. CliTypeOK
    BY <2>1, <2>2, NewCliFacts DEF CliTypeOK, NewCLI
  <2>4. OutStages /\ ErrStages /\ Cleaned /\ HeldOpen
    BY <2>1, NewCliFacts DEF OutStages, ErrStages, Cleaned, HeldOpen, NewCLI
  <2> QED BY <2>3, <2>4 DEF CliIInv
<1>2. CliIInv => StagesLive
  <2> SUFFICES ASSUME CliIInv PROVE StagesLive
    OBVIOUS
  <2>1. c.errorBuffer.pipe = c.errPipeWriter
    BY DEF CliIInv, ErrStages, Buffer
  <2> QED BY <2>1 DEF CliIInv, OutStages, Cleaned, HeldOpen, StagesLive
<1> QED BY <1>1, <1>2, CliStep, PTL DEF CliSpec
=============================================================================
