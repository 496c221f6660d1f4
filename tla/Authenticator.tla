---------------------------- MODULE Authenticator ---------------------------
(***************************************************************************)
(* The OAuth flow of goutils/auth/authenticator.go: an owner that starts   *)
(* flows and waits for them, the local server of each flow, the requests   *)
(* the browser sends to it, and the goroutines that shut it down.          *)
(*                                                                         *)
(* A flow is a number, which also stands for its server, its opaque state  *)
(* and its token; 0 is none.  The browser sends the redirects of its own   *)
(* tabs: of the flow, of an earlier one, or the same twice.  The goroutine *)
(* of a server listens before the owner's next call.                       *)
(***************************************************************************)
EXTENDS Integers, FiniteSets

CONSTANTS
  Requests,   \* the requests sent to the callback
  MaxFlows,   \* bound: flows started
  MaxWaits    \* bound: calls of WaitForOAuthFlowCompletion

ASSUME AuthAssumption == {MaxFlows, MaxWaits} \subseteq Nat

Flows == 1 .. MaxFlows

VARIABLES
  flow,             \* number of flows started
  server,           \* per flow: "none", "serving", "shutdown" or "exited"
  localHttpServer,  \* the flow whose server the authenticator knows
  state,            \* the flow whose state is expected
  serverError,
  token,            \* the flow whose token was saved last
  request,          \* per request: where it is, its server and its state
  canceled,         \* whether the context is
  owner_,           \* "idle", "waiting", "stopping" or "woken"
  waiters,          \* the goroutines in localServerExit.Wait: "none", "in", "woken" or "gone"
  result,           \* what the last wait returned
  calls,            \* number of waits
  overlapped,       \* history: a flow was started while another ran
  crashed           \* a panic

avars == <<flow, server, localHttpServer, state, serverError, token, request, canceled, owner_,
           waiters, result, calls, overlapped, crashed>>

Waits == 1 .. MaxWaits

AuthInit ==
  /\ flow = 0 /\ server = [f \in Flows |-> "none"] /\ localHttpServer = 0 /\ state = 0
  /\ serverError = FALSE /\ token = 0
  /\ request = [r \in Requests |-> [at |-> "none", server |-> 0, state |-> 0]]
  /\ canceled = FALSE /\ owner_ = "idle" /\ waiters = [w \in Waits |-> "none"]
  /\ result = "none" /\ calls = 0 /\ overlapped = FALSE /\ crashed = FALSE

Crash ==
  /\ crashed' = TRUE
  /\ UNCHANGED <<flow, server, localHttpServer, state, serverError, token, request, canceled,
                 owner_, waiters, result, calls, overlapped>>

(* the counter of localServerExit *)
Unfinished == {f \in Flows : server[f] \in {"serving", "shutdown"}}

-----------------------------------------------------------------------------
(* The owner, and the servers *)
StartOAuthFlow ==
  /\ owner_ = "idle" /\ flow < MaxFlows /\ ~crashed
  /\ flow' = flow + 1
  /\ server' = [server EXCEPT ![flow + 1] = "serving"]
  /\ overlapped' = (overlapped \/ Unfinished # {})
  /\ localHttpServer' = flow + 1 /\ state' = flow + 1 /\ result' = "none"
  /\ UNCHANGED <<serverError, token, request, canceled, owner_, waiters, calls, crashed>>

(* the deferred function of the server's goroutine; a waiter wakes up when
   the last server is gone *)
ServerExits(f) ==
  /\ server' = [server EXCEPT ![f] = "exited"]
  /\ localHttpServer' = 0
  /\ waiters' = [w \in Waits |->
                   IF Unfinished = {f} /\ waiters[w] = "in" THEN "woken" ELSE waiters[w]]
  /\ UNCHANGED <<flow, state, token, request, canceled, owner_, result, calls, overlapped, crashed>>

ListenFails(f) ==
  /\ server[f] = "serving" /\ ~crashed
  /\ \A r \in Requests : request[r].server # f   \* it was never up
  /\ serverError' = TRUE
  /\ ServerExits(f)

ServerClosed(f) ==
  /\ server[f] = "shutdown" /\ ~crashed
  /\ ServerExits(f)
  /\ UNCHANGED serverError

(* Wait returns at once when no server runs *)
WaitForOAuthFlowCompletion ==
  /\ owner_ = "idle" /\ flow > 0 /\ calls < MaxWaits /\ ~crashed
  /\ owner_' = "waiting" /\ calls' = calls + 1 /\ result' = "none"
  /\ waiters' = [waiters EXCEPT ![calls + 1] = IF Unfinished = {} THEN "woken" ELSE "in"]
  /\ UNCHANGED <<flow, server, localHttpServer, state, serverError, token, request, canceled,
                 overlapped, crashed>>

(* a waiter that finds the counter in use again panics *)
WaiterReturns(w) ==
  /\ waiters[w] = "woken" /\ ~crashed
  /\ IF Unfinished # {} THEN Crash
     ELSE /\ waiters' = [waiters EXCEPT ![w] = "gone"]
          /\ UNCHANGED <<flow, server, localHttpServer, state, serverError, token, request,
                         canceled, owner_, result, calls, overlapped, crashed>>

(* the three ways out of the select *)
WaitReturns ==
  /\ owner_ = "waiting" /\ waiters[calls] = "gone" /\ ~crashed
  /\ owner_' = "idle" /\ result' = IF serverError THEN "error" ELSE "completed"
  /\ UNCHANGED <<flow, server, localHttpServer, state, serverError, token, request, canceled,
                 waiters, calls, overlapped, crashed>>

WaitTimesOut ==
  /\ owner_ = "waiting" /\ ~crashed
  /\ owner_' = "idle" /\ result' = "timeout"
  /\ UNCHANGED <<flow, server, localHttpServer, state, serverError, token, request, canceled,
                 waiters, calls, overlapped, crashed>>

Cancel ==
  /\ ~canceled /\ flow > 0 /\ ~crashed
  /\ canceled' = TRUE
  /\ UNCHANGED <<flow, server, localHttpServer, state, serverError, token, request, owner_,
                 waiters, result, calls, overlapped, crashed>>

(* Shutdown stops the server the authenticator knows of, which may be none *)
Shutdown(next) ==
  IF localHttpServer = 0 THEN Crash
  ELSE /\ server' = [server EXCEPT ![localHttpServer] = IF @ = "serving" THEN "shutdown" ELSE @]
       /\ next
       /\ UNCHANGED <<flow, localHttpServer, state, serverError, token, canceled, waiters, calls,
                      overlapped, crashed>>

WaitCanceled ==
  /\ owner_ = "waiting" /\ canceled /\ ~crashed
  /\ Shutdown(owner_' = "stopping" /\ UNCHANGED <<request, result>>)

(* Shutdown waits for the requests of the server *)
WaitStopped ==
  /\ owner_ = "stopping" /\ ~crashed
  /\ \A r \in Requests : request[r].at \notin {"received", "exchange", "saved"}
  /\ owner_' = "idle" /\ result' = "canceled"
  /\ UNCHANGED <<flow, server, localHttpServer, state, serverError, token, request, canceled,
                 waiters, calls, overlapped, crashed>>

-----------------------------------------------------------------------------
(* OAuthHandler *)
Move(r, at) == request' = [request EXCEPT ![r].at = at]

Receive(r, f, g) ==
  /\ request[r].at = "none" /\ server[f] = "serving" /\ g <= flow /\ ~crashed
  /\ request' = [request EXCEPT ![r] = [at |-> "received", server |-> f, state |-> g]]
  /\ UNCHANGED <<flow, server, localHttpServer, state, serverError, token, canceled, owner_,
                 waiters, result, calls, overlapped, crashed>>

(* the deferred function resets the state, however the handler returns *)
Refuse(r) ==
  /\ Move(r, "refused") /\ state' = 0
  /\ UNCHANGED <<flow, server, localHttpServer, serverError, token, canceled, owner_, waiters,
                 result, calls, overlapped, crashed>>

(* mutant: a request without a code, or of another flow, ends the flow too *)
MutCheck(r) ==
  /\ request[r].at = "received" /\ ~crashed
  /\ Move(r, "saved")
  /\ UNCHANGED <<flow, server, localHttpServer, state, serverError, token, canceled,
                 owner_, waiters, result, calls, overlapped, crashed>>

(* the state is not the one expected, or the redirect has no code *)
Check(r) ==
  /\ request[r].at = "received" /\ ~crashed
  /\ \/ Refuse(r)
     \/ /\ request[r].state = state
        /\ Move(r, "exchange")
        /\ UNCHANGED <<flow, server, localHttpServer, state, serverError, token, canceled,
                       owner_, waiters, result, calls, overlapped, crashed>>

(* RetrieveToken *)
Exchange(r) ==
  /\ request[r].at = "exchange" /\ ~crashed
  /\ \/ Refuse(r)
     \/ /\ Move(r, "saved") /\ token' = request[r].state
        /\ UNCHANGED <<flow, server, localHttpServer, state, serverError, canceled, owner_,
                       waiters, result, calls, overlapped, crashed>>

(* mutant: the server is left running *)
MutCallbackDone(r) ==
  /\ request[r].at = "saved" /\ ~crashed
  /\ Move(r, "gone") /\ state' = 0
  /\ UNCHANGED <<flow, server, localHttpServer, serverError, token, canceled, owner_, waiters,
                 result, calls, overlapped, crashed>>

CallbackDone(r) ==
  /\ request[r].at = "saved" /\ ~crashed
  /\ Move(r, IF localHttpServer # 0 THEN "delay" ELSE "gone") /\ state' = 0
  /\ UNCHANGED <<flow, server, localHttpServer, serverError, token, canceled, owner_, waiters,
                 result, calls, overlapped, crashed>>

(* the goroutine that shuts the server down, half a second later *)
DelayedShutdown(r) ==
  /\ request[r].at = "delay" /\ ~crashed
  /\ Shutdown(Move(r, "gone") /\ UNCHANGED <<owner_, result>>)

Handling(r) == Check(r) \/ Exchange(r) \/ CallbackDone(r) \/ DelayedShutdown(r)

AuthNext ==
  \/ StartOAuthFlow \/ WaitForOAuthFlowCompletion \/ WaitReturns \/ WaitTimesOut
  \/ Cancel \/ WaitCanceled \/ WaitStopped
  \/ \E f \in Flows : ListenFails(f) \/ ServerClosed(f)
  \/ \E w \in Waits : WaiterReturns(w)
  \/ \E r \in Requests : Handling(r) \/ \E f, g \in Flows : Receive(r, f, g)

AuthSpec == AuthInit /\ [][AuthNext]_avars

(* requests are handled, servers return from a shutdown, and goroutines run;
   each has a few steps to do, so that it is enough that one of them goes on *)
AuthFairness ==
  WF_avars(\/ \E r \in Requests : Handling(r)
           \/ \E f \in Flows : ServerClosed(f)
           \/ \E w \in Waits : WaiterReturns(w))

-----------------------------------------------------------------------------
(* both of two redirects with the same state were accepted *)
AcceptedTwice ==
  \E r, q \in Requests :
    /\ r # q /\ request[r].state = request[q].state
    /\ {request[r].at, request[q].at} \cap {"none", "received", "refused"} = {}

(***************************************************************************)
(* A wait that says the flow has completed, with no error and no cancel,   *)
(* is only heard after a token of this flow was saved: no redirect that    *)
(* was refused, no exchange that failed, no timeout and no shutdown left   *)
(* over from an earlier flow ends it.  This needs that a flow is not       *)
(* started while another runs, and that no redirect was handled twice at   *)
(* the same time: the later of their shutdowns meets the next flow.        *)
(***************************************************************************)
CompletedHasToken ==
  result = "completed" /\ ~canceled =>
    \/ token = flow
    \/ token # 0 /\ (overlapped \/ AcceptedTwice)

(***************************************************************************)
(* When a flow's redirect was accepted, and its token saved, its server    *)
(* goes away, and with it the wait ends: the redirects of other tabs, sent *)
(* before or after it, do not prevent that.  This needs that a flow is not *)
(* started while another runs.                                             *)
(***************************************************************************)
FlowEnds == token # 0 ~> (crashed \/ overlapped \/ (token # 0 /\ server[token] = "exited"))
=============================================================================
