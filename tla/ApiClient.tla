----------------------------- MODULE ApiClient -----------------------------
(***************************************************************************)
(* A client of a space node (common/mycsnode) and the encrypted requests   *)
(* made through it (goutils/rest).                                         *)
(*                                                                         *)
(* A timer goroutine authenticates again before the session key expires    *)
(* and replaces the cipher under keyRefreshMutex.  Meanwhile callers run   *)
(* Request.do, which fetches the cipher up to four times: to encrypt the   *)
(* payload, to encrypt the request token, to decrypt the response token    *)
(* and to decrypt the response.  Crypt() returns the cipher before the     *)
(* caller has locked the mutex, so each fetch is a step of its own.        *)
(*                                                                         *)
(* A session is the key that one authentication agreed on with the node.   *)
(* Ciphertexts are named by the session that encrypted them, a keyed hash  *)
(* by what it covers and its key.  The node and the network are external;  *)
(* the node reads requests and writes responses with this repository's     *)
(* response token.  A critical section without a blocking call is a step.  *)
(***************************************************************************)
EXTENDS Integers, FiniteSets

CONSTANTS
  Callers,    \* goroutines that make requests
  Sessions,   \* session keys, used again once nothing refers to them
  Tokens,     \* hash keys of request tokens, used again likewise
  Lifetimes,  \* what a new session key may have left, in ticks
  MaxReplies, \* bound: responses under way
  Margin,     \* authenticate this long before the key expires (50 ms)
  Retry       \* authRetryTime

NoSession == "nil"
NoToken == "none"
Unread == "unread"     \* held: no cipher fetched

ASSUME TimesAssumption ==
  /\ Lifetimes \subseteq Nat
  /\ Margin \in Nat
  /\ MaxReplies \in Nat
  /\ Retry \in Nat \ {0}
ASSUME NilAssumption == {NoSession, Unread} \cap Sessions = {} /\ NoToken \notin Tokens

VARIABLES
  crypt,     \* a.crypt: the session of the cipher, or nil
  idKey,     \* a.AuthIDKey: the session it names to the node
  authed,    \* a.isAuthenticated
  left,      \* a.keyTimeoutAt minus now, 0 once it has passed
  loop,      \* where the timer goroutine is
  interval,  \* the interval the execution timer runs at, 0: none
  due,       \* ticks until it fires
  dead,      \* a nil dereference has ended the process
  at,        \* at[c]: where the call of caller c is
  tok,       \* tok[c]: the hash key of its request token
  held,      \* held[c]: the cipher it has fetched and not yet used
  req,       \* req[c]: its request as far as it is made
  got,       \* got[c]: the response it has received
  replies,   \* responses the node has sent that nobody has read
  history    \* what has happened: see below

authVars == <<crypt, idKey, authed, left>>
loopVars == <<loop, interval, due>>
callVars == <<at, tok, held, req, got>>
vars == <<authVars, loopVars, dead, callVars, replies, history>>

(* history: the shared secret came out short, so that no cipher could be   *)
(* made from it; a key was (almost) used up when its lifetime was read.    *)
Events == {"shortSecret", "usedUp"}

NoReply == [answers |-> NoToken, sum |-> NoToken, key |-> NoSession]

(* The session named in the header, whether there are query arguments, and *)
(* the sessions that encrypted the payload (nil: no payload) and the token.*)
Request(id, query, body, token) == [id |-> id, query |-> query, body |-> body, token |-> token]
NoRequest == Request(NoSession, FALSE, NoSession, NoSession)

(* Authenticate holds the mutex from beginning to end.                     *)
Locked == loop = "auth"

IsAuthenticated == authed /\ left > 0

---------------------------------------------------------------------------
(* The timer goroutine.                                                    *)

Used ==
  {crypt, idKey} \cup {held[c] : c \in Callers} \cup {r.key : r \in replies}
    \cup UNION {{req[c].id, req[c].body, req[c].token, got[c].key} : c \in Callers}

(* A key nothing refers to; which one makes no difference.                 *)
Fresh(keys) == CHOOSE k \in keys : TRUE

Start ==
  /\ loop = "off"
  /\ loop' = "auth"
  /\ authed' = FALSE
  /\ UNCHANGED <<crypt, idKey, left, interval, due, dead, callVars, replies, history>>

Fire ==
  /\ loop = "waiting"
  /\ due = 0
  /\ loop' = "auth"
  /\ authed' = FALSE
  /\ UNCHANGED <<crypt, idKey, left, interval, due, dead, callVars, replies, history>>

(* No answer, an error, or an answer that does not match the request.      *)
AuthenticateFails ==
  /\ loop = "auth"
  /\ loop' = "failed"
  /\ UNCHANGED <<authVars, interval, due, dead, callVars, replies, history>>

(* SharedSecret drops leading zero bytes; the key is then too short and    *)
(* NewCrypt returns nil, which is assigned.                                *)
AuthenticateShort ==
  /\ loop = "auth"
  /\ loop' = "failed"
  /\ crypt' = NoSession
  /\ history' = history \cup {"shortSecret"}
  /\ UNCHANGED <<idKey, authed, left, interval, due, dead, callVars, replies>>

Authenticate ==
  /\ loop = "auth"
  /\ loop' = "renewed"
  /\ Sessions \ Used # {}
  /\ crypt' = Fresh(Sessions \ Used)
  /\ idKey' = crypt'
  /\ left' \in Lifetimes
  /\ authed' = TRUE
  /\ UNCHANGED <<interval, due, dead, callVars, replies, history>>

(* What AuthCallback returns, and what the execution timer makes of it: a  *)
(* new interval, for 0 the one it has (none at the very first call), and a *)
(* negative one leaves it selecting on a nil ticker.                       *)
Delay == IF loop = "failed" THEN Retry ELSE left - Margin

MutAuthCallback ==
  /\ loop \in {"failed", "renewed"}
  /\ LET delay == IF loop = "failed" THEN Retry ELSE left
     IN /\ interval' = delay
        /\ due' = delay
  /\ loop' = "waiting"
  /\ UNCHANGED <<authVars, dead, callVars, replies, history>>

MutAuthCallbackIdle ==
  /\ loop \in {"failed", "renewed"}
  /\ interval' = IF loop = "renewed" /\ Delay # 0 THEN Delay ELSE interval
  /\ due' = interval'
  /\ loop' = IF interval' = 0 THEN "off" ELSE "waiting"
  /\ dead' = (dead \/ Delay < 0)
  /\ history' = IF Delay > 0 THEN history ELSE history \cup {"usedUp"}
  /\ UNCHANGED <<authVars, callVars, replies>>

AuthCallback ==
  /\ loop \in {"failed", "renewed"}
  /\ interval' = IF Delay # 0 THEN Delay ELSE interval
  /\ due' = interval'
  /\ loop' = IF interval' = 0 THEN "off" ELSE "waiting"
  /\ dead' = (dead \/ Delay < 0)
  /\ history' = IF Delay > 0 THEN history ELSE history \cup {"usedUp"}
  /\ UNCHANGED <<authVars, callVars, replies>>

Stop ==
  /\ loop = "waiting"
  /\ loop' = "stopped"
  /\ interval' = 0
  /\ due' = 0
  /\ UNCHANGED <<authVars, dead, callVars, replies, history>>

Reset ==
  /\ ~ Locked
  /\ authed
  /\ authed' = FALSE
  /\ UNCHANGED <<crypt, idKey, left, loopVars, dead, callVars, replies, history>>

Tick ==
  /\ left > 0 \/ due > 0
  /\ left' = IF left > 0 THEN left - 1 ELSE 0
  /\ due' = IF due > 0 THEN due - 1 ELSE 0
  /\ UNCHANGED <<crypt, idKey, authed, loop, interval, dead, callVars, replies, history>>

---------------------------------------------------------------------------
(* The callers.                                                            *)

Moves(c, where) == at' = [at EXCEPT ![c] = where]

(* The call is over, and what it had is forgotten.                         *)
Over(c) ==
  /\ at' = [at EXCEPT ![c] = "idle"]
  /\ tok' = [tok EXCEPT ![c] = NoToken]
  /\ req' = [req EXCEPT ![c] = NoRequest]
  /\ got' = [got EXCEPT ![c] = NoReply]

UsedTokens == {tok[c] : c \in Callers} \cup {r.answers : r \in replies}

(* WaitForAuth: who finds the client not authenticated looks again after   *)
(* ten milliseconds and then gives up: the timeout, a number of            *)
(* milliseconds added to nanoseconds, has passed by then.                  *)
WaitForAuth(c) ==
  /\ at[c] \in {"idle", "again"}
  /\ ~ Locked
  /\ \/ IsAuthenticated /\ Moves(c, "ready")
     \/ ~ IsAuthenticated /\ at[c] = "idle" /\ Moves(c, "again")
     \/ ~ IsAuthenticated /\ at[c] = "again" /\ Moves(c, "idle")
  /\ UNCHANGED <<authVars, loopVars, dead, tok, held, req, got, replies, history>>

(* A request with a hash key of its own; the caller names the session to   *)
(* the node in a header, from AuthIDKey.                                   *)
NewRequest(c, query, hasBody) ==
  /\ at[c] = "ready"
  /\ Tokens \ UsedTokens # {}
  /\ tok' = [tok EXCEPT ![c] = Fresh(Tokens \ UsedTokens)]
  /\ req' = [req EXCEPT ![c] = Request(idKey, query, NoSession, NoSession)]
  /\ Moves(c, IF hasBody THEN "encrypt" ELSE "sign")
  /\ UNCHANGED <<authVars, loopVars, dead, held, got, replies, history>>

(* authCrypt.Crypt(): the cipher as it is now; the mutex is locked later.  *)
Crypt(c) ==
  /\ at[c] \in {"encrypt", "token", "setToken", "decrypt"}
  /\ held[c] = Unread
  /\ held' = [held EXCEPT ![c] = crypt]
  /\ UNCHANGED <<authVars, loopVars, dead, at, tok, req, got, replies, history>>

(* The critical section that uses the cipher: a nil one is dereferenced.   *)
Uses(c) ==
  /\ held[c] # Unread
  /\ ~ Locked
  /\ dead' = (dead \/ held[c] = NoSession)
  /\ held' = [held EXCEPT ![c] = Unread]
  /\ UNCHANGED <<authVars, loopVars, replies, history>>

EncryptPayload(c) ==
  /\ at[c] = "encrypt"
  /\ Uses(c)
  /\ req' = [req EXCEPT ![c] = Request(@.id, @.query, held[c], @.token)]
  /\ Moves(c, "sign")
  /\ UNCHANGED <<tok, got>>

MutSignRequest(c) ==
  /\ at[c] = "sign"
  /\ ~ Locked
  /\ IsAuthenticated
  /\ Moves(c, "token")
  /\ UNCHANGED <<authVars, loopVars, dead, tok, held, req, got, replies, history>>

(* SignTransportData and the test of GetEncryptedToken.                    *)
SignRequest(c) ==
  /\ at[c] = "sign"
  /\ ~ Locked
  /\ \/ IsAuthenticated /\ Moves(c, "token") /\ UNCHANGED <<tok, req, got>>
     \/ ~ IsAuthenticated /\ Over(c)
  /\ UNCHANGED <<authVars, loopVars, dead, held, replies, history>>

(* The rest of GetEncryptedToken; the query arguments are added afterwards *)
(* and the request is sent.                                                *)
GetEncryptedToken(c) ==
  /\ at[c] = "token"
  /\ Uses(c)
  /\ req' = [req EXCEPT ![c] = Request(@.id, @.query, @.body, held[c])]
  /\ Moves(c, "sent")
  /\ UNCHANGED <<tok, got>>

---------------------------------------------------------------------------
(* The node.  It decrypts the token with the session the header names,     *)
(* validates what was signed (the url as it was before the query arguments *)
(* were added) and decrypts the payload.  Its response carries the         *)
(* checksum of its payload under the hash key of the request token.        *)

Validates(r) ==
  /\ r.token = r.id
  /\ ~ r.query
  /\ r.body \in {NoSession, r.id}

Respond(c) ==
  /\ at[c] = "sent"
  /\ Cardinality(replies) < MaxReplies
  /\ Validates(req[c])
  /\ replies' = replies \cup {[answers |-> tok[c], sum |-> tok[c], key |-> req[c].id]}
  /\ Moves(c, "answered")
  /\ UNCHANGED <<authVars, loopVars, dead, tok, held, req, got, history>>

(* An error status, no response in time, or one that could not be read.    *)
RequestFails(c) ==
  /\ at[c] \in {"sent", "answered"}
  /\ Over(c)
  /\ UNCHANGED <<authVars, loopVars, dead, held, replies, history>>

(* A response arrives: not necessarily the one to this request.            *)
Receive(c) ==
  /\ at[c] \in {"sent", "answered"}
  /\ \E r \in replies :
       /\ got' = [got EXCEPT ![c] = r]
       /\ replies' = replies \ {r}
  /\ req' = [req EXCEPT ![c] = NoRequest]
  /\ Moves(c, "setToken")
  /\ UNCHANGED <<authVars, loopVars, dead, tok, held, history>>

Lose ==
  /\ \E r \in replies : replies' = replies \ {r}
  /\ UNCHANGED <<authVars, loopVars, dead, callVars, history>>

---------------------------------------------------------------------------
(* The end of the call.                                                    *)

SetEncryptedToken(c) ==
  /\ at[c] = "setToken"
  /\ Uses(c)
  /\ \/ got[c].key = held[c] /\ Moves(c, "decrypt") /\ UNCHANGED <<tok, req, got>>
     \/ got[c].key # held[c] /\ Over(c)

MutDecryptPayload(c) ==
  /\ at[c] = "decrypt"
  /\ Uses(c)
  /\ \/ got[c].key = held[c] /\ Moves(c, "ok") /\ UNCHANGED <<tok, req, got>>
     \/ got[c].key # held[c] /\ Over(c)

(* The payload must have the checksum that the response token gives, under *)
(* the hash key of the request token.                                      *)
DecryptPayload(c) ==
  /\ at[c] = "decrypt"
  /\ Uses(c)
  /\ \/ got[c].key = held[c] /\ got[c].sum = tok[c] /\ Moves(c, "ok") /\ UNCHANGED <<tok, req, got>>
     \/ ~ (got[c].key = held[c] /\ got[c].sum = tok[c]) /\ Over(c)

Return(c) ==
  /\ at[c] = "ok"
  /\ Over(c)
  /\ UNCHANGED <<authVars, loopVars, dead, held, replies, history>>

---------------------------------------------------------------------------
Init ==
  /\ crypt = NoSession
  /\ idKey = NoSession
  /\ authed = FALSE
  /\ left = 0
  /\ loop = "off"
  /\ interval = 0
  /\ due = 0
  /\ dead = FALSE
  /\ at = [c \in Callers |-> "idle"]
  /\ tok = [c \in Callers |-> NoToken]
  /\ held = [c \in Callers |-> Unread]
  /\ req = [c \in Callers |-> NoRequest]
  /\ got = [c \in Callers |-> NoReply]
  /\ replies = {}
  /\ history = {}

Ends == AuthenticateFails \/ AuthenticateShort \/ Authenticate
Loop == Start \/ Fire \/ Ends \/ AuthCallback \/ Stop \/ Reset \/ Tick

Step(c) ==
  \/ Crypt(c) \/ EncryptPayload(c) \/ SignRequest(c) \/ GetEncryptedToken(c)
  \/ RequestFails(c) \/ Receive(c) \/ SetEncryptedToken(c) \/ DecryptPayload(c)
  \/ Return(c)

Asks(c) == WaitForAuth(c) \/ \E query, hasBody \in BOOLEAN : NewRequest(c, query, hasBody)

Next ==
  /\ ~ dead
  /\ \/ Loop
     \/ Lose
     \/ \E c \in Callers : Asks(c) \/ Step(c) \/ Respond(c)

Spec == Init /\ [][Next]_vars

(* Goroutines run; a mutex is handed to who waits for it; every response   *)
(* is read or lost; a node asked again and again answers some time.        *)
Live(A) == ~ dead /\ A
Fairness ==
  /\ \A c \in Callers : SF_vars(Live(Step(c))) /\ SF_vars(Live(Asks(c)))
  /\ WF_vars(Live(Lose))
  /\ WF_vars(Live(Fire)) /\ WF_vars(Live(Ends)) /\ WF_vars(Live(AuthCallback))
  /\ WF_vars(Live(Tick)) /\ SF_vars(Live(Authenticate))

FairSpec == Spec /\ Fairness

---------------------------------------------------------------------------
(* Properties.                                                             *)

Steps == {"idle", "again", "ready", "encrypt", "sign", "token", "sent", "answered",
          "setToken", "decrypt", "ok"}

Reply == [answers : Tokens \cup {NoToken}, sum : Tokens \cup {NoToken}, key : Sessions \cup {NoSession}]
Requests == [id : Sessions \cup {NoSession}, query : BOOLEAN,
             body : Sessions \cup {NoSession}, token : Sessions \cup {NoSession}]

(* Type invariant.                                                         *)
TypeOK ==
  /\ {crypt, idKey} \subseteq Sessions \cup {NoSession}
  /\ authed \in BOOLEAN
  /\ dead \in BOOLEAN
  /\ left \in Nat
  /\ loop \in {"off", "waiting", "auth", "failed", "renewed", "stopped"}
  /\ interval \in Int
  /\ due \in Int
  /\ at \in [Callers -> Steps]
  /\ tok \in [Callers -> Tokens \cup {NoToken}]
  /\ held \in [Callers -> Sessions \cup {NoSession, Unread}]
  /\ req \in [Callers -> Requests]
  /\ got \in [Callers -> Reply]
  /\ replies \subseteq Reply
  /\ history \subseteq Events

(* A call that succeeds returns the node's answer to this very request,    *)
(* although sessions change under it and responses may reach the wrong     *)
(* call (SetEncryptedToken: "authenticate that the response is associated  *)
(* with this token").                                                      *)
AnswersOwnRequest == \A c \in Callers : at[c] = "ok" => got[c].answers = tok[c]

(* Whenever the client counts as authenticated it has a cipher, and the    *)
(* session it names to the node is the one the cipher belongs to.          *)
KeysAgree == authed => crypt # NoSession /\ idKey = crypt

(* Callers that wait for authentication first never run into a nil cipher, *)
(* unless a re-authentication ended without a key while they were at work, *)
(* and the timer never runs without a ticker unless a key was used up.     *)
CipherAtHand == dead => history # {}

(* While the timer waits with a good key, it fires exactly the margin      *)
(* before that key expires.                                                *)
RenewalInTime ==
  loop = "waiting" /\ authed /\ due > 0 /\ "usedUp" \notin history => left = due + Margin

(* Every call returns: the mutex is released on every path of              *)
(* Authenticate, and every fetch of a cipher is followed by its use.       *)
CallsReturn == \A c \in Callers : at[c] # "idle" ~> at[c] = "idle" \/ dead

(* A failed authentication is tried again until one succeeds, unless the   *)
(* client is stopped or a key was used up when it came.                    *)
AuthRetried == loop = "failed" ~> authed \/ loop = "stopped" \/ dead \/ "usedUp" \in history

(* A request that reaches the node as it was sent, under one session, is   *)
(* validated (rest_client.go: "add an encrypted authentication header to   *)
(* the request to be validated on the server side").                       *)
SentValidates ==
  \A c \in Callers :
    at[c] = "sent" /\ req[c].token = req[c].id /\ req[c].body \in {NoSession, req[c].id}
      => Validates(req[c])

============================================================================
