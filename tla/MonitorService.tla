--------------------------- MODULE MonitorService ---------------------------
(***************************************************************************)
(* The monitor service of common/monitors/monitor.go.  A timer collects    *)
(* the counters of every monitor into a payload; every CollectCount        *)
(* collections a goroutine posts the payloads gathered so far, and puts    *)
(* back the ones the sender could not post.  Stop ends the timer, collects *)
(* and posts once more and waits.                                          *)
(*                                                                         *)
(* collect, the put-backs, Stop's flush and the monitors' operations all   *)
(* run under ms.lock, so each is one step; the calls of the sender are     *)
(* not.  The timer is the interface ExecTimer provides: its callback may   *)
(* run while the timer is on, and never after its Stop has returned.       *)
(***************************************************************************)
EXTENDS CounterOps, Sequences, FiniteSets

CONSTANTS
  Counters,      \* counter objects
  Monitors,      \* monitor objects
  Posts,         \* goroutines that may be posting at one time (a bound)
  CollectCount,  \* collections per post, the argument of NewMonitorService
  Cumalative,    \* the cumulative counters
  IgnoreZero,    \* the counters without zero snapshots
  Values,        \* arguments of Set and Add
  MaxTotal,      \* bound on a counter's total
  MaxCounters,   \* bound on the counters registered with a monitor
  MaxPayloads    \* bound on the payloads the timer collects

ASSUME CollectCountAssumption == CollectCount \in Nat \ {0}
ASSUME PostsAssumption == IsFiniteSet(Posts)
ASSUME KindsAssumption == Cumalative \subseteq Counters /\ IgnoreZero \subseteq Counters
ASSUME MonitorValuesAssumption == Values \subseteq Int /\ MaxTotal \in Nat

VARIABLES
  counter,        \* the counter objects
  monitors,       \* ms.monitors (their order is immaterial)
  counters,       \* m.counters of every monitor
  content,        \* history: content[i] is the i-th payload ever collected
  eventPayloads,  \* ms.eventPayloads: the indexes of the queued payloads
  sendCountdown,  \* ms.sendCountdown
  timer,          \* ms.snapshotTimer
  post,           \* where each posting goroutine is
  batch,          \* the payloads it has in hand
  stopper,        \* where the goroutine that calls Stop is
  delivered,      \* history: the payloads the upstream service has
  sinceLast,      \* history: collections since the last post
  flushed,        \* history: the payloads Stop's last post took
  overlapped,     \* history: two posts have been under way at once
  misreported     \* history: an error of the sender has hidden a delivery

vars == <<counter, monitors, counters, content, eventPayloads, sendCountdown,
          timer, post, batch, stopper, delivered, sinceLast, flushed,
          overlapped, misreported>>

Elements(s) == {s[i] : i \in 1 .. Len(s)}

(* a payload: the counters that had a snapshot, with their values *)
Payload == SUBSET (Counters \X Int)

(* The service's state stays typed: queued payloads name payloads collected. *)
TypeOK ==
  /\ counter \in [Counters -> CounterType]
  /\ monitors \subseteq Monitors
  /\ counters \in [Monitors -> Seq(Counters)]
  /\ content \in Seq(Payload)
  /\ eventPayloads \in Seq(1 .. Len(content))
  /\ sendCountdown \in 0 .. CollectCount - 1
  /\ timer \in {"new", "on", "off"}
  /\ post \in [Posts -> {"idle", "posting", "failed"}]
  /\ batch \in [Posts -> Seq(1 .. Len(content))]
  /\ stopper \in {"up", "wait", "flush", "waitFlush", "stopped"}
  /\ delivered \subseteq 1 .. Len(content)
  /\ sinceLast \in Nat
  /\ flushed \subseteq 1 .. Len(content)
  /\ overlapped \in BOOLEAN
  /\ misreported \in BOOLEAN

(* NewMonitorService *)
Init ==
  /\ counter = [c \in Counters |-> NewCounter(c \in Cumalative, c \in IgnoreZero)]
  /\ monitors = {}
  /\ counters = [m \in Monitors |-> <<>>]
  /\ content = <<>>
  /\ eventPayloads = <<>>
  /\ sendCountdown = CollectCount - 1
  /\ timer = "new"
  /\ post = [p \in Posts |-> "idle"]
  /\ batch = [p \in Posts |-> <<>>]
  /\ stopper = "up"
  /\ delivered = {}
  /\ sinceLast = 0
  /\ flushed = {}
  /\ overlapped = FALSE
  /\ misreported = FALSE

-----------------------------------------------------------------------------
(* the owners of counters use them at any time *)
Touch(c) ==
  /\ \E v \in Values :
       \E u \in {Inc(counter[c]), Add(counter[c], v), Set(counter[c], v), SetInc(counter[c], v)} :
         /\ Get(u) \in 0 .. MaxTotal
         /\ counter' = [counter EXCEPT ![c] = u]
  /\ UNCHANGED <<monitors, counters, content, eventPayloads, sendCountdown,
                 timer, post, batch, stopper, delivered, sinceLast,
                 flushed, overlapped, misreported>>

NewMonitor(m) ==
  /\ m \notin monitors
  /\ monitors' = monitors \cup {m}
  /\ UNCHANGED <<counter, counters, content, eventPayloads, sendCountdown,
                 timer, post, batch, stopper, delivered, sinceLast,
                 flushed, overlapped, misreported>>

AddCounter(m, c) ==
  /\ m \in monitors
  /\ Len(counters[m]) < MaxCounters
  /\ counters' = [counters EXCEPT ![m] = Append(@, c)]
  /\ UNCHANGED <<counter, monitors, content, eventPayloads, sendCountdown,
                 timer, post, batch, stopper, delivered, sinceLast,
                 flushed, overlapped, misreported>>

(* The counters after the call: what follows the last place of the counter
   moves up, and the last one is cut off, whether or not it was found *)
Deleted(s, c) ==
  [j \in 1 .. Len(s) - 1 |->
     IF c \notin Elements(s) \/ \E k \in j + 1 .. Len(s) : s[k] = c THEN s[j] ELSE s[j + 1]]

(* an empty list is out of range: the call panics, and is left out *)
DeleteCounter(m, c) ==
  /\ m \in monitors
  /\ counters[m] # <<>>
  /\ counters' = [counters EXCEPT ![m] = Deleted(@, c)]
  /\ UNCHANGED <<counter, monitors, content, eventPayloads, sendCountdown,
                 timer, post, batch, stopper, delivered, sinceLast,
                 flushed, overlapped, misreported>>

-----------------------------------------------------------------------------
Registered == UNION {Elements(counters[m]) : m \in monitors}

Collectable == {c \in Registered : HasSnapshot(counter[c])}

Snapshot == {<<c, counter[c].value>> : c \in Collectable}

(* collectEvents: a payload is queued only if some counter had a snapshot.  A
   counter registered twice is collected twice; the second time changes nothing *)
collectEvents ==
  /\ counter' = [c \in Counters |-> IF c \in Registered THEN Collected(counter[c]) ELSE counter[c]]
  /\ content' = IF Collectable # {} THEN Append(content, Snapshot) ELSE content

(* the queue collectEvents leaves *)
Queue ==
  IF Collectable # {} THEN Append(eventPayloads, Len(content) + 1) ELSE eventPayloads

(* mutant: the goroutine's copy is taken, the queue is not emptied *)
MutPostEvents(p) ==
  /\ post[p] = "idle"
  /\ post' = [post EXCEPT ![p] = "posting"]
  /\ batch' = [batch EXCEPT ![p] = Queue]
  /\ eventPayloads' = Queue
  /\ overlapped' = (overlapped \/ \E o \in Posts : post[o] # "idle")

(* postEvents: goroutine p takes over the whole queue *)
postEvents(p) ==
  /\ post[p] = "idle"
  /\ post' = [post EXCEPT ![p] = "posting"]
  /\ batch' = [batch EXCEPT ![p] = Queue]
  /\ eventPayloads' = <<>>
  /\ overlapped' = (overlapped \/ \E o \in Posts : post[o] # "idle")

(* Start *)
Start ==
  /\ timer = "new" /\ stopper = "up"
  /\ timer' = "on"
  /\ UNCHANGED <<counter, monitors, counters, content, eventPayloads,
                 sendCountdown, post, batch, stopper, delivered, sinceLast,
                 flushed, overlapped, misreported>>

(* collect, the timer's callback, in a period that does not end *)
CollectOnly ==
  /\ timer = "on"
  /\ Len(content) < MaxPayloads
  /\ sendCountdown # 0
  /\ sendCountdown' = sendCountdown - 1
  /\ sinceLast' = sinceLast + 1
  /\ collectEvents
  /\ eventPayloads' = Queue
  /\ UNCHANGED <<monitors, counters, timer, post, batch, stopper, delivered,
                 flushed, overlapped, misreported>>

(* mutant: the countdown restarts from the count NewMonitorService was given *)
(* collect, at the end of a period *)
CollectAndPost(p) ==
  /\ timer = "on"
  /\ Len(content) < MaxPayloads
  /\ sendCountdown = 0
  /\ sendCountdown' = CollectCount - 1
  /\ sinceLast' = 0
  /\ collectEvents
  /\ postEvents(p)
  /\ UNCHANGED <<monitors, counters, timer, stopper, delivered, flushed, misreported>>

-----------------------------------------------------------------------------
Others == <<counter, monitors, counters, content, sendCountdown, timer,
            stopper, sinceLast, flushed, overlapped>>

(* mutant: with nothing to post the goroutine returns without its Done *)
MutPostNothing(p) ==
  /\ post[p] = "posting" /\ batch[p] = <<>>
  /\ UNCHANGED vars

(* with nothing to post the goroutine just ends *)
PostNothing(p) ==
  /\ post[p] = "posting" /\ batch[p] = <<>>
  /\ post' = [post EXCEPT ![p] = "idle"]
  /\ UNCHANGED <<eventPayloads, batch, delivered, misreported, Others>>

(* PostMeasurementEvents posted every event *)
PostSucceeds(p) ==
  /\ post[p] = "posting" /\ batch[p] # <<>>
  /\ delivered' = delivered \cup Elements(batch[p])
  /\ post' = [post EXCEPT ![p] = "idle"]
  /\ batch' = [batch EXCEPT ![p] = <<>>]
  /\ UNCHANGED <<eventPayloads, misreported, Others>>

(* it returned an error: all payloads will be put back; a reply that got
   lost may hide that some of the events arrived *)
PostFails(p) ==
  /\ post[p] = "posting" /\ batch[p] # <<>>
  /\ \E arrived \in SUBSET Elements(batch[p]) :
       /\ delivered' = delivered \cup arrived
       /\ misreported' = (misreported \/ arrived # {})
  /\ post' = [post EXCEPT ![p] = "failed"]
  /\ UNCHANGED <<eventPayloads, batch, Others>>

(* the strictly increasing lists of k indexes into a list of n *)
Increasing(k, n) ==
  {f \in [1 .. k -> 1 .. n] : \A i, j \in 1 .. k : i < j => f[i] < f[j]}

(* it returned an error for some events, in the order of the events *)
PostFailsPartly(p) ==
  /\ post[p] = "posting"
  /\ \E k \in 1 .. Len(batch[p]) : \E f \in Increasing(k, Len(batch[p])) :
       LET repostList == [i \in 1 .. k |-> batch[p][f[i]]]
       IN  /\ batch' = [batch EXCEPT ![p] = repostList]
           /\ \E arrived \in SUBSET Elements(repostList) :
                /\ delivered' = delivered \cup arrived
                                  \cup (Elements(batch[p]) \ Elements(repostList))
                /\ misreported' = (misreported \/ arrived # {})
  /\ post' = [post EXCEPT ![p] = "failed"]
  /\ UNCHANGED <<eventPayloads, Others>>

(* mutant: put back behind the payloads collected meanwhile *)
MutPutBack(p) ==
  /\ post[p] = "failed"
  /\ eventPayloads' = eventPayloads \o batch[p]
  /\ post' = [post EXCEPT ![p] = "idle"]
  /\ batch' = [batch EXCEPT ![p] = <<>>]
  /\ UNCHANGED <<delivered, misreported, Others>>

(* mutant: the payloads collected meanwhile are overwritten *)
MutPutBackLoses(p) ==
  /\ post[p] = "failed"
  /\ eventPayloads' = batch[p]
  /\ post' = [post EXCEPT ![p] = "idle"]
  /\ batch' = [batch EXCEPT ![p] = <<>>]
  /\ UNCHANGED <<delivered, misreported, Others>>

(* put back the payloads in hand, before the ones collected meanwhile *)
PutBack(p) ==
  /\ post[p] = "failed"
  /\ eventPayloads' = batch[p] \o eventPayloads
  /\ post' = [post EXCEPT ![p] = "idle"]
  /\ batch' = [batch EXCEPT ![p] = <<>>]
  /\ UNCHANGED <<delivered, misreported, Others>>

-----------------------------------------------------------------------------
(* Stop: the timer is stopped first *)
Stop ==
  /\ stopper = "up"
  /\ stopper' = "wait"
  /\ timer' = "off"
  /\ UNCHANGED <<counter, monitors, counters, content, eventPayloads,
                 sendCountdown, post, batch, delivered, sinceLast,
                 flushed, overlapped, misreported>>

NoPosts == \A p \in Posts : post[p] = "idle"

(* mutant: the first Wait is missing *)
MutStopWait ==
  /\ stopper = "wait"
  /\ stopper' = "flush"
  /\ UNCHANGED <<counter, monitors, counters, content, eventPayloads,
                 sendCountdown, timer, post, batch, delivered, sinceLast,
                 flushed, overlapped, misreported>>

(* ms.sendWG.Wait() *)
StopWait ==
  /\ stopper = "wait" /\ NoPosts
  /\ stopper' = "flush"
  /\ UNCHANGED <<counter, monitors, counters, content, eventPayloads,
                 sendCountdown, timer, post, batch, delivered, sinceLast,
                 flushed, overlapped, misreported>>

(* collect and post once more *)
StopFlush(p) ==
  /\ stopper = "flush"
  /\ stopper' = "waitFlush"
  /\ collectEvents
  /\ postEvents(p)
  /\ flushed' = Elements(Queue)
  /\ UNCHANGED <<monitors, counters, sendCountdown, timer, delivered, sinceLast,
                 misreported>>

(* the second ms.sendWG.Wait(); Stop returns *)
StopReturn ==
  /\ stopper = "waitFlush" /\ NoPosts
  /\ stopper' = "stopped"
  /\ UNCHANGED <<counter, monitors, counters, content, eventPayloads,
                 sendCountdown, timer, post, batch, delivered, sinceLast,
                 flushed, overlapped, misreported>>

PostStep(p) ==
  \/ PostNothing(p)
  \/ PostSucceeds(p)
  \/ PostFails(p)
  \/ PostFailsPartly(p)
  \/ PutBack(p)

StopStep ==
  \/ StopWait
  \/ \E p \in Posts : StopFlush(p)
  \/ StopReturn

Next ==
  \/ \E c \in Counters : Touch(c)
  \/ \E m \in Monitors : NewMonitor(m)
  \/ \E m \in Monitors, c \in Counters : AddCounter(m, c) \/ DeleteCounter(m, c)
  \/ Start
  \/ CollectOnly
  \/ \E p \in Posts : CollectAndPost(p)
  \/ \E p \in Posts : PostStep(p)
  \/ Stop
  \/ StopStep

(* a call of the sender returns, and goroutines are scheduled *)
Fairness ==
  /\ \A p \in Posts : WF_vars(PostStep(p))
  /\ WF_vars(StopStep)

Spec == Init /\ [][Next]_vars

FairSpec == Spec /\ Fairness
-----------------------------------------------------------------------------
InHand(p) == post[p] # "idle"

Payloads == 1 .. Len(content)

(***************************************************************************)
(* No payload is lost: each one collected has been delivered, or waits in  *)
(* the queue, or is in the hands of a goroutine that is posting it or will *)
(* put it back; whatever posts fail, wholly or partly, and however they    *)
(* overlap with collections.                                               *)
(***************************************************************************)
NoneLost ==
  \A i \in Payloads :
    \/ i \in delivered
    \/ i \in Elements(eventPayloads)
    \/ \E p \in Posts : InHand(p) /\ i \in Elements(batch[p])

Distinct(s) == \A i, j \in 1 .. Len(s) : s[i] = s[j] => i = j

(***************************************************************************)
(* As long as the sender's errors are truthful no payload is in two places *)
(* and none is posted again after it was delivered.                        *)
(***************************************************************************)
OnceEach ==
  ~misreported =>
    /\ Distinct(eventPayloads)
    /\ Elements(eventPayloads) \cap delivered = {}
    /\ \A p \in Posts : InHand(p) =>
         /\ Distinct(batch[p])
         /\ Elements(batch[p]) \cap (delivered \cup Elements(eventPayloads)) = {}
         /\ \A o \in Posts : InHand(o) /\ o # p =>
              Elements(batch[p]) \cap Elements(batch[o]) = {}

Ascending(s) == \A i, j \in 1 .. Len(s) : i < j => s[i] < s[j]

(***************************************************************************)
(* As long as no two posts overlap, payloads are queued and posted in the  *)
(* order they were collected: "put back the counters" puts them in front.  *)
(***************************************************************************)
InOrder ==
  ~overlapped =>
    /\ Ascending(eventPayloads)
    /\ \A p \in Posts : InHand(p) =>
         /\ Ascending(batch[p])
         /\ \A i \in Elements(batch[p]), j \in Elements(eventPayloads) : i < j

(* "publishes these metrics after 'collectCount' collections" (monitor.go:63):
   the countdown and the collections since the last post make up one period *)
PostPeriod == sinceLast + sendCountdown = CollectCount - 1

(***************************************************************************)
(* Stop's flush gives every payload a last attempt: the put-backs of posts *)
(* still under way when Stop is called come before it.                     *)
(***************************************************************************)
LastAttempt ==
  stopper \in {"waitFlush", "stopped"} => Payloads \subseteq delivered \cup flushed

(* A Stop that was called returns *)
StopReturns == stopper = "wait" ~> stopper = "stopped"
=============================================================================
