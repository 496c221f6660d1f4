--------------------------- MODULE LifecycleProofs --------------------------
(***************************************************************************)
(* Proofs about what an owner starts and has to end or undo: the interval  *)
(* timer and the network contexts.                                         *)
(***************************************************************************)
EXTENDS ExecTimer, NetworkContext, Facts

(* A leaf that names no prover is tried with these, in turn *)
USE SMT, Zenon, Z3, SMTT(10)

-----------------------------------------------------------------------------
(* The timer, for any number of timer goroutines, any intervals, either    *)
(* value of stopOnError and any way the parent context may end.            *)

(* Before Start no timer goroutine exists. *)
NewIsAlone == pc[Caller] = "new" => \A l \in Loops : pc[l] = "idle"

(* Stop hands its signal over only once, as its last step. *)
SignalIsLast == signalled => pc[Caller] \in {"stopped", "dead"}

(* A callback has run before its error is recorded: Start is over. *)
ErrorAfterNew == callbackError = "callback" => pc[Caller] # "new"

(* A panic takes every goroutine of the process with it. *)
DeadTogether == Panicked => \A t \in Threads : pc[t] = "dead"

(* The inductive invariant: who may be live, and what that excludes. *)
TimerIInv ==
  /\ TypeOK
  /\ NewIsAlone
  /\ SignalIsLast
  /\ ErrorAfterNew
  /\ DeadTogether
  /\ OneLiveLoop
  /\ StopQuiesces
  /\ StopOnErrorIsFinal
  /\ IntervalInForce

LEMMA InitIInv == Init => TimerIInv
<1> USE CallerAssumption, IntervalsAssumption, ParentEndsAssumption DEF Threads
<1> SUFFICES ASSUME Init PROVE TimerIInv
  OBVIOUS
<1> USE DEF Init
<1>1. TypeOK
  <2>1. pc[Caller] = "new" /\ \A l \in Loops : pc[l] = "idle"
    OBVIOUS
  <2>2. pc \in [Threads -> LoopPC \cup CallerPC]
    BY DEF LoopPC, CallerPC
  <2>3. arg \in [Loops -> Int]
    OBVIOUS
  <2>4. ticker \in BOOLEAN /\ signalled \in BOOLEAN
    BY Zenon
  <2>5. tickTime \in Int /\ inflight \in Int
    OBVIOUS
  <2>6. /\ ctx \in {"live", "canceled", "deadline"}
        /\ callbackError \in {"none", "callback", "context"}
    OBVIOUS
  <2>7. pc[Caller] \in CallerPC /\ \A l \in Loops : pc[l] \in LoopPC
    BY <2>1 DEF LoopPC, CallerPC
  <2> QED BY <2>2, <2>3, <2>4, <2>5, <2>6, <2>7 DEF TypeOK
<1>2. NewIsAlone /\ SignalIsLast /\ ErrorAfterNew /\ DeadTogether
  BY DEF NewIsAlone, SignalIsLast, ErrorAfterNew, DeadTogether, Panicked
<1>3. \A t \in Threads : ~Live(t) BY DEF Live
<1>4. OneLiveLoop /\ StopQuiesces /\ StopOnErrorIsFinal
  BY <1>3 DEF OneLiveLoop, StopQuiesces, StopOnErrorIsFinal
<1>5. IntervalInForce BY DEF IntervalInForce
<1> QED BY <1>1, <1>2, <1>4, <1>5 DEF TimerIInv

(* Type correctness is inductive by itself, action by action. *)
LEMMA TypeStep == TypeOK /\ [Next]_vars => TypeOK'
<1> USE CallerAssumption, IntervalsAssumption, ParentEndsAssumption DEF Threads
<1> SUFFICES ASSUME TypeOK, [Next]_vars PROVE TypeOK'
  OBVIOUS
<1> USE DEF TypeOK, LoopPC, CallerPC, Goto
<1>1. CASE \E timeout \in Intervals : Start(timeout)
  BY <1>1 DEF Start, SpawnLoop
<1>2. CASE Stop
  BY <1>2 DEF Stop
<1>3. CASE StopStep
  <2>1. CASE StopWait BY <2>1 DEF StopWait
  <2>2. CASE StopWoken BY <2>2 DEF StopWoken, Panic
  <2>3. CASE StopCheck BY <2>3 DEF StopCheck
  <2>4. CASE StopHalt BY ZenonT(60), <2>4 DEF StopHalt, Panic
  <2>5. CASE \E l \in Loops : StopSend(l) BY <2>5 DEF StopSend
  <2> QED BY <1>3, <2>1, <2>2, <2>3, <2>4, <2>5 DEF StopStep
<1>4. ASSUME NEW t \in Threads, invokeCallback(t) PROVE TypeOK'
  <2>1. CASE BeginCallback(t) BY <2>1 DEF BeginCallback
  <2>2. CASE SkipCallback(t) BY <2>2 DEF SkipCallback, Resume
  <2>3. CASE \E err \in BOOLEAN, timeout \in Intervals :
               CallbackReturns(t, err, timeout)
    <3> PICK err \in BOOLEAN, timeout \in Intervals :
               CallbackReturns(t, err, timeout)
      BY <2>3
    <3>1. CASE err /\ stopOnError
      BY <3>1 DEF CallbackReturns, setTimerTicker
    <3>2. CASE ~(err /\ stopOnError) /\ timeout \in {0, tickTime}
      BY <3>2 DEF CallbackReturns
    <3>3. CASE ~(err /\ stopOnError) /\ timeout \notin {0, tickTime}
      BY <3>3 DEF CallbackReturns, SpawnLoop
    <3> QED BY <3>1, <3>2, <3>3
  <2>4. CASE EndCallback(t) BY <2>4 DEF EndCallback, Resume, Leave
  <2> QED BY <1>4, <2>1, <2>2, <2>3, <2>4 DEF invokeCallback
<1>5. ASSUME NEW l \in Loops, startTimer(l) PROVE TypeOK'
  <2>1. CASE InstallTicker(l) BY <2>1 DEF InstallTicker, setTimerTicker
  <2>2. CASE EnterSelect(l) BY <2>2 DEF EnterSelect, Panic
  <2>3. CASE CtxDone(l) BY <2>3 DEF CtxDone
  <2>4. CASE Tick(l) BY <2>4 DEF Tick
  <2> QED BY <1>5, <2>1, <2>2, <2>3, <2>4 DEF startTimer
<1>6. CASE \E why \in ParentEnds : ParentEnd(why)
  BY <1>6 DEF ParentEnd
<1>7. CASE UNCHANGED vars
  BY <1>7 DEF vars
<1> QED BY <1>1, <1>2, <1>3, <1>4, <1>5, <1>6, <1>7, Zenon DEF Next

-----------------------------------------------------------------------------
(* The other parts of the invariant, one lemma per group of actions. *)

Parts ==
  /\ NewIsAlone
  /\ SignalIsLast
  /\ ErrorAfterNew
  /\ DeadTogether
  /\ OneLiveLoop
  /\ StopQuiesces
  /\ StopOnErrorIsFinal
  /\ IntervalInForce

LEMMA PanicStep == TimerIInv /\ Panic => Parts'
<1> USE CallerAssumption, IntervalsAssumption, ParentEndsAssumption DEF Threads
<1> QED BY DEF TimerIInv, Panic, Parts, TypeOK, NewIsAlone, SignalIsLast, ErrorAfterNew, DeadTogether,
            OneLiveLoop, StopQuiesces, StopOnErrorIsFinal, IntervalInForce, Live,
            Panicked

LEMMA StartStep ==
  ASSUME TimerIInv, NEW timeout \in Intervals, Start(timeout)
  PROVE  Parts'
<1> USE CallerAssumption, IntervalsAssumption, ParentEndsAssumption DEF Threads
<1>1. /\ pc[Caller] = "new" /\ \A l \in Loops : pc[l] = "idle"
      /\ ~signalled /\ callbackError # "callback"
  BY DEF Start, TimerIInv, NewIsAlone, SignalIsLast, ErrorAfterNew
<1>2. \E t \in Threads : \A u \in Threads \ {t} : ~Live(u)'
  BY <1>1 DEF Start, Goto, SpawnLoop, Live, TimerIInv, TypeOK
<1>3. /\ ~signalled' /\ callbackError' # "callback"
      /\ pc'[Caller] \notin {"new", "dead"}
  BY <1>1 DEF Start, Goto, SpawnLoop, TimerIInv, TypeOK
<1>4. IntervalInForce'
  BY <1>1 DEF Start, Goto, SpawnLoop, TimerIInv, TypeOK, IntervalInForce
<1> QED
  BY <1>2, <1>3, <1>4 DEF Parts, NewIsAlone, SignalIsLast, ErrorAfterNew, DeadTogether,
      
     OneLiveLoop, StopQuiesces, StopOnErrorIsFinal, Panicked

LEMMA StopSteps == TimerIInv /\ (Stop \/ StopStep) => Parts'
<1> USE CallerAssumption, IntervalsAssumption, ParentEndsAssumption DEF Threads
<1> SUFFICES ASSUME TimerIInv, Stop \/ StopStep PROVE Parts'
  OBVIOUS
<1> USE DEF TimerIInv, Parts, TypeOK, NewIsAlone, SignalIsLast, ErrorAfterNew, DeadTogether,
      
       OneLiveLoop, StopQuiesces, StopOnErrorIsFinal, IntervalInForce, Live,
       Panicked,
       Goto
<1>1. CASE Stop BY <1>1 DEF Stop
<1>2. CASE StopWait BY <1>2 DEF StopWait
<1>3. CASE StopWoken BY <1>3, PanicStep DEF StopWoken
<1>4. CASE StopCheck BY <1>4 DEF StopCheck
<1>5. CASE StopHalt BY <1>5, PanicStep DEF StopHalt
<1>6. CASE \E l \in Loops : StopSend(l) BY <1>6 DEF StopSend
<1> QED BY <1>1, <1>2, <1>3, <1>4, <1>5, <1>6, Zenon DEF StopStep

LEMMA CallbackSteps ==
  ASSUME TimerIInv, NEW t \in Threads, invokeCallback(t)
  PROVE  Parts'
<1> USE CallerAssumption, IntervalsAssumption, ParentEndsAssumption DEF Threads
<1> USE DEF TimerIInv, Parts, TypeOK, NewIsAlone, SignalIsLast, ErrorAfterNew, DeadTogether,
      
       OneLiveLoop, StopQuiesces, StopOnErrorIsFinal, IntervalInForce, Live,
       Panicked,
       Goto
<1>1. CASE BeginCallback(t) BY <1>1 DEF BeginCallback
<1>2. CASE SkipCallback(t) BY <1>2 DEF SkipCallback, Resume
<1>3. CASE EndCallback(t) BY <1>3 DEF EndCallback, Resume, Leave
<1>4. ASSUME NEW err \in BOOLEAN, NEW timeout \in Intervals,
             CallbackReturns(t, err, timeout)
      PROVE  Parts'
  <2>1. CASE err /\ stopOnError
    BY <1>4, <2>1 DEF CallbackReturns, setTimerTicker
  <2>2. CASE ~(err /\ stopOnError) /\ timeout \in {0, tickTime}
    BY <1>4, <2>2 DEF CallbackReturns
  <2>3. CASE ~(err /\ stopOnError) /\ timeout \notin {0, tickTime}
    BY <1>4, <2>3 DEF CallbackReturns, SpawnLoop
  <2> QED BY <2>1, <2>2, <2>3, Zenon
<1> QED BY <1>1, <1>2, <1>3, <1>4, Zenon DEF invokeCallback

LEMMA LoopSteps ==
  ASSUME TimerIInv, NEW l \in Loops, startTimer(l)
  PROVE  Parts'
<1> USE CallerAssumption, IntervalsAssumption, ParentEndsAssumption DEF Threads
<1> USE DEF TimerIInv, Parts, TypeOK, NewIsAlone, SignalIsLast, ErrorAfterNew, DeadTogether,
      
       OneLiveLoop, StopQuiesces, StopOnErrorIsFinal, IntervalInForce, Live,
       Panicked,
       Goto
<1>1. CASE InstallTicker(l) BY ZenonT(60), <1>1 DEF InstallTicker, setTimerTicker
<1>2. CASE EnterSelect(l) BY <1>2, PanicStep DEF EnterSelect
<1>3. CASE CtxDone(l) BY <1>3 DEF CtxDone
<1>4. CASE Tick(l) BY <1>4 DEF Tick
<1> QED BY <1>1, <1>2, <1>3, <1>4, Zenon DEF startTimer

LEMMA IInvStep == TimerIInv /\ [Next]_vars => TimerIInv'
<1> USE CallerAssumption, IntervalsAssumption, ParentEndsAssumption DEF Threads
<1> SUFFICES ASSUME TimerIInv, [Next]_vars PROVE TimerIInv'
  OBVIOUS
<1>1. TypeOK'
  BY TypeStep DEF TimerIInv
<1>2. Parts'
  <2>1. CASE \E why \in ParentEnds : ParentEnd(why)
    BY <2>1 DEF ParentEnd, TimerIInv, Parts, NewIsAlone, SignalIsLast,
       ErrorAfterNew, DeadTogether,
       OneLiveLoop, StopQuiesces, StopOnErrorIsFinal,
       IntervalInForce, Live,
       Panicked
  <2>2. CASE UNCHANGED vars
    BY <2>2 DEF vars, TimerIInv, Parts, NewIsAlone, SignalIsLast,
       ErrorAfterNew, DeadTogether,
       OneLiveLoop, StopQuiesces, StopOnErrorIsFinal,
       IntervalInForce, Live,
       Panicked
  <2> QED BY <2>1, <2>2, StartStep, StopSteps, CallbackSteps, LoopSteps
          DEF Next
<1> QED BY <1>1, <1>2 DEF TimerIInv, Parts

(***************************************************************************)
(* timer.go is type correct, never has two live timer goroutines, leaves   *)
(* none behind a Stop that handed its signal over or behind an error under *)
(* stopOnError, and ticks at the interval its callback last asked for.     *)
(***************************************************************************)
THEOREM TimerInvariant == Spec => []TimerIInv
BY InitIInv, IInvStep, PTL DEF Spec

(* Every variable of the timer keeps its type. *)
THEOREM TimerTypeOK == Spec => []TypeOK
BY TimerInvariant, PTL DEF TimerIInv

(* The hand-over between timer goroutines never leaves two of them live. *)
THEOREM TimerOneLiveLoop == Spec => []OneLiveLoop
BY TimerInvariant, PTL DEF TimerIInv

(* A Stop that handed its signal over leaves nothing that runs callbacks. *)
THEOREM TimerStopQuiesces == Spec => []StopQuiesces
BY TimerInvariant, PTL DEF TimerIInv

(* With stopOnError a failed callback is the last one. *)
THEOREM TimerStopOnErrorIsFinal == Spec => []StopOnErrorIsFinal
BY TimerInvariant, PTL DEF TimerIInv

(* The live loop's ticker has the interval the loop was started with. *)
THEOREM TimerIntervalInForce == Spec => []IntervalInForce
BY TimerInvariant, PTL DEF TimerIInv

-----------------------------------------------------------------------------
(* The WaitGroup counts exactly the invocations that are in flight. *)

LEMMA InFlightFinite ==
  ASSUME FiniteFacts
  PROVE  IsFiniteSet(InFlight)
<1> USE CallerAssumption, IntervalsAssumption, ParentEndsAssumption DEF Threads
<1>1. IsFiniteSet(Threads)
  BY LoopsAssumption, CountAdd
<1>2. InFlight \subseteq Threads
  BY DEF InFlight
<1> QED BY <1>1, <1>2, CountSubset

LEMMA InflightInit ==
  ASSUME FiniteFacts, Init
  PROVE  InflightExact
<1> USE CallerAssumption, IntervalsAssumption, ParentEndsAssumption DEF Threads
<1>1. InFlight = {}
  BY DEF Init, InFlight
<1>2. Cardinality(InFlight) = 0
  BY <1>1, InFlightFinite, CountZero
<1> QED BY <1>2 DEF Init, InflightExact

LEMMA InflightStep ==
  ASSUME FiniteFacts, TimerIInv, InflightExact, [Next]_vars
  PROVE  InflightExact'
<1> USE CallerAssumption, IntervalsAssumption, ParentEndsAssumption DEF Threads
<1> USE DEF TimerIInv, TypeOK
<1>0. Panicked => \A t \in Threads : pc[t] = "dead"
  BY DEF DeadTogether
<1>1. ASSUME NEW t \in Threads, BeginCallback(t) PROVE InflightExact'
  <2>1. t \notin InFlight /\ InFlight' = InFlight \cup {t} /\ ~Panicked
    BY <1>0, <1>1 DEF BeginCallback, Goto, InFlight
  <2>2. Cardinality(InFlight') = Cardinality(InFlight) + 1
    BY <2>1, InFlightFinite, CountAdd
  <2>3. inflight' = inflight + 1
    BY <1>1 DEF BeginCallback
  <2> QED BY <2>1, <2>2, <2>3 DEF InflightExact
<1>2. ASSUME NEW t \in Threads, EndCallback(t) PROVE InflightExact'
  <2>1. t \in InFlight /\ InFlight' = InFlight \ {t} /\ ~Panicked
    BY <1>0, <1>2 DEF EndCallback, Resume, Leave, InFlight
  <2>2. Cardinality(InFlight') = Cardinality(InFlight) - 1
    BY <2>1, InFlightFinite, CountRemove
  <2>3. inflight' = inflight - 1
    BY <1>2 DEF EndCallback
  <2> QED BY <2>1, <2>2, <2>3 DEF InflightExact
<1>3. CASE Panic
  BY <1>3 DEF Panic, InflightExact, Panicked
<1>4. ASSUME InFlight' = InFlight, inflight' = inflight,
             Panicked' = Panicked
      PROVE  InflightExact'
  BY <1>4 DEF InflightExact
<1>5. ASSUME NEW t \in Threads, NEW err \in BOOLEAN,
             NEW timeout \in Intervals, CallbackReturns(t, err, timeout)
      PROVE  InflightExact'
  <2> USE <1>0, <1>5 DEF CallbackReturns, InFlight, Panicked
  <2>1. inflight' = inflight
    OBVIOUS
  <2>2. CASE Goto(t, "exit") \/ Goto(t, "resume")
    BY <1>4, <2>1, <2>2 DEF Goto
  <2>3. CASE SpawnLoop(t, "exit", timeout)
    BY <1>4, <2>1, <2>3 DEF SpawnLoop
  <2> QED BY <2>2, <2>3
<1>6. ASSUME NEW timeout \in Intervals, Start(timeout)
      PROVE  InflightExact'
  BY <1>4, <1>6 DEF Start, Goto, SpawnLoop, InFlight, Panicked
<1>7. CASE Stop \/ StopWait \/ StopCheck
  BY <1>4, <1>7 DEF Stop, StopWait, StopCheck, Goto, InFlight, Panicked
<1>8. CASE StopWoken
  BY <1>3, <1>4, <1>8 DEF StopWoken, Goto, InFlight, Panicked
<1>9. CASE StopHalt
  BY <1>3, <1>4, <1>9 DEF StopHalt, Goto, InFlight, Panicked
<1>10. ASSUME NEW l \in Loops, StopSend(l) PROVE InflightExact'
  BY <1>4, <1>10 DEF StopSend, InFlight, Panicked
<1>11. ASSUME NEW t \in Threads, SkipCallback(t) PROVE InflightExact'
  BY <1>0, <1>4, <1>11 DEF SkipCallback, Goto, Resume, InFlight, Panicked
<1>12. ASSUME NEW l \in Loops, startTimer(l) PROVE InflightExact'
  <2> USE DEF Goto, InFlight, Panicked
  <2>1. CASE InstallTicker(l) BY <1>4, <2>1 DEF InstallTicker
  <2>2. CASE EnterSelect(l) BY <1>3, <1>4, <2>2 DEF EnterSelect
  <2>3. CASE CtxDone(l) BY <1>4, <2>3 DEF CtxDone
  <2>4. CASE Tick(l) BY <1>4, <2>4 DEF Tick
  <2> QED BY <1>12, <2>1, <2>2, <2>3, <2>4 DEF startTimer
<1>13. CASE \E why \in ParentEnds : ParentEnd(why)
  BY <1>4, <1>13 DEF ParentEnd, InFlight, Panicked
<1>14. CASE UNCHANGED vars
  BY <1>4, <1>14 DEF vars, InFlight, Panicked
<1> QED
  BY <1>1, <1>2, <1>5, <1>6, <1>7, <1>8, <1>9, <1>10, <1>11, <1>12, <1>13,
     <1>14 DEF Next, StopStep, invokeCallback

-----------------------------------------------------------------------------
(* The network context.  As long as no call of the kernel has failed,      *)
(* whatever a context has changed is there for its Clear to find.          *)

NetworkTypeOK ==
  /\ rm \in [Clients -> {None, "manager", "filter"}]
  /\ dm \in [Clients -> BOOLEAN]
  /\ routedItfs \in [Clients -> Seq(Links)]
  /\ routedIPs \in [Clients -> SUBSET IPs]
  /\ cleared \in [Clients -> BOOLEAN]
  /\ faults \in Nat

(* What c has changed it knows of, and c is not taken for cleared *)
LinksKept == \A l \in up : \E c \in Clients : l \in Itfs(c) /\ rm[c] # None /\ ~cleared[c]

RoutesKept ==
  /\ Foreign \subseteq routes
  /\ \A ip \in routes : ip \in Foreign \/ \E c \in Clients : ip \in routedIPs[c]
  /\ \A c \in Clients : \A ip \in routedIPs[c] : ip \notin Foreign /\ rm[c] # None /\ ~cleared[c]

DefaultKept == default # LAN => \E c \in Clients : rm[c] # None /\ ~cleared[c]

TablesKept == tables => replaced \/ \E c \in Clients : rm[c] = "filter" /\ ~cleared[c]

SettingsKept == \A l \in dns : \E c \in Clients : l \in Itfs(c) /\ dm[c] /\ ~cleared[c]

Managed == \A c \in Clients : Itfs(c) # {} => rm[c] # None

Restorable ==
  LinksKept /\ RoutesKept /\ DefaultKept /\ TablesKept /\ SettingsKept /\ Managed

NetworkIInv == NetworkTypeOK /\ (faults = 0 => Restorable)

(* The calls a Clear may make of the kernel and of systemd-resolved, and   *)
(* those that set a link; there are finitely many                          *)
Calls ==
  {"RevertLink", "DelTable", "LinkSetDown", "RouteDel", "RouteReplace"}
  \X (Links \cup IPs \cup {LAN, "filter"})

SetCalls == {"SetLinkDNS", "SetLinkDefaultRoute", "SetLinkDomains"}

CallsCounted ==
  \A S : S \subseteq Calls \/ S \subseteq SetCalls =>
    Cardinality(S) \in Nat /\ (Cardinality(S) = 0 => S = {})

(* Which links a context has made routable *)
LEMMA ItfsAreLinks ==
  ASSUME NetworkTypeOK, NEW c \in Clients
  PROVE  Itfs(c) \subseteq Links
BY SeqLen, SeqElement DEF NetworkTypeOK, Itfs

LEMMA HeadIsItf ==
  ASSUME NetworkTypeOK, NEW c \in Clients, routedItfs[c] # <<>>
  PROVE  Head(routedItfs[c]) \in Itfs(c)
<1>1. routedItfs[c] \in Seq(Links)
  BY DEF NetworkTypeOK
<1>2. Len(routedItfs[c]) \in Nat /\ Len(routedItfs[c]) # 0 /\ DOMAIN routedItfs[c] = 1 .. Len(routedItfs[c])
  BY <1>1, SeqLen, SeqEmpty
<1>3. Head(routedItfs[c]) = routedItfs[c][1]
  BY <1>1
<1> QED BY <1>2, <1>3 DEF Itfs

LEMMA ItfsSame ==
  ASSUME UNCHANGED routedItfs
  PROVE  \A c \in Clients : Itfs(c)' = Itfs(c)
BY DEF Itfs

(* Which calls a Clear makes *)
LEMMA CallsMade ==
  ASSUME NetworkTypeOK, NEW c \in Clients
  PROVE  /\ DNSCalls(c) \subseteq Calls /\ RouteCalls(c) \subseteq Calls
         /\ \A l : <<"RevertLink", l>> \in DNSCalls(c) <=> dm[c] /\ l \in Itfs(c)
         /\ \A l : <<"RevertLink", l>> \notin RouteCalls(c)
         /\ \A l : <<"LinkSetDown", l>> \in RouteCalls(c) <=> rm[c] # None /\ l \in Itfs(c)
         /\ \A ip : <<"RouteDel", ip>> \in RouteCalls(c) <=> rm[c] # None /\ ip \in routedIPs[c]
         /\ <<"DelTable", "filter">> \in RouteCalls(c) <=> rm[c] = "filter"
         /\ <<"RouteReplace", LAN>> \in RouteCalls(c) <=> rm[c] # None /\ known
         /\ \A y : \A x \in {"LinkSetDown", "RouteDel", "DelTable", "RouteReplace"} :
              <<x, y>> \notin DNSCalls(c)
<1>1. Itfs(c) \subseteq Links /\ routedIPs[c] \subseteq IPs
  BY ItfsAreLinks DEF NetworkTypeOK
<1>2. DNSCalls(c) \subseteq Calls
  BY <1>1 DEF DNSCalls, Calls
<1>3. RouteCalls(c) \subseteq Calls
  BY <1>1 DEF RouteCalls, Calls
<1>4. \A l : <<"RevertLink", l>> \in DNSCalls(c) <=> dm[c] /\ l \in Itfs(c)
  BY DEF DNSCalls
<1>5. \A y : \A x \in {"LinkSetDown", "RouteDel", "DelTable", "RouteReplace"} :
        <<x, y>> \notin DNSCalls(c)
  BY DEF DNSCalls
<1>6. \A l : <<"RevertLink", l>> \notin RouteCalls(c)
  BY DEF RouteCalls
<1>7. \A l : <<"LinkSetDown", l>> \in RouteCalls(c) <=> rm[c] # None /\ l \in Itfs(c)
  BY DEF RouteCalls
<1>8. \A ip : <<"RouteDel", ip>> \in RouteCalls(c) <=> rm[c] # None /\ ip \in routedIPs[c]
  BY DEF RouteCalls
<1>9. <<"DelTable", "filter">> \in RouteCalls(c) <=> rm[c] = "filter"
  BY Zenon DEF RouteCalls, None
<1>10. <<"RouteReplace", LAN>> \in RouteCalls(c) <=> rm[c] # None /\ known
  BY DEF RouteCalls
<1> QED BY <1>2, <1>3, <1>4, <1>5, <1>6, <1>7, <1>8, <1>9, <1>10

(* A step that changes nothing but the initialisation *)
NetworkIdle ==
  UNCHANGED <<rm, dm, routedItfs, routedIPs, cleared, up, routes, default, tables, dns, faults,
              replaced>>

LEMMA IdleKeeps ==
  ASSUME NetworkIInv, NetworkIdle
  PROVE  NetworkIInv'
<1>1. NetworkTypeOK'
  BY DEF NetworkIdle, NetworkIInv, NetworkTypeOK
<1>2. \A c \in Clients : Itfs(c)' = Itfs(c)
  BY DEF NetworkIdle, Itfs
<1>3. Restorable => Restorable'
  <2>1. LinksKept => LinksKept'
    BY <1>2 DEF NetworkIdle, LinksKept
  <2>2. RoutesKept => RoutesKept'
    BY DEF NetworkIdle, RoutesKept
  <2>3. (DefaultKept => DefaultKept') /\ (TablesKept => TablesKept')
    BY DEF NetworkIdle, DefaultKept, TablesKept
  <2>4. (SettingsKept => SettingsKept') /\ (Managed => Managed')
    BY <1>2 DEF NetworkIdle, SettingsKept, Managed
  <2> QED BY <2>1, <2>2, <2>3, <2>4 DEF Restorable
<1> QED BY <1>1, <1>3 DEF NetworkIInv, NetworkIdle

(* What a step must leave for the changes made so far to stay known *)
NothingForgotten ==
  /\ \A c \in Clients : /\ ~cleared[c] => ~cleared'[c]
                        /\ rm[c] # None => rm'[c] # None
                        /\ dm[c] => dm'[c]
                        /\ Itfs(c) \subseteq Itfs(c)'
                        /\ routedIPs[c] \subseteq routedIPs'[c]
  /\ replaced => replaced'

LEMMA StillKept ==
  ASSUME NothingForgotten
  PROVE  /\ LinksKept /\ up' = up => LinksKept'
         /\ RoutesKept /\ UNCHANGED <<routes, routedIPs>> => RoutesKept'
         /\ DefaultKept /\ default' = default => DefaultKept'
         /\ SettingsKept /\ dns' = dns => SettingsKept'
<1>1. LinksKept /\ up' = up => LinksKept'
  BY DEF NothingForgotten, LinksKept
<1>2. RoutesKept /\ UNCHANGED <<routes, routedIPs>> => RoutesKept'
  BY DEF NothingForgotten, RoutesKept
<1>3. DefaultKept /\ default' = default => DefaultKept'
  BY DEF NothingForgotten, DefaultKept
<1>4. SettingsKept /\ dns' = dns => SettingsKept'
  BY DEF NothingForgotten, SettingsKept
<1> QED BY <1>1, <1>2, <1>3, <1>4

(* A context gets a manager *)
LEMMA ManagerMade ==
  ASSUME NetworkIInv, NEW c \in Clients, NewDNSManager(c) \/ NewRouteManager(c)
  PROVE  NetworkIInv'
<1>1. /\ \/ rm' = rm /\ dm' = [dm EXCEPT ![c] = TRUE] /\ replaced' = replaced
         \/ rm' = [rm EXCEPT ![c] = "manager"] /\ dm' = dm /\ replaced' = (replaced \/ rm[c] = "filter")
      /\ UNCHANGED <<routedItfs, routedIPs, cleared, up, routes, default, tables, dns, faults>>
  BY DEF NewDNSManager, NewRouteManager, contextVars, kernelVars
<1>2. NetworkTypeOK'
  BY <1>1, Zenon DEF NetworkIInv, NetworkTypeOK
<1>3. \A d \in Clients : Itfs(d)' = Itfs(d)
  BY <1>1, ItfsSame, Zenon
<1>4. \A d \in Clients : (rm[d] # None => rm'[d] # None) /\ (dm[d] => dm'[d])
  BY <1>1, Zenon DEF NetworkIInv, NetworkTypeOK, None
<1>5. (replaced => replaced') /\ (rm[c] = "filter" /\ rm'[c] # "filter" => replaced')
  <2>1. CASE rm' = rm /\ replaced' = replaced
    BY <2>1
  <2>2. CASE replaced' = (replaced \/ rm[c] = "filter")
    BY <2>2, Zenon
  <2> QED BY <1>1, <2>1, <2>2
<1>6. NothingForgotten
  BY <1>1, <1>3, <1>4, <1>5 DEF NothingForgotten
<1>7. TablesKept => TablesKept'
  <2>1. \A d \in Clients \ {c} : rm'[d] = rm[d]
    BY <1>1 DEF NetworkIInv, NetworkTypeOK
  <2> QED BY <1>1, <1>5, <2>1 DEF TablesKept
<1>8. Managed => Managed'
  BY <1>3, <1>4 DEF Managed
<1> QED BY <1>1, <1>2, <1>6, <1>7, <1>8, StillKept DEF NetworkIInv, Restorable

(* What a step that changes something for c does to cleared *)
LEMMA Uncleared ==
  ASSUME NetworkTypeOK, NEW c \in Clients, cleared' = [cleared EXCEPT ![c] = FALSE]
  PROVE  /\ cleared' \in [Clients -> BOOLEAN]
         /\ ~cleared'[c]
         /\ \A d \in Clients : ~cleared[d] => ~cleared'[d]
BY DEF NetworkTypeOK

LEMMA FilterMade ==
  ASSUME NetworkIInv, NEW c \in Clients, NEW fails \in BOOLEAN, NewFilterRouter(c, fails)
  PROVE  NetworkIInv'
<1>1. /\ rm[c] # None
      /\ rm' = IF fails THEN rm ELSE [rm EXCEPT ![c] = "filter"]
      /\ faults' = IF fails THEN faults + 1 ELSE faults
      /\ cleared' = [cleared EXCEPT ![c] = FALSE]
      /\ UNCHANGED <<dm, routedItfs, routedIPs, up, routes, default, dns, replaced>>
  BY DEF NewFilterRouter
<1>2. NetworkTypeOK
  BY DEF NetworkIInv
<1>3. NetworkTypeOK'
  <2>1. rm' \in [Clients -> {None, "manager", "filter"}] /\ faults' \in Nat
    BY <1>1, <1>2 DEF NetworkTypeOK
  <2> QED BY <1>1, <1>2, <2>1, Uncleared DEF NetworkTypeOK
<1>4. SUFFICES ASSUME faults' = 0 PROVE Restorable'
  BY <1>3 DEF NetworkIInv
<1>5. ~fails /\ faults = 0 /\ Restorable
  BY <1>1, <1>2, <1>4 DEF NetworkIInv, NetworkTypeOK
<1>6. \A d \in Clients : Itfs(d)' = Itfs(d)
  BY <1>1, ItfsSame, Zenon
<1>7. rm'[c] = "filter" /\ \A d \in Clients : rm[d] # None => rm'[d] # None
  BY <1>1, <1>2, <1>5 DEF NetworkTypeOK, None
<1>8. NothingForgotten
  BY <1>1, <1>2, <1>6, <1>7, Uncleared DEF NothingForgotten
<1>9. TablesKept'
  BY <1>1, <1>2, <1>7, Uncleared, Zenon DEF TablesKept
<1>10. Managed'
  BY <1>5, <1>6, <1>7 DEF Managed, Restorable
<1> QED BY <1>1, <1>5, <1>8, <1>9, <1>10, StillKept DEF Restorable

LEMMA LinkMade ==
  ASSUME NetworkIInv, NEW c \in Clients, NEW l \in Links, NEW fails \in BOOLEAN,
         NewRoutableInterface(c, l, fails)
  PROVE  NetworkIInv'
<1>1. /\ rm[c] # None
      /\ up' = IF fails THEN up ELSE up \cup {l}
      /\ routedItfs' = IF fails THEN routedItfs
                       ELSE [routedItfs EXCEPT ![c] = Append(routedItfs[c], l)]
      /\ faults' = IF fails THEN faults + 1 ELSE faults
      /\ cleared' = [cleared EXCEPT ![c] = FALSE]
      /\ UNCHANGED <<rm, dm, routedIPs, routes, default, tables, dns, replaced>>
  BY DEF NewRoutableInterface
<1>2. NetworkTypeOK
  BY DEF NetworkIInv
<1>3. /\ routedItfs[c] \in Seq(Links) /\ Append(routedItfs[c], l) \in Seq(Links)
      /\ Len(routedItfs[c]) \in Nat
      /\ DOMAIN routedItfs[c] = 1 .. Len(routedItfs[c])
      /\ DOMAIN Append(routedItfs[c], l) = 1 .. Len(routedItfs[c]) + 1
      /\ Append(routedItfs[c], l)[Len(routedItfs[c]) + 1] = l
      /\ \A i \in 1 .. Len(routedItfs[c]) : Append(routedItfs[c], l)[i] = routedItfs[c][i]
  BY <1>2, SeqAppend, SeqLen DEF NetworkTypeOK
<1>4. NetworkTypeOK'
  <2>1. routedItfs' \in [Clients -> Seq(Links)] /\ faults' \in Nat
    BY <1>1, <1>2, <1>3 DEF NetworkTypeOK
  <2> QED BY <1>1, <1>2, <2>1, Uncleared DEF NetworkTypeOK
<1>5. SUFFICES ASSUME faults' = 0 PROVE Restorable'
  BY <1>4 DEF NetworkIInv
<1>6. ~fails /\ faults = 0 /\ Restorable
  BY <1>1, <1>2, <1>5 DEF NetworkIInv, NetworkTypeOK
<1>7. /\ \A d \in Clients \ {c} : Itfs(d)' = Itfs(d)
      /\ Itfs(c) \subseteq Itfs(c)' /\ l \in Itfs(c)'
  <2>1. \A d \in Clients \ {c} : routedItfs'[d] = routedItfs[d]
    BY <1>1, <1>2, <1>6 DEF NetworkTypeOK
  <2>2. routedItfs'[c] = Append(routedItfs[c], l)
    BY <1>1, <1>2, <1>6 DEF NetworkTypeOK
  <2>3. \A d \in Clients \ {c} : Itfs(d)' = Itfs(d)
    BY <2>1 DEF Itfs
  <2>4. \A i \in 1 .. Len(routedItfs[c]) : i \in 1 .. Len(routedItfs[c]) + 1
    BY <1>3
  <2>5. Itfs(c) \subseteq Itfs(c)'
    BY <1>3, <2>2, <2>4 DEF Itfs
  <2>6. Len(routedItfs[c]) + 1 \in 1 .. Len(routedItfs[c]) + 1
    BY <1>3
  <2>7. l \in Itfs(c)'
    BY <1>3, <2>2, <2>6 DEF Itfs
  <2> QED BY <2>3, <2>5, <2>7
<1>8. NothingForgotten
  BY <1>1, <1>2, <1>7, Uncleared DEF NothingForgotten
<1>9. LinksKept'
  <2>1. up' = up \cup {l} /\ rm'[c] # None /\ ~cleared'[c]
    BY <1>1, <1>2, <1>6, Uncleared, Zenon
  <2>2. \A k \in up : \E d \in Clients : k \in Itfs(d)' /\ rm'[d] # None /\ ~cleared'[d]
    BY <1>6, <1>8, Zenon DEF Restorable, LinksKept, NothingForgotten
  <2> QED BY <1>7, <2>1, <2>2 DEF LinksKept
<1>10. TablesKept'
  BY <1>1, <1>6, <1>8 DEF TablesKept, Restorable, NothingForgotten
<1>11. Managed'
  BY <1>1, <1>6, <1>7 DEF Managed, Restorable
<1> QED BY <1>1, <1>6, <1>8, <1>9, <1>10, <1>11, StillKept DEF Restorable

LEMMA RoutesAdded ==
  ASSUME NetworkIInv, NEW c \in Clients, NEW ips \in SUBSET IPs, AddExternalRouteToIPs(c, ips)
  PROVE  NetworkIInv'
<1>1. CASE ~known
  <2>1. NetworkIdle
    BY <1>1 DEF AddExternalRouteToIPs, NetworkIdle
  <2> QED BY <2>1, IdleKeeps
<1>2. CASE known
  <2>1. /\ rm[c] # None
        /\ routes' = routes \cup ips
        /\ routedIPs' = [routedIPs EXCEPT ![c] = routedIPs[c] \cup (ips \ routes)]
        /\ cleared' = [cleared EXCEPT ![c] = FALSE]
        /\ UNCHANGED <<rm, dm, routedItfs, up, default, tables, dns, faults, replaced>>
    BY <1>2 DEF AddExternalRouteToIPs
  <2>2. NetworkTypeOK
    BY DEF NetworkIInv
  <2>3. /\ routedIPs'[c] = routedIPs[c] \cup (ips \ routes)
        /\ \A d \in Clients \ {c} : routedIPs'[d] = routedIPs[d]
    BY <2>1, <2>2 DEF NetworkTypeOK
  <2>4. NetworkTypeOK'
    <3>1. routedIPs' \in [Clients -> SUBSET IPs]
      BY <2>1, <2>2 DEF NetworkTypeOK
    <3> QED BY <2>1, <2>2, <3>1, Uncleared DEF NetworkTypeOK
  <2>5. SUFFICES ASSUME Restorable PROVE Restorable'
    BY <2>1, <2>4 DEF NetworkIInv
  <2>6. \A d \in Clients : Itfs(d)' = Itfs(d)
    BY <2>1 DEF Itfs
  <2>7. NothingForgotten
    BY <2>1, <2>2, <2>3, <2>6, Uncleared DEF NothingForgotten
  <2>8. RoutesKept'
    <3>1. Foreign \subseteq routes'
      BY <2>1, <2>5 DEF Restorable, RoutesKept
    <3>2. \A ip \in routes' : ip \in Foreign \/ \E d \in Clients : ip \in routedIPs'[d]
      <4>1. \A ip \in ips \ routes : ip \in routedIPs'[c]
        BY <2>3
      <4>2. \A ip \in routes : ip \in Foreign \/ \E d \in Clients : ip \in routedIPs'[d]
        BY <2>5, <2>7 DEF Restorable, RoutesKept, NothingForgotten
      <4> QED BY <2>1, <4>1, <4>2
    <3>3. \A d \in Clients : \A ip \in routedIPs'[d] : ip \notin Foreign
      BY <2>3, <2>5 DEF Restorable, RoutesKept
    <3>4. \A d \in Clients : routedIPs'[d] # {} => rm'[d] # None /\ ~cleared'[d]
      <4>1. rm'[c] # None /\ ~cleared'[c]
        BY <2>1, <2>2, Uncleared, Zenon
      <4>2. \A d \in Clients \ {c} : routedIPs[d] # {} => rm'[d] # None /\ ~cleared'[d]
        BY <2>5, <2>7 DEF Restorable, RoutesKept, NothingForgotten
      <4> QED BY <2>3, <4>1, <4>2
    <3> QED BY <3>1, <3>2, <3>3, <3>4 DEF RoutesKept
  <2>9. TablesKept'
    BY <2>1, <2>5, <2>7 DEF TablesKept, Restorable, NothingForgotten
  <2>10. Managed'
    BY <2>1, <2>5, <2>6 DEF Managed, Restorable
  <2> QED BY <2>1, <2>5, <2>7, <2>8, <2>9, <2>10, StillKept DEF Restorable
<1> QED BY <1>1, <1>2

LEMMA DefaultMade ==
  ASSUME NetworkIInv, NEW c \in Clients, NEW l \in Links \cup {LAN}, MakeDefaultRoute(c, l)
  PROVE  NetworkIInv'
<1>1. /\ rm[c] # None
      /\ cleared' = [cleared EXCEPT ![c] = FALSE]
      /\ UNCHANGED <<rm, dm, routedItfs, routedIPs, up, routes, tables, dns, faults, replaced>>
  BY DEF MakeDefaultRoute
<1>2. NetworkTypeOK
  BY DEF NetworkIInv
<1>3. NetworkTypeOK'
  BY <1>1, <1>2, Uncleared DEF NetworkTypeOK
<1>4. \A d \in Clients : Itfs(d)' = Itfs(d)
  BY <1>1, ItfsSame, Zenon
<1>5. NothingForgotten
  BY <1>1, <1>2, <1>4, Uncleared DEF NothingForgotten
<1>6. DefaultKept'
  BY <1>1, <1>2, Uncleared, Zenon DEF DefaultKept
<1>7. (TablesKept => TablesKept') /\ (Managed => Managed')
  BY <1>1, <1>4, <1>5 DEF TablesKept, Managed, NothingForgotten
<1> QED BY <1>1, <1>3, <1>5, <1>6, <1>7, StillKept DEF NetworkIInv, Restorable

LEMMA LinkSet ==
  ASSUME NetworkIInv, CallsCounted, NEW c \in Clients, NEW calls \in SUBSET SetCalls, NEW failed,
         SetLink(c, calls, failed)
  PROVE  NetworkIInv'
<1>1. /\ dm[c] /\ routedItfs[c] # <<>>
      /\ failed \subseteq calls
      /\ faults' = faults + Cardinality(failed)
      /\ dns' = dns \/ dns' = dns \cup {Head(routedItfs[c])}
      /\ cleared' = [cleared EXCEPT ![c] = FALSE]
      /\ UNCHANGED <<rm, dm, routedItfs, routedIPs, up, routes, default, tables, replaced>>
  BY DEF SetLink
<1>2. NetworkTypeOK
  BY DEF NetworkIInv
<1>3. Cardinality(failed) \in Nat
  BY <1>1 DEF CallsCounted
<1>4. NetworkTypeOK'
  <2>1. faults' \in Nat
    BY <1>1, <1>2, <1>3 DEF NetworkTypeOK
  <2> QED BY <1>1, <1>2, <2>1, Uncleared DEF NetworkTypeOK
<1>5. SUFFICES ASSUME faults' = 0 PROVE Restorable'
  BY <1>4 DEF NetworkIInv
<1>6. Restorable
  BY <1>1, <1>2, <1>3, <1>5 DEF NetworkIInv, NetworkTypeOK
<1>7. \A d \in Clients : Itfs(d)' = Itfs(d)
  BY <1>1, ItfsSame, Zenon
<1>8. NothingForgotten
  BY <1>1, <1>2, <1>7, Uncleared DEF NothingForgotten
<1>9. Head(routedItfs[c]) \in Itfs(c)
  BY <1>1, <1>2, HeadIsItf
<1>10. SettingsKept'
  <2>1. \A l \in dns : \E d \in Clients : l \in Itfs(d)' /\ dm'[d] /\ ~cleared'[d]
    BY <1>6, <1>8 DEF Restorable, SettingsKept, NothingForgotten
  <2>2. Head(routedItfs[c]) \in Itfs(c)' /\ dm'[c] /\ ~cleared'[c]
    BY <1>1, <1>2, <1>7, <1>9, Uncleared, Zenon
  <2> QED BY <1>1, <2>1, <2>2, Zenon DEF SettingsKept
<1>11. TablesKept' /\ Managed'
  BY <1>1, <1>6, <1>7, <1>8 DEF TablesKept, Managed, Restorable, NothingForgotten
<1> QED BY <1>1, <1>6, <1>8, <1>10, <1>11, StillKept DEF Restorable

(* Calls that all succeed *)
LEMMA AllUndone ==
  ASSUME CallsCounted, NetworkTypeOK, NEW calls \in SUBSET Calls, NEW failed, Undo(calls, failed)
  PROVE  /\ faults' \in Nat
         /\ faults' = 0 =>
              /\ faults = 0
              /\ dns' = {l \in dns : <<"RevertLink", l>> \notin calls}
              /\ up' = {l \in up : <<"LinkSetDown", l>> \notin calls}
              /\ routes' = {ip \in routes : <<"RouteDel", ip>> \notin calls}
              /\ tables' => tables /\ <<"DelTable", "filter">> \notin calls
              /\ default' = IF <<"RouteReplace", LAN>> \in calls THEN LAN
                            ELSE IF <<"LinkSetDown", default>> \in calls THEN None ELSE default
<1>1. failed \subseteq calls /\ faults' = faults + Cardinality(failed)
  BY DEF Undo
<1>2. Cardinality(failed) \in Nat /\ (Cardinality(failed) = 0 => failed = {})
  BY <1>1 DEF CallsCounted
<1>3. faults' \in Nat /\ (faults' = 0 => faults = 0 /\ failed = {})
  BY <1>1, <1>2 DEF NetworkTypeOK
<1>4. ASSUME failed = {}
      PROVE  /\ dns' = {l \in dns : <<"RevertLink", l>> \notin calls}
             /\ up' = {l \in up : <<"LinkSetDown", l>> \notin calls}
             /\ routes' = {ip \in routes : <<"RouteDel", ip>> \notin calls}
             /\ tables' => tables /\ <<"DelTable", "filter">> \notin calls
             /\ default' = IF <<"RouteReplace", LAN>> \in calls THEN LAN
                           ELSE IF <<"LinkSetDown", default>> \in calls THEN None ELSE default
  <2>1. calls \ failed = calls
    BY <1>4
  <2>2. /\ dns' = {l \in dns : <<"RevertLink", l>> \notin calls}
        /\ up' = {l \in up : <<"LinkSetDown", l>> \notin calls}
        /\ routes' = {ip \in routes : <<"RouteDel", ip>> \notin calls}
    BY <2>1 DEF Undo
  <2>3. tables' => tables /\ <<"DelTable", "filter">> \notin calls
    BY <2>1, Zenon DEF Undo
  <2>4. default' = IF <<"RouteReplace", LAN>> \in calls THEN LAN
                   ELSE IF <<"LinkSetDown", default>> \in calls THEN None ELSE default
    BY <2>1 DEF Undo
  <2> QED BY <2>2, <2>3, <2>4
<1> QED BY <1>3, <1>4

(* What c has done is undone, its DNS settings when D, its routes when R;  *)
(* only then is c taken for cleared, and only with the default route back  *)
Undoes(c, D, R) ==
  /\ \A l \in dns' : l \in dns /\ ~(D /\ l \in Itfs(c))
  /\ \A l \in up' : l \in up /\ ~(R /\ l \in Itfs(c))
  /\ \A ip : ip \in routes' <=> ip \in routes /\ ~(R /\ ip \in routedIPs[c])
  /\ tables' => tables /\ ~(R /\ rm[c] = "filter")
  /\ default' # LAN => default # LAN /\ ~(R /\ known)
  /\ routedIPs'[c] = IF R THEN {} ELSE routedIPs[c]
  /\ rm'[c] = IF R /\ rm[c] = "filter" THEN "manager" ELSE rm[c]
  /\ \A d \in Clients \ {c} :
       routedIPs'[d] = routedIPs[d] /\ rm'[d] = rm[d] /\ (cleared'[d] <=> cleared[d])
  /\ cleared'[c] => cleared[c] \/ ((D \/ ~dm[c]) /\ (rm[c] = None \/ (R /\ known)))
  /\ UNCHANGED <<dm, routedItfs, replaced>>

LEMMA UndoingKeeps ==
  ASSUME NetworkTypeOK, Restorable, NEW c \in Clients, NEW D \in BOOLEAN, NEW R \in BOOLEAN,
         Undoes(c, D, R)
  PROVE  Restorable'
<1>1. \A d \in Clients : Itfs(d)' = Itfs(d)
  BY DEF Undoes, Itfs
<1>2. \A d \in Clients : rm[d] # None => rm'[d] # None
  BY DEF Undoes, None
<1>3. LinksKept'
  <2> SUFFICES ASSUME NEW l \in up'
               PROVE  \E d \in Clients : l \in Itfs(d)' /\ rm'[d] # None /\ ~cleared'[d]
    BY DEF LinksKept
  <2>1. PICK d \in Clients : l \in Itfs(d) /\ rm[d] # None /\ ~cleared[d]
    BY DEF Undoes, Restorable, LinksKept
  <2>2. ~cleared'[d]
    BY <2>1 DEF Undoes
  <2> QED BY <1>1, <1>2, <2>1, <2>2
<1>4. RoutesKept'
  <2>1. Foreign \subseteq routes'
    BY DEF Undoes, Restorable, RoutesKept
  <2>2. \A ip \in routes' : ip \in Foreign \/ \E d \in Clients : ip \in routedIPs'[d]
    <3> SUFFICES ASSUME NEW ip \in routes', ip \notin Foreign
                 PROVE  \E d \in Clients : ip \in routedIPs'[d]
      OBVIOUS
    <3>1. PICK d \in Clients : ip \in routedIPs[d]
      BY DEF Undoes, Restorable, RoutesKept
    <3>2. ip \in routedIPs'[d]
      BY <3>1 DEF Undoes
    <3> QED BY <3>2
  <2>3. \A d \in Clients : routedIPs'[d] \subseteq routedIPs[d]
    BY DEF Undoes
  <2>4. \A d \in Clients : \A ip \in routedIPs'[d] : ip \notin Foreign /\ rm'[d] # None
    BY <1>2, <2>3, Zenon DEF Restorable, RoutesKept
  <2>5. \A d \in Clients : \A ip \in routedIPs'[d] : ~cleared'[d]
    <3>1. \A ip \in routedIPs'[c] : ~cleared[c] /\ rm[c] # None /\ ~R
      BY <2>3 DEF Undoes, Restorable, RoutesKept
    <3>2. \A ip \in routedIPs'[c] : ~cleared'[c]
      BY <3>1, Zenon DEF Undoes
    <3>3. \A d \in Clients \ {c} : \A ip \in routedIPs'[d] : ~cleared'[d]
      BY <2>3 DEF Undoes, Restorable, RoutesKept
    <3> QED BY <3>2, <3>3
  <2> QED BY <2>1, <2>2, <2>4, <2>5 DEF RoutesKept
<1>5. DefaultKept'
  <2> SUFFICES ASSUME default' # LAN
               PROVE  \E d \in Clients : rm'[d] # None /\ ~cleared'[d]
    BY DEF DefaultKept
  <2>1. default # LAN /\ ~(R /\ known)
    BY DEF Undoes
  <2>2. PICK d \in Clients : rm[d] # None /\ ~cleared[d]
    BY <2>1 DEF Restorable, DefaultKept
  <2>3. ~cleared'[d]
    BY <2>1, <2>2 DEF Undoes
  <2> QED BY <1>2, <2>2, <2>3
<1>6. TablesKept'
  <2> SUFFICES ASSUME tables', ~replaced'
               PROVE  \E d \in Clients : rm'[d] = "filter" /\ ~cleared'[d]
    BY DEF TablesKept
  <2>1. tables /\ ~replaced /\ ~(R /\ rm[c] = "filter")
    BY DEF Undoes
  <2>2. PICK d \in Clients : rm[d] = "filter" /\ ~cleared[d]
    BY <2>1 DEF Restorable, TablesKept
  <2>3. rm'[d] = "filter"
    BY <2>1, <2>2 DEF Undoes
  <2>4. ~cleared'[d]
    BY <2>1, <2>2 DEF Undoes, None
  <2> QED BY <2>3, <2>4
<1>7. SettingsKept'
  <2> SUFFICES ASSUME NEW l \in dns'
               PROVE  \E d \in Clients : l \in Itfs(d)' /\ dm'[d] /\ ~cleared'[d]
    BY DEF SettingsKept
  <2>1. PICK d \in Clients : l \in Itfs(d) /\ dm[d] /\ ~cleared[d]
    BY Zenon DEF Undoes, Restorable, SettingsKept
  <2>2. ~cleared'[d]
    BY <2>1 DEF Undoes
  <2> QED BY <1>1, <2>1, <2>2, Zenon DEF Undoes
<1>8. Managed'
  BY <1>1, <1>2 DEF Restorable, Managed
<1> QED BY <1>3, <1>4, <1>5, <1>6, <1>7, <1>8 DEF Restorable

(* DNSManager.Clear *)
LEMMA SettingsCleared ==
  ASSUME CallsCounted, NetworkIInv, NEW c \in Clients, NEW failed, DNSClear(c, failed)
  PROVE  NetworkIInv'
<1>1. /\ dm[c] /\ Undo(DNSCalls(c), failed)
      /\ UNCHANGED <<rm, dm, routedItfs, routedIPs, cleared, replaced>>
  BY DEF DNSClear, contextVars
<1>2. NetworkTypeOK
  BY DEF NetworkIInv
<1>3. NetworkTypeOK'
  <2>1. faults' \in Nat
    BY <1>1, <1>2, AllUndone, CallsMade, Zenon
  <2> QED BY <1>1, <1>2, <2>1 DEF NetworkTypeOK
<1>4. SUFFICES ASSUME faults' = 0 PROVE Restorable'
  BY <1>3 DEF NetworkIInv
<1>5. /\ faults = 0
      /\ dns' = {l \in dns : <<"RevertLink", l>> \notin DNSCalls(c)}
      /\ up' = {l \in up : <<"LinkSetDown", l>> \notin DNSCalls(c)}
      /\ routes' = {ip \in routes : <<"RouteDel", ip>> \notin DNSCalls(c)}
      /\ tables' => tables
      /\ default' = IF <<"RouteReplace", LAN>> \in DNSCalls(c) THEN LAN
                    ELSE IF <<"LinkSetDown", default>> \in DNSCalls(c) THEN None ELSE default
  BY <1>1, <1>2, <1>4, AllUndone, CallsMade, Zenon
<1>6. /\ \A l \in dns' : l \in dns /\ l \notin Itfs(c)
      /\ up' = up /\ routes' = routes /\ default' = default
  BY <1>1, <1>2, <1>5, CallsMade, Zenon
<1>7. Undoes(c, TRUE, FALSE)
  BY <1>1, <1>5, <1>6, Zenon DEF Undoes
<1> QED BY <1>2, <1>5, <1>7, UndoingKeeps, Zenon DEF NetworkIInv

(* What the calls of a RouteManager's Clear change, made with others or    *)
(* alone                                                                   *)
LEMMA RoutesUndone ==
  ASSUME CallsCounted, NetworkTypeOK, Restorable, NEW c \in Clients, NEW failed,
         NEW D \in BOOLEAN, D => dm[c],
         Undo((IF D THEN DNSCalls(c) ELSE {}) \cup RouteCalls(c), failed), faults' = 0,
         Forget(c),
         \A d \in Clients \ {c} : cleared'[d] <=> cleared[d],
         cleared'[c] => cleared[c] \/ ((D \/ ~dm[c]) /\ ~died'),
         UNCHANGED <<dm, routedItfs, replaced>>
  PROVE  Undoes(c, D, rm[c] # None)
<1> DEFINE calls == (IF D THEN DNSCalls(c) ELSE {}) \cup RouteCalls(c)
           R == rm[c] # None
<1>1. /\ calls \subseteq Calls
      /\ \A l : <<"RevertLink", l>> \in calls <=> D /\ l \in Itfs(c)
      /\ \A l : <<"LinkSetDown", l>> \in calls <=> R /\ l \in Itfs(c)
      /\ \A ip : <<"RouteDel", ip>> \in calls <=> R /\ ip \in routedIPs[c]
      /\ <<"DelTable", "filter">> \in calls <=> rm[c] = "filter"
      /\ <<"RouteReplace", LAN>> \in calls <=> R /\ known
  BY CallsMade, Zenon
<1> HIDE DEF calls
<1>2. /\ dns' = {l \in dns : <<"RevertLink", l>> \notin calls}
      /\ up' = {l \in up : <<"LinkSetDown", l>> \notin calls}
      /\ routes' = {ip \in routes : <<"RouteDel", ip>> \notin calls}
      /\ tables' => tables /\ <<"DelTable", "filter">> \notin calls
      /\ default' = IF <<"RouteReplace", LAN>> \in calls THEN LAN
                    ELSE IF <<"LinkSetDown", default>> \in calls THEN None ELSE default
  <2>1. Undo(calls, failed)
    BY Zenon DEF calls
  <2> QED BY <1>1, <2>1, AllUndone, Zenon
<1>3. /\ routedIPs' = [routedIPs EXCEPT ![c] = {}]
      /\ rm' = [rm EXCEPT ![c] = IF rm[c] = "filter" THEN "manager" ELSE rm[c]]
      /\ died' <=> R /\ ~known
  BY Zenon DEF Forget
<1>4. /\ \A l \in dns' : l \in dns /\ ~(D /\ l \in Itfs(c))
      /\ \A l \in up' : l \in up /\ ~(R /\ l \in Itfs(c))
      /\ \A ip : ip \in routes' <=> ip \in routes /\ ~(R /\ ip \in routedIPs[c])
  BY <1>1, <1>2, Zenon
<1>5. tables' => tables /\ ~(R /\ rm[c] = "filter")
  BY <1>1, <1>2, Zenon
<1>6. default' # LAN => default # LAN /\ ~(R /\ known)
  <2>1. Itfs(c) \subseteq Links
    BY ItfsAreLinks, Zenon
  <2>2. LAN \notin Itfs(c)
    BY <2>1, NetworkAssumption, Zenon
  <2> QED BY <1>1, <1>2, <2>2, Zenon
<1>7. routedIPs'[c] = IF R THEN {} ELSE routedIPs[c]
  <2>1. ~R => routedIPs[c] = {}
    BY DEF Restorable, RoutesKept
  <2>2. routedIPs'[c] = {}
    BY <1>3 DEF NetworkTypeOK
  <2> QED BY <2>1, <2>2, Zenon
<1>8. rm'[c] = IF R /\ rm[c] = "filter" THEN "manager" ELSE rm[c]
  BY <1>3 DEF NetworkTypeOK, None
<1>9. \A d \in Clients \ {c} : routedIPs'[d] = routedIPs[d] /\ rm'[d] = rm[d]
  BY <1>3 DEF NetworkTypeOK
<1>10. cleared'[c] => cleared[c] \/ ((D \/ ~dm[c]) /\ (rm[c] = None \/ (R /\ known)))
  BY <1>3
<1> QED BY <1>4, <1>5, <1>6, <1>7, <1>8, <1>9, <1>10, Zenon DEF Undoes

LEMMA ForgetTypes ==
  ASSUME CallsCounted, NetworkTypeOK, NEW c \in Clients, NEW failed,
         NEW calls \in SUBSET (DNSCalls(c) \cup RouteCalls(c)), Undo(calls, failed), Forget(c),
         cleared' \in [Clients -> BOOLEAN], UNCHANGED <<dm, routedItfs>>
  PROVE  NetworkTypeOK' /\ (faults' = 0 => faults = 0)
<1>1. faults' \in Nat /\ (faults' = 0 => faults = 0)
  BY AllUndone, CallsMade, Zenon
<1>2. routedIPs' \in [Clients -> SUBSET IPs]
  BY DEF Forget, NetworkTypeOK
<1>3. rm' \in [Clients -> {None, "manager", "filter"}]
  BY DEF Forget, NetworkTypeOK
<1> QED BY <1>1, <1>2, <1>3 DEF NetworkTypeOK

(* RouteManager.Clear *)
LEMMA RoutesCleared ==
  ASSUME CallsCounted, NetworkIInv, NEW c \in Clients, NEW failed, RouteClear(c, failed)
  PROVE  NetworkIInv'
<1>1. /\ Undo(RouteCalls(c), failed) /\ Forget(c)
      /\ UNCHANGED <<dm, routedItfs, cleared, replaced>>
  BY DEF RouteClear
<1>2. NetworkTypeOK
  BY DEF NetworkIInv
<1>3. NetworkTypeOK' /\ (faults' = 0 => faults = 0)
  <2>1. cleared' \in [Clients -> BOOLEAN]
    BY <1>1, <1>2 DEF NetworkTypeOK
  <2> QED BY <1>1, <1>2, <2>1, ForgetTypes
<1>4. ASSUME faults' = 0 PROVE Restorable'
  <2>1. Restorable
    BY <1>3, <1>4 DEF NetworkIInv
  <2>2. (IF FALSE THEN DNSCalls(c) ELSE {}) \cup RouteCalls(c) = RouteCalls(c)
    OBVIOUS
  <2>3. Undoes(c, FALSE, rm[c] # None)
    BY <1>1, <1>2, <1>4, <2>1, <2>2, RoutesUndone, Zenon
  <2> QED BY <1>2, <2>1, <2>3, UndoingKeeps, Zenon
<1> QED BY <1>3, <1>4 DEF NetworkIInv

(* networkContext.Clear *)
LEMMA ContextCleared ==
  ASSUME CallsCounted, NetworkIInv, NEW c \in Clients, NEW failed, Clear(c, failed)
  PROVE  NetworkIInv'
<1>1. /\ Undo(DNSCalls(c) \cup RouteCalls(c), failed) /\ Forget(c)
      /\ cleared' = [cleared EXCEPT ![c] = cleared[c] \/ ~died']
      /\ UNCHANGED <<dm, routedItfs, replaced>>
  BY DEF Clear
<1>2. NetworkTypeOK
  BY DEF NetworkIInv
<1>3. NetworkTypeOK' /\ (faults' = 0 => faults = 0)
  <2>1. (cleared[c] \/ ~died') \in BOOLEAN
    BY Zenon
  <2>2. cleared' \in [Clients -> BOOLEAN]
    BY <1>1, <1>2, <2>1 DEF NetworkTypeOK
  <2> QED BY <1>1, <1>2, <2>2, ForgetTypes
<1>4. ASSUME faults' = 0 PROVE Restorable'
  <2>1. Restorable
    BY <1>3, <1>4 DEF NetworkIInv
  <2>2. (IF dm[c] THEN DNSCalls(c) ELSE {}) = DNSCalls(c)
    BY DEF DNSCalls
  <2>3. \A d \in Clients \ {c} : cleared'[d] <=> cleared[d]
    BY <1>1, <1>2 DEF NetworkTypeOK
  <2>4. cleared'[c] => cleared[c] \/ ~died'
    BY <1>1, <1>2 DEF NetworkTypeOK
  <2>5. dm[c] \in BOOLEAN
    BY <1>2 DEF NetworkTypeOK
  <2>6. Undoes(c, dm[c], rm[c] # None)
    BY <1>1, <1>2, <1>4, <2>1, <2>2, <2>3, <2>4, <2>5, RoutesUndone, Zenon
  <2> QED BY <1>2, <2>1, <2>5, <2>6, UndoingKeeps, Zenon
<1> QED BY <1>3, <1>4 DEF NetworkIInv

LEMMA NetworkStep ==
  ASSUME CallsCounted, NetworkIInv, [NetworkNext]_nvars
  PROVE  NetworkIInv'
<1>1. CASE UNCHANGED nvars
  BY <1>1, IdleKeeps DEF nvars, contextVars, kernelVars, NetworkIdle
<1>2. ASSUME NEW ok \in BOOLEAN, NEW found \in BOOLEAN, ReadNetworkInfo(ok, found)
      PROVE  NetworkIInv'
  BY <1>2, IdleKeeps DEF ReadNetworkInfo, contextVars, kernelVars, NetworkIdle
<1>3. ASSUME NEW c \in Clients, NewNetworkContext(c) \/ InitReceived(c) \/ InitTimesOut(c)
      PROVE  NetworkIInv'
  BY <1>3, IdleKeeps
     DEF NewNetworkContext, InitReceived, InitTimesOut, contextVars, kernelVars, NetworkIdle
<1>4. ASSUME NEW c \in Clients, Manage(c)
      PROVE  NetworkIInv'
  <2>1. CASE \/ \E failed \in SUBSET {"SetLinkDNS", "SetLinkDefaultRoute"} : AddDNSServers(c, failed)
             \/ \E failed \in SUBSET {"SetLinkDomains"} : AddSearchDomains(c, failed)
    <3>1. PICK calls \in SUBSET SetCalls, failed \in SUBSET SetCalls : SetLink(c, calls, failed)
      BY <2>1 DEF AddDNSServers, AddSearchDomains, SetCalls
    <3> QED BY <3>1, LinkSet
  <2>2. CASE \/ \E failed \in SUBSET DNSCalls(c) : DNSClear(c, failed)
             \/ \E failed \in SUBSET RouteCalls(c) : RouteClear(c, failed)
             \/ \E failed \in SUBSET (DNSCalls(c) \cup RouteCalls(c)) : Clear(c, failed)
    BY <2>2, SettingsCleared, RoutesCleared, ContextCleared
  <2>3. CASE \/ NewDNSManager(c) \/ NewRouteManager(c)
             \/ \E fails \in BOOLEAN : NewFilterRouter(c, fails)
             \/ \E l \in Links, fails \in BOOLEAN : NewRoutableInterface(c, l, fails)
             \/ \E ips \in SUBSET IPs : AddExternalRouteToIPs(c, ips)
             \/ \E l \in Links \cup {LAN} : MakeDefaultRoute(c, l)
    BY <2>3, ManagerMade, FilterMade, LinkMade, RoutesAdded, DefaultMade
  <2> QED BY <1>4, <2>1, <2>2, <2>3 DEF Manage
<1> QED BY <1>1, <1>2, <1>3, <1>4 DEF NetworkNext

(* What is needed of finite sets *)
FiniteLaws ==
  /\ FiniteFacts
  /\ \A S, T : IsFiniteSet(S) /\ IsFiniteSet(T) => IsFiniteSet(S \cup T)
  /\ \A S, T : IsFiniteSet(S) /\ IsFiniteSet(T) => IsFiniteSet(S \X T)

LEMMA SingletonFinite ==
  ASSUME FiniteFacts, NEW x
  PROVE  IsFiniteSet({x})
<1>1. IsFiniteSet({}) /\ x \notin {} /\ {x} = {} \cup {x}
  BY DEF FiniteFacts
<1> QED BY <1>1, CountAdd

(* The calls are finitely many, as the links and addresses are *)
LEMMA CallsAreCounted ==
  ASSUME FiniteLaws
  PROVE  CallsCounted
<1>1. /\ \A x : IsFiniteSet({x})
      /\ \A S, T : IsFiniteSet(S) /\ IsFiniteSet(T) => IsFiniteSet(S \cup T) /\ IsFiniteSet(S \X T)
  <2>1. ASSUME NEW x PROVE IsFiniteSet({x})
    BY SingletonFinite DEF FiniteLaws
  <2> QED BY <2>1 DEF FiniteLaws
<1>2. \A x, y : IsFiniteSet({x, y})
  <2> SUFFICES ASSUME NEW x, NEW y PROVE IsFiniteSet({x, y})
    OBVIOUS
  <2>1. {x, y} = {x} \cup {y}
    OBVIOUS
  <2>2. IsFiniteSet({x} \cup {y})
    BY <1>1, Zenon
  <2> QED BY <2>1, <2>2
<1>3. IsFiniteSet(Calls)
  <2> DEFINE K == {"RevertLink", "DelTable", "LinkSetDown", "RouteDel", "RouteReplace"}
             T == Links \cup IPs \cup {LAN, "filter"}
  <2>1. K = {"RevertLink", "DelTable"} \cup ({"LinkSetDown", "RouteDel"} \cup {"RouteReplace"})
    OBVIOUS
  <2>2. IsFiniteSet({"LinkSetDown", "RouteDel"} \cup {"RouteReplace"})
    BY <1>1, <1>2, Zenon
  <2>3. IsFiniteSet({"RevertLink", "DelTable"} \cup ({"LinkSetDown", "RouteDel"} \cup {"RouteReplace"}))
    BY <1>1, <1>2, <2>2, Zenon
  <2>4. IsFiniteSet(Links \cup IPs) /\ IsFiniteSet({LAN, "filter"})
    BY <1>1, <1>2, NetworkAssumption, Zenon
  <2>5. IsFiniteSet(T)
    BY <1>1, <2>4, Zenon
  <2>6. IsFiniteSet(K)
    BY <2>1, <2>3
  <2>7. Calls = K \X T
    BY DEF Calls
  <2> HIDE DEF K, T
  <2> QED BY <1>1, <2>5, <2>6, <2>7, Zenon
<1>4. IsFiniteSet(SetCalls)
  <2>1. SetCalls = {"SetLinkDNS", "SetLinkDefaultRoute"} \cup {"SetLinkDomains"}
    BY DEF SetCalls
  <2> QED BY <1>1, <1>2, <2>1, Zenon
<1>5. \A S : S \subseteq Calls \/ S \subseteq SetCalls => IsFiniteSet(S) /\ Cardinality(S) \in Nat
  BY <1>3, <1>4, CountSubset DEF FiniteLaws
<1> QED BY <1>5, CountZero DEF FiniteLaws, CallsCounted

-----------------------------------------------------------------------------
USE DEF IsFiniteSet, Cardinality
LOCAL INSTANCE FiniteSetTheorems

(* It is so, by the library *)
LEMMA FiniteLawsHold == FiniteLaws
<1>1. IsFiniteSet({}) /\ Cardinality({}) = 0
  BY FS_EmptySet
<1>2. \A S : IsFiniteSet(S) => Cardinality(S) \in Nat
  BY FS_CardinalityType
<1>3. \A S : IsFiniteSet(S) /\ Cardinality(S) = 0 => S = {}
  BY FS_EmptySet
<1>4. \A S : IsFiniteSet(S) => \A T \in SUBSET S :
        /\ IsFiniteSet(T)
        /\ Cardinality(T) <= Cardinality(S)
        /\ Cardinality(T) = Cardinality(S) => T = S
  BY FS_Subset
<1>5. \A S, x : IsFiniteSet(S) /\ x \notin S =>
        IsFiniteSet(S \cup {x}) /\ Cardinality(S \cup {x}) = Cardinality(S) + 1
  BY FS_AddElement
<1>6. \A S, x : IsFiniteSet(S) /\ x \in S =>
        IsFiniteSet(S \ {x}) /\ Cardinality(S \ {x}) = Cardinality(S) - 1
  BY FS_RemoveElement
<1>7. FiniteFacts
  BY <1>1, <1>2, <1>3, <1>4, <1>5, <1>6, Zenon DEF FiniteFacts, IsFiniteSet, Cardinality
<1>8. \A S, T : IsFiniteSet(S) /\ IsFiniteSet(T) => IsFiniteSet(S \cup T)
  BY FS_Union, Zenon
<1>9. \A S, T : IsFiniteSet(S) /\ IsFiniteSet(T) => IsFiniteSet(S \X T)
  BY FS_Product
<1> QED BY <1>7, <1>8, <1>9, Zenon DEF FiniteLaws, IsFiniteSet

(***************************************************************************)
(* Once every context has been cleared since it last changed anything, and *)
(* no call of the kernel has failed, the links, routes, DNS settings and   *)
(* tables are what they were before the first one: for any number of       *)
(* contexts, links and addresses, whatever the contexts did in turns       *)
(* (networkContext.Clear, routeManager.Clear, dnsManager.Clear).           *)
(***************************************************************************)
THEOREM NetworkUndone == NetworkSpec => []Undone
<1>1. NetworkInit => NetworkIInv
  <2> SUFFICES ASSUME NetworkInit PROVE NetworkIInv
    OBVIOUS
  <2>1. NetworkTypeOK
    BY SeqEmpty DEF NetworkInit, NetworkTypeOK
  <2>2. \A c \in Clients : Itfs(c) = {}
    BY SeqEmpty, SeqLen DEF NetworkInit, Itfs
  <2>3. LinksKept /\ RoutesKept /\ DefaultKept
    BY DEF NetworkInit, LinksKept, RoutesKept, DefaultKept
  <2>4. TablesKept /\ SettingsKept /\ Managed
    BY <2>2 DEF NetworkInit, TablesKept, SettingsKept, Managed
  <2> QED BY <2>1, <2>3, <2>4 DEF NetworkIInv, Restorable
<1>2. NetworkIInv /\ [NetworkNext]_nvars => NetworkIInv'
  BY FiniteLawsHold, CallsAreCounted, NetworkStep
<1>3. NetworkIInv => Undone
  <2> SUFFICES ASSUME Restorable, \A c \in Clients : cleared[c]
               PROVE  /\ up = {} /\ routes = Foreign /\ default = LAN
                      /\ tables => replaced
                      /\ dns = {}
    BY DEF NetworkIInv, Undone
  <2>1. up = {} /\ dns = {}
    BY Zenon DEF Restorable, LinksKept, SettingsKept
  <2>2. routes = Foreign
    BY Zenon DEF Restorable, RoutesKept
  <2>3. default = LAN /\ (tables => replaced)
    BY DEF Restorable, DefaultKept, TablesKept
  <2> QED BY <2>1, <2>2, <2>3
<1> QED BY <1>1, <1>2, <1>3, PTL DEF NetworkSpec

(***************************************************************************)
(* inflight is the number of invocations between Add and Done: what Stop's *)
(* inflight.Wait and invokeCallback's WaitTimeout wait for.                *)
(***************************************************************************)
THEOREM TimerInflightExact == Spec => []InflightExact
<1>1. Init => InflightExact
  BY InflightInit, FiniteLawsHold DEF FiniteLaws
<1>2. TimerIInv /\ InflightExact /\ [Next]_vars => InflightExact'
  BY InflightStep, FiniteLawsHold, Zenon DEF FiniteLaws
<1> QED BY <1>1, <1>2, TimerInvariant, PTL DEF Spec
=============================================================================
