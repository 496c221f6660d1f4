------------------------ MODULE TaskDispatcherProofs ------------------------
(***************************************************************************)
(* Proofs about the task dispatcher, for every set of tasks and workers,   *)
(* every buffer size and every choice of retries.                          *)
(***************************************************************************)
EXTENDS TaskDispatcher, Facts

(* A leaf that names no prover is tried with these, in turn *)
USE SMT, Zenon, Z3, SMTT(10)

(* A panic ends every goroutine at once *)
DeadTogether ==
  /\ \A t \in Tasks : client[t] = "dead" <=> Panicked
  /\ \A w \in Workers : worker[w] = "dead" <=> Panicked

(* A task in hand, or in the channel, was accepted and has no outcome yet *)
Pending(t) == notified[t] = 0 /\ (Panicked \/ client[t] = "accepted")

Placed ==
  /\ \A w \in Workers : InHand(w) => held[w] \in Tasks /\ Pending(held[w])
  /\ \A t \in Tasks : InQueue(t) => Pending(t)

Owned ==
  \A t \in Tasks : client[t] = "accepted" =>
    InQueue(t) \/ notified[t] = 1 \/ \E w \in Workers : InHand(w) /\ held[w] = t

Budget ==
  /\ \A t \in Tasks : attempts[t] <= granted[t] + 1
  /\ \A t \in Tasks : client[t] \in {"new", "sending", "refused"} => attempts[t] = 0
  /\ \A t \in Tasks : client[t] = "sending" => numTries[t] = granted[t]
  /\ \A t \in Tasks : InQueue(t) => attempts[t] + numTries[t] = granted[t]
  /\ \A w \in Workers : worker[w] = "retrying" =>
       attempts[held[w]] + numTries[held[w]] = granted[held[w]]
  /\ \A w \in Workers : worker[w] = "running" =>
       attempts[held[w]] + numTries[held[w]] = granted[held[w]] + 1

(* The strengthening used for SoleOwner, NotifiedOnce and RetryBudget *)
OwnerInv ==
  /\ TypeOK
  /\ DeadTogether
  /\ SoleOwner
  /\ Placed
  /\ NotifiedOnce
  /\ Owned
  /\ Budget

(* A Stop past its Wait has nothing left to wait for *)
StopInv ==
  /\ stopper # "up" => stop
  /\ stopper \in {"woken", "close", "stopped"} => queued = 0
  /\ closed => stopper = "stopped"
  /\ ~Panicked

-----------------------------------------------------------------------------
(* What the channel's send does to the sequence *)
LEMMA AppendFacts ==
  ASSUME NEW s \in Seq(Tasks), NEW t \in Tasks
  PROVE  /\ Append(s, t) \in Seq(Tasks)
         /\ Len(Append(s, t)) = Len(s) + 1
         /\ Len(s) \in Nat
         /\ \A i \in 1 .. Len(s) : Append(s, t)[i] = s[i]
         /\ Append(s, t)[Len(s) + 1] = t
OBVIOUS

(* What the channel's receive does to the sequence *)
LEMMA TailFacts ==
  ASSUME NEW s \in Seq(Tasks), s # <<>>
  PROVE  /\ Tail(s) \in Seq(Tasks)
         /\ Len(s) \in Nat \ {0}
         /\ Len(Tail(s)) = Len(s) - 1
         /\ \A i \in 1 .. Len(s) - 1 : Tail(s)[i] = s[i + 1]
         /\ Head(s) = s[1]
         /\ Head(s) \in Tasks
OBVIOUS

-----------------------------------------------------------------------------
(* The types hold initially *)
LEMMA InitTypes == Init => TypeOK
<1> SUFFICES ASSUME Init PROVE TypeOK
  OBVIOUS
<1>1. queue \in Seq(Tasks) /\ queued \in Int
  BY DEF Init
<1>6. closed \in BOOLEAN /\ stop \in BOOLEAN /\ late \in BOOLEAN
  BY Zenon DEF Init
<1>2. stopper \in StopperPC /\ client \in [Tasks -> ClientPC] /\ worker \in [Workers -> WorkerPC]
  BY DEF Init, StopperPC, ClientPC, WorkerPC
<1>3. held \in [Workers -> Tasks \cup {NoTask}]
  BY DEF Init
<1>4. numTries \in [Tasks -> Nat] /\ granted \in [Tasks -> Nat]
  BY DEF Init
<1>5. attempts \in [Tasks -> Nat] /\ notified \in [Tasks -> Nat]
  BY DEF Init
<1> QED BY <1>1, <1>2, <1>3, <1>4, <1>5, <1>6 DEF TypeOK

(* The owner invariant holds initially *)
LEMMA InitOwner == Init => OwnerInv
<1> SUFFICES ASSUME Init PROVE OwnerInv
  OBVIOUS
<1>1. TypeOK
  BY InitTypes
<1>2. \A t \in Tasks : ~InQueue(t)
  BY DEF Init, InQueue
<1>3. \A w \in Workers : worker[w] = "idle" /\ ~InHand(w)
  BY DEF Init, InHand
<1>4. \A t \in Tasks : client[t] = "new" /\ notified[t] = 0 /\ attempts[t] = 0 /\ granted[t] = 0
  BY DEF Init
<1>5. SoleOwner
  BY <1>3 DEF SoleOwner, Init
<1> QED
  <2>1. ~Panicked
    BY DEF Init, Panicked
  <2>2. DeadTogether /\ Placed /\ Owned
    BY <1>2, <1>3, <1>4, <2>1 DEF DeadTogether, Placed, Owned
  <2>3. NotifiedOnce
    BY <1>2, <1>4 DEF NotifiedOnce
  <2>4. Budget
    <3>1. \A t \in Tasks : numTries[t] = 0
      BY DEF Init
    <3> QED BY <1>2, <1>3, <1>4, <3>1 DEF Budget
  <2> QED BY <1>1, <1>5, <2>2, <2>3, <2>4 DEF OwnerInv

(* A panic keeps the owner invariant: the data stays, every goroutine is gone *)
LEMMA PanicOwner == OwnerInv /\ Panic => OwnerInv'
<1> SUFFICES ASSUME OwnerInv, Panic PROVE OwnerInv'
  OBVIOUS
<1>1. TypeOK'
  BY DEF OwnerInv, TypeOK, Panic, ClientPC, WorkerPC, StopperPC
<1>2. \A t \in Tasks : client'[t] = "dead"
  BY DEF Panic
<1>3. \A w \in Workers : worker'[w] = "dead" /\ ~InHand(w)'
  BY DEF Panic, InHand
<1>4. Panicked' /\ UNCHANGED <<queue, held, numTries, granted, attempts, notified>>
  BY DEF Panic, Panicked
<1>5. \A t \in Tasks : InQueue(t)' = InQueue(t)
  BY <1>4 DEF InQueue
<1>6. DeadTogether' /\ Placed' /\ Owned'
  BY <1>2, <1>3, <1>4, <1>5 DEF OwnerInv, DeadTogether, Placed, Pending, Owned
<1>7. SoleOwner'
  BY <1>3, <1>4 DEF OwnerInv, SoleOwner
<1>8. NotifiedOnce'
  BY <1>2, <1>4, <1>5 DEF OwnerInv, NotifiedOnce
<1>9. Budget'
  BY <1>2, <1>3, <1>4, <1>5 DEF OwnerInv, Budget
<1> QED BY <1>1, <1>6, <1>7, <1>8, <1>9 DEF OwnerInv
-----------------------------------------------------------------------------
(* Dispatch touches only its own task, which nobody has yet *)
LEMMA DispatchOwner ==
  ASSUME OwnerInv, NEW t \in Tasks, NEW retries \in Retries, Dispatch(t, retries)
  PROVE  OwnerInv'
<1> USE RetriesAssumption
<1>1. TypeOK'
  BY DEF OwnerInv, TypeOK, Dispatch, Add, ClientPC
<1>2. UNCHANGED <<queue, worker, held, attempts, notified, stopper>>
  BY DEF Dispatch
<1>3. \A u \in Tasks : InQueue(u)' = InQueue(u)
  BY <1>2 DEF InQueue
<1>4. \A w \in Workers : InHand(w)' = InHand(w)
  BY <1>2 DEF InHand
<1>5. \A u \in Tasks : client'[u] = IF u = t THEN "sending" ELSE client[u]
  BY DEF OwnerInv, TypeOK, Dispatch
<1>6. \A u \in Tasks : u # t => numTries'[u] = numTries[u] /\ granted'[u] = granted[u]
  BY DEF OwnerInv, TypeOK, Dispatch
<1>7. numTries'[t] = granted'[t] /\ granted'[t] \in Nat /\ client[t] = "new"
  BY DEF OwnerInv, TypeOK, Dispatch
<1>8. attempts[t] = 0 /\ notified[t] = 0
  BY <1>7 DEF OwnerInv, Budget, NotifiedOnce
<1>9. ~Panicked /\ ~Panicked'
  BY <1>2, <1>7 DEF OwnerInv, DeadTogether, Panicked
<1>10. ~InQueue(t) /\ \A w \in Workers : InHand(w) => held[w] \in Tasks \ {t}
  BY <1>7, <1>9 DEF OwnerInv, Placed, Pending
<1>11. DeadTogether'
  BY <1>2, <1>5, <1>9 DEF OwnerInv, DeadTogether
<1>12. Placed'
  BY <1>2, <1>3, <1>4, <1>5, <1>9, <1>10 DEF OwnerInv, Placed, Pending
<1>13. Owned'
  BY <1>2, <1>3, <1>4, <1>5 DEF OwnerInv, Owned
<1>14. SoleOwner'
  BY <1>2, <1>4 DEF OwnerInv, SoleOwner, InQueue
<1>15. NotifiedOnce'
  BY <1>2, <1>3, <1>5, <1>8 DEF OwnerInv, NotifiedOnce
<1>16. Budget'
  <2>1. \A u \in Tasks : attempts'[u] <= granted'[u] + 1
    <3>1. \A u \in Tasks : attempts[u] <= granted[u] + 1
      BY DEF OwnerInv, Budget
    <3> QED BY <1>2, <1>6, <1>7, <1>8, <3>1
  <2>2. \A u \in Tasks : client'[u] \in {"new", "sending", "refused"} => attempts'[u] = 0
    BY <1>2, <1>5, <1>8 DEF OwnerInv, Budget
  <2>3. \A u \in Tasks : client'[u] = "sending" => numTries'[u] = granted'[u]
    BY <1>5, <1>6, <1>7 DEF OwnerInv, Budget
  <2>4. \A u \in Tasks : InQueue(u)' => attempts'[u] + numTries'[u] = granted'[u]
    BY <1>2, <1>3, <1>6, <1>10 DEF OwnerInv, Budget
  <2>5. \A w \in Workers : worker[w] \in {"running", "retrying"} =>
          numTries'[held[w]] = numTries[held[w]] /\ granted'[held[w]] = granted[held[w]]
    BY <1>6, <1>10 DEF InHand
  <2> QED BY <1>2, <2>1, <2>2, <2>3, <2>4, <2>5 DEF OwnerInv, Budget
<1> QED BY <1>1, <1>11, <1>12, <1>13, <1>14, <1>15, <1>16 DEF OwnerInv

(* A send moves the task from its client to the end of the channel *)
LEMMA SendOwner ==
  ASSUME OwnerInv, NEW t \in Tasks, Send(t)
  PROVE  OwnerInv'
<1>1. CASE closed /\ Panic
  BY <1>1, PanicOwner
<1>2. CASE ~closed /\ ~Full /\ queue' = Append(queue, t)
           /\ client' = [client EXCEPT ![t] = "accepted"]
           /\ UNCHANGED <<closed, queued, stop, stopper, worker, held, numTries,
                          granted, attempts, notified, late>>
  <2> USE <1>2
  <2>0. queue \in Seq(Tasks) /\ Len(queue) \in Nat /\ client[t] = "sending"
    BY AppendFacts DEF OwnerInv, TypeOK, Send
  <2>1. TypeOK'
    BY AppendFacts DEF OwnerInv, TypeOK, ClientPC
  <2>2. \A u \in Tasks : InQueue(u)' <=> InQueue(u) \/ u = t
    BY <2>0, AppendFacts DEF InQueue
  <2>3. \A w \in Workers : InHand(w)' = InHand(w)
    BY DEF InHand
  <2>4. \A u \in Tasks : client'[u] = IF u = t THEN "accepted" ELSE client[u]
    BY DEF OwnerInv, TypeOK
  <2>5. ~Panicked /\ ~Panicked'
    BY <2>0 DEF OwnerInv, DeadTogether, Panicked
  <2>6. ~InQueue(t) /\ \A w \in Workers : InHand(w) => held[w] \in Tasks \ {t}
    BY <2>0, <2>5 DEF OwnerInv, Placed, Pending
  <2>7. notified[t] = 0 /\ attempts[t] = 0 /\ numTries[t] = granted[t]
    BY <2>0 DEF OwnerInv, NotifiedOnce, Budget
  <2>8. DeadTogether'
    BY <2>4, <2>5 DEF OwnerInv, DeadTogether
  <2>9. Placed'
    BY <2>2, <2>3, <2>4, <2>5, <2>7 DEF OwnerInv, Placed, Pending
  <2>10. Owned'
    BY <2>2, <2>3, <2>4 DEF OwnerInv, Owned
  <2>11. SoleOwner'
    <3>1. \A i, j \in 1 .. Len(queue') : queue'[i] = queue'[j] => i = j
      BY <2>0, <2>6, AppendFacts DEF OwnerInv, SoleOwner, InQueue
    <3>2. \A w \in Workers : InHand(w)' => ~InQueue(held[w])'
      BY <2>2, <2>3, <2>6 DEF OwnerInv, SoleOwner
    <3>3. \A v, w \in Workers : InHand(v)' /\ InHand(w)' /\ held'[v] = held'[w] => v = w
      BY <2>3 DEF OwnerInv, SoleOwner
    <3> QED BY <3>1, <3>2, <3>3 DEF SoleOwner
  <2>12. NotifiedOnce'
    BY <2>2, <2>4, <2>7 DEF OwnerInv, NotifiedOnce
  <2>13. Budget'
    BY <2>2, <2>4, <2>7 DEF OwnerInv, Budget, TypeOK
  <2> QED BY <2>1, <2>8, <2>9, <2>10, <2>11, <2>12, <2>13 DEF OwnerInv
<1> QED BY <1>1, <1>2 DEF Send

(* A step that leaves the tasks and the channel alone and moves no task *)
LEMMA IdleOwner ==
  ASSUME OwnerInv, TypeOK',
         UNCHANGED <<queue, held, numTries, granted, attempts, notified>>,
         Panicked' <=> Panicked,
         \A w \in Workers :
           worker'[w] # worker[w] =>
             /\ worker[w] \in {"idle", "finished"}
             /\ worker'[w] \in {"idle", "exited"},
         \A t \in Tasks :
           client'[t] # client[t] => client[t] = "sending" /\ client'[t] = "refused"
  PROVE  OwnerInv'
<1>1. \A t \in Tasks : InQueue(t)' = InQueue(t)
  BY DEF InQueue
<1>2. \A w \in Workers : InHand(w)' = InHand(w)
  BY DEF InHand
<1>3. \A t \in Tasks : client[t] = "sending" => ~Panicked /\ ~InQueue(t)
          /\ (\A w \in Workers : InHand(w) => held[w] # t)
  BY DEF OwnerInv, DeadTogether, Placed, Pending
<1>4. DeadTogether'
  BY DEF OwnerInv, DeadTogether
<1>5. Placed'
  BY <1>1, <1>2, <1>3 DEF OwnerInv, Placed, Pending
<1>6. Owned'
  BY <1>1, <1>2 DEF OwnerInv, Owned
<1>7. SoleOwner'
  BY <1>2 DEF OwnerInv, SoleOwner, InQueue
<1>8. NotifiedOnce'
  BY <1>1 DEF OwnerInv, NotifiedOnce
<1>9. Budget'
  <2>1. \A w \in Workers : worker'[w] \in {"running", "retrying"} => worker'[w] = worker[w]
    OBVIOUS
  <2> QED BY <1>1, <2>1 DEF OwnerInv, Budget
<1> QED BY <1>4, <1>5, <1>6, <1>7, <1>8, <1>9 DEF OwnerInv

(* A receive moves the task at the head of the channel to the worker *)
LEMMA TakeOwner ==
  ASSUME OwnerInv, NEW w \in Workers, Take(w)
  PROVE  OwnerInv'
<1> DEFINE t == Head(queue)
<1>1. queue \in Seq(Tasks) /\ queue # <<>> /\ Len(queue) \in Nat \ {0} /\ t \in Tasks /\ t = queue[1]
  BY TailFacts DEF OwnerInv, TypeOK, Take
<1>2. TypeOK'
  BY <1>1, TailFacts, SMTT(30) DEF OwnerInv, TypeOK, Take, WorkerPC
<1>3. UNCHANGED <<stopper, client, numTries, granted, notified>>
  BY DEF Take
<1>4. \A v \in Workers : worker'[v] = IF v = w THEN "running" ELSE worker[v]
  BY DEF OwnerInv, TypeOK, Take
<1>5. \A v \in Workers : held'[v] = IF v = w THEN t ELSE held[v]
  BY DEF OwnerInv, TypeOK, Take
<1>6. \A u \in Tasks : attempts'[u] = IF u = t THEN attempts[u] + 1 ELSE attempts[u]
  BY Zenon DEF OwnerInv, TypeOK, Take
<1>7. \A u \in Tasks : InQueue(u)' <=> InQueue(u) /\ u # t
  <2>1. queue' = Tail(queue)
    BY DEF Take
  <2>2. \A i, j \in 1 .. Len(queue) : queue[i] = queue[j] => i = j
    BY DEF OwnerInv, SoleOwner
  <2>3. \A u \in Tasks : InQueue(u)' => InQueue(u) /\ u # t
    <3> SUFFICES ASSUME NEW u \in Tasks, NEW i \in 1 .. Len(Tail(queue)), Tail(queue)[i] = u
                 PROVE  InQueue(u) /\ u # t
      BY <2>1 DEF InQueue
    <3>1. i + 1 \in 1 .. Len(queue) /\ queue[i + 1] = u /\ 1 \in 1 .. Len(queue) /\ i + 1 # 1
      BY <1>1, TailFacts
    <3> QED BY <1>1, <2>2, <3>1 DEF InQueue
  <2>4. \A u \in Tasks : InQueue(u) /\ u # t => InQueue(u)'
    <3> SUFFICES ASSUME NEW u \in Tasks, NEW i \in 1 .. Len(queue), queue[i] = u, u # t
                 PROVE  InQueue(u)'
      BY DEF InQueue
    <3>1. i # 1
      BY <1>1
    <3>2. i - 1 \in 1 .. Len(Tail(queue)) /\ Tail(queue)[i - 1] = u
      BY <1>1, <3>1, TailFacts
    <3> QED BY <2>1, <3>2 DEF InQueue
  <2> QED BY <2>3, <2>4
<1>8. InQueue(t)
  BY <1>1 DEF InQueue
<1>9. \A v \in Workers : InHand(v)' <=> InHand(v) \/ v = w
  BY <1>4 DEF InHand
<1>10. ~Panicked /\ ~Panicked' /\ ~InHand(w)
  BY <1>3 DEF OwnerInv, DeadTogether, Panicked, Take, InHand
<1>11. \A v \in Workers : InHand(v) => held[v] \in Tasks \ {t}
  BY <1>8 DEF OwnerInv, Placed, SoleOwner
<1>12. Pending(t) /\ client[t] = "accepted" /\ attempts[t] + numTries[t] = granted[t]
  BY <1>1, <1>8, <1>10 DEF OwnerInv, Placed, Pending, Budget
<1> HIDE DEF t
<1>13. DeadTogether'
  BY <1>3, <1>4, <1>10 DEF OwnerInv, DeadTogether
<1>14. Placed'
  BY <1>1, <1>3, <1>5, <1>7, <1>9, <1>10, <1>12 DEF OwnerInv, Placed, Pending
<1>15. Owned'
  BY <1>3, <1>5, <1>7, <1>9, <1>10 DEF OwnerInv, Owned
<1>16. SoleOwner'
  <2>1. \A i, j \in 1 .. Len(queue') : queue'[i] = queue'[j] => i = j
    <3>1. queue' = Tail(queue)
      BY DEF Take
    <3>2. \A i \in 1 .. Len(queue') : i + 1 \in 1 .. Len(queue) /\ queue'[i] = queue[i + 1]
      BY <1>1, <3>1, TailFacts
    <3>3. \A i, j \in 1 .. Len(queue) : queue[i] = queue[j] => i = j
      BY DEF OwnerInv, SoleOwner
    <3>4. Len(queue') \in Nat
      BY <1>1, <3>1, TailFacts
    <3> QED BY <1>1, <3>2, <3>3, <3>4
  <2>2. ASSUME NEW v \in Workers, InHand(v)' PROVE ~InQueue(held[v])'
    <3>1. held'[v] \in Tasks
      BY <1>1, <1>5, <1>9, <1>11, <2>2
    <3>2. held'[v] = t \/ ~InQueue(held'[v])
      BY <1>5, <1>9, <2>2 DEF OwnerInv, SoleOwner
    <3>3. PICK u \in Tasks : u = held'[v]
      BY <3>1
    <3>4. ~InQueue(u)'
      BY <1>7, <3>2, <3>3
    <3> QED BY <3>3, <3>4 DEF InQueue
  <2>3. \A u, v \in Workers : InHand(u)' /\ InHand(v)' /\ held'[u] = held'[v] => u = v
    BY <1>5, <1>9, <1>10, <1>11 DEF OwnerInv, SoleOwner
  <2> QED BY <2>1, <2>2, <2>3 DEF SoleOwner
<1>17. NotifiedOnce'
  BY <1>3, <1>7 DEF OwnerInv, NotifiedOnce
<1>18. Budget'
  <2>1. attempts[t] \in Nat /\ numTries[t] \in Nat /\ granted[t] \in Nat
    BY <1>1 DEF OwnerInv, TypeOK
  <2>2. \A u \in Tasks : attempts'[u] <= granted'[u] + 1
    <3>1. \A u \in Tasks : attempts[u] <= granted[u] + 1
      BY DEF OwnerInv, Budget
    <3> QED BY <1>3, <1>6, <1>12, <2>1, <3>1
  <2>3. \A u \in Tasks : client'[u] \in {"new", "sending", "refused"} => attempts'[u] = 0
    BY <1>3, <1>6, <1>12 DEF OwnerInv, Budget
  <2>4. \A u \in Tasks : client'[u] = "sending" => numTries'[u] = granted'[u]
    BY <1>3 DEF OwnerInv, Budget
  <2>5. \A u \in Tasks : InQueue(u)' => attempts'[u] + numTries'[u] = granted'[u]
    BY <1>3, <1>6, <1>7 DEF OwnerInv, Budget
  <2>6. \A v \in Workers : InHand(v) => attempts'[held[v]] = attempts[held[v]] /\ held'[v] = held[v]
    BY <1>5, <1>6, <1>10, <1>11
  <2>7. \A v \in Workers : worker'[v] = "retrying" =>
          attempts'[held'[v]] + numTries'[held'[v]] = granted'[held'[v]]
    BY <1>3, <1>4, <2>6 DEF OwnerInv, Budget, InHand
  <2>8. \A v \in Workers \ {w} : worker'[v] = "running" =>
          attempts'[held'[v]] + numTries'[held'[v]] = granted'[held'[v]] + 1
    BY <1>3, <1>4, <2>6 DEF OwnerInv, Budget, InHand
  <2>9. attempts'[held'[w]] + numTries'[held'[w]] = granted'[held'[w]] + 1
    <3>1. held'[w] = t /\ attempts'[t] = attempts[t] + 1
      BY <1>1, <1>5, <1>6
    <3> QED BY <1>3, <1>12, <2>1, <3>1
  <2> QED BY <2>2, <2>3, <2>4, <2>5, <2>7, <2>8, <2>9 DEF Budget
<1> QED BY <1>2, <1>13, <1>14, <1>15, <1>16, <1>17, <1>18 DEF OwnerInv

(* Reporting an outcome takes the task out of the worker's hand for good *)
LEMMA ReportOwner ==
  ASSUME OwnerInv, NEW w \in Workers, InHand(w), TypeOK', Notify(w),
         worker' = [worker EXCEPT ![w] = "finished"],
         UNCHANGED <<queue, client, held, numTries, granted, attempts>>,
         stopper' = stopper \/ stopper' = "woken"
  PROVE  OwnerInv'
<1> DEFINE t == held[w]
<1>1. t \in Tasks /\ notified[t] = 0 /\ ~InQueue(t)
  BY DEF OwnerInv, Placed, Pending, SoleOwner
<1>2. ~Panicked /\ ~Panicked' /\ client[t] = "accepted"
  BY <1>1 DEF OwnerInv, DeadTogether, Placed, Pending, Panicked, InHand
<1>3. \A u \in Tasks : notified'[u] = IF u = t THEN 1 ELSE notified[u]
  BY <1>1 DEF OwnerInv, TypeOK, Notify
<1>4. \A v \in Workers : worker'[v] = IF v = w THEN "finished" ELSE worker[v]
  BY DEF OwnerInv, TypeOK
<1>5. \A v \in Workers : InHand(v)' <=> InHand(v) /\ v # w
  BY <1>4 DEF InHand
<1>6. \A u \in Tasks : InQueue(u)' = InQueue(u)
  BY DEF InQueue
<1>7. \A v \in Workers : InHand(v) /\ v # w => held[v] # t
  BY DEF OwnerInv, SoleOwner
<1> HIDE DEF t
<1>8. DeadTogether'
  BY <1>2, <1>4 DEF OwnerInv, DeadTogether
<1>9. Placed'
  BY <1>1, <1>2, <1>3, <1>5, <1>6, <1>7 DEF OwnerInv, Placed, Pending
<1>10. Owned'
  BY <1>3, <1>5, <1>6, <1>7 DEF OwnerInv, Owned, t
<1>11. SoleOwner'
  BY <1>5 DEF OwnerInv, SoleOwner, InQueue
<1>12. NotifiedOnce'
  BY <1>1, <1>2, <1>3, <1>6 DEF OwnerInv, NotifiedOnce
<1>13. Budget'
  BY <1>4, <1>6 DEF OwnerInv, Budget
<1> QED BY <1>8, <1>9, <1>10, <1>11, <1>12, <1>13 DEF OwnerInv

(* A retry takes one try off the task in hand *)
LEMMA RetryOwner ==
  ASSUME OwnerInv, NEW w \in Workers, Retry(w)
  PROVE  OwnerInv'
<1> DEFINE t == held[w]
<1>1. UNCHANGED <<queue, stopper, client, held, granted, attempts, notified>>
  BY DEF Retry
<1>2. t \in Tasks /\ ~InQueue(t) /\ InHand(w) /\ worker[w] = "running"
  BY DEF OwnerInv, Placed, SoleOwner, Retry, InHand
<1>3. numTries[t] \in Nat \ {0}
  BY <1>2 DEF OwnerInv, TypeOK, Retry
<1>4. TypeOK'
  BY <1>2, <1>3 DEF OwnerInv, TypeOK, Retry, Add, WorkerPC
<1>5. \A u \in Tasks : numTries'[u] = IF u = t THEN numTries[u] - 1 ELSE numTries[u]
  BY DEF OwnerInv, TypeOK, Retry
<1>6. \A v \in Workers : worker'[v] = IF v = w THEN "retrying" ELSE worker[v]
  BY DEF OwnerInv, TypeOK, Retry
<1>7. \A v \in Workers : InHand(v)' = InHand(v)
  BY <1>2, <1>6 DEF InHand
<1>8. \A u \in Tasks : InQueue(u)' = InQueue(u)
  BY <1>1 DEF InQueue
<1>9. \A v \in Workers : InHand(v) /\ v # w => held[v] \in Tasks \ {t}
  BY <1>2 DEF OwnerInv, SoleOwner, Placed
<1>10. Panicked' = Panicked
  BY <1>1 DEF Panicked
<1>11. client[t] # "sending"
  BY <1>2 DEF OwnerInv, Placed, Pending, DeadTogether
<1>12. DeadTogether'
  BY <1>1, <1>2, <1>6, <1>10 DEF OwnerInv, DeadTogether
<1>13. Placed'
  BY <1>1, <1>7, <1>8, <1>10 DEF OwnerInv, Placed, Pending
<1>14. Owned'
  BY <1>1, <1>7, <1>8 DEF OwnerInv, Owned
<1>15. SoleOwner'
  BY <1>1, <1>7 DEF OwnerInv, SoleOwner, InQueue
<1>16. NotifiedOnce'
  BY <1>1, <1>8 DEF OwnerInv, NotifiedOnce
<1>17. Budget'
  <2>1. attempts[t] + numTries[t] = granted[t] + 1 /\ attempts[t] \in Nat /\ granted[t] \in Nat
    BY <1>2 DEF OwnerInv, Budget, TypeOK
  <2>2. attempts'[t] + numTries'[t] = granted'[t]
    <3>1. numTries'[t] = numTries[t] - 1
      BY <1>2, <1>5
    <3> QED BY <1>1, <1>3, <2>1, <3>1
  <2>3. \A u \in Tasks : u # t => numTries'[u] = numTries[u]
    BY <1>5
  <2>4. \A u \in Tasks : client'[u] = "sending" => numTries'[u] = granted'[u]
    BY <1>1, <1>11, <2>3 DEF OwnerInv, Budget
  <2>5. \A u \in Tasks : InQueue(u)' => attempts'[u] + numTries'[u] = granted'[u]
    BY <1>1, <1>2, <1>8, <2>3 DEF OwnerInv, Budget
  <2>6. \A v \in Workers : v # w /\ worker'[v] = "retrying" =>
          attempts'[held'[v]] + numTries'[held'[v]] = granted'[held'[v]]
    BY <1>1, <1>6, <1>9, <2>3 DEF OwnerInv, Budget, InHand
  <2>7. \A v \in Workers : worker'[v] = "running" =>
          attempts'[held'[v]] + numTries'[held'[v]] = granted'[held'[v]] + 1
    BY <1>1, <1>6, <1>9, <2>3 DEF OwnerInv, Budget, InHand
  <2>8. /\ \A u \in Tasks : attempts'[u] <= granted'[u] + 1
        /\ \A u \in Tasks : client'[u] \in {"new", "sending", "refused"} => attempts'[u] = 0
    BY <1>1 DEF OwnerInv, Budget
  <2> QED BY <1>1, <2>2, <2>4, <2>5, <2>6, <2>7, <2>8 DEF Budget
<1> QED BY <1>4, <1>12, <1>13, <1>14, <1>15, <1>16, <1>17 DEF OwnerInv

(* A worker's own send moves its task to the end of the channel *)
LEMMA ResendOwner ==
  ASSUME OwnerInv, NEW w \in Workers, Resend(w)
  PROVE  OwnerInv'
<1>1. CASE closed
  BY <1>1, PanicOwner DEF Resend
<1>2. CASE ~closed
  <2> DEFINE t == held[w]
  <2>1. UNCHANGED <<stopper, client, held, numTries, granted, attempts, notified>>
        /\ queue' = Append(queue, t) /\ worker' = [worker EXCEPT ![w] = "finished"]
        /\ worker[w] = "retrying" /\ UNCHANGED <<closed, queued, stop, late>>
    BY <1>2 DEF Resend
  <2>2. t \in Tasks /\ ~InQueue(t) /\ InHand(w) /\ Pending(t)
    BY <2>1 DEF OwnerInv, Placed, SoleOwner, InHand
  <2>3. queue \in Seq(Tasks) /\ Len(queue) \in Nat
    BY <2>2, AppendFacts DEF OwnerInv, TypeOK
  <2>4. TypeOK'
    BY <2>1, <2>2, <2>3, AppendFacts DEF OwnerInv, TypeOK, WorkerPC
  <2>5. \A v \in Workers : worker'[v] = IF v = w THEN "finished" ELSE worker[v]
    BY <2>1 DEF OwnerInv, TypeOK
  <2>6. \A v \in Workers : InHand(v)' <=> InHand(v) /\ v # w
    BY <2>5 DEF InHand
  <2>7. \A u \in Tasks : InQueue(u)' <=> InQueue(u) \/ u = t
    BY <2>1, <2>2, <2>3, AppendFacts DEF InQueue
  <2>8. \A v \in Workers : InHand(v) /\ v # w => held[v] \in Tasks \ {t}
    BY <2>2 DEF OwnerInv, SoleOwner, Placed
  <2>9. Panicked' = Panicked
    BY <2>1 DEF Panicked
  <2>10. \A i, j \in 1 .. Len(queue') : queue'[i] = queue'[j] => i = j
    BY <2>1, <2>2, <2>3, AppendFacts DEF OwnerInv, SoleOwner, InQueue
  <2>11. attempts[t] + numTries[t] = granted[t]
    BY <2>1 DEF OwnerInv, Budget
  <2> HIDE DEF t
  <2>12. DeadTogether'
    BY <2>1, <2>5, <2>9 DEF OwnerInv, DeadTogether
  <2>13. Placed'
    BY <2>1, <2>2, <2>6, <2>7, <2>9 DEF OwnerInv, Placed, Pending
  <2>14. Owned'
    BY <2>1, <2>6, <2>7 DEF OwnerInv, Owned, t
  <2>15. SoleOwner'
    <3>1. ASSUME NEW v \in Workers, InHand(v)' PROVE ~InQueue(held[v])'
      <4>1. held[v] \in Tasks \ {t} /\ ~InQueue(held[v])
        BY <2>6, <2>8, <3>1 DEF OwnerInv, SoleOwner
      <4>2. PICK u \in Tasks : u = held[v]
        BY <4>1
      <4>3. ~InQueue(u)'
        BY <2>7, <4>1, <4>2
      <4> QED BY <2>1, <4>2, <4>3 DEF InQueue
    <3>2. \A u, v \in Workers : InHand(u)' /\ InHand(v)' /\ held'[u] = held'[v] => u = v
      BY <2>1, <2>6 DEF OwnerInv, SoleOwner
    <3> QED BY <2>10, <3>1, <3>2 DEF SoleOwner
  <2>16. NotifiedOnce'
    BY <2>1, <2>2, <2>7 DEF OwnerInv, NotifiedOnce, Pending
  <2>17. Budget'
    BY <2>1, <2>5, <2>7, <2>11 DEF OwnerInv, Budget
  <2> QED BY <2>4, <2>12, <2>13, <2>14, <2>15, <2>16, <2>17 DEF OwnerInv
<1> QED BY <1>1, <1>2

(* Every step keeps the owner invariant *)
LEMMA OwnerStep == OwnerInv /\ [Next]_vars => OwnerInv'
<1> SUFFICES ASSUME OwnerInv, [Next]_vars PROVE OwnerInv'
  OBVIOUS
<1>0. TypeOK
  BY DEF OwnerInv
<1>1. ASSUME NEW t \in Tasks, NEW retries \in Retries, Dispatch(t, retries) PROVE OwnerInv'
  BY <1>1, DispatchOwner
<1>2. ASSUME NEW t \in Tasks, Send(t) PROVE OwnerInv'
  BY <1>2, SendOwner
<1>3. ASSUME NEW t \in Tasks, SendTimeout(t) PROVE OwnerInv'
  <2>1. TypeOK'
    BY <1>0, <1>3 DEF TypeOK, SendTimeout, Done, ClientPC, StopperPC
  <2>2. Panicked' <=> Panicked
    BY <1>3 DEF SendTimeout, Done, Panicked
  <2>3. \A u \in Tasks : client'[u] # client[u] => client[u] = "sending" /\ client'[u] = "refused"
    BY <1>0, <1>3 DEF TypeOK, SendTimeout
  <2>4. UNCHANGED <<queue, worker, held, numTries, granted, attempts, notified>>
    BY <1>3 DEF SendTimeout
  <2> QED BY <2>1, <2>2, <2>3, <2>4, IdleOwner
<1>4. ASSUME NEW w \in Workers, Take(w) PROVE OwnerInv'
  BY <1>4, TakeOwner
<1>5. ASSUME NEW w \in Workers, Exit(w) \/ Finish(w) PROVE OwnerInv'
  <2>1. TypeOK'
    <3>1. CASE Exit(w)
      BY <1>0, <3>1 DEF TypeOK, Exit, WorkerPC
    <3>2. CASE Finish(w)
      BY <1>0, <3>2 DEF TypeOK, Finish, Done, WorkerPC, StopperPC
    <3> QED BY <1>5, <3>1, <3>2
  <2>2. Panicked' <=> Panicked
    BY <1>5 DEF Exit, Finish, Done, Panicked
  <2>3. \A v \in Workers : worker'[v] # worker[v] =>
          worker[v] \in {"idle", "finished"} /\ worker'[v] \in {"idle", "exited"}
    BY <1>0, <1>5 DEF TypeOK, Exit, Finish
  <2>4. UNCHANGED <<queue, client, held, numTries, granted, attempts, notified>>
    BY <1>5 DEF Exit, Finish
  <2> QED BY <2>1, <2>2, <2>3, <2>4, IdleOwner
<1>6. ASSUME NEW w \in Workers, Succeed(w) \/ ResendTimeout(w) \/ \E d \in BOOLEAN : Fail(w, d)
      PROVE  OwnerInv'
  <2>1. InHand(w) /\ held[w] \in Tasks
    BY <1>6 DEF Succeed, ResendTimeout, Fail, InHand, OwnerInv, Placed
  <2>2. Notify(w) /\ worker' = [worker EXCEPT ![w] = "finished"]
        /\ UNCHANGED <<queue, client, held, numTries, granted, attempts, closed, stop, late>>
    BY <1>6 DEF Succeed, ResendTimeout, Fail
  <2>3. (stopper' = stopper \/ stopper' = "woken") /\ (queued' = queued \/ queued' = queued - 1)
    BY <1>6 DEF Succeed, ResendTimeout, Fail, Done
  <2>4. TypeOK'
    <3>1. notified' \in [Tasks -> Nat]
      BY <1>0, <2>1, <2>2 DEF TypeOK, Notify
    <3>2. worker' \in [Workers -> WorkerPC]
      BY <1>0, <2>2 DEF TypeOK, WorkerPC
    <3>3. stopper' \in StopperPC /\ queued' \in Int
      BY <1>0, <2>3 DEF TypeOK, StopperPC
    <3> QED BY <1>0, <2>2, <3>1, <3>2, <3>3 DEF TypeOK
  <2> QED BY ZenonT(60), <2>1, <2>2, <2>3, <2>4, ReportOwner
<1>7. ASSUME NEW w \in Workers, Retry(w) PROVE OwnerInv'
  BY <1>7, RetryOwner
<1>8. ASSUME NEW w \in Workers, Resend(w) PROVE OwnerInv'
  BY <1>8, ResendOwner
<1>9. CASE Panic
  BY <1>9, PanicOwner
<1>10. CASE Stop \/ StopWait \/ (StopWoken /\ ~Panic) \/ Close \/ UNCHANGED vars
  <2>1. TypeOK'
    BY ZenonT(60), <1>0, <1>10 DEF TypeOK, Stop, StopWait, StopWoken, Close, vars, StopperPC
  <2>2. Panicked' <=> Panicked
    BY <1>10 DEF Stop, StopWait, StopWoken, Close, vars, Panicked
  <2>3. UNCHANGED <<queue, client, worker, held, numTries, granted, attempts, notified>>
    BY <1>10 DEF Stop, StopWait, StopWoken, Close, vars
  <2> QED BY <2>1, <2>2, <2>3, IdleOwner
<1> QED
  BY <1>1, <1>2, <1>3, <1>4, <1>5, <1>6, <1>7, <1>8, <1>9, <1>10
  DEF Next, dispatch, runWorker, StopStep

-----------------------------------------------------------------------------
(* The sets the WaitGroup counts are finite *)
LEMMA CountsFinite ==
  ASSUME FiniteFacts
  PROVE  /\ IsFiniteSet(Busy) /\ Cardinality(Busy) \in Nat
         /\ IsFiniteSet(Retrying) /\ Cardinality(Retrying) \in Nat
         /\ IsFiniteSet(Sending) /\ Cardinality(Sending) \in Nat
<1>1. Busy \subseteq Workers /\ Retrying \subseteq Workers /\ Sending \subseteq Tasks
  BY DEF Busy, Retrying, Sending
<1> QED BY <1>1, TasksAssumption, WorkersAssumption, CountSubset

(* The WaitGroup's count is exact, step by step *)
LEMMA QueuedStep ==
  ASSUME FiniteFacts, OwnerInv, QueuedExact, [Next]_vars
  PROVE  QueuedExact'
<1> SUFFICES ASSUME ~Panicked' PROVE QueuedExact'
  BY DEF QueuedExact
<1> DEFINE B == Cardinality(Busy)
           R == Cardinality(Retrying)
           S == Cardinality(Sending)
<1>0. TypeOK /\ queued \in Int /\ queue \in Seq(Tasks) /\ Len(queue) \in Nat
  BY DEF OwnerInv, TypeOK
<1>1. IsFiniteSet(Busy) /\ IsFiniteSet(Retrying) /\ IsFiniteSet(Sending) /\ B \in Nat /\ R \in Nat /\ S \in Nat
  BY CountsFinite
<1>2. ~Panicked => queued = Len(queue) + B + R + S
  BY DEF QueuedExact
<1>3. \A w \in Workers : worker[w] # "dead" => ~Panicked
  BY DEF OwnerInv, DeadTogether
<1>4. \A t \in Tasks : client[t] # "dead" => ~Panicked
  BY DEF OwnerInv, DeadTogether
<1>5. ASSUME queued' = Len(queue)' + B' + R' + S' PROVE QueuedExact'
  BY <1>5 DEF QueuedExact
<1>6. UNCHANGED worker => B' = B /\ R' = R
  BY DEF Busy, Retrying
<1>7. UNCHANGED client => S' = S
  BY DEF Sending
<1>8. Panic => FALSE
  BY DEF Panic, Panicked
<1>9. ASSUME NEW t \in Tasks, NEW retries \in Retries, Dispatch(t, retries) PROVE QueuedExact'
  <2>1. t \notin Sending /\ Sending' = Sending \cup {t}
    BY <1>0, <1>9 DEF TypeOK, Dispatch, Sending
  <2>2. S' = S + 1
    BY <1>1, <2>1, CountAdd, Zenon
  <2>3. queued' = queued + 1 /\ UNCHANGED <<queue, worker>> /\ ~Panicked
    BY <1>4, <1>9 DEF Dispatch, Add
  <2> HIDE DEF B, R, S
  <2> QED BY <1>0, <1>1, <1>2, <1>5, <1>6, <2>2, <2>3
<1>10. ASSUME NEW t \in Tasks, Send(t) PROVE QueuedExact'
  <2>1. t \in Sending /\ Sending' = Sending \ {t}
    BY <1>0, <1>8, <1>10 DEF TypeOK, Send, Sending
  <2>2. S' = S - 1
    BY <1>1, <2>1, CountRemove, Zenon
  <2>3. queue' = Append(queue, t) /\ UNCHANGED <<queued, worker>> /\ ~Panicked
    BY <1>4, <1>8, <1>10 DEF Send
  <2>4. Len(queue)' = Len(queue) + 1
    BY <1>0, <2>3, AppendFacts
  <2> HIDE DEF B, R, S
  <2> QED BY <1>0, <1>1, <1>2, <1>5, <1>6, <2>2, <2>3, <2>4
<1>11. ASSUME NEW t \in Tasks, SendTimeout(t) PROVE QueuedExact'
  <2>1. t \in Sending /\ Sending' = Sending \ {t}
    BY <1>0, <1>11 DEF TypeOK, SendTimeout, Sending
  <2>2. S' = S - 1
    BY <1>1, <2>1, CountRemove, Zenon
  <2>3. queued' = queued - 1 /\ UNCHANGED <<queue, worker>> /\ ~Panicked
    BY <1>4, <1>11 DEF SendTimeout, Done
  <2> HIDE DEF B, R, S
  <2> QED BY <1>0, <1>1, <1>2, <1>5, <1>6, <2>2, <2>3
<1>12. ASSUME NEW w \in Workers, Take(w) PROVE QueuedExact'
  <2>1. w \notin Busy /\ Busy' = Busy \cup {w} /\ Retrying' = Retrying
    BY <1>0, <1>12 DEF TypeOK, Take, Busy, Retrying
  <2>2. B' = B + 1 /\ R' = R
    BY ZenonT(60), <1>1, <2>1, CountAdd
  <2>3. queue' = Tail(queue) /\ queue # <<>> /\ UNCHANGED <<queued, client>> /\ ~Panicked
    BY <1>3, <1>12 DEF Take
  <2>4. Len(queue)' = Len(queue) - 1
    BY <1>0, <2>3, TailFacts
  <2> HIDE DEF B, R, S
  <2> QED BY <1>0, <1>1, <1>2, <1>5, <1>7, <2>2, <2>3, <2>4
<1>13. ASSUME NEW w \in Workers, Exit(w) PROVE QueuedExact'
  <2>1. Busy' = Busy /\ Retrying' = Retrying
    BY <1>0, <1>13 DEF TypeOK, Exit, Busy, Retrying
  <2>3. UNCHANGED <<queue, queued, client>> /\ ~Panicked
    BY <1>3, <1>13 DEF Exit
  <2>4. B' = B /\ R' = R
    BY <2>1
  <2> HIDE DEF B, R, S
  <2> QED BY <1>0, <1>1, <1>2, <1>5, <1>7, <2>3, <2>4
<1>14. ASSUME NEW w \in Workers, Succeed(w) \/ \E d \in BOOLEAN : Fail(w, d) PROVE QueuedExact'
  <2>1. Busy' = Busy /\ Retrying' = Retrying
    BY <1>0, <1>14 DEF TypeOK, Succeed, Fail, Busy, Retrying
  <2>3. UNCHANGED <<queue, queued, client>> /\ ~Panicked
    BY <1>3, <1>14 DEF Succeed, Fail
  <2>4. B' = B /\ R' = R
    BY <2>1
  <2> HIDE DEF B, R, S
  <2> QED BY <1>0, <1>1, <1>2, <1>5, <1>7, <2>3, <2>4
<1>15. ASSUME NEW w \in Workers, Retry(w) PROVE QueuedExact'
  <2>1. w \notin Retrying /\ Retrying' = Retrying \cup {w} /\ Busy' = Busy
    BY <1>0, <1>15 DEF TypeOK, Retry, Busy, Retrying
  <2>2. R' = R + 1 /\ B' = B
    BY <1>1, <2>1, CountAdd, Zenon
  <2>3. queued' = queued + 1 /\ UNCHANGED <<queue, client>> /\ ~Panicked
    BY <1>3, <1>15 DEF Retry, Add
  <2> HIDE DEF B, R, S
  <2> QED BY <1>0, <1>1, <1>2, <1>5, <1>7, <2>2, <2>3
<1>16. ASSUME NEW w \in Workers, Resend(w) PROVE QueuedExact'
  <2>1. w \in Retrying /\ Retrying' = Retrying \ {w} /\ Busy' = Busy
    BY <1>0, <1>8, <1>16 DEF TypeOK, Resend, Busy, Retrying
  <2>2. R' = R - 1 /\ B' = B
    BY <1>1, <2>1, CountRemove, Zenon
  <2>3. queue' = Append(queue, held[w]) /\ UNCHANGED <<queued, client>> /\ ~Panicked
    BY <1>3, <1>8, <1>16 DEF Resend
  <2>4. held[w] \in Tasks
    BY <1>16 DEF OwnerInv, Placed, InHand, Resend
  <2>5. Len(queue)' = Len(queue) + 1
    BY <1>0, <2>3, <2>4, AppendFacts
  <2> HIDE DEF B, R, S
  <2> QED BY <1>0, <1>1, <1>2, <1>5, <1>7, <2>2, <2>3, <2>5
<1>17. ASSUME NEW w \in Workers, ResendTimeout(w) PROVE QueuedExact'
  <2>1. w \in Retrying /\ Retrying' = Retrying \ {w} /\ Busy' = Busy
    BY <1>0, <1>17 DEF TypeOK, ResendTimeout, Busy, Retrying
  <2>2. R' = R - 1 /\ B' = B
    BY <1>1, <2>1, CountRemove, Zenon
  <2>3. queued' = queued - 1 /\ UNCHANGED <<queue, client>> /\ ~Panicked
    BY <1>3, <1>17 DEF ResendTimeout, Done
  <2> HIDE DEF B, R, S
  <2> QED BY <1>0, <1>1, <1>2, <1>5, <1>7, <2>2, <2>3
<1>18. ASSUME NEW w \in Workers, Finish(w) PROVE QueuedExact'
  <2>1. w \in Busy /\ Busy' = Busy \ {w} /\ Retrying' = Retrying
    BY <1>0, <1>18 DEF TypeOK, Finish, Busy, Retrying
  <2>2. B' = B - 1 /\ R' = R
    BY <1>1, <2>1, CountRemove, Zenon
  <2>3. queued' = queued - 1 /\ UNCHANGED <<queue, client>> /\ ~Panicked
    BY <1>3, <1>18 DEF Finish, Done
  <2> HIDE DEF B, R, S
  <2> QED BY <1>0, <1>1, <1>2, <1>5, <1>7, <2>2, <2>3
<1>19. CASE Stop \/ StopStep \/ UNCHANGED vars
  <2>1. UNCHANGED <<queue, queued, client, worker>> /\ ~Panicked
    BY <1>8, <1>19 DEF Stop, StopStep, StopWait, StopWoken, Close, vars, Panicked
  <2> HIDE DEF B, R, S
  <2> QED BY <1>0, <1>1, <1>2, <1>5, <1>6, <1>7, <2>1
<1> QED
  BY <1>9, <1>10, <1>11, <1>12, <1>13, <1>14, <1>15, <1>16, <1>17, <1>18, <1>19
  DEF Next, dispatch, runWorker

-----------------------------------------------------------------------------
(* At zero nothing is queued, under way or being sent *)
LEMMA ZeroMeansIdle ==
  ASSUME FiniteFacts, OwnerInv, QueuedExact, ~Panicked, queued = 0
  PROVE  /\ queue = <<>>
         /\ \A w \in Workers : worker[w] \notin {"running", "retrying", "finished"}
         /\ \A t \in Tasks : client[t] # "sending"
<1>1. Len(queue) \in Nat /\ queue \in Seq(Tasks)
  BY DEF OwnerInv, TypeOK
<1>2. Cardinality(Busy) = 0 /\ Cardinality(Sending) = 0 /\ Len(queue) = 0
  BY <1>1, CountsFinite DEF QueuedExact
<1>3. Busy = {} /\ Sending = {}
  BY <1>2, CountsFinite, CountZero
<1> QED BY <1>1, <1>2, <1>3 DEF Busy, Sending

(* Past its Wait, Stop stays quiet when no dispatch begins after it was called *)
LEMMA StopInvStep ==
  ASSUME FiniteFacts, ~late', OwnerInv, QueuedExact, StopInv, [Next]_vars
  PROVE  StopInv'
<1>0. TypeOK /\ queued \in Int /\ ~Panicked
  BY DEF OwnerInv, TypeOK, StopInv
<1>1. queued = 0 => /\ queue = <<>>
                    /\ \A w \in Workers : worker[w] \notin {"running", "retrying", "finished"}
                    /\ \A t \in Tasks : client[t] # "sending"
  BY <1>0, ZeroMeansIdle
<1>2. closed => queued = 0
  BY DEF StopInv
<1>3. stopper \in {"woken", "close", "stopped"} => queued = 0
  BY DEF StopInv
<1>4. ASSUME NEW t \in Tasks, NEW retries \in Retries, Dispatch(t, retries) PROVE StopInv'
  BY ZenonT(60), <1>4 DEF Dispatch, StopInv, Panicked
<1>5. ASSUME NEW t \in Tasks, Send(t) PROVE StopInv'
  <2>1. ~closed
    BY <1>1, <1>2, <1>5 DEF Send
  <2> QED BY <1>5, <2>1 DEF Send, StopInv, Panicked
<1>6. ASSUME Done, UNCHANGED <<stop, closed>>, queued # 0 PROVE StopInv'
  BY <1>0, <1>6 DEF Done, StopInv, Panicked
<1>7. ASSUME NEW t \in Tasks, SendTimeout(t) PROVE StopInv'
  BY <1>1, <1>6, <1>7 DEF SendTimeout
<1>8. ASSUME NEW w \in Workers,
             Take(w) \/ Exit(w) \/ Succeed(w) \/ \E d \in BOOLEAN : Fail(w, d)
      PROVE  StopInv'
  <2>1. UNCHANGED <<stopper, stop, queued, closed>>
    BY <1>8 DEF Take, Exit, Succeed, Fail
  <2> QED BY <2>1 DEF StopInv, Panicked
<1>9. ASSUME NEW w \in Workers, Retry(w) PROVE StopInv'
  <2>1. stopper \notin {"woken", "close", "stopped"} /\ UNCHANGED <<stopper, stop, closed>>
    BY <1>1, <1>3, <1>9 DEF Retry
  <2> QED BY <2>1 DEF StopInv, Panicked
<1>10. ASSUME NEW w \in Workers, Resend(w) PROVE StopInv'
  <2>1. ~closed
    BY <1>1, <1>2, <1>10 DEF Resend
  <2> QED BY <1>10, <2>1 DEF Resend, StopInv, Panicked
<1>11. ASSUME NEW w \in Workers, ResendTimeout(w) \/ Finish(w) PROVE StopInv'
  <2>1. queued # 0 /\ Done /\ UNCHANGED <<stop, closed>>
    BY <1>1, <1>11 DEF ResendTimeout, Finish
  <2> QED BY <1>6, <2>1
<1>12. CASE Stop \/ StopWait \/ Close \/ UNCHANGED vars
  BY <1>12 DEF Stop, StopWait, Close, vars, StopInv, Panicked
<1>13. CASE StopWoken
  <2>1. queued = 0
    BY <1>3, <1>13 DEF StopWoken
  <2> QED BY <1>13, <2>1 DEF StopWoken, StopInv, Panicked
<1> QED
  BY <1>4, <1>5, <1>7, <1>8, <1>9, <1>10, <1>11, <1>12, <1>13
  DEF Next, dispatch, runWorker, StopStep

(* late is never taken back *)
LEMMA LateStays ==
  ASSUME [Next]_vars, late
  PROVE  late'
BY ZenonT(60) DEF Next, vars, Dispatch, dispatch, Send, SendTimeout, runWorker, Take, Exit, Succeed, Fail,
       Retry, Resend, ResendTimeout, Finish, Stop, StopStep, StopWait, StopWoken, Close, Panic

(* Nothing is counted before the first dispatch *)
LEMMA QueuedInit ==
  ASSUME FiniteFacts, Init
  PROVE  QueuedExact
<1>1. Busy = {} /\ Retrying = {} /\ Sending = {} /\ Len(queue) = 0 /\ queued = 0
  BY DEF Init, Busy, Retrying, Sending
<1>2. Cardinality({}) = 0
  BY DEF FiniteFacts
<1> QED BY <1>1, <1>2 DEF QueuedExact

(* A Stop that returned left nothing without its outcome *)
LEMMA StoppedDrained ==
  ASSUME FiniteFacts, ~late, OwnerInv, QueuedExact, StopInv
  PROVE  StopDrained
<1>1. ~Panicked
  BY DEF StopInv
<1>2. ASSUME stopper = "stopped", NEW t \in Tasks, client[t] = "accepted" PROVE notified[t] = 1
  <2>1. queue = <<>> /\ \A w \in Workers : ~InHand(w)
    BY <1>1, <1>2, ZeroMeansIdle DEF StopInv, InHand
  <2>2. ~InQueue(t)
    BY <2>1 DEF InQueue
  <2> QED BY <1>2, <2>1, <2>2 DEF OwnerInv, Owned
<1> QED BY <1>1, <1>2 DEF StopDrained

-----------------------------------------------------------------------------
(* The owner invariant: a task is queued once or with one worker, its owner
   has heard nothing yet, and its tries add up to what was granted *)
THEOREM DispatcherInvariant == Spec => []OwnerInv
<1>1. Init => OwnerInv
  BY InitOwner
<1>2. OwnerInv /\ [Next]_vars => OwnerInv'
  BY OwnerStep
<1> QED BY <1>1, <1>2, PTL DEF Spec

(* The dispatcher's state keeps its types *)
THEOREM DispatcherTypeOK == Spec => []TypeOK
<1>1. OwnerInv => TypeOK
  BY DEF OwnerInv
<1> QED BY <1>1, DispatcherInvariant, PTL

(* numTries and taskData have one owner: the workers need no lock for them *)
THEOREM DispatcherSoleOwner == Spec => []SoleOwner
<1>1. OwnerInv => SoleOwner
  BY DEF OwnerInv
<1> QED BY <1>1, DispatcherInvariant, PTL

(* The owner's successFn or errorFn is called at most once per task *)
THEOREM DispatcherNotifiedOnce == Spec => []NotifiedOnce
<1>1. OwnerInv => NotifiedOnce
  BY DEF OwnerInv
<1> QED BY <1>1, DispatcherInvariant, PTL

(* taskFn is called at most once more often than WithRetries asked for *)
THEOREM DispatcherRetryBudget == Spec => []RetryBudget
<1>1. OwnerInv => RetryBudget
  BY DEF OwnerInv, Budget, RetryBudget
<1> QED BY <1>1, DispatcherInvariant, PTL

-----------------------------------------------------------------------------
USE DEF IsFiniteSet, Cardinality
LOCAL INSTANCE FiniteSetTheorems

(* The sizes of finite sets, from the library *)
LEMMA FiniteFactsHold == FiniteFacts
<1>1. IsFiniteSet({}) /\ Cardinality({}) = 0
  BY FS_EmptySet
<1>2. \A S : IsFiniteSet(S) => Cardinality(S) \in Nat
  BY FS_CardinalityType
<1>3. \A S : IsFiniteSet(S) /\ Cardinality(S) = 0 => S = {}
  BY FS_EmptySet
<1>4. \A S : IsFiniteSet(S) => \A T \in SUBSET S :
        /\ IsFiniteSet(T)
        /\ Cardinality(T) <= Cardinality(S)
        /\ Cardinality(T) = Cardinality(S) => T = S
  BY FS_Subset
<1>5. \A S, x : IsFiniteSet(S) /\ x \notin S =>
        IsFiniteSet(S \cup {x}) /\ Cardinality(S \cup {x}) = Cardinality(S) + 1
  BY FS_AddElement
<1>6. \A S, x : IsFiniteSet(S) /\ x \in S =>
        IsFiniteSet(S \ {x}) /\ Cardinality(S \ {x}) = Cardinality(S) - 1
  BY FS_RemoveElement
<1> QED BY <1>1, <1>2, <1>3, <1>4, <1>5, <1>6, Zenon DEF FiniteFacts, IsFiniteSet, Cardinality

(* The WaitGroup td.queued counts exactly what Stop has to wait for *)
THEOREM DispatcherQueuedExact == Spec => []QueuedExact
<1>1. Init => QueuedExact
  BY QueuedInit, FiniteFactsHold
<1>2. OwnerInv /\ QueuedExact /\ [Next]_vars => QueuedExact'
  BY QueuedStep, FiniteFactsHold
<1> QED BY <1>1, <1>2, DispatcherInvariant, PTL DEF Spec

(* If no dispatch begins after Stop was called, Stop returns only when every
   accepted task has had its outcome, and nothing sends on the closed channel *)
THEOREM DispatcherStopDrained == Spec => []StopDrained
<1>1. Init => (~late => StopInv)
  BY DEF Init, StopInv, Panicked
<1>2. OwnerInv /\ QueuedExact /\ (~late => StopInv) /\ [Next]_vars => (~late => StopInv)'
  BY StopInvStep, LateStays, FiniteFactsHold
<1>3. OwnerInv /\ QueuedExact /\ (~late => StopInv) => StopDrained
  BY StoppedDrained, FiniteFactsHold DEF StopDrained
<1> QED BY <1>1, <1>2, <1>3, DispatcherInvariant, DispatcherQueuedExact, PTL DEF Spec
=============================================================================
