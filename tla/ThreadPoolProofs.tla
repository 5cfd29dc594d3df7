------------------------- MODULE ThreadPoolProofs ---------------------------
(***************************************************************************)
(* Proofs about ThreadPool, for any number of units and tasks: the unsigned *)
(* counters never wrap, loads follows the queue, and no wakeup is lost.     *)
(***************************************************************************)
EXTENDS ThreadPool, TLAPS

(* ~thread_pool is at a unit it has not yet joined. *)
DyingInv == /\ user \in {"stop", "wake", "join"} => dying \in Units
            /\ user \in {"ready", "count", "up", "return"} => dying = 0

(* What a unit is about to discount has been counted. *)
UncountInv == \A u \in Units : pc[u] = "count" => loads[u] > 0

(* A unit told to stop has seen it, will look before it can sleep again, or *)
(* has a post that is there or is about to be made.                        *)
StopInv == \A u \in Units :
    ~ active[u] => \/ pc[u] \in {"check", "exit"}
                   \/ sem[u] > 0
                   \/ user = "wake" /\ dying = u

(* A unit that sleeps on tasks has a post, there or about to be made. *)
SleepInv == \A u \in Units :
    pc[u] = "down" /\ loads[u] > 0 => sem[u] > 0 \/ (user = "up" /\ index = u)

(* A unit has a task in its hands, from its dequeue to its signal. *)
Busy(u) == pc[u] \in {"count", "begin", "run", "finish", "signal"}
Places(u) == 1 .. Len(queue[u])

(* A task that has been made is in one place: in one queue, or in the hands *)
(* of one unit.                                                            *)
PlaceInv ==
    /\ \A u \in Units : \A i \in Places(u) : queue[u][i] <= made
    /\ \A u, v \in Units : \A i \in Places(u), j \in Places(v) :
           queue[u][i] = queue[v][j] => u = v /\ i = j
    /\ \A u \in Units : Busy(u) =>
           /\ held[u] \in Tasks /\ held[u] <= made
           /\ \A v \in Units : Busy(v) /\ held[u] = held[v] => u = v
           /\ \A v \in Units : \A j \in Places(v) : queue[v][j] # held[u]

(* What a task has come to follows from where it is, and nobody is past its *)
(* wait for a task that is still to be run.                                *)
StageInv ==
    /\ \A u \in Units : \A i \in Places(u) :
           state[queue[u][i]] = "wait" /\ ran[queue[u][i]] = 0
    /\ \A u \in Units :
           /\ pc[u] \in {"count", "begin"} => state[held[u]] = "wait"
           /\ pc[u] \in {"count", "begin", "run"} => ran[held[u]] = 0
           /\ pc[u] \in {"run", "finish"} => state[held[u]] = "error"
           /\ pc[u] = "finish" => held[u] \notin Throwing
           /\ pc[u] \in {"finish", "signal"} => ran[held[u]] = 1
           /\ pc[u] = "signal" => state[held[u]] # "wait"

ResultInv ==
    \A t \in Tasks :
        /\ t > made => state[t] = "wait" /\ ran[t] = 0
        /\ state[t] = "done" => ran[t] = 1 /\ t \notin Throwing
        /\ signal[t] > 0 \/ waiter[t] = "verdict" => state[t] # "wait"

RunInv == PlaceInv /\ StageInv /\ ResultInv /\ ValueAfterRun

IInv == TypeOK /\ DyingInv /\ LoadsCountQueue /\ UncountInv /\ StopInv /\ SleepInv

-----------------------------------------------------------------------------
(* The round robin stays within the units. *)
LEMMA IndexWraps == ASSUME NEW i \in Units PROVE (i + 1) % Cores \in Units
  BY CoresAssumption DEF Units

(* A task's number is also a value of held, where 0 stands for none. *)
LEMMA TaskIsHeld == ASSUME NEW t \in Tasks PROVE t \in 0 .. Limit
  BY LimitAssumption DEF Tasks

(* The invariant holds of a pool whose units have just been started. *)
LEMMA InitIInv == Init => IInv
<1> SUFFICES ASSUME Init PROVE IInv
  OBVIOUS
<1> USE CoresAssumption, LimitAssumption DEF Init, Units
<1>1. TypeOK
  BY DEF TypeOK, UserLabels, UnitLabels, WaiterLabels, Tasks
<1>2. DyingInv /\ UncountInv /\ StopInv /\ SleepInv
  BY DEF DyingInv, UncountInv, StopInv, SleepInv
<1>3. LoadsCountQueue
  BY DEF LoadsCountQueue, Pushed, Popped, Joined
<1> QED
  BY <1>1, <1>2, <1>3 DEF IInv

(* Every step keeps every variable in its range. *)
LEMMA NextTypeOK == IInv /\ [Next]_vars => TypeOK'
<1> SUFFICES ASSUME TypeOK, DyingInv, UncountInv, [Next]_vars PROVE TypeOK'
  BY DEF IInv
<1> USE DEF TypeOK, userVars, unitVars, taskVars
<1>1. CASE Push
  <2>1. made + 1 \in Tasks /\ made + 1 \in 0 .. Limit
    BY <1>1, LimitAssumption DEF Push, Tasks
  <2>2. queue' \in [Units -> Seq(Tasks)]
    BY <1>1, <2>1 DEF Push
  <2> QED
    BY <1>1, <2>1, <2>2 DEF Push, UserLabels
<1>2. CASE Count
  BY <1>2 DEF Count, UserLabels
<1>3. CASE Up
  BY <1>3 DEF Up, UserLabels
<1>4. CASE Return
  BY <1>4, IndexWraps DEF Return, UserLabels, WaiterLabels
<1>5. CASE Destroy
  BY <1>5 DEF Destroy, UserLabels
<1>6. CASE Stop
  BY <1>6 DEF Stop, UserLabels
<1>7. CASE WakeUnit
  <2>1. sem' \in [Units -> Nat]
    BY <1>7 DEF WakeUnit, DyingInv
  <2> QED
    BY <1>7, <2>1 DEF WakeUnit, UserLabels
<1>8. CASE Join
  <2>1. dying + 1 \in 0 .. Cores
    BY <1>8, CoresAssumption DEF Join, DyingInv, Units
  <2>2. queue' \in [Units -> Seq(Tasks)]
    <3>1. <<>> \in Seq(Tasks)
      OBVIOUS
    <3> QED
      BY <1>8, <3>1 DEF Join
  <2> QED
    BY <1>8, <2>1, <2>2 DEF Join, UserLabels
<1>9. ASSUME NEW u \in Units, UnitStep(u)
      PROVE TypeOK'
  <2> USE DEF Goto
  <2>1. CASE Check(u)
    BY <2>1 DEF Check, UnitLabels
  <2>2. CASE Dequeue(u)
    <3>1. held' \in [Units -> 0 .. Limit] /\ queue' \in [Units -> Seq(Tasks)]
      <4>1. CASE loads[u] = 0 \/ queue[u] = <<>>
        BY <2>2, <4>1 DEF Dequeue
      <4>2. CASE ~ (loads[u] = 0 \/ queue[u] = <<>>)
        <5>1. Head(queue[u]) \in Tasks /\ Tail(queue[u]) \in Seq(Tasks)
          BY <4>2
        <5>2. Head(queue[u]) \in 0 .. Limit
          BY <5>1, TaskIsHeld
        <5> QED
          BY <2>2, <4>2, <5>1, <5>2 DEF Dequeue
      <4> QED
        BY <4>1, <4>2
    <3>2. pc' \in [Units -> UnitLabels]
      BY <2>2 DEF Dequeue, UnitLabels
    <3> QED
      BY <2>2, <3>1, <3>2 DEF Dequeue
  <2>3. CASE Uncount(u)
    <3>1. loads[u] - 1 \in Nat
      BY <2>3 DEF Uncount, UncountInv
    <3> QED
      BY <2>3, <3>1 DEF Uncount, UnitLabels
  <2>4. CASE Begin(u)
    BY <2>4 DEF Begin, UnitLabels
  <2>5. CASE Run(u)
    <3>1. ran' \in [Tasks -> Nat]
      <4>1. CASE held[u] \in Tasks
        BY <2>5, <4>1 DEF Run
      <4>2. CASE held[u] \notin Tasks
        <5>1. \A n : [ran EXCEPT ![held[u]] = n] \in [Tasks -> Nat]
          BY <4>2
        <5> QED
          BY <2>5, <5>1 DEF Run
      <4> QED
        BY <4>1, <4>2
    <3>2. pc' \in [Units -> UnitLabels]
      BY <2>5 DEF Run, UnitLabels
    <3> QED
      BY <2>5, <3>1, <3>2 DEF Run
  <2>6. CASE Finish(u)
    BY <2>6 DEF Finish, UnitLabels
  <2>7. CASE Signal(u)
    <3>1. signal' \in [Tasks -> Nat]
      <4>1. CASE held[u] \in Tasks
        BY <2>7, <4>1 DEF Signal
      <4>2. CASE held[u] \notin Tasks
        <5>1. \A n : [signal EXCEPT ![held[u]] = n] \in [Tasks -> Nat]
          BY <4>2
        <5> QED
          BY <2>7, <5>1 DEF Signal
      <4> QED
        BY <4>1, <4>2
    <3>2. pc' \in [Units -> UnitLabels]
      BY <2>7 DEF Signal, UnitLabels
    <3> QED
      BY <2>7, <3>1, <3>2 DEF Signal
  <2>8. CASE Idle(u)
    BY <2>8 DEF Idle, UnitLabels
  <2>9. CASE Down(u)
    <3>1. sem[u] - 1 \in Nat
      BY <2>9 DEF Down
    <3> QED
      BY <2>9, <3>1 DEF Down, UnitLabels
  <2> QED
    BY <1>9, <2>1, <2>2, <2>3, <2>4, <2>5, <2>6, <2>7, <2>8, <2>9 DEF UnitStep
<1>10. ASSUME NEW t \in Tasks, Ask(t) \/ Drop(t) \/ HolderStep(t)
       PROVE TypeOK'
  <2> USE DEF Wait, WaiterLabels
  <2>1. CASE Ask(t)
    BY <2>1 DEF Ask
  <2>2. CASE Drop(t)
    BY <2>2 DEF Drop
  <2>3. CASE WaitDown(t)
    <3>1. signal[t] - 1 \in Nat
      BY <2>3 DEF WaitDown
    <3> QED
      BY <2>3, <3>1 DEF WaitDown
  <2>4. CASE Verdict(t)
    BY <2>4 DEF Verdict
  <2> QED
    BY <1>10, <2>1, <2>2, <2>3, <2>4 DEF HolderStep
<1>11. CASE UNCHANGED vars
  BY <1>11 DEF vars
<1> QED
  BY <1>1, <1>2, <1>3, <1>4, <1>5, <1>6, <1>7, <1>8, <1>9, <1>10, <1>11 DEF Next, UserStep

(* What each unit contributes to the invariant beyond the types. *)
UnitInv(v) ==
    /\ Joined(v) \/ loads[v] + Pushed(v) = Len(queue[v]) + Popped(v)
    /\ pc[v] = "count" => loads[v] > 0
    /\ ~ active[v] => \/ pc[v] \in {"check", "exit"}
                      \/ sem[v] > 0
                      \/ user = "wake" /\ dying = v
    /\ pc[v] = "down" /\ loads[v] > 0 => sem[v] > 0 \/ (user = "up" /\ index = v)

(* The four parts of the invariant are one statement about each unit. *)
LEMMA UnitInvs ==
    (LoadsCountQueue /\ UncountInv /\ StopInv /\ SleepInv) <=> \A v \in Units : UnitInv(v)
  BY DEF UnitInv, LoadsCountQueue, UncountInv, StopInv, SleepInv

(* Every step preserves what a unit contributes, whichever unit it is of. *)
LEMMA NextUnitInv ==
    ASSUME TypeOK, TypeOK', DyingInv, [Next]_vars, NEW v \in Units, UnitInv(v)
    PROVE  UnitInv(v)'
<1>0. /\ loads[v] \in Nat /\ sem[v] \in Nat /\ queue[v] \in Seq(Tasks)
      /\ loads[v]' \in Nat /\ sem[v]' \in Nat /\ queue[v]' \in Seq(Tasks)
      /\ Len(queue[v]) \in Nat
      /\ active[v] \in BOOLEAN /\ dying \in Nat
  BY DEF TypeOK
<1> USE <1>0 DEF UnitInv, Pushed, Popped, Joined, userVars, unitVars, taskVars
<1>1. CASE Push
  <2>1. /\ made + 1 \in Tasks
        /\ queue' = [queue EXCEPT ![index] = Append(@, made + 1)]
        /\ index \in Units /\ queue \in [Units -> Seq(Tasks)]
    BY <1>1, LimitAssumption DEF Push, TypeOK, Tasks
  <2>2. /\ v = index => Len(queue'[v]) = Len(queue[v]) + 1
        /\ v # index => Len(queue'[v]) = Len(queue[v])
    BY <2>1
  <2>3. /\ user = "ready" /\ user' = "count" /\ UNCHANGED <<index, dying>>
        /\ UNCHANGED <<pc[v], loads[v], sem[v], active[v]>>
    BY <1>1 DEF Push
  <2>4. CASE v = index
    <3>1. Len(queue'[v]) = Len(queue[v]) + 1
      BY <2>2, <2>4
    <3>2. (Joined(v) \/ loads[v] + Pushed(v) = Len(queue[v]) + Popped(v))'
      <4>1. Pushed(v) = 0 /\ Pushed(v)' = 1 /\ Popped(v) \in Nat
        BY <2>3, <2>4
      <4>2. Popped(v)' = Popped(v) /\ Joined(v)' = Joined(v)
        BY <2>3
      <4> HIDE DEF Pushed, Popped, Joined
      <4> QED
        BY <4>1, <4>2, <3>1, <2>3
    <3>3. (pc[v] = "count" => loads[v] > 0)'
      BY <3>1, <2>3, <2>4
    <3>4. (~ active[v] => pc[v] \in {"check", "exit"} \/ sem[v] > 0 \/ (user = "wake" /\ dying = v))'
      BY <3>1, <2>3, <2>4
    <3>5. (pc[v] = "down" /\ loads[v] > 0 => sem[v] > 0 \/ (user = "up" /\ index = v))'
      BY <3>1, <2>3, <2>4
    <3> QED
      BY <3>2, <3>3, <3>4, <3>5
  <2>5. CASE v # index
    BY <2>2, <2>3, <2>5
  <2> QED
    BY <2>4, <2>5
<1>2. CASE Count
  <2>1. /\ v = index => loads'[v] = loads[v] + 1
        /\ v # index => loads'[v] = loads[v]
    BY <1>2 DEF Count, TypeOK
  <2>2. /\ user = "count" /\ user' \in {"up", "return"} /\ UNCHANGED <<index, dying>>
        /\ v = index /\ loads[v] = 0 => user' = "up"
        /\ UNCHANGED <<pc[v], queue[v], sem[v], active[v]>>
    BY <1>2 DEF Count
  <2>3. CASE v = index
    <3>1. loads'[v] = loads[v] + 1
      BY <2>1, <2>3
    <3>2. (Joined(v) \/ loads[v] + Pushed(v) = Len(queue[v]) + Popped(v))'
      <4>1. Pushed(v) = 1 /\ Pushed(v)' = 0 /\ Popped(v) \in Nat
        BY <2>2, <2>3
      <4>2. Popped(v)' = Popped(v) /\ Joined(v)' = Joined(v)
        BY <2>2
      <4> HIDE DEF Pushed, Popped, Joined
      <4> QED
        BY <4>1, <4>2, <3>1, <2>2
    <3>3. (pc[v] = "count" => loads[v] > 0)'
      BY <3>1, <2>2, <2>3
    <3>4. (~ active[v] => pc[v] \in {"check", "exit"} \/ sem[v] > 0 \/ (user = "wake" /\ dying = v))'
      BY <3>1, <2>2, <2>3
    <3>5. (pc[v] = "down" /\ loads[v] > 0 => sem[v] > 0 \/ (user = "up" /\ index = v))'
      BY <3>1, <2>2, <2>3
    <3> QED
      BY <3>2, <3>3, <3>4, <3>5
  <2>4. CASE v # index
    BY <2>1, <2>2, <2>4
  <2> QED
    BY <2>3, <2>4
<1>3. CASE Up
  <2>1. /\ v = index => sem'[v] = sem[v] + 1
        /\ v # index => sem'[v] = sem[v]
    BY <1>3 DEF Up, TypeOK
  <2>2. /\ user = "up" /\ user' = "return" /\ UNCHANGED <<index, dying>>
        /\ UNCHANGED <<pc[v], queue[v], loads[v], active[v]>>
    BY <1>3 DEF Up
  <2>3. CASE v = index
    <3>1. sem'[v] = sem[v] + 1
      BY <2>1, <2>3
    <3>2. (Joined(v) \/ loads[v] + Pushed(v) = Len(queue[v]) + Popped(v))'
      BY <3>1, <2>2, <2>3
    <3>3. (pc[v] = "count" => loads[v] > 0)'
      BY <3>1, <2>2, <2>3
    <3>4. (~ active[v] => pc[v] \in {"check", "exit"} \/ sem[v] > 0 \/ (user = "wake" /\ dying = v))'
      BY <3>1, <2>2, <2>3
    <3>5. (pc[v] = "down" /\ loads[v] > 0 => sem[v] > 0 \/ (user = "up" /\ index = v))'
      BY <3>1, <2>2, <2>3
    <3> QED
      BY <3>2, <3>3, <3>4, <3>5
  <2>4. CASE v # index
    BY <2>1, <2>2, <2>4
  <2> QED
    BY <2>3, <2>4
<1>4. CASE Return
  BY <1>4 DEF Return
<1>5. CASE Destroy
  BY <1>5 DEF Destroy
<1>6. CASE Stop
  <2>1. active'[v] = (active[v] /\ v # dying)
    BY <1>6 DEF Stop, TypeOK
  <2> QED
    BY <1>6, <2>1 DEF Stop
<1>7. CASE WakeUnit
  <2>1. /\ v = dying => sem'[v] = sem[v] + 1
        /\ v # dying => sem'[v] = sem[v]
    BY <1>7 DEF WakeUnit, TypeOK
  <2>2. /\ user = "wake" /\ user' = "join" /\ UNCHANGED <<index, dying>>
        /\ UNCHANGED <<pc[v], queue[v], loads[v], active[v]>>
    BY <1>7 DEF WakeUnit
  <2>3. CASE v = dying
    <3>1. sem'[v] = sem[v] + 1
      BY <2>1, <2>3
    <3>2. (Joined(v) \/ loads[v] + Pushed(v) = Len(queue[v]) + Popped(v))'
      BY <3>1, <2>2, <2>3
    <3>3. (pc[v] = "count" => loads[v] > 0)'
      BY <3>1, <2>2, <2>3
    <3>4. (~ active[v] => pc[v] \in {"check", "exit"} \/ sem[v] > 0 \/ (user = "wake" /\ dying = v))'
      BY <3>1, <2>2, <2>3
    <3>5. (pc[v] = "down" /\ loads[v] > 0 => sem[v] > 0 \/ (user = "up" /\ index = v))'
      BY <3>1, <2>2, <2>3
    <3> QED
      BY <3>2, <3>3, <3>4, <3>5
  <2>4. CASE v # dying
    BY <2>1, <2>2, <2>4
  <2> QED
    BY <2>3, <2>4
<1>8. CASE Join
  <2>1. v = dying => Joined(v)'
    BY <1>8 DEF Join, Units
  <2>2. v # dying => queue'[v] = queue[v]
    BY <1>8 DEF Join, TypeOK
  <2>3. Joined(v) => Joined(v)'
    BY <1>8 DEF Join, Units
  <2> QED
    BY <1>8, <2>1, <2>2, <2>3 DEF Join
<1>9. ASSUME NEW u \in Units, UnitStep(u)
      PROVE UnitInv(v)'
  <2>1. CASE u # v
    <3>1. /\ pc'[v] = pc[v] /\ active' = active /\ loads'[v] = loads[v]
          /\ sem'[v] = sem[v] /\ queue'[v] = queue[v] /\ UNCHANGED userVars
      BY <1>9, <2>1 DEF UnitStep, Check, Dequeue, Uncount, Begin, Run, Finish, Signal, Idle,
                        Down, Goto, TypeOK
    <3> QED
      BY <3>1
  <2>2. CASE u = v
    <3>0. \A label : Goto(v, label) => pc'[v] = label
      BY DEF Goto, TypeOK
    <3>1. CASE Check(v)
      BY <3>0, <3>1 DEF Check
    <3>2. CASE Dequeue(v)
      <4>1. CASE loads[v] = 0 \/ queue[v] = <<>>
        BY <3>0, <3>2, <4>1 DEF Dequeue
      <4>2. CASE ~ (loads[v] = 0 \/ queue[v] = <<>>)
        <5>1. queue'[v] = Tail(queue[v])
          BY <3>2, <4>2 DEF Dequeue, TypeOK
        <5>2. Len(queue'[v]) = Len(queue[v]) - 1
          BY <4>2, <5>1
        <5>3. /\ pc[v] = "dequeue" /\ pc'[v] = "count" /\ loads[v] # 0
              /\ UNCHANGED <<loads[v], sem[v], active[v], user, index, dying>>
          BY <3>0, <3>2, <4>2 DEF Dequeue
        <5> QED
          BY <5>2, <5>3
      <4> QED
        BY <4>1, <4>2
    <3>3. CASE Uncount(v)
      <4>1. loads'[v] = loads[v] - 1
        BY <3>3 DEF Uncount, TypeOK
      <4>2. /\ pc[v] = "count" /\ pc'[v] = "begin"
            /\ UNCHANGED <<queue[v], sem[v], active[v], user, index, dying>>
        BY <3>0, <3>3 DEF Uncount
      <4> QED
        BY <4>1, <4>2
    <3>4. CASE Begin(v)
      BY <3>0, <3>4 DEF Begin
    <3>5. CASE Run(v)
      <4>1. pc'[v] \in {"signal", "finish"}
        BY <3>0, <3>5 DEF Run
      <4> QED
        BY <3>5, <4>1 DEF Run
    <3>6. CASE Finish(v)
      BY <3>0, <3>6 DEF Finish
    <3>7. CASE Signal(v)
      BY <3>0, <3>7 DEF Signal
    <3>8. CASE Idle(v)
      <4>1. /\ pc[v] = "idle" /\ pc'[v] = (IF loads[v] = 0 THEN "down" ELSE "check")
            /\ UNCHANGED <<loads[v], queue[v], sem[v], active[v], user, index, dying>>
        BY <3>0, <3>8 DEF Idle
      <4> QED
        BY <4>1
    <3>9. CASE Down(v)
      BY <3>0, <3>9 DEF Down
    <3> QED
      BY <1>9, <2>2, <3>1, <3>2, <3>3, <3>4, <3>5, <3>6, <3>7, <3>8, <3>9 DEF UnitStep
  <2> QED
    BY <2>1, <2>2
<1>10. ASSUME NEW t \in Tasks, Ask(t) \/ Drop(t) \/ HolderStep(t)
       PROVE UnitInv(v)'
  BY <1>10 DEF Ask, Drop, HolderStep, WaitDown, Verdict
<1>11. CASE UNCHANGED vars
  BY <1>11 DEF vars
<1> QED
  BY <1>1, <1>2, <1>3, <1>4, <1>5, <1>6, <1>7, <1>8, <1>9, <1>10, <1>11 DEF Next, UserStep

(* The destructor stays within the units until it has joined the last one. *)
LEMMA NextDyingInv == TypeOK /\ DyingInv /\ [Next]_vars => DyingInv'
<1> SUFFICES ASSUME TypeOK, DyingInv, [Next]_vars PROVE DyingInv'
  OBVIOUS
<1>1. dying \in 0 .. Cores
  BY DEF TypeOK
<1> USE DEF DyingInv, userVars, unitVars, taskVars
<1>2. CASE Push \/ Count \/ Up \/ Return
  BY <1>2 DEF Push, Count, Up, Return
<1>3. CASE Destroy
  BY <1>3, CoresAssumption DEF Destroy, Units
<1>4. CASE Stop \/ WakeUnit
  BY <1>4 DEF Stop, WakeUnit
<1>5. CASE Join
  BY <1>1, <1>5, CoresAssumption DEF Join, Units
<1>6. ASSUME NEW u \in Units, UnitStep(u) PROVE UNCHANGED <<user, dying>>
  BY <1>6 DEF UnitStep, Check, Dequeue, Uncount, Begin, Run, Finish, Signal, Idle, Down
<1>7. ASSUME NEW t \in Tasks, Ask(t) \/ Drop(t) \/ HolderStep(t)
      PROVE UNCHANGED <<user, dying>>
  BY <1>7 DEF Ask, Drop, HolderStep, WaitDown, Verdict
<1>8. CASE UNCHANGED vars
  BY <1>8 DEF vars
<1> QED
  BY <1>2, <1>3, <1>4, <1>5, <1>6, <1>7, <1>8 DEF Next, UserStep

(* Every step preserves the strengthened invariant. *)
LEMMA NextIInv == IInv /\ [Next]_vars => IInv'
<1> SUFFICES ASSUME IInv, [Next]_vars PROVE IInv'
  OBVIOUS
<1>1. TypeOK' /\ DyingInv'
  BY NextTypeOK, NextDyingInv DEF IInv
<1>2. \A v \in Units : UnitInv(v)
  BY UnitInvs DEF IInv
<1>3. \A v \in Units : UnitInv(v)'
  BY <1>1, <1>2, NextUnitInv DEF IInv
<1>4. (LoadsCountQueue /\ UncountInv /\ StopInv /\ SleepInv)'
  BY <1>3 DEF UnitInv, LoadsCountQueue, UncountInv, StopInv, SleepInv
<1> QED
  BY <1>1, <1>4 DEF IInv

-----------------------------------------------------------------------------
(* The strengthened invariant holds throughout. *)
THEOREM Invariance == Safety => []IInv
  BY InitIInv, NextIInv, PTL DEF Safety

(* Every variable keeps its range: no unsigned counter is decremented at 0. *)
THEOREM TypeCorrect == Safety => []TypeOK
  BY Invariance, PTL DEF IInv

(* The count and the queue of a unit differ by what is in transit only. *)
THEOREM LoadsAreRight == Safety => []LoadsCountQueue
  BY Invariance, PTL DEF IInv

(* No unit sleeps through a task or through the order to stop. *)
THEOREM WakeupsArrive == Safety => []NoLostWakeup
<1>1. IInv => NoLostWakeup
  <2> SUFFICES ASSUME IInv, NEW u \in Units, pc[u] = "down", sem[u] = 0
               PROVE  /\ loads[u] > 0 => user = "up" /\ index = u
                      /\ ~ active[u] => user = "wake" /\ dying = u
    BY DEF NoLostWakeup
  <2> QED
    BY DEF IInv, StopInv, SleepInv
<1> QED
  BY <1>1, Invariance, PTL

-----------------------------------------------------------------------------
(* No task has been made in a pool that has just been started. *)
LEMMA InitRunInv == Init => RunInv
<1> SUFFICES ASSUME Init PROVE RunInv
  OBVIOUS
<1> USE LimitAssumption DEF Init, Places
<1>1. PlaceInv
  BY DEF PlaceInv, Busy
<1>2. StageInv
  BY DEF StageInv
<1>3. ResultInv /\ ValueAfterRun
  BY DEF ResultInv, ValueAfterRun
<1> QED
  BY <1>1, <1>2, <1>3 DEF RunInv

(* What a push does to the places. *)
LEMMA Pushes ==
    ASSUME TypeOK, Push
    PROVE  /\ made' = made + 1 /\ made \in Nat /\ made + 1 \in Tasks /\ index \in Units
           /\ \A u \in Units : u # index => queue'[u] = queue[u]
           /\ Len(queue'[index]) = Len(queue[index]) + 1 /\ Len(queue[index]) \in Nat
           /\ \A i \in 1 .. Len(queue[index]) : queue'[index][i] = queue[index][i]
           /\ queue'[index][Len(queue[index]) + 1] = made + 1
<1>1. made' = made + 1 /\ made \in Nat /\ made + 1 \in Tasks /\ index \in Units
  BY LimitAssumption DEF TypeOK, Push, Tasks
<1>2. queue' = [queue EXCEPT ![index] = Append(@, made + 1)]
  BY DEF Push
<1>3. queue \in [Units -> Seq(Tasks)] /\ queue[index] \in Seq(Tasks)
  BY <1>1 DEF TypeOK
<1>4. queue'[index] = Append(queue[index], made + 1)
  BY <1>1, <1>2, <1>3
<1> QED
  BY <1>1, <1>2, <1>3, <1>4

(* What a dequeue that finds a task does to the places. *)
LEMMA Dequeues ==
    ASSUME TypeOK, NEW u \in Units, Dequeue(u), pc'[u] # "idle"
    PROVE  /\ pc'[u] = "count"
           /\ Len(queue[u]) \in Nat \ {0} /\ Len(queue'[u]) = Len(queue[u]) - 1
           /\ held'[u] = queue[u][1] /\ queue[u][1] \in Tasks
           /\ \A i \in 1 .. Len(queue'[u]) : queue'[u][i] = queue[u][i + 1]
           /\ \A v \in Units : v # u => /\ queue'[v] = queue[v] /\ held'[v] = held[v]
                                       /\ pc'[v] = pc[v]
<1>1. pc \in [Units -> UnitLabels] /\ queue[u] \in Seq(Tasks)
  BY DEF TypeOK
<1>2. queue[u] # <<>> /\ pc' = [pc EXCEPT ![u] = "count"]
      /\ held' = [held EXCEPT ![u] = Head(queue[u])]
      /\ queue' = [queue EXCEPT ![u] = Tail(@)]
  BY <1>1 DEF Dequeue, Goto
<1>3. queue'[u] = Tail(queue[u]) /\ held'[u] = Head(queue[u]) /\ pc'[u] = "count"
  BY <1>2 DEF TypeOK
<1> QED
  BY <1>1, <1>2, <1>3 DEF TypeOK

(* What a queue holds are tasks. *)
LEMMA QueuesHoldTasks ==
    ASSUME TypeOK
    PROVE  \A u \in Units : \A i \in Places(u) : queue[u][i] \in Tasks
<1> SUFFICES ASSUME NEW u \in Units, NEW i \in Places(u) PROVE queue[u][i] \in Tasks
  OBVIOUS
<1>1. queue[u] \in Seq(Tasks)
  BY DEF TypeOK
<1> QED
  BY <1>1 DEF Places

(* Nothing else takes a task from its place but the end of a unit's work,   *)
(* and the end of a queue.                                                 *)
LEMMA PlacesFramed ==
    ASSUME PlaceInv, UNCHANGED <<made, held>>,
           \A u \in Units : Busy(u)' => Busy(u),
           \A u \in Units : queue'[u] = queue[u] \/ queue'[u] = <<>>
    PROVE  PlaceInv'
  BY DEF PlaceInv, Places

(* Every step leaves every task in one place. *)
LEMMA NextPlaceInv == TypeOK /\ PlaceInv /\ [Next]_vars => PlaceInv'
<1> SUFFICES ASSUME TypeOK, PlaceInv, [Next]_vars PROVE PlaceInv'
  OBVIOUS
<1> USE DEF userVars, unitVars, taskVars
<1>1. CASE Push
  <2>1. UNCHANGED <<pc, held>>
    BY <1>1 DEF Push
  <2> DEFINE New(u, i) == u = index /\ i = Len(queue[index]) + 1
  <2>2. \A u \in Units : \A i \in Places(u)' :
           IF New(u, i) THEN queue'[u][i] = made + 1
           ELSE i \in Places(u) /\ queue'[u][i] = queue[u][i]
    BY <1>1, Pushes DEF Places
  <2>3. \A u \in Units : \A i \in Places(u) : queue[u][i] <= made /\ queue[u][i] \in Nat
    BY QueuesHoldTasks DEF PlaceInv, Tasks
  <2>4. made \in Nat /\ made' = made + 1
    BY <1>1, Pushes
  <2> HIDE DEF New
  <2>5. \A u \in Units : \A i \in Places(u)' : queue'[u][i] <= made'
    BY <2>2, <2>3, <2>4
  <2>6. \A u, v \in Units : \A i \in Places(u)', j \in Places(v)' :
           queue'[u][i] = queue'[v][j] => u = v /\ i = j
    <3> SUFFICES ASSUME NEW u \in Units, NEW v \in Units,
                        NEW i \in Places(u)', NEW j \in Places(v)',
                        queue'[u][i] = queue'[v][j]
                 PROVE  u = v /\ i = j
      OBVIOUS
    <3>1. New(u, i) <=> New(v, j)
      BY <2>2, <2>3, <2>4
    <3> QED
      BY <2>2, <3>1 DEF New, PlaceInv
  <2>7. \A u \in Units : Busy(u)' => /\ held'[u] \in Tasks /\ held'[u] <= made'
                                   /\ \A v \in Units : Busy(v)' /\ held'[u] = held'[v] => u = v
    <3>1. \A u \in Units : Busy(u) => held[u] \in Nat
      BY DEF PlaceInv, Tasks
    <3> QED
      BY <2>1, <2>4, <3>1 DEF PlaceInv, Busy
  <2>8. \A u, v \in Units : Busy(u)' => \A j \in Places(v)' : queue'[v][j] # held'[u]
    <3>1. \A u \in Units : Busy(u) => held[u] \in Nat /\ held[u] <= made
      BY DEF PlaceInv, Tasks
    <3> QED
      BY <2>1, <2>2, <2>4, <3>1 DEF PlaceInv, Busy
  <2> QED
    BY <2>5, <2>6, <2>7, <2>8 DEF PlaceInv
<1>2. CASE Join
  <2>1. \A u \in Units : queue'[u] = queue[u] \/ queue'[u] = <<>>
    BY <1>2 DEF Join, TypeOK
  <2> QED
    BY <1>2, <2>1, PlacesFramed DEF Join, Busy
<1>3. CASE Count \/ Up \/ Return \/ Destroy \/ Stop \/ WakeUnit \/ UNCHANGED vars
  <2>1. UNCHANGED <<made, held, pc, queue>>
    BY <1>3 DEF Count, Up, Return, Destroy, Stop, WakeUnit, vars
  <2> QED
    BY <2>1, PlacesFramed DEF Busy
<1>4. ASSUME NEW t \in Tasks, Ask(t) \/ Drop(t) \/ HolderStep(t)
      PROVE  PlaceInv'
  <2>1. UNCHANGED <<made, held, pc, queue>>
    BY <1>4 DEF Ask, Drop, HolderStep, WaitDown, Verdict
  <2> QED
    BY <2>1, PlacesFramed DEF Busy
<1>5. ASSUME NEW u \in Units, Dequeue(u)
      PROVE  PlaceInv'
  <2>1. CASE pc'[u] = "idle"
    <3>1. UNCHANGED <<made, held, queue>> /\ pc' = [pc EXCEPT ![u] = "idle"]
      BY <1>5, <2>1 DEF Dequeue, Goto, TypeOK
    <3> QED
      BY <3>1, PlacesFramed DEF Busy, TypeOK
  <2>2. CASE pc'[u] # "idle"
    <3>1. made' = made /\ made \in Nat
      BY <1>5 DEF Dequeue, TypeOK
    <3> DEFINE Old(v, i) == IF v = u THEN i + 1 ELSE i
    <3>2. \A v \in Units : \A i \in Places(v)' :
             /\ Old(v, i) \in Places(v) /\ queue'[v][i] = queue[v][Old(v, i)]
             /\ v = u => Old(v, i) # 1
      BY <1>5, <2>2, Dequeues DEF Places
    <3>3. \A v \in Units : \A i, j \in Places(v)' : Old(v, i) = Old(v, j) => i = j
      BY DEF Places
    <3>4. /\ 1 \in Places(u) /\ held'[u] = queue[u][1] /\ queue[u][1] \in Tasks
          /\ ~ Busy(u)
          /\ \A v \in Units : v # u => held'[v] = held[v] /\ (Busy(v)' => Busy(v))
      BY <1>5, <2>2, Dequeues DEF Places, Busy, Dequeue
    <3> HIDE DEF Old
    <3>5. \A v \in Units : \A i \in Places(v)' : queue'[v][i] <= made'
      BY <3>1, <3>2 DEF PlaceInv
    <3>6. \A v, w \in Units : \A i \in Places(v)', j \in Places(w)' :
             queue'[v][i] = queue'[w][j] => v = w /\ i = j
      BY <3>2, <3>3 DEF PlaceInv
    <3>7. \A v \in Units : Busy(v)' => held'[v] \in Tasks /\ held'[v] <= made'
      BY <3>1, <3>4 DEF PlaceInv
    <3>8. \A v, w \in Units : Busy(v)' /\ Busy(w)' /\ held'[v] = held'[w] => v = w
      BY <3>4 DEF PlaceInv
    <3>9. \A v, w \in Units : Busy(v)' => \A j \in Places(w)' : queue'[w][j] # held'[v]
      BY <3>2, <3>4 DEF PlaceInv
    <3> QED
      BY <3>5, <3>6, <3>7, <3>8, <3>9 DEF PlaceInv
  <2> QED
    BY <2>1, <2>2
<1>6. ASSUME NEW u \in Units,
             Check(u) \/ Uncount(u) \/ Begin(u) \/ Run(u) \/ Finish(u) \/ Signal(u)
             \/ Idle(u) \/ Down(u)
      PROVE  PlaceInv'
  <2>1. UNCHANGED <<made, held, queue>>
    BY <1>6 DEF Check, Uncount, Begin, Run, Finish, Signal, Idle, Down
  <2>2. \A v \in Units : Busy(v)' => Busy(v)
    BY <1>6 DEF Check, Uncount, Begin, Run, Finish, Signal, Idle, Down, Goto, Busy, TypeOK
  <2> QED
    BY <2>1, <2>2, PlacesFramed
<1> QED
  BY <1>1, <1>2, <1>3, <1>4, <1>5, <1>6 DEF Next, UserStep, UnitStep

(* The stage of a task that stays where it is. *)
LEMMA StagesFramed ==
    ASSUME StageInv, UNCHANGED <<pc, held, state, ran>>,
           \A u \in Units : queue'[u] = queue[u] \/ queue'[u] = <<>>
    PROVE  StageInv'
  BY DEF StageInv, Places

(* A task in a queue, or in another unit's hands, is not the one a unit     *)
(* works on: its stage stays what it is.                                   *)
LEMMA OthersStay ==
    ASSUME TypeOK, PlaceInv, NEW u \in Units, Busy(u)
    PROVE  /\ held[u] \in Tasks
           /\ \A v \in Units : Busy(v) /\ v # u => held[v] # held[u] /\ held[v] \in Tasks
           /\ \A v \in Units : \A i \in Places(v) :
                  queue[v][i] # held[u] /\ queue[v][i] \in Tasks
  BY QueuesHoldTasks DEF PlaceInv

(* Every step leaves a task at the stage that fits its place. *)
LEMMA NextStageInv == TypeOK /\ PlaceInv /\ StageInv /\ ResultInv /\ [Next]_vars => StageInv'
<1> SUFFICES ASSUME TypeOK, PlaceInv, StageInv, ResultInv, [Next]_vars PROVE StageInv'
  OBVIOUS
<1> USE DEF userVars, unitVars, taskVars
<1>1. CASE Push
  <2>1. UNCHANGED <<pc, held, state, ran>>
    BY <1>1 DEF Push
  <2>2. state[made + 1] = "wait" /\ ran[made + 1] = 0
    BY <1>1, Pushes DEF ResultInv
  <2>3. \A u \in Units : \A i \in Places(u)' :
           IF u = index /\ i = Len(queue[index]) + 1 THEN queue'[u][i] = made + 1
           ELSE i \in Places(u) /\ queue'[u][i] = queue[u][i]
    BY <1>1, Pushes DEF Places
  <2> QED
    BY <2>1, <2>2, <2>3 DEF StageInv
<1>2. CASE Join
  <2>1. \A u \in Units : queue'[u] = queue[u] \/ queue'[u] = <<>>
    BY <1>2 DEF Join, TypeOK
  <2> QED
    BY <1>2, <2>1, StagesFramed DEF Join
<1>3. CASE Count \/ Up \/ Return \/ Destroy \/ Stop \/ WakeUnit \/ UNCHANGED vars
  <2>1. UNCHANGED <<pc, held, state, ran, queue>>
    BY <1>3 DEF Count, Up, Return, Destroy, Stop, WakeUnit, vars
  <2> QED
    BY <2>1, StagesFramed
<1>4. ASSUME NEW t \in Tasks, Ask(t) \/ Drop(t) \/ HolderStep(t)
      PROVE  StageInv'
  <2>1. UNCHANGED <<pc, held, state, ran, queue>>
    BY <1>4 DEF Ask, Drop, HolderStep, WaitDown, Verdict
  <2> QED
    BY <2>1, StagesFramed
<1>5. ASSUME NEW u \in Units, Check(u) \/ Idle(u) \/ Down(u)
      PROVE  StageInv'
  <2>1. UNCHANGED <<held, state, ran, queue>>
    BY <1>5 DEF Check, Idle, Down
  <2>2. \A v \in Units : pc'[v] = pc[v] \/ pc'[v] \in {"dequeue", "exit", "down", "check"}
    BY <1>5 DEF Check, Idle, Down, Goto, TypeOK
  <2> QED
    BY <2>1, <2>2 DEF StageInv, Places
<1>6. ASSUME NEW u \in Units, Dequeue(u)
      PROVE  StageInv'
  <2>1. UNCHANGED <<state, ran>>
    BY <1>6 DEF Dequeue
  <2>2. CASE pc'[u] = "idle"
    <3>1. UNCHANGED <<held, queue>> /\ pc' = [pc EXCEPT ![u] = "idle"]
      BY <1>6, <2>2 DEF Dequeue, Goto, TypeOK
    <3>2. \A v \in Units : pc'[v] = pc[v] \/ pc'[v] = "idle"
      BY <3>1 DEF TypeOK
    <3> QED
      BY <2>1, <3>1, <3>2 DEF StageInv, Places
  <2>3. CASE pc'[u] # "idle"
    <3>1. state[held'[u]] = "wait" /\ ran[held'[u]] = 0 /\ pc'[u] = "count"
      BY <1>6, <2>3, Dequeues DEF StageInv, Places
    <3>2. \A v \in Units : v # u => /\ queue'[v] = queue[v] /\ held'[v] = held[v]
                                  /\ pc'[v] = pc[v]
      BY <1>6, <2>3, Dequeues
    <3>3. \A v \in Units : \A i \in Places(v)' :
             \E j \in Places(v) : queue'[v][i] = queue[v][j]
      <4> SUFFICES ASSUME NEW v \in Units, NEW i \in Places(v)'
                   PROVE  \E j \in Places(v) : queue'[v][i] = queue[v][j]
        OBVIOUS
      <4>1. CASE v # u
        BY <3>2, <4>1 DEF Places
      <4>2. CASE v = u
        <5>1. i + 1 \in Places(u) /\ queue'[u][i] = queue[u][i + 1]
          BY <1>6, <2>3, <4>2, Dequeues DEF Places
        <5> QED
          BY <4>2, <5>1
      <4> QED
        BY <4>1, <4>2
    <3> QED
      BY <2>1, <3>1, <3>2, <3>3 DEF StageInv
  <2> QED
    BY <2>2, <2>3
<1>7. ASSUME NEW u \in Units, Busy(u),
             UNCHANGED <<held, queue>>,
             \A v \in Units : v # u => pc'[v] = pc[v],
             \A t \in Tasks : t # held[u] => state'[t] = state[t] /\ ran'[t] = ran[t],
             /\ pc'[u] \in {"count", "begin"} => state'[held[u]] = "wait"
             /\ pc'[u] \in {"count", "begin", "run"} => ran'[held[u]] = 0
             /\ pc'[u] \in {"run", "finish"} => state'[held[u]] = "error"
             /\ pc'[u] = "finish" => held[u] \notin Throwing
             /\ pc'[u] \in {"finish", "signal"} => ran'[held[u]] = 1
             /\ pc'[u] = "signal" => state'[held[u]] # "wait"
      PROVE  StageInv'
  <2>1. \A v \in Units : \A i \in Places(v)' :
           state'[queue'[v][i]] = "wait" /\ ran'[queue'[v][i]] = 0
    BY <1>7, OthersStay DEF StageInv, Places
  <2>2. \A v \in Units : v # u /\ Busy(v) =>
           state'[held[v]] = state[held[v]] /\ ran'[held[v]] = ran[held[v]]
    BY <1>7, OthersStay
  <2> QED
    BY <1>7, <2>1, <2>2 DEF StageInv, Busy
<1>8. ASSUME NEW u \in Units, Uncount(u) \/ Begin(u) \/ Run(u) \/ Finish(u) \/ Signal(u)
      PROVE  StageInv'
  <2>1. held[u] \in Tasks /\ Busy(u) /\ UNCHANGED <<held, queue>>
    BY <1>8, OthersStay DEF Uncount, Begin, Run, Finish, Signal, Busy
  <2>2. pc \in [Units -> UnitLabels] /\ state \in [Tasks -> {"wait", "done", "error"}]
        /\ ran \in [Tasks -> Nat]
    BY DEF TypeOK
  <2>3. \A v \in Units : v # u => pc'[v] = pc[v]
    BY <1>8, <2>2 DEF Uncount, Begin, Run, Finish, Signal, Goto
  <2>4. \A t \in Tasks : t # held[u] => state'[t] = state[t] /\ ran'[t] = ran[t]
    BY <1>8, <2>1, <2>2 DEF Uncount, Begin, Run, Finish, Signal
  <2>5. CASE Uncount(u) \/ Begin(u) \/ Signal(u)
    BY <1>7, <2>1, <2>2, <2>3, <2>4, <2>5 DEF Uncount, Begin, Signal, Goto, StageInv
  <2>6. CASE Run(u)
    BY <1>7, <2>1, <2>2, <2>3, <2>4, <2>6 DEF Run, Goto, StageInv
  <2>7. CASE Finish(u)
    BY <1>7, <2>1, <2>2, <2>3, <2>4, <2>7 DEF Finish, Goto, StageInv
  <2> QED
    BY <1>8, <2>5, <2>6, <2>7
<1> QED
  BY <1>1, <1>2, <1>3, <1>4, <1>5, <1>6, <1>8 DEF Next, UserStep, UnitStep

(* A result follows what its task has come to. *)
LEMMA NextResultInv ==
    TypeOK /\ RunInv /\ [Next]_vars => ResultInv' /\ ValueAfterRun'
<1> SUFFICES ASSUME TypeOK, PlaceInv, StageInv, ResultInv, ValueAfterRun, [Next]_vars
             PROVE  ResultInv' /\ ValueAfterRun'
  BY DEF RunInv
<1> USE DEF userVars, unitVars, taskVars, ResultInv, ValueAfterRun
<1>0. /\ made \in Nat /\ Tasks \subseteq Nat
      /\ state \in [Tasks -> {"wait", "done", "error"}] /\ ran \in [Tasks -> Nat]
      /\ signal \in [Tasks -> Nat] /\ waiter \in [Tasks -> WaiterLabels]
  BY DEF TypeOK, Tasks
<1>1. CASE Push
  BY <1>0, <1>1 DEF Push
<1>2. CASE Return
  BY <1>0, <1>2 DEF Return
<1>3. CASE Count \/ Up \/ Destroy \/ Stop \/ WakeUnit \/ Join \/ UNCHANGED vars
  <2>1. UNCHANGED <<made, state, ran, signal, waiter>>
    BY <1>3 DEF Count, Up, Destroy, Stop, WakeUnit, Join, vars
  <2> QED
    BY <2>1
<1>4. ASSUME NEW t \in Tasks, Ask(t) \/ Drop(t) \/ HolderStep(t)
      PROVE  ResultInv' /\ ValueAfterRun'
  BY <1>0, <1>4 DEF Ask, Drop, HolderStep, WaitDown, Verdict, Wait
<1>5. ASSUME NEW u \in Units,
             Check(u) \/ Dequeue(u) \/ Uncount(u) \/ Idle(u) \/ Down(u)
      PROVE  ResultInv' /\ ValueAfterRun'
  <2>1. UNCHANGED <<made, state, ran, signal, waiter>>
    BY <1>5 DEF Check, Dequeue, Uncount, Idle, Down
  <2> QED
    BY <2>1
<1>6. ASSUME NEW u \in Units, Begin(u) \/ Run(u) \/ Finish(u) \/ Signal(u)
      PROVE  ResultInv' /\ ValueAfterRun'
  <2>1. held[u] \in Tasks /\ held[u] <= made
    BY <1>6 DEF Begin, Run, Finish, Signal, PlaceInv, Busy
  <2>2. CASE Begin(u)
    <3>1. state[held[u]] = "wait"
      BY <2>2 DEF Begin, StageInv
    <3> QED
      BY <1>0, <2>1, <2>2, <3>1 DEF Begin
  <2>3. CASE Run(u)
    <3>1. ran[held[u]] = 0 /\ state[held[u]] = "error"
      BY <2>3 DEF Run, StageInv
    <3> QED
      BY <1>0, <2>1, <2>3, <3>1 DEF Run
  <2>4. CASE Finish(u)
    <3>1. ran[held[u]] = 1 /\ held[u] \notin Throwing
      BY <2>4 DEF Finish, StageInv
    <3> QED
      BY <1>0, <2>1, <2>4, <3>1 DEF Finish
  <2>5. CASE Signal(u)
    <3>1. state[held[u]] # "wait"
      BY <2>5 DEF Signal, StageInv
    <3> QED
      BY <1>0, <2>1, <2>5, <3>1 DEF Signal
  <2> QED
    BY <1>6, <2>2, <2>3, <2>4, <2>5
<1> QED
  BY <1>1, <1>2, <1>3, <1>4, <1>5, <1>6 DEF Next, UserStep, UnitStep

(* A task is run once at most, and a value is had only of a function that   *)
(* has run to its end, however many units and tasks there are.             *)
THEOREM ValuesAreOfRuns == Safety => []ValueAfterRun
<1>1. Init => IInv /\ RunInv
  BY InitIInv, InitRunInv
<1>2. IInv /\ RunInv /\ [Next]_vars => IInv' /\ RunInv'
  BY NextIInv, NextPlaceInv, NextStageInv, NextResultInv DEF IInv, RunInv
<1>3. RunInv => ValueAfterRun
  BY DEF RunInv
<1> QED
  BY <1>1, <1>2, <1>3, PTL DEF Safety
=============================================================================
