---------------------------- MODULE ThreadPool ------------------------------
(***************************************************************************)
(* thread_pool: a fixed number of thread_units, each with a queue, a count *)
(* of the tasks in it ("loads"), a semaphore to sleep on and a thread.     *)
(* One owner inserts tasks round robin and destroys the pool; the result   *)
(* of each task is held by somebody who may ask for it, and ask again, or  *)
(* drop it.  Every access to an atom, a queue or a semaphore is a step.    *)
(***************************************************************************)
EXTENDS Naturals, Sequences

CONSTANTS Cores,        \* executable::cpu_cores(), the number of units
          Limit,        \* a bound on the tasks inserted
          Throwing      \* the tasks whose function throws

ASSUME CoresAssumption == Cores \in Nat \ {0}
ASSUME LimitAssumption == Limit \in Nat

Units == 0 .. Cores - 1
Tasks == 1 .. Limit

VARIABLES user,         \* the program counter of the pool's owner
          made,         \* how many tasks it has created
          index,        \* thread_pool::index, the unit of the next insertion
          dying,        \* the unit ~thread_pool has come to
          pc,           \* the program counter of each unit's thread
          held,         \* the task it dequeued last, 0 before the first
          active,       \* thread_unit::state
          loads,        \* thread_unit::loads
          sem,          \* thread_unit::semaphore
          queue,        \* thread_unit::queue
          state,        \* task_base::state
          signal,       \* task_base::semaphore
          ran,          \* how often the function of a task was run
          waiter        \* what the holder of a task's result is doing

userVars == <<user, made, index, dying>>
unitVars == <<pc, held, active, loads, sem, queue>>
taskVars == <<state, signal, ran, waiter>>
vars == <<user, made, index, dying, pc, held, active, loads, sem, queue,
          state, signal, ran, waiter>>

Init == /\ user = "ready" /\ made = 0 /\ index = 0 /\ dying = 0
        /\ pc = [u \in Units |-> "check"]
        /\ held = [u \in Units |-> 0]
        /\ active = [u \in Units |-> TRUE]
        /\ loads = [u \in Units |-> 0]
        /\ sem = [u \in Units |-> 0]
        /\ queue = [u \in Units |-> <<>>]
        /\ state = [t \in Tasks |-> "wait"]
        /\ signal = [t \in Tasks |-> 0]
        /\ ran = [t \in Tasks |-> 0]
        /\ waiter = [t \in Tasks |-> "none"]

-----------------------------------------------------------------------------
(* async(): thread_pool::insert, thread_unit::enqueue *)

(* queue.push( task ) *)
Push == /\ user = "ready"
        /\ made < Limit
        /\ made' = made + 1
        /\ queue' = [queue EXCEPT ![index] = Append(@, made + 1)]
        /\ user' = "count"
        /\ UNCHANGED <<index, dying, pc, held, active, loads, sem, taskVars>>

(* Mutant: the count is tested after the increment. *)
CountTestedLate == /\ user = "count"
                   /\ loads' = [loads EXCEPT ![index] = @ + 1]
                   /\ user' = IF loads[index] + 1 = 0 THEN "up" ELSE "return"
                   /\ UNCHANGED <<made, index, dying, pc, held, active, sem, queue, taskVars>>

(* if ( !loads++ ): only the first task in an empty queue wakes the thread. *)
Count == /\ user = "count"
         /\ loads' = [loads EXCEPT ![index] = @ + 1]
         /\ user' = IF loads[index] = 0 THEN "up" ELSE "return"
         /\ UNCHANGED <<made, index, dying, pc, held, active, sem, queue, taskVars>>

Up == /\ user = "up"
      /\ sem' = [sem EXCEPT ![index] = @ + 1]
      /\ user' = "return"
      /\ UNCHANGED <<made, index, dying, pc, held, active, loads, queue, taskVars>>

(* Mutant: the index does not wrap. *)
ReturnUnwrapped == /\ user = "return"
                   /\ index' = index + 1
                   /\ waiter' = [waiter EXCEPT ![made] = "held"]
                   /\ user' = "ready"
                   /\ UNCHANGED <<made, dying, unitVars, state, signal, ran>>

(* ++index %= vector.size(), and the result goes to its holder. *)
Return == /\ user = "return"
          /\ index' = (index + 1) % Cores
          /\ waiter' = [waiter EXCEPT ![made] = "held"]
          /\ user' = "ready"
          /\ UNCHANGED <<made, dying, unitVars, state, signal, ran>>

-----------------------------------------------------------------------------
(* ~thread_pool: ~thread_unit of each unit in turn *)

Destroy == /\ user = "ready"
           /\ user' = "stop"
           /\ UNCHANGED <<made, index, dying, unitVars, taskVars>>

(* Mutant: the unit is woken without having been told to stop. *)
StopForgotten == /\ user = "stop"
                 /\ user' = "wake"
                 /\ UNCHANGED <<made, index, dying, unitVars, taskVars>>

(* state.exchange( false ) *)
Stop == /\ user = "stop"
        /\ active' = [active EXCEPT ![dying] = FALSE]
        /\ user' = "wake"
        /\ UNCHANGED <<made, index, dying, pc, held, loads, sem, queue, taskVars>>

(* semaphore.up() *)
WakeUnit == /\ user = "wake"
            /\ sem' = [sem EXCEPT ![dying] = @ + 1]
            /\ user' = "join"
            /\ UNCHANGED <<made, index, dying, pc, held, active, loads, queue, taskVars>>

(* ~thread joins; whatever is left in the queue is dropped unexecuted. *)
Join == /\ user = "join"
        /\ pc[dying] = "exit"
        /\ queue' = [queue EXCEPT ![dying] = <<>>]
        /\ dying' = dying + 1
        /\ user' = IF dying + 1 = Cores THEN "gone" ELSE "stop"
        /\ UNCHANGED <<made, index, pc, held, active, loads, sem, taskVars>>

UserStep == Count \/ Up \/ Return \/ Stop \/ WakeUnit \/ Join

-----------------------------------------------------------------------------
(* thread_unit::main *)

Goto(u, label) == pc' = [pc EXCEPT ![u] = label]

(* while ( state ) *)
Check(u) == /\ pc[u] = "check"
            /\ Goto(u, IF active[u] THEN "dequeue" ELSE "exit")
            /\ UNCHANGED <<userVars, held, active, loads, sem, queue, taskVars>>

(* dequeue( task ).  Only this thread takes tasks out, so once it has read  *)
(* loads as positive nothing can come before its try_pop.                  *)
Dequeue(u) ==
    /\ pc[u] = "dequeue"
    /\ IF loads[u] = 0 \/ queue[u] = <<>>
       THEN /\ Goto(u, "idle")
            /\ UNCHANGED <<held, queue>>
       ELSE /\ Goto(u, "count")
            /\ held' = [held EXCEPT ![u] = Head(queue[u])]
            /\ queue' = [queue EXCEPT ![u] = Tail(@)]
    /\ UNCHANGED <<userVars, active, loads, sem, taskVars>>

(* Mutant: the count is reset, not decremented. *)
UncountAll(u) == /\ pc[u] = "count"
                 /\ loads' = [loads EXCEPT ![u] = 0]
                 /\ Goto(u, "begin")
                 /\ UNCHANGED <<userVars, held, active, sem, queue, taskVars>>

(* --loads *)
Uncount(u) == /\ pc[u] = "count"
              /\ loads' = [loads EXCEPT ![u] = @ - 1]
              /\ Goto(u, "begin")
              /\ UNCHANGED <<userVars, held, active, sem, queue, taskVars>>

(* Mutant: the task is marked as done before it is run. *)
BeginDone(u) == /\ pc[u] = "begin"
                /\ state' = [state EXCEPT ![held[u]] = "done"]
                /\ Goto(u, "run")
                /\ UNCHANGED <<userVars, held, active, loads, sem, queue, signal, ran, waiter>>

(* task->state.exchange( task_base::error ), before the function is run. *)
Begin(u) == /\ pc[u] = "begin"
            /\ state' = [state EXCEPT ![held[u]] = "error"]
            /\ Goto(u, "run")
            /\ UNCHANGED <<userVars, held, active, loads, sem, queue, signal, ran, waiter>>

(* Mutant: an exception skips the semaphore as well. *)
RunUncaught(u) == /\ pc[u] = "run"
                  /\ ran' = [ran EXCEPT ![held[u]] = @ + 1]
                  /\ Goto(u, IF held[u] \in Throwing THEN "dequeue" ELSE "finish")
                  /\ UNCHANGED <<userVars, held, active, loads, sem, queue, state, signal, waiter>>

(* ( *task )(): an exception skips the exchange that would follow. *)
Run(u) == /\ pc[u] = "run"
          /\ ran' = [ran EXCEPT ![held[u]] = @ + 1]
          /\ Goto(u, IF held[u] \in Throwing THEN "signal" ELSE "finish")
          /\ UNCHANGED <<userVars, held, active, loads, sem, queue, state, signal, waiter>>

(* task->state.exchange( task_base::done ) *)
Finish(u) == /\ pc[u] = "finish"
             /\ state' = [state EXCEPT ![held[u]] = "done"]
             /\ Goto(u, "signal")
             /\ UNCHANGED <<userVars, held, active, loads, sem, queue, signal, ran, waiter>>

(* if ( !task.unique() ) task->semaphore.up(): somebody holds the result. *)
Signal(u) ==
    /\ pc[u] = "signal"
    /\ signal' = IF waiter[held[u]] = "dropped" THEN signal
                 ELSE [signal EXCEPT ![held[u]] = @ + 1]
    /\ Goto(u, "dequeue")
    /\ UNCHANGED <<userVars, held, active, loads, sem, queue, state, ran, waiter>>

(* if ( !loads ) semaphore.down() *)
Idle(u) == /\ pc[u] = "idle"
           /\ Goto(u, IF loads[u] = 0 THEN "down" ELSE "check")
           /\ UNCHANGED <<userVars, held, active, loads, sem, queue, taskVars>>

Down(u) == /\ pc[u] = "down"
           /\ sem[u] > 0
           /\ sem' = [sem EXCEPT ![u] = @ - 1]
           /\ Goto(u, "check")
           /\ UNCHANGED <<userVars, held, active, loads, queue, taskVars>>

UnitStep(u) == \/ Check(u) \/ Dequeue(u) \/ Uncount(u) \/ Begin(u) \/ Run(u)
               \/ Finish(u) \/ Signal(u) \/ Idle(u) \/ Down(u)

-----------------------------------------------------------------------------
(* result::operator(), by the one holder of the task's result *)

Wait(t, label) == waiter' = [waiter EXCEPT ![t] = label]
Free(t) == waiter[t] \in {"held", "returned", "thrown"}

(* wait(), the first if. *)
Ask(t) == /\ Free(t)
          /\ Wait(t, IF state[t] = "wait" THEN "down" ELSE "verdict")
          /\ UNCHANGED <<userVars, unitVars, state, signal, ran>>

WaitDown(t) == /\ waiter[t] = "down"
               /\ signal[t] > 0
               /\ signal' = [signal EXCEPT ![t] = @ - 1]
               /\ Wait(t, "verdict")
               /\ UNCHANGED <<userVars, unitVars, state, ran>>

(* wait(), the second if, and the value or nothing. *)
Verdict(t) == /\ waiter[t] = "verdict"
              /\ Wait(t, IF state[t] = "error" THEN "thrown" ELSE "returned")
              /\ UNCHANGED <<userVars, unitVars, state, signal, ran>>

(* The result is destructed. *)
Drop(t) == /\ Free(t)
           /\ Wait(t, "dropped")
           /\ UNCHANGED <<userVars, unitVars, state, signal, ran>>

HolderStep(t) == WaitDown(t) \/ Verdict(t)

-----------------------------------------------------------------------------
Next == \/ Push \/ Destroy \/ UserStep
        \/ \E u \in Units : UnitStep(u)
        \/ \E t \in Tasks : Ask(t) \/ Drop(t) \/ HolderStep(t)

Safety == Init /\ [][Next]_vars
(* All threads are scheduled; inserting, destroying, asking and dropping is *)
(* up to the program that uses the pool.                                   *)
Spec == /\ Safety
        /\ WF_vars(UserStep)
        /\ \A u \in Units : WF_vars(UnitStep(u))
        /\ \A t \in Tasks : WF_vars(HolderStep(t))

-----------------------------------------------------------------------------
UserLabels == {"ready", "count", "up", "return", "stop", "wake", "join", "gone"}
UnitLabels == {"check", "dequeue", "count", "begin", "run", "finish", "signal",
               "idle", "down", "exit"}
WaiterLabels == {"none", "held", "down", "verdict", "returned", "thrown", "dropped"}

(* The range of every variable; loads and the semaphores never go below 0,  *)
(* where the unsigned counters of the code would wrap.                     *)
TypeOK == /\ user \in UserLabels
          /\ made \in 0 .. Limit
          /\ index \in Units
          /\ dying \in 0 .. Cores
          /\ pc \in [Units -> UnitLabels]
          /\ held \in [Units -> 0 .. Limit]
          /\ active \in [Units -> BOOLEAN]
          /\ loads \in [Units -> Nat]
          /\ sem \in [Units -> Nat]
          /\ queue \in [Units -> Seq(Tasks)]
          /\ state \in [Tasks -> {"wait", "done", "error"}]
          /\ signal \in [Tasks -> Nat]
          /\ ran \in [Tasks -> Nat]
          /\ waiter \in [Tasks -> WaiterLabels]

(* loads counts the queue, but for one task the owner has pushed and not    *)
(* counted and one the unit has popped and not discounted.                 *)
Pushed(u) == IF user = "count" /\ index = u THEN 1 ELSE 0
Popped(u) == IF pc[u] = "count" THEN 1 ELSE 0
Joined(u) == u < dying
LoadsCountQueue ==
    \A u \in Units : Joined(u) \/ loads[u] + Pushed(u) = Len(queue[u]) + Popped(u)

(* The wakeup is never lost: a unit about to sleep, or sleeping, although   *)
(* it has tasks or has been told to stop, has a post that will get it up,  *)
(* or the owner is about to make it.                                       *)
NoLostWakeup ==
    \A u \in Units :
        pc[u] = "down" /\ sem[u] = 0 =>
            /\ loads[u] > 0 => user = "up" /\ index = u
            /\ ~ active[u] => user = "wake" /\ dying = u

(* A function is run at most once, and a result that returns a value does   *)
(* so only after its function has been run to its end.                     *)
ValueAfterRun ==
    \A t \in Tasks : /\ ran[t] <= 1
                     /\ waiter[t] = "returned" => ran[t] = 1 /\ t \notin Throwing

Destroying == user \in {"stop", "wake", "join", "gone"}

(* As long as its pool lives, every task is run. *)
TasksRun == \A t \in Tasks : t <= made ~> (ran[t] = 1 \/ Destroying)

(* As long as the pool lives, a caller that waits for a result gets it, or  *)
(* the error; a pool that is destroyed may leave it waiting for ever.      *)
ResultsReturn ==
    \A t \in Tasks : waiter[t] \in {"down", "verdict"}
                     ~> (waiter[t] \in {"returned", "thrown"} \/ Destroying)

(* The destructor returns: every unit hears that it has to stop. *)
DestroyReturns == Destroying ~> user = "gone"

(* A result is an error only if the function of its task threw.  This is    *)
(* what a user of the pool expects and the code does not give: see README. *)
ErrorsAreReal == \A t \in Tasks : waiter[t] = "thrown" => t \in Throwing
=============================================================================
