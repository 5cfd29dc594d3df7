----------------------------- MODULE RpcChannel -----------------------------
(***************************************************************************)
(* What a caller of an ipc::memory::rpc object is promised, with the       *)
(* shared page, the lock words and the semaphores out of sight: calls are  *)
(* issued one at a time, the server executes each of them exactly once     *)
(* between its issue and its return, and what the caller gets back is the  *)
(* outcome of its own call.                                                *)
(*                                                                         *)
(* Transport implements this specification (Transport!Implements, proved   *)
(* in TransportProofs for its safety part).                                *)
(***************************************************************************)
CONSTANTS Values,       \* the arguments a call may carry
          Throwing,     \* those for which the called function throws
          Null          \* no argument yet

VARIABLES phase,        \* where the current call is: idle, called, served
          arg,          \* the argument of the current (or last) call
          answer,       \* the outcome of the current call once executed
          result        \* what the last call returned to its caller

vars == <<phase, arg, answer, result>>

(* The outcome of executing the function on v: its value, or its exception. *)
Outcome(v) == [error |-> IF v \in Throwing THEN "exception" ELSE "none", body |-> v]
Outcomes == {Outcome(v) : v \in Values}
Nothing == [error |-> "nothing"]

Init == /\ phase = "idle"
        /\ arg = Null
        /\ answer = Nothing
        /\ result = Nothing

Call == /\ phase = "idle"
        /\ phase' = "called"
        /\ arg' \in Values
        /\ UNCHANGED <<answer, result>>

Serve == /\ phase = "called"
         /\ phase' = "served"
         /\ answer' = Outcome(arg)
         /\ UNCHANGED <<arg, result>>

Return == /\ phase = "served"
          /\ phase' = "idle"
          /\ result' = answer
          /\ answer' = Nothing
          /\ UNCHANGED arg

Next == Call \/ Serve \/ Return

Safety == Init /\ [][Next]_vars
Spec == Safety /\ WF_vars(Serve) /\ WF_vars(Return)
=============================================================================
