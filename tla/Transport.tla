----------------------------- MODULE Transport ------------------------------
(***************************************************************************)
(* One client thread and one servlet thread of a memory transport: the     *)
(* client's rpc::operator() over transport.notify(), the servlet's loop    *)
(* over transport.wait( ipc_decode ), and the shared page between them.    *)
(* The link threads and the death of a process are added by MemoryLink.    *)
(*                                                                         *)
(* They meet by the primitives of transport_private.hpp.  Each direction   *)
(* of a transport ("in": a request for the servlet, "out": a reply for the *)
(* client) has a lock word and a process-shared semaphore, all of them in  *)
(* the shared page.  spin_up hands the turn over, spin_down waits for it.  *)
(* A primitive is a sequence of atomic operations on shared words, so each *)
(* of them is one action of the thread t whose program counter is p[t]:    *)
(*   spin_up    claim -> release (-> wake -> post) -> next                 *)
(*   spin_down  park (-> pend) -> next                                     *)
(* A thread that meets an unexpected word throws "Invalid lock state" and  *)
(* stops at "thrown".                                                      *)
(***************************************************************************)
EXTENDS Naturals

CONSTANTS Values,       \* the arguments a call may carry
          Throwing,     \* those for which the called function throws
          Null          \* the zeroes of a page nothing was written to

ASSUME ThrowingAssumption == Throwing \subseteq Values
ASSUME NullAssumption == Null \notin Values

VARIABLES lock,         \* the lock word of each direction
          sem,          \* the value of the semaphore of each direction
          pc,           \* the program counter of each thread
          page,         \* the shared page: a header and a body
          arg,          \* the argument of the client's current (or last) call
          job,          \* the servlet's copy of the request it executes
          result        \* what the client's last call returned or threw

controlVars == <<lock, sem>>
dataVars == <<page, arg, job, result>>
vars == <<lock, sem, pc, page, arg, job, result>>

-----------------------------------------------------------------------------
(* The rendezvous *)

Directions == {"in", "out"}
LockState == {"unlocked", "locked", "sleeping"}
SpinUpLabels == {"claim", "release", "wake", "post", "thrown"}
SpinDownLabels == {"park", "pend"}

Goto(p, t, label) == p' = [p EXCEPT ![t] = label]

(* control::control() and control_io(): the servlet's direction starts     *)
(* locked, the client's unlocked, both semaphores at zero.                 *)
ControlInit == /\ lock = [d \in Directions |-> IF d = "in" THEN "locked" ELSE "unlocked"]
               /\ sem = [d \in Directions |-> 0]

(* Mutant: the word the other side will wait on is not taken back. *)
ClaimWithoutReset(p, t, set) ==
    /\ p[t] = "claim"
    /\ Goto(p, t, IF lock[set] = "unlocked" THEN "release" ELSE "thrown")
    /\ UNCHANGED controlVars

(* spin_up, first line: set.exchange( locked ) must find it unlocked. *)
Claim(p, t, set) ==
    /\ p[t] = "claim"
    /\ lock' = [lock EXCEPT ![set] = "locked"]
    /\ Goto(p, t, IF lock[set] = "unlocked" THEN "release" ELSE "thrown")
    /\ UNCHANGED sem

(* Mutant: a sleeper is taken for a spinner, and never woken. *)
ReleaseWithoutWake(p, t, spin, next) ==
    /\ p[t] = "release"
    /\ lock' = [lock EXCEPT ![spin] = "unlocked"]
    /\ Goto(p, t, next)
    /\ UNCHANGED sem

(* Mutant: the semaphore is incremented although nobody sleeps on it. *)
ReleaseAndPost(p, t, spin, next) ==
    /\ p[t] = "release"
    /\ lock' = [lock EXCEPT ![spin] = "unlocked"]
    /\ Goto(p, t, "post")
    /\ UNCHANGED sem

(* The first compare_exchange: the other side has not gone to sleep. *)
Release(p, t, spin, next) ==
    /\ p[t] = "release"
    /\ IF lock[spin] = "locked"
       THEN /\ lock' = [lock EXCEPT ![spin] = "unlocked"]
            /\ Goto(p, t, next)
       ELSE /\ UNCHANGED lock
            /\ Goto(p, t, "wake")
    /\ UNCHANGED sem

(* The second compare_exchange: the other side sleeps on the semaphore. *)
Wake(p, t, spin) ==
    /\ p[t] = "wake"
    /\ IF lock[spin] = "sleeping"
       THEN /\ lock' = [lock EXCEPT ![spin] = "unlocked"]
            /\ Goto(p, t, "post")
       ELSE /\ UNCHANGED lock
            /\ Goto(p, t, "thrown")
    /\ UNCHANGED sem

(* semaphore.up() *)
Post(p, t, spin, next) ==
    /\ p[t] = "post"
    /\ sem' = [sem EXCEPT ![spin] = @ + 1]
    /\ Goto(p, t, next)
    /\ UNCHANGED lock

SpinUp(p, t, spin, set, next) ==
    \/ Claim(p, t, set)
    \/ Release(p, t, spin, next)
    \/ Wake(p, t, spin)
    \/ Post(p, t, spin, next)

(* spin_down: the bounded spin only reads the word, so what it does is     *)
(* delay the compare_exchange by any amount; then sleep if still locked.   *)
Park(p, t, spin, next) ==
    /\ p[t] = "park"
    /\ IF lock[spin] = "locked"
       THEN /\ lock' = [lock EXCEPT ![spin] = "sleeping"]
            /\ Goto(p, t, "pend")
       ELSE /\ UNCHANGED lock
            /\ Goto(p, t, next)
    /\ UNCHANGED sem

(* semaphore.down() *)
Pend(p, t, spin, next) ==
    /\ p[t] = "pend"
    /\ sem[spin] > 0
    /\ sem' = [sem EXCEPT ![spin] = @ - 1]
    /\ Goto(p, t, next)
    /\ UNCHANGED lock

SpinDown(p, t, spin, next) == Park(p, t, spin, next) \/ Pend(p, t, spin, next)

-----------------------------------------------------------------------------
(* What the two exchange *)

Threads == {"client", "servlet"}

Outcome(v) == [error |-> IF v \in Throwing THEN "exception" ELSE "none", body |-> v]
Outcomes == {Outcome(v) : v \in Values}
Nothing == [error |-> "nothing"]

(* A request holds the index and the arguments, a reply the error code and *)
(* the value or the text of the exception.  Headers of both kinds share    *)
(* the same bytes of the page.                                             *)
Request(v) == [header |-> "call", body |-> v]
Reply(v) == [header |-> Outcome(v).error, body |-> v]
Blank == [header |-> "none", body |-> Null]

Init == /\ ControlInit
        /\ pc = [t \in Threads |-> IF t = "client" THEN "idle" ELSE "park"]
        /\ page = Blank
        /\ arg = Null
        /\ job = Null
        /\ result = Nothing

-----------------------------------------------------------------------------
(* The client *)

(* A call begins: the arguments are bound, the page is about to be written. *)
Call == /\ pc["client"] = "idle"
        /\ arg' \in Values
        /\ Goto(pc, "client", "store")
        /\ UNCHANGED <<lock, sem, page, job, result>>

(* store_header and stream_write. *)
Store == /\ pc["client"] = "store"
         /\ page' = Request(arg)
         /\ Goto(pc, "client", "claim")
         /\ UNCHANGED <<lock, sem, arg, job, result>>

(* Mutant: the two directions are swapped. *)
NotifySwapped == /\ \/ SpinUp(pc, "client", "out", "in", "park")
                    \/ SpinDown(pc, "client", "in", "load")
                 /\ UNCHANGED dataVars

(* transport.notify(): spin_up of the in direction, spin_down of the out.   *)
Notify == /\ \/ SpinUp(pc, "client", "in", "out", "park")
             \/ SpinDown(pc, "client", "out", "load")
          /\ UNCHANGED dataVars

(* Mutant: the error code is not looked at. *)
LoadHeaderUnchecked ==
    /\ pc["client"] = "load"
    /\ Goto(pc, "client", "value")
    /\ UNCHANGED <<lock, sem, page, arg, job, result>>

(* load_header: the error code decides; an exception or a dead link throws. *)
(* A request read in place of a reply (MemoryLink) has an index there, which *)
(* is never 0: the code throws then too.                                   *)
LoadHeader ==
    /\ pc["client"] = "load"
    /\ IF page.header = "none"
       THEN /\ Goto(pc, "client", "value")
            /\ UNCHANGED result
       ELSE /\ Goto(pc, "client", "idle")
            /\ result' = [error |-> page.header, body |-> page.body]
    /\ UNCHANGED <<lock, sem, page, arg, job>>

(* stream_read< result_type > and the return to the caller. *)
LoadValue ==
    /\ pc["client"] = "value"
    /\ result' = [error |-> "none", body |-> page.body]
    /\ Goto(pc, "client", "idle")
    /\ UNCHANGED <<lock, sem, page, arg, job>>

ClientStep == Store \/ Notify \/ LoadHeader \/ LoadValue

-----------------------------------------------------------------------------
(* The servlet *)

(* transport.wait(), before the function: spin_down of the in direction. *)
Wait == /\ SpinDown(pc, "servlet", "in", "decode")
        /\ UNCHANGED dataVars

(* ipc_decode, reading: the request is taken off the page.  The one other   *)
(* header a servlet can find here is the link server's (see MemoryLink),    *)
(* whose bytes are those of index 0, the call of ipc_null.                  *)
Decode == /\ pc["servlet"] = "decode"
          /\ job' = IF page.header = "call" THEN page.body ELSE Null
          /\ Goto(pc, "servlet", "encode")
          /\ UNCHANGED <<lock, sem, page, arg, result>>

(* ipc_decode, the execution and the reply's header written over it;       *)
(* ipc_null leaves the body alone.                                         *)
Encode == /\ pc["servlet"] = "encode"
          /\ page' = IF job = Null THEN [page EXCEPT !.header = "none"] ELSE Reply(job)
          /\ Goto(pc, "servlet", "claim")
          /\ UNCHANGED <<lock, sem, arg, job, result>>

(* transport.wait(), after the function: spin_up of the out direction. *)
Answer == /\ SpinUp(pc, "servlet", "out", "in", "loop")
          /\ UNCHANGED dataVars

(* while ( link ), with the link up throughout. *)
Loop == /\ pc["servlet"] = "loop"
        /\ Goto(pc, "servlet", "park")
        /\ UNCHANGED <<lock, sem, page, arg, job, result>>

ServletRun == Wait \/ Decode \/ Encode \/ Answer
ServletStep == ServletRun \/ Loop

-----------------------------------------------------------------------------
Next == Call \/ ClientStep \/ ServletStep

Safety == Init /\ [][Next]_vars
(* Both threads are scheduled: a runnable thread eventually takes its next *)
(* step.  Whether to start another call is the caller's choice.            *)
Spec == Safety /\ WF_vars(ClientStep) /\ WF_vars(ServletStep)

-----------------------------------------------------------------------------
ClientLabels == SpinUpLabels \union SpinDownLabels \union {"idle", "store", "load", "value"}
ServletLabels == SpinUpLabels \union SpinDownLabels \union {"decode", "encode", "loop"}

(* The range of every variable; the semaphores are binary in effect. *)
TypeOK == /\ lock \in [Directions -> LockState]
          /\ sem \in [Directions -> 0 .. 1]
          /\ pc \in [Threads -> ClientLabels \union ServletLabels]
          /\ pc["client"] \in ClientLabels
          /\ pc["servlet"] \in ServletLabels
          /\ page \in {Blank} \union {Request(v) : v \in Values} \union {Reply(v) : v \in Values}
          /\ arg \in Values \union {Null}
          /\ job \in Values \union {Null}
          /\ result \in Outcomes \union {Nothing}

(* The client and the servlet never touch the shared page at the same time: *)
(* the lock words alone keep the writes of the two processes apart.         *)
PageExclusive == ~ /\ pc["client"] \in {"store", "load", "value"}
                   /\ pc["servlet"] \in {"decode", "encode"}

(* With no link thread interfering, "Invalid lock state" is never thrown by *)
(* either side: every word spin_up finds is one its protocol expects.       *)
NoInvalidLockState == \A t \in Threads : pc[t] # "thrown"

(* A turn is never lost: when both threads sleep on their semaphores, a     *)
(* post that will wake one of them has been made.                           *)
NoLostTurn == (\A t \in Threads : pc[t] = "pend") => \E d \in Directions : sem[d] > 0

(* A call, once begun, returns to its caller. *)
CallReturns == (pc["client"] # "idle") ~> (pc["client"] = "idle")

(* The transport implements the promise of RpcChannel: a call is in phase   *)
(* "called" until the servlet has written its reply, and that reply is what *)
(* the caller returns with.                                                 *)
Phase == IF pc["client"] = "idle" THEN "idle"
         ELSE IF pc["client"] # "store" /\ page.header # "call" THEN "served"
         ELSE "called"
Channel == INSTANCE RpcChannel WITH
               phase <- Phase,
               answer <- IF Phase = "served" THEN [error |-> page.header, body |-> page.body]
                         ELSE Nothing
Implements == Channel!Spec
=============================================================================
