----------------------------- MODULE SocketRpc ------------------------------
(***************************************************************************)
(* Pipelined calls over a socket: ipc::socket::client with its reader      *)
(* thread, the servlet that executes the calls one after the other, and    *)
(* the two byte streams between them.  Calls are numbered by client::out,  *)
(* replies are matched to them by counting, with client::in.               *)
(*                                                                         *)
(* A section under client::mutex is one action, as is what the reader does *)
(* between two of them.  The call with number n carries n as its argument, *)
(* and a reply says which call it answers: the code sends neither.         *)
(***************************************************************************)
EXTENDS Naturals, Sequences

CONSTANTS Limit,        \* a bound on the calls made, the last one of ~client aside
          Throwing,     \* the calls whose function throws
          Waiters,      \* threads, other than the client's owner, that wait for results
          Owner,        \* the thread that makes the calls and destroys the client
          Spurious      \* whether condition::wait may return without a signal

ASSUME LimitAssumption == Limit \in Nat
ASSUME OwnerAssumption == Owner \notin Waiters
ASSUME SpuriousAssumption == Spurious \in BOOLEAN

Calls == 1 .. Limit + 1
Users == Waiters \union {Owner}
NoReply == 0                    \* map_tuple(), before the reply has arrived
Down == Limit + 2               \* ~u64( 0 ) in notify: the reader has stopped

VARIABLES in, out, notify,      \* the counters of client
          map, data,            \* client::map: its keys, and the reply stored with each
          result,               \* result_base::state of each call's result
          got,                  \* the reply a result was completed with
          pc, target,           \* what each user thread does, and for which call
          closing,              \* the client is being destroyed
          reader, body,         \* the reader thread, and the reply it has received
          requests, replies,    \* the streams to and from the server
          servlet, job,         \* the servlet thread, and the call it executes
          shut,                 \* ~client has shut the socket down
          woken                 \* history: calls whose wait returned without a signal

counters == <<in, out, notify>>
results == <<map, data, result, got>>
users == <<pc, target, closing>>
readerVars == <<reader, body>>
serverVars == <<servlet, job>>
vars == <<in, out, notify, map, data, result, got, pc, target, closing,
          reader, body, requests, replies, servlet, job, shut, woken>>

Init == /\ in = 0 /\ out = 0 /\ notify = 0
        /\ map = {}
        /\ data = [n \in Calls |-> NoReply]
        /\ result = [n \in Calls |-> "none"]
        /\ got = [n \in Calls |-> NoReply]
        /\ pc = [u \in Users |-> "idle"]
        /\ target = [u \in Users |-> 0]
        /\ closing = FALSE
        /\ reader = "receive" /\ body = NoReply
        /\ requests = <<>> /\ replies = <<>>
        /\ servlet = "read" /\ job = 0
        /\ shut = FALSE /\ woken = {}

Goto(u, label) == pc' = [pc EXCEPT ![u] = label]

-----------------------------------------------------------------------------
(* rpc::operator() *)

(* client::insert.  "must insert before write to avoid race". *)
Insert == /\ out' = out + 1
          /\ map' = map \union {out + 1}
          /\ Goto(Owner, "write")

Call == /\ pc[Owner] = "idle" /\ ~ closing
        /\ out < Limit
        /\ Insert
        /\ UNCHANGED <<in, notify, data, result, got, target, closing, readerVars,
                       requests, replies, serverVars, shut, woken>>

(* client::write, and the result is constructed. *)
Write == /\ pc[Owner] = "write"
         /\ requests' = IF servlet # "exit" THEN Append(requests, out) ELSE requests
         /\ result' = [result EXCEPT ![out] = "wait"]
         /\ Goto(Owner, IF closing THEN "flush" ELSE "idle")
         /\ UNCHANGED <<counters, map, data, got, target, closing, readerVars,
                        replies, serverVars, shut, woken>>

(* client::write throws once the other end is gone: no result, but its     *)
(* entry stays.  Out of ~client the exception goes on to ~thread.          *)
WriteFails ==
    /\ pc[Owner] = "write"
    /\ servlet = "exit"
    /\ Goto(Owner, IF closing THEN "join" ELSE "idle")
    /\ UNCHANGED <<counters, results, target, closing, readerVars,
                   requests, replies, serverVars, shut, woken>>

-----------------------------------------------------------------------------
(* result::operator(), client::wait *)

(* An empty tuple has state error and no bytes: except() reads from null.   *)
(* What the other threads do after that is of no interest.                 *)
After(u, n) == IF data[n] = NoReply THEN "crashed"
               ELSE IF u = Owner /\ closing THEN "shutdown" ELSE "idle"
Fails(u) == IF u = Owner /\ closing THEN "join" ELSE "idle"

Take(u, n) ==
    /\ map' = map \ {n}
    /\ got' = [got EXCEPT ![n] = data[n]]
    /\ result' = [result EXCEPT ![n] = IF data[n] \in {NoReply} \union Throwing
                                       THEN "error" ELSE "done"]
    /\ Goto(u, After(u, n))
    /\ UNCHANGED <<notify, data, target>>

(* error_check throws error::connection; the result stays as it is. *)
Throw(u) == Goto(u, Fails(u)) /\ UNCHANGED <<notify, results, target>>

Untargeted(n) == \A u \in Users : pc[u] \in {"asleep", "awake"} => target[u] # n

(* The first half of wait: the reply has come, or notify asks for it. *)
Wait(u, n) ==
    /\ pc[u] = "idle" \/ (u = Owner /\ pc[u] = "flush" /\ n = out)
    /\ result[n] = "wait" /\ Untargeted(n)
    /\ IF notify = Down THEN Throw(u)
       ELSE IF n > in THEN
            /\ notify' = n
            /\ target' = [target EXCEPT ![u] = n]
            /\ Goto(u, "asleep")
            /\ UNCHANGED results
       ELSE Take(u, n)
    /\ UNCHANGED <<in, out, closing, readerVars, requests, replies, serverVars, shut, woken>>

SpuriousWakeup(u) ==
    /\ Spurious
    /\ pc[u] = "asleep"
    /\ Goto(u, "awake")
    /\ woken' = woken \union {target[u]}
    /\ UNCHANGED <<counters, results, target, closing, readerVars,
                   requests, replies, serverVars, shut>>

(* The second half, with the mutex again: while ( notify != ... ). *)
Awake(u) ==
    /\ pc[u] = "awake"
    /\ IF notify = Down THEN Throw(u)
       ELSE IF notify # target[u] THEN
            /\ Goto(u, "asleep")
            /\ UNCHANGED <<notify, results, target>>
       ELSE Take(u, target[u])
    /\ UNCHANGED <<in, out, closing, readerVars, requests, replies, serverVars, shut, woken>>

(* ~result_base, client::erase: nobody is interested in the reply. *)
Drop(n) ==
    /\ pc[Owner] = "idle" /\ ~ closing
    /\ result[n] = "wait" /\ Untargeted(n)
    /\ map' = map \ {n}
    /\ result' = [result EXCEPT ![n] = "gone"]
    /\ UNCHANGED <<counters, data, got, users, readerVars, requests, replies,
                   serverVars, shut, woken>>

-----------------------------------------------------------------------------
(* ~client, after the results of its calls: each of them refers to it. *)
Close ==
    /\ pc[Owner] = "idle" /\ ~ closing
    /\ \A n \in Calls : result[n] # "wait"
    /\ \A u \in Users : pc[u] = "idle"
    /\ closing' = TRUE
    /\ IF notify # Down /\ in # out THEN Insert
       ELSE /\ Goto(Owner, IF notify = Down THEN "join" ELSE "shutdown")
            /\ UNCHANGED <<out, map>>
    /\ UNCHANGED <<in, notify, data, result, got, target, readerVars,
                   requests, replies, serverVars, shut, woken>>

(* Mutant: the socket is left open. *)
ShutdownForgotten ==
    /\ pc[Owner] = "shutdown"
    /\ Goto(Owner, "join")
    /\ UNCHANGED <<counters, results, target, closing, readerVars,
                   requests, replies, serverVars, shut, woken>>

(* connect.shutdown( read_write ), "to stop reader thread". *)
Shutdown == /\ pc[Owner] = "shutdown"
            /\ shut' = TRUE
            /\ Goto(Owner, "join")
            /\ UNCHANGED <<counters, results, target, closing, readerVars,
                           requests, replies, serverVars, woken>>

(* ~thread *)
Join == /\ pc[Owner] = "join"
        /\ reader = "exit"
        /\ Goto(Owner, "closed")
        /\ UNCHANGED <<counters, results, target, closing, readerVars,
                       requests, replies, serverVars, shut, woken>>

UserStep(u) == \/ Awake(u)
               \/ u = Owner /\ (Write \/ WriteFails \/ Shutdown \/ Join)
               \/ u = Owner /\ pc[u] = "flush" /\ Wait(u, out)

-----------------------------------------------------------------------------
(* client::main *)

(* The next reply, header and body. *)
Receive == /\ reader = "receive"
           /\ replies # <<>>
           /\ body' = Head(replies)
           /\ replies' = Tail(replies)
           /\ reader' = "match"
           /\ UNCHANGED <<counters, results, users, requests, serverVars, shut, woken>>

(* The stream ends, between two replies or within one: break, or a throw.   *)
(* Once the socket is shut down what is left in the stream may be lost.    *)
Eof == /\ reader = "receive"
       /\ (replies = <<>> /\ servlet = "exit") \/ shut
       /\ reader' = "set"
       /\ UNCHANGED <<counters, results, users, body, requests, replies, serverVars, shut, woken>>

(* Mutant: only replies that somebody still wants are counted. *)
MatchUncounted ==
    /\ reader = "match"
    /\ in' = IF in + 1 \in map THEN in + 1 ELSE in
    /\ data' = IF in + 1 \in map THEN [data EXCEPT ![in + 1] = body] ELSE data
    /\ reader' = IF in + 1 = notify THEN "signal" ELSE "receive"
    /\ UNCHANGED <<out, notify, map, result, got, users, body, requests, replies,
                   serverVars, shut, woken>>

(* Mutant: the reply is matched before the number is incremented. *)
MatchLate ==
    /\ reader = "match"
    /\ in' = in + 1
    /\ data' = IF in \in map THEN [data EXCEPT ![in] = body] ELSE data
    /\ reader' = IF in + 1 = notify THEN "signal" ELSE "receive"
    /\ UNCHANGED <<out, notify, map, result, got, users, body, requests, replies,
                   serverVars, shut, woken>>

(* Under the mutex: ++in, and the reply is stored if there is a result. *)
Match ==
    /\ reader = "match"
    /\ in' = in + 1
    /\ data' = IF in + 1 \in map THEN [data EXCEPT ![in + 1] = body] ELSE data
    /\ reader' = IF in + 1 = notify THEN "signal" ELSE "receive"
    /\ UNCHANGED <<out, notify, map, result, got, users, body, requests, replies,
                   serverVars, shut, woken>>

(* condition.notify_one(): any one of the sleepers. *)
NotifyOne == IF \E u \in Users : pc[u] = "asleep"
             THEN \E u \in Users : pc[u] = "asleep" /\ Goto(u, "awake")
             ELSE UNCHANGED pc

Signal == /\ reader = "signal"
          /\ NotifyOne
          /\ reader' = "receive"
          /\ UNCHANGED <<counters, results, target, closing, body, requests, replies,
                         serverVars, shut, woken>>

(* Mutant: the reader ends without a word. *)
SetErrorSilently ==
    /\ reader = "set"
    /\ notify' = Down
    /\ reader' = "exit"
    /\ UNCHANGED <<in, out, results, users, body, requests, replies, serverVars, shut, woken>>

(* error_set: scoped runs it however main is left. *)
SetError == /\ reader = "set"
            /\ notify' = Down
            /\ reader' = "alarm"
            /\ UNCHANGED <<in, out, results, users, body, requests, replies, serverVars, shut, woken>>

Alarm == /\ reader = "alarm"
         /\ NotifyOne
         /\ reader' = "exit"
         /\ UNCHANGED <<counters, results, target, closing, body, requests, replies,
                        serverVars, shut, woken>>

ReaderStep == Receive \/ Eof \/ Match \/ Signal \/ SetError \/ Alarm

-----------------------------------------------------------------------------
(* servlet::main *)

(* Mutant: the request stays in the stream. *)
ReadRequestAgain == /\ servlet = "read"
                    /\ requests # <<>>
                    /\ job' = Head(requests)
                    /\ servlet' = "execute"
                    /\ UNCHANGED <<counters, results, users, readerVars, requests,
                                   replies, shut, woken>>

(* The next call, header and arguments. *)
ReadRequest == /\ servlet = "read"
               /\ requests # <<>>
               /\ job' = Head(requests)
               /\ requests' = Tail(requests)
               /\ servlet' = "execute"
               /\ UNCHANGED <<counters, results, users, readerVars, replies, shut, woken>>

(* switchboard.execute and the reply; a client that is gone ends the loop. *)
WriteReply == /\ servlet = "execute"
              /\ IF shut
                 THEN servlet' = "exit" /\ UNCHANGED replies
                 ELSE servlet' = "read" /\ replies' = Append(replies, job)
              /\ UNCHANGED <<counters, results, users, readerVars, requests, job, shut, woken>>

EndOfRequests == /\ servlet = "read"
                 /\ requests = <<>> /\ shut
                 /\ servlet' = "exit"
                 /\ UNCHANGED <<counters, results, users, readerVars, requests, replies,
                                job, shut, woken>>

ServletStep == ReadRequest \/ WriteReply \/ EndOfRequests

(* The server process dies; of its last replies any prefix arrives. *)
ServerDies == /\ servlet # "exit"
              /\ servlet' = "exit"
              /\ \E n \in 0 .. Len(replies) : replies' = SubSeq(replies, 1, n)
              /\ UNCHANGED <<counters, results, users, readerVars, requests, job, shut, woken>>

-----------------------------------------------------------------------------
Next == \/ Call \/ Close
        \/ \E n \in Calls : Drop(n) \/ \E u \in Users : Wait(u, n)
        \/ \E u \in Users : UserStep(u) \/ SpuriousWakeup(u)
        \/ ReaderStep \/ ServletStep \/ ServerDies

Safety == Init /\ [][Next]_vars
(* Every thread is scheduled and every called function returns.  What calls *)
(* are made, waited for or dropped is up to the program.                   *)
Spec == /\ Safety
        /\ \A u \in Users : WF_vars(UserStep(u))
        /\ WF_vars(ReaderStep) /\ WF_vars(ServletStep)

-----------------------------------------------------------------------------
(* The range of every variable. *)
TypeOK ==
    /\ in \in 0 .. Limit + 1 /\ out \in 0 .. Limit + 1 /\ notify \in 0 .. Down
    /\ map \subseteq Calls
    /\ data \in [Calls -> 0 .. Limit + 1] /\ got \in [Calls -> 0 .. Limit + 1]
    /\ result \in [Calls -> {"none", "wait", "done", "error", "gone"}]
    /\ pc \in [Users -> {"idle", "write", "asleep", "awake", "flush", "shutdown", "join", "closed", "crashed"}]
    /\ target \in [Users -> 0 .. Limit + 1]
    /\ closing \in BOOLEAN /\ shut \in BOOLEAN /\ woken \subseteq Calls
    /\ reader \in {"receive", "match", "signal", "set", "alarm", "exit"}
    /\ body \in 0 .. Limit + 1 /\ job \in 0 .. Limit + 1
    /\ requests \in Seq(Calls) /\ replies \in Seq(Calls)
    /\ servlet \in {"read", "execute", "exit"}

(* Counting is enough to match replies with calls: a reply that has been    *)
(* received is with the call it answers, if that call still has a result,  *)
(* and a result is never completed with the reply to another call.         *)
RightReply == \A n \in Calls : /\ n \in map /\ n <= in => data[n] = n
                               /\ data[n] \in {NoReply, n}
                               /\ got[n] \in {NoReply, n}

(* No reply is lost or counted twice while the server lives: every call     *)
(* made is in exactly one place on its way round.                          *)
Travelling == (IF pc[Owner] = "write" THEN 1 ELSE 0) + Len(requests)
              + (IF servlet = "execute" THEN 1 ELSE 0) + Len(replies)
              + (IF reader = "match" THEN 1 ELSE 0)
CallsConserved == servlet # "exit" /\ ~ shut => in + Travelling = out

(* A wait that returned without a signal makes false what it tests, reads   *)
(* the empty result and crashes; or it is in time, and leaves its signal to *)
(* the wait for a later call, which does the same.                         *)
Misled(u, n) == pc[u] = "crashed" /\ \E m \in woken : m <= n

(* A thread that waits for a result gets the reply to its call, or is told  *)
(* that the connection is down, whenever the server dies, as long as waits  *)
(* return only when they are signalled.                                    *)
WaitReturns ==
    \A u \in Users, n \in Calls :
        pc[u] \in {"asleep", "awake"} /\ target[u] = n ~>
            \/ got[n] = n
            \/ notify = Down /\ pc[u] \notin {"asleep", "awake"}
            \/ Misled(u, n)

(* The destructor returns: its flush is answered or interrupted, and its    *)
(* shutdown stops the reader; as long as its wait is not misled.           *)
CloseReturns == closing ~> pc[Owner] = "closed" \/ Misled(Owner, target[Owner])

(* A result is completed by the reply to its call and by nothing else.  A   *)
(* spurious wakeup completes it with the empty tuple: see the README.      *)
CompletedByReply == \A n \in Calls : result[n] \in {"done", "error"} => got[n] = n
=============================================================================
