------------------------------ MODULE Sockets ------------------------------
(***************************************************************************)
(* A pair of connected sockets (foundation/io/socket.cpp), each end in a   *)
(* process of its own, and the poll of foundation/io/poll.cpp over both    *)
(* ends.  What is on its way to an end is a queue of bytes and of          *)
(* descriptors, each of the latter riding on one byte.  The kernel's side  *)
(* (what a shutdown, a close and a reset do to the other end) is modelled  *)
(* from how the code uses it.                                              *)
(***************************************************************************)
EXTENDS Naturals, Sequences, FiniteSets

CONSTANTS Senders,  \* the ends that send
          MaxSent,  \* bytes and descriptors an end sends at most
          MaxRead   \* bytes a call of receive asks for at most

VARIABLES
    wire,      \* what is on its way to an end
    sent,      \* number of items an end has sent
    taken,     \* number of items an end has taken off its wire
    down,      \* directions of an end that are shut down, by itself or by its peer
    shut,      \* the ends that are closed
    reset,     \* the peer closed with bytes unread: the next receive fails
    wanted,    \* bytes a waiting receive still wants, and the bytes it asked for
    outcome,   \* how the last call of an end came out
    events,    \* what the last poll returned and has not called back for
    reported   \* the last call back of the poll

socketVars == <<wire, sent, taken, down, shut, reset, wanted, outcome, events, reported>>

Ends == {"a", "b"}
Peer(e) == IF e = "a" THEN "b" ELSE "a"
Both == {"read", "write"}
Idle == <<0, 0>>

-----------------------------------------------------------------------------
(* make_pair.                                                              *)
SocketsInit ==
    /\ wire = [e \in Ends |-> <<>>]
    /\ sent = [e \in Ends |-> 0]
    /\ taken = [e \in Ends |-> 0]
    /\ down = [e \in Ends |-> {}]
    /\ shut = {}
    /\ reset = {}
    /\ wanted = [e \in Ends |-> Idle]
    /\ outcome = [e \in Ends |-> "none"]
    /\ events = <<>>
    /\ reported = <<"none">>

Free(e) == e \notin shut /\ wanted[e] = Idle
Became(e, how) == outcome' = [outcome EXCEPT ![e] = how]
QuietPoll == events' = events /\ reported' = <<"none">>

(* send( buffer, bytes ): some of the bytes go, or the call fails: the     *)
(* flag keeps the signal of a broken pipe away.                            *)
Send(e, n) ==
    /\ Free(e)
    /\ IF "write" \in down[e]
       THEN Became(e, "error") /\ UNCHANGED <<wire, sent>>
       ELSE \E k \in 1 .. n :
                /\ sent[e] + k <= MaxSent
                /\ wire' = [wire EXCEPT ![Peer(e)] = @ \o [i \in 1 .. k |-> "byte"]]
                /\ sent' = [sent EXCEPT ![e] = @ + k]
                /\ Became(e, IF k = n THEN "ok" ELSE "partial")
    /\ UNCHANGED <<taken, down, shut, reset, wanted>> /\ QuietPoll

(* An end goes: what it had not read resets the other end.                 *)
Closed(e) ==
    /\ shut' = shut \union {e}
    /\ down' = [d \in Ends |-> Both]
    /\ reset' = IF wire[e] # <<>> /\ Peer(e) \notin shut THEN reset \union {Peer(e)} ELSE reset
    /\ wanted' = [wanted EXCEPT ![e] = Idle]

(* send( descriptor ): nothing keeps the signal away here, and the default *)
(* for it ends the process.                                                *)
SendDescriptor(e) ==
    /\ Free(e)
    /\ IF "write" \in down[e]
       THEN /\ Became(e, "killed") /\ Closed(e)
            /\ wire' = [wire EXCEPT ![e] = <<>>]
            /\ UNCHANGED sent
       ELSE /\ sent[e] < MaxSent
            /\ wire' = [wire EXCEPT ![Peer(e)] = Append(@, "descriptor")]
            /\ sent' = [sent EXCEPT ![e] = @ + 1]
            /\ Became(e, "ok")
            /\ UNCHANGED <<down, shut, reset, wanted>>
    /\ UNCHANGED taken /\ QuietPoll

(* receive( buffer, bytes ) with MSG_WAITALL: the call takes what arrives  *)
(* until it has all, or the end is reached.  A descriptor it comes across  *)
(* is let go and ends the call with its byte.                              *)
Receive(e, n) ==
    /\ Free(e)
    /\ wanted' = [wanted EXCEPT ![e] = <<n, n>>]
    /\ Became(e, "waiting")
    /\ UNCHANGED <<wire, sent, taken, down, shut, reset>> /\ QuietPoll

(* Mutant: without MSG_WAITALL the call returns with what there is.        *)
FullNow(e) == wanted[e][1] = 1 \/ Len(wire[e]) = 1
Full(e) == wanted[e][1] = 1

Take(e) ==
    /\ wanted[e] # Idle /\ wire[e] # <<>>
    /\ wire' = [wire EXCEPT ![e] = Tail(@)]
    /\ taken' = [taken EXCEPT ![e] = @ + 1]
    /\ IF Head(wire[e]) = "descriptor"
       THEN wanted' = [wanted EXCEPT ![e] = Idle] /\ Became(e, "lost")
       ELSE IF Full(e)
       THEN /\ wanted' = [wanted EXCEPT ![e] = Idle]
            /\ Became(e, IF wanted[e][1] = 1 THEN "ok" ELSE "short")
       ELSE /\ wanted' = [wanted EXCEPT ![e][1] = @ - 1]
            /\ UNCHANGED outcome
    /\ UNCHANGED <<sent, down, shut, reset>> /\ QuietPoll

EndOfInput(e) == wire[e] = <<>> /\ (e \in reset \/ "read" \in down[e])

Ended(e) ==
    /\ wanted[e] # Idle /\ EndOfInput(e)
    /\ wanted' = [wanted EXCEPT ![e] = Idle]
    /\ Became(e, IF e \in reset /\ wanted[e][1] = wanted[e][2] THEN "error" ELSE "short")
    /\ reset' = IF wanted[e][1] = wanted[e][2] THEN reset \ {e} ELSE reset
    /\ UNCHANGED <<wire, sent, taken, down, shut>> /\ QuietPoll

(* receive( void ): the buffer for control data is not cleared, so without *)
(* a descriptor in the message its old contents are tested and used.       *)
ReceiveDescriptor(e) ==
    /\ Free(e) /\ (wire[e] # <<>> \/ EndOfInput(e))
    /\ IF wire[e] = <<>>
       THEN /\ IF e \in reset THEN Became(e, "error")
               ELSE \E how \in {"error", "garbage"} : Became(e, how)
            /\ reset' = reset \ {e}
            /\ UNCHANGED <<wire, taken>>
       ELSE /\ wire' = [wire EXCEPT ![e] = Tail(@)]
            /\ taken' = [taken EXCEPT ![e] = @ + 1]
            /\ IF Head(wire[e]) = "descriptor"
               THEN Became(e, "ok")
               ELSE \E how \in {"error", "garbage"} : Became(e, how)
            /\ UNCHANGED reset
    /\ UNCHANGED <<sent, down, shut, wanted>> /\ QuietPoll

Mirror(how) == {IF d = "read" THEN "write" ELSE "read" : d \in how}

(* shutdown, from any thread of the process, also while a receive waits.   *)
Shutdown(e, how) ==
    /\ e \notin shut
    /\ down' = [down EXCEPT ![e] = @ \union how, ![Peer(e)] = @ \union Mirror(how)]
    /\ UNCHANGED <<wire, sent, taken, shut, reset, wanted, outcome>> /\ QuietPoll

(* ~descriptor of the last copy of an end                                  *)
Close(e) ==
    /\ Free(e) /\ Closed(e)
    /\ wire' = [wire EXCEPT ![e] = <<>>]
    /\ UNCHANGED <<sent, taken, outcome>> /\ QuietPoll

-----------------------------------------------------------------------------
(* What the kernel says of an end, and what poll::wait makes of it.        *)
Signs(e) == (IF e \in reset THEN {"POLLERR"} ELSE {})
            \union (IF down[e] = Both THEN {"POLLHUP"} ELSE {})
            \union (IF wire[e] # <<>> \/ "read" \in down[e] THEN {"POLLIN"} ELSE {})

Kind(signs) == IF "POLLERR" \in signs THEN "error"
               ELSE IF "POLLHUP" \in signs THEN "disconnect" ELSE "input"

InOrder(ends) == IF ends = Ends THEN <<"a", "b">>
                 ELSE IF ends = {} THEN <<>> ELSE <<CHOOSE e \in ends : TRUE>>

(* wait returns when there is something to say of an end that is watched.  *)
Poll ==
    /\ events = <<>>
    /\ LET ready == InOrder({e \in Ends \ shut : Signs(e) # {}})
       IN  /\ ready # <<>>
           /\ events' = [i \in DOMAIN ready |-> <<ready[i], Signs(ready[i]), taken[ready[i]]>>]
    /\ reported' = <<"none">>
    /\ UNCHANGED <<wire, sent, taken, down, shut, reset, wanted, outcome>>

(* It calls back for one after the other; what an end did since the poll   *)
(* is not looked at.                                                       *)
CallBack ==
    /\ events # <<>>
    /\ reported' = LET event == Head(events)
                   IN  <<Kind(event[2]), event[1], event[3]>>
    /\ events' = Tail(events)
    /\ UNCHANGED <<wire, sent, taken, down, shut, reset, wanted, outcome>>

SocketsNext ==
    \/ \E e \in Ends :
           \/ \E n \in 1 .. MaxRead : Receive(e, n) \/ (e \in Senders /\ Send(e, n))
           \/ e \in Senders /\ SendDescriptor(e)
           \/ ReceiveDescriptor(e) \/ Take(e) \/ Ended(e)
           \/ \E how \in {{"read"}, {"write"}, Both} : Shutdown(e, how)
           \/ Close(e)
    \/ Poll
    \/ CallBack

-----------------------------------------------------------------------------
(* A receive returns less than it was asked for only when no more can      *)
(* come; bytes sent to an end that has gone are an error and never end the *)
(* sender, which the handing over of a descriptor does.                    *)
ReceiveWhole ==
    \A e \in Ends : outcome[e] = "short" => "read" \in down[e]

(* Nothing is left out or taken twice: what an end has taken and what is   *)
(* on its way make up what the other end has sent.                         *)
NothingLost ==
    \A e \in Ends \ shut : taken[e] + Len(wire[e]) = sent[Peer(e)]

(* Who is told of input can receive without waiting, unless the end was    *)
(* read or closed since; who is told of the end finds both directions      *)
(* closed.  The end is told before what is still unread.                   *)
PollTells ==
    reported[1] # "none" =>
        LET e == reported[2]
            same == taken[e] = reported[3] /\ e \notin shut
        IN  /\ reported[1] = "input" /\ same => wire[e] # <<>> \/ "read" \in down[e]
            /\ reported[1] = "disconnect" => down[e] = Both
=============================================================================
