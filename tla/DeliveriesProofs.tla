--------------------------- MODULE DeliveriesProofs ---------------------------
(***************************************************************************)
(* What is sent over a socket arrives, poll tells of it, a call of a       *)
(* signal reaches its slots, and what is written in a buffer is read as it *)
(* was: proofs of DeliveriesRight.                                         *)
(***************************************************************************)
EXTENDS LookupsProofs

-----------------------------------------------------------------------------
(* Sockets: the two ends of a connection, and the poll over them *)

Units == {"byte", "descriptor"}
Found == Socket!Ends \X (SUBSET {"POLLERR", "POLLHUP", "POLLIN"}) \X Nat

SocketsType ==
    /\ wire \in [Socket!Ends -> Seq(Units)]
    /\ sent \in [Socket!Ends -> Nat]
    /\ drawn \in [Socket!Ends -> Nat]
    /\ down \in [Socket!Ends -> SUBSET Socket!Both]
    /\ shut \subseteq Socket!Ends /\ reset \subseteq Socket!Ends
    /\ outcome \in [Socket!Ends -> {"none", "ok", "partial", "error", "killed", "waiting",
                                    "lost", "short", "garbage"}]
    /\ events \in Seq(Found)

(* Only an end whose peer is closed is reset, and then nothing can be sent. *)
ClosedInv ==
    /\ \A e \in reset : down[e] = Socket!Both
    /\ shut # {} => \A e \in Socket!Ends : down[e] = Socket!Both

(* What poll found of an end is so, until the end is read or closed.       *)
EventRight(e, signs, n) ==
    /\ signs # {} /\ n <= drawn[e]
    /\ "POLLHUP" \in signs => down[e] = Socket!Both
    /\ "POLLIN" \in signs /\ n = drawn[e] /\ e \notin shut =>
           wire[e] # <<>> \/ "read" \in down[e]
EventsInv == \A i \in 1 .. Len(events) :
    EventRight(events[i][1], events[i][2], events[i][3])

SocketsInv ==
    /\ SocketsType /\ ClosedInv /\ EventsInv
    /\ Socket!ReceiveWhole /\ Socket!NothingLost /\ Socket!PollTells

(* What the ends do to each other only adds to what poll found. *)
LEMMA EventsKept ==
    ASSUME SocketsType, EventsInv, SocketsType', UNCHANGED events, shut \subseteq shut',
           \A e \in Socket!Ends :
               /\ down[e] \subseteq down'[e]
               /\ drawn[e] <= drawn'[e]
               /\ drawn'[e] = drawn[e] /\ e \notin shut' /\ wire[e] # <<>> => wire'[e] # <<>>
    PROVE  EventsInv'
<1> SUFFICES ASSUME NEW i \in 1 .. Len(events)
             PROVE  EventRight(events[i][1], events[i][2], events[i][3])'
  BY DEF EventsInv
<1>1. PICK e, signs, n : e = events[i][1] /\ signs = events[i][2] /\ n = events[i][3]
  OBVIOUS
<1>2. e \in Socket!Ends /\ n \in Nat /\ EventRight(e, signs, n)
  <2>1. events[i] \in Found
    BY DEF SocketsType
  <2>2. EventRight(events[i][1], events[i][2], events[i][3])
    BY DEF EventsInv
  <2> QED
    BY <1>1, <2>1, <2>2 DEF Found
<1>3. /\ drawn[e] \in Nat /\ drawn'[e] \in Nat /\ drawn[e] <= drawn'[e]
      /\ down[e] \subseteq down'[e] /\ down'[e] \subseteq Socket!Both
      /\ drawn'[e] = drawn[e] /\ e \notin shut' /\ wire[e] # <<>> => wire'[e] # <<>>
      /\ e \notin shut' => e \notin shut
  BY <1>2 DEF SocketsType
<1>4. /\ n <= drawn'[e]
      /\ n = drawn'[e] => drawn'[e] = drawn[e] /\ n = drawn[e]
  BY <1>2, <1>3 DEF EventRight
<1>5. down[e] = Socket!Both => down'[e] = Socket!Both
  BY <1>3
<1>6. EventRight(e, signs, n)'
  BY <1>2, <1>3, <1>4, <1>5 DEF EventRight
<1> QED
  BY <1>1, <1>6

(* A step of the ends says nothing of the poll. *)
LEMMA Quiet ==
    ASSUME Socket!QuietPoll PROVE Socket!PollTells' /\ UNCHANGED events
BY DEF Socket!QuietPoll, Socket!PollTells

(* What a step of the ends must keep. *)
LEMMA EndsStep ==
    ASSUME SocketsInv, Socket!QuietPoll, SocketsType', ClosedInv', shut \subseteq shut',
           \A d \in Socket!Ends :
               /\ down[d] \subseteq down'[d] /\ drawn[d] <= drawn'[d]
               /\ outcome'[d] = "short" => "read" \in down'[d],
           \A d \in Socket!Ends \ shut' :
               /\ drawn'[d] + Len(wire'[d]) = sent'[Socket!Peer(d)]
               /\ drawn'[d] = drawn[d] /\ wire[d] # <<>> => wire'[d] # <<>>
    PROVE  SocketsInv'
<1>1. Socket!PollTells' /\ UNCHANGED events
  BY Quiet
<1>2. EventsInv'
  BY <1>1, EventsKept DEF SocketsInv
<1>3. Socket!ReceiveWhole'
  BY DEF Socket!ReceiveWhole
<1>4. Socket!NothingLost'
  BY DEF Socket!NothingLost
<1> QED
  BY <1>1, <1>2, <1>3, <1>4 DEF SocketsInv

LEMMA Peers ==
    /\ Socket!Ends = {"a", "b"}
    /\ \A e \in Socket!Ends : /\ Socket!Peer(e) \in Socket!Ends /\ Socket!Peer(e) # e
                              /\ Socket!Peer(Socket!Peer(e)) = e
                              /\ \A d \in Socket!Ends : d = e \/ d = Socket!Peer(e)
BY DEF Socket!Ends, Socket!Peer

(* Units go to the peer of the sender, which is open or will never ask.    *)
LEMMA Sends ==
    ASSUME SocketsInv, NEW e \in Socket!Ends, NEW u \in Seq(Units), NEW how \in {"ok", "partial"},
           "write" \notin down[e],
           wire' = [wire EXCEPT ![Socket!Peer(e)] = wire[Socket!Peer(e)] \o u],
           sent' = [sent EXCEPT ![e] = sent[e] + Len(u)],
           outcome' = [outcome EXCEPT ![e] = how],
           UNCHANGED <<drawn, down, shut, reset>>, Socket!QuietPoll
    PROVE  SocketsInv'
<1> DEFINE p == Socket!Peer(e)
<1>0. SocketsType /\ ClosedInv /\ EventsInv /\ Socket!ReceiveWhole /\ Socket!NothingLost
  BY DEF SocketsInv
<1>1. p \in Socket!Ends /\ p # e /\ Socket!Peer(p) = e /\ \A d \in Socket!Ends : d = e \/ d = p
  BY Peers
<1> HIDE DEF p
<1>2. /\ wire[p] \in Seq(Units) /\ wire[p] \o u \in Seq(Units)
      /\ Len(wire[p] \o u) = Len(wire[p]) + Len(u) /\ Len(u) \in Nat /\ Len(wire[p]) \in Nat
  BY <1>0, <1>1, ConcatProperties DEF SocketsType
<1>3. wire' = [wire EXCEPT ![p] = wire[p] \o u]
  BY DEF p
<1>4. /\ wire'[p] = wire[p] \o u /\ wire'[e] = wire[e]
      /\ sent'[e] = sent[e] + Len(u) /\ sent'[p] = sent[p]
      /\ sent[e] \in Nat /\ drawn[p] \in Nat
  BY <1>0, <1>1, <1>3 DEF SocketsType
<1>5. SocketsType'
  <2>1. wire' \in [Socket!Ends -> Seq(Units)]
    BY <1>0, <1>2, <1>3 DEF SocketsType
  <2>2. sent' \in [Socket!Ends -> Nat]
    BY <1>0, <1>2, <1>4 DEF SocketsType
  <2>3. outcome' \in [Socket!Ends -> {"none", "ok", "partial", "error", "killed", "waiting",
                                      "lost", "short", "garbage"}]
    BY <1>0 DEF SocketsType
  <2> QED
    BY <1>0, <2>1, <2>2, <2>3, Quiet DEF SocketsType
<1>6. ClosedInv'
  BY <1>0 DEF ClosedInv
<1>7. drawn[p] + Len(wire[p]) = sent[e] => drawn[p] + Len(wire'[p]) = sent'[e]
  BY <1>2, <1>4
<1>8. \A d \in Socket!Ends \ shut' : drawn'[d] + Len(wire'[d]) = sent'[Socket!Peer(d)]
  BY <1>0, <1>1, <1>4, <1>7 DEF Socket!NothingLost, p
<1>9. wire[p] # <<>> => wire'[p] # <<>>
  BY <1>2, <1>4
<1>10. \A d \in Socket!Ends : outcome'[d] = "short" => "read" \in down'[d]
  BY <1>0 DEF SocketsType, Socket!ReceiveWhole
<1>11. \A d \in Socket!Ends : drawn[d] <= drawn'[d]
  BY <1>0 DEF SocketsType
<1> QED
  BY <1>1, <1>4, <1>5, <1>6, <1>8, <1>9, <1>10, <1>11, EndsStep

LEMMA SendStep ==
    ASSUME SocketsInv, NEW e \in Socket!Ends, NEW n \in Nat, Socket!Send(e, n)
    PROVE  SocketsInv'
<1>0. SocketsType /\ ClosedInv /\ EventsInv /\ Socket!ReceiveWhole /\ Socket!NothingLost
  BY DEF SocketsInv
<1>1. UNCHANGED <<drawn, down, shut, reset>> /\ Socket!QuietPoll
  BY DEF Socket!Send
<1>2. CASE "write" \in down[e]
  <2>1. outcome' = [outcome EXCEPT ![e] = "error"] /\ UNCHANGED <<wire, sent>>
    BY <1>2 DEF Socket!Send, Socket!Became
  <2>2. SocketsType' /\ ClosedInv'
    BY <1>0, <1>1, <2>1, Quiet DEF SocketsType, ClosedInv
  <2>3. \A d \in Socket!Ends : outcome'[d] = "short" => "read" \in down'[d]
    BY <1>0, <1>1, <2>1 DEF SocketsType, Socket!ReceiveWhole
  <2>4. \A d \in Socket!Ends : drawn[d] <= drawn'[d]
    BY <1>0, <1>1 DEF SocketsType
  <2> QED
    BY <1>0, <1>1, <2>1, <2>2, <2>3, <2>4, EndsStep DEF Socket!NothingLost
<1>3. CASE "write" \notin down[e]
  <2>1. PICK k \in 1 .. n :
            /\ wire' = [wire EXCEPT ![Socket!Peer(e)] = @ \o [i \in 1 .. k |-> "byte"]]
            /\ sent' = [sent EXCEPT ![e] = @ + k]
            /\ outcome' = [outcome EXCEPT ![e] = IF k = n THEN "ok" ELSE "partial"]
    BY <1>3 DEF Socket!Send, Socket!Became
  <2> DEFINE u == [i \in 1 .. k |-> "byte"]
  <2>2. u \in Seq(Units) /\ Len(u) = k
    BY DEF Units
  <2>3. PICK how \in {"ok", "partial"} : outcome' = [outcome EXCEPT ![e] = how]
    BY <2>1
  <2>4. wire' = [wire EXCEPT ![Socket!Peer(e)] = wire[Socket!Peer(e)] \o u]
    BY <2>1
  <2>5. sent' = [sent EXCEPT ![e] = sent[e] + Len(u)]
    BY <2>1, <2>2
  <2> HIDE DEF u
  <2> QED
    BY <1>1, <1>3, <2>2, <2>3, <2>4, <2>5, Sends
<1> QED
  BY <1>2, <1>3

(* An end goes, and its peer can neither send to it nor hear from it.      *)
LEMMA ClosedStep ==
    ASSUME SocketsInv, NEW e \in Socket!Ends, Socket!Closed(e),
           wire' = [wire EXCEPT ![e] = <<>>],
           UNCHANGED outcome \/ outcome' = [outcome EXCEPT ![e] = "killed"],
           UNCHANGED <<sent, drawn>>, Socket!QuietPoll
    PROVE  SocketsInv'
<1>0. SocketsType /\ ClosedInv /\ EventsInv /\ Socket!ReceiveWhole /\ Socket!NothingLost
  BY DEF SocketsInv
<1>1. /\ shut' = shut \union {e} /\ down' = [d \in Socket!Ends |-> Socket!Both]
      /\ reset' = reset \/ reset' = reset \union {Socket!Peer(e)}
  BY DEF Socket!Closed
<1>2. \A d \in Socket!Ends : d # e => wire'[d] = wire[d]
  BY <1>0 DEF SocketsType
<1>3. SocketsType'
  <2>1. wire' \in [Socket!Ends -> Seq(Units)]
    BY <1>0 DEF SocketsType
  <2>2. outcome' \in [Socket!Ends -> {"none", "ok", "partial", "error", "killed", "waiting",
                                      "lost", "short", "garbage"}]
    BY <1>0 DEF SocketsType
  <2> QED
    BY <1>0, <1>1, <2>1, <2>2, Peers, Quiet DEF SocketsType
<1>4. ClosedInv' /\ \A d \in Socket!Ends : down'[d] = Socket!Both /\ down[d] \subseteq Socket!Both
  BY <1>0, <1>1, <1>3 DEF ClosedInv, SocketsType
<1>5. \A d \in Socket!Ends : drawn[d] <= drawn'[d]
  BY <1>0 DEF SocketsType
<1>6. \A d \in Socket!Ends \ shut' : drawn'[d] + Len(wire'[d]) = sent'[Socket!Peer(d)]
  BY <1>0, <1>1, <1>2 DEF Socket!NothingLost
<1> QED
  BY <1>1, <1>2, <1>3, <1>4, <1>5, <1>6, EndsStep DEF Socket!Both

LEMMA SendDescriptorStep ==
    ASSUME SocketsInv, NEW e \in Socket!Ends, Socket!SendDescriptor(e)
    PROVE  SocketsInv'
<1>1. UNCHANGED drawn /\ Socket!QuietPoll
  BY DEF Socket!SendDescriptor
<1>2. CASE "write" \in down[e]
  BY <1>1, <1>2, ClosedStep DEF Socket!SendDescriptor, Socket!Became
<1>3. CASE "write" \notin down[e]
  <2>1. /\ wire' = [wire EXCEPT ![Socket!Peer(e)] = Append(wire[Socket!Peer(e)], "descriptor")]
        /\ sent' = [sent EXCEPT ![e] = sent[e] + 1]
        /\ outcome' = [outcome EXCEPT ![e] = "ok"] /\ UNCHANGED <<down, shut, reset>>
    BY <1>3 DEF Socket!SendDescriptor, Socket!Became
  <2>2. <<"descriptor">> \in Seq(Units) /\ Len(<<"descriptor">>) = 1
    BY DEF Units
  <2>3. wire[Socket!Peer(e)] \in Seq(Units)
    BY Peers DEF SocketsInv, SocketsType
  <2>4. Append(wire[Socket!Peer(e)], "descriptor") = wire[Socket!Peer(e)] \o <<"descriptor">>
    BY <2>3, AppendIsConcat DEF Units
  <2>5. wire' = [wire EXCEPT ![Socket!Peer(e)] = wire[Socket!Peer(e)] \o <<"descriptor">>]
    BY <2>1, <2>4
  <2> QED
    BY <1>1, <1>3, <2>1, <2>2, <2>5, Sends
<1> QED
  BY <1>2, <1>3

(* An end takes units off its wire, or none. *)
LEMMA Takes ==
    ASSUME SocketsInv, NEW e \in Socket!Ends,
           \/ UNCHANGED <<wire, drawn>>
           \/ /\ wire[e] # <<>> /\ wire' = [wire EXCEPT ![e] = Tail(wire[e])]
              /\ drawn' = [drawn EXCEPT ![e] = drawn[e] + 1],
           reset' \subseteq reset, UNCHANGED <<sent, down, shut>>, Socket!QuietPoll,
           \/ UNCHANGED outcome
           \/ \E how \in {"none", "ok", "partial", "error", "killed", "waiting", "lost", "short",
                          "garbage"} :
                  /\ outcome' = [outcome EXCEPT ![e] = how]
                  /\ how = "short" => "read" \in down[e]
    PROVE  SocketsInv'
<1>0. SocketsType /\ ClosedInv /\ EventsInv /\ Socket!ReceiveWhole /\ Socket!NothingLost
  BY DEF SocketsInv
<1>1. ASSUME wire[e] # <<>>
      PROVE  Tail(wire[e]) \in Seq(Units) /\ Len(Tail(wire[e])) + 1 = Len(wire[e])
  BY <1>0, <1>1, HeadTailProperties DEF SocketsType
<1>2. outcome' \in [Socket!Ends -> {"none", "ok", "partial", "error", "killed", "waiting",
                                    "lost", "short", "garbage"}]
  BY <1>0 DEF SocketsType
<1>3. \A d \in Socket!Ends : outcome'[d] = "short" => "read" \in down'[d]
  BY <1>0 DEF SocketsType, Socket!ReceiveWhole
<1>4. /\ wire' \in [Socket!Ends -> Seq(Units)] /\ drawn' \in [Socket!Ends -> Nat]
      /\ \A d \in Socket!Ends :
             /\ drawn[d] <= drawn'[d]
             /\ drawn'[d] + Len(wire'[d]) = drawn[d] + Len(wire[d])
             /\ drawn'[d] = drawn[d] => wire'[d] = wire[d]
  <2>1. CASE UNCHANGED <<wire, drawn>>
    BY <1>0, <2>1 DEF SocketsType
  <2>2. CASE /\ wire[e] # <<>> /\ wire' = [wire EXCEPT ![e] = Tail(wire[e])]
             /\ drawn' = [drawn EXCEPT ![e] = drawn[e] + 1]
    <3>1. /\ wire[e] \in Seq(Units) /\ Tail(wire[e]) \in Seq(Units)
          /\ Len(wire[e]) \in Nat /\ Len(Tail(wire[e])) \in Nat
          /\ Len(Tail(wire[e])) + 1 = Len(wire[e]) /\ drawn[e] \in Nat
      BY <1>0, <1>1, <2>2 DEF SocketsType
    <3>2. /\ wire' \in [Socket!Ends -> Seq(Units)]
          /\ wire'[e] = Tail(wire[e]) /\ \A d \in Socket!Ends \ {e} : wire'[d] = wire[d]
      BY <1>0, <2>2, <3>1 DEF SocketsType
    <3>3. /\ drawn' \in [Socket!Ends -> Nat]
          /\ drawn'[e] = drawn[e] + 1 /\ \A d \in Socket!Ends \ {e} : drawn'[d] = drawn[d]
      <4>1. PICK m : m = drawn[e] + 1
        OBVIOUS
      <4>2. m \in Nat /\ drawn' = [drawn EXCEPT ![e] = m]
        BY <2>2, <3>1, <4>1
      <4> QED
        BY <1>0, <4>1, <4>2 DEF SocketsType
    <3>4. /\ drawn[e] <= drawn'[e] /\ drawn'[e] # drawn[e]
          /\ drawn'[e] + Len(wire'[e]) = drawn[e] + Len(wire[e])
      BY <3>1, <3>2, <3>3
    <3>5. \A d \in Socket!Ends \ {e} :
              drawn[d] <= drawn'[d] /\ drawn'[d] + Len(wire'[d]) = drawn[d] + Len(wire[d])
      BY <1>0, <3>2, <3>3 DEF SocketsType
    <3> QED
      BY <3>2, <3>3, <3>4, <3>5
  <2> QED
    BY <2>1, <2>2
<1>5. SocketsType' /\ ClosedInv'
  BY <1>0, <1>2, <1>4, Quiet DEF SocketsType, ClosedInv
<1> QED
  BY <1>0, <1>3, <1>4, <1>5, EndsStep DEF Socket!NothingLost

LEMMA ReceiveStep ==
    ASSUME SocketsInv, NEW e \in Socket!Ends,
           \/ \E n \in 1 .. MaxRead : Socket!Receive(e, n)
           \/ Socket!Take(e) \/ Socket!Ended(e) \/ Socket!ReceiveDescriptor(e)
    PROVE  SocketsInv'
<1>1. ASSUME NEW n \in 1 .. MaxRead, Socket!Receive(e, n) PROVE SocketsInv'
  BY <1>1, Takes DEF Socket!Receive, Socket!Became
<1>2. CASE Socket!Take(e)
  <2>1. /\ wire[e] # <<>> /\ wire' = [wire EXCEPT ![e] = Tail(wire[e])]
        /\ drawn' = [drawn EXCEPT ![e] = drawn[e] + 1]
        /\ UNCHANGED <<sent, down, shut, reset>> /\ Socket!QuietPoll
    BY <1>2 DEF Socket!Take
  <2>2. \/ UNCHANGED outcome
        \/ \E how \in {"lost", "ok"} : outcome' = [outcome EXCEPT ![e] = how]
    <3>1. CASE Head(wire[e]) = "descriptor"
      BY <1>2, <3>1 DEF Socket!Take, Socket!Became
    <3>2. CASE Head(wire[e]) # "descriptor" /\ Socket!Full(e)
      BY <1>2, <3>2 DEF Socket!Take, Socket!Became, Socket!Full
    <3>3. CASE Head(wire[e]) # "descriptor" /\ ~ Socket!Full(e)
      BY <1>2, <3>3 DEF Socket!Take
    <3> QED
      BY <3>1, <3>2, <3>3
  <2> QED
    BY <2>1, <2>2, Takes
<1>3. CASE Socket!Ended(e)
  <2>1. UNCHANGED <<wire, drawn, sent, down, shut>> /\ Socket!QuietPoll /\ reset' \subseteq reset
    BY <1>3 DEF Socket!Ended
  <2>2. "read" \in down[e]
    BY <1>3 DEF Socket!Ended, Socket!EndOfInput, SocketsInv, ClosedInv, Socket!Both
  <2>3. \E how \in {"error", "short"} : outcome' = [outcome EXCEPT ![e] = how]
    BY <1>3 DEF Socket!Ended, Socket!Became
  <2> QED
    BY <2>1, <2>2, <2>3, Takes
<1>4. CASE Socket!ReceiveDescriptor(e)
  <2>1. UNCHANGED <<sent, down, shut>> /\ Socket!QuietPoll /\ reset' \subseteq reset
    BY <1>4 DEF Socket!ReceiveDescriptor
  <2>2. \E how \in {"error", "garbage", "ok"} : outcome' = [outcome EXCEPT ![e] = how]
    BY <1>4 DEF Socket!ReceiveDescriptor, Socket!Became
  <2>3. \/ UNCHANGED <<wire, drawn>>
        \/ /\ wire[e] # <<>> /\ wire' = [wire EXCEPT ![e] = Tail(wire[e])]
           /\ drawn' = [drawn EXCEPT ![e] = drawn[e] + 1]
    BY <1>4 DEF Socket!ReceiveDescriptor
  <2> QED
    BY <2>1, <2>2, <2>3, Takes
<1> QED
  BY <1>1, <1>2, <1>3, <1>4

LEMMA ShutdownStep ==
    ASSUME SocketsInv, NEW e \in Socket!Ends, NEW how \in SUBSET Socket!Both,
           Socket!Shutdown(e, how)
    PROVE  SocketsInv'
<1>0. SocketsType /\ ClosedInv /\ EventsInv /\ Socket!ReceiveWhole /\ Socket!NothingLost
  BY DEF SocketsInv
<1>1. /\ down' = [down EXCEPT ![e] = @ \union how, ![Socket!Peer(e)] = @ \union Socket!Mirror(how)]
      /\ UNCHANGED <<wire, sent, drawn, shut, reset, outcome>> /\ Socket!QuietPoll
  BY DEF Socket!Shutdown
<1>2. Socket!Mirror(how) \subseteq Socket!Both
  BY DEF Socket!Mirror, Socket!Both
<1>3. /\ down' \in [Socket!Ends -> SUBSET Socket!Both]
      /\ \A d \in Socket!Ends : down[d] \subseteq down'[d]
  BY <1>0, <1>1, <1>2, Peers DEF SocketsType
<1>4. SocketsType' /\ ClosedInv'
  BY <1>0, <1>1, <1>3, Quiet DEF SocketsType, ClosedInv
<1>5. \A d \in Socket!Ends : drawn[d] <= drawn'[d]
  BY <1>0, <1>1 DEF SocketsType
<1> QED
  BY <1>0, <1>1, <1>3, <1>4, <1>5, EndsStep DEF Socket!NothingLost, Socket!ReceiveWhole

LEMMA ShortLists ==
    ASSUME NEW S
    PROVE  <<>> \in Seq(S) /\ \A x, y \in S : <<x>> \in Seq(S) /\ <<x, y>> \in Seq(S)
OBVIOUS

(* Poll tells of the ends as they are, in a list. *)
LEMMA PollStep ==
    ASSUME SocketsInv, Socket!Poll
    PROVE  SocketsInv'
<1>0. SocketsType /\ ClosedInv /\ EventsInv /\ Socket!ReceiveWhole /\ Socket!NothingLost
  BY DEF SocketsInv
<1>1. PICK ends, ready : ends = {e \in Socket!Ends \ shut : Socket!Signs(e) # {}}
                         /\ ready = Socket!InOrder(ends)
  OBVIOUS
<1>2. /\ events' = [i \in DOMAIN ready |-> <<ready[i], Socket!Signs(ready[i]), drawn[ready[i]]>>]
      /\ reported' = <<"none">>
      /\ UNCHANGED <<wire, sent, drawn, down, shut, reset, wanted, outcome>>
  BY <1>1 DEF Socket!Poll
<1>3. ends \subseteq Socket!Ends /\ ready \in Seq(ends)
  <2>1. CASE ends = Socket!Ends
    <3>1. ready = <<"a", "b">> /\ "a" \in ends /\ "b" \in ends
      BY <1>1, <2>1 DEF Socket!InOrder, Socket!Ends
    <3> QED
      BY <2>1, <3>1, ShortLists
  <2>2. CASE ends # Socket!Ends /\ ends = {}
    BY <1>1, <2>2 DEF Socket!InOrder
  <2>3. CASE ends # Socket!Ends /\ ends # {}
    <3>1. ready = <<CHOOSE e \in ends : TRUE>>
      BY <1>1, <2>3 DEF Socket!InOrder
    <3>2. PICK e : e = CHOOSE d \in ends : TRUE
      OBVIOUS
    <3>3. e \in ends
      BY <2>3, <3>2
    <3>4. ready = <<e>>
      BY <3>1, <3>2
    <3>5. ready \in Seq(ends)
      BY <3>3, <3>4, ShortLists
    <3> QED
      BY <1>1, <3>5
  <2> QED
    BY <1>1, <2>1, <2>2, <2>3
<1>4. DOMAIN ready = 1 .. Len(ready) /\ Len(ready) \in Nat /\ \A i \in 1 .. Len(ready) : ready[i] \in ends
  BY <1>3
<1>5. \A e \in ends : /\ Socket!Signs(e) \in SUBSET {"POLLERR", "POLLHUP", "POLLIN"}
                      /\ drawn[e] \in Nat /\ e \in Socket!Ends
                      /\ EventRight(e, Socket!Signs(e), drawn[e])
  BY <1>0, <1>1 DEF Socket!Signs, EventRight, SocketsType
<1>6. events' \in Seq(Found) /\ Len(events') = Len(ready)
  <2>1. \A i \in 1 .. Len(ready) : <<ready[i], Socket!Signs(ready[i]), drawn[ready[i]]>> \in Found
    BY <1>4, <1>5 DEF Found
  <2> QED
    BY <1>2, <1>4, <2>1
<1>7. SocketsType'
  BY <1>0, <1>2, <1>6 DEF SocketsType
<1>8. EventsInv'
  <2> SUFFICES ASSUME NEW i \in 1 .. Len(events')
               PROVE  EventRight(events[i][1], events[i][2], events[i][3])'
    BY DEF EventsInv
  <2>1. PICK e, signs, n : e = ready[i] /\ signs = Socket!Signs(ready[i]) /\ n = drawn[ready[i]]
    OBVIOUS
  <2>2. events'[i] = <<e, signs, n>> /\ e \in ends
    BY <1>2, <1>4, <1>6, <2>1
  <2>3. EventRight(e, signs, n)
    BY <1>5, <2>1, <2>2
  <2>4. EventRight(e, signs, n)'
    BY <1>2, <2>3 DEF EventRight
  <2> QED
    BY <2>2, <2>4
<1> QED
  BY <1>0, <1>2, <1>7, <1>8
     DEF SocketsInv, ClosedInv, Socket!ReceiveWhole, Socket!NothingLost, Socket!PollTells

LEMMA CallBackStep ==
    ASSUME SocketsInv, Socket!CallBack
    PROVE  SocketsInv'
<1>0. SocketsType /\ ClosedInv /\ EventsInv /\ Socket!ReceiveWhole /\ Socket!NothingLost
  BY DEF SocketsInv
<1>1. PICK e, signs, n : e = events[1][1] /\ signs = events[1][2] /\ n = events[1][3]
  OBVIOUS
<1>2. /\ events # <<>> /\ events' = Tail(events)
      /\ reported' = <<Socket!Kind(signs), e, n>>
      /\ UNCHANGED <<wire, sent, drawn, down, shut, reset, wanted, outcome>>
  BY <1>1 DEF Socket!CallBack
<1>3. /\ Len(events) \in Nat /\ 1 \in 1 .. Len(events)
      /\ events' \in Seq(Found)
      /\ Len(events') = Len(events) - 1
      /\ \A i \in 1 .. Len(events') : events'[i] = events[i + 1] /\ i + 1 \in 1 .. Len(events)
  BY <1>0, <1>2 DEF SocketsType
<1>4. SocketsType'
  BY <1>0, <1>2, <1>3 DEF SocketsType
<1>5. EventsInv'
  <2> SUFFICES ASSUME NEW i \in 1 .. Len(events')
               PROVE  EventRight(events'[i][1], events'[i][2], events'[i][3])
    BY <1>2 DEF EventsInv, EventRight
  <2> QED
    BY <1>0, <1>3 DEF EventsInv
<1>6. EventRight(e, signs, n) /\ signs \subseteq {"POLLERR", "POLLHUP", "POLLIN"}
  <2>1. events[1] \in Found
    BY <1>0, <1>3 DEF SocketsType
  <2>2. EventRight(events[1][1], events[1][2], events[1][3])
    BY <1>0, <1>3 DEF EventsInv
  <2> QED
    BY <1>1, <2>1, <2>2 DEF Found
<1>7. /\ Socket!Kind(signs) = "disconnect" => down[e] = Socket!Both
      /\ Socket!Kind(signs) = "input" => "POLLIN" \in signs
  BY <1>6 DEF EventRight, Socket!Kind
<1>8. Socket!PollTells'
  BY <1>2, <1>6, <1>7 DEF EventRight, Socket!PollTells
<1> QED
  BY <1>0, <1>2, <1>4, <1>5, <1>8 DEF SocketsInv, ClosedInv, Socket!ReceiveWhole, Socket!NothingLost

LEMMA SocketsStep == SocketsInv /\ [Socket!SocketsNext]_socketVars => SocketsInv'
<1> SUFFICES ASSUME SocketsInv, [Socket!SocketsNext]_socketVars PROVE SocketsInv'
  OBVIOUS
<1>1. ASSUME NEW e \in Socket!Ends, NEW n \in 1 .. MaxRead, Socket!Send(e, n) PROVE SocketsInv'
  BY <1>1, SendStep
<1>2. ASSUME NEW e \in Socket!Ends, NEW how \in {{"read"}, {"write"}, Socket!Both},
             Socket!Shutdown(e, how)
      PROVE  SocketsInv'
  BY <1>2, ShutdownStep DEF Socket!Both
<1>3. ASSUME NEW e \in Socket!Ends, Socket!Close(e) PROVE SocketsInv'
  BY <1>3, ClosedStep DEF Socket!Close
<1>4. CASE UNCHANGED socketVars
  BY <1>4 DEF socketVars, SocketsInv, SocketsType, ClosedInv, EventsInv, EventRight,
              Socket!ReceiveWhole, Socket!NothingLost, Socket!PollTells
<1> QED
  BY <1>1, <1>2, <1>3, <1>4, SendDescriptorStep, ReceiveStep, PollStep, CallBackStep
     DEF Socket!SocketsNext

LEMMA SocketsInit == Socket!SocketsInit => SocketsInv
BY DEF Socket!SocketsInit, SocketsInv, SocketsType, ClosedInv, EventsInv, Socket!ReceiveWhole,
       Socket!NothingLost, Socket!PollTells, Socket!Ends, Socket!Peer

-----------------------------------------------------------------------------
(* Signals: the ring of slots, and a call on its way around it *)

Linkable == Slots \union {Root}
Pointing == [Linkable -> Linkable \union {"none"}]

(* The slots in order, each once. *)
Ordered(o) == o \in Seq(Slots) /\ \A i, j \in 1 .. Len(o) : o[i] = o[j] => i = j

(* What is at a place of the ring: the root is before and after the slots. *)
At(o, i) == IF i \in 1 .. Len(o) THEN o[i] ELSE Root

Ring(o, nx, pv) ==
    \A i \in 0 .. Len(o) : nx[At(o, i)] = At(o, i + 1) /\ pv[At(o, i + 1)] = At(o, i)

(* The slots a call may still come by, K: those that have been in the ring *)
(* since it began.  They have ranks, which only grow along the pointers    *)
(* and which no pointer leaps over a slot that stayed connected; slots     *)
(* that are pushed take the rank low or high.                              *)
Ranks(K, r, low, high) ==
    /\ K \subseteq Slots /\ r \in [K -> Int] /\ low \in Int /\ high \in Int
    /\ \A x \in K : low < r[x] /\ r[x] < high
Rising(K, r, o) ==
    /\ \A i \in 1 .. Len(o) : o[i] \in K
    /\ \A i, j \in 1 .. Len(o) : i < j => r[o[i]] < r[o[j]]
AheadOf(K, r, nx, w, x) ==
    /\ nx[x] \in K \/ nx[x] = Root
    /\ nx[x] \in K => r[x] < r[nx[x]]
    /\ \A y \in w : r[x] < r[y] => nx[x] = y \/ (nx[x] \in K /\ r[nx[x]] < r[y])
Ahead(K, r, nx, w) == \A x \in K : AheadOf(K, r, nx, w, x)

(* What the call has been to and what it has yet to come to.               *)
Passed(K, r, c, cd, w) ==
    /\ c \in K
    /\ \A i \in 1 .. Len(cd) : cd[i] \in K /\ r[cd[i]] <= r[c]
    /\ \A y \in w : (\E i \in 1 .. Len(cd) : cd[i] = y) \/ r[c] < r[y]

Underway(K, r, low, high) ==
    /\ Ranks(K, r, low, high) /\ Rising(K, r, order) /\ Ahead(K, r, next, whole)
    /\ Passed(K, r, curr, called, whole)

Members(w, o) == \A y \in w : \E i \in 1 .. Len(o) : o[i] = y

SignalInv ==
    /\ called \in Seq(Slots) /\ Sig!IsInjective(called)
    /\ stray \in BOOLEAN
    /\ ~ stray =>
           /\ next \in Pointing /\ prev \in Pointing
           /\ Ordered(order) /\ Ring(order, next, prev) /\ Members(whole, order)
           /\ curr = "none" => called = <<>>
           /\ curr # "none" => \E K, r, low, high : Underway(K, r, low, high)

LEMMA Places ==
    ASSUME NEW o, Ordered(o)
    PROVE  /\ Len(o) \in Nat
           /\ \A i \in 0 .. Len(o) + 1 : At(o, i) \in Linkable
           /\ At(o, 0) = Root /\ At(o, Len(o) + 1) = Root
           /\ \A i \in 1 .. Len(o) : At(o, i) = o[i] /\ o[i] \in Slots /\ o[i] # Root
           /\ \A i, j \in 0 .. Len(o) : At(o, i) = At(o, j) => i = j
           /\ \A i, j \in 1 .. Len(o) + 1 : At(o, i) = At(o, j) => i = j
<1>1. Len(o) \in Nat /\ \A i \in 1 .. Len(o) : o[i] \in Slots
  BY DEF Ordered
<1>2. Root \notin Slots
  BY ServicesAssumption DEF SlotsDistinct
<1>3. \A i \in 1 .. Len(o) : At(o, i) = o[i] /\ o[i] \in Slots /\ o[i] # Root
  BY <1>1, <1>2 DEF At
<1>4. At(o, 0) = Root /\ At(o, Len(o) + 1) = Root
  BY <1>1 DEF At
<1>5. \A i \in 0 .. Len(o) + 1 : i \in 1 .. Len(o) \/ i = 0 \/ i = Len(o) + 1
  BY <1>1
<1>6. \A i \in 0 .. Len(o) + 1 : At(o, i) \in Linkable
  BY <1>3, <1>4, <1>5 DEF Linkable
<1>7. ASSUME NEW i \in 0 .. Len(o), NEW j \in 0 .. Len(o), At(o, i) = At(o, j) PROVE i = j
  <2>1. (i = 0 \/ i \in 1 .. Len(o)) /\ (j = 0 \/ j \in 1 .. Len(o))
    BY <1>1
  <2> QED
    BY <1>3, <1>4, <1>7, <2>1 DEF Ordered
<1>8. ASSUME NEW i \in 1 .. Len(o) + 1, NEW j \in 1 .. Len(o) + 1, At(o, i) = At(o, j) PROVE i = j
  <2>1. (i = Len(o) + 1 \/ i \in 1 .. Len(o)) /\ (j = Len(o) + 1 \/ j \in 1 .. Len(o))
    BY <1>1
  <2> QED
    BY <1>3, <1>4, <1>8, <2>1 DEF Ordered
<1> QED
  BY <1>1, <1>3, <1>4, <1>6, <1>7, <1>8

(* One slot is taken out of the order, whichever it is. *)
Taken(o, i, t) ==
    /\ t \in Seq(Slots) /\ Len(t) = Len(o) - 1
    /\ \A j \in 1 .. Len(o) - 1 : t[j] = IF j < i THEN o[j] ELSE o[j + 1]

LEMMA TakenPlaces ==
    ASSUME NEW o, Ordered(o), NEW i \in 1 .. Len(o), NEW t, Taken(o, i, t)
    PROVE  /\ Ordered(t) /\ Len(t) = Len(o) - 1
           /\ \A j \in 0 .. Len(t) + 1 : At(t, j) = At(o, IF j < i THEN j ELSE j + 1)
<1>1. /\ Len(o) \in Nat /\ Len(o) >= 1 /\ i \in 1 .. Len(o)
      /\ Len(t) = Len(o) - 1 /\ t \in Seq(Slots)
      /\ \A j \in 1 .. Len(t) : t[j] = IF j < i THEN o[j] ELSE o[j + 1]
  BY Places DEF Taken
<1>2. Ordered(t)
  <2> SUFFICES ASSUME NEW j \in 1 .. Len(t), NEW k \in 1 .. Len(t), t[j] = t[k]
               PROVE  j = k
    BY <1>1 DEF Ordered
  <2>1. PICK p, q : /\ p = IF j < i THEN j ELSE j + 1
                    /\ q = IF k < i THEN k ELSE k + 1
    OBVIOUS
  <2>2. p \in 1 .. Len(o) /\ q \in 1 .. Len(o) /\ o[p] = o[q] /\ (p = q => j = k)
    BY <1>1, <2>1
  <2> QED
    BY <2>2 DEF Ordered
<1>3. ASSUME NEW j \in 0 .. Len(t) + 1
      PROVE  At(t, j) = At(o, IF j < i THEN j ELSE j + 1)
  <2>1. CASE j \in 1 .. Len(t)
    BY <1>1, <2>1 DEF At
  <2>2. CASE j = 0
    BY <1>1, <2>2 DEF At
  <2>3. CASE j = Len(t) + 1
    BY <1>1, <2>3 DEF At
  <2> QED
    BY <1>1, <2>1, <2>2, <2>3
<1> QED
  BY <1>1, <1>2, <1>3

(* Its neighbours are linked to each other. *)
LEMMA TakenRing ==
    ASSUME NEW o, Ordered(o), NEW i \in 1 .. Len(o), NEW t, Taken(o, i, t),
           NEW nx \in Pointing, NEW pv \in Pointing, Ring(o, nx, pv),
           NEW nxx, nxx = [nx EXCEPT ![At(o, i - 1)] = At(o, i + 1)],
           NEW pvv, pvv = [pv EXCEPT ![At(o, i + 1)] = At(o, i - 1)]
    PROVE  nxx \in Pointing /\ pvv \in Pointing /\ Ring(t, nxx, pvv)
<1>1. PICK a, b : a = At(o, i - 1) /\ b = At(o, i + 1)
  OBVIOUS
<1>2. /\ Len(o) \in Nat /\ i \in 1 .. Len(o) /\ i - 1 \in 0 .. Len(o) /\ i + 1 \in 1 .. Len(o) + 1
      /\ Len(t) = Len(o) - 1
  BY Places, TakenPlaces
<1>3. a \in Linkable /\ b \in Linkable
  BY <1>1, <1>2, Places
<1>4. /\ nxx = [nx EXCEPT ![a] = b] /\ pvv = [pv EXCEPT ![b] = a]
      /\ nxx \in Pointing /\ pvv \in Pointing
  BY <1>1, <1>3 DEF Pointing
<1>5. /\ \A x \in Linkable : nxx[x] = IF x = a THEN b ELSE nx[x]
      /\ \A x \in Linkable : pvv[x] = IF x = b THEN a ELSE pv[x]
  BY <1>3, <1>4 DEF Pointing
<1>6. ASSUME NEW j \in 0 .. Len(t)
      PROVE  nxx[At(t, j)] = At(t, j + 1) /\ pvv[At(t, j + 1)] = At(t, j)
  <2>1. CASE j = i - 1
    <3>1. At(t, j) = a /\ At(t, j + 1) = b
      BY <1>1, <1>2, <2>1, TakenPlaces
    <3> QED
      BY <1>3, <1>5, <3>1
  <2>2. CASE j # i - 1
    <3>1. PICK k : k = IF j < i THEN j ELSE j + 1
      OBVIOUS
    <3>2. /\ k \in 0 .. Len(o) /\ k # i - 1 /\ k + 1 # i + 1 /\ k + 1 \in 1 .. Len(o) + 1
          /\ k + 1 = IF j + 1 < i THEN j + 1 ELSE (j + 1) + 1
          /\ j \in 0 .. Len(t) + 1 /\ j + 1 \in 0 .. Len(t) + 1
      BY <1>2, <2>2, <3>1
    <3>3. At(t, j) = At(o, k) /\ At(t, j + 1) = At(o, k + 1)
      BY <3>1, <3>2, TakenPlaces
    <3>4. At(o, k) # a /\ At(o, k + 1) # b /\ At(o, k) \in Linkable /\ At(o, k + 1) \in Linkable
      BY <1>1, <1>2, <3>2, Places
    <3>5. nx[At(o, k)] = At(o, k + 1) /\ pv[At(o, k + 1)] = At(o, k)
      BY <3>2 DEF Ring
    <3> QED
      BY <1>5, <3>3, <3>4, <3>5
  <2> QED
    BY <2>1, <2>2
<1> QED
  BY <1>4, <1>6 DEF Ring

(* A call under way comes by no slot the less for it. *)
LEMMA TakenAhead ==
    ASSUME NEW o, Ordered(o), NEW i \in 1 .. Len(o), NEW t, Taken(o, i, t),
           NEW nx \in Pointing, NEW nxx, nxx = [nx EXCEPT ![At(o, i - 1)] = At(o, i + 1)],
           NEW w, Members(w, o), NEW K, NEW r, NEW low, NEW high,
           Ranks(K, r, low, high), Rising(K, r, o), Ahead(K, r, nx, w)
    PROVE  Rising(K, r, t) /\ Ahead(K, r, nxx, w \ {o[i]})
<1>1. PICK a, b : a = At(o, i - 1) /\ b = At(o, i + 1)
  OBVIOUS
<1>2. /\ Len(o) \in Nat /\ i \in 1 .. Len(o) /\ i - 1 \in 0 .. Len(o) /\ i + 1 \in 1 .. Len(o) + 1
      /\ Len(t) = Len(o) - 1 /\ a \in Linkable /\ b \in Linkable
      /\ \A j \in 1 .. Len(t) : t[j] = IF j < i THEN o[j] ELSE o[j + 1]
  BY <1>1, Places DEF Taken
<1>3. K \subseteq Slots /\ Root \notin K /\ \A x \in K : r[x] \in Int
  BY ServicesAssumption DEF SlotsDistinct, Ranks
<1>4. Rising(K, r, t)
  <2>1. ASSUME NEW j \in 1 .. Len(t) PROVE t[j] \in K
    BY <1>2 DEF Rising
  <2>2. ASSUME NEW j \in 1 .. Len(t), NEW k \in 1 .. Len(t), j < k PROVE r[t[j]] < r[t[k]]
    <3>1. PICK p, q : p = (IF j < i THEN j ELSE j + 1) /\ q = IF k < i THEN k ELSE k + 1
      OBVIOUS
    <3>2. p \in 1 .. Len(o) /\ q \in 1 .. Len(o) /\ p < q /\ t[j] = o[p] /\ t[k] = o[q]
      BY <1>2, <2>2, <3>1
    <3> QED
      BY <3>2 DEF Rising
  <2> QED
    BY <2>1, <2>2 DEF Rising
<1>5. nxx = [nx EXCEPT ![a] = b]
  BY <1>1
<1>6. ASSUME NEW x \in K, x # a PROVE AheadOf(K, r, nxx, w \ {o[i]}, x)
  <2>1. nxx[x] = nx[x]
    BY <1>5, <1>6
  <2>2. AheadOf(K, r, nx, w, x)
    BY DEF Ahead
  <2> QED
    BY <2>1, <2>2 DEF AheadOf
<1>7. ASSUME a \in K PROVE AheadOf(K, r, nxx, w \ {o[i]}, a)
  <2>1. a = o[i - 1] /\ i - 1 \in 1 .. Len(o)
    BY <1>1, <1>2, <1>3, <1>7 DEF At
  <2>2. nxx[a] = b
    BY <1>2, <1>5 DEF Pointing
  <2>3. CASE i = Len(o)
    <3>1. b = Root
      BY <1>1, <1>2, <2>3 DEF At
    <3>2. ASSUME NEW y \in w \ {o[i]} PROVE ~ r[a] < r[y]
      <4>1. PICK j \in 1 .. Len(o) : o[j] = y
        BY DEF Members
      <4>2. j = i - 1 \/ j < i - 1
        BY <1>2, <2>1, <2>3, <3>2, <4>1
      <4>3. j < i - 1 => r[y] < r[a]
        BY <2>1, <4>1 DEF Rising
      <4>4. r[y] \in Int /\ r[a] \in Int
        BY <1>3, <1>7, <4>1 DEF Rising
      <4> QED
        BY <2>1, <4>1, <4>2, <4>3, <4>4
    <3> QED
      BY <1>3, <2>2, <3>1, <3>2 DEF AheadOf
  <2>4. CASE i # Len(o)
    <3>1. b = o[i + 1] /\ i + 1 \in 1 .. Len(o) /\ i - 1 < i + 1
      BY <1>1, <1>2, <2>4 DEF At
    <3>2. b \in K /\ r[a] < r[b]
      BY <2>1, <3>1 DEF Rising
    <3>3. ASSUME NEW y \in w \ {o[i]}, r[a] < r[y] PROVE b = y \/ r[b] < r[y]
      <4>1. PICK j \in 1 .. Len(o) : o[j] = y
        BY DEF Members
      <4>2. j = i - 1 \/ j < i - 1 \/ j = i + 1 \/ i + 1 < j
        BY <1>2, <2>1, <3>3, <4>1
      <4>3. (j < i - 1 => r[y] < r[a]) /\ (i + 1 < j => r[b] < r[y])
        BY <2>1, <3>1, <4>1 DEF Rising
      <4>4. r[y] \in Int /\ r[a] \in Int
        BY <1>3, <1>7, <4>1 DEF Rising
      <4> QED
        BY <2>1, <3>1, <3>3, <4>1, <4>2, <4>3, <4>4
    <3> QED
      BY <2>2, <3>2, <3>3 DEF AheadOf
  <2> QED
    BY <2>3, <2>4
<1> QED
  BY <1>4, <1>6, <1>7 DEF Ahead

(* So a step that unlinks the slot at a place is a good one. *)
LEMMA Unlinks ==
    ASSUME SignalInv, ~ stray, NEW i \in 1 .. Len(order), Taken(order, i, order'),
           next' = [next EXCEPT ![At(order, i - 1)] = At(order, i + 1)],
           prev' = [prev EXCEPT ![At(order, i + 1)] = At(order, i - 1)],
           whole' = whole \ {order[i]}, stray' = FALSE, UNCHANGED <<curr, called>>
    PROVE  SignalInv'
<1>0. /\ called \in Seq(Slots) /\ Sig!IsInjective(called)
      /\ next \in Pointing /\ prev \in Pointing
      /\ Ordered(order) /\ Ring(order, next, prev) /\ Members(whole, order)
      /\ curr = "none" => called = <<>>
  BY DEF SignalInv
<1>1. /\ next' \in Pointing /\ prev' \in Pointing /\ Ring(order', next', prev')
  BY <1>0, TakenRing
<1>2. Ordered(order') /\ Len(order') = Len(order) - 1 /\ Len(order) \in Nat
  BY <1>0, TakenPlaces, Places
<1>3. Members(whole', order')
  <2> SUFFICES ASSUME NEW y \in whole' PROVE \E j \in 1 .. Len(order') : order'[j] = y
    BY DEF Members
  <2>1. PICK k \in 1 .. Len(order) : order[k] = y /\ k # i
    BY <1>0 DEF Members
  <2>2. PICK j : j = IF k < i THEN k ELSE k - 1
    OBVIOUS
  <2>3. j \in 1 .. Len(order) - 1 /\ k = IF j < i THEN j ELSE j + 1
    BY <1>2, <2>1, <2>2
  <2>4. order'[j] = IF j < i THEN order[j] ELSE order[j + 1]
    BY <2>3 DEF Taken
  <2> QED
    BY <1>2, <2>1, <2>3, <2>4
<1>4. ASSUME curr # "none" PROVE \E K, r, low, high : Underway(K, r, low, high)'
  <2>1. PICK K, r, low, high : Underway(K, r, low, high)
    BY <1>4 DEF SignalInv
  <2>2. /\ Ranks(K, r, low, high) /\ Rising(K, r, order) /\ Ahead(K, r, next, whole)
        /\ Passed(K, r, curr, called, whole)
    BY <2>1 DEF Underway
  <2>3. Rising(K, r, order') /\ Ahead(K, r, next', whole')
    BY <1>0, <2>2, TakenAhead
  <2>4. Passed(K, r, curr', called', whole')
    BY <2>2 DEF Passed
  <2>5. Underway(K, r, low, high)'
    BY <2>2, <2>3, <2>4 DEF Underway
  <2> QED
    BY <2>5
<1> QED
  BY <1>0, <1>1, <1>2, <1>3, <1>4 DEF SignalInv, Sig!IsInjective

LEMMA ToTake ==
    ASSUME NEW o, Ordered(o)
    PROVE  /\ \A i \in 1 .. Len(o) : Taken(o, i, Sig!RemoveAt(o, i))
           /\ o # <<>> => Taken(o, Len(o), Sig!Front(o)) /\ Taken(o, 1, Tail(o))
<1>0. o \in Seq(Slots) /\ Len(o) \in Nat
  BY DEF Ordered
<1>1. ASSUME NEW i \in 1 .. Len(o) PROVE Taken(o, i, Sig!RemoveAt(o, i))
  <2> DEFINE left == SubSeq(o, 1, i - 1)
             right == SubSeq(o, i + 1, Len(o))
  <2>1. left \in Seq(Slots) /\ Len(left) = i - 1 /\ \A n \in 1 .. i - 1 : left[n] = o[n]
    BY <1>0
  <2>2. /\ right \in Seq(Slots) /\ Len(right) = Len(o) - i
        /\ \A n \in 1 .. Len(o) - i : right[n] = o[i + n]
    BY <1>0
  <2>3. Sig!RemoveAt(o, i) = left \o right
    BY DEF Sig!RemoveAt
  <2> HIDE DEF left, right
  <2>4. /\ left \o right \in Seq(Slots) /\ Len(left \o right) = Len(left) + Len(right)
        /\ \A n \in 1 .. Len(left) + Len(right) :
               (left \o right)[n] = IF n <= Len(left) THEN left[n] ELSE right[n - Len(left)]
    BY <2>1, <2>2, ConcatProperties
  <2>5. Len(left) + Len(right) = Len(o) - 1
    BY <1>0, <2>1, <2>2
  <2>6. ASSUME NEW n \in 1 .. Len(o) - 1
        PROVE  (left \o right)[n] = IF n < i THEN o[n] ELSE o[n + 1]
    <3>1. CASE n < i
      <4>1. n \in 1 .. i - 1 /\ n <= Len(left) /\ n \in 1 .. Len(left) + Len(right)
        BY <1>0, <2>1, <2>5, <3>1
      <4> QED
        BY <2>1, <2>4, <3>1, <4>1
    <3>2. CASE ~ n < i
      <4>1. /\ ~ n <= Len(left) /\ n - Len(left) = n + 1 - i /\ n \in 1 .. Len(left) + Len(right)
            /\ n + 1 - i \in 1 .. Len(o) - i /\ i + (n + 1 - i) = n + 1
        BY <1>0, <2>1, <2>5, <3>2
      <4>2. (left \o right)[n] = right[n + 1 - i]
        BY <2>4, <4>1
      <4>3. right[n + 1 - i] = o[n + 1]
        BY <2>2, <4>1
      <4> QED
        BY <3>2, <4>2, <4>3
    <3> QED
      BY <3>1, <3>2
  <2> QED
    BY <2>3, <2>4, <2>5, <2>6 DEF Taken
<1>2. ASSUME o # <<>> PROVE Taken(o, Len(o), Sig!Front(o))
  <2>1. Len(o) >= 1
    BY <1>0, <1>2
  <2>2. PICK m \in Nat : m = Len(o) - 1 /\ m < Len(o)
    BY <1>0, <2>1
  <2>3. /\ SubSeq(o, 1, m) \in Seq(Slots) /\ Len(SubSeq(o, 1, m)) = m
        /\ \A n \in 1 .. m : SubSeq(o, 1, m)[n] = o[n]
    BY <1>0, <2>2
  <2>4. \A n \in 1 .. m : n < Len(o)
    BY <1>0, <2>2
  <2> QED
    BY <2>2, <2>3, <2>4 DEF Taken, Sig!Front
<1>3. ASSUME o # <<>> PROVE Taken(o, 1, Tail(o))
  <2>1. /\ Tail(o) \in Seq(Slots) /\ Len(Tail(o)) = Len(o) - 1
        /\ \A n \in 1 .. Len(o) - 1 : Tail(o)[n] = o[n + 1] /\ ~ n < 1
    BY <1>0, <1>3, HeadTailProperties
  <2> QED
    BY <2>1 DEF Taken
<1> QED
  BY <1>1, <1>2, <1>3

LEMMA DisconnectStep ==
    ASSUME SignalInv, NEW s \in Slots, Sig!Disconnect(s)
    PROVE  SignalInv'
<1>0. ~ stray /\ UNCHANGED <<curr, called>> /\ stray' = (~ Sig!In(s))
  BY DEF Sig!Disconnect
<1>1. CASE ~ Sig!In(s)
  <2>1. called' \in Seq(Slots) /\ Sig!IsInjective(called') /\ stray' = TRUE
    BY <1>0, <1>1 DEF SignalInv
  <2> QED
    BY <2>1 DEF SignalInv, Sig!IsInjective
<1>2. CASE Sig!In(s)
  <2>1. /\ Ordered(order) /\ Ring(order, next, prev) /\ next \in Pointing /\ prev \in Pointing
    BY <1>0 DEF SignalInv
  <2>2. PICK i : i = CHOOSE j \in DOMAIN order : order[j] = s
    OBVIOUS
  <2>3. i \in 1 .. Len(order) /\ order[i] = s
    BY <1>2, <2>1, <2>2 DEF Sig!In, Sig!ToSet, Ordered
  <2>4. Taken(order, i, order')
    BY <1>2, <2>1, <2>2, <2>3, ToTake DEF Sig!Disconnect, Sig!Without
  <2>5. PICK a, b : a = At(order, i - 1) /\ b = At(order, i + 1)
    OBVIOUS
  <2>6. /\ Len(order) \in Nat /\ i - 1 \in 0 .. Len(order) /\ i + 1 \in 1 .. Len(order) + 1
        /\ (i - 1) + 1 = i /\ At(order, i) = s /\ i \in 0 .. Len(order) /\ i \in 1 .. Len(order) + 1
    BY <2>1, <2>3, Places
  <2>7. next[s] = b /\ prev[s] = a
    <3>1. next[At(order, i)] = At(order, i + 1) /\ prev[At(order, (i - 1) + 1)] = At(order, i - 1)
      BY <2>1, <2>6 DEF Ring
    <3> QED
      BY <2>5, <2>6, <3>1
  <2>8. b # s
    <3>1. i + 1 # i
      BY <2>6
    <3> QED
      BY <2>1, <2>5, <2>6, <3>1, Places
  <2>9. prev' = [prev EXCEPT ![b] = a]
    BY <2>7 DEF Sig!Disconnect
  <2>10. [prev EXCEPT ![next[s]] = prev[s]][s] = a
    BY <2>1, <2>7, <2>8 DEF Pointing, Linkable
  <2>11. next' = [next EXCEPT ![a] = b]
    BY <2>7, <2>10 DEF Sig!Disconnect
  <2>12. whole' = whole \ {order[i]} /\ stray' = FALSE
    BY <1>0, <1>2, <2>3 DEF Sig!Disconnect
  <2> QED
    BY <1>0, <2>3, <2>4, <2>5, <2>9, <2>11, <2>12, Unlinks
<1> QED
  BY <1>1, <1>2

LEMMA PopStep ==
    ASSUME SignalInv, Sig!PopBack \/ Sig!PopFront
    PROVE  SignalInv'
<1>0. ~ stray /\ order # <<>> /\ UNCHANGED <<curr, called>> /\ stray' = FALSE
  BY DEF Sig!PopBack, Sig!PopFront, SignalInv
<1>1. /\ Ordered(order) /\ Ring(order, next, prev) /\ Len(order) \in Nat /\ Len(order) >= 1
  <2>1. Ordered(order) /\ Ring(order, next, prev) /\ Len(order) \in Nat
    BY <1>0, Places DEF SignalInv
  <2> QED
    BY <1>0, <2>1 DEF Ordered
<1>2. CASE Sig!PopBack
  <2>1. PICK n : n = Len(order)
    OBVIOUS
  <2>2. /\ n \in 1 .. Len(order) /\ n - 1 \in 0 .. Len(order) /\ (n - 1) + 1 = n /\ n \in 0 .. Len(order)
        /\ At(order, n + 1) = Root
    BY <1>1, <2>1, Places
  <2>3. prev[Root] = At(order, n) /\ prev[At(order, n)] = At(order, n - 1)
    BY <1>1, <2>2 DEF Ring
  <2>4. /\ Taken(order, n, order')
        /\ next' = [next EXCEPT ![At(order, n - 1)] = At(order, n + 1)]
        /\ prev' = [prev EXCEPT ![At(order, n + 1)] = At(order, n - 1)]
        /\ whole' = whole \ {order[n]}
    BY <1>0, <1>1, <1>2, <2>1, <2>2, <2>3, ToTake DEF Sig!PopBack, Sig!Last
  <2> QED
    BY <1>0, <2>2, <2>4, Unlinks
<1>3. CASE Sig!PopFront
  <2>1. /\ 1 \in 1 .. Len(order) /\ 1 - 1 = 0 /\ 1 + 1 = 2 /\ 0 + 1 = 1 /\ 0 \in 0 .. Len(order)
        /\ 1 \in 0 .. Len(order) /\ At(order, 0) = Root
    BY <1>1, Places
  <2>2. next[Root] = At(order, 1) /\ next[At(order, 1)] = At(order, 2)
    BY <1>1, <2>1 DEF Ring
  <2>3. /\ Taken(order, 1, order')
        /\ next' = [next EXCEPT ![At(order, 1 - 1)] = At(order, 1 + 1)]
        /\ prev' = [prev EXCEPT ![At(order, 1 + 1)] = At(order, 1 - 1)]
        /\ whole' = whole \ {order[1]}
    <3>1. Head(order) = order[1] /\ Taken(order, 1, Tail(order))
      BY <1>0, <1>1, ToTake DEF Ordered
    <3>2. /\ order' = Tail(order) /\ whole' = whole \ {Head(order)}
          /\ next' = [next EXCEPT ![Root] = next[next[Root]]]
          /\ prev' = [prev EXCEPT ![next[next[Root]]] = Root]
      BY <1>3 DEF Sig!PopFront
    <3> QED
      BY <2>1, <2>2, <3>1, <3>2
  <2> QED
    BY <1>0, <2>1, <2>3, Unlinks
<1> QED
  BY <1>2, <1>3

LEMMA ClearStep ==
    ASSUME SignalInv, Sig!Clear
    PROVE  SignalInv'
<1>0. /\ ~ stray /\ order' = <<>> /\ whole' = {} /\ UNCHANGED <<curr, called, stray>>
      /\ next' = [next EXCEPT ![Root] = Root] /\ prev' = [prev EXCEPT ![Root] = Root]
      /\ called \in Seq(Slots) /\ Sig!IsInjective(called) /\ (curr = "none" => called = <<>>)
      /\ next \in Pointing /\ prev \in Pointing
  BY DEF Sig!Clear, SignalInv
<1>1. next' \in Pointing /\ prev' \in Pointing /\ next'[Root] = Root /\ prev'[Root] = Root
  BY <1>0 DEF Pointing, Linkable
<1>2. Ordered(order') /\ Ring(order', next', prev') /\ Members(whole', order')
  BY <1>0, <1>1 DEF Ordered, Ring, Members, At
<1>3. ASSUME curr # "none" PROVE \E K, r, low, high : Underway(K, r, low, high)'
  <2>1. PICK K, r, low, high : Underway(K, r, low, high)
    BY <1>0, <1>3 DEF SignalInv
  <2>2. Root \notin K
    BY <2>1, ServicesAssumption DEF SlotsDistinct, Underway, Ranks
  <2>3. Ahead(K, r, next', whole')
    BY <1>0, <2>1, <2>2 DEF Underway, Ahead, AheadOf
  <2>4. Rising(K, r, order') /\ Passed(K, r, curr', called', whole')
    BY <1>0, <2>1 DEF Underway, Rising, Passed
  <2>5. Underway(K, r, low, high)'
    BY <2>1, <2>3, <2>4 DEF Underway
  <2> QED
    BY <2>5
<1> QED
  BY <1>0, <1>1, <1>2, <1>3 DEF SignalInv, Sig!IsInjective

(* A slot that is pushed takes a rank beyond those there are. *)
Grown(K, r, s, v) == [x \in K \union {s} |-> IF x = s THEN v ELSE r[x]]

LEMMA Grows ==
    ASSUME NEW K, NEW r, NEW low, NEW high, Ranks(K, r, low, high), NEW s \in Slots, s \notin K,
           NEW c, NEW cd, NEW w, Passed(K, r, c, cd, w), NEW o, Rising(K, r, o), Members(w, o)
    PROVE  \A v \in {low, high} :
               /\ Ranks(K \union {s}, Grown(K, r, s, v), low - 1, high + 1)
               /\ Passed(K \union {s}, Grown(K, r, s, v), c, cd, w)
               /\ \A x \in K : Grown(K, r, s, v)[x] = r[x] /\ low < r[x] /\ r[x] < high
               /\ Grown(K, r, s, v)[s] = v /\ low < high
               /\ w \subseteq K
<1> TAKE v \in {low, high}
<1>1. PICK q : q = Grown(K, r, s, v)
  OBVIOUS
<1>2. /\ \A x \in K : q[x] = r[x] /\ low < r[x] /\ r[x] < high /\ r[x] \in Int
      /\ q[s] = v /\ low \in Int /\ high \in Int /\ v \in Int
  BY <1>1 DEF Grown, Ranks
<1>3. low < high
  BY <1>2 DEF Passed
<1>4. q \in [K \union {s} -> Int]
  BY <1>1, <1>2 DEF Grown
<1>5. \A x \in K \union {s} : low - 1 < q[x] /\ q[x] < high + 1
  BY <1>2, <1>3
<1>6. Ranks(K \union {s}, q, low - 1, high + 1)
  BY <1>2, <1>4, <1>5 DEF Ranks
<1>7. w \subseteq K
  BY DEF Members, Rising
<1>8. Passed(K \union {s}, q, c, cd, w)
  BY <1>2, <1>7 DEF Passed
<1> QED
  BY <1>1, <1>2, <1>3, <1>6, <1>7, <1>8

(* What may be pushed while a call is under way was not in the ring since. *)
LEMMA PushedIsNew ==
    ASSUME NEW s \in Slots, Sig!MayPush(s), curr # "none",
           NEW K, NEW r, NEW low, NEW high, Underway(K, r, low, high)
    PROVE  s \notin K
<1>1. next[s] = "none"
  BY DEF Sig!MayPush, Sig!Calling, Sig!Connected, Sig!None
<1>2. "none" \notin K /\ "none" # Root
  BY ServicesAssumption DEF SlotsDistinct, Underway, Ranks
<1> QED
  BY <1>1, <1>2 DEF Underway, Ahead, AheadOf

(* What does not involve an end of the order is the same for both pushes. *)
LEMMA PushedOrder ==
    ASSUME SignalInv, NEW s \in Slots, Sig!MayPush(s),
           order' = Append(order, s) \/ order' = <<s>> \o order,
           UNCHANGED whole
    PROVE  /\ ~ stray /\ next \in Pointing /\ prev \in Pointing
           /\ Ordered(order) /\ Ring(order, next, prev) /\ Members(whole, order)
           /\ Ordered(order') /\ Members(whole', order')
           /\ \A i \in 0 .. Len(order) + 1 : At(order, i) # s
           /\ Len(order') = Len(order) + 1 /\ Len(order) \in Nat /\ s # Root
           /\ order' = Append(order, s) =>
                  /\ \A i \in 0 .. Len(order) : At(order', i) = At(order, i)
                  /\ At(order', Len(order) + 1) = s /\ At(order', Len(order) + 2) = Root
           /\ order' = <<s>> \o order =>
                  /\ At(order', 0) = Root /\ At(order', 1) = s
                  /\ \A i \in 1 .. Len(order) + 1 : At(order', i + 1) = At(order, i)
<1>1. /\ ~ stray /\ next \in Pointing /\ prev \in Pointing
      /\ Ordered(order) /\ Ring(order, next, prev) /\ Members(whole, order)
  BY DEF Sig!MayPush, SignalInv
<1>2. /\ order \in Seq(Slots) /\ Len(order) \in Nat /\ s # Root
      /\ \A i \in 1 .. Len(order) : order[i] # s
  BY <1>1, ServicesAssumption DEF SlotsDistinct, Ordered, Sig!MayPush, Sig!In, Sig!ToSet
<1>3. \A i \in 0 .. Len(order) + 1 : At(order, i) # s
  BY <1>2 DEF At
<1>4. CASE order' = Append(order, s)
  <2>1. /\ order' \in Seq(Slots) /\ Len(order') = Len(order) + 1
        /\ order'[Len(order) + 1] = s /\ \A i \in 1 .. Len(order) : order'[i] = order[i]
    BY <1>2, <1>4
  <2>2. \A i \in 1 .. Len(order') : i \in 1 .. Len(order) \/ i = Len(order) + 1
    BY <1>2, <2>1
  <2>3. Ordered(order')
    BY <1>1, <1>2, <2>1, <2>2 DEF Ordered
  <2>4. Members(whole', order')
    BY <1>1, <1>2, <2>1 DEF Members
  <2>5. /\ \A i \in 0 .. Len(order) : At(order', i) = At(order, i)
        /\ At(order', Len(order) + 1) = s /\ At(order', Len(order) + 2) = Root
    BY <1>2, <2>1 DEF At
  <2>6. order' # <<s>> \o order \/ order = <<>>
    <3>1. ASSUME order' = <<s>> \o order, order # <<>> PROVE FALSE
      <4>1. order'[1] = s
        BY <1>2, <3>1
      <4>2. 1 \in 1 .. Len(order)
        BY <1>2, <3>1
      <4> QED
        BY <1>2, <2>1, <4>1, <4>2
    <3> QED
      BY <3>1
  <2>7. ASSUME order = <<>>
        PROVE  /\ At(order', 0) = Root /\ At(order', 1) = s
               /\ \A i \in 1 .. Len(order) + 1 : At(order', i + 1) = At(order, i)
    BY <2>1, <2>5, <2>7 DEF At
  <2> QED
    BY <1>1, <1>2, <1>3, <1>4, <2>1, <2>3, <2>4, <2>5, <2>6, <2>7
<1>5. CASE order' = <<s>> \o order /\ order' # Append(order, s)
  <2>0. <<s>> \in Seq(Slots) /\ Len(<<s>>) = 1 /\ <<s>>[1] = s
    OBVIOUS
  <2>1. /\ order' \in Seq(Slots) /\ Len(order') = 1 + Len(order)
        /\ \A i \in 1 .. 1 + Len(order) : order'[i] = IF i <= 1 THEN <<s>>[i] ELSE order[i - 1]
    BY <1>2, <1>5, <2>0, ConcatProperties
  <2>2. order'[1] = s /\ \A i \in 1 .. Len(order) : order'[i + 1] = order[i]
    <3>1. ASSUME NEW i \in 1 .. Len(order)
          PROVE  i + 1 \in 1 .. 1 + Len(order) /\ ~ i + 1 <= 1 /\ (i + 1) - 1 = i
      BY <1>2
    <3>2. 1 \in 1 .. 1 + Len(order)
      BY <1>2
    <3> QED
      BY <2>0, <2>1, <3>1, <3>2
  <2>3. \A i \in 1 .. Len(order') : i = 1 \/ (i - 1 \in 1 .. Len(order) /\ (i - 1) + 1 = i)
    BY <1>2, <2>1
  <2>4. Ordered(order')
    <3> SUFFICES ASSUME NEW i \in 1 .. Len(order'), NEW j \in 1 .. Len(order'), order'[i] = order'[j]
                 PROVE  i = j
      BY <2>1 DEF Ordered
    <3>1. i = 1 \/ (i - 1 \in 1 .. Len(order) /\ order'[i] = order[i - 1])
      BY <2>2, <2>3
    <3>2. j = 1 \/ (j - 1 \in 1 .. Len(order) /\ order'[j] = order[j - 1])
      BY <2>2, <2>3
    <3>3. i - 1 \in 1 .. Len(order) /\ j - 1 \in 1 .. Len(order) /\ order[i - 1] = order[j - 1] => i = j
      BY <1>1, <1>2 DEF Ordered
    <3> QED
      BY <1>2, <2>2, <3>1, <3>2, <3>3
  <2>5. Members(whole', order')
    <3> SUFFICES ASSUME NEW y \in whole PROVE \E i \in 1 .. Len(order') : order'[i] = y
      BY DEF Members
    <3>1. PICK i \in 1 .. Len(order) : order[i] = y
      BY <1>1 DEF Members
    <3>2. i + 1 \in 1 .. Len(order')
      BY <1>2, <2>1
    <3> QED
      BY <2>2, <3>1, <3>2
  <2>6. /\ At(order', 0) = Root /\ At(order', 1) = s
        /\ \A i \in 1 .. Len(order) + 1 : At(order', i + 1) = At(order, i)
    BY <1>2, <2>1, <2>2 DEF At
  <2> QED
    BY <1>1, <1>2, <1>3, <1>5, <2>1, <2>4, <2>5, <2>6
<1> QED
  BY <1>4, <1>5

LEMMA PushBackStep ==
    ASSUME SignalInv, NEW s \in Slots, Sig!PushBack(s)
    PROVE  SignalInv'
<1>0. /\ Sig!MayPush(s) /\ order' = Append(order, s) /\ UNCHANGED <<curr, called, whole, stray>>
  BY DEF Sig!PushBack
<1>1. PICK n, l : n = Len(order) /\ l = At(order, n)
  OBVIOUS
<1>2. /\ ~ stray /\ next \in Pointing /\ prev \in Pointing
      /\ Ordered(order) /\ Ring(order, next, prev) /\ Members(whole, order)
      /\ Ordered(order') /\ Members(whole', order')
      /\ \A i \in 0 .. n + 1 : At(order, i) # s
      /\ Len(order') = n + 1 /\ n \in Nat /\ s # Root
      /\ \A i \in 0 .. n : At(order', i) = At(order, i)
      /\ At(order', n + 1) = s /\ At(order', n + 2) = Root
  BY <1>0, <1>1, PushedOrder
<1>3. prev[Root] = l /\ l \in Linkable /\ l # s /\ At(order, n + 1) = Root
  <2>1. n \in 0 .. n /\ n \in 0 .. n + 1
    BY <1>2
  <2> QED
    BY <1>1, <1>2, <2>1, Places DEF Ring
<1>4. /\ next' = [next EXCEPT ![l] = s, ![s] = Root]
      /\ prev' = [prev EXCEPT ![s] = l, ![Root] = s]
  BY <1>3 DEF Sig!PushBack
<1>5. /\ next' \in Pointing /\ prev' \in Pointing
      /\ \A x \in Linkable : next'[x] = IF x = s THEN Root ELSE IF x = l THEN s ELSE next[x]
      /\ \A x \in Linkable : prev'[x] = IF x = Root THEN s ELSE IF x = s THEN l ELSE prev[x]
  BY <1>2, <1>3, <1>4 DEF Pointing, Linkable
<1>6. s \in Linkable /\ Root \in Linkable
  BY DEF Linkable
<1>7. Ring(order', next', prev')
  <2> SUFFICES ASSUME NEW i \in 0 .. n + 1
               PROVE  next'[At(order', i)] = At(order', i + 1) /\ prev'[At(order', i + 1)] = At(order', i)
    BY <1>2 DEF Ring
  <2>1. CASE i = n + 1
    BY <1>2, <1>5, <1>6, <2>1
  <2>2. CASE i = n
    <3>1. At(order', i) = l /\ At(order', i + 1) = s
      BY <1>1, <1>2, <2>2
    <3> QED
      BY <1>2, <1>3, <1>5, <1>6, <3>1
  <2>3. CASE i \in 0 .. n - 1
    <3>1. /\ i \in 0 .. n /\ i + 1 \in 0 .. n /\ i # n /\ i + 1 \in 1 .. n + 1 /\ n + 1 \in 1 .. n + 1
          /\ i + 1 # n + 1 /\ n \in 0 .. n /\ i \in 0 .. n + 1 /\ i + 1 \in 0 .. n + 1
      BY <1>2, <2>3
    <3>2. /\ At(order, i) \in Linkable /\ At(order, i + 1) \in Linkable
          /\ At(order, i) # l /\ At(order, i + 1) # Root
          /\ At(order, i) # s /\ At(order, i + 1) # s
      BY <1>1, <1>2, <1>3, <3>1, Places
    <3>3. next[At(order, i)] = At(order, i + 1) /\ prev[At(order, i + 1)] = At(order, i)
      BY <1>1, <1>2, <3>1 DEF Ring
    <3> QED
      BY <1>2, <1>5, <3>1, <3>2, <3>3
  <2> QED
    BY <1>2, <2>1, <2>2, <2>3
<1>8. ASSUME curr # "none" PROVE \E K, r, low, high : Underway(K, r, low, high)'
  <2>1. PICK K, r, low, high : Underway(K, r, low, high)
    BY <1>2, <1>8 DEF SignalInv
  <2>2. /\ Ranks(K, r, low, high) /\ Rising(K, r, order) /\ Ahead(K, r, next, whole)
        /\ Passed(K, r, curr, called, whole) /\ s \notin K /\ K \subseteq Slots
    BY <1>0, <1>8, <2>1, PushedIsNew DEF Underway, Ranks
  <2>3. PICK J, q : J = K \union {s} /\ q = Grown(K, r, s, high)
    OBVIOUS
  <2>4. /\ Ranks(J, q, low - 1, high + 1) /\ Passed(J, q, curr, called, whole)
        /\ \A x \in K : q[x] = r[x] /\ low < r[x] /\ r[x] < high
        /\ q[s] = high /\ low < high /\ whole \subseteq K
    <3>1. /\ Ranks(K \union {s}, Grown(K, r, s, high), low - 1, high + 1)
          /\ Passed(K \union {s}, Grown(K, r, s, high), curr, called, whole)
          /\ \A x \in K : Grown(K, r, s, high)[x] = r[x] /\ low < r[x] /\ r[x] < high
          /\ Grown(K, r, s, high)[s] = high /\ low < high /\ whole \subseteq K
      <4>1. \A v \in {low, high} :
                /\ Ranks(K \union {s}, Grown(K, r, s, v), low - 1, high + 1)
                /\ Passed(K \union {s}, Grown(K, r, s, v), curr, called, whole)
                /\ \A x \in K : Grown(K, r, s, v)[x] = r[x] /\ low < r[x] /\ r[x] < high
                /\ Grown(K, r, s, v)[s] = v /\ low < high
                /\ whole \subseteq K
        <5>1. Members(whole, order)
          BY <1>2
        <5> QED
          BY <2>2, <5>1, Grows
      <4> QED
        BY <4>1
    <3> QED
      BY <2>3, <3>1
  <2>5. /\ \A i \in 1 .. n : order'[i] = order[i] /\ order[i] \in K
        /\ order'[n + 1] = s /\ \A i \in 1 .. n + 1 : i \in 1 .. n \/ i = n + 1
    <3>1. n = Len(order) /\ order \in Seq(Slots)
      BY <1>1, <1>2 DEF Ordered
    <3> QED
      BY <1>0, <1>2, <2>2, <3>1 DEF Rising
  <2>6. Rising(J, q, order')
    <3>1. \A i \in 1 .. n + 1 : order'[i] \in J
      BY <2>3, <2>5
    <3>2. ASSUME NEW i \in 1 .. n + 1, NEW j \in 1 .. n + 1, i < j PROVE q[order'[i]] < q[order'[j]]
      <4>1. i \in 1 .. n
        BY <1>2, <3>2
      <4>2. CASE j \in 1 .. n
        BY <1>1, <2>2, <2>4, <2>5, <3>2, <4>1, <4>2 DEF Rising
      <4>3. CASE j = n + 1
        BY <2>4, <2>5, <4>1, <4>3
      <4> QED
        BY <2>5, <4>2, <4>3
    <3> QED
      BY <1>2, <3>1, <3>2 DEF Rising
  <2>7. ASSUME NEW x \in J PROVE AheadOf(J, q, next', whole, x)
    <3>0. Root \notin J /\ high \in Int /\ \A y \in K : r[y] \in Int
      BY <2>2, <2>3, ServicesAssumption DEF SlotsDistinct, Ranks
    <3>1. CASE x = s
      <4>1. next'[x] = Root
        BY <1>5, <1>6, <3>1
      <4>2. \A y \in whole : ~ q[x] < q[y]
        BY <2>4, <3>0, <3>1
      <4> QED
        BY <3>0, <4>1, <4>2 DEF AheadOf
    <3>2. CASE x \in K /\ x = l
      <4>1. next'[x] = s
        BY <1>3, <1>5, <3>2
      <4>2. n \in 1 .. n /\ l = order[n]
        BY <1>1, <1>2, <2>2, <3>0, <3>2, <2>3 DEF At
      <4>3. ASSUME NEW y \in whole PROVE ~ q[x] < q[y]
        <5>1. PICK j \in 1 .. n : order[j] = y
          BY <1>1, <1>2 DEF Members
        <5>2. j = n \/ j < n
          BY <1>2
        <5>3. j < n => r[y] < r[x]
          BY <1>1, <2>2, <3>2, <4>2, <5>1 DEF Rising
        <5> QED
          BY <2>4, <3>0, <3>2, <4>2, <5>1, <5>2, <5>3
      <4> QED
        BY <2>3, <2>4, <3>2, <4>1, <4>3 DEF AheadOf
    <3>3. CASE x \in K /\ x # l
      <4>1. next'[x] = next[x]
        BY <1>5, <2>2, <3>3 DEF Linkable
      <4>2. AheadOf(K, r, next, whole, x)
        BY <2>2, <3>3 DEF Ahead
      <4>3. next[x] # s
        BY <1>2, <2>2, <4>2 DEF AheadOf
      <4> QED
        BY <2>3, <2>4, <3>3, <4>1, <4>2, <4>3 DEF AheadOf
    <3> QED
      BY <2>3, <3>1, <3>2, <3>3
  <2>8. Underway(J, q, low - 1, high + 1)'
    BY <1>0, <2>4, <2>6, <2>7 DEF Underway, Ahead
  <2> QED
    BY <2>8
<1>9. SignalInv'
  BY <1>0, <1>2, <1>5, <1>7, <1>8 DEF SignalInv, Sig!IsInjective
<1> QED
  BY <1>9

LEMMA PushFrontStep ==
    ASSUME SignalInv, NEW s \in Slots, Sig!PushFront(s)
    PROVE  SignalInv'
<1>0. /\ Sig!MayPush(s) /\ order' = <<s>> \o order /\ UNCHANGED <<curr, called, whole, stray>>
  BY DEF Sig!PushFront
<1>1. PICK n, f : n = Len(order) /\ f = At(order, 1)
  OBVIOUS
<1>2. /\ ~ stray /\ next \in Pointing /\ prev \in Pointing
      /\ Ordered(order) /\ Ring(order, next, prev) /\ Members(whole, order)
      /\ Ordered(order') /\ Members(whole', order')
      /\ \A i \in 0 .. n + 1 : At(order, i) # s
      /\ Len(order') = n + 1 /\ n \in Nat /\ s # Root
      /\ \A i \in 1 .. n + 1 : At(order', i + 1) = At(order, i)
      /\ At(order', 0) = Root /\ At(order', 1) = s
  BY <1>0, <1>1, PushedOrder
<1>3. next[Root] = f /\ f \in Linkable /\ f # s /\ At(order, 0) = Root
  <2>1. 0 \in 0 .. n /\ 1 \in 0 .. n + 1 /\ 0 + 1 = 1
    BY <1>2
  <2> QED
    BY <1>1, <1>2, <2>1, Places DEF Ring
<1>4. /\ next' = [next EXCEPT ![s] = f, ![Root] = s]
      /\ prev' = [prev EXCEPT ![f] = s, ![s] = Root]
  BY <1>3 DEF Sig!PushFront
<1>5. /\ next' \in Pointing /\ prev' \in Pointing
      /\ \A x \in Linkable : next'[x] = IF x = Root THEN s ELSE IF x = s THEN f ELSE next[x]
      /\ \A x \in Linkable : prev'[x] = IF x = s THEN Root ELSE IF x = f THEN s ELSE prev[x]
  BY <1>2, <1>3, <1>4 DEF Pointing, Linkable
<1>6. s \in Linkable /\ Root \in Linkable
  BY DEF Linkable
<1>7. Ring(order', next', prev')
  <2> SUFFICES ASSUME NEW i \in 0 .. n + 1
               PROVE  next'[At(order', i)] = At(order', i + 1) /\ prev'[At(order', i + 1)] = At(order', i)
    BY <1>2 DEF Ring
  <2>1. CASE i = 0
    BY <1>2, <1>5, <1>6, <2>1
  <2>2. CASE i = 1
    <3>1. At(order', i + 1) = f
      BY <1>1, <1>2, <2>2
    <3> QED
      BY <1>2, <1>3, <1>5, <1>6, <2>2, <3>1
  <2>3. CASE i # 0 /\ i # 1
    <3>0. PICK j \in 1 .. n : i = j + 1
      BY <1>2, <2>3
    <3>1. /\ j \in 0 .. n /\ j + 1 \in 1 .. n + 1 /\ j + 1 # 1 /\ 1 \in 1 .. n + 1 /\ j \in 1 .. n + 1
          /\ j # 0 /\ 0 \in 0 .. n /\ j \in 0 .. n + 1 /\ j + 1 \in 0 .. n + 1
      BY <1>2
    <3>2. /\ At(order, j) \in Linkable /\ At(order, j + 1) \in Linkable
          /\ At(order, j) # Root /\ At(order, j + 1) # f
          /\ At(order, j) # s /\ At(order, j + 1) # s
      BY <1>1, <1>2, <1>3, <3>1, Places
    <3>3. next[At(order, j)] = At(order, j + 1) /\ prev[At(order, j + 1)] = At(order, j)
      BY <1>1, <1>2, <3>1 DEF Ring
    <3>4. At(order', i) = At(order, j) /\ At(order', i + 1) = At(order, j + 1)
      BY <1>2, <3>0, <3>1
    <3> QED
      BY <1>5, <3>2, <3>3, <3>4
  <2> QED
    BY <2>1, <2>2, <2>3
<1>8. ASSUME curr # "none" PROVE \E K, r, low, high : Underway(K, r, low, high)'
  <2>1. PICK K, r, low, high : Underway(K, r, low, high)
    BY <1>2, <1>8 DEF SignalInv
  <2>2. /\ Ranks(K, r, low, high) /\ Rising(K, r, order) /\ Ahead(K, r, next, whole)
        /\ Passed(K, r, curr, called, whole) /\ s \notin K /\ K \subseteq Slots
    BY <1>0, <1>8, <2>1, PushedIsNew DEF Underway, Ranks
  <2>3. PICK J, q : J = K \union {s} /\ q = Grown(K, r, s, low)
    OBVIOUS
  <2>4. /\ Ranks(J, q, low - 1, high + 1) /\ Passed(J, q, curr, called, whole)
        /\ \A x \in K : q[x] = r[x] /\ low < r[x] /\ r[x] < high
        /\ q[s] = low /\ low < high /\ whole \subseteq K
    <3>1. /\ Ranks(K \union {s}, Grown(K, r, s, low), low - 1, high + 1)
          /\ Passed(K \union {s}, Grown(K, r, s, low), curr, called, whole)
          /\ \A x \in K : Grown(K, r, s, low)[x] = r[x] /\ low < r[x] /\ r[x] < high
          /\ Grown(K, r, s, low)[s] = low /\ low < high /\ whole \subseteq K
      <4>1. \A v \in {low, high} :
                /\ Ranks(K \union {s}, Grown(K, r, s, v), low - 1, high + 1)
                /\ Passed(K \union {s}, Grown(K, r, s, v), curr, called, whole)
                /\ \A x \in K : Grown(K, r, s, v)[x] = r[x] /\ low < r[x] /\ r[x] < high
                /\ Grown(K, r, s, v)[s] = v /\ low < high
                /\ whole \subseteq K
        <5>1. Members(whole, order)
          BY <1>2
        <5> QED
          BY <2>2, <5>1, Grows
      <4> QED
        BY <4>1
    <3> QED
      BY <2>3, <3>1
  <2>5. /\ order'[1] = s
        /\ \A i \in 1 .. n + 1 :
               i = 1 \/ (i - 1 \in 1 .. n /\ order'[i] = order[i - 1] /\ order[i - 1] \in K)
    <3>1. At(order', 1) = order'[1]
      BY <1>2, Places
    <3>2. ASSUME NEW i \in 1 .. n + 1, i # 1
          PROVE  i - 1 \in 1 .. n /\ order'[i] = order[i - 1] /\ order[i - 1] \in K
      <4>1. i - 1 \in 1 .. n /\ i - 1 \in 1 .. n + 1 /\ (i - 1) + 1 = i
        BY <1>2, <3>2
      <4>2. At(order', i) = order'[i] /\ At(order, i - 1) = order[i - 1]
        BY <1>1, <1>2, <4>1, Places
      <4> QED
        BY <1>1, <1>2, <2>2, <4>1, <4>2 DEF Rising
    <3> QED
      BY <1>2, <3>1, <3>2
  <2>6. Rising(J, q, order')
    <3>1. \A i \in 1 .. n + 1 : order'[i] \in J
      BY <2>3, <2>5
    <3>2. ASSUME NEW i \in 1 .. n + 1, NEW j \in 1 .. n + 1, i < j PROVE q[order'[i]] < q[order'[j]]
      <4>1. j - 1 \in 1 .. n /\ order'[j] = order[j - 1] /\ order[j - 1] \in K
        BY <1>2, <2>5, <3>2
      <4>2. CASE i = 1
        BY <2>4, <2>5, <4>1, <4>2
      <4>3. CASE i # 1
        <5>1. i - 1 \in 1 .. n /\ order'[i] = order[i - 1] /\ order[i - 1] \in K /\ i - 1 < j - 1
          BY <1>2, <2>5, <3>2, <4>3
        <5> QED
          BY <1>1, <2>2, <2>4, <4>1, <5>1 DEF Rising
      <4> QED
        BY <4>2, <4>3
    <3> QED
      BY <1>2, <3>1, <3>2 DEF Rising
  <2>7. ASSUME NEW x \in J PROVE AheadOf(J, q, next', whole, x)
    <3>0. Root \notin J /\ low \in Int /\ \A y \in K : r[y] \in Int
      BY <2>2, <2>3, ServicesAssumption DEF SlotsDistinct, Ranks
    <3>1. CASE x = s /\ n = 0
      <4>1. next'[x] = Root
        BY <1>1, <1>2, <1>3, <1>5, <1>6, <3>1 DEF At
      <4>2. whole = {}
        BY <1>1, <1>2, <3>1 DEF Members
      <4> QED
        BY <3>0, <4>1, <4>2 DEF AheadOf
    <3>2. CASE x = s /\ n # 0
      <4>1. next'[x] = f /\ f = order[1] /\ 1 \in 1 .. n
        BY <1>1, <1>2, <1>3, <1>5, <1>6, <3>2 DEF At
      <4>2. f \in K /\ q[s] < q[f]
        BY <1>1, <2>2, <2>4, <4>1 DEF Rising
      <4>3. ASSUME NEW y \in whole PROVE f = y \/ q[f] < q[y]
        <5>1. PICK j \in 1 .. n : order[j] = y
          BY <1>1, <1>2 DEF Members
        <5>2. j = 1 \/ 1 < j
          BY <1>2
        <5>3. 1 < j => r[f] < r[y]
          BY <1>1, <2>2, <4>1, <5>1 DEF Rising
        <5> QED
          BY <2>4, <4>1, <4>2, <5>1, <5>2, <5>3
      <4> QED
        BY <2>3, <3>2, <4>1, <4>2, <4>3 DEF AheadOf
    <3>3. CASE x \in K
      <4>1. next'[x] = next[x]
        BY <1>5, <2>2, <2>3, <3>0, <3>3 DEF Linkable
      <4>2. AheadOf(K, r, next, whole, x)
        BY <2>2, <3>3 DEF Ahead
      <4>3. next[x] # s
        BY <1>2, <2>2, <4>2 DEF AheadOf
      <4> QED
        BY <2>3, <2>4, <3>3, <4>1, <4>2, <4>3 DEF AheadOf
    <3> QED
      BY <2>3, <3>1, <3>2, <3>3
  <2>8. Underway(J, q, low - 1, high + 1)'
    BY <1>0, <2>4, <2>6, <2>7 DEF Underway, Ahead
  <2> QED
    BY <2>8
<1>9. SignalInv'
  BY <1>0, <1>2, <1>5, <1>7, <1>8 DEF SignalInv, Sig!IsInjective
<1> QED
  BY <1>9

LEMMA CallStep ==
    ASSUME SignalInv, Sig!Call
    PROVE  SignalInv'
<1>0. /\ ~ stray /\ order # <<>> /\ curr = "none"
      /\ curr' = next[Root] /\ called' = <<next[Root]>> /\ whole' = Sig!ToSet(order)
      /\ UNCHANGED <<next, prev, order, stray>>
      /\ Ordered(order) /\ Ring(order, next, prev) /\ next \in Pointing /\ prev \in Pointing
  BY DEF Sig!Call, SignalInv, Sig!Calling, Sig!None
<1>1. PICK n : n = Len(order)
  OBVIOUS
<1>2. /\ order \in Seq(Slots) /\ n \in Nat /\ 1 \in 1 .. n /\ 0 \in 0 .. n
      /\ \A i, j \in 1 .. n : order[i] = order[j] => i = j
  BY <1>0, <1>1 DEF Ordered
<1>3. next[Root] = order[1] /\ order[1] \in Slots
  <2>1. next[At(order, 0)] = At(order, 0 + 1)
    BY <1>0, <1>1, <1>2 DEF Ring
  <2> QED
    BY <1>0, <1>1, <1>2, <2>1, Places
<1>4. called' \in Seq(Slots) /\ Sig!IsInjective(called') /\ curr' # "none"
  BY <1>0, <1>3, ServicesAssumption DEF SlotsDistinct, Sig!IsInjective
<1>5. whole' = {order[i] : i \in 1 .. n}
  BY <1>0, <1>1, <1>2 DEF Sig!ToSet
<1>6. Members(whole', order')
  BY <1>0, <1>1, <1>5 DEF Members
<1>7. PICK K, r : K = {order[i] : i \in 1 .. n} /\ r = [x \in K |-> CHOOSE i \in 1 .. n : order[i] = x]
  OBVIOUS
<1>8. ASSUME NEW i \in 1 .. n PROVE order[i] \in K /\ r[order[i]] = i
  BY <1>2, <1>7
<1>9. Ranks(K, r, 0, n + 1)
  <2>1. \A x \in K : r[x] \in 1 .. n
    BY <1>7, <1>8
  <2>2. r \in [K -> Int]
    BY <1>7, <2>1
  <2>3. \A x \in K : 0 < r[x] /\ r[x] < n + 1
    BY <1>2, <2>1
  <2>4. K \subseteq Slots
    BY <1>1, <1>2, <1>7
  <2>5. 0 \in Int /\ n + 1 \in Int
    BY <1>2
  <2> QED
    BY <2>2, <2>3, <2>4, <2>5 DEF Ranks
<1>10. Rising(K, r, order)
  BY <1>1, <1>8 DEF Rising
<1>11. ASSUME NEW x \in K PROVE AheadOf(K, r, next, whole', x)
  <2>1. PICK i \in 1 .. n : x = order[i]
    BY <1>7
  <2>2. next[x] = At(order, i + 1)
    <3>1. i \in 0 .. n
      BY <1>2
    <3>2. next[At(order, i)] = At(order, i + 1)
      BY <1>0, <1>1, <3>1 DEF Ring
    <3> QED
      BY <1>0, <1>1, <2>1, <3>2, Places
  <2>3. CASE i = n
    <3>1. next[x] = Root
      BY <1>0, <1>1, <2>2, <2>3, Places
    <3>2. \A y \in whole' : ~ r[x] < r[y]
      BY <1>2, <1>5, <1>8, <2>1, <2>3
    <3>3. Root \notin K
      BY <1>9, ServicesAssumption DEF SlotsDistinct, Ranks
    <3> QED
      BY <3>1, <3>2, <3>3 DEF AheadOf
  <2>4. CASE i # n
    <3>1. i + 1 \in 1 .. n
      BY <1>2, <2>4
    <3>2. next[x] = order[i + 1] /\ next[x] \in K /\ r[next[x]] = i + 1 /\ r[x] = i
      BY <1>0, <1>1, <1>8, <2>1, <2>2, <3>1, Places
    <3>3. ASSUME NEW y \in whole', r[x] < r[y] PROVE next[x] = y \/ r[next[x]] < r[y]
      <4>1. PICK j \in 1 .. n : y = order[j]
        BY <1>5
      <4>2. r[y] = j /\ (j = i + 1 \/ i + 1 < j)
        BY <1>2, <1>8, <3>2, <3>3, <4>1
      <4> QED
        BY <3>2, <4>1, <4>2
    <3>4. r[x] < r[next[x]]
      BY <1>2, <3>2
    <3> QED
      BY <3>2, <3>3, <3>4 DEF AheadOf
  <2> QED
    BY <2>3, <2>4
<1>12. Passed(K, r, curr', called', whole')
  <2>1. curr' = order[1] /\ called' = <<order[1]>> /\ order[1] \in K /\ r[order[1]] = 1
    BY <1>0, <1>2, <1>3, <1>8
  <2>2. ASSUME NEW y \in whole' PROVE y = order[1] \/ 1 < r[y]
    <3>1. PICK j \in 1 .. n : y = order[j]
      BY <1>5
    <3> QED
      BY <1>2, <1>8, <3>1
  <2>3. /\ \A i \in 1 .. Len(called') : called'[i] = order[1]
        /\ 1 \in 1 .. Len(called') /\ called'[1] = order[1]
    BY <2>1
  <2> QED
    BY <2>1, <2>2, <2>3 DEF Passed
<1>13. Underway(K, r, 0, n + 1)'
  BY <1>0, <1>9, <1>10, <1>11, <1>12 DEF Underway, Ahead
<1> QED
  BY <1>0, <1>4, <1>6, <1>13 DEF SignalInv

LEMMA AdvanceStep ==
    ASSUME SignalInv, Sig!Advance
    PROVE  SignalInv'
<1>0. /\ ~ stray /\ curr # "none" /\ UNCHANGED <<next, prev, order, whole, stray>>
      /\ curr' = IF next[curr] = Root THEN "none" ELSE next[curr]
      /\ called' = IF next[curr] = Root THEN <<>> ELSE Append(called, next[curr])
      /\ called \in Seq(Slots) /\ Sig!IsInjective(called)
      /\ Ordered(order) /\ Ring(order, next, prev) /\ next \in Pointing /\ prev \in Pointing
      /\ Members(whole, order)
  BY DEF Sig!Advance, SignalInv, Sig!Calling, Sig!None
<1>1. PICK K, r, low, high : Underway(K, r, low, high)
  BY <1>0 DEF SignalInv
<1>2. /\ Ranks(K, r, low, high) /\ Rising(K, r, order) /\ Ahead(K, r, next, whole)
      /\ curr \in K /\ \A i \in 1 .. Len(called) : called[i] \in K /\ r[called[i]] <= r[curr]
      /\ \A y \in whole : (\E i \in 1 .. Len(called) : called[i] = y) \/ r[curr] < r[y]
  BY <1>1 DEF Underway, Passed
<1>3. PICK c : c = next[curr]
  OBVIOUS
<1>4. /\ c \in K \/ c = Root
      /\ c \in K => r[curr] < r[c]
      /\ \A y \in whole : r[curr] < r[y] => c = y \/ (c \in K /\ r[c] < r[y])
  BY <1>2, <1>3 DEF Ahead, AheadOf
<1>5. CASE c = Root
  <2>1. curr' = "none" /\ called' = <<>>
    BY <1>0, <1>3, <1>5
  <2>2. called' \in Seq(Slots) /\ Sig!IsInjective(called')
    BY <2>1 DEF Sig!IsInjective
  <2> QED
    BY <1>0, <2>1, <2>2 DEF SignalInv
<1>6. CASE c # Root
  <2>1. /\ curr' = c /\ called' = Append(called, c) /\ c \in K /\ c \in Slots /\ c # "none"
        /\ \A x \in K : r[x] \in Int
    BY <1>0, <1>2, <1>3, <1>4, <1>6, ServicesAssumption DEF SlotsDistinct, Ranks
  <2>2. PICK m \in Nat : m = Len(called)
    BY <1>0
  <2>3. /\ called' \in Seq(Slots) /\ Len(called') = m + 1 /\ called'[m + 1] = c
        /\ \A i \in 1 .. m : called'[i] = called[i] /\ r[called[i]] < r[c] /\ called[i] \in K
        /\ \A i \in 1 .. m + 1 : i \in 1 .. m \/ i = m + 1
    <3>1. \A i \in 1 .. m : called[i] \in K /\ r[called[i]] < r[c]
      BY <1>2, <1>4, <2>1, <2>2
    <3>2. /\ called' \in Seq(Slots) /\ Len(called') = m + 1 /\ called'[m + 1] = c
          /\ \A i \in 1 .. m : called'[i] = called[i]
      BY <1>0, <2>1, <2>2
    <3>3. \A i \in 1 .. m + 1 : i \in 1 .. m \/ i = m + 1
      BY <2>2
    <3> QED
      BY <3>1, <3>2, <3>3
  <2>4. Sig!IsInjective(called')
    <3> SUFFICES ASSUME NEW i \in 1 .. m + 1, NEW j \in 1 .. m + 1, called'[i] = called'[j]
                 PROVE  i = j
      BY <2>3 DEF Sig!IsInjective
    <3>1. CASE i \in 1 .. m /\ j \in 1 .. m
      BY <1>0, <2>2, <2>3, <3>1 DEF Sig!IsInjective
    <3>2. ~ r[c] < r[c]
      BY <2>1
    <3> QED
      BY <2>3, <3>1, <3>2
  <2>5. Passed(K, r, curr', called', whole')
    <3>1. \A i \in 1 .. m + 1 : called'[i] \in K /\ r[called'[i]] <= r[c]
      BY <2>1, <2>3
    <3>2. ASSUME NEW y \in whole
          PROVE  (\E i \in 1 .. m + 1 : called'[i] = y) \/ r[c] < r[y]
      <4>1. CASE \E i \in 1 .. m : called[i] = y
        BY <2>2, <2>3, <4>1
      <4>2. CASE r[curr] < r[y]
        <5>1. m + 1 \in 1 .. m + 1
          BY <2>2
        <5> QED
          BY <1>4, <2>3, <4>2, <5>1
      <4> QED
        BY <1>2, <2>2, <4>1, <4>2
    <3> QED
      BY <1>0, <2>1, <2>3, <3>1, <3>2 DEF Passed
  <2>6. Underway(K, r, low, high)'
    BY <1>0, <1>2, <2>5 DEF Underway
  <2> QED
    BY <1>0, <2>1, <2>3, <2>4, <2>6 DEF SignalInv
<1> QED
  BY <1>5, <1>6

LEMMA SignalStep == SignalInv /\ [Sig!SignalNext]_signalVars => SignalInv'
<1> SUFFICES ASSUME SignalInv, [Sig!SignalNext]_signalVars PROVE SignalInv'
  OBVIOUS
<1>1. CASE UNCHANGED signalVars
  <2>1. UNCHANGED <<next, prev, curr, called, order, whole, stray>>
    BY <1>1 DEF signalVars
  <2> QED
    BY <2>1 DEF SignalInv, Underway, Sig!IsInjective
<1> QED
  BY <1>1, PushBackStep, PushFrontStep, DisconnectStep, PopStep, ClearStep, CallStep, AdvanceStep
     DEF Sig!SignalNext

LEMMA SignalInit == Sig!SignalInit => SignalInv
<1> SUFFICES ASSUME Sig!SignalInit PROVE SignalInv
  OBVIOUS
<1>1. /\ next = [n \in Linkable |-> IF n = Root THEN Root ELSE "none"] /\ prev = next
      /\ curr = "none" /\ called = <<>> /\ order = <<>> /\ whole = {} /\ stray = FALSE
  BY DEF Sig!SignalInit, Sig!Nodes, Sig!None, Linkable
<1>2. next \in Pointing /\ next[Root] = Root
  BY <1>1 DEF Pointing, Linkable
<1>3. Ordered(order) /\ Ring(order, next, prev) /\ Members(whole, order)
  BY <1>1, <1>2 DEF Ordered, Ring, At, Members
<1>4. called \in Seq(Slots) /\ Sig!IsInjective(called)
  BY <1>1 DEF Sig!IsInjective
<1> QED
  BY <1>1, <1>2, <1>3, <1>4 DEF SignalInv

(* The ring as the property has it, with the root at both ends. *)
LEMMA RingIsWhole == SignalInv => Sig!RingWhole
<1> SUFFICES ASSUME SignalInv, ~ stray PROVE Sig!RingWhole
  BY DEF Sig!RingWhole
<1> DEFINE S == Linkable
           open == <<Root>> \o order
           ring == open \o <<Root>>
<1>1. Ordered(order) /\ Ring(order, next, prev)
  BY DEF SignalInv
<1>2. order \in Seq(S) /\ Len(order) \in Nat
  BY <1>1 DEF Ordered, Linkable
<1>3. <<Root>> \in Seq(S) /\ Len(<<Root>>) = 1 /\ <<Root>>[1] = Root
  BY DEF Linkable
<1>4. /\ open \in Seq(S) /\ Len(open) = 1 + Len(order)
      /\ \A i \in 1 .. 1 + Len(order) : open[i] = IF i <= 1 THEN <<Root>>[i] ELSE order[i - 1]
  BY <1>2, <1>3, ConcatProperties
<1>5. /\ Len(ring) = 1 + Len(order) + 1
      /\ \A i \in 1 .. 1 + Len(order) + 1 :
             ring[i] = IF i <= 1 + Len(order) THEN open[i] ELSE <<Root>>[i - (1 + Len(order))]
  <2> HIDE DEF open
  <2> QED
    BY <1>3, <1>4, ConcatProperties
<1> HIDE DEF ring, open
<1>6. ASSUME NEW i \in 0 .. Len(order) + 1 PROVE ring[i + 1] = At(order, i)
  <2>1. CASE i = 0
    BY <1>1, <1>2, <1>3, <1>4, <1>5, <2>1, Places
  <2>2. CASE i \in 1 .. Len(order)
    <3>1. i + 1 \in 1 .. 1 + Len(order) /\ ~ i + 1 <= 1 /\ (i + 1) - 1 = i
      BY <1>2, <2>2
    <3>2. ring[i + 1] = open[i + 1]
      BY <1>2, <1>5, <3>1
    <3> QED
      BY <1>1, <1>4, <2>2, <3>1, <3>2, Places
  <2>3. CASE i = Len(order) + 1
    <3>1. i + 1 \in 1 .. 1 + Len(order) + 1 /\ ~ i + 1 <= 1 + Len(order) /\ (i + 1) - (1 + Len(order)) = 1
      BY <1>2, <2>3
    <3> QED
      BY <1>1, <1>3, <1>5, <2>3, <3>1, Places
  <2> QED
    BY <1>2, <2>1, <2>2, <2>3
<1>7. ASSUME NEW i \in 1 .. Len(ring) - 1
      PROVE  next[ring[i]] = ring[i + 1] /\ prev[ring[i + 1]] = ring[i]
  <2>1. PICK j \in 0 .. Len(order) : i = j + 1
    <3>1. PICK n \in Nat : n = Len(order)
      BY <1>2
    <3>2. i \in 1 .. n + 1
      BY <1>5, <3>1
    <3>3. i - 1 \in 0 .. n /\ i = (i - 1) + 1
      BY <3>1, <3>2
    <3> QED
      BY <3>1, <3>3
  <2>2. j \in 0 .. Len(order) + 1 /\ j + 1 \in 0 .. Len(order) + 1
    BY <1>2
  <2>3. ring[i] = At(order, j) /\ ring[i + 1] = At(order, j + 1)
    BY <1>6, <2>1, <2>2
  <2> QED
    BY <1>1, <2>3 DEF Ring
<1> QED
  BY <1>7 DEF Sig!RingWhole, ring, open

LEMMA CallIsWhole == SignalInv => Sig!CallReaches
<1> SUFFICES ASSUME SignalInv, Sig!Calling, next[curr] = Root, ~ stray
             PROVE  whole \subseteq Sig!ToSet(called)
  BY DEF SignalInv, Sig!CallReaches
<1>1. PICK K, r, low, high : Underway(K, r, low, high)
  BY DEF SignalInv, Sig!Calling, Sig!None
<1>2. Root \notin K
  BY <1>1, ServicesAssumption DEF SlotsDistinct, Underway, Ranks
<1>3. curr \in K /\ whole \subseteq K
  BY <1>1 DEF SignalInv, Underway, Passed, Rising, Members
<1>4. ASSUME NEW y \in whole PROVE \E i \in 1 .. Len(called) : called[i] = y
  <2>1. r[curr] < r[y] => next[curr] = y \/ next[curr] \in K
    BY <1>1, <1>3 DEF Underway, Ahead, AheadOf
  <2> QED
    BY <1>1, <1>2, <1>3, <2>1 DEF Underway, Passed
<1>5. DOMAIN called = 1 .. Len(called)
  BY DEF SignalInv
<1> QED
  BY <1>4, <1>5 DEF Sig!ToSet

-----------------------------------------------------------------------------
(* Buffers: a message arrives as it was sent *)

Bytes == Seq(Nat)

(* What the traits of a type must be: they write as many bytes as they say *)
(* they will, and read back what they wrote, whatever there is behind it.  *)
RoundTrips(t) ==
    /\ t.whole \subseteq t.values
    /\ \A v \in t.values : t.write[v] \in Bytes /\ Len(t.write[v]) = t.size[v]
    /\ \A v \in t.whole, after \in Bytes :
           t.read[t.write[v] \o after] = Stream!ReadAs(v, t.size[v])

LEMMA Sized ==
    ASSUME NEW t, RoundTrips(t), NEW v \in t.values
    PROVE  t.write[v] \in Bytes /\ Len(t.write[v]) = t.size[v] /\ t.size[v] \in Nat
<1>1. t.write[v] \in Bytes /\ Len(t.write[v]) = t.size[v]
  BY DEF RoundTrips
<1> QED
  BY <1>1, LenProperties DEF Bytes

(* What is behind the bytes that were read.                                *)
LEMMA Behind ==
    ASSUME NEW a \in Bytes, NEW b \in Bytes
    PROVE  a \o b \in Bytes /\ Stream!From(a \o b, Len(a)) = b
<1> DEFINE c == a \o b
           d == SubSeq(c, Len(a) + 1, Len(c))
<1>1. /\ c \in Bytes /\ Len(c) = Len(a) + Len(b) /\ Len(a) \in Nat /\ Len(b) \in Nat
      /\ \A i \in 1 .. Len(a) + Len(b) : c[i] = IF i <= Len(a) THEN a[i] ELSE b[i - Len(a)]
  BY ConcatProperties, LenProperties DEF Bytes
<1>2. \A i \in Len(a) + 1 .. Len(c) : c[i] \in Nat
  <2> HIDE DEF c
  <2> QED
    BY <1>1, ElementOfSeq DEF Bytes
<1>3. /\ d \in Bytes /\ Len(d) = Len(b)
      /\ \A i \in 1 .. Len(b) : d[i] = c[Len(a) + 1 + i - 1]
  <2> HIDE DEF c
  <2> QED
    BY <1>1, <1>2, SubSeqProperties DEF Bytes
<1>4. ASSUME NEW i \in 1 .. Len(b) PROVE d[i] = b[i]
  <2> HIDE DEF c, d
  <2>1. Len(a) + 1 + i - 1 = Len(a) + i
    BY <1>1
  <2>2. Len(a) + i \in 1 .. Len(a) + Len(b) /\ ~ Len(a) + i <= Len(a) /\ Len(a) + i - Len(a) = i
    BY <1>1
  <2> QED
    BY <1>1, <1>3, <2>1, <2>2
<1>5. d = b
  <2> HIDE DEF d
  <2> QED
    BY <1>3, <1>4, SeqEqual DEF Bytes
<1> QED
  BY <1>1, <1>5 DEF Stream!From

LEMMA Lengths ==
    ASSUME NEW a \in Bytes, NEW b \in Bytes
    PROVE  Len(a \o b) = Len(a) + Len(b) /\ Len(a) \in Nat /\ Len(b) \in Nat
BY LenProperties, ConcatProperties DEF Bytes

LEMMA Joined ==
    ASSUME NEW a \in Bytes, NEW b \in Bytes, NEW c \in Bytes
    PROVE  (a \o b) \o c = a \o (b \o c)
BY DEF Bytes

LEMMA CountWritten ==
    ASSUME NEW n \in Nat \ {0}, NEW v \in Nat
    PROVE  /\ Stream!WriteCount(n, v) \in Bytes /\ Len(Stream!WriteCount(n, v)) = n
           /\ \A after \in Bytes : (Stream!WriteCount(n, v) \o after)[1] = v
<1> DEFINE rest == [i \in 1 .. n - 1 |-> Filler]
           w == <<v>> \o rest
<1>1. rest \in Bytes /\ Len(rest) = n - 1
  <2>1. n - 1 \in Nat /\ Filler \in Nat
    BY ServicesAssumption DEF MessagesTyped
  <2>2. rest \in [1 .. n - 1 -> Nat]
    BY <2>1
  <2> QED
    BY <2>1, <2>2 DEF Bytes
<1>2. <<v>> \in Bytes /\ Len(<<v>>) = 1 /\ <<v>>[1] = v
  BY DEF Bytes
<1>3. w \in Bytes /\ Len(w) = n /\ w[1] = v
  <2> HIDE DEF rest
  <2>1. w \in Bytes /\ Len(w) = Len(<<v>>) + Len(rest) /\ w[1] = <<v>>[1]
    BY <1>1, <1>2, ConcatProperties DEF Bytes
  <2> QED
    BY <1>1, <1>2, <2>1
<1>4. ASSUME NEW after \in Bytes PROVE (w \o after)[1] = v
  <2> HIDE DEF w
  <2>1. Len(after) \in Nat
    BY LenProperties DEF Bytes
  <2> QED
    BY <1>3, <2>1, ConcatProperties DEF Bytes
<1> QED
  BY <1>3, <1>4 DEF Stream!WriteCount

LEMMA EmptyRoundTrips == RoundTrips(Stream!Empty)
<1>1. /\ Stream!Empty.whole = {0} /\ Stream!Empty.values = {0}
      /\ Stream!Empty.write[0] = <<>> /\ Stream!Empty.size[0] = 0
      /\ \A given \in Bytes : Stream!Empty.read[given] = Stream!ReadAs(0, 0)
  BY DEF Stream!Empty, Bytes
<1>2. <<>> \in Bytes /\ Len(<<>>) = 0
  BY DEF Bytes
<1>3. ASSUME NEW after \in Bytes
      PROVE  Stream!Empty.read[Stream!Empty.write[0] \o after] = Stream!ReadAs(0, 0)
  <2>1. <<>> \o after \in Bytes
    BY <1>2, Behind
  <2> QED
    BY <1>1, <2>1
<1>4. ASSUME NEW t, t = Stream!Empty PROVE RoundTrips(t)
  BY <1>1, <1>2, <1>3, <1>4 DEF RoundTrips
<1> QED
  BY <1>4

LEMMA PodRoundTrips == ASSUME NEW n \in Nat \ {0} PROVE RoundTrips(Stream!Pod(n))
<1> DEFINE t == Stream!Pod(n)
<1>1. /\ t.whole = Nat /\ t.values = Nat
      /\ \A v \in Nat : t.write[v] = Stream!WriteCount(n, v) /\ t.size[v] = n
      /\ \A given \in Bytes : t.read[given] = Stream!ReadAs(given[1], n)
  BY DEF Stream!Pod, Bytes
<1> HIDE DEF t
<1>2. ASSUME NEW v \in Nat PROVE t.write[v] \in Bytes /\ Len(t.write[v]) = t.size[v]
  <2>1. Stream!WriteCount(n, v) \in Bytes /\ Len(Stream!WriteCount(n, v)) = n
    BY CountWritten
  <2> QED
    BY <1>1, <2>1
<1>3. ASSUME NEW v \in Nat, NEW after \in Bytes
      PROVE  t.read[t.write[v] \o after] = Stream!ReadAs(v, t.size[v])
  <2> DEFINE given == t.write[v] \o after
  <2>1. given \in Bytes
    BY <1>2, Behind
  <2>2. given[1] = v
    <3>1. (Stream!WriteCount(n, v) \o after)[1] = v
      BY CountWritten
    <3> QED
      BY <1>1, <3>1
  <2> HIDE DEF given
  <2>3. t.read[given] = Stream!ReadAs(v, t.size[v])
    BY <1>1, <2>1, <2>2
  <2> QED
    BY <2>3 DEF given
<1>4. RoundTrips(t)
  BY <1>1, <1>2, <1>3 DEF RoundTrips
<1> QED
  BY <1>4 DEF t

LEMMA TextRoundTrips == RoundTrips(Stream!Text)
<1> DEFINE t == Stream!Text
<1>1. /\ t.whole = {v \in Bytes : \A i \in DOMAIN v : v[i] # 0} /\ t.values = Bytes
      /\ \A v \in Bytes : t.write[v] = Append(v, 0) /\ t.size[v] = Len(v) + 1
      /\ \A given \in Bytes :
             t.read[given] = Stream!ReadAs(SubSeq(given, 1, Stream!Ends(given)), Stream!Ends(given) + 1)
  BY DEF Stream!Text, Stream!Nul, Bytes
<1> HIDE DEF t
<1>2. ASSUME NEW v \in Bytes PROVE t.write[v] \in Bytes /\ Len(t.write[v]) = t.size[v]
  <2>1. Append(v, 0) \in Bytes /\ Len(Append(v, 0)) = Len(v) + 1
    BY AppendProperties DEF Bytes
  <2> QED
    BY <1>1, <2>1
<1>3. ASSUME NEW v \in t.whole, NEW after \in Bytes
      PROVE  t.read[t.write[v] \o after] = Stream!ReadAs(v, t.size[v])
  <2> DEFINE w == Append(v, 0)
             given == w \o after
             n == Len(v)
             part == SubSeq(given, 1, n)
  <2>1. v \in Bytes /\ n \in Nat /\ Len(after) \in Nat /\ \A i \in 1 .. n : v[i] # 0 /\ v[i] \in Nat
    BY <1>1, <1>3, LenProperties DEF Bytes
  <2>2. /\ w \in Bytes /\ Len(w) = n + 1 /\ w[n + 1] = 0
        /\ \A i \in 1 .. n : w[i] = v[i]
    BY <2>1, AppendProperties DEF Bytes
  <2> HIDE DEF w, n
  <2>3. /\ given \in Bytes /\ Len(given) = n + 1 + Len(after) /\ given[n + 1] = 0
        /\ \A i \in 1 .. n : given[i] = v[i]
    <3>1. /\ given \in Bytes /\ Len(given) = Len(w) + Len(after)
          /\ \A i \in 1 .. Len(w) + Len(after) :
                 given[i] = IF i <= Len(w) THEN w[i] ELSE after[i - Len(w)]
      BY <2>2, ConcatProperties DEF Bytes
    <3> HIDE DEF given
    <3> QED
      BY <2>1, <2>2, <3>1
  <2> HIDE DEF given
  <2>4. Stream!Ends(given) = n
    <3> DEFINE Right(m) == /\ m = Len(given) \/ given[m + 1] = 0
                           /\ \A i \in 1 .. m : given[i] # 0
    <3>1. n \in 0 .. Len(given) /\ Right(n)
      BY <2>1, <2>3
    <3>2. \A m \in 0 .. Len(given) : Right(m) => m = n
      BY <2>1, <2>3
    <3>3. Stream!Ends(given) = CHOOSE m \in 0 .. Len(given) : Right(m)
      BY Zenon DEF Stream!Ends, Stream!Nul
    <3> HIDE DEF Right
    <3> QED
      BY <3>1, <3>2, <3>3
  <2>5. part = v
    <3>1. /\ part \in Bytes /\ Len(part) = n
          /\ \A i \in 1 .. n : part[i] = given[1 + i - 1]
      <4>1. \A i \in 1 .. n : given[i] \in Nat
        BY <2>1, <2>3
      <4> QED
        BY <2>1, <4>1, SubSeqProperties DEF Bytes
    <3> HIDE DEF part
    <3>2. Len(v) = n /\ \A i \in 1 .. n : part[i] = v[i]
      BY <2>1, <2>3, <3>1 DEF n
    <3> QED
      BY <2>1, <3>1, <3>2, SeqEqual DEF Bytes
  <2>6. t.read[given] = Stream!ReadAs(v, t.size[v])
    <3>1. t.read[given] = Stream!ReadAs(part, n + 1)
      BY <1>1, <2>3, <2>4
    <3>2. t.size[v] = n + 1
      BY <1>1, <2>1 DEF n
    <3> QED
      BY <2>5, <3>1, <3>2
  <2> QED
    BY <1>1, <2>1, <2>6 DEF given, w
<1>4. RoundTrips(t)
  BY <1>1, <1>2, <1>3 DEF RoundTrips
<1> QED
  BY <1>4 DEF t

LEMMA PairRoundTrips ==
    ASSUME NEW first, NEW second, RoundTrips(first), RoundTrips(second)
    PROVE  RoundTrips(Stream!Pair(first, second))
<1> DEFINE t == Stream!Pair(first, second)
           V == first.values \X second.values
<1>1. /\ t.whole = first.whole \X second.whole /\ t.values = V
      /\ \A v \in V : /\ t.write[v] = first.write[v[1]] \o second.write[v[2]]
                      /\ t.size[v] = first.size[v[1]] + second.size[v[2]]
  BY DEF Stream!Pair
<1>2. ASSUME NEW given \in Bytes
      PROVE  t.read[given] =
                 LET one == first.read[given]
                     other == second.read[Stream!From(given, one.bytes)]
                 IN  Stream!ReadAs(<<one.value, other.value>>, one.bytes + other.bytes)
  BY DEF Stream!Pair, Bytes
<1> HIDE DEF t
<1>3. t.whole \subseteq t.values
  BY <1>1 DEF RoundTrips
<1>4. ASSUME NEW v \in V
      PROVE  /\ v[1] \in first.values /\ v[2] \in second.values
             /\ t.write[v] \in Bytes /\ Len(t.write[v]) = t.size[v]
  <2>1. /\ first.write[v[1]] \in Bytes /\ Len(first.write[v[1]]) = first.size[v[1]]
        /\ second.write[v[2]] \in Bytes /\ Len(second.write[v[2]]) = second.size[v[2]]
    BY DEF RoundTrips
  <2> DEFINE a == first.write[v[1]]
             b == second.write[v[2]]
  <2>2. a \o b \in Bytes /\ Len(a \o b) = Len(a) + Len(b)
    <3> HIDE DEF a, b
    <3>1. a \in Bytes /\ b \in Bytes
      BY <2>1 DEF a, b
    <3> QED
      BY <3>1, ConcatProperties DEF Bytes
  <2> QED
    BY <1>1, <2>1, <2>2
<1>5. ASSUME NEW v \in t.whole, NEW after \in Bytes
      PROVE  t.read[t.write[v] \o after] = Stream!ReadAs(v, t.size[v])
  <2> DEFINE a == first.write[v[1]]
             b == second.write[v[2]]
             rest == b \o after
             given == a \o rest
  <2>1. v \in V /\ v[1] \in first.whole /\ v[2] \in second.whole /\ v = <<v[1], v[2]>>
    BY <1>1, <1>3, <1>5
  <2>2. a \in Bytes /\ b \in Bytes /\ Len(a) = first.size[v[1]]
    BY <1>4, <2>1 DEF RoundTrips
  <2>3. rest \in Bytes
    BY <2>2, Behind
  <2>4. second.read[rest] = Stream!ReadAs(v[2], second.size[v[2]])
    BY <2>1 DEF RoundTrips
  <2> HIDE DEF rest
  <2>5. first.read[given] = Stream!ReadAs(v[1], first.size[v[1]])
    BY <2>1, <2>3 DEF RoundTrips
  <2>6. given \in Bytes /\ Stream!From(given, first.size[v[1]]) = rest
    <3> HIDE DEF a
    <3> QED
      BY <2>2, <2>3, Behind
  <2>7. t.write[v] \o after = given
    <3>1. t.write[v] = a \o b
      BY <1>1, <2>1
    <3> HIDE DEF a, b
    <3>2. (a \o b) \o after = a \o (b \o after)
      BY <2>2, Joined
    <3> QED
      BY <3>1, <3>2 DEF rest
  <2> HIDE DEF given
  <2>8. t.read[given] = Stream!ReadAs(<<v[1], v[2]>>, first.size[v[1]] + second.size[v[2]])
    BY <1>2, <2>4, <2>5, <2>6 DEF Stream!ReadAs
  <2> QED
    BY <1>1, <2>1, <2>7, <2>8
<1>6. RoundTrips(t)
  BY <1>1, <1>3, <1>4, <1>5 DEF RoundTrips
<1> QED
  BY <1>6 DEF t

(* The elements of a container: after n of them, what has been written and *)
(* how many bytes that is.                                                 *)
Elements(t, v, w, s) ==
    /\ w \in [0 .. Len(v) -> Bytes] /\ s \in [0 .. Len(v) -> Nat]
    /\ w[0] = Stream!WriteCount(CountSize, Len(v)) /\ s[0] = CountSize
    /\ \A n \in 1 .. Len(v) : w[n] = w[n - 1] \o t.write[v[n]] /\ s[n] = s[n - 1] + t.size[v[n]]
    /\ Stream!WriteAll(t, v) = w[Len(v)] /\ Stream!SizeOfAll(t, v) = s[Len(v)]

LEMMA SizesExist ==
    ASSUME NEW t, RoundTrips(t), NEW v \in Seq(t.values)
    PROVE  \E s : /\ s \in [0 .. Len(v) -> Nat] /\ s[0] = CountSize
                  /\ \A n \in 1 .. Len(v) : s[n] = s[n - 1] + t.size[v[n]]
                  /\ Stream!SizeOfAll(t, v) = s[Len(v)]
<1> DEFINE L == Len(v)
           V == Nat
           goes == [n \in 1 .. L |-> [x \in V |-> x + t.size[v[n]]]]
           Sum == CHOOSE g : g = [n \in 0 .. L |-> IF n = 0 THEN CountSize
                                                   ELSE g[n - 1] + t.size[v[n]]]
<1>0. L \in Nat /\ CountSize \in V /\ \A n \in 1 .. L : t.size[v[n]] \in Nat
  <2>1. L \in Nat /\ \A n \in 1 .. L : v[n] \in t.values
    BY LenProperties, ElementOfSeq
  <2>2. CountSize \in Nat
    BY ServicesAssumption DEF MessagesTyped
  <2> HIDE DEF L
  <2> QED
    BY <2>1, <2>2, Sized
<1>1. goes \in [1 .. L -> [V -> V]]
  BY <1>0
<1>2. PICK f : Recurs(f, L, V, CountSize, goes)
  <2> HIDE DEF goes, L, V
  <2> QED
    BY <1>0, <1>1, Recursion, Zenon
<1>3. ASSUME NEW n \in 1 .. L
      PROVE  f[n] = f[n - 1] + t.size[v[n]]
  <2>1. f[n - 1] \in V
    <3>1. n - 1 \in 0 .. L
      BY <1>0
    <3> HIDE DEF goes, L, V
    <3> QED
      BY <1>2, <3>1 DEF Recurs
  <2>2. f[n] = goes[n][f[n - 1]]
    BY <1>2 DEF Recurs
  <2> HIDE DEF L
  <2> QED
    BY <2>1, <2>2
<1>4. f = [n \in 0 .. L |-> IF n = 0 THEN CountSize ELSE f[n - 1] + t.size[v[n]]]
  <2>1. f \in [0 .. L -> V] /\ f[0] = CountSize
    BY <1>2 DEF Recurs
  <2>2. \A n \in 0 .. L : n # 0 => n \in 1 .. L
    BY <1>0
  <2> HIDE DEF L, V
  <2>3. \A n \in 0 .. L : f[n] = IF n = 0 THEN CountSize ELSE f[n - 1] + t.size[v[n]]
    BY <1>3, <2>1, <2>2, Zenon
  <2> QED
    BY <2>1, <2>3, Zenon
<1>5. Sum = [n \in 0 .. L |-> IF n = 0 THEN CountSize ELSE Sum[n - 1] + t.size[v[n]]]
  <2> HIDE DEF L
  <2> QED
    BY <1>4
<1>6. Stream!SizeOfAll(t, v) = Sum[L]
  BY DEF Stream!SizeOfAll, Sum
<1> HIDE DEF Sum
<1>7. Sum[0] = CountSize /\ \A n \in 1 .. L : Sum[n] = Sum[n - 1] + t.size[v[n]]
  <2>1. 0 \in 0 .. L /\ \A n \in 1 .. L : n \in 0 .. L /\ n # 0
    BY <1>0
  <2> HIDE DEF L
  <2> QED
    BY <1>5, <2>1, Zenon
<1>8. Sum \in [0 .. L -> Nat]
  <2> DEFINE S == {n \in 0 .. L : Sum[n] \in Nat}
  <2>1. 0 \in S
    BY <1>0, <1>7
  <2>2. ASSUME NEW n \in 0 .. L - 1, n \in S
        PROVE  n + 1 \in S
    <3>1. n + 1 \in 1 .. L /\ n + 1 \in 0 .. L /\ (n + 1) - 1 = n
      BY <1>0
    <3>2. Sum[n + 1] = Sum[n] + t.size[v[n + 1]]
      BY <1>7, <3>1
    <3> HIDE DEF L
    <3> QED
      BY <1>0, <2>2, <3>1, <3>2
  <2>3. 0 .. L \subseteq S
    <3> HIDE DEF S, L
    <3> QED
      BY <1>0, <2>1, <2>2, UpTo
  <2>4. \A n \in 0 .. L : Sum[n] \in Nat
    BY <2>3
  <2> HIDE DEF L
  <2> QED
    BY <1>5, <2>4
<1> QED
  BY <1>6, <1>7, <1>8

LEMMA WritesExist ==
    ASSUME NEW t, RoundTrips(t), NEW v \in Seq(t.values)
    PROVE  \E w : /\ w \in [0 .. Len(v) -> Bytes] /\ w[0] = Stream!WriteCount(CountSize, Len(v))
                  /\ \A n \in 1 .. Len(v) : w[n] = w[n - 1] \o t.write[v[n]]
                  /\ Stream!WriteAll(t, v) = w[Len(v)]
<1> DEFINE L == Len(v)
           V == Bytes
           counted == Stream!WriteCount(CountSize, L)
           goes == [n \in 1 .. L |-> [x \in V |-> x \o t.write[v[n]]]]
           Up == CHOOSE g : g = [n \in 0 .. L |-> IF n = 0 THEN counted
                                                  ELSE g[n - 1] \o t.write[v[n]]]
<1>0. L \in Nat /\ counted \in V /\ \A n \in 1 .. L : t.write[v[n]] \in Bytes
  <2>1. L \in Nat /\ \A n \in 1 .. L : v[n] \in t.values
    BY LenProperties, ElementOfSeq
  <2>2. CountSize \in Nat \ {0}
    BY ServicesAssumption DEF MessagesTyped
  <2> HIDE DEF L
  <2>3. counted \in V
    BY <2>1, <2>2, CountWritten
  <2> QED
    BY <2>1, <2>3, Sized
<1> HIDE DEF counted
<1>1. goes \in [1 .. L -> [V -> V]]
  <2>1. \A n \in 1 .. L, x \in V : x \o t.write[v[n]] \in V
    BY <1>0, Behind
  <2> HIDE DEF V, L
  <2> QED
    BY <2>1
<1>2. PICK f : Recurs(f, L, V, counted, goes)
  <2> HIDE DEF goes, L, V
  <2> QED
    BY <1>0, <1>1, Recursion, Zenon
<1>3. ASSUME NEW n \in 1 .. L
      PROVE  f[n - 1] \in V /\ f[n] = f[n - 1] \o t.write[v[n]]
  <2>1. f[n - 1] \in V
    <3>1. n - 1 \in 0 .. L
      BY <1>0
    <3> HIDE DEF goes, L, V
    <3> QED
      BY <1>2, <3>1 DEF Recurs
  <2>2. f[n] = goes[n][f[n - 1]]
    BY <1>2 DEF Recurs
  <2> HIDE DEF L, V
  <2> QED
    BY <2>1, <2>2
<1>4. f = [n \in 0 .. L |-> IF n = 0 THEN counted ELSE f[n - 1] \o t.write[v[n]]]
  <2>1. f \in [0 .. L -> V] /\ f[0] = counted
    BY <1>2 DEF Recurs
  <2>2. \A n \in 0 .. L : n # 0 => n \in 1 .. L
    BY <1>0
  <2> HIDE DEF L, V
  <2>3. \A n \in 0 .. L : f[n] = IF n = 0 THEN counted ELSE f[n - 1] \o t.write[v[n]]
    BY <1>3, <2>1, <2>2, Zenon
  <2> QED
    BY <2>1, <2>3, Zenon
<1>5. Up = [n \in 0 .. L |-> IF n = 0 THEN counted ELSE Up[n - 1] \o t.write[v[n]]]
  <2> HIDE DEF L, goes
  <2> QED
    BY <1>4, Zenon
<1>6. Stream!WriteAll(t, v) = Up[L]
  BY DEF Stream!WriteAll, Up, counted
<1> HIDE DEF Up
<1>7. Up[0] = counted /\ \A n \in 1 .. L : Up[n] = Up[n - 1] \o t.write[v[n]]
  <2>1. 0 \in 0 .. L /\ \A n \in 1 .. L : n \in 0 .. L /\ n # 0
    BY <1>0
  <2> HIDE DEF L
  <2> QED
    BY <1>5, <2>1, Zenon
<1>8. Up \in [0 .. L -> Bytes]
  <2> DEFINE S == {n \in 0 .. L : Up[n] \in Bytes}
  <2>1. 0 \in S
    BY <1>0, <1>7
  <2>2. ASSUME NEW n \in 0 .. L - 1, n \in S
        PROVE  n + 1 \in S
    <3>1. n + 1 \in 1 .. L /\ n + 1 \in 0 .. L /\ (n + 1) - 1 = n
      BY <1>0
    <3>2. Up[n + 1] = Up[n] \o t.write[v[n + 1]]
      BY <1>7, <3>1
    <3> HIDE DEF L
    <3> QED
      BY <1>0, <2>2, <3>1, <3>2, Behind
  <2>3. 0 .. L \subseteq S
    <3> HIDE DEF S, L
    <3> QED
      BY <1>0, <2>1, <2>2, UpTo
  <2>4. \A n \in 0 .. L : Up[n] \in Bytes
    BY <2>3
  <2> HIDE DEF L
  <2> QED
    BY <1>5, <2>4
<1> QED
  BY <1>6, <1>7, <1>8 DEF counted

LEMMA ElementsExist ==
    ASSUME NEW t, RoundTrips(t), NEW v \in Seq(t.values)
    PROVE  \E w, s : Elements(t, v, w, s)
<1>1. PICK s : /\ s \in [0 .. Len(v) -> Nat] /\ s[0] = CountSize
               /\ \A n \in 1 .. Len(v) : s[n] = s[n - 1] + t.size[v[n]]
               /\ Stream!SizeOfAll(t, v) = s[Len(v)]
  BY SizesExist
<1>2. PICK w : /\ w \in [0 .. Len(v) -> Bytes] /\ w[0] = Stream!WriteCount(CountSize, Len(v))
               /\ \A n \in 1 .. Len(v) : w[n] = w[n - 1] \o t.write[v[n]]
               /\ Stream!WriteAll(t, v) = w[Len(v)]
  BY WritesExist
<1>3. Elements(t, v, w, s)
  BY <1>1, <1>2 DEF Elements
<1> QED
  BY <1>3

(* As many bytes have been written as counted, and what is written of an   *)
(* element stands in its place.                                            *)
LEMMA ElementsSized ==
    ASSUME NEW t, RoundTrips(t), NEW v \in Seq(t.values), NEW w, NEW s, Elements(t, v, w, s)
    PROVE  \A n \in 0 .. Len(v) : w[n] \in Bytes /\ Len(w[n]) = s[n]
<1> DEFINE L == Len(v)
           S == {n \in 0 .. L : Len(w[n]) = s[n]}
<1>0. L \in Nat /\ CountSize \in Nat \ {0} /\ \A n \in 1 .. L : v[n] \in t.values
  BY LenProperties, ElementOfSeq, ServicesAssumption DEF MessagesTyped
<1>1. \A n \in 0 .. L : w[n] \in Bytes
  BY DEF Elements
<1>2. 0 \in S
  <2>1. w[0] = Stream!WriteCount(CountSize, L) /\ s[0] = CountSize
    BY DEF Elements
  <2>2. Len(Stream!WriteCount(CountSize, L)) = CountSize
    <3> HIDE DEF L
    <3> QED
      BY <1>0, CountWritten
  <2> HIDE DEF L
  <2> QED
    BY <1>0, <2>1, <2>2
<1>3. ASSUME NEW n \in 0 .. L - 1, n \in S
      PROVE  n + 1 \in S
  <2>1. n \in 0 .. L /\ n + 1 \in 1 .. L /\ n + 1 \in 0 .. L /\ (n + 1) - 1 = n
    BY <1>0
  <2>2. w[n + 1] = w[n] \o t.write[v[n + 1]] /\ s[n + 1] = s[n] + t.size[v[n + 1]]
    <3> HIDE DEF S
    <3> QED
      BY <2>1, Zenon DEF Elements, L
  <2>3. t.write[v[n + 1]] \in Bytes /\ Len(t.write[v[n + 1]]) = t.size[v[n + 1]]
    <3> HIDE DEF L, S
    <3> QED
      BY <1>0, <2>1, Sized
  <2>4. w[n] \in Bytes /\ Len(w[n]) = s[n]
    <3> HIDE DEF L
    <3> QED
      BY <1>1, <1>3, <2>1
  <2>5. Len(w[n] \o t.write[v[n + 1]]) = Len(w[n]) + Len(t.write[v[n + 1]])
    <3> HIDE DEF L, S
    <3> QED
      BY <2>3, <2>4, Lengths
  <2> HIDE DEF L
  <2> QED
    BY <2>1, <2>2, <2>3, <2>4, <2>5
<1>4. 0 .. L \subseteq S
  <2> HIDE DEF S, L
  <2> QED
    BY <1>0, <1>2, <1>3, UpTo
<1> QED
  BY <1>1, <1>4

(* What has been written of n elements stands before the rest.             *)
Standing(v, w, after) ==
    \A n \in 0 .. Len(v) : \E r \in Bytes : w[Len(v)] \o after = w[n] \o r

LEMMA ElementsAhead ==
    ASSUME NEW t, RoundTrips(t), NEW v \in Seq(t.values), NEW w, NEW s, Elements(t, v, w, s),
           NEW after \in Bytes
    PROVE  Standing(v, w, after)
<1> SUFFICES ASSUME NEW n \in 0 .. Len(v)
             PROVE  \E r \in Bytes : w[Len(v)] \o after = w[n] \o r
  BY DEF Standing
<1> DEFINE L == Len(v)
           given == w[L] \o after
           S == {k \in 0 .. L : \E r \in Bytes : given = w[L - k] \o r}
<1>0. L \in Nat /\ \A k \in 1 .. L : v[k] \in t.values
  BY LenProperties, ElementOfSeq
<1>1. \A k \in 0 .. L : w[k] \in Bytes
  BY DEF Elements
<1>2. 0 \in S
  <2>1. 0 \in 0 .. L /\ L - 0 = L
    BY <1>0
  <2> HIDE DEF L
  <2> QED
    BY <2>1
<1>3. ASSUME NEW k \in 0 .. L - 1, k \in S
      PROVE  k + 1 \in S
  <2> DEFINE m == L - k
  <2>1. k + 1 \in 0 .. L /\ m \in 1 .. L /\ m - 1 \in 0 .. L /\ L - (k + 1) = m - 1
    BY <1>0
  <2>2. PICK r \in Bytes : given = w[m] \o r
    BY <1>3
  <2> HIDE DEF given, S, m
  <2>3. w[m] = w[m - 1] \o t.write[v[m]]
    <3>1. \A j \in 1 .. Len(v) : w[j] = w[j - 1] \o t.write[v[j]]
      BY ONLY Elements(t, v, w, s), Zenon DEF Elements
    <3> QED
      BY <2>1, <3>1 DEF L
  <2> HIDE DEF L
  <2>4. t.write[v[m]] \in Bytes /\ w[m - 1] \in Bytes
    BY <1>0, <1>1, <2>1, Sized
  <2>5. PICK a \in Bytes, b \in Bytes : a = w[m - 1] /\ b = t.write[v[m]]
    BY <2>4
  <2>6. b \o r \in Bytes /\ (a \o b) \o r = a \o (b \o r)
    BY Behind, Joined, Zenon
  <2>7. given = a \o (b \o r)
    BY <2>2, <2>3, <2>5, <2>6
  <2>8. \E x \in Bytes : given = w[L - (k + 1)] \o x
    BY <2>1, <2>5, <2>6, <2>7, Zenon
  <2> QED
    BY <2>1, <2>8 DEF S
<1>4. 0 .. L \subseteq S
  <2> HIDE DEF S, L
  <2> QED
    BY <1>0, <1>2, <1>3, UpTo
<1>5. L - n \in 0 .. L /\ L - (L - n) = n
  BY <1>0
<1>6. L - n \in S
  BY <1>4, <1>5
<1> HIDE DEF given, L
<1>7. \E r \in Bytes : given = w[n] \o r
  BY <1>5, <1>6
<1> QED
  BY <1>7 DEF given, L

(* What is read after a number of elements, and the next of them.          *)
ReadNext(t, unique, given, read) ==
    LET following == t.read[Stream!From(given, read.bytes)]
    IN  Stream!ReadAs(Stream!Inserted(unique, read.value, following.value),
                      read.bytes + following.bytes)

LEMMA InsertedLast ==
    ASSUME NEW S, NEW v \in Seq(S), NEW unique, unique => Stream!Distinct(v), NEW n \in 1 .. Len(v)
    PROVE  Stream!Inserted(unique, SubSeq(v, 1, n - 1), v[n]) = SubSeq(v, 1, n)
<1> DEFINE u == SubSeq(v, 1, n - 1)
<1>1. Len(v) \in Nat /\ \A i \in 1 .. Len(v) : v[i] \in S
  BY LenProperties, ElementOfSeq
<1>2. n - 1 \in Nat /\ \A i \in 1 .. n - 1 : i \in 1 .. Len(v) /\ i # n
  BY <1>1
<1>3. /\ u \in Seq(S) /\ Len(u) = n - 1 /\ DOMAIN u = 1 .. n - 1
      /\ \A i \in 1 .. n - 1 : u[i] = v[i]
  <2>1. u \in Seq(S) /\ Len(u) = n - 1
    BY <1>1, <1>2, SubSeqProperties
  <2>2. \A i \in 1 .. n - 1 : u[i] = v[i]
    BY <1>1, <1>2
  <2> HIDE DEF u
  <2> QED
    BY <2>1, <2>2, LenProperties
<1>4. Append(u, v[n]) = SubSeq(v, 1, n)
  BY <1>1, <1>2
<1> HIDE DEF u
<1>5. DOMAIN v = 1 .. Len(v)
  BY LenProperties
<1>6. unique => ~ \E i \in DOMAIN u : u[i] = v[n]
  BY <1>2, <1>3, <1>5 DEF Stream!Distinct
<1>7. Stream!Inserted(unique, u, v[n]) = SubSeq(v, 1, n)
  BY <1>4, <1>6 DEF Stream!Inserted
<1> QED
  BY <1>7 DEF u

LEMMA ElementsRead ==
    ASSUME NEW t, RoundTrips(t), NEW v \in Seq(t.whole), NEW unique, unique => Stream!Distinct(v),
           NEW w, NEW s, Elements(t, v, w, s), NEW after \in Bytes
    PROVE  Stream!ReadAll(t, unique, w[Len(v)] \o after) = Stream!ReadAs(v, s[Len(v)])
<1> DEFINE L == Len(v)
           given == w[L] \o after
           begun == Stream!ReadAs(<<>>, CountSize)
           f == [n \in 0 .. L |-> Stream!ReadAs(SubSeq(v, 1, n), s[n])]
           Up == CHOOSE g : g = [n \in 0 .. given[1] |->
                                    IF n = 0 THEN begun ELSE ReadNext(t, unique, given, g[n - 1])]
           S == {n \in 0 .. L : Up[n] = f[n]}
<1>0. L \in Nat /\ CountSize \in Nat \ {0} /\ \A n \in 1 .. L : v[n] \in t.whole
  BY LenProperties, ElementOfSeq, ServicesAssumption DEF MessagesTyped
<1>1. v \in Seq(t.values)
  BY SeqMonotonic DEF RoundTrips
<1>2. \A n \in 0 .. L : w[n] \in Bytes /\ Len(w[n]) = s[n]
  BY <1>1, ElementsSized
<1>3. ASSUME NEW n \in 0 .. L PROVE \E r \in Bytes : given = w[n] \o r
  <2>1. Standing(v, w, after)
    BY <1>1, ElementsAhead
  <2> QED
    BY <2>1, Zenon DEF Standing
<1>4. given[1] = L
  <2>0. 0 \in 0 .. L
    BY <1>0
  <2>1. PICK r \in Bytes : given = w[0] \o r
    BY <1>3, <2>0
  <2>2. w[0] = Stream!WriteCount(CountSize, L)
    BY DEF Elements
  <2> HIDE DEF given, L
  <2>3. (Stream!WriteCount(CountSize, L) \o r)[1] = L
    BY <1>0, CountWritten
  <2> QED
    BY <2>1, <2>2, <2>3
<1>5. ASSUME NEW n \in 1 .. L
      PROVE  f[n] = ReadNext(t, unique, given, f[n - 1])
  <2>1. n \in 0 .. L /\ n - 1 \in 0 .. L
    BY <1>0
  <2>2. PICK r \in Bytes : given = w[n] \o r
    BY <1>3, <2>1
  <2>3. w[n] = w[n - 1] \o t.write[v[n]] /\ s[n] = s[n - 1] + t.size[v[n]]
    BY DEF Elements
  <2>4. v[n] \in t.whole /\ v[n] \in t.values
    BY <1>0 DEF RoundTrips
  <2> HIDE DEF given, L
  <2>5. PICK a \in Bytes, b \in Bytes : a = w[n - 1] /\ b = t.write[v[n]] /\ Len(a) = s[n - 1]
    BY <1>2, <2>1, <2>4, Sized
  <2>6. b \o r \in Bytes /\ (a \o b) \o r = a \o (b \o r)
    BY Behind, Joined, Zenon
  <2>7. Stream!From(a \o (b \o r), Len(a)) = b \o r
    BY <2>6, Behind, Zenon
  <2>8. Stream!From(given, s[n - 1]) = b \o r
    BY <2>2, <2>3, <2>5, <2>6, <2>7, Zenon
  <2>9. t.read[b \o r] = Stream!ReadAs(v[n], t.size[v[n]])
    BY <2>4, <2>5 DEF RoundTrips
  <2>10. Stream!Inserted(unique, SubSeq(v, 1, n - 1), v[n]) = SubSeq(v, 1, n)
    BY InsertedLast DEF L
  <2>11. f[n] = Stream!ReadAs(SubSeq(v, 1, n), s[n])
         /\ f[n - 1] = Stream!ReadAs(SubSeq(v, 1, n - 1), s[n - 1])
    BY <2>1
  <2> HIDE DEF f
  <2>12. f[n - 1].value = SubSeq(v, 1, n - 1) /\ f[n - 1].bytes = s[n - 1]
    BY <2>11 DEF Stream!ReadAs
  <2>13. t.read[b \o r].value = v[n] /\ t.read[b \o r].bytes = t.size[v[n]]
    BY <2>9 DEF Stream!ReadAs
  <2> QED
    BY <2>3, <2>8, <2>10, <2>11, <2>12, <2>13 DEF ReadNext
<1>6. f[0] = begun
  <2>1. 0 \in 0 .. L /\ SubSeq(v, 1, 0) = <<>> /\ s[0] = CountSize
    BY <1>0, SubSeqEmpty DEF Elements
  <2> HIDE DEF L
  <2> QED
    BY <2>1
<1> HIDE DEF begun
<1>7. f = [n \in 0 .. given[1] |-> IF n = 0 THEN begun ELSE ReadNext(t, unique, given, f[n - 1])]
  <2>1. \A n \in 0 .. L : n # 0 => n \in 1 .. L
    BY <1>0
  <2> DEFINE g == [n \in 0 .. L |-> f[n]]
  <2>2. f = g
    OBVIOUS
  <2> HIDE DEF L, f, given
  <2>3. \A n \in 0 .. L : f[n] = IF n = 0 THEN begun ELSE ReadNext(t, unique, given, f[n - 1])
    BY <1>5, <1>6, <2>1, Zenon
  <2> QED
    BY <1>4, <2>2, <2>3, Zenon
<1>8. Up = [n \in 0 .. given[1] |-> IF n = 0 THEN begun ELSE ReadNext(t, unique, given, Up[n - 1])]
  <2> HIDE DEF f, given
  <2> QED
    BY <1>7
<1>9. Stream!ReadAll(t, unique, given) = Up[L]
  <2> HIDE DEF given, L
  <2>1. Stream!ReadAll(t, unique, given) = Up[given[1]]
    BY DEF Stream!ReadAll, ReadNext, Up, begun
  <2> QED
    BY <1>4, <2>1
<1> HIDE DEF Up
<1>10. 0 \in S
  <2>1. 0 \in 0 .. L
    BY <1>0
  <2> HIDE DEF f, given, L
  <2>2. Up[0] = begun
    BY <1>4, <1>8, <2>1
  <2> QED
    BY <1>6, <2>1, <2>2
<1>11. ASSUME NEW n \in 0 .. L - 1, n \in S
       PROVE  n + 1 \in S
  <2>1. n + 1 \in 1 .. L /\ n + 1 \in 0 .. L /\ (n + 1) - 1 = n /\ n + 1 # 0
    BY <1>0
  <2> HIDE DEF f, given, L
  <2>2. Up[n] = f[n]
    BY <1>11
  <2>3. Up[n + 1] = ReadNext(t, unique, given, Up[n])
    BY <1>4, <1>8, <2>1
  <2>4. f[n + 1] = ReadNext(t, unique, given, f[n])
    BY <1>5, <2>1
  <2> QED
    BY <2>1, <2>2, <2>3, <2>4
<1>12. L \in S
  <2>1. L \in 0 .. L
    BY <1>0
  <2> HIDE DEF S, L
  <2>2. 0 .. L \subseteq S
    BY <1>0, <1>10, <1>11, UpTo
  <2> QED
    BY <2>1, <2>2
<1>13. f[L] = Stream!ReadAs(v, s[L])
  <2>1. L \in 0 .. L /\ SubSeq(v, 1, L) = v
    BY <1>0, SubSeqFull
  <2> HIDE DEF L
  <2> QED
    BY <2>1
<1> HIDE DEF f, given
<1>14. Stream!ReadAll(t, unique, given) = Stream!ReadAs(v, s[L])
  <2> HIDE DEF L
  <2> QED
    BY <1>9, <1>12, <1>13
<1> QED
  BY <1>14 DEF given, L

LEMMA ContainerRoundTrips ==
    ASSUME NEW t, RoundTrips(t), NEW unique
    PROVE  RoundTrips(Stream!Container(t, unique))
<1> DEFINE c == Stream!Container(t, unique)
           All(S) == {v \in Seq(S) : unique => Stream!Distinct(v)}
<1>1. /\ c.whole = All(t.whole) /\ c.values = All(t.values)
      /\ \A v \in All(t.values) : /\ c.write[v] = Stream!WriteAll(t, v)
                                 /\ c.size[v] = Stream!SizeOfAll(t, v)
      /\ \A given \in Bytes : c.read[given] = Stream!ReadAll(t, unique, given)
  BY DEF Stream!Container, Bytes
<1> HIDE DEF c
<1>2. c.whole \subseteq c.values
  <2>1. \A v \in Seq(t.whole) : v \in Seq(t.values)
    BY SeqMonotonic DEF RoundTrips
  <2> QED
    BY <1>1, <2>1
<1>3. ASSUME NEW v \in c.values
      PROVE  c.write[v] \in Bytes /\ Len(c.write[v]) = c.size[v]
  <2>1. v \in All(t.values) /\ v \in Seq(t.values)
    BY <1>1
  <2>2. PICK w, s : Elements(t, v, w, s)
    BY <2>1, ElementsExist
  <2>3. Len(v) \in 0 .. Len(v)
    BY <2>1, LenProperties
  <2>4. w[Len(v)] \in Bytes /\ Len(w[Len(v)]) = s[Len(v)]
    BY <2>1, <2>2, <2>3, ElementsSized
  <2> HIDE DEF All
  <2> QED
    BY <1>1, <2>1, <2>2, <2>4 DEF Elements
<1>4. ASSUME NEW v \in c.whole, NEW after \in Bytes
      PROVE  c.read[c.write[v] \o after] = Stream!ReadAs(v, c.size[v])
  <2>1. v \in Seq(t.whole) /\ (unique => Stream!Distinct(v))
    BY <1>1
  <2>2. v \in All(t.values) /\ v \in Seq(t.values) /\ v \in c.values
    BY <1>1, <1>2
  <2>3. PICK w, s : Elements(t, v, w, s)
    BY <2>2, ElementsExist
  <2>4. Stream!ReadAll(t, unique, w[Len(v)] \o after) = Stream!ReadAs(v, s[Len(v)])
    BY <2>1, <2>3, ElementsRead
  <2> HIDE DEF All
  <2>5. c.write[v] = w[Len(v)] /\ c.size[v] = s[Len(v)]
    BY <1>1, <2>2, <2>3 DEF Elements
  <2>6. c.write[v] \o after \in Bytes
    BY <1>3, <2>2, Behind
  <2> QED
    BY <1>1, <2>4, <2>5, <2>6
<1>5. RoundTrips(c)
  BY <1>2, <1>3, <1>4 DEF RoundTrips
<1> QED
  BY <1>5 DEF c

SameBefore(f, g, i) == \A j \in 1 .. i - 1 : f[j] = g[j]

LEMMA TraitsAgree ==
    ASSUME NEW types, Stream!Declared(types), NEW i \in DOMAIN types, NEW f, NEW g,
           SameBefore(f, g, i)
    PROVE  Stream!TraitsOf(types[i], f) = Stream!TraitsOf(types[i], g)
<1>1. CASE types[i] \in {<<"empty">>, <<"text">>}
  BY <1>1 DEF Stream!TraitsOf
<1>2. CASE types[i][1] = "pod"
  BY <1>2 DEF Stream!TraitsOf
<1>3. CASE types[i][1] = "container" /\ types[i][2] \in 1 .. i - 1
  BY <1>3 DEF Stream!TraitsOf, SameBefore
<1>4. CASE types[i][1] = "set" /\ types[i][2] \in 1 .. i - 1
  BY <1>4 DEF Stream!TraitsOf, SameBefore
<1>5. CASE types[i][1] = "pair" /\ types[i][2] \in 1 .. i - 1 /\ types[i][3] \in 1 .. i - 1
  BY <1>5 DEF Stream!TraitsOf, SameBefore
<1> QED
  BY <1>1, <1>2, <1>3, <1>4, <1>5 DEF Stream!Declared

LEMMA TraitsRoundTrip ==
    ASSUME NEW types, Stream!Declared(types), NEW i \in DOMAIN types, NEW f,
           \A j \in 1 .. i - 1 : RoundTrips(f[j])
    PROVE  RoundTrips(Stream!TraitsOf(types[i], f))
<1>1. CASE types[i] = <<"empty">>
  BY <1>1, EmptyRoundTrips DEF Stream!TraitsOf
<1>2. CASE types[i] = <<"text">>
  BY <1>2, TextRoundTrips DEF Stream!TraitsOf
<1>3. CASE types[i][1] = "pod" /\ types[i][2] \in Nat \ {0}
  BY <1>3, PodRoundTrips DEF Stream!TraitsOf
<1>4. CASE types[i][1] \in {"container", "set"} /\ types[i][2] \in 1 .. i - 1
  BY <1>4, ContainerRoundTrips DEF Stream!TraitsOf
<1>5. CASE types[i][1] = "pair" /\ types[i][2] \in 1 .. i - 1 /\ types[i][3] \in 1 .. i - 1
  BY <1>5, PairRoundTrips DEF Stream!TraitsOf
<1> QED
  BY <1>1, <1>2, <1>3, <1>4, <1>5 DEF Stream!Declared

(* The traits of all types that are declared are defined by those before.  *)
LEMMA TraitsExist ==
    ASSUME NEW types, Stream!Declared(types)
    PROVE  \E f : f = [i \in DOMAIN types |-> Stream!TraitsOf(types[i], f)]
<1> DEFINE L == Len(types)
           Right(f, n) == f = [i \in 1 .. n |-> Stream!TraitsOf(types[i], f)]
           S == {n \in 0 .. L : \E f : Right(f, n)}
<1>0. L \in Nat /\ DOMAIN types = 1 .. L
  BY DEF Stream!Declared
<1> HIDE DEF L
<1>1. 0 \in S
  <2> DEFINE f == [i \in 1 .. 0 |-> 0]
  <2>1. Right(f, 0)
    OBVIOUS
  <2>2. 0 \in 0 .. L
    BY <1>0
  <2> HIDE DEF f, Right
  <2> QED
    BY <2>1, <2>2
<1>2. ASSUME NEW n \in 0 .. L - 1, n \in S
      PROVE  n + 1 \in S
  <2>1. PICK f : Right(f, n)
    <3> HIDE DEF Right
    <3> QED
      BY <1>2
  <2> DEFINE g == [i \in 1 .. n + 1 |-> Stream!TraitsOf(types[i], f)]
  <2>2. n + 1 \in 0 .. L /\ \A i \in 1 .. n + 1 : i \in 1 .. L
    BY <1>0
  <2>3. \A i \in 1 .. n : f[i] = Stream!TraitsOf(types[i], f)
    BY <2>1
  <2>4. \A i \in 1 .. n + 1 : g[i] = Stream!TraitsOf(types[i], f)
    OBVIOUS
  <2> HIDE DEF Right
  <2>5. ASSUME NEW i \in 1 .. n + 1
        PROVE  g[i] = Stream!TraitsOf(types[i], g)
    <3>1. \A j \in 1 .. i - 1 : j \in 1 .. n /\ j \in 1 .. n + 1
      OBVIOUS
    <3> HIDE DEF g
    <3>2. SameBefore(f, g, i)
      BY <2>3, <2>4, <3>1 DEF SameBefore
    <3>0. i \in DOMAIN types
      BY <1>0, <2>2
    <3>3. Stream!TraitsOf(types[i], f) = Stream!TraitsOf(types[i], g)
      BY <3>0, <3>2, TraitsAgree
    <3> QED
      BY <2>4, <3>3
  <2>6. g = [i \in 1 .. n + 1 |-> g[i]]
    OBVIOUS
  <2> HIDE DEF g
  <2>7. Right(g, n + 1)
    BY <2>5, <2>6, Zenon DEF Right
  <2> QED
    BY <2>2, <2>7
<1>3. L \in S
  <2> HIDE DEF S
  <2>1. 0 .. L \subseteq S
    BY <1>0, <1>1, <1>2, UpTo
  <2>2. L \in 0 .. L
    BY <1>0
  <2> QED
    BY <2>1, <2>2
<1> QED
  BY <1>0, <1>3

(* Whatever type is declared, its traits read what they write.             *)
LEMMA AllRoundTrip ==
    ASSUME NEW types, Stream!Declared(types)
    PROVE  RoundTrips(Stream!Traits(types))
<1> DEFINE L == Len(types)
           Of == CHOOSE f : f = [i \in DOMAIN types |-> Stream!TraitsOf(types[i], f)]
           S == {n \in 0 .. L : \A i \in 1 .. n : RoundTrips(Of[i])}
<1>0. L \in Nat \ {0} /\ DOMAIN types = 1 .. L
  BY DEF Stream!Declared
<1>1. Of = [i \in DOMAIN types |-> Stream!TraitsOf(types[i], Of)]
  BY TraitsExist
<1>2. Stream!Traits(types) = Of[L]
  BY DEF Stream!Traits, Of
<1> HIDE DEF Of, L
<1>3. \A i \in 1 .. L : Of[i] = Stream!TraitsOf(types[i], Of)
  BY <1>0, <1>1, Zenon
<1>4. 0 \in S
  BY <1>0
<1>5. ASSUME NEW n \in 0 .. L - 1, n \in S
      PROVE  n + 1 \in S
  <2>1. n + 1 \in 1 .. L /\ n + 1 \in 0 .. L /\ (n + 1) - 1 = n
    BY <1>0
  <2>2. \A i \in 1 .. n : RoundTrips(Of[i])
    BY <1>5
  <2>3. RoundTrips(Stream!TraitsOf(types[n + 1], Of))
    BY <1>0, <2>1, <2>2, TraitsRoundTrip
  <2>4. RoundTrips(Of[n + 1])
    BY <1>3, <2>1, <2>3
  <2>5. \A i \in 1 .. n + 1 : i \in 1 .. n \/ i = n + 1
    OBVIOUS
  <2>6. \A i \in 1 .. n + 1 : RoundTrips(Of[i])
    BY <2>2, <2>4, <2>5
  <2> QED
    BY <2>1, <2>6
<1>6. 0 .. L \subseteq S
  <2> HIDE DEF S
  <2> QED
    BY <1>0, <1>4, <1>5, UpTo
<1>7. L \in 0 .. L /\ L \in 1 .. L
  BY <1>0
<1> QED
  BY <1>2, <1>6, <1>7

(* The message that was written last is at the front of the buffer, and    *)
(* what has arrived was read there.                                        *)
StreamInv ==
    /\ bytes \in Bytes
    /\ message # Stream!Nothing =>
           /\ Stream!Sendable(message)
           /\ \E after \in Bytes : bytes = Stream!Written(message) \o after
    /\ arrived # Stream!Nothing =>
           message # Stream!Nothing /\ arrived = <<Stream!Traits(message[1]).read[bytes]>>

LEMMA StreamInit == Stream!StreamInit => StreamInv
BY DEF Stream!StreamInit, StreamInv, Bytes

LEMMA FromBytes ==
    ASSUME NEW b \in Bytes, NEW n \in Nat PROVE Stream!From(b, n) \in Bytes
<1>1. Len(b) \in Nat /\ \A i \in n + 1 .. Len(b) : b[i] \in Nat
  BY LenProperties, ElementOfSeq DEF Bytes
<1> QED
  BY <1>1, SubSeqProperties DEF Stream!From, Bytes

LEMMA WrittenSized ==
    ASSUME NEW m, Stream!Sendable(m)
    PROVE  /\ Stream!Written(m) \in Bytes
           /\ Len(Stream!Written(m)) = Stream!Size(m) /\ Len(Stream!Written(m)) \in Nat
<1> DEFINE t == Stream!Traits(m[1])
<1>1. RoundTrips(t) /\ m[2] \in t.values
  BY AllRoundTrip DEF Stream!Sendable
<1>2. Stream!Written(m) = t.write[m[2]] /\ Stream!Size(m) = t.size[m[2]]
  BY DEF Stream!Written, Stream!Size
<1> HIDE DEF t
<1> QED
  BY <1>1, <1>2, Sized

LEMMA StreamStep == StreamInv /\ [Stream!StreamNext]_streamVars => StreamInv'
<1> SUFFICES ASSUME StreamInv, [Stream!StreamNext]_streamVars PROVE StreamInv'
  OBVIOUS
<1>1. ASSUME NEW m \in Messages, Stream!StreamWrite(m) PROVE StreamInv'
  <2>1. Stream!Sendable(m)
    BY ServicesAssumption DEF MessagesTyped
  <2>2. Stream!Written(m) \in Bytes /\ Len(Stream!Written(m)) \in Nat
    BY <2>1, WrittenSized
  <2>3. PICK after \in Bytes : after = Stream!From(bytes, Len(Stream!Written(m)))
    BY <2>2, FromBytes DEF StreamInv
  <2>4. message' = m /\ bytes' = Stream!Written(m) \o after /\ arrived' = Stream!Nothing
    BY <1>1, <2>3 DEF Stream!StreamWrite
  <2>5. bytes' \in Bytes
    BY <2>2, <2>4, Behind
  <2> QED
    BY <2>1, <2>4, <2>5 DEF StreamInv
<1>2. CASE Stream!StreamRead
  BY <1>2 DEF Stream!StreamRead, StreamInv
<1>3. CASE UNCHANGED streamVars
  BY <1>3 DEF streamVars, StreamInv
<1> QED
  BY <1>1, <1>2, <1>3 DEF Stream!StreamNext

LEMMA StreamArrives == StreamInv => Stream!ArrivesAsSent
<1> SUFFICES ASSUME StreamInv, message # Stream!Nothing
             PROVE  /\ Len(Stream!Written(message)) = Stream!Size(message)
                    /\ arrived # Stream!Nothing /\ message[2] \in Stream!Traits(message[1]).whole =>
                           arrived = <<Stream!ReadAs(message[2], Stream!Size(message))>>
  BY DEF Stream!ArrivesAsSent, Stream!SendJumbo
<1> DEFINE t == Stream!Traits(message[1])
<1>1. Stream!Sendable(message) /\ RoundTrips(t)
  BY AllRoundTrip DEF StreamInv, Stream!Sendable
<1>2. Len(Stream!Written(message)) = Stream!Size(message)
  BY <1>1, WrittenSized
<1>3. ASSUME arrived # Stream!Nothing, message[2] \in t.whole
      PROVE  arrived = <<Stream!ReadAs(message[2], Stream!Size(message))>>
  <2>1. PICK after \in Bytes : bytes = Stream!Written(message) \o after
    BY DEF StreamInv
  <2>2. Stream!Written(message) = t.write[message[2]] /\ Stream!Size(message) = t.size[message[2]]
    BY DEF Stream!Written, Stream!Size
  <2>3. arrived = <<t.read[bytes]>>
    BY <1>3 DEF StreamInv
  <2> HIDE DEF t
  <2>4. t.read[t.write[message[2]] \o after] = Stream!ReadAs(message[2], t.size[message[2]])
    BY <1>1, <1>3 DEF RoundTrips
  <2> QED
    BY <2>1, <2>2, <2>3, <2>4
<1> QED
  BY <1>2, <1>3

(* What is written in a buffer is read as it was: for messages of every    *)
(* type that is declared, and whatever earlier ones have left behind.      *)
THEOREM StreamsArrive == StreamSpec => []Stream!ArrivesAsSent
<1>1. StreamSpec => []StreamInv
  BY StreamInit, StreamStep, PTL DEF StreamSpec
<1> QED
  BY <1>1, StreamArrives, PTL

-----------------------------------------------------------------------------
(* What is sent over a socket is received whole and in no part twice, poll *)
(* tells what is so, the ring of a signal is never broken, a call reaches  *)
(* each slot that stays connected, and a message is read as it was: in     *)
(* io/socket.cpp, io/poll.cpp, utility/signal.hpp and ipc/traits*.hpp.     *)
THEOREM DeliveriesAreRight == SocketsSpec /\ SignalSpec /\ StreamSpec => []DeliveriesRight
<1>1. SocketsSpec => []SocketsInv
  BY SocketsInit, SocketsStep, PTL DEF SocketsSpec
<1>2. SignalSpec => []SignalInv
  BY SignalInit, SignalStep, PTL DEF SignalSpec
<1>3. SocketsInv /\ SignalInv /\ Stream!ArrivesAsSent => DeliveriesRight
  BY RingIsWhole, CallIsWhole DEF SocketsInv, DeliveriesRight
<1> QED
  BY <1>1, <1>2, <1>3, StreamsArrive, PTL
=============================================================================
