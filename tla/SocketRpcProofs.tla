-------------------------- MODULE SocketRpcProofs ---------------------------
(***************************************************************************)
(* Proofs about SocketRpc, for any number of calls and of waiting threads: *)
(* calls travel in order and are neither lost nor doubled, so that counting *)
(* is enough to give every reply to the call it answers.                   *)
(***************************************************************************)
EXTENDS SocketRpc, TLAPS

(* What the reader has taken from the stream of replies. *)
Taken == in + (IF reader = "match" THEN 1 ELSE 0)

(* What the servlet has answered, and what it has begun. *)
Answered == Taken + Len(replies)
Begun == Answered + (IF servlet = "execute" THEN 1 ELSE 0)

(* A call that is being written has its number already. *)
Unwritten == IF pc[Owner] = "write" THEN 1 ELSE 0

(* The numbers of the calls on their way are those that follow each other, *)
(* from the next to be counted to the last one made.                       *)
OrderInv ==
    /\ reader = "match" => body = in + 1
    /\ \A k \in 1 .. Len(replies) : replies[k] = Taken + k
    /\ servlet = "execute" => job = Answered + 1
    /\ servlet # "exit" => \A k \in 1 .. Len(requests) : requests[k] = Begun + k
    /\ servlet # "exit" => Begun + Len(requests) + Unwritten = out
    /\ Answered + Unwritten <= out

(* A thread that writes, or waits, does so for a call that has been made;  *)
(* the last call is the destructor's.                                      *)
UserInv ==
    /\ pc[Owner] = "write" \/ pc[Owner] = "flush" => out \in Calls
    /\ \A u \in Users : pc[u] \in {"asleep", "awake"} => target[u] \in Calls
    /\ ~ closing => out <= Limit

IInv == TypeOK /\ UserInv /\ OrderInv /\ RightReply

-----------------------------------------------------------------------------
(* A call's number is also a value of the counters, where 0 stands for none. *)
LEMMA CallIsCount ==
    ASSUME NEW n \in Calls
    PROVE  n \in 0 .. Limit + 1 /\ n \in 0 .. Down /\ n # NoReply /\ n \in Nat
  BY LimitAssumption DEF Calls, Down, NoReply

(* The places of the calls on their way are natural numbers. *)
LEMMA PlacesAreNat ==
    ASSUME TypeOK
    PROVE  /\ in \in Nat /\ out \in Nat /\ job \in Nat
           /\ Len(requests) \in Nat /\ Len(replies) \in Nat
           /\ Taken \in Nat /\ Answered \in Nat /\ Begun \in Nat /\ Unwritten \in Nat
<1>1. in \in Nat /\ out \in Nat /\ job \in Nat
  BY LimitAssumption DEF TypeOK
<1>2. Len(requests) \in Nat /\ Len(replies) \in Nat
  BY DEF TypeOK
<1>3. Taken \in Nat /\ Unwritten \in Nat
  BY <1>1 DEF Taken, Unwritten
<1>4. Answered \in Nat
  BY <1>2, <1>3 DEF Answered
<1>5. Begun \in Nat
  BY <1>4 DEF Begun
<1> QED
  BY <1>1, <1>2, <1>3, <1>4, <1>5

(* The invariant holds before the first call. *)
LEMMA InitIInv == Init => IInv
<1> SUFFICES ASSUME Init PROVE IInv
  OBVIOUS
<1> USE LimitAssumption DEF Init
<1>1. TypeOK
  <2>1. <<>> \in Seq(Calls)
    OBVIOUS
  <2>2. 0 \in 0 .. Limit + 1 /\ 0 \in 0 .. Down
    BY DEF Down
  <2> QED
    BY <2>1, <2>2 DEF TypeOK, NoReply
<1>2. UserInv
  BY DEF UserInv, Users
<1>3. OrderInv
  BY DEF OrderInv, Answered, Begun, Taken, Unwritten, Users
<1>4. RightReply
  BY DEF RightReply, NoReply
<1> QED
  BY <1>1, <1>2, <1>3, <1>4 DEF IInv

(* Every step keeps every variable in its range. *)
LEMMA NextTypeOK == IInv /\ [Next]_vars => TypeOK'
<1> SUFFICES ASSUME TypeOK, UserInv, OrderInv, [Next]_vars PROVE TypeOK'
  BY DEF IInv
<1> USE DEF TypeOK, Goto, counters, results, users, readerVars, serverVars
<1>0. Owner \in Users
  BY DEF Users
<1>1. ASSUME NEW n \in Calls, NEW u \in Users,
             map' = map \ {n}, got' = [got EXCEPT ![n] = data[n]],
             \/ result' = [result EXCEPT ![n] = "error"]
             \/ result' = [result EXCEPT ![n] = "done"],
             \E l \in {"crashed", "shutdown", "idle"} : Goto(u, l),
             UNCHANGED <<in, out, notify, data, target, closing, woken, readerVars,
                         requests, replies, serverVars, shut>>
      PROVE  TypeOK'
  BY <1>1
<1>2. ASSUME NEW n \in Calls, NEW u \in Users, Take(u, n),
             UNCHANGED <<in, out, closing, woken, readerVars, requests, replies, serverVars, shut>>
      PROVE  TypeOK'
  BY <1>1, <1>2, Zenon DEF Take, After
<1>3. ASSUME NEW u \in Users, Throw(u),
             UNCHANGED <<in, out, closing, woken, readerVars, requests, replies, serverVars, shut>>
      PROVE  TypeOK'
  BY <1>3 DEF Throw, Fails
<1>4. ASSUME Insert, out <= Limit
      PROVE  /\ out' \in Calls /\ out' \in 0 .. Limit + 1
             /\ map' \subseteq Calls
             /\ pc' \in [Users -> {"idle", "write", "asleep", "awake", "flush",
                                   "shutdown", "join", "closed", "crashed"}]
  BY <1>0, <1>4, LimitAssumption DEF Insert, Calls
<1>5. CASE Call
  BY <1>4, <1>5, LimitAssumption DEF Call
<1>6. CASE Close
  <2>1. CASE Insert
    BY <1>4, <1>6, <2>1 DEF Close, UserInv
  <2>2. CASE ~ Insert
    BY <1>0, <1>6, <2>2 DEF Close
  <2> QED
    BY <2>1, <2>2
<1>7. ASSUME NEW n \in Calls, Drop(n)
      PROVE  TypeOK'
  BY <1>7 DEF Drop
<1>8. ASSUME NEW n \in Calls, NEW u \in Users, Wait(u, n)
      PROVE  TypeOK'
  <2>1. CASE notify = Down
    BY <1>3, <1>8, <2>1 DEF Wait
  <2>2. CASE notify # Down /\ n > in
    BY <1>8, <2>2, CallIsCount DEF Wait
  <2>3. CASE notify # Down /\ ~ n > in
    BY <1>2, <1>8, <2>3 DEF Wait
  <2> QED
    BY <2>1, <2>2, <2>3
<1>9. ASSUME NEW u \in Users, Awake(u)
      PROVE  TypeOK'
  <2>1. target[u] \in Calls
    BY <1>9 DEF Awake, UserInv
  <2>2. CASE notify = Down
    BY <1>3, <1>9, <2>2 DEF Awake
  <2>3. CASE notify # Down /\ notify # target[u]
    BY <1>9, <2>3 DEF Awake
  <2>4. CASE notify # Down /\ notify = target[u]
    BY <1>2, <1>9, <2>1, <2>4 DEF Awake
  <2> QED
    BY <2>2, <2>3, <2>4
<1>10. CASE Write
  <2>1. out \in Calls
    BY <1>10 DEF Write, UserInv
  <2>2. requests' \in Seq(Calls)
    BY <1>10, <2>1 DEF Write
  <2> QED
    BY <1>0, <1>10, <2>1, <2>2 DEF Write
<1>11. CASE WriteFails
  BY <1>0, <1>11 DEF WriteFails
<1>12. CASE Shutdown
  BY <1>0, <1>12 DEF Shutdown
<1>13. CASE Join
  BY <1>0, <1>13 DEF Join
<1>14. ASSUME NEW u \in Users, SpuriousWakeup(u)
       PROVE  TypeOK'
  BY <1>14 DEF SpuriousWakeup, UserInv
<1>15. CASE Receive
  <2>1. Head(replies) \in Calls /\ Tail(replies) \in Seq(Calls)
    BY <1>15 DEF Receive
  <2>2. Head(replies) \in 0 .. Limit + 1
    BY <2>1, CallIsCount
  <2> QED
    BY <1>15, <2>1, <2>2 DEF Receive
<1>16. CASE Eof
  BY <1>16 DEF Eof
<1>17. CASE Match
  <2>1. in + 1 <= out
    BY <1>17, LimitAssumption DEF Match, OrderInv, Answered, Taken, Unwritten
  <2>2. in + 1 \in 0 .. Limit + 1
    BY <2>1, LimitAssumption
  <2> QED
    BY <1>17, <2>2 DEF Match
<1>18. ASSUME NotifyOne
       PROVE  pc' \in [Users -> {"idle", "write", "asleep", "awake", "flush",
                                "shutdown", "join", "closed", "crashed"}]
  BY <1>18 DEF NotifyOne
<1>19. CASE Signal
  BY <1>18, <1>19 DEF Signal
<1>20. CASE SetError
  BY <1>20, LimitAssumption DEF SetError, Down
<1>21. CASE Alarm
  BY <1>18, <1>21 DEF Alarm
<1>22. CASE ReadRequest
  <2>1. Head(requests) \in Calls /\ Tail(requests) \in Seq(Calls)
    BY <1>22 DEF ReadRequest
  <2>2. Head(requests) \in 0 .. Limit + 1
    BY <2>1, CallIsCount
  <2> QED
    BY <1>22, <2>1, <2>2 DEF ReadRequest
<1>23. CASE WriteReply
  <2>1. CASE shut
    BY <1>23, <2>1 DEF WriteReply
  <2>2. CASE ~ shut
    <3>1. job \in Calls
      BY <1>23, LimitAssumption
      DEF WriteReply, OrderInv, Begun, Answered, Taken, Unwritten, Calls
    <3>2. replies' = Append(replies, job)
      BY <1>23, <2>2 DEF WriteReply
    <3>3. replies' \in Seq(Calls)
      BY <3>1, <3>2
    <3> QED
      BY <1>23, <2>2, <3>3 DEF WriteReply
  <2> QED
    BY <2>1, <2>2
<1>24. CASE EndOfRequests
  BY <1>24 DEF EndOfRequests
<1>25. CASE ServerDies
  <2>1. PICK n \in 0 .. Len(replies) : replies' = SubSeq(replies, 1, n)
    BY <1>25 DEF ServerDies
  <2>2. replies' \in Seq(Calls)
    BY <2>1
  <2> QED
    BY <1>25, <2>2 DEF ServerDies
<1>26. CASE UNCHANGED vars
  BY <1>26 DEF vars
<1>27. out \in Calls \/ ~ (pc[Owner] = "flush")
  BY DEF UserInv
<1> QED
  BY <1>0, <1>5, <1>6, <1>7, <1>8, <1>9, <1>10, <1>11, <1>12, <1>13, <1>14, <1>15,
     <1>16, <1>17, <1>19, <1>20, <1>21, <1>22, <1>23, <1>24, <1>25, <1>26, <1>27
  DEF Next, UserStep, ReaderStep, ServletStep

(* A thread that writes or waits goes on to do so for the same call. *)
LEMMA NextUserInv == IInv /\ [Next]_vars => UserInv'
<1> SUFFICES ASSUME TypeOK, UserInv, [Next]_vars PROVE UserInv'
  BY DEF IInv
<1> USE DEF TypeOK, UserInv, Goto, counters, results, users, readerVars, serverVars
<1>0. Owner \in Users
  BY DEF Users
<1>1. ASSUME NEW u \in Users, NEW n \in Calls, Take(u, n),
             UNCHANGED <<out, closing, target>>
      PROVE  UserInv'
  <2>1. pc' = [pc EXCEPT ![u] = After(u, n)]
    BY <1>1 DEF Take
  <2>2. After(u, n) \in {"crashed", "shutdown", "idle"}
    BY DEF After
  <2> HIDE DEF Goto
  <2> QED
    BY <1>0, <1>1, <2>1, <2>2
<1>2. ASSUME NEW u \in Users, Throw(u), UNCHANGED <<out, closing, target>>
      PROVE  UserInv'
  BY <1>0, <1>2 DEF Throw, Fails
<1>3. ASSUME Insert, out <= Limit
      PROVE  out' \in Calls
  BY <1>3, LimitAssumption DEF Insert, Calls
<1>4. CASE Call
  BY <1>0, <1>3, <1>4, LimitAssumption DEF Call, Insert
<1>5. CASE Close
  <2>1. CASE Insert
    BY <1>0, <1>3, <1>5, <2>1 DEF Close, Insert
  <2>2. CASE ~ Insert
    BY <1>0, <1>5, <2>2 DEF Close
  <2> QED
    BY <2>1, <2>2
<1>6. ASSUME NEW n \in Calls, Drop(n)
      PROVE  UserInv'
  BY <1>6 DEF Drop
<1>7. ASSUME NEW n \in Calls, NEW u \in Users, Wait(u, n)
      PROVE  UserInv'
  <2>1. CASE notify = Down
    BY <1>2, <1>7, <2>1 DEF Wait, Throw
  <2>2. CASE notify # Down /\ n > in
    BY <1>0, <1>7, <2>2 DEF Wait
  <2>3. CASE notify # Down /\ ~ n > in
    BY <1>1, <1>7, <2>3 DEF Wait, Take
  <2> QED
    BY <2>1, <2>2, <2>3
<1>8. ASSUME NEW u \in Users, Awake(u)
      PROVE  UserInv'
  <2>1. target[u] \in Calls
    BY <1>8 DEF Awake
  <2>2. CASE notify = Down
    BY <1>2, <1>8, <2>2 DEF Awake, Throw
  <2>3. CASE notify # Down /\ notify # target[u]
    BY <1>0, <1>8, <2>1, <2>3 DEF Awake
  <2>4. CASE notify # Down /\ notify = target[u]
    BY <1>1, <1>8, <2>1, <2>4 DEF Awake, Take
  <2> QED
    BY <2>2, <2>3, <2>4
<1>9. CASE Write
  BY <1>0, <1>9 DEF Write
<1>10. CASE WriteFails \/ Shutdown \/ Join
  BY <1>0, <1>10 DEF WriteFails, Shutdown, Join
<1>11. ASSUME NEW u \in Users, SpuriousWakeup(u)
       PROVE  UserInv'
  BY <1>0, <1>11 DEF SpuriousWakeup
<1>12. CASE Signal \/ Alarm
  BY <1>0, <1>12 DEF Signal, Alarm, NotifyOne
<1>13. CASE Receive \/ Eof \/ Match \/ SetError
  BY <1>13 DEF Receive, Eof, Match, SetError
<1>14. CASE ServletStep \/ ServerDies
  BY <1>14 DEF ServletStep, ReadRequest, WriteReply, EndOfRequests, ServerDies
<1>15. CASE UNCHANGED vars
  BY <1>15 DEF vars
<1> QED
  BY <1>4, <1>5, <1>6, <1>7, <1>8, <1>9, <1>10, <1>11, <1>12, <1>13, <1>14, <1>15
  DEF Next, UserStep, ReaderStep

(* What a step of the user threads must not do to the calls on their way:  *)
(* nothing, unless it is one of the steps that make or write a call.       *)
LEMMA OrderFramed ==
    ASSUME OrderInv,
           UNCHANGED <<in, out, readerVars, requests, replies, serverVars, Unwritten>>
    PROVE  OrderInv'
  BY DEF OrderInv, Begun, Answered, Taken, readerVars, serverVars

(* Only a call that is being written, or about to be, concerns the streams. *)
LEMMA OthersWrite ==
    ASSUME TypeOK, NEW u \in Users, NEW l,
           pc[u] # "write", l # "write", pc' = [pc EXCEPT ![u] = l]
    PROVE  Unwritten' = Unwritten
  BY DEF TypeOK, Unwritten, Users

(* Every step leaves the calls on their way in order and complete. *)
LEMMA NextOrderInv == IInv /\ [Next]_vars => OrderInv'
<1> SUFFICES ASSUME TypeOK, UserInv, OrderInv, [Next]_vars PROVE OrderInv'
  BY DEF IInv
<1> USE DEF Goto, counters, results, users, readerVars, serverVars
<1>0. Owner \in Users
  BY DEF Users
<1>1. ASSUME Insert, pc[Owner] # "write",
             UNCHANGED <<in, readerVars, requests, replies, serverVars>>
      PROVE  OrderInv'
  <2>1. Unwritten = 0 /\ Unwritten' = 1 /\ out' = out + 1 /\ out \in Nat
    BY <1>0, <1>1, LimitAssumption DEF Insert, Unwritten, TypeOK
  <2>2. Taken \in Nat /\ Answered \in Nat /\ Begun \in Nat
    BY PlacesAreNat
  <2>3. UNCHANGED <<Taken, Answered, Begun, reader, body, requests, replies, servlet, job>>
    BY <1>1 DEF Begun, Answered, Taken
  <2>4. Len(requests) \in Nat
    BY DEF TypeOK
  <2> HIDE DEF Insert
  <2> QED
    BY <1>1, <2>1, <2>2, <2>3, <2>4 DEF OrderInv
<1>2. CASE Call
  BY <1>1, <1>2 DEF Call
<1>3. CASE Close
  <2>1. CASE Insert
    BY <1>1, <1>3, <2>1 DEF Close
  <2>2. CASE ~ Insert
    <3>1. PICK l \in {"join", "shutdown"} : Goto(Owner, l)
      BY <1>3, <2>2 DEF Close
    <3>2. Unwritten' = Unwritten
      BY <1>0, <1>3, <3>1, OthersWrite DEF Close
    <3>3. UNCHANGED out
      BY <1>3, <2>2 DEF Close
    <3> QED
      BY <1>3, <3>2, <3>3, OrderFramed DEF Close
  <2> QED
    BY <2>1, <2>2
<1>4. ASSUME NEW n \in Calls, Drop(n)
      PROVE  OrderInv'
  BY <1>4, OrderFramed DEF Drop, Unwritten
<1>5. ASSUME NEW u \in Users, pc[u] \in {"idle", "flush", "awake", "asleep", "shutdown", "join"},
             \E l \in {"crashed", "shutdown", "idle", "join", "asleep", "awake", "closed"} : Goto(u, l),
             UNCHANGED <<in, out, readerVars, requests, replies, serverVars>>
      PROVE  OrderInv'
  <2>1. PICK l \in {"crashed", "shutdown", "idle", "join", "asleep", "awake", "closed"} : Goto(u, l)
    BY <1>5
  <2>2. Unwritten' = Unwritten
    BY <1>5, <2>1, OthersWrite
  <2> QED
    BY <1>5, <2>2, OrderFramed
<1>6. ASSUME NEW n \in Calls, NEW u \in Users, Wait(u, n)
      PROVE  OrderInv'
  <2>1. \E l \in {"crashed", "shutdown", "idle", "join", "asleep"} : Goto(u, l)
    BY <1>6 DEF Wait, Throw, Take, Fails, After
  <2> HIDE DEF Goto
  <2> QED
    BY <1>5, <1>6, <2>1 DEF Wait
<1>7. ASSUME NEW u \in Users, Awake(u)
      PROVE  OrderInv'
  <2>1. \E l \in {"crashed", "shutdown", "idle", "join", "asleep"} : Goto(u, l)
    BY <1>7 DEF Awake, Throw, Take, Fails, After
  <2> HIDE DEF Goto
  <2> QED
    BY <1>5, <1>7, <2>1 DEF Awake
<1>8. CASE Write
  <2>1. Unwritten = 1 /\ Unwritten' = 0
    BY <1>0, <1>8 DEF Write, Unwritten, TypeOK
  <2>2. /\ Taken \in Nat /\ Answered \in Nat /\ Begun \in Nat
        /\ Taken' = Taken /\ Answered' = Answered /\ Begun' = Begun
    <3>1. Taken \in Nat /\ Answered \in Nat /\ Begun \in Nat
      BY PlacesAreNat
    <3>2. UNCHANGED <<in, reader, replies, servlet>>
      BY <1>8 DEF Write
    <3> QED
      BY <3>1, <3>2 DEF Taken, Answered, Begun
  <2>3. CASE servlet # "exit"
    <3>1. requests' = Append(requests, out) /\ out = Begun + Len(requests) + 1
      BY <1>8, <2>1, <2>2, <2>3 DEF Write, OrderInv, TypeOK
    <3>2. requests \in Seq(Calls)
      BY DEF TypeOK
    <3>3. \A k \in 1 .. Len(requests') : requests'[k] = Begun + k
      BY <2>2, <2>3, <3>1, <3>2 DEF OrderInv
    <3>4. Len(requests') = Len(requests) + 1 /\ Len(requests) \in Nat
      BY <3>1, <3>2
    <3>5. Begun' + Len(requests') + Unwritten' = out /\ out' = out
      BY <1>8, <2>1, <2>2, <3>1, <3>4 DEF Write
    <3>6. Answered' + Unwritten' <= out'
      BY <2>1, <2>2, <3>5, LimitAssumption DEF OrderInv, TypeOK
    <3> QED
      BY <1>8, <2>2, <3>3, <3>5, <3>6 DEF Write, OrderInv, Taken, Answered
  <2>4. CASE servlet = "exit"
    BY <1>8, <2>1, <2>2, <2>4, LimitAssumption DEF Write, OrderInv, TypeOK
  <2> QED
    BY <2>3, <2>4
<1>9. CASE WriteFails
  <2>1. Unwritten = 1 /\ Unwritten' = 0
    BY <1>0, <1>9 DEF WriteFails, Unwritten, TypeOK
  <2>2. /\ Taken \in Nat /\ Answered \in Nat
        /\ Taken' = Taken /\ Answered' = Answered /\ Begun' = Begun
    BY <1>9, LimitAssumption DEF WriteFails, TypeOK, Taken, Answered, Begun
  <2> QED
    BY <1>9, <2>1, <2>2, LimitAssumption DEF WriteFails, OrderInv, TypeOK
<1>10. CASE Shutdown \/ Join
  <2>1. \E l \in {"join", "closed"} : Goto(Owner, l)
    BY <1>10 DEF Shutdown, Join
  <2> HIDE DEF Goto
  <2> QED
    BY <1>0, <1>5, <1>10, <2>1 DEF Shutdown, Join
<1>11. ASSUME NEW u \in Users, SpuriousWakeup(u)
       PROVE  OrderInv'
  BY <1>5, <1>11 DEF SpuriousWakeup
<1>12. CASE Signal \/ Alarm
  <2>1. NotifyOne => Unwritten' = Unwritten
    BY <1>0 DEF NotifyOne, Unwritten, TypeOK
  <2> QED
    BY <1>12, <2>1, LimitAssumption
    DEF Signal, Alarm, OrderInv, Begun, Answered, Taken, TypeOK
<1>13. CASE Eof \/ SetError \/ EndOfRequests
  <2>1. UNCHANGED <<in, out, body, requests, replies, job, pc>>
    BY <1>13 DEF Eof, SetError, EndOfRequests
  <2>2. /\ (reader # "match" /\ reader' # "match") \/ UNCHANGED reader
        /\ (servlet # "execute" /\ servlet' = "exit") \/ UNCHANGED servlet
    BY <1>13 DEF Eof, SetError, EndOfRequests
  <2>3. Taken' = Taken /\ Answered' = Answered /\ Begun' = Begun /\ Unwritten' = Unwritten
    BY <2>1, <2>2 DEF Taken, Answered, Begun, Unwritten
  <2> QED
    BY <2>1, <2>2, <2>3 DEF OrderInv
<1>14. CASE UNCHANGED vars
  <2>1. UNCHANGED <<in, out, reader, body, requests, replies, servlet, job, pc>>
    BY <1>14 DEF vars
  <2>2. Unwritten' = Unwritten
    BY <2>1 DEF Unwritten
  <2> QED
    BY <2>1, <2>2, OrderFramed
<1>15. in \in Nat /\ out \in Nat /\ job \in Nat
  BY PlacesAreNat
<1>16. CASE Receive
  <2>1. Head(replies) = in + 1
    BY <1>15, <1>16 DEF Receive, OrderInv, Taken, TypeOK
  <2>2. /\ Len(replies') = Len(replies) - 1 /\ Len(replies) \in Nat
        /\ \A k \in 1 .. Len(replies') : replies'[k] = replies[k + 1]
    BY <1>16 DEF Receive, TypeOK
  <2>3. Taken = in /\ Taken' = in + 1
    BY <1>15, <1>16 DEF Receive, Taken
  <2>4. Answered' = Answered /\ Begun' = Begun /\ Unwritten' = Unwritten
    BY <1>15, <1>16, <2>2, <2>3 DEF Receive, Answered, Begun, Unwritten
  <2>5. \A k \in 1 .. Len(replies') : replies'[k] = Taken' + k
    BY <1>15, <2>2, <2>3 DEF OrderInv
  <2> QED
    BY <1>16, <2>1, <2>4, <2>5 DEF Receive, OrderInv
<1>17. CASE Match
  <2>1. Taken' = Taken
    BY <1>15, <1>17 DEF Match, Taken
  <2>2. Answered' = Answered /\ Begun' = Begun /\ Unwritten' = Unwritten
    BY <1>17, <2>1 DEF Match, Answered, Begun, Unwritten
  <2>3. reader' # "match"
    BY <1>17 DEF Match
  <2> QED
    BY <1>17, <2>1, <2>2, <2>3 DEF Match, OrderInv
<1>18. CASE ReadRequest
  <2>1. Head(requests) = Answered + 1
    <3>1. Len(requests) \in Nat \ {0} /\ Head(requests) = requests[1]
      BY <1>18 DEF ReadRequest, TypeOK
    <3>2. Begun = Answered /\ Answered \in Nat
      BY <1>15, <1>18 DEF ReadRequest, Begun, Answered, Taken, TypeOK
    <3> QED
      BY <1>18, <3>1, <3>2 DEF ReadRequest, OrderInv
  <2>2. /\ Len(requests') = Len(requests) - 1 /\ Len(requests) \in Nat
        /\ \A k \in 1 .. Len(requests') : requests'[k] = requests[k + 1]
    BY <1>18 DEF ReadRequest, TypeOK
  <2>3. Taken' = Taken /\ Answered' = Answered /\ Unwritten' = Unwritten
    BY <1>18 DEF ReadRequest, Taken, Answered, Unwritten
  <2>4. Begun' = Begun + 1 /\ Begun \in Nat
    BY <1>15, <1>18, <2>3 DEF ReadRequest, Begun, Answered, Taken, TypeOK
  <2>5. \A k \in 1 .. Len(requests') : requests'[k] = Begun' + k
    BY <1>18, <2>2, <2>4 DEF ReadRequest, OrderInv
  <2>6. Unwritten \in Nat
    BY DEF Unwritten
  <2>7. Begun' + Len(requests') + Unwritten' = out
    BY <1>18, <2>2, <2>3, <2>4, <2>6 DEF ReadRequest, OrderInv
  <2> QED
    BY <1>18, <2>1, <2>3, <2>5, <2>7 DEF ReadRequest, OrderInv
<1>19. CASE WriteReply
  <2>1. CASE shut
    BY <1>15, <1>19, <2>1
    DEF WriteReply, OrderInv, Answered, Begun, Taken, Unwritten, TypeOK
  <2>2. CASE ~ shut
    <3>1. replies' = Append(replies, job) /\ servlet' = "read"
      BY <1>19, <2>2 DEF WriteReply
    <3>2. Taken' = Taken /\ Unwritten' = Unwritten /\ Taken \in Nat /\ Unwritten \in Nat
      BY <1>15, <1>19 DEF WriteReply, Taken, Unwritten
    <3>3. Len(replies') = Len(replies) + 1 /\ Len(replies) \in Nat
      BY <3>1 DEF TypeOK
    <3>4. Answered' = Begun /\ Begun' = Begun /\ Begun \in Nat
      BY <1>19, <3>1, <3>2, <3>3 DEF WriteReply, Answered, Begun
    <3>5. job = Taken + Len(replies')
      <4>1. job = Answered + 1
        BY <1>19 DEF WriteReply, OrderInv
      <4> QED
        BY <3>2, <3>3, <4>1 DEF Answered
    <3>6. \A k \in 1 .. Len(replies') : replies'[k] = Taken' + k
      <4>1. replies \in Seq(Calls)
        BY DEF TypeOK
      <4>2. \A k \in 1 .. Len(replies) : replies[k] = Taken + k
        BY DEF OrderInv
      <4>3. \A k \in 1 .. Len(replies) : replies'[k] = replies[k]
        BY <3>1, <4>1
      <4>4. replies'[Len(replies')] = job
        BY <3>1, <3>3, <4>1
      <4> QED
        BY <3>2, <3>3, <3>5, <4>2, <4>3, <4>4
    <3>7. Answered' + Unwritten' <= out'
      <4>1. Begun + Len(requests) + Unwritten = out
        BY <1>19 DEF WriteReply, OrderInv
      <4>2. Len(requests) \in Nat
        BY DEF TypeOK
      <4> QED
        BY <1>19, <3>2, <3>4, <4>1, <4>2 DEF WriteReply
    <3> QED
      BY <1>19, <3>1, <3>2, <3>4, <3>6, <3>7 DEF WriteReply, OrderInv
  <2> QED
    BY <2>1, <2>2
<1>20. CASE ServerDies
  <2>1. PICK n \in 0 .. Len(replies) : replies' = SubSeq(replies, 1, n)
    BY <1>20 DEF ServerDies
  <2>2. /\ Len(replies') = n /\ n \in Nat /\ n <= Len(replies) /\ Len(replies) \in Nat
        /\ \A k \in 1 .. n : replies'[k] = replies[k]
    BY <2>1 DEF TypeOK
  <2>3. Taken' = Taken /\ Unwritten' = Unwritten /\ Taken \in Nat /\ Unwritten \in Nat
    BY <1>15, <1>20 DEF ServerDies, Taken, Unwritten
  <2>4. Answered' + Unwritten' <= out'
    BY <1>15, <1>20, <2>2, <2>3 DEF ServerDies, OrderInv, Answered
  <2>5. \A k \in 1 .. Len(replies') : replies'[k] = Taken' + k
    BY <2>2, <2>3 DEF OrderInv
  <2> QED
    BY <1>20, <2>4, <2>5 DEF ServerDies, OrderInv
<1>21. pc[Owner] = "flush" => out \in Calls
  BY DEF UserInv
<1> QED
  BY <1>2, <1>3, <1>4, <1>6, <1>7, <1>8, <1>9, <1>10, <1>11, <1>12, <1>13,
     <1>14, <1>16, <1>17, <1>18, <1>19, <1>20, <1>21
  DEF Next, UserStep, ReaderStep, ServletStep

(* The reader stores a reply with the call it answers, and a result is      *)
(* completed with what is stored for it.                                   *)
LEMMA NextRightReply == IInv /\ [Next]_vars => RightReply'
<1> SUFFICES ASSUME TypeOK, UserInv, OrderInv, RightReply, [Next]_vars PROVE RightReply'
  BY DEF IInv
<1> USE DEF RightReply, counters, results, users, readerVars, serverVars
<1>0. /\ in \in Nat /\ out \in Nat /\ in <= out
      /\ data \in [Calls -> 0 .. Limit + 1] /\ got \in [Calls -> 0 .. Limit + 1]
      /\ Calls \subseteq Nat
  <2>1. in \in Nat /\ out \in Nat /\ Len(replies) \in Nat /\ Unwritten \in Nat
    BY PlacesAreNat
  <2>2. Answered + Unwritten <= out
    BY DEF OrderInv
  <2>3. in <= out
    BY <2>1, <2>2 DEF Answered, Taken
  <2> QED
    BY <2>1, <2>3, LimitAssumption DEF TypeOK, Calls
<1>1. ASSUME NEW u \in Users, NEW n \in Calls, Take(u, n), UNCHANGED in
      PROVE  RightReply'
  BY <1>0, <1>1 DEF Take
<1>2. ASSUME Insert, UNCHANGED <<in, data, got>>
      PROVE  RightReply'
  BY <1>0, <1>2 DEF Insert
<1>3. CASE Call
  BY <1>2, <1>3 DEF Call
<1>4. CASE Close
  BY <1>2, <1>4 DEF Close
<1>5. ASSUME NEW n \in Calls, Drop(n)
      PROVE  RightReply'
  BY <1>5 DEF Drop
<1>6. ASSUME NEW n \in Calls, NEW u \in Users, Wait(u, n)
      PROVE  RightReply'
  BY <1>1, <1>6 DEF Wait, Throw
<1>7. ASSUME NEW u \in Users, Awake(u)
      PROVE  RightReply'
  <2>1. target[u] \in Calls
    BY <1>7 DEF Awake, UserInv
  <2> QED
    BY <1>1, <1>7, <2>1 DEF Awake, Throw
<1>8. CASE Match
  <2>1. body = in + 1
    BY <1>8 DEF Match, OrderInv
  <2> QED
    BY <1>0, <1>8, <2>1 DEF Match
<1>9. CASE Write \/ WriteFails \/ Shutdown \/ Join
  BY <1>9 DEF Write, WriteFails, Shutdown, Join
<1>10. ASSUME NEW u \in Users, SpuriousWakeup(u)
       PROVE  RightReply'
  BY <1>10 DEF SpuriousWakeup
<1>11. CASE Receive \/ Eof \/ Signal \/ SetError \/ Alarm
  BY <1>11 DEF Receive, Eof, Signal, SetError, Alarm
<1>12. CASE ServletStep \/ ServerDies
  BY <1>12 DEF ServletStep, ReadRequest, WriteReply, EndOfRequests, ServerDies
<1>13. CASE UNCHANGED vars
  BY <1>13 DEF vars
<1>14. pc[Owner] = "flush" => out \in Calls
  BY DEF UserInv
<1> QED
  BY <1>3, <1>4, <1>5, <1>6, <1>7, <1>8, <1>9, <1>10, <1>11, <1>12, <1>13, <1>14
  DEF Next, UserStep, ReaderStep

-----------------------------------------------------------------------------
(* The invariant holds in every reachable state. *)
LEMMA Invariance == Spec => []IInv
<1>1. Init => IInv
  BY InitIInv
<1>2. IInv /\ [Next]_vars => IInv'
  BY NextTypeOK, NextUserInv, NextOrderInv, NextRightReply DEF IInv
<1> QED
  BY <1>1, <1>2, PTL DEF Spec, Safety

(* Every variable stays in its range: neither counter passes the number of  *)
(* calls, and a stream holds calls only.                                   *)
THEOREM TypeCorrect == Spec => []TypeOK
<1>1. IInv => TypeOK
  BY DEF IInv
<1> QED
  BY <1>1, Invariance, PTL

(* Replies are matched by counting, and never wrongly: whatever is dropped, *)
(* whoever waits, whenever the server dies (client.cpp:128-150).           *)
THEOREM RepliesAreMatched == Spec => []RightReply
<1>1. IInv => RightReply
  BY DEF IInv
<1> QED
  BY <1>1, Invariance, PTL

(* While the server lives every call made is in one place on its way, or    *)
(* has been counted: none is lost, and none is counted twice.              *)
THEOREM CallsTravelOnce == Spec => []CallsConserved
<1>1. IInv => CallsConserved
  <2> SUFFICES ASSUME IInv, servlet # "exit" PROVE in + Travelling = out
    BY DEF CallsConserved
  <2>1. in \in Nat /\ Len(replies) \in Nat /\ Len(requests) \in Nat /\ Unwritten \in Nat
    BY PlacesAreNat DEF IInv
  <2>2. Begun + Len(requests) + Unwritten = out
    BY DEF IInv, OrderInv
  <2> DEFINE reading == IF reader = "match" THEN 1 ELSE 0
             executing == IF servlet = "execute" THEN 1 ELSE 0
  <2>3. Begun = in + reading + Len(replies) + executing
    BY DEF Begun, Answered, Taken
  <2>4. Travelling = Unwritten + Len(requests) + executing + Len(replies) + reading
    BY DEF Travelling, Unwritten
  <2>5. reading \in Nat /\ executing \in Nat
    OBVIOUS
  <2> HIDE DEF reading, executing
  <2> QED
    BY <2>1, <2>2, <2>3, <2>4, <2>5
<1> QED
  BY <1>1, Invariance, PTL
=============================================================================
