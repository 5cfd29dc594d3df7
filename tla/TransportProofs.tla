-------------------------- MODULE TransportProofs ---------------------------
(***************************************************************************)
(* Proofs about Transport: its safety invariants, and that its steps       *)
(* implement those of RpcChannel; and about MemoryLink, that they all hold *)
(* there until one of the two processes goes away.                         *)
(***************************************************************************)
EXTENDS MemoryLink, TLAPS

C == pc["client"]
S == pc["servlet"]

(* The client's half of the turn: it prepares a call, or picks up a reply. *)
ClientHolds == C \in {"idle", "store", "claim", "load", "value"}
(* The reply is out: the servlet has opened the out direction. *)
Replied == lock["out"] = "unlocked" /\ C \in {"park", "pend"}
(* The request is out: the client has opened the in direction. *)
Requested == lock["in"] = "unlocked" \/ S \in {"release", "wake"}

(* Which word goes with which program counter: a word says "sleeping" only *)
(* while its reader is on its way to, or on, the semaphore, and the        *)
(* semaphore holds the one post that matches the opened word.              *)
LockInv ==
    /\ lock["out"] = "unlocked" <=> (ClientHolds \/ Replied)
    /\ lock["out"] = "sleeping" => C = "pend"
    /\ C = "pend" => lock["out"] # "locked"
    /\ sem["out"] = (IF C = "pend" /\ lock["out"] = "unlocked" /\ S # "post" THEN 1 ELSE 0)
    /\ lock["in"] = "sleeping" => S = "pend"
    /\ S = "pend" => lock["in"] # "locked"
    /\ sem["in"] = (IF S = "pend" /\ lock["in"] = "unlocked" /\ C # "post" THEN 1 ELSE 0)

(* Whose turn it is. *)
TurnInv ==
    /\ C \notin {"thrown"} /\ S \notin {"thrown"}
    /\ S \in {"decode", "encode", "claim"} => lock["in"] = "unlocked"
    /\ S \in {"release", "wake", "post"} => lock["in"] = "locked"
    /\ Requested => ~ ClientHolds /\ ~ Replied /\ C \in {"post", "park", "pend"}
    /\ C = "post" => lock["in"] = "unlocked" /\ S = "pend"
    /\ C \in {"release", "wake"} => lock["in"] # "unlocked" /\ S \in {"park", "pend", "loop"}
    /\ C = "wake" => lock["in"] = "sleeping"
    /\ S = "wake" => lock["out"] = "sleeping"
    /\ S = "post" => C = "pend" /\ lock["out"] = "unlocked"
    /\ C \in {"park", "pend"} => Requested \/ Replied

(* What is on the page: the request until the reply is written over it. *)
PageInv ==
    /\ C # "idle" => arg \in Values
    /\ C \in {"claim", "release", "wake", "post"} => page = Request(arg)
    /\ Requested /\ S \notin {"claim", "release", "wake"} => page = Request(arg)
    /\ S = "encode" => job = arg
    /\ S \in {"claim", "release", "wake", "post"} => page = Reply(arg)
    /\ Replied \/ C \in {"load", "value"} => page = Reply(arg)
    /\ C = "value" => page.header = "none"

IInv == TypeOK /\ LockInv /\ TurnInv /\ PageInv

-----------------------------------------------------------------------------
(* Every step is one of the atomic operations of one thread. *)
LEMMA StepCases ==
    ASSUME Next
    PROVE  \/ Call \/ Store \/ LoadHeader \/ LoadValue
           \/ Decode \/ Encode \/ Loop
           \/ /\ UNCHANGED dataVars
              /\ \/ Claim(pc, "client", "out")
                 \/ Release(pc, "client", "in", "park")
                 \/ Wake(pc, "client", "in")
                 \/ Post(pc, "client", "in", "park")
                 \/ Park(pc, "client", "out", "load")
                 \/ Pend(pc, "client", "out", "load")
                 \/ Park(pc, "servlet", "in", "decode")
                 \/ Pend(pc, "servlet", "in", "decode")
                 \/ Claim(pc, "servlet", "in")
                 \/ Release(pc, "servlet", "out", "loop")
                 \/ Wake(pc, "servlet", "out")
                 \/ Post(pc, "servlet", "out", "loop")
BY Zenon DEF Next, ClientStep, ServletStep, ServletRun, Notify, Wait, Answer, SpinUp, SpinDown

(* The invariant holds of the page, words and threads as they are created. *)
LEMMA InitIInv == Init => IInv
<1> SUFFICES ASSUME Init PROVE IInv
  OBVIOUS
<1> USE DEF Init, ControlInit, Threads, Directions, LockState, C, S
<1>1. TypeOK
  BY DEF TypeOK, ClientLabels, ServletLabels, SpinUpLabels, SpinDownLabels
<1>2. LockInv
  BY DEF LockInv, ClientHolds, Replied
<1>3. TurnInv
  BY DEF TurnInv, Requested, ClientHolds, Replied
<1>4. PageInv
  BY DEF PageInv, Requested, Replied
<1> QED
  BY <1>1, <1>2, <1>3, <1>4 DEF IInv

(* Every step preserves the invariant. *)
LEMMA NextIInv == IInv /\ [Next]_vars => IInv'
<1> SUFFICES ASSUME IInv, [Next]_vars PROVE IInv'
  OBVIOUS
<1> USE ThrowingAssumption, NullAssumption
        DEF IInv, TypeOK, LockInv, TurnInv, PageInv, ClientHolds, Replied, Requested, C, S,
            Goto, Threads, Directions, LockState, ClientLabels, ServletLabels,
            SpinUpLabels, SpinDownLabels
<1>1. CASE Call
  BY <1>1 DEF Call
<1>2. CASE Store
  BY <1>2 DEF Store, Request
<1>3. CASE LoadHeader
  BY <1>3 DEF LoadHeader, Reply, Outcome, Request, Outcomes
<1>4. CASE LoadValue
  BY <1>4 DEF LoadValue, Reply, Outcome, Outcomes, Request
<1>5. CASE Decode
  BY <1>5 DEF Decode, Request, Reply, Blank
<1>6. CASE Encode
  BY <1>6 DEF Encode, Request, Reply
<1>7. CASE Loop
  BY <1>7 DEF Loop
<1>8. CASE Claim(pc, "client", "out") /\ UNCHANGED dataVars
  BY <1>8 DEF Claim, dataVars
<1>9. CASE Release(pc, "client", "in", "park") /\ UNCHANGED dataVars
  BY <1>9 DEF Release, dataVars
<1>10. CASE Wake(pc, "client", "in") /\ UNCHANGED dataVars
  BY <1>10 DEF Wake, dataVars
<1>11. CASE Post(pc, "client", "in", "park") /\ UNCHANGED dataVars
  BY <1>11 DEF Post, dataVars
<1>12. CASE Park(pc, "client", "out", "load") /\ UNCHANGED dataVars
  BY <1>12 DEF Park, dataVars
<1>13. CASE Pend(pc, "client", "out", "load") /\ UNCHANGED dataVars
  BY <1>13 DEF Pend, dataVars
<1>14. CASE Park(pc, "servlet", "in", "decode") /\ UNCHANGED dataVars
  BY <1>14 DEF Park, dataVars
<1>15. CASE Pend(pc, "servlet", "in", "decode") /\ UNCHANGED dataVars
  BY <1>15 DEF Pend, dataVars
<1>16. CASE Claim(pc, "servlet", "in") /\ UNCHANGED dataVars
  BY <1>16 DEF Claim, dataVars
<1>17. CASE Release(pc, "servlet", "out", "loop") /\ UNCHANGED dataVars
  BY <1>17 DEF Release, dataVars
<1>18. CASE Wake(pc, "servlet", "out") /\ UNCHANGED dataVars
  BY <1>18 DEF Wake, dataVars
<1>19. CASE Post(pc, "servlet", "out", "loop") /\ UNCHANGED dataVars
  BY <1>19 DEF Post, dataVars
<1>20. CASE UNCHANGED vars
  BY <1>20 DEF vars
<1> QED
  BY <1>1, <1>2, <1>3, <1>4, <1>5, <1>6, <1>7, <1>8, <1>9, <1>10, <1>11, <1>12, <1>13, <1>14, <1>15, <1>16, <1>17, <1>18, <1>19, <1>20, StepCases


(* The strengthened invariant holds throughout, for any arguments. *)
THEOREM Invariance == Safety => []IInv
  BY InitIInv, NextIInv, PTL DEF Safety

(* Every variable keeps its range; in particular the semaphores never      *)
(* exceed one, so no post is ever left over for a later rendezvous.        *)
THEOREM TypeCorrect == Safety => []TypeOK
<1>1. IInv => TypeOK
  BY DEF IInv
<1> QED
  BY <1>1, Invariance, PTL

(* The client and the servlet never touch the page at the same time.       *)
THEOREM PageIsExclusive == Safety => []PageExclusive
<1>1. IInv => PageExclusive
  BY DEF IInv, TurnInv, Requested, ClientHolds, PageExclusive, C, S
<1> QED
  BY <1>1, Invariance, PTL

(* "Invalid lock state" is never thrown by the client or the servlet.      *)
THEOREM LockStateIsValid == Safety => []NoInvalidLockState
<1>1. IInv => NoInvalidLockState
  BY DEF IInv, TurnInv, NoInvalidLockState, Threads, C, S
<1> QED
  BY <1>1, Invariance, PTL

(* Both threads never sleep with no post on its way.                       *)
THEOREM TurnIsKept == Safety => []NoLostTurn
<1>1. IInv => NoLostTurn
  BY DEF IInv, LockInv, TurnInv, NoLostTurn, Requested, Replied, Threads, Directions, C, S
<1> QED
  BY <1>1, Invariance, PTL

-----------------------------------------------------------------------------
(* Refinement *)

Answered == IF Phase = "served" THEN [error |-> page.header, body |-> page.body] ELSE Nothing

(* The transport starts as the channel does. *)
LEMMA InitRefines == Init => Channel!Init
  BY DEF Init, Channel!Init, Phase, Channel!Nothing, Nothing, Threads

(* Every step of the transport is a step of the channel, or leaves the     *)
(* channel unchanged: a call is begun by Call, executed by Encode, and     *)
(* returned by LoadHeader (an exception) or LoadValue.                     *)
LEMMA NextRefines == IInv /\ [Next]_vars => [Channel!Next]_(Channel!vars)
<1> SUFFICES ASSUME IInv, [Next]_vars PROVE [Channel!Next]_(Channel!vars)
  OBVIOUS
<1> USE DEF IInv, TypeOK, Channel!Next, Channel!vars, Channel!Nothing, Nothing, Channel!Outcome,
            Phase, Goto, Threads, C, S
<1>1. CASE Call
  BY <1>1 DEF Call, Channel!Call
<1>2. CASE Store
  BY <1>2 DEF Store, Request
<1>3. CASE LoadHeader
  BY <1>3 DEF LoadHeader, PageInv, Reply, Outcome, Channel!Return
<1>4. CASE LoadValue
  BY <1>4 DEF LoadValue, PageInv, Reply, Outcome, Channel!Return
<1>5. CASE Decode
  BY <1>5 DEF Decode
<1>6. CASE Encode
  BY <1>6, NullAssumption DEF Encode, PageInv, TurnInv, Requested, ClientHolds, Replied, Request, Reply, Outcome, Channel!Serve
<1>7. CASE Loop
  BY <1>7 DEF Loop
<1>8. CASE Claim(pc, "client", "out") /\ UNCHANGED dataVars
  BY <1>8 DEF Claim, dataVars, TurnInv
<1>9. CASE Release(pc, "client", "in", "park") /\ UNCHANGED dataVars
  BY <1>9 DEF Release, dataVars, TurnInv
<1>10. CASE Wake(pc, "client", "in") /\ UNCHANGED dataVars
  BY <1>10 DEF Wake, dataVars, TurnInv
<1>11. CASE Post(pc, "client", "in", "park") /\ UNCHANGED dataVars
  BY <1>11 DEF Post, dataVars, TurnInv
<1>12. CASE Park(pc, "client", "out", "load") /\ UNCHANGED dataVars
  BY <1>12 DEF Park, dataVars, TurnInv
<1>13. CASE Pend(pc, "client", "out", "load") /\ UNCHANGED dataVars
  BY <1>13 DEF Pend, dataVars, TurnInv
<1>14. CASE Park(pc, "servlet", "in", "decode") /\ UNCHANGED dataVars
  BY <1>14 DEF Park, dataVars, TurnInv
<1>15. CASE Pend(pc, "servlet", "in", "decode") /\ UNCHANGED dataVars
  BY <1>15 DEF Pend, dataVars, TurnInv
<1>16. CASE Claim(pc, "servlet", "in") /\ UNCHANGED dataVars
  BY <1>16 DEF Claim, dataVars, TurnInv
<1>17. CASE Release(pc, "servlet", "out", "loop") /\ UNCHANGED dataVars
  BY <1>17 DEF Release, dataVars, TurnInv
<1>18. CASE Wake(pc, "servlet", "out") /\ UNCHANGED dataVars
  BY <1>18 DEF Wake, dataVars, TurnInv
<1>19. CASE Post(pc, "servlet", "out", "loop") /\ UNCHANGED dataVars
  BY <1>19 DEF Post, dataVars, TurnInv
<1>20. CASE UNCHANGED vars
  BY <1>20 DEF vars
<1> QED
  BY <1>1, <1>2, <1>3, <1>4, <1>5, <1>6, <1>7, <1>8, <1>9, <1>10, <1>11, <1>12, <1>13, <1>14, <1>15, <1>16, <1>17, <1>18, <1>19, <1>20, StepCases

(* The safety part of Implements: whatever the lock words and semaphores   *)
(* do, a caller sees its calls executed once each, and their own outcomes. *)
THEOREM ImplementsSafely == Safety => Channel!Safety
  BY InitRefines, NextRefines, Invariance, PTL DEF Safety, Channel!Safety
-----------------------------------------------------------------------------
(* The link threads *)

(* As long as no end of the socket has hung up both processes run, both    *)
(* link threads sleep in poll, and the transport is as without them.       *)
UpInv == hup = {} => /\ IInv
                     /\ alive = Processes
                     /\ lpc = [t \in LinkThreads |-> "poll"]
                     /\ state = [t \in LinkThreads |-> TRUE]

(* A hang-up is for good. *)
LEMMA HangUpsStay == [NextLink]_allVars /\ hup # {} => hup' # {}
  BY Zenon DEF NextLink, allVars, ClientCall, ClientClose, ClientThread, ClientRun, ClientThrow,
         ClientJoin, LinkClient, ClientPoll, ClientMark, ClientWrite, WakeNotify,
         ServletStop, ServletThread, ServletRunning, ServletLoop, ServletExit,
         LinkServer, ServerPoll, ServerMark, ServerWrite, WakeWait, Crash, linkVars

(* While both ends are up a step of the two processes is one of Transport. *)
LEMMA UpSteps ==
    ASSUME UpInv, hup = {}, hup' = {}, [NextLink]_allVars
    PROVE  [Next]_vars /\ UNCHANGED <<alive, lpc, state>>
<1> USE DEF UpInv
<1>1. IInv /\ alive = Processes
      /\ lpc["link_client"] = "poll" /\ lpc["link_server"] = "poll"
      /\ state["link_client"] /\ state["link_server"]
  BY DEF LinkThreads
<1>2. pc["client"] \notin {"thrown", "join"} /\ pc["servlet"] \notin {"thrown", "join"}
  BY <1>1 DEF IInv, TypeOK, TurnInv, C, S, ClientLabels, ServletLabels, SpinUpLabels,
              SpinDownLabels
<1>3. CASE ClientCall \/ ClientRun \/ ServletRunning
  BY <1>3 DEF ClientCall, ClientRun, ServletRunning, Next, ServletStep, linkVars
<1>4. CASE ClientThrow \/ ClientJoin \/ ServletExit
  BY <1>2, <1>4 DEF ClientThrow, ClientJoin, ServletExit
<1>5. CASE ClientClose \/ ServletStop \/ \E p \in Processes : Crash(p)
  BY <1>1, <1>5 DEF ClientClose, ServletStop, Crash
<1>6. CASE ServletLoop
  BY <1>1, <1>6 DEF ServletLoop, Loop, Next, ServletStep
<1>7. CASE LinkClient
  BY <1>1, <1>7 DEF LinkClient, ClientPoll, ClientMark, ClientWrite, WakeNotify, SpinUp,
                   Claim, Release, Wake, Post
<1>8. CASE LinkServer
  BY <1>1, <1>8 DEF LinkServer, ServerPoll, ServerMark, ServerWrite, WakeWait, SpinUp,
                   Claim, Release, Wake, Post
<1>9. CASE UNCHANGED allVars
  BY <1>9 DEF allVars, vars
<1> QED
  BY <1>3, <1>4, <1>5, <1>6, <1>7, <1>8, <1>9 DEF NextLink, ClientThread, ServletThread

(* Until one end has gone away the page is not shared, no lock word         *)
(* surprises anybody, and a call is answered by its reply only: the link   *)
(* threads do not come between client and servlet.                         *)
THEOREM LinkIsQuiet == SpecLink => []UndisturbedWhileUp
<1>1. InitLink => UpInv
  BY InitIInv DEF InitLink, UpInv
<1>2. UpInv /\ [NextLink]_allVars => UpInv'
  <2> SUFFICES ASSUME UpInv, [NextLink]_allVars, hup' = {}
               PROVE  /\ IInv' /\ alive' = Processes
                      /\ lpc' = [t \in LinkThreads |-> "poll"]
                      /\ state' = [t \in LinkThreads |-> TRUE]
    BY DEF UpInv, Processes, LinkThreads
  <2>1. hup = {}
    BY HangUpsStay
  <2>2. [Next]_vars /\ UNCHANGED <<alive, lpc, state>>
    BY <2>1, UpSteps
  <2> QED
    BY <2>1, <2>2, NextIInv DEF UpInv
<1>3. UpInv => UndisturbedWhileUp
  <2> SUFFICES ASSUME IInv
               PROVE  /\ PageExclusive /\ NoInvalidLockState
                      /\ result.error \in {"nothing", "none", "exception"}
    BY DEF UpInv, UndisturbedWhileUp
  <2>1. PageExclusive /\ NoInvalidLockState
    BY DEF IInv, TurnInv, Requested, ClientHolds, PageExclusive, NoInvalidLockState,
           Threads, C, S
  <2>2. result \in Outcomes \union {Nothing}
    BY DEF IInv, TypeOK
  <2> QED
    BY <2>1, <2>2 DEF Outcomes, Outcome, Nothing
<1> QED
  BY <1>1, <1>2, <1>3, PTL DEF SpecLink

-----------------------------------------------------------------------------
(* The words and semaphores when the link threads hand out turns, too, and *)
(* when processes die: the reader of a direction sleeps once at most, and   *)
(* each post goes with a word that said so.                                *)
One(b) == IF b THEN 1 ELSE 0
OutPosts == sem["out"] + One(lock["out"] = "sleeping") + One(S = "post")
            + One(lpc["link_client"] = "post")
InPosts == sem["in"] + One(lock["in"] = "sleeping") + One(C = "post")
           + One(lpc["link_server"] = "post")
PostInv == OutPosts <= One(C = "pend") /\ InPosts <= One(S = "pend")

LinkInv == /\ LinkTypeOK /\ PostInv
           /\ pc \in [Threads -> ClientLabels \union ServletLabels
                                  \union {"join", "closed", "exit"}]

(* Every step of the two processes is one of the atomic operations of one  *)
(* of the four threads, or does not touch the words.                       *)
LEMMA LinkStepCases ==
    ASSUME NextLink
    PROVE  \/ /\ UNCHANGED linkVars
              /\ \/ Call \/ Store \/ LoadHeader \/ LoadValue \/ Decode \/ Encode
                 \/ /\ UNCHANGED dataVars
                    /\ \/ SpinUp(pc, "client", "in", "out", "park")
                       \/ SpinDown(pc, "client", "out", "load")
                       \/ SpinDown(pc, "servlet", "in", "decode")
                       \/ SpinUp(pc, "servlet", "out", "in", "loop")
           \/ ClientThrow \/ ClientClose \/ ClientJoin
           \/ ClientPoll \/ ClientMark \/ ClientWrite \/ WakeNotify
           \/ ServletLoop \/ ServletExit \/ ServletStop
           \/ ServerPoll \/ ServerMark \/ ServerWrite \/ WakeWait
           \/ \E p \in Processes : Crash(p)
BY Zenon DEF NextLink, ClientCall, ClientThread, ClientRun, ClientStep, LinkClient,
             ServletThread, ServletRunning, ServletRun, LinkServer, Notify, Wait, Answer

(* No post is left over for a later rendezvous, whoever hands out turns.   *)
LEMMA LinkNext == LinkInv /\ [NextLink]_allVars => LinkInv'
<1> SUFFICES ASSUME LinkInv, [NextLink]_allVars PROVE LinkInv'
  OBVIOUS
<1> USE DEF LinkInv, LinkTypeOK, PostInv, OutPosts, InPosts, One, C, S, Goto, linkVars,
            Directions, LockState, LinkThreads, LinkLabels, ClientLabels, ServletLabels,
            SpinUpLabels, SpinDownLabels, Threads, Processes
<1>1. CASE UNCHANGED linkVars /\ (Call \/ Store \/ LoadHeader \/ LoadValue \/ Decode \/ Encode)
  BY <1>1 DEF Call, Store, LoadHeader, LoadValue, Decode, Encode, Request, Reply, Outcome
<1>2. ASSUME UNCHANGED linkVars, UNCHANGED dataVars,
             \/ SpinUp(pc, "client", "in", "out", "park")
             \/ SpinUp(pc, "servlet", "out", "in", "loop")
      PROVE  LinkInv'
  BY <1>2 DEF SpinUp, Claim, Release, Wake, Post, controlVars, dataVars
<1>3. ASSUME UNCHANGED linkVars, UNCHANGED dataVars,
             \/ SpinDown(pc, "client", "out", "load")
             \/ SpinDown(pc, "servlet", "in", "decode")
      PROVE  LinkInv'
  BY <1>3 DEF SpinDown, Park, Pend, dataVars
<1>4. CASE ClientThrow
  BY <1>4 DEF ClientThrow
<1>5. CASE ClientClose
  BY <1>5 DEF ClientClose
<1>6. CASE ClientJoin
  BY <1>6 DEF ClientJoin
<1>7. CASE ServletLoop
  BY <1>7 DEF ServletLoop
<1>8. CASE ServletExit
  BY <1>8 DEF ServletExit
<1>9. CASE ServletStop
  BY <1>9 DEF ServletStop
<1>10. CASE ClientPoll
  BY <1>10 DEF ClientPoll
<1>11. CASE ClientMark
  BY <1>11 DEF ClientMark
<1>12. CASE ClientWrite
  BY <1>12 DEF ClientWrite
<1>13. CASE ServerPoll
  BY <1>13 DEF ServerPoll
<1>14. CASE ServerMark
  BY <1>14 DEF ServerMark
<1>15. CASE ServerWrite
  BY <1>15 DEF ServerWrite
<1>16. CASE WakeNotify
  <2>1. CASE Claim(lpc, "link_client", "in")
    BY <1>16, <2>1 DEF WakeNotify, Claim, controlVars
  <2>2. CASE Release(lpc, "link_client", "out", "exit")
    BY <1>16, <2>2 DEF WakeNotify, Release, controlVars
  <2>3. CASE Wake(lpc, "link_client", "out")
    BY <1>16, <2>3 DEF WakeNotify, Wake, controlVars
  <2>4. CASE Post(lpc, "link_client", "out", "exit")
    BY <1>16, <2>4 DEF WakeNotify, Post, controlVars
  <2> QED
    BY <1>16, <2>1, <2>2, <2>3, <2>4 DEF WakeNotify, SpinUp
<1>17. CASE WakeWait
  <2>1. CASE Claim(lpc, "link_server", "out")
    BY <1>17, <2>1 DEF WakeWait, Claim, controlVars
  <2>2. CASE Release(lpc, "link_server", "in", "exit")
    BY <1>17, <2>2 DEF WakeWait, Release, controlVars
  <2>3. CASE Wake(lpc, "link_server", "in")
    BY <1>17, <2>3 DEF WakeWait, Wake, controlVars
  <2>4. CASE Post(lpc, "link_server", "in", "exit")
    BY <1>17, <2>4 DEF WakeWait, Post, controlVars
  <2> QED
    BY <1>17, <2>1, <2>2, <2>3, <2>4 DEF WakeWait, SpinUp
<1>18. CASE \E p \in Processes : Crash(p)
  <2> PICK p \in Processes : Crash(p)
    BY <1>18
  <2>1. hup' \subseteq Processes /\ alive' \subseteq Processes
    BY DEF Crash, Other
  <2>2. UNCHANGED <<lock, sem, pc, page, arg, job, result, lpc, state>>
    BY DEF Crash
  <2> QED
    BY <2>1, <2>2
<1>19. CASE UNCHANGED allVars
  BY <1>19 DEF allVars
<1> QED
  BY <1>1, <1>2, <1>3, <1>4, <1>5, <1>6, <1>7, <1>8, <1>9, <1>10, <1>11, <1>12, <1>13,
     <1>14, <1>15, <1>16, <1>17, <1>18, <1>19, LinkStepCases

(* With processes that die and link threads that hand out turns in place   *)
(* of them, every variable keeps its range: no semaphore is posted twice,  *)
(* and a call has one of the results the code knows.                       *)
THEOREM LinkTypeIsKept == SpecLink => []LinkTypeOK
<1>1. InitLink => LinkInv
  BY DEF InitLink, Init, ControlInit, LinkInv, LinkTypeOK, PostInv, OutPosts, InPosts, One, C, S,
         Directions, LockState, LinkThreads, LinkLabels, ClientLabels, ServletLabels,
         SpinUpLabels, SpinDownLabels, Threads, Processes, Blank, Nothing
<1>2. LinkInv => LinkTypeOK
  BY DEF LinkInv
<1> QED
  BY <1>1, <1>2, LinkNext, PTL DEF SpecLink
=============================================================================
