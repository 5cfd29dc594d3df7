---------------------------- MODULE OwnersProofs -----------------------------
(***************************************************************************)
(* Proofs that what the services own has one owner who gives it back once: *)
(* OwnedOnce, for any number of clients, segments, objects, threads and    *)
(* scripts.  Each part has its own inductive invariant.                    *)
(***************************************************************************)
EXTENDS Services, FiniteSetTheorems, SequenceTheorems, TLAPS

(* The size of a set is the same in every module. *)
LEMMA SameCardinality ==
    \A S : /\ Script!Cardinality(S) = Cardinality(S) /\ Calls!Cardinality(S) = Cardinality(S)
           /\ Pointer!Cardinality(S) = Cardinality(S)
BY DEF Script!Cardinality, Calls!Cardinality, Pointer!Cardinality, Cardinality

-----------------------------------------------------------------------------
(* ServerList: the servlets of a server *)

ServersType ==
    /\ element \in [Clients -> {"none", "empty", "set", "erased"}]
    /\ object \in [Clients -> {"none", "alive", "destroyed"}]
    /\ detached \in [Clients -> BOOLEAN]
    /\ servlet \in [Clients -> {"none", "start", "read", "reply", "tuple", "test", "wait",
                                "serve", "join", "erase", "ended", "thrown"}]
    /\ eraser \in [Clients -> {"none", "detach", "lock", "erase", "unlock", "done"}]

(* An empty element is that of the servlet under construction, of which    *)
(* there is one, under the mutex.                                          *)
EmptyInv == \A c, d \in Clients :
    /\ element[c] = "empty" => mutex = "accept"
    /\ element[c] = "empty" /\ element[d] = "empty" => c = d

ServersInv == ServersType /\ EmptyInv /\ Servers!ServletsOwned

(* Every step of a server's threads and clients keeps the ownership. *)
LEMMA ServersStep ==
    ASSUME ClientsDistinct PROVE ServersInv /\ [Servers!Next]_serverVars => ServersInv'
<1> SUFFICES ASSUME ServersInv, [Servers!Next]_serverVars PROVE ServersInv'
  OBVIOUS
<1> USE DEF ClientsDistinct, ServersInv, ServersType, EmptyInv, Servers!ServletsOwned,
            Servers!threads, Servers!owned, Servers!connection
<1>1. ASSUME NEW c \in Clients, Servers!Push(c) PROVE ServersInv'
  BY <1>1 DEF Servers!Push
<1>2. ASSUME NEW c \in Clients, Servers!Construct(c) PROVE ServersInv'
  BY <1>2 DEF Servers!Construct
<1>3. ASSUME NEW c \in Clients, Servers!Assign(c) PROVE ServersInv'
  BY <1>3 DEF Servers!Assign
<1>4. ASSUME NEW c \in Clients, Servers!Detach(c) PROVE ServersInv'
  <2>1. CASE element[c] = "empty"
    BY <1>4, <2>1 DEF Servers!Detach, Servers!Faults
  <2>2. CASE element[c] # "empty"
    <3>1. /\ detached' = [detached EXCEPT ![c] = TRUE] /\ eraser' = [eraser EXCEPT ![c] = "lock"]
          /\ UNCHANGED <<mutex, element, object, servlet>>
      BY <1>4, <2>2 DEF Servers!Detach
    <3>2. ServersType'
      BY <3>1
    <3>3. \A d \in Clients : (detached[d] => detached'[d]) /\ (d # c => eraser'[d] = eraser[d])
      BY <3>1, Zenon
    <3>4. eraser'[c] = "lock"
      BY <3>1
    <3>5. Servers!ServletsOwned'
      BY <3>1, <3>3, <3>4
    <3> QED
      BY <3>1, <3>2, <3>5
  <2> QED
    BY <2>1, <2>2
<1>5. ASSUME NEW c \in Clients, Servers!Lock(c) PROVE ServersInv'
  BY <1>5 DEF Servers!Lock
<1>6. ASSUME NEW c \in Clients, Servers!Erase(c) PROVE ServersInv'
  BY <1>6 DEF Servers!Erase
<1>7. ASSUME NEW c \in Clients, Servers!Unlock(c) PROVE ServersInv'
  BY <1>7 DEF Servers!Unlock
<1>8. ASSUME NEW c \in Clients,
             \/ Servers!StartLink(c) \/ Servers!Unmet(c) \/ Servers!MakeTuple(c) \/ Servers!Test(c)
             \/ Servers!Wait(c) \/ Servers!Serve(c) \/ Servers!Leave(c)
      PROVE  ServersInv'
  <2>1. CASE Servers!StartLink(c)
    BY <2>1 DEF Servers!StartLink
  <2>2. CASE Servers!Unmet(c)
    BY <2>2 DEF Servers!Unmet
  <2>3. CASE Servers!MakeTuple(c)
    BY <2>3 DEF Servers!MakeTuple, Servers!Faults
  <2>4. CASE Servers!Test(c)
    BY <2>4 DEF Servers!Test
  <2>5. CASE Servers!Wait(c)
    BY <2>5 DEF Servers!Wait
  <2>6. CASE Servers!Serve(c)
    BY <2>6 DEF Servers!Serve
  <2>7. CASE Servers!Leave(c)
    BY <2>7 DEF Servers!Leave
  <2> QED
    BY <1>8, <2>1, <2>2, <2>3, <2>4, <2>5, <2>6, <2>7
<1>9. ASSUME NEW c \in Clients,
             \/ Servers!Poll(c) \/ Servers!WakeWait(c) \/ Servers!Request(c) \/ Servers!Reply(c)
             \/ Servers!EndOfRequests(c) \/ Servers!Return(c)
      PROVE  ServersInv'
  <2>1. CASE Servers!Poll(c)
    BY <2>1 DEF Servers!Poll
  <2>2. CASE Servers!WakeWait(c)
    BY <2>2 DEF Servers!WakeWait
  <2>3. CASE Servers!Request(c)
    BY <2>3 DEF Servers!Request
  <2>4. CASE Servers!Reply(c)
    BY <2>4 DEF Servers!Reply
  <2>5. CASE Servers!EndOfRequests(c)
    BY <2>5 DEF Servers!EndOfRequests
  <2>6. CASE Servers!Return(c)
    BY <2>6 DEF Servers!Return
  <2> QED
    BY <1>9, <2>1, <2>2, <2>3, <2>4, <2>5, <2>6
<1>10. ASSUME NEW c \in Clients, Servers!Client(c) PROVE ServersInv'
  BY <1>10 DEF Servers!Client, Servers!HandOver, Servers!HangUp
<1>11. CASE Servers!Destroy
  BY <1>11 DEF Servers!Destroy, Servers!Faults
<1>12. CASE UNCHANGED serverVars
  BY <1>12 DEF serverVars
<1> QED
  BY <1>1, <1>2, <1>3, <1>4, <1>5, <1>6, <1>7, <1>8, <1>9, <1>10, <1>11, <1>12
     DEF Servers!Next, Servers!Accept, Servers!Thread, Servers!Erasing

(* Whatever the threads of any number of servlets do, each servlet is      *)
(* destroyed exactly when it leaves the list, under the mutex, with its    *)
(* thread detached or at its end.                                          *)
THEOREM ServletsAreOwned == ServersSpec => []Servers!ServletsOwned
<1>1. Servers!Init => ServersInv
  BY DEF Servers!Init, ServersInv, ServersType, EmptyInv, Servers!ServletsOwned
<1>2. ServersInv /\ [Servers!Next]_serverVars => ServersInv'
  BY ServersStep, ServicesAssumption
<1>3. ServersInv => Servers!ServletsOwned
  BY DEF ServersInv
<1> QED
  BY <1>1, <1>2, <1>3, PTL DEF ServersSpec

-----------------------------------------------------------------------------
(* RemoteObjects: the pools of a server's servlets *)

(* Beside what is required: an object that exists has not been destroyed.  *)
RemoteInv ==
    /\ known \in [Servlets -> SUBSET Objects]
    /\ alive \subseteq Objects
    /\ up \subseteq Servlets
    /\ destroyed \in [Objects -> Nat]
    /\ \A o \in alive : destroyed[o] = 0
    /\ Remote!ObjectsOwned

(* Whatever addresses the clients of any number of servlets send, an       *)
(* object that a servlet knows exists, is known to no other, and none is   *)
(* destroyed twice.                                                        *)
THEOREM ObjectsAreOwned == RemoteSpec => []Remote!ObjectsOwned
<1>1. Remote!Init => RemoteInv
  BY DEF Remote!Init, RemoteInv, Remote!ObjectsOwned
<1>2. RemoteInv /\ [Remote!Next]_remoteVars => RemoteInv'
  <2> SUFFICES ASSUME RemoteInv, [Remote!Next]_remoteVars PROVE RemoteInv'
    OBVIOUS
  <2> USE DEF RemoteInv, Remote!ObjectsOwned, Remote!Once
  <2>1. ASSUME NEW s \in up, Remote!Leave(s) PROVE RemoteInv'
    BY <2>1 DEF Remote!Leave
  <2>2. ASSUME NEW s \in up, NEW o \in Objects, Remote!Construct(s, o) PROVE RemoteInv'
    BY <2>2 DEF Remote!Construct
  <2>3. ASSUME NEW s \in up, NEW o \in Objects, Remote!DestructOne(s, o) PROVE RemoteInv'
    BY <2>3 DEF Remote!DestructOne
  <2>4. ASSUME NEW s \in up, NEW p \in Objects, NEW q \in Objects, NEW throws \in BOOLEAN,
               Remote!Destruct(s, p, q, throws)
        PROVE  RemoteInv'
    BY <2>4 DEF Remote!Destruct
  <2>5. CASE UNCHANGED remoteVars
    BY <2>5 DEF remoteVars
  <2> QED
    BY <2>1, <2>2, <2>3, <2>4, <2>5 DEF Remote!Next
<1>3. RemoteInv => Remote!ObjectsOwned
  BY DEF RemoteInv
<1> QED
  BY <1>1, <1>2, <1>3, PTL DEF RemoteSpec

-----------------------------------------------------------------------------
(* MemoryRpc: the segments of a call that does not fit in the page *)

RpcType ==
    /\ turn \in {"store", "decode", "execute", "encode", "load", "return", "left"}
    /\ call \in Rpc!Calls
    /\ own \in [Rpc!Sides -> BOOLEAN]
    /\ mapped \in [Rpc!Sides -> Segments \union {NoName}]
    /\ buffer \in [internal : BOOLEAN, preserved : BOOLEAN]
    /\ page \in [internal : BOOLEAN, error : BOOLEAN, name : Segments \union {NoName},
                 body : {"none", "arguments", "result", "name", "overwritten"}]

(* The segments that exist are those that a side owns, no two the same. *)
Owned(s) == IF own[s] THEN {mapped[s]} ELSE {}
SegmentsInv ==
    /\ linked = Owned("client") \union Owned("server")
    /\ ~ (own["client"] /\ own["server"] /\ mapped["client"] = mapped["server"])
    /\ turn \in {"store", "left"} => ~ own["client"] /\ mapped["client"] = NoName
    /\ turn = "left" => ~ own["server"]

(* What page and buffer refer to exists until it has been mapped; what a   *)
(* request refers to is the client's, so that the servlet, which lets go   *)
(* of the segment of its last reply then, does not unlink it.              *)
NamedInv ==
    /\ turn = "decode" /\ ~ page.internal => own["client"] /\ mapped["client"] = page.name
    /\ turn = "load" /\ ~ page.internal => page.name \in linked
    /\ turn \in {"execute", "encode"} /\ ~ buffer.internal => mapped["server"] \in linked

(* Where the bytes of a reply are: of a request that was in the page the   *)
(* buffer has preserved the header.                                        *)
ReplyInv ==
    /\ turn = "decode" => page.internal = ~ call.large
    /\ turn \in {"execute", "encode"} => buffer.preserved = ~ call.large
    /\ turn = "encode" /\ call.ends # "void" =>
           buffer.internal = ~ call.long /\ (buffer.internal => page.body = "result")
    /\ turn = "load" =>
           /\ page.error = (call.ends = "throw")
           /\ call.ends # "void" =>
                  page.internal = ~ call.long /\ (page.internal /\ ~ call.large => page.body = "result")

RpcInv == RpcType /\ SegmentsInv /\ NamedInv /\ ReplyInv /\ Rpc!ReplyRightInPage

(* What an allocator does keeps to sides and names. *)
LEMMA AllocatorsTyped ==
    ASSUME own \in [Rpc!Sides -> BOOLEAN], mapped \in [Rpc!Sides -> Segments \union {NoName}],
           NEW s \in Rpc!Sides, NEW name \in Segments \union {NoName},
           Rpc!Allocate(s, name) \/ Rpc!Set(s, name) \/ Rpc!Deallocate(s)
    PROVE  /\ own' \in [Rpc!Sides -> BOOLEAN]
           /\ mapped' \in [Rpc!Sides -> Segments \union {NoName}]
BY DEF Rpc!Allocate, Rpc!Set, Rpc!Deallocate

(* Each turn of a call keeps segments, names and the reply in order. *)
LEMMA RpcStep == RpcInv /\ [Rpc!Next]_rpcVars => RpcInv'
<1> SUFFICES ASSUME RpcInv, [Rpc!Next]_rpcVars PROVE RpcInv'
  OBVIOUS
<1> USE DEF RpcInv
<1>0. /\ call.large \in BOOLEAN /\ call.long \in BOOLEAN /\ call.ends \in {"void", "value", "throw"}
      /\ page.internal \in BOOLEAN /\ page.error \in BOOLEAN /\ buffer.internal \in BOOLEAN
      /\ page.name \in Segments \union {NoName}
      /\ mapped["server"] \in Segments \union {NoName}
      /\ "client" \in Rpc!Sides /\ "server" \in Rpc!Sides /\ NoName \in Segments \union {NoName}
  BY DEF RpcType, Rpc!Calls, Rpc!Sides
<1>1. CASE Rpc!StoreHeader
  <2>1. own' \in [Rpc!Sides -> BOOLEAN] /\ mapped' \in [Rpc!Sides -> Segments \union {NoName}]
    BY <1>0, <1>1, AllocatorsTyped DEF RpcType, Rpc!StoreHeader, Rpc!Allocators
  <2>2. /\ turn' \in {"store", "decode", "execute", "encode", "load", "return", "left"}
        /\ call' \in Rpc!Calls
        /\ buffer' \in [internal : BOOLEAN, preserved : BOOLEAN]
    BY <1>0, <1>1 DEF RpcType, Rpc!StoreHeader
  <2>3. page' \in [internal : BOOLEAN, error : BOOLEAN, name : Segments \union {NoName},
                   body : {"none", "arguments", "result", "name", "overwritten"}]
    BY <1>0, <1>1 DEF RpcType, Rpc!StoreHeader
  <2>4. SegmentsInv'
    BY <1>1 DEF RpcType, SegmentsInv, NamedInv, Owned, Rpc!StoreHeader, Rpc!Kept, Rpc!Allocate, Rpc!Set,
       Rpc!Deallocate, Rpc!Allocators, Rpc!Sides
  <2>5. NamedInv'
    <3>1. CASE call'.large
      <4>1. PICK name \in Segments :
                 /\ Rpc!Allocate("client", name)
                 /\ page' = [page EXCEPT !.internal = FALSE, !.name = name]
        BY <1>1, <3>1 DEF Rpc!StoreHeader
      <4>2. own'["client"] /\ mapped'["client"] = name /\ page'.name = name
        BY <4>1 DEF Rpc!Allocate, RpcType, Rpc!Sides
      <4> QED
        BY <1>1, <4>2 DEF NamedInv, Rpc!StoreHeader
    <3>2. CASE ~ call'.large
      <4>1. page' = [page EXCEPT !.internal = TRUE, !.body = "arguments"]
        BY <1>1, <3>2, Zenon DEF Rpc!StoreHeader
      <4> QED
        BY <1>1, <4>1 DEF NamedInv, Rpc!StoreHeader, RpcType
    <3> QED
      BY <3>1, <3>2
  <2>6. (ReplyInv /\ Rpc!ReplyRightInPage)'
    BY <1>1 DEF RpcType, ReplyInv, Rpc!ReplyRightInPage, Rpc!StoreHeader, Rpc!Calls
  <2> QED
    BY <2>1, <2>2, <2>3, <2>4, <2>5, <2>6 DEF RpcType
<1>2. CASE Rpc!Decode
  <2>0. \/ page.internal /\ buffer' = [internal |-> TRUE, preserved |-> TRUE] /\ UNCHANGED Rpc!Allocators
        \/ /\ ~ page.internal /\ buffer' = [internal |-> FALSE, preserved |-> FALSE]
           /\ Rpc!Set("server", page.name)
    BY <1>2, Zenon DEF Rpc!Decode
  <2>1. own' \in [Rpc!Sides -> BOOLEAN] /\ mapped' \in [Rpc!Sides -> Segments \union {NoName}]
    BY <1>0, <1>2, AllocatorsTyped DEF RpcType, Rpc!Decode, Rpc!Allocators
  <2>2. turn' = "execute" /\ UNCHANGED <<call, page, got>>
    BY <1>2 DEF Rpc!Decode
  <2>3. buffer' \in [internal : BOOLEAN, preserved : BOOLEAN]
    <3>1. \/ buffer' = [internal |-> TRUE, preserved |-> TRUE]
          \/ buffer' = [internal |-> FALSE, preserved |-> FALSE]
      BY <2>0, Zenon
    <3>2. \A b, c \in BOOLEAN :
              [internal |-> b, preserved |-> c] \in [internal : BOOLEAN, preserved : BOOLEAN]
      OBVIOUS
    <3> QED
      BY <3>1, <3>2, Zenon
  <2>4. SegmentsInv'
    BY <1>2 DEF RpcType, SegmentsInv, NamedInv, Owned, Rpc!Decode, Rpc!Kept, Rpc!Allocate, Rpc!Set,
       Rpc!Deallocate, Rpc!Allocators, Rpc!Sides
  <2>5. NamedInv'
    <3>1. turn = "decode" /\ (~ page.internal => own["client"] /\ mapped["client"] = page.name)
      BY <1>2 DEF Rpc!Decode, NamedInv
    <3>2. CASE page.internal
      <4>1. buffer' = [internal |-> TRUE, preserved |-> TRUE]
        BY <2>0, <3>2, Zenon
      <4> QED
        BY <2>2, <4>1 DEF NamedInv
    <3>3. CASE ~ page.internal
      <4>1. Rpc!Set("server", page.name)
        BY <2>0, <3>3, Zenon
      <4>2. own' = [own EXCEPT !["server"] = FALSE] /\ mapped'["server"] = page.name
        BY <4>1 DEF Rpc!Set, RpcType, Rpc!Sides
      <4>3. mapped'["server"] \in linked'
        BY <4>1, <4>2, <3>1, <3>3 DEF RpcType, SegmentsInv, Owned, Rpc!Set, Rpc!Kept, Rpc!Sides
      <4> QED
        BY <2>2, <4>3 DEF NamedInv
    <3> QED
      BY <3>2, <3>3
  <2>6. (ReplyInv /\ Rpc!ReplyRightInPage)'
    <3>1. page.internal = ~ call.large
      BY <1>2 DEF Rpc!Decode, ReplyInv
    <3>2. buffer'.preserved = page.internal
      <4>1. CASE page.internal
        <5>1. buffer' = [internal |-> TRUE, preserved |-> TRUE]
          BY <2>0, <4>1, Zenon
        <5>2. page.internal = TRUE
          BY <1>0, <4>1
        <5> QED
          BY <5>1, <5>2
      <4>2. CASE ~ page.internal
        <5>1. buffer' = [internal |-> FALSE, preserved |-> FALSE]
          BY <2>0, <4>2, Zenon
        <5>2. page.internal = FALSE
          BY <1>0, <4>2
        <5> QED
          BY <5>1, <5>2
      <4> QED
        BY <4>1, <4>2
    <3>3. buffer'.preserved = ~ call'.large
      BY <2>2, <3>1, <3>2, Zenon
    <3> QED
      BY <2>2, <3>3, Zenon DEF ReplyInv, Rpc!ReplyRightInPage
  <2> QED
    BY <2>1, <2>2, <2>3, <2>4, <2>5, <2>6 DEF RpcType
<1>3. CASE Rpc!Execute
  <2>1. own' \in [Rpc!Sides -> BOOLEAN] /\ mapped' \in [Rpc!Sides -> Segments \union {NoName}]
    BY <1>0, <1>3, AllocatorsTyped DEF RpcType, Rpc!Execute, Rpc!Allocators
  <2>2. /\ turn' \in {"store", "decode", "execute", "encode", "load", "return", "left"}
        /\ call' \in Rpc!Calls
        /\ buffer' \in [internal : BOOLEAN, preserved : BOOLEAN]
    BY <1>0, <1>3 DEF RpcType, Rpc!Execute
  <2>3. page' \in [internal : BOOLEAN, error : BOOLEAN, name : Segments \union {NoName},
                   body : {"none", "arguments", "result", "name", "overwritten"}]
    BY <1>0, <1>3 DEF RpcType, Rpc!Execute
  <2>4. SegmentsInv'
    BY <1>3 DEF RpcType, SegmentsInv, NamedInv, Owned, Rpc!Execute, Rpc!Kept, Rpc!Allocate, Rpc!Set,
       Rpc!Deallocate, Rpc!Allocators, Rpc!Sides
  <2>5. NamedInv'
    BY <1>3 DEF RpcType, SegmentsInv, NamedInv, Owned, Rpc!Execute, Rpc!Kept, Rpc!Allocate, Rpc!Set,
       Rpc!Deallocate, Rpc!Allocators, Rpc!Sides
  <2>6. (ReplyInv /\ Rpc!ReplyRightInPage)'
    BY <1>3 DEF RpcType, ReplyInv, Rpc!ReplyRightInPage, Rpc!Execute, Rpc!Calls
  <2> QED
    BY <2>1, <2>2, <2>3, <2>4, <2>5, <2>6 DEF RpcType
<1>4. CASE Rpc!Encode
  <2>1. own' \in [Rpc!Sides -> BOOLEAN] /\ mapped' \in [Rpc!Sides -> Segments \union {NoName}]
    BY <1>0, <1>4, AllocatorsTyped DEF RpcType, Rpc!Encode, Rpc!Allocators
  <2>2. /\ turn' \in {"store", "decode", "execute", "encode", "load", "return", "left"}
        /\ call' \in Rpc!Calls
        /\ buffer' \in [internal : BOOLEAN, preserved : BOOLEAN]
    BY <1>0, <1>4 DEF RpcType, Rpc!Encode
  <2>3. page' \in [internal : BOOLEAN, error : BOOLEAN, name : Segments \union {NoName},
                   body : {"none", "arguments", "result", "name", "overwritten"}]
    BY <1>0, <1>4 DEF RpcType, Rpc!Encode
  <2>4. SegmentsInv'
    BY <1>4 DEF RpcType, SegmentsInv, NamedInv, Owned, Rpc!Encode, Rpc!Kept, Rpc!Allocate, Rpc!Set,
       Rpc!Deallocate, Rpc!Allocators, Rpc!Sides
  <2>5. NamedInv'
    BY <1>4 DEF RpcType, SegmentsInv, NamedInv, Owned, Rpc!Encode, Rpc!Kept, Rpc!Allocate, Rpc!Set,
       Rpc!Deallocate, Rpc!Allocators, Rpc!Sides
  <2>6. (ReplyInv /\ Rpc!ReplyRightInPage)'
    BY <1>4 DEF RpcType, ReplyInv, Rpc!ReplyRightInPage, Rpc!Encode, Rpc!Calls
  <2> QED
    BY <2>1, <2>2, <2>3, <2>4, <2>5, <2>6 DEF RpcType
<1>5. CASE Rpc!LoadHeader
  <2>1. own' \in [Rpc!Sides -> BOOLEAN] /\ mapped' \in [Rpc!Sides -> Segments \union {NoName}]
    BY <1>0, <1>5, AllocatorsTyped DEF RpcType, Rpc!LoadHeader, Rpc!Allocators
  <2>2. /\ turn' \in {"store", "decode", "execute", "encode", "load", "return", "left"}
        /\ call' \in Rpc!Calls
        /\ buffer' \in [internal : BOOLEAN, preserved : BOOLEAN]
    BY <1>0, <1>5 DEF RpcType, Rpc!LoadHeader
  <2>3. page' \in [internal : BOOLEAN, error : BOOLEAN, name : Segments \union {NoName},
                   body : {"none", "arguments", "result", "name", "overwritten"}]
    BY <1>0, <1>5 DEF RpcType, Rpc!LoadHeader
  <2>4. SegmentsInv'
    BY <1>5 DEF RpcType, SegmentsInv, NamedInv, Owned, Rpc!LoadHeader, Rpc!Kept, Rpc!Allocate, Rpc!Set,
       Rpc!Deallocate, Rpc!Allocators, Rpc!Sides
  <2>5. NamedInv'
    BY <1>5 DEF RpcType, SegmentsInv, NamedInv, Owned, Rpc!LoadHeader, Rpc!Kept, Rpc!Allocate, Rpc!Set,
       Rpc!Deallocate, Rpc!Allocators, Rpc!Sides
  <2>6. (ReplyInv /\ Rpc!ReplyRightInPage)'
    BY <1>5 DEF RpcType, ReplyInv, Rpc!ReplyRightInPage, Rpc!LoadHeader, Rpc!Calls
  <2> QED
    BY <2>1, <2>2, <2>3, <2>4, <2>5, <2>6 DEF RpcType
<1>6. CASE Rpc!Return
  <2>1. own' \in [Rpc!Sides -> BOOLEAN] /\ mapped' \in [Rpc!Sides -> Segments \union {NoName}]
    BY <1>0, <1>6, AllocatorsTyped DEF RpcType, Rpc!Return
  <2>2. /\ turn' \in {"store", "decode", "execute", "encode", "load", "return", "left"}
        /\ call' \in Rpc!Calls
        /\ buffer' \in [internal : BOOLEAN, preserved : BOOLEAN]
    BY <1>0, <1>6 DEF RpcType, Rpc!Return
  <2>3. page' \in [internal : BOOLEAN, error : BOOLEAN, name : Segments \union {NoName},
                   body : {"none", "arguments", "result", "name", "overwritten"}]
    BY <1>0, <1>6 DEF RpcType, Rpc!Return
  <2>4. SegmentsInv'
    BY <1>6 DEF RpcType, SegmentsInv, NamedInv, Owned, Rpc!Return, Rpc!Kept, Rpc!Allocate, Rpc!Set,
       Rpc!Deallocate, Rpc!Allocators, Rpc!Sides
  <2>5. NamedInv'
    BY <1>6 DEF RpcType, SegmentsInv, NamedInv, Owned, Rpc!Return, Rpc!Kept, Rpc!Allocate, Rpc!Set,
       Rpc!Deallocate, Rpc!Allocators, Rpc!Sides
  <2>6. (ReplyInv /\ Rpc!ReplyRightInPage)'
    BY <1>6 DEF RpcType, ReplyInv, Rpc!ReplyRightInPage, Rpc!Return, Rpc!Calls
  <2> QED
    BY <2>1, <2>2, <2>3, <2>4, <2>5, <2>6 DEF RpcType
<1>7. CASE Rpc!Leave
  <2>1. own' \in [Rpc!Sides -> BOOLEAN] /\ mapped' \in [Rpc!Sides -> Segments \union {NoName}]
    BY <1>0, <1>7, AllocatorsTyped DEF RpcType, Rpc!Leave
  <2>2. /\ turn' \in {"store", "decode", "execute", "encode", "load", "return", "left"}
        /\ call' \in Rpc!Calls
        /\ buffer' \in [internal : BOOLEAN, preserved : BOOLEAN]
    BY <1>0, <1>7 DEF RpcType, Rpc!Leave
  <2>3. page' \in [internal : BOOLEAN, error : BOOLEAN, name : Segments \union {NoName},
                   body : {"none", "arguments", "result", "name", "overwritten"}]
    BY <1>0, <1>7 DEF RpcType, Rpc!Leave
  <2>4. SegmentsInv'
    BY <1>7 DEF RpcType, SegmentsInv, NamedInv, Owned, Rpc!Leave, Rpc!Kept, Rpc!Allocate, Rpc!Set,
       Rpc!Deallocate, Rpc!Allocators, Rpc!Sides
  <2>5. NamedInv'
    BY <1>7 DEF RpcType, SegmentsInv, NamedInv, Owned, Rpc!Leave, Rpc!Kept, Rpc!Allocate, Rpc!Set,
       Rpc!Deallocate, Rpc!Allocators, Rpc!Sides
  <2>6. (ReplyInv /\ Rpc!ReplyRightInPage)'
    BY <1>7 DEF RpcType, ReplyInv, Rpc!ReplyRightInPage, Rpc!Leave, Rpc!Calls
  <2> QED
    BY <2>1, <2>2, <2>3, <2>4, <2>5, <2>6 DEF RpcType
<1>8. CASE UNCHANGED rpcVars
  BY <1>8 DEF rpcVars, RpcType, SegmentsInv, NamedInv, Owned, ReplyInv, Rpc!ReplyRightInPage, Rpc!Calls
<1> QED
  BY <1>1, <1>2, <1>3, <1>4, <1>5, <1>6, <1>7, <1>8 DEF Rpc!Next

(* Whatever calls a client makes and however they end, no segment is left  *)
(* behind, and none goes before the other side has mapped it.              *)
THEOREM SegmentsAreReturned == RpcSpec => [](Rpc!SegmentsReturned /\ Rpc!ReplyRightInPage)
<1>1. Rpc!Init => RpcInv
  BY DEF Rpc!Init, RpcInv, RpcType, SegmentsInv, NamedInv, Owned, ReplyInv, Rpc!ReplyRightInPage,
         Rpc!Sides, Rpc!Calls
<1>2. RpcInv => Rpc!SegmentsReturned /\ Rpc!ReplyRightInPage
  BY DEF RpcInv, RpcType, SegmentsInv, NamedInv, Owned, Rpc!SegmentsReturned, Rpc!Sides
<1> QED
  BY <1>1, <1>2, RpcStep, PTL DEF RpcSpec

-----------------------------------------------------------------------------
(* ScriptObjects: the objects in the hands of a script *)

Wraps == [object : Natives, owns : BOOLEAN, meta : BOOLEAN]

ScriptType ==
    /\ native \in [Natives -> {"none", "live", "deleted"}]
    /\ deletions \in [Natives -> Nat]
    /\ wrap \in [Wrappers -> Wraps \union {Unwrapped}]
    /\ lost \subseteq Natives
    /\ taken \in BOOLEAN
    /\ broken \in {"none", "spent", "owner", "pointer"}

(* The wrapper will delete the object. *)
Owns(w, o) == wrap[w] # Unwrapped /\ wrap[w].object = o /\ wrap[w].owns /\ wrap[w].meta

(* An object has an owner exactly from its construction to its deletion,   *)
(* and one only, unless a call forgot it.                                  *)
OwnerInv == \A o \in Natives :
    /\ deletions[o] = IF native[o] = "deleted" THEN 1 ELSE 0
    /\ o \in lost => native[o] # "none"
    /\ \A w \in Wrappers : Owns(w, o) => native[o] = "live" /\ o \notin lost
    /\ \A v, w \in Wrappers : Owns(v, o) /\ Owns(w, o) => v = w
    /\ native[o] = "live" /\ o \notin lost => \E w \in Wrappers : Owns(w, o)

ScriptInv == ScriptType /\ (~ taken => OwnerInv /\ broken # "owner")

(* Every step of a script or of its collector keeps the one owner. *)
LEMMA ScriptStep ==
    ASSUME UnwrappedDistinct PROVE ScriptInv /\ [Script!ScriptNext]_scriptVars => ScriptInv'
<1> SUFFICES ASSUME ScriptInv, [Script!ScriptNext]_scriptVars PROVE ScriptInv'
  OBVIOUS
<1> USE DEF UnwrappedDistinct, ScriptInv, ScriptType, Wraps, Script!Wrapped, Script!Object,
            Script!Deleted
<1>1. ASSUME NEW w \in Wrappers, NEW o \in Natives, Script!PushClass(w, o) PROVE ScriptInv'
  <2>1. ScriptType'
    BY <1>1 DEF Script!PushClass
  <2>2. \A v \in Wrappers, p \in Natives : Owns(v, p)' <=> Owns(v, p) \/ (v = w /\ p = o)
    <3> SUFFICES ASSUME NEW v \in Wrappers, NEW p \in Natives
                 PROVE  Owns(v, p)' <=> Owns(v, p) \/ (v = w /\ p = o)
      OBVIOUS
    <3>1. CASE v = w
      <4>1. ~ Owns(v, p)
        BY <1>1, <3>1 DEF Script!PushClass, Owns
      <4>2. /\ wrap'[v].object = o
            /\ wrap'[v].owns = TRUE
            /\ wrap'[v].meta = TRUE
            /\ wrap'[v] \in Wraps
        BY <1>1, <3>1 DEF Script!PushClass
      <4> QED
        BY <3>1, <4>1, <4>2 DEF Owns
    <3>2. CASE v # w
      <4>1. wrap'[v] = wrap[v]
        BY <1>1, <3>2 DEF Script!PushClass
      <4> QED
        BY <3>2, <4>1, Zenon DEF Owns
    <3> QED
      BY <3>1, <3>2
  <2>3. ~ taken' => OwnerInv' /\ broken' # "owner"
    BY <1>1, <2>2 DEF Script!PushClass, OwnerInv
  <2> QED
    BY <2>1, <2>3
<1>2. ASSUME NEW w \in Wrappers, NEW o \in Natives, Script!PushPointer(w, o) PROVE ScriptInv'
  <2>1. ScriptType'
    BY <1>2 DEF Script!PushPointer
  <2>2. \A v \in Wrappers, p \in Natives : Owns(v, p)' <=> Owns(v, p)
    BY <1>2 DEF Script!PushPointer, Owns
  <2>3. ~ taken' => OwnerInv' /\ broken' # "owner"
    BY <1>2, <2>2 DEF Script!PushPointer, OwnerInv
  <2> QED
    BY <2>1, <2>3
<1>3. ASSUME NEW w \in Wrappers, Script!Collect(w) PROVE ScriptInv'
  <2>1. ScriptType'
    BY <1>3 DEF Script!Collect
  <2>2. \A v \in Wrappers, p \in Natives : Owns(v, p)' <=> Owns(v, p) /\ v # w
    BY <1>3 DEF Script!Collect, Owns
  <2>3. ~ taken' => OwnerInv' /\ broken' # "owner"
    BY <1>3, <2>2 DEF Script!Collect, OwnerInv, Owns
  <2> QED
    BY <2>1, <2>3
<1>4. ASSUME NEW w \in Wrappers, Script!Use(w) PROVE ScriptInv'
  <2>1. /\ UNCHANGED <<native, deletions, wrap, lost, taken>>
        /\ wrap[w] \in Wraps /\ broken' \in {"spent", "owner", "pointer"}
        /\ broken' = "owner" => /\ wrap[w].meta /\ wrap[w].owns
                                /\ native[wrap[w].object] = "deleted"
    BY <1>4 DEF Script!Use, Script!Misused
  <2>2. ~ taken => broken' # "owner"
    <3>1. wrap[w] # Unwrapped /\ wrap[w].object \in Natives
      BY <2>1
    <3>2. broken' = "owner" => Owns(w, wrap[w].object)
      BY <2>1, <3>1 DEF Owns
    <3> QED
      BY <2>1, <3>1, <3>2 DEF OwnerInv
  <2>3. ScriptType' /\ (OwnerInv => OwnerInv')
    BY <2>1 DEF OwnerInv, Owns
  <2> QED
    BY <2>1, <2>2, <2>3
<1>5. ASSUME NEW w \in Wrappers, NEW runs \in BOOLEAN, Script!Destruct(w, runs)
      PROVE  ScriptInv'
  <2> SUFFICES ASSUME ~ Script!Use(w) PROVE ScriptInv'
    BY <1>4
  <2>4. /\ wrap[w] \in Wraps /\ wrap[w].meta
        /\ wrap' = [wrap EXCEPT ![w].meta = FALSE]
        /\ taken' = (taken \/ ~ wrap[w].owns)
        /\ IF runs THEN Script!Deleted(wrap[w].object) /\ UNCHANGED lost
           ELSE lost' = lost \cup {wrap[w].object} /\ UNCHANGED <<native, deletions>>
        /\ IF runs /\ native[wrap[w].object] = "deleted" THEN Script!Misused(w)
           ELSE UNCHANGED broken
    BY <1>5 DEF Script!Destruct
  <2>5. /\ broken' \in {"none", "spent", "owner", "pointer"}
        /\ broken' = broken \/ (broken' = "owner" => wrap[w].owns
                                                     /\ native[wrap[w].object] = "deleted")
    BY <2>4 DEF Script!Misused
  <2>1. ScriptType'
    <3>1. /\ wrap[w] \in Wraps
          /\ [wrap[w] EXCEPT !.meta = FALSE] \in Wraps
      BY <2>4
    <3>2. wrap' \in [Wrappers -> Wraps \union {Unwrapped}]
      BY <2>4, <3>1, Zenon
    <3>3. wrap[w].object \in Natives /\ wrap[w].owns \in BOOLEAN
      BY <3>1
    <3> QED
      BY <2>4, <2>5, <3>2, <3>3
  <2>2. \A v \in Wrappers, p \in Natives : Owns(v, p)' <=> Owns(v, p) /\ v # w
    <3> SUFFICES ASSUME NEW v \in Wrappers, NEW p \in Natives
                 PROVE  Owns(v, p)' <=> Owns(v, p) /\ v # w
      OBVIOUS
    <3>1. CASE v = w
      <4>1. wrap'[v].meta = FALSE
        BY <2>4, <3>1
      <4> QED
        BY <3>1, <4>1, Zenon DEF Owns
    <3>2. CASE v # w
      <4>1. wrap'[v] = wrap[v]
        BY <2>4, <3>2
      <4> QED
        BY <3>2, <4>1, Zenon DEF Owns
    <3> QED
      BY <3>1, <3>2
  <2>3. ~ taken' => OwnerInv' /\ broken' # "owner"
    <3> SUFFICES ASSUME ~ taken' PROVE OwnerInv' /\ broken' # "owner"
      OBVIOUS
    <3>1. ~ taken /\ wrap[w].owns /\ wrap[w].object \in Natives /\ Owns(w, wrap[w].object)
      BY <2>4 DEF Owns
    <3>2. native[wrap[w].object] = "live"
      BY <3>1 DEF OwnerInv
    <3>3. broken' # "owner"
      BY <2>5, <3>1, <3>2
    <3>4. OwnerInv'
      BY <2>2, <2>4, <3>1 DEF OwnerInv, Owns
    <3> QED
      BY <3>3, <3>4
  <2> QED
    BY <2>1, <2>3
<1>6. CASE UNCHANGED scriptVars
  BY <1>6 DEF scriptVars, OwnerInv, Owns
<1> QED
  BY <1>1, <1>2, <1>3, <1>4, <1>5, <1>6 DEF Script!ScriptNext

(* Scripts never delete an object twice, one that lives has the one wrapper *)
(* that will delete it, and that never leads to a deleted one, provided    *)
(* that what is destroyed is the wrapper that owns the object.  A second   *)
(* use of a wrapper whose object was destroyed is undefined in the code,   *)
(* and the behaviour ends there.                                           *)
THEOREM ScriptsOwnOnce == ScriptSpec => []Script!ScriptOwnsOnce
<1>1. Script!ScriptInit => ScriptInv
  <2> SUFFICES ASSUME Script!ScriptInit PROVE ScriptInv
    OBVIOUS
  <2>1. ScriptType
    BY DEF Script!ScriptInit, ScriptType
  <2>2. \A w \in Wrappers, o \in Natives : ~ Owns(w, o)
    BY Zenon DEF Script!ScriptInit, Owns
  <2>3. OwnerInv /\ broken # "owner"
    BY <2>2 DEF Script!ScriptInit, OwnerInv
  <2> QED
    BY <2>1, <2>3 DEF ScriptInv
<1>2. ScriptInv => Script!ScriptOwnsOnce
  <2> SUFFICES ASSUME ScriptInv PROVE Script!ScriptOwnsOnce
    OBVIOUS
  <2>1. ASSUME ~ taken, NEW o \in Natives
        PROVE  /\ deletions[o] <= 1
               /\ native[o] = "live" /\ o \notin lost =>
                      Cardinality({w \in Wrappers : Owns(w, o)}) = 1
    <3>1. deletions[o] <= 1
      <4>1. deletions[o] = IF native[o] = "deleted" THEN 1 ELSE 0
        BY <2>1, Zenon DEF ScriptInv, OwnerInv
      <4> QED
        BY <4>1
    <3>2. ASSUME native[o] = "live", o \notin lost
          PROVE  Cardinality({w \in Wrappers : Owns(w, o)}) = 1
      <4>1. PICK w \in Wrappers : Owns(w, o)
        BY <2>1, <3>2, Zenon DEF ScriptInv, OwnerInv
      <4>2. {v \in Wrappers : Owns(v, o)} = {w}
        BY <2>1, <4>1, Zenon DEF ScriptInv, OwnerInv
      <4> QED
        BY <4>2, FS_Singleton
    <3> QED
      BY <3>1, <3>2
  <2>2. ASSUME NEW o \in Natives
        PROVE  {w \in Wrappers : Script!Wrapped(w) /\ Script!Object(w) = o /\ wrap[w].owns /\ wrap[w].meta}
                   = {w \in Wrappers : Owns(w, o)}
    BY Zenon DEF Script!Wrapped, Script!Object, Owns
  <2>3. ASSUME ~ taken, NEW o \in Natives
        PROVE  /\ deletions[o] <= 1
               /\ native[o] = "live" /\ o \notin lost =>
                      Cardinality({w \in Wrappers : Script!Wrapped(w) /\ Script!Object(w) = o /\ wrap[w].owns /\ wrap[w].meta}) = 1
    BY <2>1, <2>2, <2>3, Zenon
  <2> QED
    BY <2>3, SameCardinality DEF ScriptInv, Script!ScriptOwnsOnce
<1>3. ScriptInv /\ [Script!ScriptNext]_scriptVars => ScriptInv'
  BY ScriptStep, ServicesAssumption
<1> QED
  BY <1>1, <1>2, <1>3, PTL DEF ScriptSpec

-----------------------------------------------------------------------------
(* ScriptCalls: the libraries that scripts have loaded *)

Loads == [of : Libraries, has : BOOLEAN]

CallsType ==
    /\ host \in {"lua", "python", "closed"}
    /\ opened \in [Libraries -> Nat]
    /\ table \in [Tables -> Loads \union {Unwrapped}]
    /\ held \subseteq Libraries \X {"function", "object", "spent"}
    /\ callFault \in {"none", "unmapped", "unknown"} /\ careless \in BOOLEAN

(* The tables of a library. *)
Of(l) == {t \in Tables : table[t] # Unwrapped /\ table[t].of = l}

OpenedInv == \A l \in Libraries : opened[l] = Cardinality(Of(l))

(* A careful script has a table of each library it has something of. *)
CarefulInv ==
    ~ careless => \A l \in Libraries : Calls!Holds(l) => \E t \in Of(l) : table[t].has

CallsInv ==
    /\ CallsType /\ OpenedInv /\ CarefulInv
    /\ callFault = "unmapped" => careless
    /\ callFault = "unknown" => host = "python" \/ Calls!Spent # {}
    /\ returned.ran => returned.right

(* A careful script has open what it has something of. *)
LEMMA CarefulOpens ==
    ASSUME IsFiniteSet(Tables), CallsInv, ~ careless, NEW l \in Libraries, Calls!Holds(l)
    PROVE  opened[l] # 0
<1>1. PICK t \in Of(l) : table[t].has
  BY DEF CallsInv, CarefulInv
<1>2. IsFiniteSet(Of(l))
  BY FS_Subset DEF Of
<1>3. Cardinality(Of(l)) # 0
  BY <1>1, <1>2, FS_EmptySet
<1> QED
  BY <1>3 DEF CallsInv, OpenedInv

Values == {"right", "wrong", "unknown"}

(* invoke runs a function of at most two parameters only with arguments of *)
(* the right types.                                                        *)
LEMMA RightArguments ==
    ASSUME NEW n \in 0 .. 2, NEW arguments \in [1 .. n -> Values], NEW throws,
           NEW size \in 0 .. 2, ~ Calls!Undefined(arguments, size)
    PROVE  Calls!InvokeFunction(arguments, size, throws).ran
               => Calls!InvokeFunction(arguments, size, throws).right
<1> DEFINE r == Calls!InvokeFunction(arguments, size, throws)
           every == \A i \in 1 .. size : arguments[i] = "right"
<1>1. CASE ~ Calls!Verified(arguments, size) \/ \E i \in 1 .. size : arguments[i] = "wrong"
  <2>1. r = Calls!Failed
    BY <1>1, Zenon DEF Calls!InvokeFunction
  <2> QED
    BY <2>1 DEF Calls!Failed
<1>2. CASE ~ (~ Calls!Verified(arguments, size) \/ \E i \in 1 .. size : arguments[i] = "wrong")
  <2>1. Len(arguments) >= size /\ \A i \in 1 .. size : arguments[i] # "wrong"
    BY <1>2 DEF Calls!Verified, Calls!VerifyLua, Calls!VerifyPython
  <2>2. Len(arguments) = n
    OBVIOUS
  <2>5. \A i \in 1 .. size : arguments[i] \in {"right", "unknown"}
    BY <2>1, <2>2 DEF Values
  <2>6. \A i \in 1 .. size :
            arguments[i] = "unknown" => \E j \in 1 .. i - 1 : arguments[j] # "right"
    BY <1>2 DEF Calls!Undefined
  <2>7. 1 \in 1 .. size => arguments[1] = "right"
    BY <2>5, <2>6
  <2>8. 2 \in 1 .. size => arguments[2] = "right"
    BY <2>5, <2>6, <2>7
  <2>3. every
    BY <2>7, <2>8
  <2>4. r = [ran |-> TRUE, right |-> every, seen |-> IF throws THEN "error" ELSE "value"]
    BY <1>2, Zenon DEF Calls!InvokeFunction
  <2> QED
    <3>1. r.ran => r.right
      <4> HIDE DEF r, every
      <4> QED
        BY <2>3, <2>4
    <3> QED
      BY <3>1
<1> QED
  BY <1>1, <1>2

(* A call of a function of a library, which leaves the script with some of *)
(* what it had and with spent wrappers.                                    *)
LEMMA InvokedStep ==
    ASSUME IsFiniteSet(Tables), CallsInv, NEW l \in Libraries, NEW n \in 0 .. 2,
           NEW arguments \in [1 .. n -> Values], NEW size \in 0 .. 2, NEW throws,
           NEW gives \in BOOLEAN,
           NEW kept \in SUBSET (Libraries \X {"function", "object", "spent"}),
           \A k \in Libraries, what \in {"function", "object"} :
               <<k, what>> \in kept => <<k, what>> \in held,
           Calls!Undefined(arguments, size)
               => host = "python" \/ \E k \in Libraries : <<k, "spent">> \in kept,
           Calls!Invoked(l, arguments, size, throws, kept, gives)
    PROVE  CallsInv'
<1>1. /\ <<l, "function">> \in held /\ callFault = "none"
      /\ IF opened[l] = 0
         THEN callFault' = "unmapped" /\ UNCHANGED <<returned, held>>
         ELSE IF Calls!Undefined(arguments, size)
         THEN callFault' = "unknown" /\ held' = kept /\ UNCHANGED returned
         ELSE /\ returned' = Calls!InvokeFunction(arguments, size, throws)
              /\ held' = IF gives /\ returned'.seen = "value"
                         THEN kept \union {<<l, "object">>} ELSE kept
              /\ UNCHANGED callFault
      /\ UNCHANGED <<host, opened, table, careless>>
  BY DEF Calls!Invoked, Calls!Running
<1>2. /\ CallsType /\ OpenedInv /\ CarefulInv /\ (returned.ran => returned.right)
      /\ Calls!Holds(l)
  BY <1>1 DEF CallsInv, Calls!Holds
<1>3. held' \in {held, kept, kept \union {<<l, "object">>}}
  BY <1>1
<1>4. CallsType' /\ OpenedInv'
  BY <1>1, <1>2, <1>3 DEF CallsType, OpenedInv, Of
<1>5. CarefulInv'
  <2>1. \A k \in Libraries : Calls!Holds(k)' => Calls!Holds(k)
    BY <1>2, <1>3 DEF Calls!Holds
  <2> QED
    BY <1>1, <1>2, <2>1, Zenon DEF CarefulInv, Of
<1>6. CASE opened[l] = 0
  <2>1. careless
    BY <1>2, <1>6, CarefulOpens
  <2> QED
    BY <1>1, <1>2, <1>4, <1>5, <1>6, <2>1 DEF CallsInv
<1>7. CASE opened[l] # 0 /\ Calls!Undefined(arguments, size)
  <2>1. callFault' = "unknown" /\ held' = kept /\ UNCHANGED <<host, returned>>
    BY <1>1, <1>7
  <2>2. host' = "python" \/ Calls!Spent' # {}
    BY <1>7, <2>1 DEF Calls!Spent
  <2> QED
    BY <1>2, <1>4, <1>5, <2>1, <2>2 DEF CallsInv
<1>8. CASE opened[l] # 0 /\ ~ Calls!Undefined(arguments, size)
  <2>1. returned' = Calls!InvokeFunction(arguments, size, throws) /\ callFault' = "none"
    BY <1>1, <1>8
  <2>2. returned'.ran => returned'.right
    BY <1>8, <2>1, RightArguments
  <2> QED
    BY <1>4, <1>5, <2>1, <2>2 DEF CallsInv
<1> QED
  BY <1>6, <1>7, <1>8

(* Every step of a script, of its collector or of its host keeps the       *)
(* libraries.                                                              *)
LEMMA CallsStep ==
    ASSUME UnwrappedDistinct, IsFiniteSet(Tables)
    PROVE  CallsInv /\ [Calls!CallsNext]_callVars => CallsInv'
<1> SUFFICES ASSUME CallsInv, [Calls!CallsNext]_callVars PROVE CallsInv'
  OBVIOUS
<1>0. /\ CallsType /\ OpenedInv /\ CarefulInv
      /\ callFault = "unmapped" => careless
      /\ callFault = "unknown" => host = "python" \/ Calls!Spent # {}
      /\ returned.ran => returned.right
  BY DEF CallsInv
<1>f. \A l \in Libraries : IsFiniteSet(Of(l))
  BY FS_Subset DEF Of
<1>1. CASE Calls!LoadFails
  <2>1. UNCHANGED <<host, opened, table, held, callFault, careless>> /\ returned' = Calls!Failed
    BY <1>1 DEF Calls!LoadFails
  <2> QED
    BY <1>0, <2>1, Zenon
       DEF CallsInv, CallsType, OpenedInv, CarefulInv, Of, Calls!Holds, Calls!Spent, Calls!Failed
<1>2. ASSUME NEW t \in Tables, NEW l \in Libraries, Calls!Load(t, l) PROVE CallsInv'
  <2>1. /\ table[t] = Unwrapped
        /\ opened' = [opened EXCEPT ![l] = opened[l] + 1]
        /\ table' = [table EXCEPT ![t] = [of |-> l, has |-> TRUE]]
        /\ UNCHANGED <<host, held, returned, callFault, careless>>
    BY <1>2 DEF Calls!Load, Calls!Open
  <2>2. CallsType'
    <3>1. [of |-> l, has |-> TRUE] \in Loads
      BY DEF Loads
    <3>2. opened' \in [Libraries -> Nat]
      BY <1>0, <2>1 DEF CallsType
    <3>3. table' \in [Tables -> Loads \union {Unwrapped}]
      BY <1>0, <2>1, <3>1, Zenon DEF CallsType
    <3> QED
      BY <1>0, <2>1, <3>2, <3>3 DEF CallsType
  <2>3. Of(l)' = Of(l) \union {t} /\ t \notin Of(l)
    <3>1. table'[t].of = l /\ table'[t] \in Loads
      BY <1>0, <2>1 DEF CallsType, Loads
    <3> QED
      BY <1>0, <2>1, <3>1 DEF CallsType, Of, UnwrappedDistinct, Loads
  <2>4. \A k \in Libraries \ {l} : Of(k)' = Of(k)
    BY <1>0, <2>1 DEF CallsType, Of
  <2>5. OpenedInv'
    <3>1. Cardinality(Of(l)') = Cardinality(Of(l)) + 1
      BY <1>f, <2>3, FS_AddElement
    <3> QED
      BY <1>0, <2>1, <2>4, <3>1 DEF OpenedInv, CallsType
  <2>6. CarefulInv'
    <3> SUFFICES ASSUME ~ careless', NEW k \in Libraries, Calls!Holds(k)'
                 PROVE  \E u \in Of(k)' : table'[u].has
      BY DEF CarefulInv
    <3>1. PICK u \in Of(k) : table[u].has
      BY <1>0, <2>1 DEF CarefulInv, Calls!Holds
    <3>2. u # t
      BY <2>1 DEF Of
    <3>3. table'[u] = table[u]
      BY <1>0, <2>1, <3>1, <3>2 DEF CallsType, Of
    <3>4. u \in Of(k)'
      BY <2>3, <2>4
    <3> QED
      BY <3>1, <3>3, <3>4, Zenon
  <2> QED
    BY <1>0, <2>1, <2>2, <2>5, <2>6 DEF CallsInv, Calls!Spent
<1>3. ASSUME NEW t \in Tables, Calls!Take(t) PROVE CallsInv'
  <2>1. /\ table[t] # Unwrapped /\ table[t].has
        /\ held' = held \union {<<table[t].of, "function">>}
        /\ UNCHANGED <<host, opened, table, returned, callFault, careless>>
    BY <1>3, Zenon DEF Calls!Take, Calls!Has
  <2>2. table[t].of \in Libraries
    BY <1>0, <2>1 DEF CallsType, Loads
  <2>3. CallsType' /\ OpenedInv'
    BY <1>0, <2>1, <2>2 DEF CallsType, OpenedInv, Of
  <2>4. CarefulInv'
    <3> SUFFICES ASSUME ~ careless', NEW k \in Libraries, Calls!Holds(k)'
                 PROVE  \E u \in Of(k)' : table'[u].has
      BY DEF CarefulInv
    <3>0. Of(k)' = Of(k)
      BY <2>1 DEF Of
    <3>1. CASE k = table[t].of
      <4>1. t \in Of(k)
        BY <2>1, <3>1 DEF Of
      <4> QED
        BY <2>1, <3>0, <4>1, Zenon
    <3>2. CASE k # table[t].of
      <4>1. Calls!Holds(k)
        BY <2>1, <3>2 DEF Calls!Holds
      <4> QED
        BY <1>0, <2>1, <3>0, <4>1, Zenon DEF CarefulInv
    <3> QED
      BY <3>1, <3>2
  <2> QED
    BY <1>0, <2>1, <2>3, <2>4 DEF CallsInv, Calls!Spent
<1>4. ASSUME NEW t \in Tables, Calls!Release(t) PROVE CallsInv'
  <2>1. /\ table[t] # Unwrapped /\ table[t].has
        /\ table' = [table EXCEPT ![t].has = FALSE]
        /\ UNCHANGED <<host, opened, held, returned, callFault>>
    BY <1>4, Zenon DEF Calls!Release, Calls!Has
  <2>2. ~ careless' => /\ ~ careless
                       /\ \/ ~ Calls!Holds(table[t].of)
                          \/ \E u \in Tables \ {t} : Calls!Has(u) /\ table[u].of = table[t].of
    BY <1>4, Zenon DEF Calls!Release
  <2>3. /\ table[t] \in Loads
        /\ table'[t] = [table[t] EXCEPT !.has = FALSE]
    BY <1>0, <2>1 DEF CallsType
  <2>4. table'[t] \in Loads /\ table'[t].of = table[t].of
    BY <2>3 DEF Loads
  <2>5. \A u \in Tables \ {t} : table'[u] = table[u]
    BY <1>0, <2>1 DEF CallsType
  <2>6. CallsType'
    <3>1. table' \in [Tables -> Loads \union {Unwrapped}]
      BY <1>0, <2>1, <2>3, <2>4, Zenon DEF CallsType
    <3>2. careless' \in BOOLEAN
      BY <1>4 DEF Calls!Release
    <3> QED
      BY <1>0, <2>1, <3>1, <3>2 DEF CallsType
  <2>7. \A k \in Libraries : Of(k)' = Of(k)
    BY <1>0, <2>1, <2>4, <2>5 DEF Of, CallsType, UnwrappedDistinct, Loads
  <2>8. CarefulInv'
    <3> SUFFICES ASSUME ~ careless', NEW k \in Libraries, Calls!Holds(k)'
                 PROVE  \E u \in Of(k)' : table'[u].has
      BY DEF CarefulInv
    <3>1. Calls!Holds(k)
      BY <2>1 DEF Calls!Holds
    <3>2. CASE k = table[t].of
      <4>1. PICK u \in Tables \ {t} : Calls!Has(u) /\ table[u].of = k
        BY <2>2, <3>1, <3>2, Zenon
      <4>2. u \in Of(k) /\ table[u].has
        BY <4>1, Zenon DEF Of, Calls!Has
      <4> QED
        BY <2>5, <2>7, <4>1, <4>2, Zenon
    <3>3. CASE k # table[t].of
      <4>1. PICK u \in Of(k) : table[u].has
        BY <1>0, <2>2, <3>1 DEF CarefulInv
      <4>2. u \in Tables \ {t}
        BY <3>3, <4>1 DEF Of
      <4> QED
        BY <2>5, <2>7, <4>1, <4>2, Zenon
    <3> QED
      BY <3>2, <3>3
  <2>9. OpenedInv'
    BY <1>0, <2>1, <2>7 DEF OpenedInv
  <2>10. callFault' = "none"
    BY <2>1, <1>4 DEF Calls!Release, Calls!Running
  <2> QED
    BY <1>0, <2>1, <2>6, <2>8, <2>9, <2>10 DEF CallsInv
<1>5. ASSUME NEW t \in Tables, Calls!Gather(t) PROVE CallsInv'
  <2>0. table[t] # Unwrapped /\ table[t] \in Loads
    BY <1>0, <1>5 DEF CallsType, Calls!Gather
  <2>2. PICK l \in Libraries : table[t].of = l
    BY <2>0 DEF Loads
  <2>1. /\ table[t] # Unwrapped
        /\ opened' = [opened EXCEPT ![l] = opened[l] - 1]
        /\ table' = [table EXCEPT ![t] = Unwrapped]
        /\ UNCHANGED <<host, held, returned, callFault, careless>>
    BY <1>5, <2>2 DEF Calls!Gather, Calls!Close
  <2>3. Of(l)' = Of(l) \ {t} /\ t \in Of(l)
    BY <1>0, <2>1, <2>2 DEF CallsType, Of
  <2>4. \A k \in Libraries \ {l} : Of(k)' = Of(k)
    BY <1>0, <2>1, <2>2 DEF CallsType, Of
  <2>5. /\ Cardinality(Of(l)') = Cardinality(Of(l)) - 1
        /\ Cardinality(Of(l)') \in Nat
    BY <1>f, <2>2, <2>3, FS_RemoveElement, FS_CardinalityType
  <2>6. OpenedInv'
    BY <1>0, <2>1, <2>2, <2>4, <2>5 DEF OpenedInv, CallsType
  <2>7. CallsType'
    <3>1. opened[l] - 1 \in Nat
      BY <1>0, <2>2, <2>5 DEF OpenedInv
    <3> QED
      BY <1>0, <2>1, <3>1 DEF CallsType
  <2>8. CarefulInv'
    <3> SUFFICES ASSUME ~ careless', NEW k \in Libraries, Calls!Holds(k)'
                 PROVE  \E u \in Of(k)' : table'[u].has
      BY DEF CarefulInv
    <3>1. PICK u \in Of(k) : table[u].has
      BY <1>0, <2>1 DEF CarefulInv, Calls!Holds
    <3>2. u # t
      BY <1>5, <3>1, Zenon DEF Calls!Gather
    <3>3. table'[u] = table[u]
      BY <1>0, <2>1, <3>1, <3>2 DEF CallsType, Of
    <3>4. u \in Of(k)'
      BY <3>2, <3>1, <2>3, <2>4
    <3> QED
      BY <3>1, <3>3, <3>4, Zenon
  <2> QED
    BY <1>0, <2>1, <2>6, <2>7, <2>8 DEF CallsInv, Calls!Spent
<1>6. ASSUME NEW t \in Tables, NEW n \in 1 .. 3, Calls!Doc(t, [i \in 1 .. n |-> "right"])
      PROVE  CallsInv'
  <2>1. /\ UNCHANGED <<host, opened, table, held, callFault, careless>>
        /\ ~ returned'.ran
    BY <1>6 DEF Calls!Doc
  <2> QED
    BY <1>0, <2>1, Zenon
       DEF CallsInv, CallsType, OpenedInv, CarefulInv, Of, Calls!Holds, Calls!Spent
<1>7. ASSUME NEW l \in Libraries, NEW gives \in BOOLEAN, Calls!Call(l, gives) PROVE CallsInv'
  <2>1. PICK n \in 0 .. 2 : \E arguments \in [1 .. n -> Calls!Given], throws \in BOOLEAN :
            Calls!Invoked(l, arguments, 1, throws, held, gives)
    BY <1>7 DEF Calls!Call
  <2>2. PICK arguments \in [1 .. n -> Calls!Given], throws \in BOOLEAN :
            Calls!Invoked(l, arguments, 1, throws, held, gives)
    BY <2>1
  <2>3. arguments \in [1 .. n -> Values] /\ 1 \in 0 .. 2
    BY DEF Calls!Given, Values
  <2>4. held \in SUBSET (Libraries \X {"function", "object", "spent"})
    BY <1>0 DEF CallsType
  <2>5. Calls!Undefined(arguments, 1)
            => host = "python" \/ \E k \in Libraries : <<k, "spent">> \in held
    <3>1. Calls!Undefined(arguments, 1) => arguments[1] = "unknown" /\ 1 \in 1 .. n
      BY DEF Calls!Undefined, Calls!Verified, Calls!VerifyLua, Calls!VerifyPython
    <3> QED
      BY <3>1 DEF Calls!Given, Calls!Spent
  <2>6. CASE gives = TRUE
    <3>1. Calls!Invoked(l, arguments, 1, throws, held, TRUE)
      BY <2>2, <2>6
    <3> QED
      BY <2>1, <2>3, <2>4, <2>5, <3>1, InvokedStep
  <2>7. CASE gives = FALSE
    <3>1. Calls!Invoked(l, arguments, 1, throws, held, FALSE)
      BY <2>2, <2>7
    <3> QED
      BY <2>1, <2>3, <2>4, <2>5, <3>1, InvokedStep
  <2> QED
    BY <2>6, <2>7
<1>8. ASSUME NEW l \in Libraries, NEW first \in Calls!Given, Calls!CallMember(l, first)
      PROVE  CallsInv'
  <2>1. PICK n \in 0 .. 1, throws \in BOOLEAN :
            Calls!Invoked(l, <<first>> \o [i \in 1 .. n |-> "right"], 2, throws, held, FALSE)
    BY <1>8 DEF Calls!CallMember
  <2> DEFINE rest == [i \in 1 .. n |-> "right"]
             arguments == <<first>> \o rest
  <2>2. arguments \in [1 .. n + 1 -> Values] /\ Len(arguments) = n + 1
        /\ arguments[1] = first /\ \A i \in 2 .. n + 1 : arguments[i] = "right"
    <3>1. rest \in Seq(Values) /\ Len(rest) = n /\ \A i \in 1 .. n : rest[i] = "right"
      BY DEF Values
    <3>2. <<first>> \in Seq(Values) /\ Len(<<first>>) = 1 /\ <<first>>[1] = first
      BY DEF Calls!Given, Values
    <3>3. /\ arguments \in Seq(Values) /\ Len(arguments) = n + 1
          /\ \A i \in 1 .. n + 1 : arguments[i] = IF i <= 1 THEN <<first>>[i] ELSE rest[i - 1]
      <4> HIDE DEF rest
      <4> QED
        BY <3>1, <3>2, ConcatProperties
    <3> HIDE DEF arguments, rest
    <3>4. arguments \in [1 .. n + 1 -> Values]
      BY <3>3, LenProperties
    <3>5. arguments[1] = first /\ \A i \in 2 .. n + 1 : arguments[i] = "right"
      BY <3>1, <3>2, <3>3
    <3> QED
      BY <3>3, <3>4, <3>5
  <2>3. n + 1 \in 0 .. 2 /\ 2 \in 0 .. 2
    OBVIOUS
  <2>4. held \in SUBSET (Libraries \X {"function", "object", "spent"})
    BY <1>0 DEF CallsType
  <2> HIDE DEF arguments
  <2>5. Calls!Undefined(arguments, 2)
            => host = "python" \/ \E k \in Libraries : <<k, "spent">> \in held
    <3> SUFFICES ASSUME Calls!Undefined(arguments, 2)
                 PROVE  first = "unknown"
      BY DEF Calls!Given, Calls!Spent
    <3>1. PICK i \in 1 .. 2 : arguments[i] = "unknown" /\ Len(arguments) >= 2
      BY DEF Calls!Undefined, Calls!Verified, Calls!VerifyLua, Calls!VerifyPython
    <3> QED
      BY <2>2, <3>1
  <2>6. Calls!Invoked(l, arguments, 2, throws, held, FALSE)
    BY <2>1 DEF arguments
  <2> QED
    BY <2>2, <2>3, <2>4, <2>5, <2>6, InvokedStep
<1>12. ASSUME NEW l \in Libraries, NEW first \in Calls!Given, Calls!CallDestruct(l, first)
       PROVE  CallsInv'
  <2>1. PICK second \in Calls!Given \union {"unknown"}, throws \in BOOLEAN :
            Calls!Invoked(l, <<first, second>>, 2, throws,
                          IF first = "right"
                          THEN (held \ {<<l, "object">>}) \union {<<l, "spent">>} ELSE held, FALSE)
    BY <1>12 DEF Calls!CallDestruct
  <2> DEFINE arguments == <<first, second>>
             kept == IF first = "right"
                     THEN (held \ {<<l, "object">>}) \union {<<l, "spent">>} ELSE held
  <2>2. arguments \in [1 .. 2 -> Values] /\ 2 \in 0 .. 2
    BY DEF Calls!Given, Values
  <2>3. kept \in SUBSET (Libraries \X {"function", "object", "spent"})
    BY <1>0 DEF CallsType
  <2>4. \A k \in Libraries, what \in {"function", "object"} :
            <<k, what>> \in kept => <<k, what>> \in held
    OBVIOUS
  <2>5. Calls!Undefined(arguments, 2)
            => host = "python" \/ \E k \in Libraries : <<k, "spent">> \in kept
    <3> SUFFICES ASSUME Calls!Undefined(arguments, 2), host # "python"
                 PROVE  \E k \in Libraries : <<k, "spent">> \in kept
      OBVIOUS
    <3>1. first = "right" => <<l, "spent">> \in kept
      OBVIOUS
    <3>2. first = "unknown" => kept = held /\ \E k \in Libraries : <<k, "spent">> \in held
      BY DEF Calls!Given, Calls!Spent
    <3>3. first \in {"right", "unknown"}
      BY DEF Calls!Undefined
    <3> QED
      BY <3>1, <3>2, <3>3
  <2>6. Calls!Invoked(l, arguments, 2, throws, kept, FALSE)
    BY <2>1
  <2> HIDE DEF arguments, kept
  <2> QED
    BY <2>2, <2>3, <2>4, <2>5, <2>6, InvokedStep
<1>9. ASSUME NEW l \in Libraries, NEW what \in {"function", "object", "spent"},
             Calls!Forget(l, what)
      PROVE  CallsInv'
  <2>1. /\ <<l, what>> \in held
        /\ held' = held \ {<<l, what>>}
        /\ callFault' = IF what = "object" /\ opened[l] = 0 THEN "unmapped" ELSE "none"
        /\ UNCHANGED <<host, opened, table, returned, careless>>
    BY <1>9 DEF Calls!Forget
  <2>2. callFault' = "unmapped" => careless'
    BY <2>1, CarefulOpens DEF Calls!Holds
  <2>3. CallsType' /\ OpenedInv'
    BY <1>0, <2>1 DEF CallsType, OpenedInv, Of
  <2>4. \A k \in Libraries : Calls!Holds(k)' => Calls!Holds(k)
    BY <2>1 DEF Calls!Holds
  <2>5. CarefulInv'
    BY <1>0, <2>1, <2>4, Zenon DEF CarefulInv, Of
  <2> QED
    BY <1>0, <2>1, <2>2, <2>3, <2>5 DEF CallsInv
<1>10. CASE Calls!CloseLua \/ Calls!ClosePython
  <2>1. /\ host' = "closed"
        /\ opened' = [l \in Libraries |-> 0]
        /\ table' = [t \in Tables |-> Unwrapped] /\ held' = {}
        /\ returned' = returned /\ callFault' \in {"none", "unmapped"}
    BY <1>10 DEF Calls!CloseLua, Calls!ClosePython
  <2>2. (callFault' = "unmapped" => careless') /\ careless' \in BOOLEAN
    <3>1. CASE Calls!CloseLua
      <4>1. /\ callFault' = "unmapped"
                   => \E l \in Libraries : <<l, "object">> \in held /\ opened[l] = 0
            /\ careless' = careless
        BY <3>1 DEF Calls!CloseLua
      <4>2. callFault' = "unmapped" => careless
        BY <4>1, CarefulOpens DEF Calls!Holds
      <4> QED
        BY <1>0, <4>1, <4>2 DEF CallsType
    <3>2. CASE Calls!ClosePython
      BY <1>0, <3>2 DEF Calls!ClosePython, CallsType
    <3> QED
      BY <1>10, <3>1, <3>2
  <2>3. CallsType'
    BY <2>1, <2>2 DEF CallsType
  <2>4. \A l \in Libraries : Of(l)' = {}
    BY <2>1 DEF Of
  <2>5. OpenedInv'
    BY <2>1, <2>4, FS_EmptySet DEF OpenedInv
  <2>6. CarefulInv'
    BY <2>1 DEF CarefulInv, Calls!Holds
  <2> QED
    BY <1>0, <2>1, <2>2, <2>3, <2>5, <2>6 DEF CallsInv
<1>11. CASE UNCHANGED callVars
  BY <1>0, <1>11, Zenon
     DEF callVars, CallsInv, CallsType, OpenedInv, CarefulInv, Of, Calls!Holds, Calls!Spent
<1> QED
  BY <1>1, <1>2, <1>3, <1>4, <1>5, <1>6, <1>7, <1>8, <1>9, <1>10, <1>11, <1>12
     DEF Calls!CallsNext

(* A library is open as long as a script has a table of it, and functions  *)
(* run with arguments of the right types.                                  *)
THEOREM LibrariesAreKept == CallsSpec => []Calls!LibrariesKept
<1>1. Calls!CallsInit => CallsInv
  <2> SUFFICES ASSUME Calls!CallsInit PROVE CallsInv
    OBVIOUS
  <2>1. CallsType /\ callFault = "none" /\ (returned.ran => returned.right)
    BY DEF Calls!CallsInit, CallsType
  <2>2. \A l \in Libraries : Of(l) = {}
    BY DEF Calls!CallsInit, Of
  <2>3. OpenedInv
    BY <2>2, FS_EmptySet DEF Calls!CallsInit, OpenedInv
  <2>4. CarefulInv
    BY DEF Calls!CallsInit, CarefulInv, Calls!Holds
  <2> QED
    BY <2>1, <2>3, <2>4 DEF CallsInv
<1>2. CallsInv => Calls!LibrariesKept
  BY SameCardinality, Zenon DEF CallsInv, OpenedInv, Of, Calls!LibrariesKept
<1>3. CallsInv /\ [Calls!CallsNext]_callVars => CallsInv'
  BY CallsStep, ServicesAssumption
<1> QED
  BY <1>1, <1>2, <1>3, PTL DEF CallsSpec

-----------------------------------------------------------------------------
(* Pointers: the counts of shared pointers, and exclusive pointers *)

Ats == {"idle", "copy", "assign", "drop", "delete", "settle"}
Works == [at : Ats, h : Pointer!AllHandles \union {"none"}, new : 0 .. MaxBlocks]

PointersType ==
    /\ data \in [Pointer!AllHandles -> 0 .. MaxBlocks]
    /\ count \in [Pointer!Blocks -> Nat]
    /\ deleted \in [Pointer!Blocks -> Nat]
    /\ made \in Pointer!Blocks
    /\ work \in [Threads -> Works]
    /\ value \in [Exclusive -> 0 .. MaxBlocks]
    /\ loose \subseteq Pointer!Blocks

(* Nothing refers to a block that has not been made. *)
MadeInv ==
    /\ \A h \in Pointer!AllHandles : data[h] <= made
    /\ \A t \in Threads : work[t].new <= made
    /\ \A e \in Exclusive : value[e] <= made
    /\ \A b \in loose : b <= made
    /\ \A b \in Pointer!Blocks : b > made => count[b] = 0 /\ deleted[b] = 0

(* An operation works on a handle of its thread; what it copies is held    *)
(* by a handle of the thread that stays.                                   *)
OwnHandles(w) ==
    \A t \in Threads : w[t].at # "idle" => w[t].h \in Handles[t]
WorkInv ==
    /\ OwnHandles(work)
    /\ \A t \in Threads : work[t].at = "idle" => work[t].new = 0
    /\ \A t \in Threads : work[t].at = "copy" =>
           /\ work[t].new # 0 /\ data[work[t].h] = work[t].new
           /\ \E g \in Handles[t] : g # work[t].h /\ data[g] = work[t].new
    /\ \A t \in Threads : work[t].at = "assign" =>
           work[t].new # 0 /\ \E g \in Handles[t] : data[g] = work[t].new
    /\ \A t \in Threads : work[t].at \in {"assign", "drop", "delete"} => data[work[t].h] # 0

(* One thread destroys a value, when nothing refers to it any more. *)
DeleteInv == \A t \in Threads : work[t].at = "delete" =>
    /\ count[data[work[t].h]] = 0 /\ deleted[data[work[t].h]] = 0
    /\ \A u \in Threads \ {t} :
           work[u].at = "delete" => data[work[u].h] # data[work[t].h]

(* A value that reset() was given is nobody else's yet. *)
FreshInv == \A t \in Threads : Pointer!Dropping(t) /\ Pointer!Fresh(t) =>
    /\ \A h \in Pointer!AllHandles : data[h] # work[t].new
    /\ \A u \in Threads \ {t} : work[u].new # work[t].new

(* Shared pointers do not refer to what exclusive ones own. *)
OwnedAlone(b) == b \in loose \/ \E e \in Exclusive : value[e] = b
ApartInv == \A b \in Pointer!Blocks : OwnedAlone(b) =>
    /\ \A h \in Pointer!AllHandles : data[h] # b
    /\ \A t \in Threads : work[t].new # b

CountInv == \A b \in 1 .. made :
    /\ count[b] = Cardinality(Pointer!Holding(b)) + Cardinality(Pointer!Taking(b))
    /\ deleted[b] \in {0, 1}
    /\ count[b] > 0 => deleted[b] = 0

PointersInv ==
    /\ PointersType /\ MadeInv /\ WorkInv /\ DeleteInv /\ FreshInv /\ ApartInv
    /\ CountInv /\ Pointer!OneOwner /\ Pointer!NoneLeft

Moving == {"copy", "delete", "settle"}

(* A step of a thread inside an operation on a handle matters to no other. *)
LEMMA BetweenStep ==
    ASSUME HandlesApart, NEW t \in Threads, NEW x \in Handles[t],
           OwnHandles(work), OwnHandles(work'), \A u \in Threads \ {t} : work'[u] = work[u],
           work[t].at # "idle" => work[t].h = x, work'[t].at # "idle" => work'[t].h = x
    PROVE  /\ \A k \in Pointer!AllHandles \ {x} : Pointer!Between(k)' <=> Pointer!Between(k)
           /\ Pointer!Between(x) <=> work[t].at \in Moving
           /\ Pointer!Between(x)' <=> work'[t].at \in Moving
<1>1. \A u \in Threads \ {t} : work[u].at # "idle" => work[u].h # x
  BY DEF HandlesApart, OwnHandles
<1>2. \A u \in Threads \ {t} : work'[u].at # "idle" => work'[u].h # x
  BY DEF HandlesApart, OwnHandles
<1> QED
  BY <1>1, <1>2 DEF Pointer!Between, Moving

LEMMA HandleOf ==
    ASSUME NEW t \in Threads, NEW x \in Handles[t] PROVE x \in Pointer!AllHandles
BY DEF Pointer!AllHandles

(* The handles of another thread are other handles. *)
LEMMA OtherHandles ==
    ASSUME HandlesApart, NEW t \in Threads, NEW x \in Handles[t],
           NEW u \in Threads \ {t}, NEW y \in Handles[u]
    PROVE  y \in Pointer!AllHandles \ {x}
BY HandleOf DEF HandlesApart

LEMMA BetweenOwn ==
    ASSUME HandlesApart, OwnHandles(work), NEW t \in Threads, NEW x \in Handles[t]
    PROVE  Pointer!Between(x) <=> work[t].h = x /\ work[t].at \in Moving
BY DEF HandlesApart, OwnHandles, Pointer!Between, Moving

LEMMA ReferencesFinite ==
    ASSUME HandlesApart, NEW b
    PROVE  /\ IsFiniteSet(Pointer!Holding(b)) /\ IsFiniteSet(Pointer!Taking(b))
           /\ Cardinality(Pointer!Holding(b)) \in Nat /\ Cardinality(Pointer!Taking(b)) \in Nat
<1>1. IsFiniteSet({Handles[t] : t \in Threads})
  <2> DEFINE f == [t \in Threads |-> Handles[t]]
  <2>1. f \in Surjection(Threads, {Handles[t] : t \in Threads})
    BY DEF Surjection
  <2> QED
    BY <2>1, FS_Surjection DEF HandlesApart
<1>2. IsFiniteSet(Pointer!AllHandles)
  BY <1>1, FS_UNION DEF HandlesApart, Pointer!AllHandles
<1>3. Pointer!Holding(b) \subseteq Pointer!AllHandles /\ Pointer!Taking(b) \subseteq Threads
  BY DEF Pointer!Holding, Pointer!Taking
<1> QED
  BY <1>2, <1>3, FS_Subset, FS_CardinalityType DEF HandlesApart

(* What the count of a block says of its references. *)
LEMMA Counted ==
    ASSUME HandlesApart, CountInv, NEW b \in 1 .. made
    PROVE  /\ \A x \in Pointer!Holding(b) : count[b] >= 1
           /\ \A t \in Pointer!Taking(b) : count[b] >= 1
           /\ \A x \in Pointer!Holding(b) : count[b] = 1 => Pointer!Taking(b) = {}
<1> DEFINE H == Pointer!Holding(b)
           T == Pointer!Taking(b)
<1>1. /\ count[b] = Cardinality(H) + Cardinality(T)
      /\ IsFiniteSet(H) /\ IsFiniteSet(T) /\ Cardinality(H) \in Nat /\ Cardinality(T) \in Nat
  BY ReferencesFinite DEF CountInv
<1>2. (Cardinality(H) = 0 <=> H = {}) /\ (Cardinality(T) = 0 <=> T = {})
  BY <1>1, FS_EmptySet
<1>3. /\ \A x \in H : count[b] >= 1
      /\ \A t \in T : count[b] >= 1
      /\ \A x \in H : count[b] = 1 => T = {}
  <2> HIDE DEF H, T
  <2> QED
    BY <1>1, <1>2
<1> QED
  BY <1>3

(* Nothing refers to the block that is made next. *)
LEMMA Unmade ==
    ASSUME HandlesApart, PointersInv, made < MaxBlocks
    PROVE  /\ Pointer!Holding(made + 1) = {} /\ Pointer!Taking(made + 1) = {}
           /\ count[made + 1] = 0 /\ deleted[made + 1] = 0
           /\ made + 1 \in Pointer!Blocks
<1>1. PointersType /\ MadeInv
  BY DEF PointersInv
<1>2. made \in Nat /\ MaxBlocks \in Int /\ made + 1 \in Pointer!Blocks
  BY <1>1 DEF PointersType, Pointer!Blocks, HandlesApart
<1>3. \A x \in Pointer!AllHandles : data[x] # made + 1
  BY <1>1, <1>2 DEF PointersType, MadeInv
<1>4. \A t \in Threads : work[t].new # made + 1
  BY <1>1, <1>2 DEF PointersType, MadeInv, Works
<1> QED
  BY <1>1, <1>2, <1>3, <1>4 DEF MadeInv, Pointer!Holding, Pointer!Taking

(* A copy takes the block into its handle before it counts it. *)
LEMMA CopyStep ==
    ASSUME HandlesApart, PointersInv, NEW t \in Threads, NEW x \in Handles[t],
           NEW y \in Handles[t], Pointer!Copy(t, x, y)
    PROVE  PointersInv'
<1>0. /\ PointersType /\ MadeInv /\ WorkInv /\ DeleteInv /\ FreshInv /\ ApartInv
      /\ CountInv /\ Pointer!OneOwner /\ Pointer!NoneLeft
  BY DEF PointersInv
<1>a. work[t] = Pointer!Idle /\ x \in Pointer!AllHandles /\ y \in Pointer!AllHandles
  BY HandleOf DEF Pointer!Copy
<1>1. /\ data[x] = 0 /\ data[y] # 0
      /\ data' = [data EXCEPT ![x] = data[y]]
      /\ work' = [work EXCEPT ![t] = [at |-> "copy", h |-> x, new |-> data[y]]]
      /\ UNCHANGED <<count, deleted, made, value, loose>>
  BY DEF Pointer!Copy, Pointer!Stays
<1>b. work[t].at = "idle" /\ y # x
  BY <1>a, <1>1 DEF Pointer!Idle
<1>2. /\ work'[t].at = "copy" /\ work'[t].h = x /\ work'[t].new = data[y]
      /\ \A u \in Threads \ {t} : work'[u] = work[u]
      /\ data'[x] = data[y] /\ \A k \in Pointer!AllHandles \ {x} : data'[k] = data[k]
  BY <1>0, <1>a, <1>1 DEF PointersType
<1>3. PointersType'
  <2>1. [at |-> "copy", h |-> x, new |-> data[y]] \in Works
    BY <1>0, <1>a, <1>1 DEF PointersType, Works, Ats
  <2>2. work' \in [Threads -> Works]
    BY <1>0, <1>a, <1>b, <1>1, <2>1, Zenon DEF PointersType
  <2>3. data' \in [Pointer!AllHandles -> 0 .. MaxBlocks]
    BY <1>0, <1>a, <1>1 DEF PointersType
  <2> QED
    BY <1>0, <1>a, <1>b, <1>1, <2>2, <2>3 DEF PointersType
<1>4. WorkInv'
  <2>1. \A u \in Threads \ {t} : \A k \in Handles[u] : data'[k] = data[k]
    BY <1>2, OtherHandles
  <2> QED
    BY <1>0, <1>a, <1>b, <1>1, <1>2, <2>1 DEF WorkInv, OwnHandles
<1>5. /\ \A k \in Pointer!AllHandles \ {x} : Pointer!Between(k)' <=> Pointer!Between(k)
      /\ Pointer!Between(x)'
  <2>1. OwnHandles(work) /\ OwnHandles(work')
    BY <1>0, <1>4 DEF WorkInv
  <2>2. /\ \A k \in Pointer!AllHandles \ {x} : Pointer!Between(k)' <=> Pointer!Between(k)
        /\ Pointer!Between(x)' <=> work'[t].at \in Moving
    BY <1>b, <1>2, <2>1, BetweenStep
  <2> QED
    BY <1>2, <2>2 DEF Moving
<1>6. \A b \in 1 .. made : Pointer!Holding(b)' = Pointer!Holding(b)
  BY <1>a, <1>b, <1>1, <1>2, <1>5 DEF Pointer!Holding
<1>7. \A u \in Threads : /\ Pointer!Dropping(u)' <=> Pointer!Dropping(u)
                         /\ Pointer!Dropping(u) => u # t /\ (Pointer!Fresh(u)' <=> Pointer!Fresh(u))
  BY <1>a, <1>b, <1>1, <1>2 DEF Pointer!Dropping, Pointer!Fresh
<1>8. \A b \in 1 .. made : Pointer!Taking(b)' = Pointer!Taking(b)
  BY <1>2, <1>7 DEF Pointer!Taking
<1>9. CountInv'
  BY <1>0, <1>a, <1>b, <1>1, <1>6, <1>8 DEF CountInv
<1>10. MadeInv'
  BY <1>0, <1>a, <1>b, <1>1, <1>2 DEF MadeInv
<1>11. DeleteInv'
  <2>1. \A u \in Threads \ {t} : \A k \in Handles[u] : data'[k] = data[k]
    BY <1>2, OtherHandles
  <2> QED
    BY <1>0, <1>a, <1>b, <1>1, <1>2, <2>1 DEF DeleteInv, WorkInv, OwnHandles
<1>12. FreshInv'
  BY <1>0, <1>a, <1>b, <1>1, <1>2, <1>7 DEF FreshInv
<1>13. ApartInv'
  BY <1>0, <1>a, <1>b, <1>1, <1>2 DEF ApartInv, OwnedAlone, PointersType
<1>14. (Pointer!OneOwner /\ Pointer!NoneLeft)'
  <2>1. \A u \in Threads \ {t} : \A k \in Handles[u] : data'[k] = data[k]
    BY <1>2, OtherHandles
  <2> QED
    BY <1>0, <1>a, <1>b, <1>1, <1>2, <1>7, <2>1 DEF Pointer!OneOwner, Pointer!NoneLeft, WorkInv, OwnHandles
<1> QED
  BY <1>3, <1>4, <1>9, <1>10, <1>11, <1>12, <1>13, <1>14 DEF PointersInv

(* An assignment, a reset and the end of a handle begin with nothing but   *)
(* the choice of what the handle is to have.                               *)
LEMMA BeginStep ==
    ASSUME HandlesApart, PointersInv, NEW t \in Threads, NEW x \in Handles[t],
           \/ \E y \in Handles[t] : Pointer!Assign(t, x, y)
           \/ Pointer!Reset(t, x) \/ Pointer!Leave(t, x)
    PROVE  PointersInv'
<1>0. /\ PointersType /\ MadeInv /\ WorkInv /\ DeleteInv /\ FreshInv /\ ApartInv
      /\ CountInv /\ Pointer!OneOwner /\ Pointer!NoneLeft
  BY DEF PointersInv
<1>1. /\ x \in Pointer!AllHandles /\ \A y \in Handles[t] : y \in Pointer!AllHandles
      /\ work[t] = Pointer!Idle
      /\ work[t].at = "idle"
      /\ made \in Nat /\ MaxBlocks \in Nat
  BY <1>0, HandleOf DEF Pointer!Assign, Pointer!Reset, Pointer!Leave, Pointer!Idle, PointersType,
                        Pointer!Blocks, HandlesApart
<1>2. data[x] # 0 /\ UNCHANGED <<data, count, deleted, value, loose>>
  BY DEF Pointer!Assign, Pointer!Reset, Pointer!Leave, Pointer!Stays
<1>3. PICK phase \in {"assign", "drop"}, n \in 0 .. MaxBlocks :
          /\ work' = [work EXCEPT ![t] = [at |-> phase, h |-> x, new |-> n]]
          /\ \/ /\ phase = "assign" /\ n # 0 /\ made' = made
                /\ \E y \in Handles[t] : data[y] = n
             \/ phase = "drop" /\ n = 0 /\ made' = made
             \/ phase = "drop" /\ n = made + 1 /\ made < MaxBlocks /\ made' = made + 1
  <2>1. CASE \E y \in Handles[t] : Pointer!Assign(t, x, y)
    <3>1. PICK y \in Handles[t] : Pointer!Assign(t, x, y)
      BY <2>1
    <3>2. data[y] \in 0 .. MaxBlocks
      BY <1>0, <1>1 DEF PointersType
    <3> QED
      BY <3>1, <3>2 DEF Pointer!Assign
  <2>2. CASE Pointer!Reset(t, x)
    <3>1. /\ work' = [work EXCEPT ![t] = [at |-> "drop", h |-> x, new |-> made + 1]]
          /\ made < MaxBlocks /\ made' = made + 1
          /\ made + 1 \in 0 .. MaxBlocks /\ "drop" \in {"assign", "drop"}
      BY <1>1, <2>2 DEF Pointer!Reset
    <3> QED
      BY <3>1, Zenon
  <2>3. CASE Pointer!Leave(t, x)
    <3>1. /\ work' = [work EXCEPT ![t] = [at |-> "drop", h |-> x, new |-> 0]]
          /\ made' = made
          /\ 0 \in 0 .. MaxBlocks /\ "drop" \in {"assign", "drop"}
      BY <1>1, <2>3 DEF Pointer!Leave
    <3> QED
      BY <3>1, Zenon
  <2> QED
    BY <2>1, <2>2, <2>3
<1>4. /\ work'[t].at = phase /\ work'[t].h = x /\ work'[t].new = n
      /\ \A u \in Threads \ {t} : work'[u] = work[u]
      /\ phase # "idle" /\ phase # "delete" /\ phase # "copy"
      /\ made <= made' /\ made' \in Pointer!Blocks /\ n <= made'
  <2>1. n <= made'
    BY <1>0, <1>1, <1>3 DEF PointersType, MadeInv
  <2> QED
    BY <1>0, <1>1, <1>3, <2>1 DEF PointersType, Pointer!Blocks
<1>5. PointersType'
  <2>1. [at |-> phase, h |-> x, new |-> n] \in Works
    BY <1>1, <1>3 DEF Works, Ats
  <2>2. work' \in [Threads -> Works]
    BY <1>0, <1>3, <2>1, Zenon DEF PointersType
  <2> QED
    BY <1>0, <1>2, <1>4, <2>2 DEF PointersType
<1>6. WorkInv'
  BY <1>0, <1>2, <1>3, <1>4 DEF WorkInv, OwnHandles
<1>7. \A k \in Pointer!AllHandles : Pointer!Between(k)' <=> Pointer!Between(k)
  <2>1. OwnHandles(work) /\ OwnHandles(work')
    BY <1>0, <1>6 DEF WorkInv
  <2> QED
    BY <1>1, <1>3, <1>4, <2>1, BetweenStep DEF Moving
<1>8. \A b \in 1 .. MaxBlocks : Pointer!Holding(b)' = Pointer!Holding(b)
  BY <1>2, <1>7 DEF Pointer!Holding
<1>9. \A u \in Threads \ {t} : /\ Pointer!Dropping(u)' <=> Pointer!Dropping(u)
                               /\ Pointer!Fresh(u)' <=> Pointer!Fresh(u)
  BY <1>2, <1>4 DEF Pointer!Dropping, Pointer!Fresh
<1>10. /\ ~ Pointer!Dropping(t)
       /\ Pointer!Dropping(t)' => n = 0 \/ (n = made + 1 /\ made < MaxBlocks)
       /\ n = made + 1 => made' = made + 1 /\ made < MaxBlocks
  <2>1. n = made + 1 => made' = made + 1
    BY <1>1, <1>3, <1>4
  <2> QED
    <3>1. ~ Pointer!Dropping(t) /\ (Pointer!Dropping(t)' => phase = "drop")
      BY <1>1, <1>4 DEF Pointer!Dropping
    <3>2. n = made + 1 => made < MaxBlocks
      BY <1>1, <1>3, <2>1
    <3>3. phase = "drop" => n = 0 \/ n = made + 1
      BY <1>3
    <3> QED
      BY <2>1, <3>1, <3>2, <3>3
<1>11. n = made + 1 => Pointer!Fresh(t)'
  BY <1>1, <1>2, <1>4, <1>10, Unmade DEF Pointer!Fresh
<1>12. \A b \in 1 .. MaxBlocks : Pointer!Taking(b)' = Pointer!Taking(b)
  BY <1>4, <1>9, <1>10, <1>11 DEF Pointer!Taking
<1>13. CountInv'
  <2>1. ASSUME NEW b \in 1 .. made', b > made
        PROVE  /\ count[b] = 0 /\ deleted[b] = 0
               /\ Cardinality(Pointer!Holding(b)) = 0 /\ Cardinality(Pointer!Taking(b)) = 0
    <3>1. b = made + 1 /\ made < MaxBlocks
      BY <1>1, <1>3, <2>1
    <3>2. /\ Pointer!Holding(b) = {} /\ Pointer!Taking(b) = {}
          /\ count[b] = 0 /\ deleted[b] = 0
      BY <3>1, Unmade
    <3> QED
      BY <3>2, FS_EmptySet
  <2>2. 1 .. made' \subseteq 1 .. MaxBlocks
    BY <1>1, <1>4 DEF Pointer!Blocks
  <2> QED
    BY <1>0, <1>1, <1>2, <1>4, <1>8, <1>12, <2>1, <2>2 DEF CountInv
<1>14. MadeInv'
  BY <1>0, <1>1, <1>2, <1>3, <1>4 DEF MadeInv, PointersType, Pointer!Blocks, Works
<1>15. DeleteInv'
  BY <1>0, <1>2, <1>4 DEF DeleteInv
<1>16. FreshInv'
  <2>1. n = made + 1 => /\ \A k \in Pointer!AllHandles : data[k] # n
                        /\ \A u \in Threads : work[u].new # n
    BY <1>0, <1>1 DEF MadeInv, PointersType, Works
  <2>2. Pointer!Dropping(t)' /\ Pointer!Fresh(t)' => n = made + 1
    BY <1>4, <1>10 DEF Pointer!Fresh
  <2>3. ASSUME NEW u \in Threads \ {t}, Pointer!Dropping(u), Pointer!Fresh(u)
        PROVE  n # work[u].new
    <3>1. /\ \A k \in Pointer!AllHandles : data[k] # work[u].new
          /\ work[u].new # 0 /\ work[u].new # made + 1
      BY <1>0, <1>1, <2>3 DEF FreshInv, MadeInv, PointersType, Works, Pointer!Fresh
    <3> QED
      BY <1>1, <1>3, <3>1
  <2> QED
    BY <1>0, <1>2, <1>4, <1>9, <2>1, <2>2, <2>3 DEF FreshInv
<1>17. ApartInv'
  <2>1. ASSUME NEW b \in Pointer!Blocks, OwnedAlone(b) PROVE n # b
    <3>1. b <= made /\ b # 0
      BY <1>0, <2>1 DEF MadeInv, OwnedAlone, Pointer!Blocks
    <3>2. \A k \in Pointer!AllHandles : data[k] # b
      BY <1>0, <2>1 DEF ApartInv
    <3> QED
      BY <1>1, <1>3, <3>1, <3>2 DEF Pointer!Blocks
  <2> QED
    BY <1>0, <1>2, <1>4, <2>1 DEF ApartInv, OwnedAlone
<1>18. (Pointer!OneOwner)'
  BY <1>0, <1>2 DEF Pointer!OneOwner
<1>19. (Pointer!NoneLeft)'
  <2> SUFFICES ASSUME NEW b \in 1 .. made', deleted'[b] = 0
               PROVE  \/ count'[b] > 0
                      \/ \E u \in Threads : \/ Pointer!Dropping(u)' /\ work'[u].new = b
                                            \/ work'[u].at = "delete" /\ data'[work'[u].h] = b
                      \/ b \in loose'
                      \/ \E e \in Exclusive : value'[e] = b
    BY DEF Pointer!NoneLeft
  <2>1. CASE b \in 1 .. made
    BY <1>0, <1>1, <1>2, <1>4, <1>9, <1>10, <2>1 DEF Pointer!NoneLeft
  <2>2. CASE b \notin 1 .. made
    BY <1>1, <1>3, <1>4, <2>2 DEF Pointer!Dropping
  <2> QED
    BY <2>1, <2>2
<1> QED
  BY <1>5, <1>6, <1>13, <1>14, <1>15, <1>16, <1>17, <1>18, <1>19 DEF PointersInv

(* The step that counts what is copied: a handle or a thread of its own    *)
(* had it already.                                                         *)
LEMMA IncrementStep ==
    ASSUME HandlesApart, PointersInv, NEW t \in Threads, Pointer!Increment(t)
    PROVE  PointersInv'
<1>0. /\ PointersType /\ MadeInv /\ WorkInv /\ DeleteInv /\ FreshInv /\ ApartInv
      /\ CountInv /\ Pointer!OneOwner /\ Pointer!NoneLeft
  BY DEF PointersInv
<1> PICK x, b : x = work[t].h /\ b = work[t].new
  OBVIOUS
<1>1. /\ work[t].at \in {"copy", "assign"}
      /\ count' = [count EXCEPT ![b] = count[b] + 1]
      /\ UNCHANGED <<data, deleted, made, value, loose>>
  BY DEF Pointer!Increment, Pointer!Stays
<1>2. /\ work[t].at = "copy" => work' = [work EXCEPT ![t] = Pointer!Idle]
      /\ work[t].at = "assign" => work' = [work EXCEPT ![t].at = "drop"]
  BY DEF Pointer!Increment
<1>3. /\ x \in Handles[t] /\ x \in Pointer!AllHandles
      /\ b \in 1 .. made /\ b \in Pointer!Blocks /\ made \in Nat /\ MaxBlocks \in Nat
      /\ \E y \in Handles[t] : data[y] = b /\ (work[t].at = "copy" => y # x)
  <2>1. /\ x \in Handles[t] /\ b # 0 /\ b \in 0 .. MaxBlocks /\ b <= made
        /\ made \in Nat /\ MaxBlocks \in Nat /\ made <= MaxBlocks
        /\ \E y \in Handles[t] : data[y] = b /\ (work[t].at = "copy" => y # x)
    BY <1>0, <1>1 DEF WorkInv, OwnHandles, MadeInv, PointersType, Works, HandlesApart, Pointer!Blocks
  <2> QED
    BY <2>1, HandleOf DEF Pointer!Blocks
<1>4. PICK y \in Pointer!Holding(b) : y \in Handles[t] /\ data[y] = b /\ (work[t].at = "copy" => y # x)
  <2>1. PICK y \in Handles[t] : data[y] = b /\ (work[t].at = "copy" => y # x)
    BY <1>3
  <2>2. ~ Pointer!Between(y)
    BY <1>0, <1>1, <2>1, BetweenOwn DEF WorkInv, Moving
  <2> QED
    BY <2>1, <2>2, HandleOf DEF Pointer!Holding
<1>5. count[b] >= 1 /\ count[b] \in Nat /\ deleted[b] = 0
  <2>1. count[b] >= 1 /\ count[b] \in Nat
    BY <1>0, <1>3, Counted DEF PointersType
  <2> QED
    BY <1>0, <1>3, <2>1 DEF CountInv
<1>6. /\ count'[b] = count[b] + 1
      /\ \A c \in Pointer!Blocks \ {b} : count'[c] = count[c]
      /\ \A u \in Threads \ {t} : work'[u] = work[u]
  BY <1>0, <1>1, <1>2, <1>3 DEF PointersType
<1>7. /\ work[t].at = "copy" => work'[t] = Pointer!Idle /\ work'[t].at = "idle" /\ work'[t].new = 0
      /\ work[t].at = "assign" => /\ work'[t].at = "drop" /\ work'[t].h = x /\ work'[t].new = b
                                  /\ work'[t] \in Works
  BY <1>0, <1>2 DEF PointersType, Pointer!Idle, Works, Ats
<1>8. PointersType'
  <2>1. Pointer!Idle \in Works
    BY <1>3 DEF Pointer!Idle, Works, Ats
  <2>2. work'[t] \in Works
    BY <1>1, <1>7, <2>1
  <2>3. \A u \in Threads : work'[u] \in Works
    BY <1>0, <1>6, <2>2 DEF PointersType
  <2>4. work' = [u \in Threads |-> work'[u]]
    BY <1>0, <1>1, <1>2 DEF PointersType
  <2>5. work' \in [Threads -> Works]
    BY <2>3, <2>4
  <2>6. count' \in [Pointer!Blocks -> Nat]
    BY <1>0, <1>1, <1>3, <1>5 DEF PointersType
  <2> QED
    BY <1>0, <1>1, <2>5, <2>6 DEF PointersType
<1>9. WorkInv'
  BY <1>0, <1>1, <1>3, <1>6, <1>7 DEF WorkInv, OwnHandles
<1>10. \A u \in Threads : /\ Pointer!Fresh(u) => work[u].new # b
                          /\ u # t => (Pointer!Fresh(u)' <=> Pointer!Fresh(u))
                          /\ u # t => (Pointer!Dropping(u)' <=> Pointer!Dropping(u))
  <2>1. \A u \in Threads : work[u].new \in {0} \union Pointer!Blocks
    BY <1>0 DEF PointersType, Works, Pointer!Blocks
  <2> QED
    BY <1>1, <1>3, <1>5, <1>6, <2>1 DEF Pointer!Fresh, Pointer!Dropping
<1>11. /\ \A k \in Pointer!AllHandles \ {x} : Pointer!Between(k)' <=> Pointer!Between(k)
       /\ Pointer!Between(x) <=> work[t].at = "copy"
       /\ ~ Pointer!Between(x)'
  <2>1. OwnHandles(work) /\ OwnHandles(work')
    BY <1>0, <1>9 DEF WorkInv
  <2>2. work'[t].at # "idle" => work'[t].h = x
    BY <1>1, <1>7
  <2>3. work[t].h = x
    OBVIOUS
  <2> QED
    BY <1>1, <1>3, <1>6, <1>7, <2>1, <2>2, <2>3, BetweenStep DEF Moving
<1>12. \A c \in 1 .. made \ {b} : /\ Pointer!Holding(c)' = Pointer!Holding(c)
                                  /\ Pointer!Taking(c)' = Pointer!Taking(c)
  <2>1. data[x] = b \/ work[t].at = "assign"
    BY <1>0, <1>1 DEF WorkInv
  <2>2. work[t].new = b /\ work'[t].new \in {0, b}
    BY <1>1, <1>7
  <2>3. \A c \in 1 .. made \ {b} : Pointer!Holding(c)' = Pointer!Holding(c)
    BY <1>1, <1>11, <2>1 DEF Pointer!Holding
  <2>4. \A c \in 1 .. made \ {b} : Pointer!Taking(c)' = Pointer!Taking(c)
    BY <1>6, <1>10, <2>2 DEF Pointer!Taking
  <2> QED
    BY <2>3, <2>4
<1>13. count'[b] = Cardinality(Pointer!Holding(b)') + Cardinality(Pointer!Taking(b)')
  <2>0. count[b] = Cardinality(Pointer!Holding(b)) + Cardinality(Pointer!Taking(b))
    BY <1>0, <1>3 DEF CountInv
  <2>1. CASE work[t].at = "copy"
    <3>1. data[x] = b
      BY <1>0, <2>1 DEF WorkInv
    <3>2. Pointer!Holding(b)' = Pointer!Holding(b) \union {x} /\ x \notin Pointer!Holding(b)
      BY <1>1, <1>3, <1>11, <2>1, <3>1 DEF Pointer!Holding
    <3>3. Pointer!Taking(b)' = Pointer!Taking(b)
      BY <1>6, <1>7, <1>10, <2>1 DEF Pointer!Taking, Pointer!Dropping
    <3>4. Cardinality(Pointer!Holding(b)') = Cardinality(Pointer!Holding(b)) + 1
      <4>1. IsFiniteSet(Pointer!Holding(b))
        BY ReferencesFinite
      <4> QED
        BY <3>2, <4>1, FS_AddElement
    <3> QED
      BY <1>6, <2>0, <3>3, <3>4, ReferencesFinite
  <2>2. CASE work[t].at = "assign"
    <3>1. Pointer!Holding(b)' = Pointer!Holding(b)
      BY <1>1, <1>11, <2>2 DEF Pointer!Holding
    <3>2. ~ Pointer!Fresh(t)' /\ Pointer!Dropping(t)' /\ work'[t].new = b
      BY <1>5, <1>6, <1>7, <2>2 DEF Pointer!Fresh, Pointer!Dropping
    <3>3. Pointer!Taking(b)' = Pointer!Taking(b) \union {t} /\ t \notin Pointer!Taking(b)
      BY <1>6, <1>10, <2>2, <3>2 DEF Pointer!Taking, Pointer!Dropping
    <3>4. Cardinality(Pointer!Taking(b)') = Cardinality(Pointer!Taking(b)) + 1
      BY <3>3, ReferencesFinite, FS_AddElement
    <3> QED
      BY <1>6, <2>0, <3>1, <3>4, ReferencesFinite
  <2> QED
    BY <1>1, <2>1, <2>2
<1>14. CountInv'
  <2>1. 1 .. made \subseteq Pointer!Blocks
    BY <1>0, <1>3 DEF PointersType, Pointer!Blocks
  <2> QED
    BY <1>0, <1>1, <1>5, <1>6, <1>12, <1>13, <2>1 DEF CountInv
<1>15. MadeInv'
  <2>1. \A u \in Threads : work'[u].new = work[u].new \/ work'[u].new = 0
    BY <1>1, <1>6, <1>7
  <2> QED
    BY <1>0, <1>1, <1>3, <1>6, <2>1 DEF MadeInv
<1>16. DeleteInv'
  <2>1. \A u \in Threads : work'[u].at = "delete" => u # t /\ data[work[u].h] \in Pointer!Blocks \ {b}
    <3>1. ASSUME NEW u \in Threads, work'[u].at = "delete" PROVE u # t /\ data[work[u].h] \in Pointer!Blocks \ {b}
      <4>1. u # t /\ work[u].at = "delete"
        BY <1>1, <1>6, <1>7, <3>1
      <4>2. work[u].h \in Pointer!AllHandles /\ data[work[u].h] # 0 /\ count[data[work[u].h]] = 0
        BY <1>0, <4>1, HandleOf DEF WorkInv, OwnHandles, DeleteInv
      <4> QED
        BY <1>0, <1>5, <4>1, <4>2 DEF PointersType, Pointer!Blocks
    <3> QED
      BY <3>1
  <2> QED
    BY <1>0, <1>1, <1>6, <2>1 DEF DeleteInv
<1>17. FreshInv'
  <2>1. ~ (Pointer!Dropping(t)' /\ Pointer!Fresh(t)')
    BY <1>1, <1>5, <1>6, <1>7 DEF Pointer!Fresh, Pointer!Dropping
  <2>2. work'[t].new \in {0, b}
    BY <1>1, <1>7
  <2>3. \A u \in Threads : Pointer!Fresh(u) => work[u].new \notin {0, b}
    BY <1>10 DEF Pointer!Fresh
  <2> QED
    BY <1>0, <1>1, <1>6, <1>10, <2>1, <2>2, <2>3 DEF FreshInv
<1>18. ApartInv'
  <2>1. work'[t].new = work[t].new \/ work'[t].new = 0
    BY <1>1, <1>7
  <2>2. \A c \in Pointer!Blocks : c # 0
    BY DEF Pointer!Blocks
  <2> QED
    BY <1>0, <1>1, <1>6, <2>1, <2>2 DEF ApartInv, OwnedAlone
<1>19. (Pointer!OneOwner)'
  BY <1>0, <1>1 DEF Pointer!OneOwner
<1>20. (Pointer!NoneLeft)'
  <2> SUFFICES ASSUME NEW c \in 1 .. made', deleted'[c] = 0
               PROVE  \/ count'[c] > 0
                      \/ \E u \in Threads : \/ Pointer!Dropping(u)' /\ work'[u].new = c
                                            \/ work'[u].at = "delete" /\ data'[work'[u].h] = c
                      \/ c \in loose'
                      \/ \E e \in Exclusive : value'[e] = c
    BY DEF Pointer!NoneLeft
  <2>1. CASE c = b
    BY <1>5, <1>6, <2>1
  <2>2. CASE c # b
    <3>1. count'[c] = count[c]
      BY <1>0, <1>1, <1>3, <1>6, <2>2 DEF PointersType, Pointer!Blocks
    <3>2. ~ Pointer!Dropping(t) /\ work[t].at # "delete"
      BY <1>1 DEF Pointer!Dropping
    <3> QED
      BY <1>0, <1>1, <1>6, <1>10, <2>2, <3>1, <3>2 DEF Pointer!NoneLeft
  <2> QED
    BY <2>1, <2>2
<1> QED
  BY <1>8, <1>9, <1>14, <1>15, <1>16, <1>17, <1>18, <1>19, <1>20 DEF PointersInv

(* The step that decides who destroys the value, and the step that does.   *)
LEMMA DecrementStep ==
    ASSUME HandlesApart, PointersInv, NEW t \in Threads, Pointer!Decrement(t)
    PROVE  PointersInv'
<1>0. /\ PointersType /\ MadeInv /\ WorkInv /\ DeleteInv /\ FreshInv /\ ApartInv
      /\ CountInv /\ Pointer!OneOwner /\ Pointer!NoneLeft
  BY DEF PointersInv
<1> PICK x, b : x = work[t].h /\ b = data[x]
  OBVIOUS
<1>1. /\ work[t].at = "drop"
      /\ count' = [count EXCEPT ![b] = count[b] - 1]
      /\ UNCHANGED <<data, deleted, made, value, loose>>
  BY DEF Pointer!Decrement, Pointer!Stays
<1>2. PICK phase \in {"delete", "settle"} :
          /\ work' = [work EXCEPT ![t].at = phase]
          /\ phase = "delete" <=> count[b] = 1
  BY DEF Pointer!Decrement
<1>3. /\ x \in Handles[t] /\ x \in Pointer!AllHandles
      /\ b \in 1 .. made /\ b \in Pointer!Blocks /\ made \in Nat /\ MaxBlocks \in Nat
  <2>1. x \in Handles[t] /\ x \in Pointer!AllHandles
    BY <1>0, <1>1, HandleOf DEF WorkInv, OwnHandles
  <2>2. b # 0 /\ b \in 0 .. MaxBlocks /\ b <= made /\ made \in Pointer!Blocks /\ MaxBlocks \in Nat
    BY <1>0, <1>1, <2>1 DEF WorkInv, MadeInv, PointersType, HandlesApart
  <2> QED
    BY <2>1, <2>2 DEF Pointer!Blocks
<1>4. x \in Pointer!Holding(b)
  BY <1>0, <1>1, <1>3, BetweenOwn DEF Pointer!Holding, WorkInv, Moving
<1>5. count[b] >= 1 /\ count[b] \in Nat /\ deleted[b] = 0
  <2>1. count[b] >= 1 /\ count[b] \in Nat
    BY <1>0, <1>3, <1>4, Counted DEF PointersType
  <2> QED
    BY <1>0, <1>3, <2>1 DEF CountInv
<1>6. \A u \in Threads : Pointer!Dropping(u) /\ work[u].new = b => count[b] # 1 /\ ~ Pointer!Fresh(u)
  <2> SUFFICES ASSUME NEW u \in Threads, Pointer!Dropping(u), work[u].new = b
               PROVE  count[b] # 1 /\ ~ Pointer!Fresh(u)
    OBVIOUS
  <2>1. ~ Pointer!Fresh(u)
    BY <1>5 DEF Pointer!Fresh
  <2>2. u \in Pointer!Taking(b)
    BY <2>1 DEF Pointer!Taking
  <2> QED
    BY <1>0, <1>3, <1>4, <2>1, <2>2, Counted
<1>7. /\ count'[b] = count[b] - 1
      /\ \A c \in Pointer!Blocks \ {b} : count'[c] = count[c]
      /\ \A u \in Threads \ {t} : work'[u] = work[u]
      /\ work'[t].at = phase /\ work'[t].h = x /\ work'[t].new = work[t].new
  BY <1>0, <1>1, <1>2, <1>3 DEF PointersType, Works
<1>8. PointersType'
  <2>1. work[t] \in Works /\ [work[t] EXCEPT !.at = phase] \in Works
    BY <1>0, <1>2 DEF PointersType, Works, Ats
  <2>2. work' \in [Threads -> Works]
    BY <1>0, <1>2, <2>1, Zenon DEF PointersType
  <2>3. count' \in [Pointer!Blocks -> Nat]
    BY <1>0, <1>1, <1>3, <1>5 DEF PointersType
  <2> QED
    BY <1>0, <1>1, <2>2, <2>3 DEF PointersType
<1>9. WorkInv'
  <2>1. data[x] # 0 /\ phase \notin {"idle", "copy", "assign"}
    BY <1>2, <1>3
  <2> QED
    BY <1>0, <1>1, <1>3, <1>7, <2>1 DEF WorkInv, OwnHandles
<1>10. \A u \in Threads : /\ Pointer!Dropping(u)' <=> Pointer!Dropping(u)
                          /\ Pointer!Dropping(u) => (Pointer!Fresh(u)' <=> Pointer!Fresh(u))
                          /\ work'[u].new = work[u].new
  <2>1. \A u \in Threads : work[u].new \in {0} \union Pointer!Blocks
    BY <1>0 DEF PointersType, Works, Pointer!Blocks
  <2>2. \A u \in Threads : work'[u].new = work[u].new /\ (Pointer!Dropping(u)' <=> Pointer!Dropping(u))
    BY <1>1, <1>2, <1>7 DEF Pointer!Dropping
  <2>3. ASSUME NEW u \in Threads, Pointer!Dropping(u) PROVE Pointer!Fresh(u)' <=> Pointer!Fresh(u)
    <3>1. CASE work[u].new = b
      BY <1>3, <1>5, <1>6, <1>7, <2>2, <2>3, <3>1 DEF Pointer!Fresh
    <3>2. CASE work[u].new # b
      BY <1>1, <1>7, <2>1, <2>2, <3>2 DEF Pointer!Fresh
    <3> QED
      BY <3>1, <3>2
  <2> QED
    BY <2>2, <2>3
<1>11. /\ \A k \in Pointer!AllHandles \ {x} : Pointer!Between(k)' <=> Pointer!Between(k)
       /\ ~ Pointer!Between(x)
       /\ Pointer!Between(x)'
  <2>1. OwnHandles(work) /\ OwnHandles(work')
    BY <1>0, <1>9 DEF WorkInv
  <2> QED
    BY <1>1, <1>2, <1>3, <1>7, <2>1, BetweenStep DEF Moving
<1>12. /\ Pointer!Holding(b)' = Pointer!Holding(b) \ {x}
       /\ \A c \in 1 .. made \ {b} : Pointer!Holding(c)' = Pointer!Holding(c)
  BY <1>1, <1>11 DEF Pointer!Holding
<1>13. \A c \in 1 .. made : Pointer!Taking(c)' = Pointer!Taking(c)
  BY <1>10 DEF Pointer!Taking
<1>14. CountInv'
  <2>1. 1 .. made \subseteq Pointer!Blocks
    BY <1>0, <1>3 DEF PointersType, Pointer!Blocks
  <2>2. IsFiniteSet(Pointer!Holding(b))
    BY ReferencesFinite
  <2>3. Cardinality(Pointer!Holding(b)') = Cardinality(Pointer!Holding(b)) - 1
    <3>1. Cardinality(Pointer!Holding(b) \ {x}) = Cardinality(Pointer!Holding(b)) - 1
      BY <1>4, <2>2, FS_RemoveElement
    <3> QED
      BY <1>12, <3>1
  <2>4. count'[b] = Cardinality(Pointer!Holding(b)') + Cardinality(Pointer!Taking(b)')
    <3>1. count[b] = Cardinality(Pointer!Holding(b)) + Cardinality(Pointer!Taking(b))
      BY <1>0, <1>3 DEF CountInv
    <3> QED
      BY <1>3, <1>7, <1>13, <2>3, <3>1, ReferencesFinite
  <2> QED
    <3>1. ASSUME NEW c \in 1 .. made \ {b}
          PROVE  /\ count'[c] = Cardinality(Pointer!Holding(c)') + Cardinality(Pointer!Taking(c)')
                 /\ deleted[c] \in {0, 1}
                 /\ count'[c] > 0 => deleted[c] = 0
      BY <1>0, <1>7, <1>12, <1>13, <2>1 DEF CountInv
    <3> QED
      BY <1>1, <1>5, <2>4, <3>1 DEF CountInv
<1>15. MadeInv'
  BY <1>0, <1>1, <1>3, <1>7, <1>10 DEF MadeInv
<1>16. DeleteInv'
  <2>1. ASSUME NEW u \in Threads \ {t}, work[u].at = "delete"
        PROVE  data[work[u].h] \in Pointer!Blocks \ {b}
    <3>1. work[u].h \in Pointer!AllHandles /\ data[work[u].h] # 0 /\ count[data[work[u].h]] = 0
      BY <1>0, <2>1, HandleOf DEF WorkInv, OwnHandles, DeleteInv
    <3> QED
      BY <1>0, <1>5, <3>1 DEF PointersType, Pointer!Blocks
  <2>2. phase = "delete" => count'[b] = 0
    BY <1>2, <1>7
  <2>3. work[t].at # "delete"
    BY <1>1
  <2> QED
    BY <1>0, <1>1, <1>5, <1>7, <2>1, <2>2, <2>3 DEF DeleteInv
<1>17. FreshInv'
  BY <1>0, <1>1, <1>10 DEF FreshInv
<1>18. ApartInv'
  BY <1>0, <1>1, <1>10 DEF ApartInv, OwnedAlone
<1>19. (Pointer!OneOwner)'
  BY <1>0, <1>1 DEF Pointer!OneOwner
<1>20. (Pointer!NoneLeft)'
  <2> SUFFICES ASSUME NEW c \in 1 .. made', deleted'[c] = 0
               PROVE  \/ count'[c] > 0
                      \/ \E u \in Threads : \/ Pointer!Dropping(u)' /\ work'[u].new = c
                                            \/ work'[u].at = "delete" /\ data'[work'[u].h] = c
                      \/ c \in loose'
                      \/ \E e \in Exclusive : value'[e] = c
    BY DEF Pointer!NoneLeft
  <2>1. CASE c = b
    <3>1. count'[b] > 0 \/ phase = "delete"
      BY <1>2, <1>5, <1>7
    <3> QED
      BY <1>1, <1>7, <2>1, <3>1
  <2>2. CASE c # b
    <3>1. count'[c] = count[c]
      BY <1>0, <1>1, <1>3, <1>7, <2>2 DEF PointersType, Pointer!Blocks
    <3>2. work[t].at # "delete"
      BY <1>1
    <3> QED
      BY <1>0, <1>1, <1>7, <1>10, <2>2, <3>1, <3>2 DEF Pointer!NoneLeft
  <2> QED
    BY <2>1, <2>2
<1> QED
  BY <1>8, <1>9, <1>14, <1>15, <1>16, <1>17, <1>18, <1>19, <1>20 DEF PointersInv

LEMMA DeleteStep ==
    ASSUME HandlesApart, PointersInv, NEW t \in Threads, Pointer!Delete(t)
    PROVE  PointersInv'
<1>0. /\ PointersType /\ MadeInv /\ WorkInv /\ DeleteInv /\ FreshInv /\ ApartInv
      /\ CountInv /\ Pointer!OneOwner /\ Pointer!NoneLeft
  BY DEF PointersInv
<1> PICK x, b : x = work[t].h /\ b = data[x]
  OBVIOUS
<1>1. /\ work[t].at = "delete"
      /\ deleted' = [deleted EXCEPT ![b] = deleted[b] + 1]
      /\ work' = [work EXCEPT ![t].at = "settle"]
      /\ UNCHANGED <<data, count, made, value, loose>>
  BY DEF Pointer!Delete, Pointer!Stays
<1>3. /\ x \in Handles[t] /\ x \in Pointer!AllHandles
      /\ b \in 1 .. made /\ b \in Pointer!Blocks /\ made \in Nat /\ MaxBlocks \in Nat
  <2>1. x \in Handles[t] /\ x \in Pointer!AllHandles
    BY <1>0, <1>1, HandleOf DEF WorkInv, OwnHandles
  <2>2. b # 0 /\ b \in 0 .. MaxBlocks /\ b <= made /\ made \in Pointer!Blocks /\ MaxBlocks \in Nat
    BY <1>0, <1>1, <2>1 DEF WorkInv, MadeInv, PointersType, HandlesApart
  <2> QED
    BY <2>1, <2>2 DEF Pointer!Blocks
<1>4. count[b] = 0 /\ deleted[b] = 0
  BY <1>0, <1>1 DEF DeleteInv
<1>5. \A u \in Threads : Pointer!Dropping(u) => work[u].new # b
  <2> SUFFICES ASSUME NEW u \in Threads, Pointer!Dropping(u), work[u].new = b PROVE FALSE
    OBVIOUS
  <2>1. ~ Pointer!Fresh(u)
    BY <1>0, <1>3 DEF FreshInv
  <2>2. u \in Pointer!Taking(b)
    BY <2>1 DEF Pointer!Taking
  <2> QED
    BY <1>0, <1>3, <1>4, <2>2, Counted
<1>7. /\ deleted'[b] = 1
      /\ \A c \in Pointer!Blocks \ {b} : deleted'[c] = deleted[c]
      /\ \A u \in Threads \ {t} : work'[u] = work[u]
      /\ work'[t].at = "settle" /\ work'[t].h = x /\ work'[t].new = work[t].new
  BY <1>0, <1>1, <1>3, <1>4 DEF PointersType, Works
<1>8. PointersType'
  <2>1. work[t] \in Works /\ [work[t] EXCEPT !.at = "settle"] \in Works
    BY <1>0 DEF PointersType, Works, Ats
  <2>2. work' \in [Threads -> Works]
    BY <1>0, <1>1, <2>1, Zenon DEF PointersType
  <2>3. deleted' \in [Pointer!Blocks -> Nat]
    BY <1>0, <1>1, <1>3, <1>4 DEF PointersType
  <2> QED
    BY <1>0, <1>1, <2>2, <2>3 DEF PointersType
<1>9. WorkInv'
  BY <1>0, <1>1, <1>3, <1>7 DEF WorkInv, OwnHandles
<1>10. \A u \in Threads : /\ Pointer!Dropping(u)' <=> Pointer!Dropping(u)
                          /\ Pointer!Dropping(u) => (Pointer!Fresh(u)' <=> Pointer!Fresh(u))
                          /\ work'[u].new = work[u].new
  <2>1. \A u \in Threads : work[u].new \in {0} \union Pointer!Blocks
    BY <1>0 DEF PointersType, Works, Pointer!Blocks
  <2>2. \A u \in Threads : work'[u].new = work[u].new /\ (Pointer!Dropping(u)' <=> Pointer!Dropping(u))
    BY <1>1, <1>7 DEF Pointer!Dropping
  <2> QED
    BY <1>1, <1>5, <1>7, <2>1, <2>2 DEF Pointer!Fresh
<1>11. \A k \in Pointer!AllHandles : Pointer!Between(k)' <=> Pointer!Between(k)
  <2>1. OwnHandles(work) /\ OwnHandles(work')
    BY <1>0, <1>9 DEF WorkInv
  <2> QED
    BY <1>1, <1>3, <1>7, <2>1, BetweenStep DEF Moving
<1>12. \A c \in 1 .. made : /\ Pointer!Holding(c)' = Pointer!Holding(c)
                            /\ Pointer!Taking(c)' = Pointer!Taking(c)
  BY <1>1, <1>10, <1>11 DEF Pointer!Holding, Pointer!Taking
<1>14. CountInv'
  <2>1. 1 .. made \subseteq Pointer!Blocks
    BY <1>0, <1>3 DEF PointersType, Pointer!Blocks
  <2> QED
    BY <1>0, <1>1, <1>4, <1>7, <1>12, <2>1 DEF CountInv
<1>15. MadeInv'
  BY <1>0, <1>1, <1>3, <1>7, <1>10 DEF MadeInv
<1>16. DeleteInv'
  <2>1. ASSUME NEW u \in Threads \ {t}, work[u].at = "delete"
        PROVE  data[work[u].h] \in Pointer!Blocks \ {b}
    <3>1. work[u].h \in Pointer!AllHandles /\ data[work[u].h] # 0 /\ data[work[u].h] # b
      BY <1>0, <1>1, <2>1, HandleOf DEF WorkInv, OwnHandles, DeleteInv
    <3> QED
      BY <1>0, <3>1 DEF PointersType, Pointer!Blocks
  <2> QED
    BY <1>0, <1>1, <1>7, <2>1 DEF DeleteInv
<1>17. FreshInv'
  BY <1>0, <1>1, <1>10 DEF FreshInv
<1>18. ApartInv'
  BY <1>0, <1>1, <1>10 DEF ApartInv, OwnedAlone
<1>19. (Pointer!OneOwner)'
  <2>1. \A c \in Pointer!Blocks : OwnedAlone(c) => c # b
    BY <1>0, <1>3 DEF ApartInv
  <2>2. \A e \in Exclusive : value[e] # 0 => value[e] \in Pointer!Blocks \ {b}
    BY <1>0, <2>1 DEF OwnedAlone, PointersType, Pointer!Blocks
  <2>3. \A c \in loose : c \in Pointer!Blocks \ {b}
    BY <1>0, <2>1 DEF OwnedAlone, PointersType
  <2> QED
    BY <1>0, <1>1, <1>7, <2>2, <2>3 DEF Pointer!OneOwner
<1>20. (Pointer!NoneLeft)'
  <2> SUFFICES ASSUME NEW c \in 1 .. made', deleted'[c] = 0
               PROVE  \/ count'[c] > 0
                      \/ \E u \in Threads : \/ Pointer!Dropping(u)' /\ work'[u].new = c
                                            \/ work'[u].at = "delete" /\ data'[work'[u].h] = c
                      \/ c \in loose'
                      \/ \E e \in Exclusive : value'[e] = c
    BY DEF Pointer!NoneLeft
  <2>1. c # b
    BY <1>7
  <2>2. deleted[c] = 0
    BY <1>0, <1>1, <1>3, <1>7, <2>1 DEF PointersType, Pointer!Blocks
  <2> QED
    BY <1>0, <1>1, <1>7, <1>10, <2>1, <2>2 DEF Pointer!NoneLeft
<1> QED
  BY <1>8, <1>9, <1>14, <1>15, <1>16, <1>17, <1>18, <1>19, <1>20 DEF PointersInv

(* The handle gets what it is to have. *)
LEMMA FinishStep ==
    ASSUME HandlesApart, PointersInv, NEW t \in Threads, Pointer!Finish(t)
    PROVE  PointersInv'
<1>0. /\ PointersType /\ MadeInv /\ WorkInv /\ DeleteInv /\ FreshInv /\ ApartInv
      /\ CountInv /\ Pointer!OneOwner /\ Pointer!NoneLeft
  BY DEF PointersInv
<1> PICK x, n : x = work[t].h /\ n = work[t].new
  OBVIOUS
<1>1. /\ work[t].at = "settle"
      /\ data' = [data EXCEPT ![x] = n]
      /\ count' = IF Pointer!Fresh(t) THEN [count EXCEPT ![n] = 1] ELSE count
      /\ work' = [work EXCEPT ![t] = Pointer!Idle]
      /\ UNCHANGED <<deleted, made, value, loose>>
  BY DEF Pointer!Finish, Pointer!Settle, Pointer!Stays
<1>2. /\ x \in Handles[t] /\ x \in Pointer!AllHandles
      /\ n \in 0 .. MaxBlocks /\ n <= made /\ made \in Nat /\ MaxBlocks \in Nat
      /\ 1 .. made \subseteq Pointer!Blocks
      /\ Pointer!Dropping(t)
      /\ n # 0 => n \in 1 .. made /\ n \in Pointer!Blocks
      /\ Pointer!Fresh(t) <=> n # 0 /\ count[n] = 0 /\ deleted[n] = 0
  <2>1. x \in Handles[t] /\ x \in Pointer!AllHandles
    BY <1>0, <1>1, HandleOf DEF WorkInv, OwnHandles
  <2>2. n \in 0 .. MaxBlocks /\ n <= made /\ made \in Pointer!Blocks /\ MaxBlocks \in Nat
    BY <1>0 DEF MadeInv, PointersType, Works, HandlesApart
  <2> QED
    BY <1>1, <2>1, <2>2 DEF Pointer!Blocks, Pointer!Dropping, Pointer!Fresh
<1>3. /\ data'[x] = n /\ \A k \in Pointer!AllHandles \ {x} : data'[k] = data[k]
      /\ \A u \in Threads \ {t} : work'[u] = work[u]
      /\ work'[t].at = "idle" /\ work'[t].new = 0
      /\ \A c \in Pointer!Blocks \ {n} : count'[c] = count[c]
      /\ Pointer!Fresh(t) => count'[n] = 1
      /\ ~ Pointer!Fresh(t) => count' = count
  BY <1>0, <1>1, <1>2 DEF PointersType, Pointer!Idle
<1>4. Pointer!Fresh(t) => /\ \A k \in Pointer!AllHandles : data[k] # n
                          /\ \A u \in Threads \ {t} : work[u].new # n
  BY <1>0, <1>2 DEF FreshInv
<1>5. PointersType'
  <2>1. Pointer!Idle \in Works
    BY <1>2 DEF Pointer!Idle, Works, Ats
  <2>2. work' \in [Threads -> Works]
    BY <1>0, <1>1, <2>1, Zenon DEF PointersType
  <2>3. data' \in [Pointer!AllHandles -> 0 .. MaxBlocks]
    BY <1>0, <1>1, <1>2 DEF PointersType
  <2>4. count' \in [Pointer!Blocks -> Nat]
    BY <1>0, <1>1, <1>2 DEF PointersType
  <2> QED
    BY <1>0, <1>1, <2>2, <2>3, <2>4 DEF PointersType
<1>6. \A u \in Threads \ {t} : \A k \in Handles[u] : k # x /\ data'[k] = data[k]
  BY <1>2, <1>3, OtherHandles
<1>7. WorkInv'
  <2>1. OwnHandles(work') /\ \A u \in Threads : work'[u].at = "idle" => work'[u].new = 0
    BY <1>0, <1>3 DEF WorkInv, OwnHandles
  <2> QED
    BY <1>0, <1>3, <1>6, <2>1 DEF WorkInv, OwnHandles
<1>8. /\ \A k \in Pointer!AllHandles \ {x} : Pointer!Between(k)' <=> Pointer!Between(k)
      /\ Pointer!Between(x)
      /\ ~ Pointer!Between(x)'
  <2>1. OwnHandles(work) /\ OwnHandles(work')
    BY <1>0, <1>7 DEF WorkInv
  <2> QED
    BY <1>1, <1>2, <1>3, <2>1, BetweenStep DEF Moving
<1>9. \A u \in Threads \ {t} : /\ Pointer!Dropping(u)' <=> Pointer!Dropping(u)
                               /\ Pointer!Fresh(u)' <=> Pointer!Fresh(u)
  <2>1. \A u \in Threads : work[u].new \in {0} \union Pointer!Blocks
    BY <1>0 DEF PointersType, Works, Pointer!Blocks
  <2>2. \A u \in Threads \ {t} : Pointer!Dropping(u)' <=> Pointer!Dropping(u)
    BY <1>3 DEF Pointer!Dropping
  <2>3. ASSUME NEW u \in Threads \ {t} PROVE Pointer!Fresh(u)' <=> Pointer!Fresh(u)
    <3>1. work'[u] = work[u] /\ deleted' = deleted
      BY <1>1, <1>3
    <3>2. work[u].new = 0 \/ count'[work[u].new] = count[work[u].new]
      BY <1>3, <1>4, <2>1
    <3> QED
      BY <3>1, <3>2 DEF Pointer!Fresh
  <2> QED
    BY <2>2, <2>3
<1>10. \A c \in 1 .. made \ {n} : /\ Pointer!Holding(c)' = Pointer!Holding(c)
                                  /\ Pointer!Taking(c)' = Pointer!Taking(c)
  <2>1. \A c \in 1 .. made \ {n} : Pointer!Holding(c)' = Pointer!Holding(c)
    BY <1>3, <1>8 DEF Pointer!Holding
  <2>2. ~ Pointer!Dropping(t)' /\ work[t].new = n
    BY <1>3 DEF Pointer!Dropping
  <2>3. \A c \in 1 .. made \ {n} : Pointer!Taking(c)' = Pointer!Taking(c)
    BY <1>3, <1>9, <2>2 DEF Pointer!Taking
  <2> QED
    BY <2>1, <2>3
<1>11. n # 0 => /\ Pointer!Holding(n)' = Pointer!Holding(n) \union {x}
                /\ x \notin Pointer!Holding(n)
                /\ Pointer!Taking(n)' = Pointer!Taking(n) \ {t}
                /\ t \in Pointer!Taking(n) <=> ~ Pointer!Fresh(t)
  <2>1. /\ Pointer!Holding(n)' = Pointer!Holding(n) \union {x}
        /\ x \notin Pointer!Holding(n)
    BY <1>2, <1>3, <1>8 DEF Pointer!Holding
  <2>2. ~ Pointer!Dropping(t)' /\ work[t].new = n
    BY <1>3 DEF Pointer!Dropping
  <2>3. /\ Pointer!Taking(n)' = Pointer!Taking(n) \ {t}
        /\ t \in Pointer!Taking(n) <=> ~ Pointer!Fresh(t)
    BY <1>2, <1>3, <1>9, <2>2 DEF Pointer!Taking
  <2> QED
    BY <2>1, <2>3
<1>12. n # 0 => /\ count'[n] = Cardinality(Pointer!Holding(n)') + Cardinality(Pointer!Taking(n)')
                /\ deleted[n] \in {0, 1}
                /\ deleted[n] = 0
                /\ count'[n] > 0
  <2> SUFFICES ASSUME n # 0
               PROVE  /\ count'[n] = Cardinality(Pointer!Holding(n)') + Cardinality(Pointer!Taking(n)')
                      /\ deleted[n] \in {0, 1}
                      /\ deleted[n] = 0
                      /\ count'[n] > 0
    OBVIOUS
  <2>1. /\ IsFiniteSet(Pointer!Holding(n)) /\ Cardinality(Pointer!Holding(n)) \in Nat
        /\ IsFiniteSet(Pointer!Taking(n)) /\ Cardinality(Pointer!Taking(n)) \in Nat
    BY ReferencesFinite
  <2>2. Cardinality(Pointer!Holding(n)') = Cardinality(Pointer!Holding(n)) + 1
    BY <1>11, <2>1, FS_AddElement
  <2>3. Cardinality(Pointer!Taking(n)') =
            IF Pointer!Fresh(t) THEN Cardinality(Pointer!Taking(n)) ELSE Cardinality(Pointer!Taking(n)) - 1
    BY <1>11, <2>1, FS_RemoveElement
  <2>4. /\ count[n] = Cardinality(Pointer!Holding(n)) + Cardinality(Pointer!Taking(n))
        /\ deleted[n] \in {0, 1}
        /\ count[n] > 0 => deleted[n] = 0
    BY <1>0, <1>2 DEF CountInv
  <2>5. CASE Pointer!Fresh(t)
    <3>1. count[n] = 0 /\ count'[n] = 1 /\ deleted[n] = 0
      BY <1>2, <1>3, <2>5
    <3> QED
      BY <2>1, <2>2, <2>3, <2>4, <2>5, <3>1
  <2>6. CASE ~ Pointer!Fresh(t)
    <3>1. count'[n] = count[n] /\ count[n] >= 1
      BY <1>0, <1>2, <1>3, <1>11, <2>6, Counted
    <3> QED
      BY <2>1, <2>2, <2>3, <2>4, <2>6, <3>1
  <2> QED
    BY <2>5, <2>6
<1>13. CountInv'
  <2>1. ASSUME NEW c \in 1 .. made \ {n}
        PROVE  /\ count'[c] = Cardinality(Pointer!Holding(c)') + Cardinality(Pointer!Taking(c)')
               /\ deleted[c] \in {0, 1}
               /\ count'[c] > 0 => deleted[c] = 0
    BY <1>0, <1>2, <1>3, <1>10 DEF CountInv
  <2> QED
    BY <1>1, <1>2, <1>12, <2>1 DEF CountInv
<1>14. MadeInv'
  BY <1>0, <1>1, <1>2, <1>3 DEF MadeInv
<1>15. DeleteInv'
  <2>1. ASSUME NEW u \in Threads, work'[u].at = "delete"
        PROVE  /\ u # t /\ work[u].at = "delete" /\ work'[u] = work[u]
               /\ data'[work[u].h] = data[work[u].h]
               /\ count'[data[work[u].h]] = count[data[work[u].h]]
    <3>1. u # t /\ work[u].at = "delete" /\ work'[u] = work[u]
      BY <1>3, <2>1
    <3>2. work[u].h \in Handles[u] /\ work[u].h \in Pointer!AllHandles /\ data[work[u].h] # 0
      BY <1>0, <3>1, HandleOf DEF WorkInv, OwnHandles
    <3>3. data[work[u].h] \in Pointer!Blocks /\ data'[work[u].h] = data[work[u].h]
      BY <1>0, <1>6, <3>1, <3>2 DEF PointersType, Pointer!Blocks
    <3> QED
      BY <1>3, <1>4, <3>1, <3>2, <3>3
  <2> QED
    BY <1>0, <1>1, <2>1 DEF DeleteInv
<1>16. FreshInv'
  <2>1. ASSUME NEW u \in Threads \ {t}, Pointer!Dropping(u), Pointer!Fresh(u)
        PROVE  n # work[u].new
    <3>1. work[u].new # 0 /\ count[work[u].new] = 0 /\ deleted[work[u].new] = 0
      BY <2>1 DEF Pointer!Fresh
    <3> QED
      BY <1>2, <1>4, <3>1
  <2>2. ~ Pointer!Dropping(t)' /\ work'[t].new = 0
    BY <1>3 DEF Pointer!Dropping
  <2>3. \A u \in Threads : Pointer!Fresh(u) => work[u].new # 0
    BY DEF Pointer!Fresh
  <2> QED
    BY <1>0, <1>3, <1>9, <2>1, <2>2, <2>3 DEF FreshInv
<1>17. ApartInv'
  <2>1. \A c \in Pointer!Blocks : c # 0
    BY DEF Pointer!Blocks
  <2> QED
    BY <1>0, <1>1, <1>3, <2>1 DEF ApartInv, OwnedAlone
<1>18. (Pointer!OneOwner)'
  BY <1>0, <1>1 DEF Pointer!OneOwner
<1>19. (Pointer!NoneLeft)'
  <2> SUFFICES ASSUME NEW c \in 1 .. made', deleted'[c] = 0
               PROVE  \/ count'[c] > 0
                      \/ \E u \in Threads : \/ Pointer!Dropping(u)' /\ work'[u].new = c
                                            \/ work'[u].at = "delete" /\ data'[work'[u].h] = c
                      \/ c \in loose'
                      \/ \E e \in Exclusive : value'[e] = c
    BY DEF Pointer!NoneLeft
  <2>1. CASE c = n
    BY <1>2, <1>12, <2>1
  <2>2. CASE c # n
    <3>1. count'[c] = count[c] /\ deleted[c] = 0 /\ c \in 1 .. made
      BY <1>1, <1>2, <1>3, <2>2
    <3>2. CASE \E u \in Threads : Pointer!Dropping(u) /\ work[u].new = c
      BY <1>3, <1>9, <2>2, <3>2
    <3>3. CASE \E u \in Threads : work[u].at = "delete" /\ data[work[u].h] = c
      <4>1. PICK u \in Threads : work[u].at = "delete" /\ data[work[u].h] = c
        BY <3>3
      <4>2. u # t /\ work'[u] = work[u] /\ data'[work[u].h] = data[work[u].h]
        BY <1>0, <1>1, <1>3, <1>6, <4>1 DEF WorkInv, OwnHandles
      <4> QED
        BY <4>1, <4>2
    <3> QED
      BY <1>0, <1>1, <3>1, <3>2, <3>3 DEF Pointer!NoneLeft
  <2> QED
    BY <2>1, <2>2
<1> QED
  BY <1>5, <1>7, <1>13, <1>14, <1>15, <1>16, <1>17, <1>18, <1>19 DEF PointersInv

(* A step of an exclusive pointer does not touch what is shared. *)
LEMMA ExclusiveStep ==
    ASSUME HandlesApart, PointersInv, Pointer!ExclusiveStep PROVE PointersInv'
<1>0. /\ PointersType /\ MadeInv /\ WorkInv /\ DeleteInv /\ FreshInv /\ ApartInv
      /\ CountInv /\ Pointer!OneOwner /\ Pointer!NoneLeft
  BY DEF PointersInv
<1> PICK e \in Exclusive :
        Pointer!ScopedRelease(e) \/ Pointer!LazyGet(e) \/ \E p \in 0 .. MaxBlocks : Pointer!ScopedReset(e, p)
  BY DEF Pointer!ExclusiveStep
<1> PICK b : b = value[e]
  OBVIOUS
<1>1. /\ b \in 0 .. MaxBlocks /\ b <= made /\ made \in Nat /\ MaxBlocks \in Nat /\ made >= 1
      /\ made \in Pointer!Blocks /\ 1 .. made \subseteq Pointer!Blocks
      /\ UNCHANGED <<data, count, work>>
  <2>1. UNCHANGED <<data, count, work>>
    BY DEF Pointer!ScopedRelease, Pointer!LazyGet, Pointer!ScopedReset
  <2> QED
    BY <1>0, <2>1 DEF PointersType, MadeInv, Pointer!Blocks, HandlesApart
(* What the pointer has afterwards, and who had it. *)
<1>2. PICK p \in 0 .. MaxBlocks :
          /\ value' = [value EXCEPT ![e] = p]
          /\ \/ p = 0 /\ made' = made /\ loose' = loose
             \/ p = 0 /\ b # 0 /\ made' = made /\ loose' = loose \union {b} /\ deleted' = deleted
             \/ p = made + 1 /\ made < MaxBlocks /\ made' = made + 1 /\ loose' = loose
             \/ p \in loose /\ made' = made /\ loose' = loose \ {p}
          /\ \/ deleted' = deleted /\ (b = 0 \/ b \in loose')
             \/ b # 0 /\ deleted' = [deleted EXCEPT ![b] = deleted[b] + 1] /\ b \notin loose'
  <2>0. b \notin loose
    <3>1. 0 \notin loose
      BY <1>0 DEF PointersType, Pointer!Blocks
    <3> QED
      BY <1>0, <3>1 DEF Pointer!OneOwner
  <2>1. CASE Pointer!ScopedRelease(e)
    <3>1. /\ value' = [value EXCEPT ![e] = 0] /\ 0 \in 0 .. MaxBlocks
          /\ b # 0 /\ made' = made /\ loose' = loose \union {b} /\ deleted' = deleted
          /\ b \in loose'
      BY <1>1, <2>1 DEF Pointer!ScopedRelease
    <3> QED
      BY <3>1, Zenon
  <2>2. CASE Pointer!LazyGet(e)
    <3>1. /\ value' = [value EXCEPT ![e] = made + 1] /\ made + 1 \in 0 .. MaxBlocks
          /\ b = 0 /\ made < MaxBlocks /\ made' = made + 1 /\ loose' = loose /\ deleted' = deleted
      BY <1>1, <2>2 DEF Pointer!LazyGet
    <3> QED
      BY <3>1, Zenon
  <2>3. CASE \E p \in 0 .. MaxBlocks : Pointer!ScopedReset(e, p)
    <3> PICK p \in 0 .. MaxBlocks : Pointer!ScopedReset(e, p)
      BY <2>3
    <3>1. /\ value' = [value EXCEPT ![e] = p]
          /\ \/ p = 0 /\ made' = made /\ loose' = loose
             \/ p = made + 1 /\ made < MaxBlocks /\ made' = made + 1 /\ loose' = loose
             \/ p \in loose /\ made' = made /\ loose' = loose \ {p}
      BY DEF Pointer!ScopedReset
    <3>2. b \notin loose'
      BY <2>0, <3>1
    <3>3. \/ deleted' = deleted /\ b = 0
          \/ b # 0 /\ deleted' = [deleted EXCEPT ![b] = deleted[b] + 1]
      BY DEF Pointer!ScopedReset, Pointer!Destroyed
    <3> QED
      BY <3>1, <3>2, <3>3, Zenon
  <2> QED
    BY <2>1, <2>2, <2>3
<1>3. /\ value'[e] = p /\ \A f \in Exclusive \ {e} : value'[f] = value[f]
      /\ b # 0 => b \in Pointer!Blocks /\ b \in 1 .. made /\ deleted[b] = 0 /\ OwnedAlone(b) /\ b \notin loose
      /\ \A c \in Pointer!Blocks \ {b} : deleted'[c] = deleted[c]
      /\ made \in Pointer!Blocks /\ made <= made' /\ made' \in Pointer!Blocks /\ p <= made'
      /\ \A f \in Exclusive \ {e} : value[f] # 0 => value[f] # b
      /\ \A f \in Exclusive : value[f] \in 0 .. MaxBlocks
      /\ \A c \in loose : c \in Pointer!Blocks
  <2>1. /\ \A f \in Exclusive : value[f] \in 0 .. MaxBlocks
        /\ \A c \in loose : c \in Pointer!Blocks
        /\ value'[e] = p /\ \A f \in Exclusive \ {e} : value'[f] = value[f]
    BY <1>0, <1>2 DEF PointersType
  <2>2. b # 0 => b \in Pointer!Blocks /\ b \in 1 .. made
    BY <1>1 DEF Pointer!Blocks
  <2>3. b # 0 => deleted[b] = 0 /\ OwnedAlone(b) /\ b \notin loose
    BY <1>0 DEF Pointer!OneOwner, OwnedAlone
  <2>4. \A c \in Pointer!Blocks \ {b} : deleted'[c] = deleted[c]
    BY <1>0, <1>2 DEF PointersType
  <2>5. made \in Pointer!Blocks /\ made <= made' /\ made' \in Pointer!Blocks
    BY <1>1, <1>2 DEF Pointer!Blocks
  <2>6. p <= made'
    BY <1>0, <1>1, <1>2, <2>5 DEF MadeInv, Pointer!Blocks
  <2>7. \A f \in Exclusive \ {e} : value[f] # 0 => value[f] # b
    BY <1>0 DEF Pointer!OneOwner
  <2> QED
    BY <2>1, <2>2, <2>3, <2>4, <2>5, <2>6, <2>7
<1>4. PointersType'
  <2>1. value' \in [Exclusive -> 0 .. MaxBlocks]
    BY <1>0, <1>2 DEF PointersType
  <2>2. loose' \subseteq Pointer!Blocks
    BY <1>0, <1>2, <1>3 DEF PointersType
  <2>3. deleted' \in [Pointer!Blocks -> Nat]
    BY <1>0, <1>2, <1>3 DEF PointersType
  <2> QED
    BY <1>0, <1>1, <1>3, <2>1, <2>2, <2>3 DEF PointersType
(* Nothing shared refers to the old value or the new one. *)
<1>5. \A c \in Pointer!Blocks : c = b \/ c = p =>
          /\ \A k \in Pointer!AllHandles : data[k] # c
          /\ \A u \in Threads : work[u].new # c
  <2>1. b # 0 => /\ \A k \in Pointer!AllHandles : data[k] # b
                 /\ \A u \in Threads : work[u].new # b
    BY <1>0, <1>3 DEF ApartInv
  <2>2. p # 0 => /\ \A k \in Pointer!AllHandles : data[k] # p
                 /\ \A u \in Threads : work[u].new # p
    <3>1. CASE p \in loose
      BY <1>0, <1>3, <3>1 DEF ApartInv, OwnedAlone
    <3>2. CASE p = made + 1
      BY <1>0, <1>1, <3>2 DEF MadeInv, PointersType, Works
    <3> QED
      BY <1>2, <3>1, <3>2
  <2> QED
    BY <2>1, <2>2 DEF Pointer!Blocks
<1>6. \A k : Pointer!Between(k)' <=> Pointer!Between(k)
  BY <1>1 DEF Pointer!Between
<1>7. \A u \in Threads : /\ Pointer!Dropping(u)' <=> Pointer!Dropping(u)
                         /\ Pointer!Fresh(u)' <=> Pointer!Fresh(u)
  <2>1. \A u \in Threads : work[u].new = 0 \/ work[u].new \in Pointer!Blocks \ {b}
    BY <1>0, <1>5 DEF PointersType, Works, Pointer!Blocks
  <2> QED
    BY <1>1, <1>3, <2>1 DEF Pointer!Dropping, Pointer!Fresh
<1>8. \A c : /\ Pointer!Holding(c)' = Pointer!Holding(c)
             /\ Pointer!Taking(c)' = Pointer!Taking(c)
  BY <1>1, <1>6, <1>7 DEF Pointer!Holding, Pointer!Taking
<1>9. made' = made + 1 => count[made + 1] = 0 /\ deleted'[made + 1] = 0
  BY <1>1, <1>2, <1>3, Unmade
<1>10. CountInv'
  <2>1. ASSUME NEW c \in 1 .. made
        PROVE  /\ count[c] = Cardinality(Pointer!Holding(c)) + Cardinality(Pointer!Taking(c))
               /\ deleted'[c] \in {0, 1}
               /\ count[c] > 0 => deleted'[c] = 0
    <3>1. /\ count[c] = Cardinality(Pointer!Holding(c)) + Cardinality(Pointer!Taking(c))
          /\ deleted[c] \in {0, 1}
          /\ count[c] > 0 => deleted[c] = 0
      BY <1>0 DEF CountInv
    <3>2. CASE c # b
      BY <1>1, <1>3, <3>1, <3>2
    <3>3. CASE c = b
      <4>1. Pointer!Holding(c) = {} /\ Pointer!Taking(c) = {}
        BY <1>1, <1>5, <3>3 DEF Pointer!Holding, Pointer!Taking
      <4>2. count[c] = 0
        BY <3>1, <4>1, FS_EmptySet
      <4>3. deleted'[c] \in {0, 1}
        BY <1>0, <1>1, <1>2, <1>3, <3>3 DEF PointersType
      <4> QED
        BY <3>1, <4>2, <4>3
    <3> QED
      BY <3>2, <3>3
  <2>2. made' = made + 1 => Pointer!Holding(made + 1) = {} /\ Pointer!Taking(made + 1) = {}
    BY <1>1, <1>2, Unmade
  <2>3. made' = made + 1 => count[made + 1] = Cardinality(Pointer!Holding(made + 1)) + Cardinality(Pointer!Taking(made + 1))
    BY <1>9, <2>2, FS_EmptySet
  <2>4. ASSUME NEW c \in 1 .. made'
        PROVE  /\ count[c] = Cardinality(Pointer!Holding(c)) + Cardinality(Pointer!Taking(c))
               /\ deleted'[c] \in {0, 1}
               /\ count[c] > 0 => deleted'[c] = 0
    <3>1. CASE c \in 1 .. made
      BY <2>1, <3>1
    <3>2. CASE c \notin 1 .. made
      <4>1. c = made + 1 /\ made' = made + 1
        BY <1>1, <1>2, <3>2
      <4> QED
        BY <1>9, <2>3, <4>1
    <3> QED
      BY <3>1, <3>2
  <2>5. ASSUME NEW c \in 1 .. made'
        PROVE  /\ count'[c] = Cardinality(Pointer!Holding(c)') + Cardinality(Pointer!Taking(c)')
               /\ deleted'[c] \in {0, 1}
               /\ count'[c] > 0 => deleted'[c] = 0
    <3>1. Pointer!Holding(c)' = Pointer!Holding(c) /\ Pointer!Taking(c)' = Pointer!Taking(c)
      BY <1>8
    <3> QED
      BY <1>1, <2>4, <3>1
  <2> QED
    BY <2>5 DEF CountInv
<1>11. MadeInv'
  <2>1. \A c \in loose' : c <= made'
    <3>1. made' \in Nat
      BY <1>3 DEF Pointer!Blocks
    <3>2. \A c \in loose : c \in Nat /\ c <= made
      BY <1>0, <1>3 DEF MadeInv, Pointer!Blocks
    <3>3. \A c \in loose' : c \in loose \/ c = b
      BY <1>2
    <3> QED
      BY <1>1, <1>3, <3>1, <3>2, <3>3
  <2>2. \A f \in Exclusive : value'[f] <= made'
    BY <1>0, <1>1, <1>2, <1>3 DEF MadeInv
  <2>3. \A c \in Pointer!Blocks : c > made' => c > made /\ c # b /\ deleted'[c] = deleted[c]
    BY <1>1, <1>2, <1>3 DEF Pointer!Blocks
  <2>4. /\ \A k \in Pointer!AllHandles : data[k] <= made'
        /\ \A u \in Threads : work[u].new <= made'
    BY <1>0, <1>1, <1>2 DEF MadeInv, PointersType, Works
  <2> QED
    BY <1>0, <1>1, <2>1, <2>2, <2>3, <2>4 DEF MadeInv
<1>12. WorkInv' /\ FreshInv'
  BY <1>0, <1>1, <1>7 DEF WorkInv, FreshInv, OwnHandles
<1>13. DeleteInv'
  <2>1. ASSUME NEW u \in Threads, work[u].at = "delete" PROVE data[work[u].h] \in Pointer!Blocks \ {b}
    <3>1. work[u].h \in Pointer!AllHandles /\ data[work[u].h] # 0
      BY <1>0, <2>1, HandleOf DEF WorkInv, OwnHandles
    <3>2. data[work[u].h] \in Pointer!Blocks
      BY <1>0, <3>1 DEF PointersType, Pointer!Blocks
    <3> QED
      BY <1>5, <3>1, <3>2
  <2> QED
    BY <1>0, <1>1, <1>3, <2>1 DEF DeleteInv
<1>14. ApartInv'
  <2>1. \A c \in Pointer!Blocks : OwnedAlone(c)' => OwnedAlone(c) \/ c = p \/ c = b
    BY <1>2, <1>3 DEF OwnedAlone
  <2> QED
    BY <1>0, <1>1, <1>5, <2>1 DEF ApartInv
<1>15. (Pointer!OneOwner)'
  <2>1. p # 0 => /\ \A f \in Exclusive : value[f] # p
                 /\ p # b /\ p \notin loose' /\ deleted'[p] = 0
    <3>1. CASE p \in loose
      <4>1. p # b /\ p \in Pointer!Blocks /\ deleted[p] = 0 /\ p # 0
        BY <1>0, <1>1, <1>3, <3>1 DEF Pointer!OneOwner, Pointer!Blocks
      <4>2. p \notin loose'
        BY <1>0, <1>1, <1>2, <3>1, <4>1 DEF MadeInv, Pointer!Blocks
      <4> QED
        BY <1>0, <1>3, <3>1, <4>1, <4>2 DEF Pointer!OneOwner
    <3>2. CASE p = made + 1
      <4>1. p \notin loose /\ (\A f \in Exclusive : value[f] # p) /\ p # b
        BY <1>0, <1>1, <1>3, <3>2 DEF MadeInv, Pointer!Blocks
      <4>2. p \notin loose' /\ made' = made + 1
        BY <1>1, <1>2, <3>2, <4>1
      <4> QED
        BY <1>9, <3>2, <4>1, <4>2
    <3> QED
      BY <1>2, <3>1, <3>2
  <2>2. \A c \in loose' : deleted'[c] = 0
    <3>1. \A c \in loose : deleted[c] = 0 /\ (c = b => b = 0)
      BY <1>0 DEF Pointer!OneOwner
    <3>2. ASSUME NEW c \in loose' PROVE deleted'[c] = 0
      <4>1. CASE c = b
        <5>1. b # 0 /\ deleted' = deleted
          BY <1>2, <1>3, <3>2, <4>1 DEF Pointer!Blocks
        <5> QED
          BY <1>3, <4>1, <5>1
      <4>2. CASE c # b
        BY <1>2, <1>3, <3>1, <3>2, <4>2
      <4> QED
        BY <4>1, <4>2
    <3> QED
      BY <3>2
  <2>3. \A f \in Exclusive \ {e} : value[f] # 0 => /\ deleted'[value[f]] = 0
                                                   /\ value[f] \notin loose'
    <3>1. ASSUME NEW f \in Exclusive \ {e}, value[f] # 0
          PROVE  value[f] \in Pointer!Blocks /\ value[f] # b /\ deleted[value[f]] = 0 /\ value[f] \notin loose
      BY <1>0, <1>3, <3>1 DEF Pointer!OneOwner, Pointer!Blocks
    <3> QED
      BY <1>2, <1>3, <3>1
  <2> QED
    BY <1>0, <1>3, <2>1, <2>2, <2>3 DEF Pointer!OneOwner
<1>16. (Pointer!NoneLeft)'
  <2> SUFFICES ASSUME NEW c \in 1 .. made', deleted'[c] = 0
               PROVE  \/ count'[c] > 0
                      \/ \E u \in Threads : \/ Pointer!Dropping(u)' /\ work'[u].new = c
                                            \/ work'[u].at = "delete" /\ data'[work'[u].h] = c
                      \/ c \in loose'
                      \/ \E f \in Exclusive : value'[f] = c
    BY DEF Pointer!NoneLeft
  <2>1. CASE c = p
    BY <1>3, <2>1
  <2>2. CASE c = b /\ c # p
    <3>1. c # 0
      OBVIOUS
    <3>2. CASE deleted' = [deleted EXCEPT ![b] = deleted[b] + 1]
      <4>1. deleted'[b] = 1
        BY <1>0, <1>3, <2>2, <3>1, <3>2 DEF PointersType
      <4> QED
        BY <2>2, <4>1
    <3> QED
      BY <1>2, <2>2, <3>1, <3>2
  <2>3. CASE c # b /\ c # p
    <3>1. c \in 1 .. made /\ deleted[c] = 0
      BY <1>1, <1>2, <1>3, <2>3
    <3>2. c \in loose => c \in loose'
      BY <1>2, <2>3
    <3>3. \A f \in Exclusive : value[f] = c => value'[f] = c
      BY <1>3, <2>3
    <3> QED
      BY <1>0, <1>1, <1>7, <3>1, <3>2, <3>3 DEF Pointer!NoneLeft
  <2> QED
    BY <2>1, <2>2, <2>3
<1> QED
  BY <1>4, <1>10, <1>11, <1>12, <1>13, <1>14, <1>15, <1>16 DEF PointersInv

(* Every reference is counted once, and what nobody refers to is destroyed *)
(* once, in every interleaving of the threads.                             *)
THEOREM PointersAreSound == PointersSpec => []Pointer!PointersSound
<1> HandlesApart
  BY ServicesAssumption
<1>1. Pointer!PointersInit => PointersInv
  <2> SUFFICES ASSUME Pointer!PointersInit PROVE PointersInv
    OBVIOUS
  <2> DEFINE First(t) == CHOOSE x \in Handles[t] : TRUE
             first == {x \in Pointer!AllHandles : \E t \in Threads : x = First(t)}
  <2>1. /\ count = [b \in Pointer!Blocks |-> IF b = 1 THEN Cardinality(Threads) ELSE 0]
        /\ data = [x \in Pointer!AllHandles |-> IF \E t \in Threads : x = First(t) THEN 1 ELSE 0]
        /\ deleted = [b \in Pointer!Blocks |-> 0]
        /\ made = 1 /\ work = [t \in Threads |-> Pointer!Idle]
        /\ value = [e \in Exclusive |-> 0] /\ loose = {}
    BY SameCardinality DEF Pointer!PointersInit
  <2>2. \A t \in Threads : First(t) \in Handles[t]
    BY DEF HandlesApart
  <2>3. Cardinality(first) = Cardinality(Threads)
    <3> DEFINE f == [t \in Threads |-> First(t)]
    <3>1. \A t \in Threads : First(t) \in first
      BY <2>2, HandleOf
    <3>2. \A t, u \in Threads : First(t) = First(u) => t = u
      BY <2>2 DEF HandlesApart
    <3> HIDE DEF First
    <3>3. f \in [Threads -> first]
      BY <3>1
    <3>4. f \in Injection(Threads, first)
      BY <3>2, <3>3 DEF Injection, IsInjective
    <3>5. f \in Surjection(Threads, first)
      BY <3>3 DEF Surjection
    <3> HIDE DEF f, first
    <3> QED
      BY <3>4, <3>5, FS_Surjection DEF HandlesApart
  <2> HIDE DEF First
  <2>4. Cardinality(Threads) \in Nat /\ Cardinality(Threads) # 0
    BY FS_CardinalityType, FS_EmptySet DEF HandlesApart
  <2>5. 1 \in Pointer!Blocks /\ MaxBlocks \in Nat /\ 0 \in 0 .. MaxBlocks /\ 1 \in 0 .. MaxBlocks
    BY DEF HandlesApart, Pointer!Blocks
  <2>6. \A t \in Threads : work[t] = Pointer!Idle /\ work[t].at = "idle" /\ work[t].new = 0
    BY <2>1 DEF Pointer!Idle
  <2>7. PointersType
    <3>1. Pointer!Idle \in Works
      BY <2>5 DEF Pointer!Idle, Works, Ats
    <3> QED
      BY <2>1, <2>4, <2>5, <3>1 DEF PointersType
  <2>8. MadeInv /\ WorkInv /\ DeleteInv /\ FreshInv /\ ApartInv
    BY <2>1, <2>5, <2>6 DEF MadeInv, WorkInv, OwnHandles, DeleteInv, FreshInv, ApartInv, OwnedAlone,
                            Pointer!Dropping, Pointer!Blocks
  <2>9. Pointer!Holding(1) = first /\ Pointer!Taking(1) = {}
    <3>1. \A k : ~ Pointer!Between(k)
      BY <2>6 DEF Pointer!Between
    <3>2. \A k \in Pointer!AllHandles : data[k] = 1 <=> k \in first
      BY <2>1
    <3>3. first \subseteq Pointer!AllHandles
      OBVIOUS
    <3>4. Pointer!Taking(1) = {}
      BY <2>6 DEF Pointer!Taking, Pointer!Dropping
    <3> HIDE DEF first
    <3>5. Pointer!Holding(1) = {k \in Pointer!AllHandles : data[k] = 1}
      BY <3>1 DEF Pointer!Holding
    <3>6. {k \in Pointer!AllHandles : data[k] = 1} = first
      BY <3>2, <3>3
    <3> QED
      BY <3>4, <3>5, <3>6
  <2>10. CountInv
    <3>1. count[1] = Cardinality(Pointer!Holding(1)) + Cardinality(Pointer!Taking(1))
      <4>1. count[1] = Cardinality(Threads)
        BY <2>1, <2>5
      <4> HIDE DEF first
      <4>2. Cardinality(Pointer!Holding(1)) = Cardinality(Threads)
        BY <2>3, <2>9
      <4>3. Cardinality(Pointer!Taking(1)) = 0
        BY <2>9, FS_EmptySet
      <4> QED
        BY <2>4, <4>1, <4>2, <4>3
    <3> QED
      BY <2>1, <2>5, <3>1 DEF CountInv
  <2>11. Pointer!OneOwner /\ Pointer!NoneLeft
    BY <2>1, <2>4, <2>5 DEF Pointer!OneOwner, Pointer!NoneLeft
  <2> QED
    BY <2>7, <2>8, <2>10, <2>11 DEF PointersInv
<1>2. PointersInv => Pointer!PointersSound
  BY SameCardinality DEF PointersInv, CountInv, Pointer!PointersSound, Pointer!CountsAreReferences
<1>3. PointersInv /\ [Pointer!PointersNext]_pointerVars => PointersInv'
  <2> SUFFICES ASSUME PointersInv, [Pointer!PointersNext]_pointerVars PROVE PointersInv'
    OBVIOUS
  <2>1. ASSUME NEW t \in Threads, Pointer!SharedStep(t) PROVE PointersInv'
    BY <2>1, CopyStep, BeginStep, IncrementStep, DecrementStep, DeleteStep, FinishStep
       DEF Pointer!SharedStep
  <2>2. CASE Pointer!ExclusiveStep
    BY <2>2, ExclusiveStep
  <2>3. CASE UNCHANGED pointerVars
    BY <2>3 DEF pointerVars, PointersInv, PointersType, MadeInv, WorkInv, OwnHandles, DeleteInv, FreshInv,
       ApartInv, OwnedAlone, CountInv, Pointer!OneOwner, Pointer!NoneLeft, Pointer!Dropping, Pointer!Fresh,
       Pointer!Holding, Pointer!Taking, Pointer!Between
  <2> QED
    BY <2>1, <2>2, <2>3 DEF Pointer!PointersNext
<1> QED
  BY <1>1, <1>2, <1>3, PTL DEF PointersSpec

-----------------------------------------------------------------------------
(* All of the parts together *)

(* Whatever the threads, clients and scripts do, what is owned has one     *)
(* owner, who gives it back once.                                          *)
THEOREM EverythingIsOwnedOnce == OwnersSpec => []OwnedOnce
<1>1. ServersSpec => []Servers!ServletsOwned
  BY ServletsAreOwned
<1>2. RpcSpec => [](Rpc!SegmentsReturned /\ Rpc!ReplyRightInPage)
  BY SegmentsAreReturned
<1>3. RemoteSpec => []Remote!ObjectsOwned
  BY ObjectsAreOwned
<1>4. PointersSpec => []Pointer!PointersSound
  BY PointersAreSound
<1>5. ScriptSpec => []Script!ScriptOwnsOnce
  BY ScriptsOwnOnce
<1>6. CallsSpec => []Calls!LibrariesKept
  BY LibrariesAreKept
<1> QED
  BY <1>1, <1>2, <1>3, <1>4, <1>5, <1>6, PTL DEF OwnersSpec, OwnedOnce
=============================================================================
