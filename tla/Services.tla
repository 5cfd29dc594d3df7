------------------------------ MODULE Services ------------------------------
(***************************************************************************)
(* The parts of the services that ipc, the registry, the scripting hosts   *)
(* and the test runner are made of, each an instance of its module, and    *)
(* what is required of all of them.  The parts share no state, and their   *)
(* steps interleave in any way.                                            *)
(***************************************************************************)
EXTENDS Integers, Sequences, FiniteSets, SequencesExt

CONSTANTS
    Clients,                                  \* of servers and of the registry
    Library, Server, Public, Names, Offers,   \* Registry: modules and their names
    Segments, NoName, CallLimit,              \* MemoryRpc
    Servlets, Objects,                        \* RemoteObjects
    Threads, Handles, MaxBlocks, Exclusive,   \* Pointers
    Slots, Root,                              \* Signal
    Natives, Wrappers, Unwrapped,             \* ScriptObjects
    Tables, Libraries, ServerModules, Plain, ScriptOffers,   \* ScriptCalls
    Senders, MaxSent, MaxRead,                \* Sockets
    FunctionNames, Latest,                    \* Facades
    Paths, Mounts, Disk, MaxMounts,           \* Files
    Filler, CountSize, PageBytes, Messages,   \* Serialise
    Tests                                     \* TestRunner

VARIABLES
    kind, mutex, element, object, detached, servlet, link, state,
    eraser, hung, words, fault,                                     \* ServerList
    set, map, op, pc, asked, histogram, before, found,
    surrogate, sem,                                                 \* Registry
    turn, call, calls, linked, own, mapped, buffer, page, got,      \* MemoryRpc
    known, alive, up, destroyed,                                    \* RemoteObjects
    data, count, deleted, made, work, value, loose,                 \* Pointers
    next, prev, curr, called, order, whole, stray,                  \* Signal
    native, deletions, wrap, lost, taken, broken,                   \* ScriptObjects
    host, opened, table, held, returned, callFault, careless,        \* ScriptCalls
    wire, sent, drawn, down, shut, reset, wanted, outcome, events,
    reported,                                                       \* Sockets
    names, docs, locals, remotes, scripts, board, nsdocs, nsmap,
    copied, copying,                                                \* Facades
    mounts, request,                                                \* Files
    message, bytes, arrived,                                        \* Serialise
    child, hangs, pipe, late, list, at, reading, verdict            \* TestRunner

(* A client is none of the other things that a mutex may hold or that may  *)
(* call the registry.                                                      *)
ClientsDistinct == {"free", "accept", "back"} \cap Clients = {}

(* The modules of the registry are three, and a name is one of finitely    *)
(* many.                                                                   *)
ModulesDistinct ==
    /\ Library # Server /\ Library # Public /\ Server # Public
    /\ IsFiniteSet(Names)

(* Threads use handles of their own, and each has one in the beginning.    *)
HandlesApart ==
    /\ IsFiniteSet(Threads) /\ Threads # {}
    /\ \A t \in Threads : IsFiniteSet(Handles[t]) /\ Handles[t] # {}
    /\ \A t, u \in Threads : t # u => Handles[t] \cap Handles[u] = {}
    /\ MaxBlocks \in Nat \ {0}

(* The root of a signal, its slots and the null pointer are different. *)
SlotsDistinct == Root # "none" /\ {Root, "none"} \cap Slots = {}

(* What stands for no wrapper and for no table is neither. *)
UnwrappedDistinct ==
    /\ Unwrapped \notin [object : Natives, owns : BOOLEAN, meta : BOOLEAN]
    /\ Unwrapped \notin [of : Libraries, has : BOOLEAN]

(* The names of functions are in an order, and finitely many. *)
NamesOrdered == FunctionNames \subseteq Nat /\ IsFiniteSet(FunctionNames)

Stream == INSTANCE Serialise WITH buffer <- bytes

(* A message is a value of its type, which is declared before; a number of *)
(* several bytes has some after its first.                                 *)
MessagesTyped ==
    /\ CountSize \in Nat \ {0} /\ Filler \in Nat
    /\ \A m \in Messages : Stream!Sendable(m)

ASSUME ServicesAssumption ==
    /\ ClientsDistinct /\ ModulesDistinct /\ HandlesApart /\ SlotsDistinct /\ UnwrappedDistinct
    /\ IsFiniteSet(Tables) /\ NamesOrdered /\ MessagesTyped

Servers == INSTANCE ServerList
Reg == INSTANCE Registry WITH child <- surrogate, Calls <- Clients
Rpc == INSTANCE MemoryRpc
Remote == INSTANCE RemoteObjects
Pointer == INSTANCE Pointers
Sig == INSTANCE Signal
Script == INSTANCE ScriptObjects
Calls == INSTANCE ScriptCalls WITH last <- returned, fault <- callFault, Nothing <- Unwrapped,
                                   Offers <- ScriptOffers
Socket == INSTANCE Sockets WITH taken <- drawn
Runner == INSTANCE TestRunner
Facade == INSTANCE Facades WITH Name <- FunctionNames
File == INSTANCE Files WITH list <- mounts, asked <- request

serverVars == <<kind, mutex, element, object, detached, servlet, link, state, eraser, hung, words,
                fault>>
registryVars == <<set, map, op, pc, asked, histogram, before, found, surrogate, sem>>
rpcVars == <<turn, call, calls, linked, own, mapped, buffer, page, got>>
remoteVars == <<known, alive, up, destroyed>>
pointerVars == <<data, count, deleted, made, work, value, loose>>
signalVars == <<next, prev, curr, called, order, whole, stray>>
scriptVars == <<native, deletions, wrap, lost, taken, broken>>
callVars == <<host, opened, table, held, returned, callFault, careless>>
socketVars == <<wire, sent, drawn, down, shut, reset, wanted, outcome, events, reported>>
runnerVars == <<child, hangs, pipe, late, list, at, reading, verdict>>
facadeVars == <<names, docs, locals, remotes, scripts, board, nsdocs, nsmap, copied, copying>>
fileVars == <<mounts, request>>
streamVars == <<message, bytes, arrived>>

ServersSpec == Servers!Init /\ [][Servers!Next]_serverVars
RegistrySpec == Reg!Init /\ [][Reg!Next]_registryVars
RpcSpec == Rpc!Init /\ [][Rpc!Next]_rpcVars
RemoteSpec == Remote!Init /\ [][Remote!Next]_remoteVars
PointersSpec == Pointer!PointersInit /\ [][Pointer!PointersNext]_pointerVars
SignalSpec == Sig!SignalInit /\ [][Sig!SignalNext]_signalVars
ScriptSpec == Script!ScriptInit /\ [][Script!ScriptNext]_scriptVars
CallsSpec == Calls!CallsInit /\ [][Calls!CallsNext]_callVars
SocketsSpec == Socket!SocketsInit /\ [][Socket!SocketsNext]_socketVars
RunnerSpec == Runner!TestsInit /\ [][Runner!Next]_runnerVars
FacadesSpec == Facade!Init /\ [][Facade!Next]_facadeVars
FilesSpec == File!FilesInit /\ [][File!FilesNext]_fileVars
StreamSpec == Stream!StreamInit /\ [][Stream!StreamNext]_streamVars

LookupsSpec == RegistrySpec /\ FacadesSpec /\ FilesSpec
OwnersSpec == ServersSpec /\ RpcSpec /\ RemoteSpec /\ PointersSpec /\ ScriptSpec /\ CallsSpec

-----------------------------------------------------------------------------
(* Everything that is owned has one owner who gives it back once: servlets *)
(* by the list they are in, segments of shared memory by the side that     *)
(* made them, objects by the pool of a servlet, by the pointers to them,   *)
(* or by the script that constructed them, and libraries by the tables     *)
(* that scripts have of them.                                              *)
OwnedOnce ==
    /\ Servers!ServletsOwned
    /\ Rpc!SegmentsReturned /\ Rpc!ReplyRightInPage
    /\ Remote!ObjectsOwned
    /\ Pointer!PointersSound
    /\ Script!ScriptOwnsOnce
    /\ Calls!LibrariesKept

(* The registry finds every module it mapped that offers all the names,    *)
(* and no other, all of a module or nothing of it can be found, and what a *)
(* script finds it can load.  A name leads to the function of that name    *)
(* through each facade, and a file is found where it was.                  *)
LookupsRight ==
    /\ Reg!FindsAll /\ Reg!LoadedWhole /\ Calls!FindsLibraries
    /\ Facade!NamesLeadHome /\ Facade!ListsWhole
    /\ File!PathsFound

(* A call of a signal reaches each slot that stays connected, whatever the *)
(* slots before it connect or disconnect, and the ring is never broken;    *)
(* what is sent over a socket is received whole, and poll tells of it;     *)
(* what is written in a buffer is read as it was.                          *)
DeliveriesRight ==
    /\ Sig!RingWhole /\ Sig!CallReaches
    /\ Socket!ReceiveWhole /\ Socket!NothingLost /\ Socket!PollTells
    /\ Stream!ArrivesAsSent

(* The verdict on a test is the way it ended, and who has one is out of    *)
(* the list.                                                               *)
VerdictsRight == Runner!VerdictsRight
=============================================================================
