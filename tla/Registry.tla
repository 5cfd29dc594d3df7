------------------------------ MODULE Registry ------------------------------
(***************************************************************************)
(* The registry server and the surrogates it starts.  Each call of a       *)
(* client runs on a servlet thread of its own: it inserts a module, a      *)
(* library or a server, or finds the modules that have all of some names.  *)
(* A library is loaded in a surrogate, a process that serves one client    *)
(* and ends; a barrier tells when it listens.  A public surrogate inserts  *)
(* itself in the registry by a call of its own.                            *)
(***************************************************************************)
EXTENDS Naturals, Sequences, FiniteSets, FiniteSetsExt

CONSTANTS Calls,        \* the calls that clients make
          Library, Server, Public,      \* modules: their info_tuples
          Names,        \* names of functions
          Offers        \* for each module the names it has

Modules == {Library, Server, Public}

VARIABLES set, map,     \* the globals of the registry
          op,           \* what each call asks for
          pc,           \* where it is
          asked,        \* for a find: the names that remain
          histogram,    \* for a find: how many names of each module were seen
          before,       \* ghost: the modules that were mapped when it began
          found,        \* what it returned
          child,        \* the surrogate a call has forked
          sem           \* the barrier's semaphore

vars == <<set, map, op, pc, asked, histogram, before, found, child, sem>>
finding == <<asked, histogram, before, found>>
surrogates == <<child, sem>>

(* One more call, Back, is the one that a public surrogate makes. *)
Back == "back"
All == Calls \union {Back}

Ops == {<<"insert", Library>>, <<"insert", Server>>, <<"surrogate", Public>>}
       \union {<<"find", names>> : names \in {Names} \union {{n} : n \in Names}}

Init == /\ set = {} /\ map = {}
        /\ op = [c \in All |-> <<"insert", Public>>]
        /\ pc = [c \in All |-> "idle"]
        /\ asked = [c \in All |-> {}]
        /\ histogram = [c \in All |-> [m \in Modules |-> 0]]
        /\ before = [c \in All |-> {}]
        /\ found = [c \in All |-> {}]
        /\ child = [c \in All |-> "none"]
        /\ sem = [c \in All |-> 0]

Goto(c, where) == pc' = [pc EXCEPT ![c] = where]
Mapped(names) == {m \in Modules : \A n \in names : <<n, m>> \in map}

-----------------------------------------------------------------------------
(* insert: the module enters the set under the mutex, or is refused.       *)
Insert(c) ==
    /\ op[c][1] = "insert"
    /\ IF op[c][2] \in set THEN Goto(c, "exists") /\ UNCHANGED set
                           ELSE /\ set' = set \union {op[c][2]}
                                /\ Goto(c, IF op[c][2] = Library THEN "barrier" ELSE "connect")
    /\ UNCHANGED <<map, finding, surrogates>>

(* surrogate: the semaphore is created, the child is forked. *)
Fork(c) == /\ pc[c] = "barrier"
           /\ sem' = [sem EXCEPT ![c] = 0]
           /\ child' = [child EXCEPT ![c] = "exec"]
           /\ Goto(c, "down")
           /\ UNCHANGED <<set, map, op, finding>>

(* ~barrier_wait *)
BarrierDown(c) ==
    /\ pc[c] = "down" /\ sem[c] > 0
    /\ sem' = [sem EXCEPT ![c] = @ - 1]
    /\ Goto(c, IF op[c][1] = "surrogate" THEN "done" ELSE "connect")
    /\ UNCHANGED <<set, map, op, finding, child>>

(* Who serves the path that c loads: its own surrogate, the surrogate that *)
(* calls back, or a server that is there from the start.                   *)
Host(c) == IF c = Back THEN CHOOSE d \in Calls : child[d] = "joining" ELSE c
Listens(c) == \/ op[c][2] = Server
              \/ child[Host(c)] \in {"listen", "notified", "accept", "joining"}

(* load_server: a connection is refused when nobody listens. *)
Connect(c) == /\ pc[c] = "connect"
              /\ Goto(c, IF Listens(c) THEN "list" ELSE "failed")
              /\ UNCHANGED <<set, map, op, finding, surrogates>>

(* list()(): answered when the other side accepts, failed when it dies.    *)
(* The surrogate's only client disconnects then, and it ends.              *)
Listed(c) == /\ pc[c] = "list"
             /\ \/ op[c][2] = Server /\ UNCHANGED child
                \/ child[Host(c)] = "accept" /\ child' = [child EXCEPT ![Host(c)] = "ended"]
             /\ Goto(c, "publish")
             /\ UNCHANGED <<set, map, op, finding, sem>>

ListFails(c) == /\ pc[c] = "list" /\ op[c][2] = Library /\ child[c] = "died"
                /\ Goto(c, "failed")
                /\ UNCHANGED <<set, map, op, finding, surrogates>>

(* Under the write lock.  After a failure the module stays in the set. *)
Publish(c) == /\ pc[c] = "publish"
              /\ map' = map \union {<<n, op[c][2]>> : n \in Offers[op[c][2]]}
              /\ Goto(c, "done")
              /\ UNCHANGED <<set, op, finding, surrogates>>

-----------------------------------------------------------------------------
(* find: a read lock for each name, in the order of the sorted vector. *)

FindBegin(c) == /\ op[c][1] = "find"
                /\ asked' = [asked EXCEPT ![c] = op[c][2]]
                /\ before' = [before EXCEPT ![c] = Mapped(op[c][2])]
                /\ Goto(c, "find")
                /\ UNCHANGED <<set, map, histogram, found, surrogates>>

FindName(c) == /\ pc[c] = "find" /\ asked[c] # {}
               /\ LET n == CHOOSE n \in asked[c] : TRUE IN
                  /\ asked' = [asked EXCEPT ![c] = @ \ {n}]
                  /\ histogram' = [histogram EXCEPT ![c] =
                         [m \in Modules |-> @[m] + IF <<n, m>> \in map THEN 1 ELSE 0]]
               /\ UNCHANGED <<set, map, op, pc, before, found, surrogates>>

(* Mutant: any of the names will do. *)
FindEndAny(c) == /\ pc[c] = "find" /\ asked[c] = {}
                 /\ found' = [found EXCEPT ![c] = {m \in Modules : histogram[c][m] > 0}]
                 /\ Goto(c, "done")
                 /\ UNCHANGED <<set, map, op, asked, histogram, before, surrogates>>

FindEnd(c) == /\ pc[c] = "find" /\ asked[c] = {}
              /\ found' = [found EXCEPT ![c] =
                     {m \in Modules : histogram[c][m] = Cardinality(op[c][2])}]
              /\ Goto(c, "done")
              /\ UNCHANGED <<set, map, op, asked, histogram, before, surrogates>>

Begin(c) == /\ c \in Calls /\ pc[c] = "idle"
            /\ \E o \in Ops :
                /\ op' = [op EXCEPT ![c] = o]
                /\ o[1] = "surrogate" => \A d \in Calls : op[d] # o \/ pc[d] = "idle"
            /\ Goto(c, "begun")
            /\ UNCHANGED <<set, map, finding, surrogates>>

Dispatch(c) == /\ pc[c] = "begun" /\ UNCHANGED op
               /\ \/ Insert(c)
                  \/ FindBegin(c)
                  \/ op[c][1] = "surrogate" /\ Goto(c, "barrier")
                     /\ UNCHANGED <<set, map, finding, surrogates>>

-----------------------------------------------------------------------------
(* The surrogate, surrogate/main.cpp *)

Turn(c, from, to) == /\ child[c] = from
                     /\ child' = [child EXCEPT ![c] = to]
                     /\ UNCHANGED <<set, map, op, finding>>

(* It loads the library, makes its nameservice and listens.  Or it throws. *)
Listen(c) == Turn(c, "exec", "listen") /\ UNCHANGED <<pc, sem>>
Fail(c) == Turn(c, "exec", "died") /\ UNCHANGED <<pc, sem>>

(* Mutant: the barrier is notified before the surrogate listens. *)
NotifyFirst(c) == /\ Turn(c, "exec", "exec") /\ sem[c] = 0
                  /\ sem' = [sem EXCEPT ![c] = 1]
                  /\ UNCHANGED pc

Notify(c) == /\ Turn(c, "listen", "notified")
             /\ sem' = [sem EXCEPT ![c] = @ + 1]
             /\ UNCHANGED pc

PrivateServer(c) == op[c][1] = "insert" /\ Turn(c, "notified", "accept") /\ UNCHANGED <<pc, sem>>

(* public_server: thread( "insert", ... ) is a temporary, joined at once:  *)
(* accept comes after the call to the registry has returned.               *)
PublicServer(c) ==
    /\ op[c][1] = "surrogate"
    /\ \/ Turn(c, "notified", "joining") /\ Goto(Back, "begun") /\ UNCHANGED sem
       \/ pc[Back] \in {"done", "exists", "failed"}
          /\ Turn(c, "joining", "accept") /\ UNCHANGED <<pc, sem>>

Call(c) == \/ Dispatch(c) \/ Fork(c) \/ BarrierDown(c)
           \/ Connect(c) \/ Listed(c) \/ ListFails(c) \/ Publish(c)
           \/ FindName(c) \/ FindEnd(c)

Child(c) == Listen(c) \/ Fail(c) \/ Notify(c) \/ PrivateServer(c) \/ PublicServer(c)

Next == \/ \E c \in Calls : Begin(c) \/ Child(c)
        \/ \E c \in All : Call(c)

-----------------------------------------------------------------------------
(* What find returns has, when it returns, every name that was asked for,  *)
(* and no module that had them all when it began is missing, whatever is   *)
(* inserted between two of the names.                                      *)
FindsAll == \A c \in Calls :
    op[c][1] = "find" /\ pc[c] = "done" =>
        before[c] \subseteq found[c] /\ found[c] \subseteq Mapped(op[c][2])

(* The barrier does its work: no surrogate that reaches its notification   *)
(* is connected to before it listens, and every module that can be found   *)
(* is in the set of list_all with all of its names.                        *)
LoadedWhole ==
    /\ \A c \in All : pc[c] = "failed" => child[Host(c)] = "died"
    /\ \A m \in Modules, n \in Names : <<n, m>> \in map => m \in set /\ m \in Mapped(Offers[m])

(* Every call returns, but those that wait for a surrogate which died      *)
(* before its notification, or which waits for its own insertion.          *)
CallsReturn == \A c \in All :
    pc[c] = "begun" ~> \/ pc[c] \in {"done", "exists", "failed"}
                       \/ child[c] = "died" \/ c = Back
=============================================================================
