----------------------------- MODULE ServerList -----------------------------
(***************************************************************************)
(* The list of servlets of ipc::memory::server and of ipc::socket::server. *)
(* A servlet's thread starts inside its constructor, uses the members of   *)
(* the servlet, and the servlet is destroyed by one of its own threads:    *)
(* by the link thread in a memory server, by the servlet's thread itself   *)
(* in a socket server.  Undefined behaviour ends a behaviour in `fault`.   *)
(***************************************************************************)
EXTENDS Naturals, FiniteSets

CONSTANT Clients

VARIABLES kind,         \* "memory" or "socket": which server this is
          mutex,        \* the server's mutex: "free" or who holds it
          element,      \* the list's element: "none", "empty" (null), "set", "erased"
          object,       \* the servlet: "none", "alive", "destroyed"
          detached,     \* thread::detached of the servlet's thread
          servlet,      \* where the servlet's thread is
          link,         \* where its link thread is
          state,        \* link_server::state
          eraser,       \* where the call of server::erase is
          hung,         \* the connection has been hung up
          words,        \* whose turn it is: "client", "servlet", or "cut" between
          fault

vars == <<kind, mutex, element, object, detached, servlet, link, state, eraser, hung, words,
          fault>>
threads == <<servlet, link, state>>
owned == <<kind, mutex, element, object, detached>>
connection == <<hung, words>>

Init == /\ kind \in {"memory", "socket"}
        /\ mutex = "free" /\ fault = "none"
        /\ element = [c \in Clients |-> "none"]
        /\ object = [c \in Clients |-> "none"]
        /\ detached = [c \in Clients |-> FALSE]
        /\ servlet = [c \in Clients |-> "none"]
        /\ link = [c \in Clients |-> "none"]
        /\ state = [c \in Clients |-> TRUE]
        /\ eraser = [c \in Clients |-> "none"]
        /\ hung = [c \in Clients |-> FALSE]
        /\ words = [c \in Clients |-> "client"]

Well == fault = "none"
Faults(what) == /\ fault' = what
                /\ UNCHANGED <<owned, threads, eraser, connection>>

-----------------------------------------------------------------------------
(* server::insert, on the thread that accepts *)

Push(c) == /\ element[c] = "none" /\ mutex = "free"
           /\ mutex' = "accept"
           /\ element' = [element EXCEPT ![c] = "empty"]
           /\ UNCHANGED <<kind, object, detached, threads, eraser, connection, fault>>

(* new servlet: the thread is the last of its members. *)
Construct(c) ==
    /\ element[c] = "empty" /\ object[c] = "none"
    /\ object' = [object EXCEPT ![c] = "alive"]
    /\ servlet' = [servlet EXCEPT ![c] = IF kind = "memory" THEN "start" ELSE "read"]
    /\ UNCHANGED <<kind, mutex, element, detached, link, state, eraser, connection, fault>>

Assign(c) == /\ element[c] = "empty" /\ object[c] = "alive"
             /\ element' = [element EXCEPT ![c] = "set"]
             /\ mutex' = "free"
             /\ UNCHANGED <<kind, object, detached, threads, eraser, connection, fault>>

-----------------------------------------------------------------------------
(* The client: a call or request to the servlet, and the end of it.  One    *)
(* that is killed inside spin_up has taken its word back without handing    *)
(* the turn over: MemoryLink's HandOverCut.                                *)

HandOver(c) ==
    /\ element[c] # "none" /\ ~ hung[c] /\ words[c] = "client"
    /\ words' = [words EXCEPT ![c] = "servlet"]
    /\ UNCHANGED <<owned, threads, eraser, hung, fault>>

HangUp(c) ==
    /\ element[c] # "none" /\ ~ hung[c]
    /\ hung' = [hung EXCEPT ![c] = TRUE]
    /\ \/ UNCHANGED words
       \/ /\ kind = "memory" /\ words[c] = "client"
          /\ words' = [words EXCEPT ![c] = "cut"]
    /\ UNCHANGED <<owned, threads, eraser, fault>>

-----------------------------------------------------------------------------
(* server::erase( iterator ) *)

Detach(c) ==
    /\ eraser[c] = "detach"
    /\ \/ element[c] = "empty" /\ Faults("detach through a null pointer")
       \/ /\ element[c] = "set"
          /\ detached' = [detached EXCEPT ![c] = TRUE]
          /\ eraser' = [eraser EXCEPT ![c] = "lock"]
          /\ UNCHANGED <<kind, mutex, element, object, threads, connection, fault>>

Lock(c) == /\ eraser[c] = "lock" /\ mutex = "free"
           /\ mutex' = c
           /\ eraser' = [eraser EXCEPT ![c] = "erase"]
           /\ UNCHANGED <<kind, element, object, detached, threads, connection, fault>>

(* list.erase: the servlet is destroyed.  ~thread joins one not detached. *)
Erase(c) == /\ eraser[c] = "erase"
            /\ detached[c] \/ servlet[c] = "ended"
            /\ element' = [element EXCEPT ![c] = "erased"]
            /\ object' = [object EXCEPT ![c] = "destroyed"]
            /\ eraser' = [eraser EXCEPT ![c] = "unlock"]
            /\ UNCHANGED <<kind, mutex, detached, threads, connection, fault>>

Unlock(c) == /\ eraser[c] = "unlock"
             /\ mutex' = "free"
             /\ eraser' = [eraser EXCEPT ![c] = "done"]
             /\ UNCHANGED <<kind, element, object, detached, threads, connection, fault>>

-----------------------------------------------------------------------------
(* servlet::main of a memory server and link_server::main.  To make the    *)
(* tuple of arguments the servlet reads a member of its own after the link *)
(* thread, which may destroy it, has started.                              *)

StartLink(c) == /\ servlet[c] = "start"
                /\ servlet' = [servlet EXCEPT ![c] = "tuple"]
                /\ link' = [link EXCEPT ![c] = "poll"]
                /\ UNCHANGED <<owned, state, eraser, connection, fault>>

(* The client has gone before it sent the descriptor of its segment: the    *)
(* receive of transport::transport throws, before there is a link thread.  *)
Unmet(c) == /\ servlet[c] = "start" /\ hung[c]
            /\ servlet' = [servlet EXCEPT ![c] = "thrown"]
            /\ UNCHANGED <<owned, link, state, eraser, connection, fault>>

MakeTuple(c) ==
    /\ servlet[c] = "tuple"
    /\ \/ object[c] = "destroyed" /\ Faults("use of a destroyed servlet")
       \/ /\ object[c] = "alive"
          /\ servlet' = [servlet EXCEPT ![c] = "test"]
          /\ UNCHANGED <<owned, link, state, eraser, connection, fault>>

(* while ( link ): the rest of the loop's variables are its own. *)
Test(c) == /\ servlet[c] = "test"
           /\ servlet' = [servlet EXCEPT ![c] = IF state[c] THEN "wait" ELSE "join"]
           /\ UNCHANGED <<owned, link, state, eraser, connection, fault>>

(* transport::wait: it sleeps until it has the turn, and gives it back. *)
Wait(c) == /\ servlet[c] = "wait" /\ words[c] = "servlet"
           /\ servlet' = [servlet EXCEPT ![c] = "serve"]
           /\ UNCHANGED <<owned, link, state, eraser, connection, fault>>

Serve(c) == /\ servlet[c] = "serve"
            /\ servlet' = [servlet EXCEPT ![c] = "test"]
            /\ words' = [words EXCEPT ![c] = "client"]
            /\ UNCHANGED <<owned, link, state, eraser, hung, fault>>

(* ~link_server joins the link thread. *)
Leave(c) == /\ servlet[c] = "join" /\ link[c] \in {"ended", "thrown"}
            /\ servlet' = [servlet EXCEPT ![c] = "ended"]
            /\ UNCHANGED <<owned, link, state, eraser, connection, fault>>

(* state.exchange( false ) was true, as nothing else clears it. *)
Poll(c) == /\ link[c] = "poll" /\ hung[c]
           /\ state' = [state EXCEPT ![c] = FALSE]
           /\ link' = [link EXCEPT ![c] = "erase"]
           /\ eraser' = [eraser EXCEPT ![c] = "detach"]
           /\ UNCHANGED <<owned, servlet, connection, fault>>

(* transport.wake_wait(): it hands over the client's turn, and throws where *)
(* the client has none.  A servlet that serves a call then is awake, but   *)
(* one whose client was cut off stays asleep.                              *)
WakeWait(c) ==
    /\ link[c] = "erase" /\ eraser[c] = "done"
    /\ \/ /\ words[c] = "client"
          /\ words' = [words EXCEPT ![c] = "servlet"]
          /\ link' = [link EXCEPT ![c] = "ended"]
       \/ /\ words[c] # "client"
          /\ link' = [link EXCEPT ![c] = "thrown"]
          /\ UNCHANGED words
    /\ UNCHANGED <<owned, servlet, state, eraser, hung, fault>>

-----------------------------------------------------------------------------
(* servlet::main of a socket server                                        *)

Request(c) == /\ servlet[c] = "read" /\ words[c] = "servlet"
              /\ servlet' = [servlet EXCEPT ![c] = "reply"]
              /\ words' = [words EXCEPT ![c] = "client"]
              /\ UNCHANGED <<owned, link, state, eraser, hung, fault>>

Reply(c) == /\ servlet[c] = "reply"
            /\ servlet' = [servlet EXCEPT ![c] = "read"]
            /\ UNCHANGED <<owned, link, state, eraser, connection, fault>>

(* Once the client has gone a receive or a send that is short ends the loop; *)
(* one that fails throws, and erase is never called.                       *)
EndOfRequests(c) ==
    /\ servlet[c] \in {"read", "reply"} /\ hung[c]
    /\ \/ /\ servlet' = [servlet EXCEPT ![c] = "erase"]
          /\ eraser' = [eraser EXCEPT ![c] = "detach"]
       \/ /\ servlet' = [servlet EXCEPT ![c] = "thrown"]
          /\ UNCHANGED eraser
    /\ UNCHANGED <<owned, link, state, connection, fault>>

Return(c) == /\ servlet[c] = "erase" /\ eraser[c] = "done"
             /\ servlet' = [servlet EXCEPT ![c] = "ended"]
             /\ UNCHANGED <<owned, link, state, eraser, connection, fault>>

-----------------------------------------------------------------------------
(* ~server does not take the mutex: an element of the list, or a thread    *)
(* inside erase, is destroyed under its user.  A servlet that threw has no *)
(* user: it is joined and destroyed.                                       *)
Destroy ==
    /\ mutex # "accept"
    /\ (\E c \in Clients : element[c] = "set" /\ servlet[c] # "thrown") \/ mutex # "free"
    /\ Faults("server destroyed under its servlets")

Accept == \E c \in Clients : Push(c) \/ Construct(c) \/ Assign(c)

Erasing(c) == Detach(c) \/ Lock(c) \/ Erase(c) \/ Unlock(c)

Thread(c) == \/ Erasing(c)
             \/ StartLink(c) \/ Unmet(c) \/ MakeTuple(c) \/ Test(c)
             \/ Wait(c) \/ Serve(c) \/ Leave(c)
             \/ Poll(c) \/ WakeWait(c)
             \/ Request(c) \/ Reply(c) \/ EndOfRequests(c) \/ Return(c)

Client(c) == HandOver(c) \/ HangUp(c)

Next == Well /\ (Accept \/ Destroy \/ \E c \in Clients : Client(c) \/ Thread(c))

-----------------------------------------------------------------------------
(* A servlet is destroyed exactly when it leaves the list, by a thread that *)
(* holds the mutex, and never while a thread that is not detached runs in   *)
(* it; nobody else is then between list.erase and the release of the mutex. *)
ServletsOwned ==
    \A c \in Clients :
        /\ (element[c] = "erased") <=> (object[c] = "destroyed")
        /\ object[c] = "destroyed" => detached[c] \/ servlet[c] = "ended"
        /\ eraser[c] \in {"erase", "unlock"} => mutex = c

(* When a client has gone its servlet leaves the list and its thread ends, *)
(* but for two that the code leaves behind: a servlet that threw, which     *)
(* stays in the list with its thread ended, and one of a client cut off in  *)
(* its hand-over, which has left the list and sleeps.                      *)
ServletsEnd ==
    \A c \in Clients :
        hung[c] ~> \/ element[c] = "erased" /\ servlet[c] = "ended"
                   \/ element[c] = "set" /\ servlet[c] = "thrown"
                   \/ /\ kind = "memory" /\ element[c] = "erased"
                      /\ words[c] = "cut" /\ servlet[c] = "wait"
                   \/ ~ Well
=============================================================================
