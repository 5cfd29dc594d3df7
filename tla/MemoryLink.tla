----------------------------- MODULE MemoryLink -----------------------------
(***************************************************************************)
(* A memory transport between two processes that may die.  Beside the      *)
(* client and servlet threads of Transport, each process runs a link       *)
(* thread that polls the local socket the two were introduced by; when the *)
(* other end goes away it writes a message of its own in the shared page   *)
(* and hands its peer thread the turn with the same spin_up primitive.     *)
(*                                                                         *)
(* A process that crashes stops between any two of its atomic operations;  *)
(* the shared page, its words and its semaphores stay as they are.         *)
(***************************************************************************)
EXTENDS Transport

VARIABLES lpc,          \* the program counter of each link thread
          state,        \* link_client::state and link_server::state
          alive,        \* which processes have not crashed
          hup           \* whose end of the socket polls as readable

linkVars == <<lpc, state, alive, hup>>
allVars == <<lock, sem, pc, page, arg, job, result, lpc, state, alive, hup>>

Processes == {"client", "server"}
LinkThreads == {"link_client", "link_server"}

InitLink == /\ Init
            /\ lpc = [t \in LinkThreads |-> "poll"]
            /\ state = [t \in LinkThreads |-> TRUE]
            /\ alive = Processes
            /\ hup = {}

(* The link thread has returned from its main, or left it by an exception. *)
Finished(t) == lpc[t] \in {"exit", "thrown"}

-----------------------------------------------------------------------------
(* The client process *)

(* A caller may use the rpc objects until the client is destroyed: nothing *)
(* of a call looks at the link.                                            *)
ClientCall == "client" \in alive /\ Call /\ UNCHANGED linkVars

ClientRun == "client" \in alive /\ ClientStep /\ UNCHANGED linkVars

(* The exception of spin_up reaches the caller instead of a reply. *)
ClientThrow ==
    /\ "client" \in alive
    /\ pc["client"] = "thrown"
    /\ Goto(pc, "client", "idle")
    /\ result' = [error |-> "lock", body |-> Null]
    /\ UNCHANGED <<lock, sem, page, arg, job, lpc, state, alive, hup>>

(* Mutant: the destructor does not shut the socket down. *)
ClientCloseQuietly ==
    /\ "client" \in alive
    /\ pc["client"] = "idle"
    /\ Goto(pc, "client", "join")
    /\ state' = [state EXCEPT !["link_client"] = FALSE]
    /\ UNCHANGED <<lock, sem, page, arg, job, result, lpc, alive, hup>>

(* ~client, ~link_client: shut the own end down unless the link is down.   *)
ClientClose ==
    /\ "client" \in alive
    /\ pc["client"] = "idle"
    /\ Goto(pc, "client", "join")
    /\ state' = [state EXCEPT !["link_client"] = FALSE]
    /\ hup' = IF state["link_client"] THEN hup \union {"client"} ELSE hup
    /\ UNCHANGED <<lock, sem, page, arg, job, result, lpc, alive>>

(* ~thread joins the link thread, then the last descriptor is closed. *)
ClientJoin ==
    /\ "client" \in alive
    /\ pc["client"] = "join"
    /\ Finished("link_client")
    /\ Goto(pc, "client", "closed")
    /\ hup' = hup \union {"server"}
    /\ UNCHANGED <<lock, sem, page, arg, job, result, lpc, state, alive>>

-----------------------------------------------------------------------------
(* link_client::main *)

(* Mutant: the poll returns although nothing has happened. *)
ClientPollEarly ==
    /\ lpc["link_client"] = "poll"
    /\ Goto(lpc, "link_client", "mark")
    /\ UNCHANGED <<lock, sem, pc, page, arg, job, result, state, alive, hup>>

(* poll.wait() *)
ClientPoll ==
    /\ lpc["link_client"] = "poll"
    /\ "client" \in hup
    /\ Goto(lpc, "link_client", "mark")
    /\ UNCHANGED <<lock, sem, pc, page, arg, job, result, state, alive, hup>>

(* state.exchange( false ): nothing more to do if ~link_client was first. *)
ClientMark ==
    /\ lpc["link_client"] = "mark"
    /\ state' = [state EXCEPT !["link_client"] = FALSE]
    /\ Goto(lpc, "link_client", IF state["link_client"] THEN "write" ELSE "exit")
    /\ UNCHANGED <<lock, sem, pc, page, arg, job, result, alive, hup>>

(* The error reply, over the header and the first byte of the body. *)
ClientWrite ==
    /\ lpc["link_client"] = "write"
    /\ page' = [header |-> "link", body |-> Null]
    /\ Goto(lpc, "link_client", "claim")
    /\ UNCHANGED <<lock, sem, pc, arg, job, result, state, alive, hup>>

(* Mutant: the turn is handed to the servlet. *)
WakeNotifySwapped ==
    /\ SpinUp(lpc, "link_client", "in", "out", "exit")
    /\ UNCHANGED <<pc, page, arg, job, result, state, alive, hup>>

(* transport.wake_notify() *)
WakeNotify ==
    /\ SpinUp(lpc, "link_client", "out", "in", "exit")
    /\ UNCHANGED <<pc, page, arg, job, result, state, alive, hup>>

LinkClient == /\ "client" \in alive
              /\ ClientPoll \/ ClientMark \/ ClientWrite \/ WakeNotify

-----------------------------------------------------------------------------
(* The server process *)

ServletRunning == "server" \in alive /\ ServletRun /\ UNCHANGED linkVars

(* while ( link ): another round, or the end of servlet::main. *)
ServletLoop ==
    /\ "server" \in alive
    /\ pc["servlet"] = "loop"
    /\ Goto(pc, "servlet", IF state["link_server"] THEN "park" ELSE "join")
    /\ UNCHANGED <<lock, sem, page, arg, job, result, lpc, state, alive, hup>>

(* The end of servlet::main, by the loop or by an exception: ~link_server   *)
(* joins the link thread and the last descriptor is closed.                *)
ServletExit ==
    /\ "server" \in alive
    /\ pc["servlet"] \in {"join", "thrown"}
    /\ Finished("link_server")
    /\ Goto(pc, "servlet", "exit")
    /\ hup' = hup \union {"client"}
    /\ UNCHANGED <<lock, sem, page, arg, job, result, lpc, state, alive>>

(* ~servlet, with the thread attached: the server withdraws the servlet.   *)
ServletStop ==
    /\ "server" \in alive
    /\ state["link_server"]
    /\ hup' = hup \union {"server"}
    /\ UNCHANGED <<lock, sem, pc, page, arg, job, result, lpc, state, alive>>

-----------------------------------------------------------------------------
(* link_server::main *)

(* poll.wait() *)
ServerPoll ==
    /\ lpc["link_server"] = "poll"
    /\ "server" \in hup
    /\ Goto(lpc, "link_server", "mark")
    /\ UNCHANGED <<lock, sem, pc, page, arg, job, result, state, alive, hup>>

(* Mutant: the servlet is not told. *)
ServerMarkKeeps ==
    /\ lpc["link_server"] = "mark"
    /\ Goto(lpc, "link_server", "write")
    /\ UNCHANGED <<lock, sem, pc, page, arg, job, result, state, alive, hup>>

(* state.exchange( false ), and the servlet leaves the server's list. *)
ServerMark ==
    /\ lpc["link_server"] = "mark"
    /\ state' = [state EXCEPT !["link_server"] = FALSE]
    /\ Goto(lpc, "link_server", "write")
    /\ UNCHANGED <<lock, sem, pc, page, arg, job, result, alive, hup>>

(* A call of ipc_null.  Its index 0 fills the bytes where a client reads    *)
(* error 0, "none"; the body is left as it was.                            *)
ServerWrite ==
    /\ lpc["link_server"] = "write"
    /\ page' = [page EXCEPT !.header = "none"]
    /\ Goto(lpc, "link_server", "claim")
    /\ UNCHANGED <<lock, sem, pc, arg, job, result, state, alive, hup>>

(* transport.wake_wait() *)
WakeWait ==
    /\ SpinUp(lpc, "link_server", "in", "out", "exit")
    /\ UNCHANGED <<pc, page, arg, job, result, state, alive, hup>>

LinkServer == /\ "server" \in alive
              /\ ServerPoll \/ ServerMark \/ ServerWrite \/ WakeWait

-----------------------------------------------------------------------------
(* A process dies: its threads stop where they are, its sockets close. *)
Other(p) == IF p = "client" THEN "server" ELSE "client"
Crash(p) ==
    /\ p \in alive
    /\ alive' = alive \ {p}
    /\ hup' = hup \union {Other(p)}
    /\ UNCHANGED <<lock, sem, pc, page, arg, job, result, lpc, state>>

ClientThread == ClientRun \/ ClientThrow \/ ClientJoin
ServletThread == ServletRunning \/ ServletLoop \/ ServletExit

NextLink == \/ ClientCall \/ ClientClose \/ ClientThread \/ LinkClient
            \/ ServletStop \/ ServletThread \/ LinkServer
            \/ \E p \in Processes : Crash(p)

(* Every thread of a live process is scheduled; what a caller or a crash    *)
(* does is up to them.                                                     *)
SpecLink == /\ InitLink
            /\ [][NextLink]_allVars
            /\ WF_allVars(ClientThread) /\ WF_allVars(LinkClient)
            /\ WF_allVars(ServletThread) /\ WF_allVars(LinkServer)

-----------------------------------------------------------------------------
LinkLabels == SpinUpLabels \union {"poll", "mark", "write", "exit"}

(* The range of every variable; each call ends with a reply, a connection   *)
(* error or a lock error, and no semaphore is ever posted twice.           *)
LinkTypeOK ==
    /\ lock \in [Directions -> LockState]
    /\ sem \in [Directions -> 0 .. 1]
    /\ pc["client"] \in ClientLabels \union {"join", "closed"}
    /\ pc["servlet"] \in ServletLabels \union {"join", "exit"}
    /\ lpc \in [LinkThreads -> LinkLabels]
    /\ state \in [LinkThreads -> BOOLEAN]
    /\ alive \subseteq Processes
    /\ hup \subseteq Processes
    /\ arg \in Values \union {Null}
    /\ job \in Values \union {Null}
    /\ page \in [header : {"call", "none", "exception", "link"}, body : Values \union {Null}]
    /\ \/ result = Nothing
       \/ result \in [error : {"call", "none", "exception", "link", "lock"}, body : Values \union {Null}]

(* Until one end has gone away, the link threads leave the transport alone: *)
(* the page is never shared, no lock word surprises anybody, and no call is *)
(* answered by anything but its reply.                                     *)
UndisturbedWhileUp ==
    hup = {} => /\ PageExclusive
                /\ NoInvalidLockState
                /\ result.error \in {"nothing", "none", "exception"}

(* The one point where a client cannot be killed without consequences: it   *)
(* has taken back the out word and not yet handed the turn over.            *)
HandOverCut == "client" \notin alive /\ pc["client"] \in {"release", "wake", "post"}

(* A servlet whose client has gone away, or which the server withdraws,     *)
(* ends: wherever it is in its loop, the link thread gets it out of there   *)
(* ("wake servlet and indicate that it should call null and exit"), unless  *)
(* the client was killed inside its hand-over.                              *)
ServletReclaimed ==
    "server" \in hup ~> \/ pc["servlet"] = "exit"
                        \/ "server" \notin alive
                        \/ HandOverCut

ClientBack == pc["client"] \in {"idle", "join", "closed"} \/ "client" \notin alive

(* A client whose request has been handed over when its link thread learns  *)
(* that the server died gets its call back, unless the server had begun to  *)
(* hand over a reply or was withdrawing the servlet.                       *)
AcceptedCallEnds ==
    /\ "server" \notin alive
    /\ state["link_server"]
    /\ lpc["link_client"] = "poll"
    /\ lock["in"] = "unlocked"
    /\ pc["client"] \in {"post", "park", "pend"}
    ~> ClientBack

(* The destructor of a client returns: the link thread it joins is woken by *)
(* its shutdown of the socket, or was on its way out already.               *)
CloseReturns == pc["client"] = "join" ~> (pc["client"] = "closed" \/ "client" \notin alive)

(* What the link thread is for ("wake client and indicate that an error in  *)
(* the link has occurred"): a client with a call under way when the server  *)
(* dies gets it back.  The code does not achieve it; see the README.        *)
ClientNotified == ("server" \notin alive /\ ~ ClientBack) ~> ClientBack
=============================================================================
