----------------------------- MODULE MemoryRpc ------------------------------
(***************************************************************************)
(* Calls of ipc::memory::rpc whose arguments or result do not fit in the   *)
(* page and move to a shared memory segment of their own.  Who owns which  *)
(* segment passes through io_buffer and shared_allocator on both sides,    *)
(* and where a reply's bytes are depends on what io_buffer preserves.  The *)
(* rendezvous of the two sides is in Transport; here they take turns.      *)
(***************************************************************************)
EXTENDS Naturals, FiniteSets

CONSTANTS Segments,     \* names of segments
          NoName,
          CallLimit     \* a bound on the calls of one client

(* A call: its arguments fit or not; it returns nothing, a value that fits *)
(* or not, or throws an error with a text that fits or not.                *)
Calls == [large : BOOLEAN, ends : {"void", "value", "throw"}, long : BOOLEAN]

VARIABLES turn,         \* whose turn it is, and for what
          call, calls,  \* the call under way, and how many there have been
          linked,       \* the names of segments that exist
          own, mapped,  \* each side's allocator: the segment, whether it created it
          buffer,       \* the servlet's io_buffer: internal, preserved
          page,         \* the page: its header and what is behind it
          got           \* what the client read

vars == <<turn, call, calls, linked, own, mapped, buffer, page, got>>
Sides == {"client", "server"}

Init == /\ turn = "store" /\ calls = 0
        /\ call = [large |-> FALSE, ends |-> "void", long |-> FALSE]
        /\ linked = {}
        /\ own = [s \in Sides |-> FALSE]
        /\ mapped = [s \in Sides |-> NoName]
        /\ buffer = [internal |-> TRUE, preserved |-> FALSE]
        /\ page = [internal |-> TRUE, error |-> FALSE, name |-> NoName, body |-> "none"]
        /\ got = "none"

-----------------------------------------------------------------------------
(* shared_allocator of side s: allocate, set, deallocate.  The segment it  *)
(* had is unmapped, and unlinked if this side has created it.              *)

Kept(s) == IF own[s] THEN linked \ {mapped[s]} ELSE linked

Allocate(s, name) == /\ name \notin linked
                     /\ linked' = Kept(s) \union {name}
                     /\ own' = [own EXCEPT ![s] = TRUE]
                     /\ mapped' = [mapped EXCEPT ![s] = name]

Set(s, name) == /\ linked' = Kept(s)
                /\ own' = [own EXCEPT ![s] = FALSE]
                /\ mapped' = [mapped EXCEPT ![s] = name]

Deallocate(s) == /\ linked' = Kept(s)
                 /\ own' = [own EXCEPT ![s] = FALSE]
                 /\ mapped' = [mapped EXCEPT ![s] = NoName]

Allocators == <<linked, own, mapped>>

-----------------------------------------------------------------------------
(* rpc::operator(): store_header and the arguments, up to notify *)
StoreHeader ==
    /\ turn = "store" /\ calls < CallLimit
    /\ calls' = calls + 1
    /\ call' \in Calls
    /\ IF call'.large
       THEN \E name \in Segments :
                /\ Allocate("client", name)
                /\ page' = [page EXCEPT !.internal = FALSE, !.name = name]
       ELSE /\ page' = [page EXCEPT !.internal = TRUE, !.body = "arguments"]
            /\ UNCHANGED Allocators
    /\ turn' = "decode"
    /\ UNCHANGED <<buffer, got>>

(* ipc_decode, before the call.  Only a request within the page preserves  *)
(* the bytes of the header.                                                *)
Decode == /\ turn = "decode"
          /\ IF page.internal THEN buffer' = [internal |-> TRUE, preserved |-> TRUE]
                                   /\ UNCHANGED Allocators
                              ELSE buffer' = [internal |-> FALSE, preserved |-> FALSE]
                                   /\ Set("server", page.name)
          /\ turn' = "execute"
          /\ UNCHANGED <<call, calls, page, got>>

(* switchboard::execute: a result or an error asks the buffer for room.    *)
Execute ==
    /\ turn = "execute"
    /\ IF call.ends = "void" THEN UNCHANGED <<Allocators, buffer, page>>
       ELSE IF call.long
       THEN /\ \E name \in Segments : Allocate("server", name)
            /\ buffer' = [buffer EXCEPT !.internal = FALSE]
            /\ UNCHANGED page
       ELSE /\ buffer' = [buffer EXCEPT !.internal = TRUE]
            /\ page' = [page EXCEPT !.body = "result"]
            /\ UNCHANGED Allocators
    /\ turn' = "encode"
    /\ UNCHANGED <<call, calls, got>>

(* ipc_decode, after the call: the header overwrites the first bytes of a  *)
(* result that was written where a header had not been preserved, and the  *)
(* name of a segment overwrites what is behind the header.                 *)
Encode ==
    /\ turn = "encode"
    /\ page' = [internal |-> buffer.internal,
                error |-> call.ends = "throw",
                name |-> IF buffer.internal THEN page.name ELSE mapped["server"],
                body |-> IF ~ buffer.internal THEN "name"
                         ELSE IF buffer.preserved \/ call.ends = "void" THEN page.body
                         ELSE "overwritten"]
    /\ IF buffer.internal THEN Deallocate("server") ELSE UNCHANGED Allocators
    /\ turn' = "load"
    /\ UNCHANGED <<call, calls, buffer, got>>

(* load_header checks the error, and reads its text, before it maps.       *)
LoadHeader ==
    /\ turn = "load"
    /\ IF page.error THEN got' = page.body /\ UNCHANGED Allocators
       ELSE IF page.internal THEN got' = page.body /\ UNCHANGED Allocators
       ELSE /\ page.name \in linked
            /\ Set("client", page.name)
            /\ got' = "result"
    /\ turn' = "return"
    /\ UNCHANGED <<call, calls, buffer, page>>

(* rpc::operator() returns or throws: its allocator is destroyed. *)
Return == /\ turn = "return"
          /\ Deallocate("client")
          /\ turn' = "store"
          /\ UNCHANGED <<call, calls, buffer, page, got>>

(* The client goes between two calls: the servlet's allocator is destroyed. *)
Leave == /\ turn = "store"
         /\ Deallocate("server")
         /\ turn' = "left"
         /\ UNCHANGED <<call, calls, buffer, page, got>>

Next == StoreHeader \/ Decode \/ Execute \/ Encode \/ LoadHeader \/ Return \/ Leave

-----------------------------------------------------------------------------
(* Segments are not left behind: between two calls none exists but the one *)
(* of the servlet's last reply, and none when the client has gone; and the *)
(* segment a reply names exists until the client has mapped it.            *)
SegmentsReturned ==
    /\ turn = "store" => linked \subseteq {mapped["server"]} /\ mapped["client"] = NoName
    /\ turn = "left" => linked = {}
    /\ turn = "load" /\ ~ page.internal => page.name \in linked

(* The client reads what the function returned, unless the arguments were  *)
(* in a segment and the result was not, or an error's text was in one.     *)
ReplyRightInPage ==
    turn = "return" /\ call.ends # "void" =>
        \/ got = "result"
        \/ call.large /\ ~ call.long
        \/ call.ends = "throw" /\ call.long
=============================================================================
