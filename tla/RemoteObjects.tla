--------------------------- MODULE RemoteObjects ----------------------------
(***************************************************************************)
(* The objects that a servlet's clients construct and use by address: each *)
(* servlet has an ipc::pool of the addresses it has given out.  Arguments  *)
(* are verified one after the other before the function runs, and a        *)
(* destruct_ptr leaves the pool as it is verified.                         *)
(***************************************************************************)
EXTENDS Naturals, Sequences, FiniteSets

CONSTANTS Servlets, Objects

VARIABLES known,        \* ipc::pool::map of each servlet
          alive,        \* the objects that exist in the server
          up,           \* the servlets whose client has not gone
          destroyed     \* ghost: how often the object at each address was

vars == <<known, alive, up, destroyed>>

Init == /\ known = [s \in Servlets |-> {}]
        /\ alive = {}
        /\ up = Servlets
        /\ destroyed = [o \in Objects |-> 0]

Once(set) == destroyed' = [o \in Objects |-> destroyed[o] + IF o \in set THEN 1 ELSE 0]

(* A function that returns construct_ptr: an address that is not in use. *)
Construct(s, o) == /\ o \notin alive
                   /\ alive' = alive \union {o}
                   /\ known' = [known EXCEPT ![s] = @ \union {o}]
                   /\ destroyed' = [destroyed EXCEPT ![o] = 0]
                   /\ UNCHANGED up

(* A function ( destruct_ptr p, t* q ): p leaves the pool, then q must be  *)
(* known; if it is not, or if the function throws, p is not destroyed.     *)
Destruct(s, p, q, throws) ==
    /\ p \in known[s]
    /\ known' = [known EXCEPT ![s] = @ \ {p}]
    /\ IF q \in known[s] \ {p} /\ ~ throws
       THEN alive' = alive \ {p} /\ Once({p})
       ELSE UNCHANGED <<alive, destroyed>>
    /\ UNCHANGED up

(* A function ( destruct_ptr p ). *)
DestructOne(s, p) == /\ p \in known[s]
                     /\ known' = [known EXCEPT ![s] = @ \ {p}]
                     /\ alive' = alive \ {p} /\ Once({p})
                     /\ UNCHANGED up

(* The client has gone: ~pool destroys what the servlet still knows. *)
Leave(s) == /\ s \in up
            /\ up' = up \ {s}
            /\ alive' = alive \ known[s] /\ Once(known[s])
            /\ known' = [known EXCEPT ![s] = {}]

Next == \E s \in up :
    \/ Leave(s)
    \/ \E o \in Objects : Construct(s, o) \/ DestructOne(s, o)
    \/ \E p, q \in Objects, throws \in BOOLEAN : Destruct(s, p, q, throws)

-----------------------------------------------------------------------------
(* Whatever addresses clients send: a servlet knows only objects that      *)
(* exist, no two servlets know the same one, and none is destroyed twice.  *)
ObjectsOwned ==
    /\ \A s \in Servlets : known[s] \subseteq alive
    /\ \A s, t \in Servlets : s # t => known[s] \intersect known[t] = {}
    /\ \A o \in Objects : destroyed[o] <= 1
=============================================================================
