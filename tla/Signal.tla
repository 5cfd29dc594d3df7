------------------------------- MODULE Signal -------------------------------
(***************************************************************************)
(* utility/signal.hpp: slots in a ring around a signal's root, linked       *)
(* through members of their own.  A call of the signal walks the ring while *)
(* the slots' functions may connect and disconnect slots.                   *)
(* A slot that has been taken out keeps its two pointers, and connected()   *)
(* stays true: `stray` is the history of uses of such a slot that write     *)
(* through them, after which nothing is promised.                           *)
(***************************************************************************)
EXTENDS Naturals, Sequences, SequencesExt

CONSTANTS Slots, Root

VARIABLES
  next, prev,  \* of the root and of each slot; None where they are null
  curr,        \* the slot a call of the signal has reached, None when idle
  called,      \* the slots the present call has called, in order
  order,       \* history: the slots that should be connected, in order
  whole,       \* history: those connected since before the present call
  stray        \* history: a slot that was out has been linked out again

signalVars == <<next, prev, curr, called, order, whole, stray>>

None == "none"
Nodes == Slots \cup {Root}
Connected(s) == next[s] # None

SignalInit ==
  /\ next = [n \in Nodes |-> IF n = Root THEN Root ELSE None]
  /\ prev = next
  /\ curr = None /\ called = <<>>
  /\ order = <<>> /\ whole = {} /\ stray = FALSE

In(s) == s \in ToSet(order)
Without(s) == IF In(s) THEN RemoveAt(order, CHOOSE i \in DOMAIN order : order[i] = s) ELSE order
Calling == curr # None

(* A slot is pushed when it is not in a ring; during a call only one that   *)
(* was not in it when the call began.                                       *)
MayPush(s) == ~stray /\ ~In(s) /\ (Calling => s \notin ToSet(called) /\ ~Connected(s))

PushBack(s) ==
  /\ MayPush(s)
  /\ next' = [next EXCEPT ![prev[Root]] = s, ![s] = Root]
  /\ prev' = [prev EXCEPT ![s] = prev[Root], ![Root] = s]
  /\ order' = Append(order, s)
  /\ UNCHANGED <<curr, called, whole, stray>>

PushFront(s) ==
  /\ MayPush(s)
  /\ prev' = [prev EXCEPT ![next[Root]] = s, ![s] = Root]
  /\ next' = [next EXCEPT ![s] = next[Root], ![Root] = s]
  /\ order' = <<s>> \o order
  /\ UNCHANGED <<curr, called, whole, stray>>

(* Mutant: the root is unlinked from the last slot on one side only. *)
PopBackHalf ==
  /\ ~stray /\ order # <<>>
  /\ prev' = [prev EXCEPT ![Root] = prev[prev[Root]]]
  /\ next' = next
  /\ order' = Front(order)
  /\ whole' = whole \ {Last(order)}
  /\ UNCHANGED <<curr, called, stray>>

PopBack ==
  /\ ~stray /\ order # <<>>
  /\ prev' = [prev EXCEPT ![Root] = prev[prev[Root]]]
  /\ next' = [next EXCEPT ![prev[prev[Root]]] = Root]
  /\ order' = Front(order)
  /\ whole' = whole \ {Last(order)}
  /\ UNCHANGED <<curr, called, stray>>

PopFront ==
  /\ ~stray /\ order # <<>>
  /\ next' = [next EXCEPT ![Root] = next[next[Root]]]
  /\ prev' = [prev EXCEPT ![next[next[Root]]] = Root]
  /\ order' = Tail(order)
  /\ whole' = whole \ {Head(order)}
  /\ UNCHANGED <<curr, called, stray>>

Clear ==
  /\ ~stray /\ order # <<>>
  /\ next' = [next EXCEPT ![Root] = Root]
  /\ prev' = [prev EXCEPT ![Root] = Root]
  /\ order' = <<>> /\ whole' = {}
  /\ UNCHANGED <<curr, called, stray>>

(* disconnect(), by the user or by ~slot_base, in the code's two writes.    *)
(* The slot's own pointers are not cleared.                                 *)
Disconnect(s) ==
  /\ ~stray /\ Connected(s)
  /\ LET before == [prev EXCEPT ![next[s]] = prev[s]] IN
       /\ prev' = before
       /\ next' = [next EXCEPT ![before[s]] = next[s]]
  /\ stray' = ~In(s)
  /\ order' = Without(s)
  /\ whole' = whole \ {s}
  /\ UNCHANGED <<curr, called>>

(* operator(): the loop over the ring, one step for each slot's function.   *)
Call ==
  /\ ~stray /\ ~Calling /\ order # <<>>
  /\ curr' = next[Root]
  /\ called' = <<next[Root]>>
  /\ whole' = ToSet(order)
  /\ UNCHANGED <<next, prev, order, stray>>

Advance ==
  /\ ~stray /\ Calling
  /\ curr' = IF next[curr] = Root THEN None ELSE next[curr]
  /\ called' = IF next[curr] = Root THEN <<>> ELSE Append(called, next[curr])
  /\ UNCHANGED <<next, prev, order, whole, stray>>

SignalNext ==
  \/ \E s \in Slots : PushBack(s) \/ PushFront(s) \/ Disconnect(s)
  \/ PopBack \/ PopFront \/ Clear \/ Call \/ Advance

(***************************************************************************)
(* Properties                                                               *)
(***************************************************************************)
(* Both directions of the ring give the slots that are connected, in the    *)
(* order they were pushed, until a slot that is out is linked out again.    *)
RingWhole ==
  LET ring == <<Root>> \o order \o <<Root>> IN
  ~stray => \A i \in 1 .. Len(ring) - 1 :
              next[ring[i]] = ring[i + 1] /\ prev[ring[i + 1]] = ring[i]

(* A call whose slots come and go has called, when it ends, each slot that  *)
(* was connected all the while, and no slot twice.                          *)
CallReaches ==
  /\ IsInjective(called)
  /\ Calling /\ next[curr] = Root /\ ~stray => whole \subseteq ToSet(called)
=============================================================================
