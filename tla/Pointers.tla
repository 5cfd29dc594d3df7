------------------------------ MODULE Pointers ------------------------------
(***************************************************************************)
(* The owning pointers of utility/pointer.hpp and utility/atom.hpp.         *)
(* A shared pointer (shared_ptr, opaque_ptr, atom_ptr) is a handle to a     *)
(* block that holds a count and a value; the threads use handles of their   *)
(* own that refer to common blocks, as virtual_texture and its pool do with *)
(* atom_ptr, so every step of a count is an action.  An exclusive pointer   *)
(* (scoped_ptr, lazy_ptr) holds a raw pointer or null.                      *)
(***************************************************************************)
EXTENDS Naturals, FiniteSets

CONSTANTS
  Threads,     \* the threads, each with the handles Handles[t]
  Handles,     \* Handles[t]: the shared pointers thread t may have
  MaxBlocks,   \* how many values are made in all
  Exclusive    \* the exclusive pointers, used by one thread

VARIABLES
  data,     \* data[h]: the block of a handle, 0 where there is no handle
  count,    \* count[b]: use_count
  deleted,  \* deleted[b]: how often the value of a block has been destroyed
  made,     \* the number of blocks made so far
  work,     \* work[t]: the operation a thread is inside
  value,    \* value[e]: the raw pointer an exclusive pointer holds, 0 for null
  loose     \* the raw pointers that release() has given to the user

pointerVars == <<data, count, deleted, made, work, value, loose>>

Blocks == 1 .. MaxBlocks
AllHandles == UNION {Handles[t] : t \in Threads}
Idle == [at |-> "idle", h |-> "none", new |-> 0]

(* One value in a handle of each thread, as after a copy was handed over. *)
PointersInit ==
  /\ data = [h \in AllHandles |->
               IF \E t \in Threads : h = CHOOSE g \in Handles[t] : TRUE THEN 1 ELSE 0]
  /\ count = [b \in Blocks |-> IF b = 1 THEN Cardinality(Threads) ELSE 0]
  /\ deleted = [b \in Blocks |-> 0]
  /\ made = 1
  /\ work = [t \in Threads |-> Idle]
  /\ value = [e \in Exclusive |-> 0]
  /\ loose = {}

Stays == UNCHANGED <<value, loose>>

(* shared_base( const shared_base& ): the member is set, then the count. *)
Copy(t, h, g) ==
  /\ work[t] = Idle /\ data[h] = 0 /\ data[g] # 0
  /\ data' = [data EXCEPT ![h] = data[g]]
  /\ work' = [work EXCEPT ![t] = [at |-> "copy", h |-> h, new |-> data[g]]]
  /\ UNCHANGED <<count, deleted, made>> /\ Stays

(* operator =, which may be given the handle itself. *)
Assign(t, h, g) ==
  /\ work[t] = Idle /\ data[h] # 0 /\ data[g] # 0
  /\ work' = [work EXCEPT ![t] = [at |-> "assign", h |-> h, new |-> data[g]]]
  /\ UNCHANGED <<data, count, deleted, made>> /\ Stays

(* reset( value ) *)
Reset(t, h) ==
  /\ work[t] = Idle /\ data[h] # 0 /\ made < MaxBlocks
  /\ work' = [work EXCEPT ![t] = [at |-> "drop", h |-> h, new |-> made + 1]]
  /\ made' = made + 1
  /\ UNCHANGED <<data, count, deleted>> /\ Stays

(* ~shared_base *)
Leave(t, h) ==
  /\ work[t] = Idle /\ data[h] # 0
  /\ work' = [work EXCEPT ![t] = [at |-> "drop", h |-> h, new |-> 0]]
  /\ UNCHANGED <<data, count, deleted, made>> /\ Stays

(* Mutant: an assignment does not count the block it copies. *)
IncrementCopies(t) ==
  /\ work[t].at \in {"copy", "assign"}
  /\ count' = IF work[t].at = "assign" THEN count
              ELSE [count EXCEPT ![work[t].new] = @ + 1]
  /\ work' = IF work[t].at = "copy" THEN [work EXCEPT ![t] = Idle]
             ELSE [work EXCEPT ![t].at = "drop"]
  /\ UNCHANGED <<data, deleted, made>> /\ Stays

(* increment(), of the block that is copied. *)
Increment(t) ==
  /\ work[t].at \in {"copy", "assign"}
  /\ count' = [count EXCEPT ![work[t].new] = @ + 1]
  /\ work' = IF work[t].at = "copy" THEN [work EXCEPT ![t] = Idle]
             ELSE [work EXCEPT ![t].at = "drop"]
  /\ UNCHANGED <<data, deleted, made>> /\ Stays

(* The end of assign, reset and destruction: the handle gets its new block; *)
(* one that reset() has made starts with a count of one.                    *)
Settle(t) == data' = [data EXCEPT ![work[t].h] = work[t].new]

Fresh(t) == work[t].new # 0 /\ count[work[t].new] = 0 /\ deleted[work[t].new] = 0

(* decrement(): --use_count decides who destroys the value. *)
Decrement(t) ==
  LET old == data[work[t].h] IN
  /\ work[t].at = "drop"
  /\ count' = [count EXCEPT ![old] = @ - 1]
  /\ IF count[old] = 1 THEN work' = [work EXCEPT ![t].at = "delete"]
                       ELSE work' = [work EXCEPT ![t].at = "settle"]
  /\ UNCHANGED <<data, deleted, made>> /\ Stays

(* function( value ); delete this *)
Delete(t) ==
  /\ work[t].at = "delete"
  /\ deleted' = [deleted EXCEPT ![data[work[t].h]] = @ + 1]
  /\ work' = [work EXCEPT ![t].at = "settle"]
  /\ UNCHANGED <<data, count, made>> /\ Stays

Finish(t) ==
  /\ work[t].at = "settle"
  /\ Settle(t)
  /\ count' = IF Fresh(t) THEN [count EXCEPT ![work[t].new] = 1] ELSE count
  /\ work' = [work EXCEPT ![t] = Idle]
  /\ UNCHANGED <<deleted, made>> /\ Stays

SharedStep(t) ==
  \/ \E h, g \in Handles[t] : Copy(t, h, g) \/ Assign(t, h, g)
  \/ \E h \in Handles[t] : Reset(t, h) \/ Leave(t, h)
  \/ Increment(t) \/ Decrement(t) \/ Delete(t) \/ Finish(t)

(***************************************************************************)
(* Exclusive pointers.  The values they own are numbered like blocks and    *)
(* have no count.                                                           *)
(***************************************************************************)
Destroyed(p) == IF p = 0 THEN deleted ELSE [deleted EXCEPT ![p] = @ + 1]

(* scoped_base::reset with a new value, or with one the user holds. *)
ScopedReset(e, p) ==
  /\ \/ p = 0 /\ UNCHANGED <<made, loose>>
     \/ p = made + 1 /\ made < MaxBlocks /\ made' = made + 1 /\ UNCHANGED loose
     \/ p \in loose /\ loose' = loose \ {p} /\ UNCHANGED made
  /\ deleted' = Destroyed(value[e])
  /\ value' = [value EXCEPT ![e] = p]
  /\ UNCHANGED <<data, count, work>>

(* scoped_base::release *)
ScopedRelease(e) ==
  /\ value[e] # 0
  /\ loose' = loose \cup {value[e]}
  /\ value' = [value EXCEPT ![e] = 0]
  /\ UNCHANGED <<data, count, deleted, made, work>>

(* lazy_ptr::get makes the value when it is first asked for. *)
LazyGet(e) ==
  /\ value[e] = 0 /\ made < MaxBlocks
  /\ value' = [value EXCEPT ![e] = made + 1]
  /\ made' = made + 1
  /\ UNCHANGED <<data, count, deleted, work, loose>>

ExclusiveStep ==
  \E e \in Exclusive :
    ScopedRelease(e) \/ LazyGet(e) \/ \E p \in 0 .. MaxBlocks : ScopedReset(e, p)

PointersNext == (\E t \in Threads : SharedStep(t)) \/ ExclusiveStep

(***************************************************************************)
(* Properties                                                               *)
(***************************************************************************)
(* The references of a block: the handles that have it, but while their     *)
(* thread is between the write of the member and that of the count, and the *)
(* threads that have counted it and not yet put it into their handle.       *)
Between(h) == \E t \in Threads : work[t].h = h /\ work[t].at \in {"copy", "delete", "settle"}
Holding(b) == {h \in AllHandles : data[h] = b /\ ~Between(h)}
Dropping(t) == work[t].at \in {"drop", "delete", "settle"}
Taking(b) == {t \in Threads : Dropping(t) /\ work[t].new = b /\ ~Fresh(t)}

(* However the threads' copies, assignments (of a pointer to itself, too),  *)
(* resets and destructions interleave, use_count is the number of           *)
(* references, no value is destroyed while one is left, and none twice; so  *)
(* unique() is true only for the one reference.                             *)
CountsAreReferences ==
  \A b \in 1 .. made :
    /\ count[b] = Cardinality(Holding(b)) + Cardinality(Taking(b))
    /\ deleted[b] \in {0, 1}
    /\ count[b] > 0 => deleted[b] = 0

(* A value that went through exclusive pointers has one owner: a pointer,   *)
(* the user, or nobody once it is destroyed.                                *)
OneOwner ==
  /\ \A e, f \in Exclusive : value[e] # 0 /\ value[e] = value[f] => e = f
  /\ \A e \in Exclusive : value[e] # 0 => deleted[value[e]] = 0 /\ value[e] \notin loose
  /\ \A p \in loose : deleted[p] = 0

(* No value leaks: one that has not been destroyed is referred to, or about *)
(* to be referred to or destroyed by a thread, or has an exclusive owner.   *)
NoneLeft ==
  \A b \in 1 .. made : deleted[b] = 0 =>
    \/ count[b] > 0
    \/ \E t \in Threads : \/ Dropping(t) /\ work[t].new = b
                          \/ work[t].at = "delete" /\ data[work[t].h] = b
    \/ b \in loose
    \/ \E e \in Exclusive : value[e] = b

PointersSound == CountsAreReferences /\ OneOwner /\ NoneLeft
=============================================================================
