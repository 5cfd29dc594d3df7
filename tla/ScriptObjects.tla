--------------------------- MODULE ScriptObjects ---------------------------
(***************************************************************************)
(* C++ objects in the hands of a script: meta_set, meta_get and destroy of  *)
(* component/lua/traits_forward.hpp, and the capsules of component/python,  *)
(* which do the same with a context and a destructor in place of a          *)
(* metatable.  A wrapper made of a class or of a construct< t > owns its    *)
(* object, and the collector of the host deletes it; one made of a pointer  *)
(* does not; to< destruct< t > > takes the object from the wrapper and      *)
(* clears what identifies it.  What a wrapper without that leads to is not  *)
(* tested: behaviours end where `broken' says that something is undefined.  *)
(***************************************************************************)
EXTENDS Naturals, FiniteSets

CONSTANTS Natives, Wrappers, Unwrapped

VARIABLES
  native,    \* native[o]: "none", "live", "deleted"
  deletions, \* deletions[o]: how often an object was deleted
  wrap,      \* wrap[w]: the object, whether the wrapper owns it, whether it
             \* still has its metatable or context
  lost,      \* objects that nobody will delete
  taken,     \* history: destruct was called on a wrapper that does not own
  broken     \* what was used: "none", a "spent" wrapper, or a deleted object
             \* through its "owner" or a "pointer"

scriptVars == <<native, deletions, wrap, lost, taken, broken>>

ScriptInit ==
  /\ native = [o \in Natives |-> "none"]
  /\ deletions = [o \in Natives |-> 0]
  /\ wrap = [w \in Wrappers |-> Unwrapped]
  /\ lost = {} /\ taken = FALSE /\ broken = "none"

Wrapped(w) == wrap[w] # Unwrapped
Object(w) == wrap[w].object
Deleted(o) == /\ native' = [native EXCEPT ![o] = "deleted"]
              /\ deletions' = [deletions EXCEPT ![o] = @ + 1]

(* push< t >: new type( class_ ), and a wrapper with a destructor. *)
PushClass(w, o) ==
  /\ ~Wrapped(w) /\ native[o] = "none"
  /\ native' = [native EXCEPT ![o] = "live"]
  /\ wrap' = [wrap EXCEPT ![w] = [object |-> o, owns |-> TRUE, meta |-> TRUE]]
  /\ UNCHANGED <<deletions, lost, taken, broken>>

(* push< t* >: a function returns a pointer to an object that lives. *)
PushPointer(w, o) ==
  /\ ~Wrapped(w) /\ native[o] = "live"
  /\ wrap' = [wrap EXCEPT ![w] = [object |-> o, owns |-> FALSE, meta |-> TRUE]]
  /\ UNCHANGED <<native, deletions, lost, taken, broken>>

(* The host's collector: destroy< t > through __gc or the capsule. *)
Collect(w) ==
  /\ Wrapped(w)
  /\ wrap' = [wrap EXCEPT ![w] = Unwrapped]
  /\ IF wrap[w].owns /\ wrap[w].meta THEN Deleted(Object(w))
     ELSE UNCHANGED <<native, deletions>>
  /\ UNCHANGED <<lost, taken, broken>>

(* meta_get and get_pointer: the type is a field of the metatable, or the   *)
(* context, that is taken to be there, and the object to live.              *)
Misused(w) == \/ ~wrap[w].meta /\ broken' = "spent"
              \/ /\ wrap[w].meta /\ native[Object(w)] = "deleted"
                 /\ broken' = IF wrap[w].owns THEN "owner" ELSE "pointer"

Use(w) == /\ Wrapped(w) /\ Misused(w)
          /\ UNCHANGED <<native, deletions, wrap, lost, taken>>

(* to< destruct< t > >, of a call that runs and deletes the object, or that *)
(* fails at a later argument and forgets it.  A second one is a use.        *)
Destruct(w, runs) ==
  \/ Wrapped(w) /\ ~wrap[w].meta /\ Use(w)
  \/ /\ Wrapped(w) /\ wrap[w].meta
     /\ wrap' = [wrap EXCEPT ![w].meta = FALSE]
     /\ taken' = (taken \/ ~wrap[w].owns)
     /\ IF runs THEN Deleted(Object(w)) /\ UNCHANGED lost
        ELSE lost' = lost \cup {Object(w)} /\ UNCHANGED <<native, deletions>>
     /\ IF runs /\ native[Object(w)] = "deleted" THEN Misused(w) ELSE UNCHANGED broken

ScriptNext ==
  /\ broken = "none"
  /\ \E w \in Wrappers :
       \/ \E o \in Natives : PushClass(w, o) \/ PushPointer(w, o)
       \/ Collect(w) \/ Use(w)
       \/ \E runs \in BOOLEAN : Destruct(w, runs)

(***************************************************************************)
(* Properties                                                               *)
(***************************************************************************)
(* Scripts that wrap, use, drop and destroy objects in any order never       *)
(* delete one twice, one that lives has a wrapper that will delete it,      *)
(* unless its call failed half way, and a wrapper that owns an object never *)
(* leads to a deleted one; provided that what is destroyed is the wrapper   *)
(* that owns the object.  What the code leaves to the script is a second    *)
(* use of a wrapper whose object was destroyed, which is undefined and no   *)
(* error, and that no pointer to an object is used after its deletion.      *)
ScriptOwnsOnce ==
  ~taken =>
    /\ broken # "owner"
    /\ \A o \in Natives :
         /\ deletions[o] <= 1
         /\ native[o] = "live" /\ o \notin lost =>
              Cardinality({w \in Wrappers :
                  Wrapped(w) /\ Object(w) = o /\ wrap[w].owns /\ wrap[w].meta}) = 1
=============================================================================
