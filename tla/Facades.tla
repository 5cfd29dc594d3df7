------------------------------ MODULE Facades -------------------------------
(***************************************************************************)
(* A module of the registry: its names are sorted, and the documentation,  *)
(* the local and the remote callbacks are in vectors of their own, which   *)
(* must stay in step with them while builder::insert puts new names in     *)
(* between.  A surrogate copies the module to a nameservice, where a name  *)
(* has the index of the switchboard; a server may insert names there on    *)
(* its own.  A name stands for the pair of a name and a type, and for its  *)
(* function and its documentation.                                         *)
(***************************************************************************)
EXTENDS Naturals, Sequences, FiniteSets, SequencesExt, FiniteSetsExt

CONSTANTS Name,         \* names: numbers, in the order of the vectors
          Latest        \* a bound on the length of the nameservice

Adjust == 5             \* index_adjust, after find, list, find_all and doc

VARIABLES names, docs, locals, remotes, scripts, \* module and its facades
          board,        \* the switchboard behind the nameservice
          nsdocs, nsmap,        \* nameservice::vector and nameservice::map
          copied,       \* load_nameservice: how many names have been copied
          copying       \* whether the module is built and is being copied

module == <<names, docs, locals, remotes, scripts>>
nameservice == <<board, nsdocs, nsmap>>
vars == <<module, nameservice, copied, copying>>

Missing == 0            \* ~index_t( 0 ), the end of a map

Init == /\ names = <<>> /\ docs = <<>> /\ locals = <<>> /\ remotes = <<>> /\ scripts = <<>>
        /\ board = <<>> /\ nsdocs = <<>>
        /\ nsmap = [n \in Name |-> Missing]
        /\ copied = 0 /\ copying = FALSE

(* std::lower_bound: the first place whose element is not less. *)
LowerBound(seq, n) == 1 + Cardinality({i \in DOMAIN seq : seq[i] < n})

-----------------------------------------------------------------------------
(* facade::lua and facade::python: what converts and calls a function.     *)
ScriptInsert(i, n) == InsertAt(scripts, i, n)

(* builder::insert, module::insert and interface::insert, which refuses a  *)
(* name that is there.                                                     *)
BuilderInsert(n) ==
    /\ ~ copying /\ board = <<>> /\ n \notin Range(names)
    /\ LET i == LowerBound(names, n) IN
       /\ names' = InsertAt(names, i, n)
       /\ docs' = InsertAt(docs, i, n)
       /\ locals' = InsertAt(locals, i, n)
       /\ remotes' = InsertAt(remotes, i, n)
       /\ scripts' = ScriptInsert(i, n)
    /\ UNCHANGED <<nameservice, copied, copying>>

(* ~builder: the facades are registered, and the module is loaded. *)
Built == /\ ~ copying /\ board = <<>>
         /\ copying' = TRUE
         /\ UNCHANGED <<module, nameservice, copied>>

(* nameservice::insert_direct.  A name that is there keeps its index in    *)
(* the map, and has one more in the vectors.                               *)
InsertDirect(n, function, doc) ==
    LET index == Adjust + Len(board) IN
    /\ board' = Append(board, function)
    /\ nsdocs' = InsertAt(nsdocs, index - Adjust + 1, doc)
    /\ nsmap' = IF nsmap[n] = Missing THEN [nsmap EXCEPT ![n] = index] ELSE nsmap

(* load_nameservice, name by name. *)
Copy == /\ copying /\ copied < Len(names)
        /\ InsertDirect(names[copied + 1], locals[copied + 1], docs[copied + 1])
        /\ copied' = copied + 1
        /\ UNCHANGED <<module, copying>>

(* nameservice::insert by a server. *)
Insert(n) == /\ ~ copying /\ names = <<>> /\ Len(board) < Latest
             /\ InsertDirect(n, n, n)
             /\ UNCHANGED <<module, copied, copying>>

Next == Copy \/ Built \/ \E n \in Name : BuilderInsert(n) \/ Insert(n)

-----------------------------------------------------------------------------
(* local::supports: the loop goes along the names, and along the interface *)
(* by how many of it have been met.  The empty interface is no argument:   *)
(* it is dereferenced.                                                     *)
Follows(ns, faces) ==
    LET Met[n \in 0 .. Len(ns)] ==
            IF n = 0 THEN 0
            ELSE IF Met[n - 1] < Len(faces) /\ ns[n] = faces[Met[n - 1] + 1]
                 THEN Met[n - 1] + 1 ELSE Met[n - 1]
    IN Met[Len(ns)] = Len(faces)

LocalSupports(faces) ==
    Follows(SubSeq(names, LowerBound(names, Head(faces)), Len(names)), faces)

(* remote::supports, by way of find_all of the nameservice. *)
Find(n) == nsmap[n]
RemoteSupports(faces) == \A i \in DOMAIN faces : Find(faces[i]) # Missing

(* local::find and module::doc: the place is not compared with the name.   *)
LocalFind(n) == IF LowerBound(names, n) > Len(names) THEN Missing
                ELSE locals[LowerBound(names, n)]
Doc(n) == IF LowerBound(names, n) > Len(names) THEN Missing
          ELSE docs[LowerBound(names, n)]

(* nameservice::list and doc. *)
List == [i \in 1 .. Cardinality({n \in Name : nsmap[n] # Missing}) |->
             CHOOSE n \in Name : nsmap[n] = i + Adjust - 1]
NsDoc(n) == nsdocs[Find(n) - Adjust + 1]

(* interface::insert keeps it sorted, and refuses what is there. *)
Interfaces == {f \in UNION {[1 .. k -> Name] : k \in 1 .. Cardinality(Name)} :
                  \A i, j \in DOMAIN f : i < j => f[i] < f[j]}

(* Every name of a module, and every one of a nameservice, leads to its    *)
(* own function and its own documentation, and a script calls it through   *)
(* the conversions of its own type, in whatever order the names were       *)
(* inserted; and what a module supports as a library it supports as a *)
(* surrogate.  (The name of a function that is missing leads to another.)  *)
NamesLeadHome ==
    /\ \A n \in Range(names) : LocalFind(n) = n /\ Doc(n) = n
    /\ \A i \in DOMAIN names : scripts[i] = locals[i]
    /\ \A n \in Name : Find(n) # Missing =>
           board[Find(n) - Adjust + 1] = n /\ NsDoc(n) = n
    /\ copying /\ copied = Len(names) /\ names # <<>> => \A f \in Interfaces :
           /\ LocalSupports(f) = (Range(f) \subseteq Range(names))
           /\ board = names => RemoteSupports(f) = LocalSupports(f)

(* list() puts each name at its index, unless one was inserted twice.      *)
ListsWhole ==
    Cardinality({n \in Name : nsmap[n] # Missing}) = Len(board) =>
        \A i \in DOMAIN board : List[i] = board[i]
=============================================================================
