----------------------------- MODULE ScriptCalls -----------------------------
(***************************************************************************)
(* What a script of component/lua or component/python does with the        *)
(* modules of the registry: find, load and doc of their facade.cpp, and    *)
(* the calls of loaded functions through invoke.  load opens the library   *)
(* of a module and puts its functions into a table (a dictionary), with    *)
(* the source that keeps the library open in one entry of it.  Functions   *)
(* and objects that a script takes out have code in the library, and do    *)
(* not keep it open.                                                       *)
(* An argument is "right"; "wrong", of another type than the parameter; or  *)
(* "unknown", a userdata or capsule without what tells its type: one whose *)
(* object a call destructed, or in Python one of another module.           *)
(***************************************************************************)
EXTENDS Naturals, Sequences, FiniteSets

CONSTANTS Libraries,    \* libraries that the registry knows
          ServerModules, \* and servers
          Plain,        \* the libraries built without the facade of the host
          Names, Offers,        \* names, and those that a module offers
          Tables,       \* places of a script for what load returns
          Nothing       \* a place without a table

VARIABLES host,         \* "lua", "python" or "closed"
          opened,       \* how often dlopen has opened a library, less dlclose
          table,        \* place -> Nothing, or the library and whether a script has it
          held,         \* <<library, what>>: what a script has taken out, "function",
                        \* "object", or "spent", the wrapper of one destructed
          last,         \* the last call: did the function run, were its arguments right,
                        \* and what the script saw
          fault,        \* "none", "unmapped": code that is not mapped has been
                        \* called, or "unknown": the type of an unknown argument
          careless      \* a script let a table go and kept what is of its library

callVars == <<host, opened, table, held, last, fault, careless>>

CallsInit == /\ host \in {"lua", "python"}
             /\ opened = [l \in Libraries |-> 0]
             /\ table = [t \in Tables |-> Nothing]
             /\ held = {}
             /\ last = [ran |-> FALSE, right |-> TRUE, seen |-> "value"]
             /\ fault = "none" /\ careless = FALSE

-----------------------------------------------------------------------------
(* A C++ exception becomes an error of the script: lua_error leaves the    *)
(* catch block by a jump, a null result tells Python that there is one.    *)
Failed == [ran |-> FALSE, right |-> FALSE, seen |-> "error"]

VerifyLua(arguments, size) == Len(arguments) >= size
VerifyPython(arguments, size) == Len(arguments) >= size
Verified(arguments, size) ==
    IF host = "lua" THEN VerifyLua(arguments, size) ELSE VerifyPython(arguments, size)

(* meta_catch calls the null function of an unknown argument, or Lua takes *)
(* a field of what is no table, if the arguments before it are right.      *)
Undefined(arguments, size) ==
    /\ Verified(arguments, size)
    /\ \E i \in 1 .. size :
           arguments[i] = "unknown" /\ \A j \in 1 .. i - 1 : arguments[j] = "right"

(* invoke_function and invoke_member: the number of arguments, then each   *)
(* of them from the first to the last, then the call.                      *)
InvokeFunction(arguments, size, throws) ==
    IF ~ Verified(arguments, size) \/ \E i \in 1 .. size : arguments[i] = "wrong"
    THEN Failed
    ELSE [ran |-> TRUE, right |-> \A i \in 1 .. size : arguments[i] = "right",
          seen |-> IF throws THEN "error" ELSE "value"]

(* find: each request must have a name and a type, and servers are left    *)
(* out of what the registry finds.                                         *)
Split(requests) == \A r \in requests : r.typed
Find(requests) ==
    IF ~ Split(requests) THEN {}
    ELSE {m \in Libraries \union ServerModules : \A r \in requests : r.name \in Offers[m]}
             \ ServerModules

-----------------------------------------------------------------------------
Running == host # "closed" /\ fault = "none"

(* source::source: the library, then the module that its module_open makes. *)
Open(l) == opened' = [opened EXCEPT ![l] = @ + 1]
Close(l) == opened' = [opened EXCEPT ![l] = @ - 1]

(* load, of a path that may not be there or whose module has no facade for *)
(* the host: the exception gives the source back.                          *)
LoadFails == /\ Running
             /\ last' = Failed
             /\ UNCHANGED <<host, opened, table, held, fault, careless>>

Load(t, l) == /\ Running /\ table[t] = Nothing /\ l \notin Plain
              /\ Open(l)
              /\ table' = [table EXCEPT ![t] = [of |-> l, has |-> TRUE]]
              /\ UNCHANGED <<host, held, last, fault, careless>>

Has(t) == table[t] # Nothing /\ table[t].has
Holds(l) == \E what \in {"function", "object"} : <<l, what>> \in held

(* A function is taken out of a table. *)
Take(t) == /\ Running /\ Has(t)
           /\ held' = held \union {<<table[t].of, "function">>}
           /\ UNCHANGED <<host, opened, table, last, fault, careless>>

(* The script lets a table go, to be collected at once or later. *)
Release(t) ==
    /\ Running /\ Has(t)
    /\ table' = [table EXCEPT ![t].has = FALSE]
    /\ careless' = \/ careless
                    \/ /\ Holds(table[t].of)
                       /\ \A u \in Tables \ {t} : Has(u) => table[u].of # table[t].of
    /\ UNCHANGED <<host, opened, held, last, fault>>

(* The collector destroys the source: ~module, then ~library. *)
Gather(t) == /\ Running /\ table[t] # Nothing /\ ~ table[t].has
             /\ Close(table[t].of)
             /\ table' = [table EXCEPT ![t] = Nothing]
             /\ UNCHANGED <<host, held, last, fault, careless>>

Spent == {l \in Libraries : <<l, "spent">> \in held}
Given == {"right", "wrong"} \union {k \in {"unknown"} : host = "python" \/ Spent # {}}

(* A call of a function of l, which faults, or leaves the script with what *)
(* it kept and perhaps an object of the library.                           *)
Invoked(l, arguments, size, throws, kept, made) ==
    /\ Running /\ <<l, "function">> \in held
    /\ IF opened[l] = 0
       THEN fault' = "unmapped" /\ UNCHANGED <<last, held>>
       ELSE IF Undefined(arguments, size)
       THEN fault' = "unknown" /\ held' = kept /\ UNCHANGED last
       ELSE /\ last' = InvokeFunction(arguments, size, throws)
            /\ held' = IF made /\ last'.seen = "value"
                       THEN kept \union {<<l, "object">>} ELSE kept
            /\ UNCHANGED fault
    /\ UNCHANGED <<host, opened, table, careless>>

Call(l, made) ==
    \E arguments \in UNION {[1 .. n -> Given] : n \in 0 .. 2}, throws \in BOOLEAN :
        Invoked(l, arguments, 1, throws, held, made)

(* A member takes its object first. *)
CallMember(l, object) ==
    \E n \in 0 .. 1, throws \in BOOLEAN :
        /\ object = "right" => <<l, "object">> \in held
        /\ Invoked(l, <<object>> \o [i \in 1 .. n |-> "right"], 2, throws, held, FALSE)

(* A call that destructs its first argument: the wrapper is spent once that *)
(* has been converted, though a later argument, of the same wrapper it may *)
(* be, fails.                                                              *)
CallDestruct(l, object) ==
    \E second \in Given \union {"unknown"}, throws \in BOOLEAN :
        /\ object = "right" => <<l, "object">> \in held
        /\ Invoked(l, <<object, second>>, 2, throws,
                   IF object = "right"
                   THEN (held \ {<<l, "object">>}) \union {<<l, "spent">>} ELSE held, FALSE)

(* A value that was taken out is collected: destroy< t > of an object is   *)
(* code of the library that made it; a spent wrapper has none.             *)
Forget(l, what) == /\ Running /\ <<l, what>> \in held
                   /\ held' = held \ {<<l, what>>}
                   /\ fault' = IF what = "object" /\ opened[l] = 0 THEN "unmapped" ELSE "none"
                   /\ UNCHANGED <<host, opened, table, last, careless>>

(* doc: the source is taken from its entry; in Lua from the third place of *)
(* the stack, where a third argument of the script would be.               *)
DocLua(t, arguments) == IF Len(arguments) = 2 /\ Has(t) THEN "text" ELSE "error"
DocPython(t, arguments) == IF Len(arguments) >= 2 /\ Has(t) THEN "text" ELSE "error"
Doc(t, arguments) ==
    /\ Running /\ Has(t)
    /\ last' = [ran |-> FALSE, right |-> FALSE,
                seen |-> IF host = "lua" THEN DocLua(t, arguments) ELSE DocPython(t, arguments)]
    /\ UNCHANGED <<host, opened, table, held, fault, careless>>

(* vm::~vm, once a script has failed or all have ended: Lua collects what  *)
(* is left from the youngest, objects before the source they came with.    *)
CloseLua == /\ host = "lua" /\ Running
            /\ host' = "closed"
            /\ opened' = [l \in Libraries |-> 0]
            /\ table' = [t \in Tables |-> Nothing] /\ held' = {}
            /\ fault' = IF \E l \in Libraries : <<l, "object">> \in held /\ opened[l] = 0
                        THEN "unmapped" ELSE "none"
            /\ UNCHANGED <<last, careless>>

(* Py_Finalize has no such order: an object may be after its library.      *)
ClosePython == /\ host = "python" /\ Running
               /\ host' = "closed"
               /\ opened' = [l \in Libraries |-> 0]
               /\ table' = [t \in Tables |-> Nothing] /\ held' = {}
               /\ \/ fault' = "none"
                  \/ (\E l \in Libraries : <<l, "object">> \in held) /\ fault' = "unmapped"
               /\ careless' = (careless \/ fault' = "unmapped")
               /\ UNCHANGED last

CallsNext ==
    \/ LoadFails
    \/ \E t \in Tables : \/ \E l \in Libraries : Load(t, l)
                         \/ Take(t) \/ Release(t) \/ Gather(t)
                         \/ \E n \in 1 .. 3 : Doc(t, [i \in 1 .. n |-> "right"])
    \/ \E l \in Libraries : \/ \E made \in BOOLEAN : Call(l, made)
                            \/ \E object \in Given :
                                   CallMember(l, object) \/ CallDestruct(l, object)
                            \/ \E what \in {"function", "object", "spent"} : Forget(l, what)
    \/ CloseLua \/ ClosePython

-----------------------------------------------------------------------------
(* Whatever a script loads, takes out, calls and lets go, a library is     *)
(* open as long as there is a table of it and no longer, code that is not  *)
(* mapped is called only by a script that let the last table of a library  *)
(* go before what it had of it, and a function runs only if its arguments  *)
(* are of the types of its parameters.  An argument that nothing tells the *)
(* type of is no error but a fault: the script has destructed its object,  *)
(* or is one of Python.                                                    *)
LibrariesKept ==
    /\ \A l \in Libraries :
           opened[l] = Cardinality({t \in Tables : table[t] # Nothing /\ table[t].of = l})
    /\ fault = "unmapped" => careless
    /\ fault = "unknown" => host = "python" \/ Spent # {}
    /\ last.ran => last.right

(* A script that loads what it found for its requests has every function   *)
(* it asked for, or an error where the library lacks the facade of the     *)
(* host, which find does not ask for.                                      *)
FindsLibraries ==
    \A requests \in SUBSET [name : Names, typed : BOOLEAN] :
        \A l \in Find(requests) \ Plain :
            l \in Libraries /\ \A r \in requests : r.typed /\ r.name \in Offers[l]
=============================================================================
