---------------------------- MODULE ScriptValues ----------------------------
(***************************************************************************)
(* The conversions of C++ values for the hosts of scripts.                  *)
(*                                                                          *)
(* component/lua/traits.hpp and traits_forward.hpp push each C++ type on,   *)
(* and read it from, Lua's stack, element by element.  A conversion reads   *)
(* its element at an index from the bottom (an argument) or from the top    *)
(* (-1, -2: an element of a container), and what it pushes meanwhile moves  *)
(* what the latter means.                                                   *)
(*                                                                          *)
(* component/python counts references: from< t > makes a Python object of a *)
(* C++ value, and load makes the dictionary of a module's functions.        *)
(* `object` owns a reference, the other classes (list, set, tuple,          *)
(* dictionary, string, function) own none, although they create objects; a  *)
(* list and a tuple steal the reference of what they are given, a set and a *)
(* dictionary take one of their own.  A heap is a sequence of objects, each *)
(* with its count and the objects it refers to; one whose count is 0 is     *)
(* freed.                                                                   *)
(*                                                                          *)
(* A type is a tuple: <<"number">>, <<"empty">>, <<"sequence", T>>,         *)
(* <<"array", n, T>>, <<"set", T>>, <<"map", K, V>>, <<"tuple", T1, ...>>;  *)
(* a pair is a tuple of two.  Values of a stack entry are reduced to        *)
(* numbers, nil and tables: strings and booleans convert as numbers do.     *)
(***************************************************************************)
EXTENDS Integers, Sequences, SequencesExt

CONSTANT Bad      \* a value whose conversion throws

Nil == [is |-> "nil"]
Number(n) == [is |-> "number", n |-> n]
Table(e) == [is |-> "table", e |-> e]       \* e: a set of <<key, value>>

(***************************************************************************)
(* The operations of stack, which are Lua's.                                *)
(***************************************************************************)
Place(s, i) == IF i > 0 THEN i ELSE Len(s) + 1 + i
At(s, i) == s[Place(s, i)]
Pop(s, n) == SubSeq(s, 1, Len(s) - n)
IsTable(s, i) == Place(s, i) \in 1 .. Len(s) /\ At(s, i).is = "table"
Entry(e, k) == IF \E p \in e : p[1] = k THEN (CHOOSE p \in e : p[1] = k)[2] ELSE Nil
RawGetI(s, i, k) == Append(s, Entry(At(s, i).e, Number(k)))
RawSet(s, i, k, v, n) ==     \* t[k] = v, and n entries are taken off the stack
  LET p == Place(s, i) IN
  Pop([s EXCEPT ![p] = Table({q \in s[p].e : q[1] # k}
                             \cup (IF v = Nil THEN {} ELSE {<<k, v>>}))], n)
RawSetI(s, i, k) == RawSet(s, i, Number(k), At(s, -1), 1)
RawSetKey(s, i) == RawSet(s, i, At(s, -2), At(s, -1), 2)
ObjLen(s, i) == LET Has(k) == Entry(At(s, i).e, Number(k)) # Nil IN
                CHOOSE n \in 0 .. 9 : ~Has(n + 1) /\ \A k \in 1 .. n : Has(k)

Numbers(n) == [k \in 1 .. n |-> k]

(***************************************************************************)
(* push< t >::call                                                          *)
(***************************************************************************)
RECURSIVE LuaPush(_, _, _)
PushRow(s, row, ts) ==        \* sequence, array, pair, tuple: entries 1, 2, ...
  FoldLeft(LAMBDA u, k : RawSetI(LuaPush(u, ts[k], row[k]), -2, k),
           Append(s, Table({})), Numbers(Len(row)))
LuaPush(s, t, v) ==
  CASE t[1] = "empty" -> Append(s, Nil)
    [] t[1] = "number" -> Append(s, Number(v))
    [] t[1] = "sequence" -> PushRow(s, v, [k \in DOMAIN v |-> t[2]])
    [] t[1] = "array" -> PushRow(s, v, [k \in DOMAIN v |-> t[3]])
    [] t[1] = "tuple" -> PushRow(s, v, Tail(t))
    [] t[1] = "set" ->
         FoldLeft(LAMBDA u, x : RawSetKey(Append(LuaPush(u, t[2], x), Number(1)), -3),
                  Append(s, Table({})), SetToSeq(v))
    [] t[1] = "map" ->
         FoldLeft(LAMBDA u, x : RawSetKey(LuaPush(LuaPush(u, t[2], x[1]), t[3], x[2]), -3),
                  Append(s, Table({})), SetToSeq(v))

(***************************************************************************)
(* to< t >::call.  The outcome is a value, an exception, or a call of Lua   *)
(* with an operand it does not allow ("crash"); s is the stack it leaves.   *)
(***************************************************************************)
Got(s, v) == [is |-> "got", s |-> s, v |-> v]
Not(why, s) == [is |-> why, s |-> s, v |-> <<>>]

RECURSIVE LuaTo(_, _, _)

(* Mutant: an element stays on the stack. *)
ToSequenceKept(s, t, i) ==
  FoldLeft(LAMBDA r, k :
      IF r.is # "got" THEN r
      ELSE LET x == LuaTo(RawGetI(r.s, i, k), t, -1) IN
           IF x.is = "got" THEN Got(x.s, Append(r.v, x.v)) ELSE x,
    Got(s, <<>>), Numbers(ObjLen(s, i)))

(* raw_geti( index, k ), to( -1 ), pop( 1 ) *)
ToSequence(s, t, i) ==
  FoldLeft(LAMBDA r, k :
      IF r.is # "got" THEN r
      ELSE LET x == LuaTo(RawGetI(r.s, i, k), t, -1) IN
           IF x.is = "got" THEN Got(Pop(x.s, 1), Append(r.v, x.v)) ELSE x,
    Got(s, <<>>), Numbers(ObjLen(s, i)))

(* The same, but the elements are popped together at the end. *)
ToTuple(s, ts, i) ==
  LET r == FoldLeft(LAMBDA q, k :
             IF q.is # "got" THEN q
             ELSE IF ~IsTable(q.s, i) THEN Not("crash", q.s)
             ELSE LET x == LuaTo(RawGetI(q.s, i, k), ts[k], -1) IN
                  IF x.is = "got" THEN Got(x.s, Append(q.v, x.v)) ELSE x,
           Got(s, <<>>), Numbers(Len(ts)))
  IN IF r.is = "got" THEN Got(Pop(r.s, Len(ts)), r.v) ELSE r

ToMapped(s, t) ==
  LET k == LuaTo(s, t[2], -2) IN
  IF k.is # "got" THEN k
  ELSE LET v == LuaTo(k.s, t[3], -1) IN
       IF v.is = "got" THEN Got(v.s, <<k.v, v.v>>) ELSE v

(* push_nil, then next( index ) until it ends: key at -2, value at -1. *)
ToPairs(s, t, i) ==
  LET u == Append(s, Nil) IN
  IF ~IsTable(u, i) THEN Not("crash", u)
  ELSE FoldLeft(LAMBDA r, p :
           IF r.is # "got" THEN r
           ELSE LET pair == s \o <<p[1], p[2]>>
                    x == IF t[1] = "set" THEN LuaTo(pair, t[2], -2) ELSE ToMapped(pair, t) IN
                IF x.is = "got" THEN Got(s, r.v \cup {x.v}) ELSE x,
         Got(s, {}), SetToSeq(At(u, i).e))

LuaTo(s, t, i) ==
  CASE t[1] = "empty" -> IF At(s, i) = Nil THEN Got(s, 0) ELSE Not("throw", s)
    [] t[1] = "number" -> IF At(s, i).is = "number" THEN Got(s, At(s, i).n) ELSE Not("throw", s)
    [] ~IsTable(s, i) -> Not("throw", s)
    [] t[1] = "sequence" -> ToSequence(s, t[2], i)
    [] t[1] = "array" ->
         IF ObjLen(s, i) # t[2] THEN Not("throw", s) ELSE ToSequence(s, t[3], i)
    [] t[1] = "tuple" ->
         IF ObjLen(s, i) # Len(t) - 1 THEN Not("throw", s) ELSE ToTuple(s, Tail(t), i)
    [] t[1] \in {"set", "map"} -> ToPairs(s, t, i)

(***************************************************************************)
(* Reference counts in Python.                                              *)
(***************************************************************************)
Object(items) == [refs |-> 1, items |-> items]
New(h, items) == Append(h, Object(items))
IncRef(h, o) == [h EXCEPT ![o].refs = @ + 1]
Refer(h, o, p) == [h EXCEPT ![o].items = Append(@, p)]       \* o refers to p

RECURSIVE DecRef(_, _)
DecRef(h, o) ==
  LET g == [h EXCEPT ![o].refs = @ - 1] IN
  IF g[o].refs # 0 THEN g
  ELSE FoldLeft(LAMBDA f, p : DecRef(f, p), [g EXCEPT ![o].items = <<>>], g[o].items)

(* The outcome of from: the object that is passed on, 0 for an exception.   *)
Made(h, o) == [heap |-> h, o |-> o]

(* object object( container ): releases the container when the conversion   *)
(* of an element throws.                                                    *)
Guarded(r, c) == IF r.o = 0 THEN Made(DecRef(r.heap, c), 0) ELSE Made(r.heap, c)

RECURSIVE PyFrom(_, _, _)
Rows(h, row, ts) ==          \* list.set, tuple.set: the reference moves
  LET c == Len(h) + 1
      r == FoldLeft(LAMBDA q, k :
             IF q.o = 0 THEN q
             ELSE LET x == PyFrom(q.heap, ts[k], row[k]) IN
                  IF x.o = 0 THEN x ELSE Made(Refer(x.heap, c, x.o), c),
             Made(New(h, <<>>), c), [k \in 1 .. Len(row) |-> k])
  IN Guarded(r, c)

Sets(h, elements, t) ==      \* set.add takes a reference, and nobody drops the first
  LET c == Len(h) + 1
      r == FoldLeft(LAMBDA q, v :
             IF q.o = 0 THEN q
             ELSE LET x == PyFrom(q.heap, t, v) IN
                  IF x.o = 0 THEN x ELSE Made(Refer(IncRef(x.heap, x.o), c, x.o), c),
             Made(New(h, <<>>), c), elements)
  IN Guarded(r, c)

Maps(h, pairs, tk, tv) ==    \* key and value are objects that drop their own
  LET c == Len(h) + 1
      r == FoldLeft(LAMBDA q, p :
             IF q.o = 0 THEN q
             ELSE LET k == PyFrom(q.heap, tk, p[1]) IN
                  IF k.o = 0 THEN k
                  ELSE LET v == PyFrom(k.heap, tv, p[2]) IN
                       IF v.o = 0 THEN Made(DecRef(v.heap, k.o), 0)
                       ELSE Made(DecRef(DecRef(
                              Refer(Refer(IncRef(IncRef(v.heap, k.o), v.o), c, k.o), c, v.o),
                              k.o), v.o), c),
             Made(New(h, <<>>), c), pairs)
  IN Guarded(r, c)

PyFrom(h, t, v) ==
  CASE v = Bad -> Made(h, 0)
    [] t[1] \in {"empty", "number"} -> Made(New(h, <<>>), Len(h) + 1)
    [] t[1] = "sequence" -> Rows(h, v, [k \in DOMAIN v |-> t[2]])
    [] t[1] = "array" -> Rows(h, v, [k \in DOMAIN v |-> t[3]])
    [] t[1] = "tuple" -> Rows(h, v, Tail(t))
    [] t[1] = "set" -> Sets(h, v, t[2])
    [] t[1] = "map" -> Maps(h, v, t[2], t[3])

(***************************************************************************)
(* load: for each function a key (string) and a value (function), classes   *)
(* that own nothing, and a self (object) that the function refers to; then  *)
(* the source, under a key that is a temporary string.                      *)
(***************************************************************************)
LoadOne(h, c) ==
  LET key == Len(h) + 1  self == key + 1  value == key + 2
      g == IncRef(h \o <<Object(<<>>), Object(<<>>), Object(<<self>>)>>, self)
  IN DecRef(Refer(Refer(IncRef(IncRef(g, key), value), c, key), c, value), self)

PyLoad(names) ==
  LET h == FoldLeft(LAMBDA g, n : LoadOne(g, 1), New(<<>>, <<>>), names)
      key == Len(h) + 1
  IN Refer(Refer(IncRef(IncRef(h \o <<Object(<<>>), Object(<<>>)>>, key), key + 1),
                 1, key), 1, key + 1)

(***************************************************************************)
(* Properties                                                               *)
(***************************************************************************)
(* What a type may hold for its elements to be read from the top of the     *)
(* stack: tables that are traversed, and pairs and tuples, lose their index *)
(* there.                                                                   *)
RECURSIVE Flat(_)
Flat(t) == CASE t[1] = "number" -> TRUE
             [] t[1] = "sequence" -> Flat(t[2])
             [] t[1] = "array" -> Flat(t[3])
             [] OTHER -> FALSE
Parts(t) == CASE t[1] \in {"empty", "number"} -> {}
              [] t[1] = "array" -> {t[3]}
              [] OTHER -> {t[k] : k \in 2 .. Len(t)}

(* A function that is called from Lua gets the argument that was passed,    *)
(* behind any other, and finds the stack as it was.                         *)
LuaRound(t, v) ==
  LET s == LuaPush(<<Number(7)>>, t, v)
      r == LuaTo(s, t, 2)
  IN /\ Len(s) = 2
     /\ (\A p \in Parts(t) : Flat(p)) => r = Got(s, v)

(* An argument of another kind is an exception: a number is never read from *)
(* a table, nor a container from a number.                                  *)
LuaRefuses(t, u, v) ==
  t[1] # u[1] /\ {t[1], u[1]} \cap {"number", "empty"} # {} =>
    LuaTo(LuaPush(<<>>, u, v), t, 1).is = "throw"

Holders(h, o) ==      \* how many references objects of the heap hold to o
  FoldLeft(LAMBDA n, p : n + Len(SelectSeq(p.items, LAMBDA i : i = o)), 0, h)

RECURSIVE SetElements(_, _)
SetElements(t, v) ==  \* the elements of sets in a value
  CASE v = Bad \/ t[1] \in {"empty", "number"} -> 0
    [] t[1] = "set" -> Len(SelectSeq(v, LAMBDA x : x # Bad))
                       + FoldLeft(LAMBDA n, x : n + SetElements(t[2], x), 0, v)
    [] t[1] = "map" -> FoldLeft(LAMBDA n, p : n + SetElements(t[2], p[1]) + SetElements(t[3], p[2]), 0, v)
    [] t[1] = "sequence" -> FoldLeft(LAMBDA n, x : n + SetElements(t[2], x), 0, v)
    [] t[1] = "array" -> FoldLeft(LAMBDA n, x : n + SetElements(t[3], x), 0, v)
    [] OTHER -> FoldLeft(LAMBDA n, k : n + SetElements(t[k + 1], v[k]), 0, [k \in 1 .. Len(v) |-> k])

Alive(h) == Len(SelectSeq(h, LAMBDA p : p.refs # 0))

(* No object is freed while something refers to it, in a conversion that    *)
(* succeeds or that throws at any element; and when the script has dropped  *)
(* the result only the elements of sets are left, which are never freed.    *)
PyBalanced(t, v) ==
  LET r == PyFrom(<<>>, t, v)
      h == IF r.o = 0 THEN r.heap ELSE DecRef(r.heap, r.o)
  IN /\ \A o \in DOMAIN r.heap : r.heap[o].refs >= Holders(r.heap, o)
     /\ \A o \in DOMAIN h : h[o].refs >= 0 /\ h[o].refs >= Holders(h, o)
     /\ SetElements(t, v) = 0 => Alive(h) = 0
     /\ Alive(h) <= SetElements(t, v)

(* The dictionary of a loaded module can be dropped before or after the     *)
(* functions it gave out: none of them is freed while it can be called.     *)
PyLoadSafe(names) ==
  LET h == PyLoad(names) IN
  \A f \in {{}} \cup {{o} : o \in 2 .. Len(h)} :   \* what the script still holds
    LET kept == FoldLeft(LAMBDA g, o : IF o \in f THEN IncRef(g, o) ELSE g, h,
                         [o \in 1 .. Len(h) |-> o])
        g == DecRef(kept, 1)
    IN \A o \in DOMAIN g : g[o].refs >= Holders(g, o) + (IF o \in f THEN 1 ELSE 0)
=============================================================================
