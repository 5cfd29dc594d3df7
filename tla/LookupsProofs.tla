---------------------------- MODULE LookupsProofs ----------------------------
(***************************************************************************)
(* Who asks for something by its name gets what has that name: proofs of   *)
(* LookupsRight, for the modules of the registry and any number of its     *)
(* clients, the functions behind the facades of a module and in its        *)
(* surrogate, and the files behind the directories of vfs; and of the      *)
(* verdicts of the test runner.                                            *)
(***************************************************************************)
EXTENDS Services, FiniteSetTheorems, SequenceTheorems, WellFoundedInduction, TLAPS

LEMMA SameCardinality == \A S : Reg!Cardinality(S) = Cardinality(S)
BY DEF Reg!Cardinality, Cardinality

-----------------------------------------------------------------------------
(* Numbers and recursion *)

(* A set of places has a first one: what is before it is the smallest of   *)
(* the sets of what is before each of them.                                *)
LEMMA LeastExists ==
  ASSUME NEW n \in Nat, NEW U \in SUBSET (1 .. n), U # {}
  PROVE  \E s \in U : \A r \in U : s <= r
<1> DEFINE Below(s) == {r \in U : r < s}
           T == {Below(s) : s \in U}
<1>1. IsFiniteSet(U) /\ \A s \in U : s \in Nat
  <2>1. IsFiniteSet(1 .. n)
    BY FS_Interval
  <2>2. IsFiniteSet(U)
    BY <2>1, FS_Subset
  <2> QED
    BY <2>2
<1>2. \A s \in U : Below(s) \in FiniteSubsetsOf(U)
  <2>1. SUFFICES ASSUME NEW s \in U PROVE Below(s) \in FiniteSubsetsOf(U)
    OBVIOUS
  <2>2. Below(s) \in SUBSET U
    OBVIOUS
  <2>3. IsFiniteSet(Below(s))
    BY <1>1, <2>2, FS_Subset
  <2> QED
    BY <2>2, <2>3 DEF FiniteSubsetsOf
<1>3. T \subseteq FiniteSubsetsOf(U) /\ T # {}
  BY <1>2
<1>4. PICK x \in T : \A y \in T : <<y, x>> \notin StrictSubsetOrdering(U)
  BY <1>3, FS_StrictSubsetOrderingWellFounded, WFMin
<1>5. PICK s \in U : x = Below(s)
  OBVIOUS
<1>6. ASSUME NEW r \in U, r < s
      PROVE  FALSE
  <2>0. r \in Nat /\ s \in Nat /\ ~ r < r /\ \A q \in U : q < r => q < s
    BY <1>1, <1>6
  <2>1. Below(r) \in SUBSET Below(s) /\ r \in Below(s) /\ r \notin Below(r)
    BY <1>6, <2>0
  <2>2. <<Below(r), x>> \in StrictSubsetOrdering(U)
    BY <1>5, <2>1 DEF StrictSubsetOrdering
  <2> QED
    BY <1>4, <2>2
<1> QED
  BY <1>1, <1>6

(* What holds of 0, and of a number below n with the one before it, holds  *)
(* up to n: there is no least number of which it does not.                 *)
LEMMA UpTo ==
  ASSUME NEW n \in Nat, NEW S, 0 \in S,
         \A i \in 0 .. n - 1 : i \in S => i + 1 \in S
  PROVE  0 .. n \subseteq S
<1> SUFFICES ASSUME NEW m \in 0 .. n, m \notin S
             PROVE  FALSE
  OBVIOUS
<1> DEFINE U == {i \in 1 .. n : i \notin S}
<1>1. U \in SUBSET (1 .. n) /\ m \in U
  OBVIOUS
<1>2. PICK s \in U : \A r \in U : s <= r
  BY <1>1, LeastExists
<1>3. s - 1 \in 0 .. n - 1 /\ s \notin S
  OBVIOUS
<1>4. s - 1 \notin U
  BY <1>2, <1>3
<1>5. s - 1 \in S
  BY <1>3, <1>4
<1>6. (s - 1) + 1 \in S
  BY <1>3, <1>5
<1> QED
  BY <1>3, <1>6

(* f begins with base, and goes on to n as by says.                        *)
Recurs(f, n, V, base, by) ==
    /\ f \in [0 .. n -> V]
    /\ f[0] = base
    /\ \A i \in 1 .. n : f[i] = by[i][f[i - 1]]

(* A function on the numbers up to n is defined by what it is of 0 and by  *)
(* how the value of a number comes from the one before.                    *)
LEMMA Recursion ==
  ASSUME NEW n \in Nat, NEW V, NEW base \in V, NEW by \in [1 .. n -> [V -> V]]
  PROVE  \E f : Recurs(f, n, V, base, by)
<1> DEFINE Right(f, m) == Recurs(f, m, V, base, by)
           S == {m \in 0 .. n : \E f : Right(f, m)}
<1>0. ASSUME NEW m \in 0 .. n, NEW f, Right(f, m)
      PROVE  m \in S
  <2> HIDE DEF Right
  <2> QED
    BY <1>0
<1>1. 0 \in S
  <2> DEFINE f == [i \in 0 .. 0 |-> base]
  <2>1. Right(f, 0)
    BY DEF Recurs
  <2>2. 0 \in 0 .. n
    OBVIOUS
  <2> HIDE DEF f, Right, S
  <2> QED
    BY <2>1, <2>2, <1>0
<1>2. ASSUME NEW m \in 0 .. n - 1, m \in S
      PROVE  m + 1 \in S
  <2>1. PICK f : Right(f, m)
    <3> HIDE DEF Right
    <3> QED
      BY <1>2
  <2> DEFINE v == by[m + 1][f[m]]
             g == [i \in 0 .. m + 1 |-> IF i <= m THEN f[i] ELSE v]
  <2>2. v \in V
    <3>1. f[m] \in V /\ m + 1 \in 1 .. n
      BY <2>1 DEF Recurs
    <3> QED
      BY <3>1
  <2>3. g \in [0 .. m + 1 -> V]
    BY <2>1, <2>2 DEF Recurs
  <2>4. g[0] = base
    BY <2>1 DEF Recurs
  <2>5. ASSUME NEW i \in 1 .. m + 1
        PROVE  g[i] = by[i][g[i - 1]]
    <3>1. CASE i <= m
      BY <2>1, <3>1 DEF Recurs
    <3>2. CASE i = m + 1
      <4>1. g[m + 1] = v /\ g[(m + 1) - 1] = f[m]
        OBVIOUS
      <4> HIDE DEF g
      <4> QED
        BY <3>2, <4>1
    <3> QED
      BY <3>1, <3>2
  <2>6. m + 1 \in 0 .. n
    OBVIOUS
  <2>7. Right(g, m + 1)
    <3> HIDE DEF g
    <3> QED
      BY <2>3, <2>4, <2>5 DEF Recurs
  <2> HIDE DEF g, Right, S
  <2> QED
    BY <2>3, <2>6, <2>7, <1>0
<1>3. n \in S
  <2>1. 0 .. n \subseteq S
    <3> HIDE DEF S
    <3> QED
      BY <1>1, <1>2, UpTo
  <2> HIDE DEF S
  <2> QED
    BY <2>1
<1>4. PICK f : Right(f, n)
  <2> HIDE DEF Right
  <2> QED
    BY <1>3
<1> QED
  BY <1>4

-----------------------------------------------------------------------------
(* Registry: the calls of clients, and the surrogates *)

Asking(c) == op[c][1] = "find"
(* The names that a call which finds has looked up. *)
Seen(c) == op[c][2] \ asked[c]
Offering(c, m) == {n \in Seen(c) : <<n, m>> \in map}

RegistryType ==
    /\ set \subseteq Reg!Modules
    /\ op \in [Reg!All -> Reg!Ops \union {<<"insert", Public>>}]
    /\ op["back"] = <<"insert", Public>>
    /\ pc \in [Reg!All -> {"idle", "begun", "exists", "barrier", "down", "connect", "list",
                           "publish", "find", "done"}]
    /\ asked \in [Reg!All -> SUBSET Names]
    /\ histogram \in [Reg!All -> [Reg!Modules -> Nat]]
    /\ before \in [Reg!All -> SUBSET Reg!Modules]
    /\ found \in [Reg!All -> SUBSET Reg!Modules]
    /\ surrogate \in [Reg!All -> {"none", "exec", "listen", "notified", "accept", "joining",
                                  "ended", "died"}]
    /\ sem \in [Reg!All -> Nat]

(* Where a call can be depends on what it asks for. *)
PlaceOf(c) ==
    /\ pc[c] = "find" => Asking(c)
    /\ pc[c] \in {"barrier", "down"} => ~ Asking(c) /\ op[c] # <<"insert", Server>>
    /\ pc[c] \in {"connect", "list", "publish"} => op[c][1] = "insert"
    /\ pc[c] \in {"barrier", "down", "connect", "list", "publish"} /\ op[c][1] = "insert" =>
           op[c][2] \in set
    /\ c # "back" => (op[c] = <<"insert", Public>> <=> pc[c] = "idle")
PlaceInv == \A c \in Reg!All : PlaceOf(c)

(* A surrogate that is connected to listens; the one that calls back waits *)
(* for its own call.                                                       *)
ChildOf(c) ==
    /\ sem[c] > 0 => surrogate[c] \in {"notified", "accept", "joining", "ended"}
    /\ pc[c] \in {"idle", "begun", "barrier"} => surrogate[c] = "none"
    /\ surrogate[c] = "ended" => pc[c] \in {"publish", "done"}
    /\ surrogate[c] = "joining" => op[c][1] = "surrogate"
    /\ pc[c] \in {"connect", "list"} /\ op[c][2] = Library =>
           surrogate[c] \in {"notified", "accept"}
ChildInv ==
    /\ \A c \in Clients : ChildOf(c)
    /\ pc["back"] \in {"idle", "begun", "connect", "list", "exists"}
    /\ pc["back"] \in {"begun", "connect", "list"} => \E d \in Clients : surrogate[d] = "joining"

MapInv == \A m \in Reg!Modules, n \in Names :
    <<n, m>> \in map => m \in set /\ \A k \in Offers[m] : <<k, m>> \in map

(* The histogram of a call counts, for each module, some of the names seen *)
(* that it has, and all of them if it had them when the call began.        *)
CountsOf(c) ==
    /\ pc[c] \in {"idle", "begun"} => \A m \in Reg!Modules : histogram[c][m] = 0
    /\ Asking(c) /\ pc[c] = "find" =>
           /\ asked[c] \subseteq op[c][2]
           /\ \A m \in Reg!Modules :
                  /\ histogram[c][m] <= Cardinality(Offering(c, m))
                  /\ m \in before[c] => /\ histogram[c][m] = Cardinality(Seen(c))
                                        /\ \A n \in op[c][2] : <<n, m>> \in map
    /\ Asking(c) /\ pc[c] = "done" =>
           before[c] \subseteq found[c] /\ found[c] \subseteq Reg!Mapped(op[c][2])
CountsInv == \A c \in Clients : CountsOf(c)

RegistryInv == RegistryType /\ PlaceInv /\ ChildInv /\ MapInv /\ CountsInv

LEMMA OfferingFinite ==
    ASSUME ModulesDistinct, RegistryType, NEW c \in Clients, op[c][1] = "find", NEW m
    PROVE  /\ op[c][2] \subseteq Names /\ IsFiniteSet(op[c][2])
           /\ IsFiniteSet(Seen(c)) /\ IsFiniteSet(Offering(c, m))
           /\ Cardinality(Seen(c)) \in Nat /\ Cardinality(Offering(c, m)) \in Nat
<1>1. op[c][2] \subseteq Names
  <2>1. op[c] \in Reg!Ops
    BY DEF RegistryType, Reg!All
  <2> QED
    BY <2>1 DEF Reg!Ops
<1>2. IsFiniteSet(op[c][2])
  BY <1>1, FS_Subset DEF ModulesDistinct
<1>3. IsFiniteSet(Seen(c)) /\ IsFiniteSet(Offering(c, m))
  BY <1>2, FS_Subset DEF Seen, Offering
<1> QED
  BY <1>1, <1>2, <1>3, FS_CardinalityType

(* What other calls do to the map only adds to what a call may find. *)
LEMMA CountsKept ==
    ASSUME ModulesDistinct, RegistryType, NEW c \in Clients, CountsOf(c), map \subseteq map',
           UNCHANGED <<op[c], asked[c], histogram[c], before[c], found[c]>>,
           pc'[c] \in {"idle", "begun"} => pc[c] \in {"idle", "begun"},
           Asking(c) /\ pc'[c] \in {"find", "done"} => pc'[c] = pc[c]
    PROVE  CountsOf(c)'
<1>1. pc'[c] \in {"idle", "begun"} => \A m \in Reg!Modules : histogram'[c][m] = 0
  BY DEF CountsOf
<1>2. Asking(c)' <=> Asking(c)
  BY DEF Asking
<1>3. Seen(c)' = Seen(c)
  BY DEF Seen
<1>4. ASSUME Asking(c), pc'[c] = "find", NEW m \in Reg!Modules
      PROVE  /\ histogram[c][m] <= Cardinality(Offering(c, m)')
             /\ m \in before[c] => /\ histogram[c][m] = Cardinality(Seen(c))
                                   /\ \A n \in op[c][2] : <<n, m>> \in map'
  <2>1. pc[c] = "find"
    BY <1>4
  <2>2. /\ histogram[c][m] <= Cardinality(Offering(c, m))
        /\ m \in before[c] => /\ histogram[c][m] = Cardinality(Seen(c))
                              /\ \A n \in op[c][2] : <<n, m>> \in map
    BY <1>4, <2>1 DEF CountsOf
  <2>3. Offering(c, m) \subseteq Offering(c, m)' /\ Offering(c, m)' \subseteq Seen(c)
    BY <1>3 DEF Offering
  <2>4. IsFiniteSet(Seen(c)) /\ IsFiniteSet(Offering(c, m))
    BY <1>4, <2>1, OfferingFinite DEF Asking
  <2>5. /\ Cardinality(Offering(c, m)) <= Cardinality(Offering(c, m)')
        /\ Cardinality(Offering(c, m)) \in Nat /\ Cardinality(Offering(c, m)') \in Nat
    BY <2>3, <2>4, FS_Subset, FS_CardinalityType
  <2>6. histogram[c][m] \in Nat
    BY <1>4 DEF RegistryType, Reg!All
  <2> QED
    BY <2>2, <2>5, <2>6
<1>5. Asking(c) /\ pc'[c] = "find" => asked[c] \subseteq op[c][2]
  BY DEF CountsOf
<1>6. Asking(c) /\ pc'[c] = "done" =>
          before[c] \subseteq found[c] /\ found[c] \subseteq Reg!Mapped(op[c][2])'
  <2>1. Reg!Mapped(op[c][2]) \subseteq Reg!Mapped(op[c][2])'
    BY DEF Reg!Mapped
  <2> QED
    BY <2>1 DEF CountsOf
<1> QED
  BY <1>1, <1>2, <1>3, <1>4, <1>5, <1>6 DEF CountsOf

LEMMA Kinds ==
    ASSUME RegistryType, NEW c \in Reg!All
    PROVE  /\ op[c][1] \in {"insert", "surrogate", "find"}
           /\ op[c][1] = "insert" => /\ op[c][2] \in Reg!Modules
                                     /\ op[c] = <<"insert", op[c][2]>>
           /\ op[c][1] = "surrogate" => op[c] = <<"surrogate", Public>>
           /\ op[c][1] = "find" => op[c] \in Reg!Ops /\ op[c][2] \subseteq Names
BY DEF RegistryType, Reg!Ops, Reg!Modules

(* One that has given up would have connected to a surrogate that does not *)
(* listen.                                                                 *)
LEMMA Listening ==
    ASSUME ClientsDistinct, ModulesDistinct, RegistryInv, NEW c \in Reg!All, pc[c] \in {"connect", "list"}
    PROVE  Reg!Listens(c) /\ (op[c][2] = Library => surrogate[c] # "died")
           /\ (c = "back" => Reg!Host(c) \in Clients /\ surrogate[Reg!Host(c)] = "joining")
<1>1. op[c][1] = "insert" /\ op[c][2] \in Reg!Modules /\ op[c] = <<"insert", op[c][2]>>
  BY Kinds DEF RegistryInv, PlaceInv, PlaceOf
<1>2. CASE c = "back"
  <2>1. \E d \in Clients : surrogate[d] = "joining"
    BY <1>2 DEF RegistryInv, ChildInv
  <2>2. Reg!Host(c) \in Clients /\ surrogate[Reg!Host(c)] = "joining"
    BY <1>2, <2>1 DEF Reg!Host, Reg!Back
  <2>3. op[c][2] = Public
    BY <1>2 DEF RegistryInv, RegistryType
  <2> QED
    BY <2>2, <2>3 DEF Reg!Listens, ModulesDistinct
<1>3. CASE c # "back"
  <2>1. c \in Clients /\ Reg!Host(c) = c
    BY <1>3 DEF Reg!All, Reg!Back, Reg!Host
  <2>2. op[c] # <<"insert", Public>>
    BY <2>1, <1>3 DEF RegistryInv, PlaceInv, PlaceOf
  <2>3. op[c][2] \in {Library, Server}
    BY <1>1, <2>2 DEF Reg!Modules
  <2>4. op[c][2] = Library => surrogate[c] \in {"notified", "accept"}
    BY <2>1 DEF RegistryInv, ChildInv, ChildOf
  <2> QED
    BY <1>3, <2>1, <2>3, <2>4 DEF Reg!Listens
<1> QED
  BY <1>2, <1>3

(* What a client asks for. *)
LEMMA BeginStep ==
    ASSUME ClientsDistinct, ModulesDistinct, RegistryInv,
           NEW c \in Clients, Reg!Begin(c)
    PROVE  RegistryInv'
<1>0. RegistryType /\ PlaceInv /\ ChildInv /\ MapInv /\ CountsInv
  BY DEF RegistryInv
<1>1. /\ pc[c] = "idle" /\ pc' = [pc EXCEPT ![c] = "begun"]
      /\ \E o \in Reg!Ops : op' = [op EXCEPT ![c] = o]
      /\ UNCHANGED <<set, map, asked, histogram, before, found, surrogate, sem>>
  BY DEF Reg!Begin, Reg!Goto, Reg!finding, Reg!surrogates
<1>2. /\ c \in Reg!All /\ "back" \in Reg!All /\ Clients \subseteq Reg!All
      /\ \A d \in Reg!All \ {c} : op'[d] = op[d] /\ pc'[d] = pc[d]
  BY <1>0, <1>1 DEF RegistryType, Reg!All, Reg!Back
<1>3. RegistryType'
  <2>1. op' \in [Reg!All -> Reg!Ops \union {<<"insert", Public>>}]
    BY <1>0, <1>1 DEF RegistryType
  <2>2. op'["back"] = <<"insert", Public>>
    BY <1>0, <1>2 DEF RegistryType, ClientsDistinct
  <2> QED
    BY <1>0, <1>1, <2>1, <2>2 DEF RegistryType
<1>4. PlaceInv'
  <2> SUFFICES ASSUME NEW d \in Reg!All PROVE PlaceOf(d)'
    BY Zenon DEF PlaceInv
  <2>1. CASE d = c
    <3>1. op'[c] # <<"insert", Public>> /\ pc'[c] = "begun"
      BY <1>0, <1>1, <1>2 DEF RegistryType, Reg!Ops, ModulesDistinct
    <3> QED
      BY <2>1, <3>1 DEF PlaceOf
  <2>2. CASE d # c
    BY <1>0, <1>1, <1>2, <2>2 DEF PlaceInv, PlaceOf, Asking
  <2> QED
    BY <2>1, <2>2
<1>5. ChildInv'
  <2>1. op[c] = <<"insert", Public>>
    BY <1>0, <1>1, <1>2 DEF PlaceInv, PlaceOf, ClientsDistinct
  <2>2. pc'[c] = "begun" /\ surrogate[c] # "joining" /\ pc'["back"] = pc["back"]
    BY <1>0, <1>1, <1>2, <2>1 DEF RegistryType, ChildInv, ChildOf, ClientsDistinct
  <2> QED
    BY <1>0, <1>1, <1>2, <2>2 DEF ChildInv, ChildOf
<1>6. MapInv'
  BY <1>0, <1>1 DEF MapInv
<1>7. CountsInv'
  <2> SUFFICES ASSUME NEW d \in Clients PROVE CountsOf(d)'
    BY Zenon DEF CountsInv
  <2>1. CASE d = c
    BY <1>0, <1>1, <1>2, <2>1 DEF RegistryType, CountsInv, CountsOf
  <2>2. CASE d # c
    BY <1>0, <1>1, <1>2, <2>2, CountsKept DEF CountsInv
  <2> QED
    BY <2>1, <2>2
<1> QED
  BY <1>3, <1>4, <1>5, <1>6, <1>7 DEF RegistryInv

LEMMA InsertStep ==
    ASSUME ClientsDistinct, ModulesDistinct, RegistryInv,
           NEW c \in Reg!All, pc[c] = "begun", UNCHANGED op, Reg!Insert(c)
    PROVE  RegistryInv'
<1>0. RegistryType /\ PlaceInv /\ ChildInv /\ MapInv /\ CountsInv
  BY DEF RegistryInv
<1>1. /\ pc[c] = "begun" /\ op[c][1] = "insert"
      /\ set' = set \/ set' = set \union {op[c][2]}
      /\ \/ pc' = [pc EXCEPT ![c] = "exists"]
         \/ /\ op[c][2] \in set' /\ op[c][2] # Library
            /\ pc' = [pc EXCEPT ![c] = "connect"]
         \/ /\ op[c][2] \in set' /\ op[c][2] = Library
            /\ pc' = [pc EXCEPT ![c] = "barrier"]
      /\ UNCHANGED <<op, map, asked, histogram, before, found, sem, surrogate>>
  BY DEF Reg!Insert, Reg!Goto, Reg!finding, Reg!surrogates
<1>2. /\ c \in Reg!All /\ "back" \in Reg!All /\ Clients \subseteq Reg!All
      /\ \A d \in Reg!All \ {c} : op'[d] = op[d] /\ pc'[d] = pc[d]
  BY <1>0, <1>1 DEF RegistryType, Reg!All, Reg!Back
<1>3. RegistryType'
  BY <1>0, <1>1, <1>2, Kinds DEF RegistryType
<1>4. PlaceInv'
  <2> SUFFICES ASSUME NEW d \in Reg!All PROVE PlaceOf(d)'
    BY Zenon DEF PlaceInv
  <2>1. CASE d = c
    BY <1>0, <1>1, <1>2, <2>1, Kinds DEF RegistryType, PlaceInv, PlaceOf, Asking, ModulesDistinct
  <2>2. CASE d # c
    BY <1>0, <1>1, <1>2, <2>2 DEF PlaceInv, PlaceOf, Asking
  <2> QED
    BY <2>1, <2>2
<1>5. ChildInv'
  <2>1. ASSUME NEW d \in Clients PROVE ChildOf(d)'
    <3>1. CASE d = c
      BY <1>0, <1>1, <1>2, <3>1, Kinds DEF RegistryType, PlaceInv, PlaceOf, ChildInv, ChildOf, ClientsDistinct
    <3>2. CASE d # c
      BY <1>0, <1>1, <1>2, <3>2 DEF RegistryType, ChildInv, ChildOf
    <3> QED
      BY <3>1, <3>2
  <2>2. /\ pc'["back"] \in {"idle", "begun", "connect", "list", "exists"}
        /\ pc'["back"] \in {"begun", "connect", "list"} => pc["back"] \in {"begun", "connect", "list"}
    BY <1>0, <1>1, <1>2, Kinds DEF RegistryType, ChildInv, ModulesDistinct
  <2>3. pc["back"] \in {"begun", "connect", "list"} => \E d \in Clients : surrogate'[d] = "joining"
    BY <1>0, <1>1, <1>2 DEF RegistryType, ChildInv, ChildOf
  <2> QED
    BY <1>0, <2>1, <2>2, <2>3 DEF ChildInv
<1>6. MapInv'
  BY <1>0, <1>1 DEF MapInv
<1>7. CountsInv'
  <2> SUFFICES ASSUME NEW d \in Clients PROVE CountsOf(d)'
    BY Zenon DEF CountsInv
  <2>1. CASE d = c
    BY <1>0, <1>1, <1>2, <2>1, CountsKept DEF CountsInv, PlaceInv, PlaceOf, Asking
  <2>2. CASE d # c
    BY <1>0, <1>1, <1>2, <2>2, CountsKept DEF CountsInv
  <2> QED
    BY <2>1, <2>2
<1> QED
  BY <1>3, <1>4, <1>5, <1>6, <1>7 DEF RegistryInv

LEMMA SurrogateStep ==
    ASSUME ClientsDistinct, ModulesDistinct, RegistryInv,
           NEW c \in Reg!All, pc[c] = "begun", UNCHANGED op, op[c][1] = "surrogate",
           Reg!Goto(c, "barrier"), UNCHANGED <<set, map, Reg!finding, Reg!surrogates>>
    PROVE  RegistryInv'
<1>0. RegistryType /\ PlaceInv /\ ChildInv /\ MapInv /\ CountsInv
  BY DEF RegistryInv
<1>1. /\ pc[c] = "begun" /\ op[c][1] = "surrogate" /\ pc' = [pc EXCEPT ![c] = "barrier"]
      /\ UNCHANGED <<set, op, map, asked, histogram, before, found, sem, surrogate>>
  BY DEF Reg!Goto, Reg!finding, Reg!surrogates
<1>2. /\ c \in Reg!All /\ "back" \in Reg!All /\ Clients \subseteq Reg!All
      /\ \A d \in Reg!All \ {c} : op'[d] = op[d] /\ pc'[d] = pc[d]
  BY <1>0, <1>1 DEF RegistryType, Reg!All, Reg!Back
<1>3. RegistryType'
  BY <1>0, <1>1 DEF RegistryType
<1>4. PlaceInv'
  <2> SUFFICES ASSUME NEW d \in Reg!All PROVE PlaceOf(d)'
    BY Zenon DEF PlaceInv
  <2>1. CASE d = c
    BY <1>0, <1>1, <1>2, <2>1, Kinds DEF RegistryType, PlaceInv, PlaceOf, Asking, ModulesDistinct
  <2>2. CASE d # c
    BY <1>0, <1>1, <1>2, <2>2 DEF PlaceInv, PlaceOf, Asking
  <2> QED
    BY <2>1, <2>2
<1>5. ChildInv'
  <2>1. ASSUME NEW d \in Clients PROVE ChildOf(d)'
    <3>1. CASE d = c
      BY <1>0, <1>1, <1>2, <3>1, Kinds DEF RegistryType, PlaceInv, PlaceOf, ChildInv, ChildOf, ClientsDistinct
    <3>2. CASE d # c
      BY <1>0, <1>1, <1>2, <3>2 DEF RegistryType, ChildInv, ChildOf
    <3> QED
      BY <3>1, <3>2
  <2>2. /\ pc'["back"] \in {"idle", "begun", "connect", "list", "exists"}
        /\ pc'["back"] \in {"begun", "connect", "list"} => pc["back"] \in {"begun", "connect", "list"}
    BY <1>0, <1>1, <1>2, Kinds DEF RegistryType, ChildInv, ModulesDistinct
  <2>3. pc["back"] \in {"begun", "connect", "list"} => \E d \in Clients : surrogate'[d] = "joining"
    BY <1>0, <1>1, <1>2 DEF RegistryType, ChildInv, ChildOf
  <2> QED
    BY <1>0, <2>1, <2>2, <2>3 DEF ChildInv
<1>6. MapInv'
  BY <1>0, <1>1 DEF MapInv
<1>7. CountsInv'
  <2> SUFFICES ASSUME NEW d \in Clients PROVE CountsOf(d)'
    BY Zenon DEF CountsInv
  <2>1. CASE d = c
    BY <1>0, <1>1, <1>2, <2>1, CountsKept DEF CountsInv, PlaceInv, PlaceOf, Asking
  <2>2. CASE d # c
    BY <1>0, <1>1, <1>2, <2>2, CountsKept DEF CountsInv
  <2> QED
    BY <2>1, <2>2
<1> QED
  BY <1>3, <1>4, <1>5, <1>6, <1>7 DEF RegistryInv

LEMMA ForkStep ==
    ASSUME ClientsDistinct, ModulesDistinct, RegistryInv,
           NEW c \in Reg!All, Reg!Fork(c)
    PROVE  RegistryInv'
<1>0. RegistryType /\ PlaceInv /\ ChildInv /\ MapInv /\ CountsInv
  BY DEF RegistryInv
<1>1. /\ pc[c] = "barrier" /\ pc' = [pc EXCEPT ![c] = "down"]
      /\ sem' = [sem EXCEPT ![c] = 0] /\ surrogate' = [surrogate EXCEPT ![c] = "exec"]
      /\ UNCHANGED <<set, op, map, asked, histogram, before, found>>
  BY DEF Reg!Fork, Reg!Goto, Reg!finding, Reg!surrogates
<1>2. /\ c \in Reg!All /\ "back" \in Reg!All /\ Clients \subseteq Reg!All
      /\ \A d \in Reg!All \ {c} : op'[d] = op[d] /\ pc'[d] = pc[d]
  BY <1>0, <1>1 DEF RegistryType, Reg!All, Reg!Back
<1>3. RegistryType'
  BY <1>0, <1>1 DEF RegistryType
<1>4. PlaceInv'
  <2> SUFFICES ASSUME NEW d \in Reg!All PROVE PlaceOf(d)'
    BY Zenon DEF PlaceInv
  <2>1. CASE d = c
    BY <1>0, <1>1, <1>2, <2>1, Kinds DEF RegistryType, PlaceInv, PlaceOf, Asking, ModulesDistinct
  <2>2. CASE d # c
    BY <1>0, <1>1, <1>2, <2>2 DEF PlaceInv, PlaceOf, Asking
  <2> QED
    BY <2>1, <2>2
<1>5. ChildInv'
  <2>1. ASSUME NEW d \in Clients PROVE ChildOf(d)'
    <3>1. CASE d = c
      BY <1>0, <1>1, <1>2, <3>1, Kinds DEF RegistryType, PlaceInv, PlaceOf, ChildInv, ChildOf, ClientsDistinct
    <3>2. CASE d # c
      BY <1>0, <1>1, <1>2, <3>2 DEF RegistryType, ChildInv, ChildOf
    <3> QED
      BY <3>1, <3>2
  <2>2. /\ pc'["back"] \in {"idle", "begun", "connect", "list", "exists"}
        /\ pc'["back"] \in {"begun", "connect", "list"} => pc["back"] \in {"begun", "connect", "list"}
    BY <1>0, <1>1, <1>2, Kinds DEF RegistryType, ChildInv, ModulesDistinct
  <2>3. pc["back"] \in {"begun", "connect", "list"} => \E d \in Clients : surrogate'[d] = "joining"
    BY <1>0, <1>1, <1>2 DEF RegistryType, ChildInv, ChildOf
  <2> QED
    BY <1>0, <2>1, <2>2, <2>3 DEF ChildInv
<1>6. MapInv'
  BY <1>0, <1>1 DEF MapInv
<1>7. CountsInv'
  <2> SUFFICES ASSUME NEW d \in Clients PROVE CountsOf(d)'
    BY Zenon DEF CountsInv
  <2>1. CASE d = c
    BY <1>0, <1>1, <1>2, <2>1, CountsKept DEF CountsInv, PlaceInv, PlaceOf, Asking
  <2>2. CASE d # c
    BY <1>0, <1>1, <1>2, <2>2, CountsKept DEF CountsInv
  <2> QED
    BY <2>1, <2>2
<1> QED
  BY <1>3, <1>4, <1>5, <1>6, <1>7 DEF RegistryInv

LEMMA BarrierDownStep ==
    ASSUME ClientsDistinct, ModulesDistinct, RegistryInv,
           NEW c \in Reg!All, Reg!BarrierDown(c)
    PROVE  RegistryInv'
<1>0. RegistryType /\ PlaceInv /\ ChildInv /\ MapInv /\ CountsInv
  BY DEF RegistryInv
<1>1. /\ pc[c] = "down" /\ sem[c] > 0 /\ sem' = [sem EXCEPT ![c] = @ - 1]
      /\ pc' = [pc EXCEPT ![c] = IF op[c][1] = "surrogate" THEN "done" ELSE "connect"]
      /\ UNCHANGED <<set, op, map, asked, histogram, before, found, surrogate>>
  BY DEF Reg!BarrierDown, Reg!Goto, Reg!finding, Reg!surrogates
<1>2. /\ c \in Reg!All /\ "back" \in Reg!All /\ Clients \subseteq Reg!All
      /\ \A d \in Reg!All \ {c} : op'[d] = op[d] /\ pc'[d] = pc[d]
  BY <1>0, <1>1 DEF RegistryType, Reg!All, Reg!Back
<1>3. RegistryType'
  BY <1>0, <1>1 DEF RegistryType
<1>4. PlaceInv'
  <2> SUFFICES ASSUME NEW d \in Reg!All PROVE PlaceOf(d)'
    BY Zenon DEF PlaceInv
  <2>1. CASE d = c
    BY <1>0, <1>1, <1>2, <2>1, Kinds DEF RegistryType, PlaceInv, PlaceOf, Asking, ModulesDistinct
  <2>2. CASE d # c
    BY <1>0, <1>1, <1>2, <2>2 DEF PlaceInv, PlaceOf, Asking
  <2> QED
    BY <2>1, <2>2
<1>5. ChildInv'
  <2>1. ASSUME NEW d \in Clients PROVE ChildOf(d)'
    <3>1. CASE d = c
      BY <1>0, <1>1, <1>2, <3>1, Kinds DEF RegistryType, PlaceInv, PlaceOf, ChildInv, ChildOf, ClientsDistinct
    <3>2. CASE d # c
      BY <1>0, <1>1, <1>2, <3>2 DEF RegistryType, ChildInv, ChildOf
    <3> QED
      BY <3>1, <3>2
  <2>2. /\ pc'["back"] \in {"idle", "begun", "connect", "list", "exists"}
        /\ pc'["back"] \in {"begun", "connect", "list"} => pc["back"] \in {"begun", "connect", "list"}
    BY <1>0, <1>1, <1>2, Kinds DEF RegistryType, ChildInv, ModulesDistinct
  <2>3. pc["back"] \in {"begun", "connect", "list"} => \E d \in Clients : surrogate'[d] = "joining"
    BY <1>0, <1>1, <1>2 DEF RegistryType, ChildInv, ChildOf
  <2> QED
    BY <1>0, <2>1, <2>2, <2>3 DEF ChildInv
<1>6. MapInv'
  BY <1>0, <1>1 DEF MapInv
<1>7. CountsInv'
  <2> SUFFICES ASSUME NEW d \in Clients PROVE CountsOf(d)'
    BY Zenon DEF CountsInv
  <2>1. CASE d = c
    BY <1>0, <1>1, <1>2, <2>1, CountsKept DEF CountsInv, PlaceInv, PlaceOf, Asking
  <2>2. CASE d # c
    BY <1>0, <1>1, <1>2, <2>2, CountsKept DEF CountsInv
  <2> QED
    BY <2>1, <2>2
<1> QED
  BY <1>3, <1>4, <1>5, <1>6, <1>7 DEF RegistryInv

LEMMA ConnectStep ==
    ASSUME ClientsDistinct, ModulesDistinct, RegistryInv,
           NEW c \in Reg!All, Reg!Connect(c)
    PROVE  RegistryInv'
<1>0. RegistryType /\ PlaceInv /\ ChildInv /\ MapInv /\ CountsInv
  BY DEF RegistryInv
<1>1. /\ pc[c] = "connect" /\ pc' = [pc EXCEPT ![c] = "list"]
      /\ UNCHANGED <<set, op, map, asked, histogram, before, found, sem, surrogate>>
  BY Listening DEF Reg!Connect, Reg!Goto, Reg!finding, Reg!surrogates
<1>2. /\ c \in Reg!All /\ "back" \in Reg!All /\ Clients \subseteq Reg!All
      /\ \A d \in Reg!All \ {c} : op'[d] = op[d] /\ pc'[d] = pc[d]
  BY <1>0, <1>1 DEF RegistryType, Reg!All, Reg!Back
<1>3. RegistryType'
  BY <1>0, <1>1 DEF RegistryType
<1>4. PlaceInv'
  <2> SUFFICES ASSUME NEW d \in Reg!All PROVE PlaceOf(d)'
    BY Zenon DEF PlaceInv
  <2>1. CASE d = c
    BY <1>0, <1>1, <1>2, <2>1, Kinds DEF RegistryType, PlaceInv, PlaceOf, Asking, ModulesDistinct
  <2>2. CASE d # c
    BY <1>0, <1>1, <1>2, <2>2 DEF PlaceInv, PlaceOf, Asking
  <2> QED
    BY <2>1, <2>2
<1>5. ChildInv'
  <2>1. ASSUME NEW d \in Clients PROVE ChildOf(d)'
    <3>1. CASE d = c
      BY <1>0, <1>1, <1>2, <3>1, Kinds DEF RegistryType, PlaceInv, PlaceOf, ChildInv, ChildOf, ClientsDistinct
    <3>2. CASE d # c
      BY <1>0, <1>1, <1>2, <3>2 DEF RegistryType, ChildInv, ChildOf
    <3> QED
      BY <3>1, <3>2
  <2>2. /\ pc'["back"] \in {"idle", "begun", "connect", "list", "exists"}
        /\ pc'["back"] \in {"begun", "connect", "list"} => pc["back"] \in {"begun", "connect", "list"}
    BY <1>0, <1>1, <1>2, Kinds DEF RegistryType, ChildInv, ModulesDistinct
  <2>3. pc["back"] \in {"begun", "connect", "list"} => \E d \in Clients : surrogate'[d] = "joining"
    BY <1>0, <1>1, <1>2 DEF RegistryType, ChildInv, ChildOf
  <2> QED
    BY <1>0, <2>1, <2>2, <2>3 DEF ChildInv
<1>6. MapInv'
  BY <1>0, <1>1 DEF MapInv
<1>7. CountsInv'
  <2> SUFFICES ASSUME NEW d \in Clients PROVE CountsOf(d)'
    BY Zenon DEF CountsInv
  <2>1. CASE d = c
    BY <1>0, <1>1, <1>2, <2>1, CountsKept DEF CountsInv, PlaceInv, PlaceOf, Asking
  <2>2. CASE d # c
    BY <1>0, <1>1, <1>2, <2>2, CountsKept DEF CountsInv
  <2> QED
    BY <2>1, <2>2
<1> QED
  BY <1>3, <1>4, <1>5, <1>6, <1>7 DEF RegistryInv

LEMMA ListedStep ==
    ASSUME ClientsDistinct, ModulesDistinct, RegistryInv,
           NEW c \in Reg!All, Reg!Listed(c)
    PROVE  RegistryInv'
<1>0. RegistryType /\ PlaceInv /\ ChildInv /\ MapInv /\ CountsInv
  BY DEF RegistryInv
<1>1. /\ pc[c] = "list" /\ c # "back" /\ pc' = [pc EXCEPT ![c] = "publish"]
      /\ \/ op[c][2] = Server /\ UNCHANGED surrogate
         \/ surrogate[c] = "accept" /\ surrogate' = [surrogate EXCEPT ![c] = "ended"]
      /\ UNCHANGED <<set, op, map, asked, histogram, before, found, sem>>
  <2>1. pc[c] = "list" /\ pc' = [pc EXCEPT ![c] = "publish"]
        /\ UNCHANGED <<set, op, map, asked, histogram, before, found, sem>>
        /\ \/ op[c][2] = Server /\ UNCHANGED surrogate
           \/ /\ surrogate[Reg!Host(c)] = "accept"
              /\ surrogate' = [surrogate EXCEPT ![Reg!Host(c)] = "ended"]
    BY DEF Reg!Listed, Reg!Goto, Reg!finding, Reg!surrogates
  <2>2. c # "back"
    BY <1>0, <2>1, Listening DEF RegistryType, ModulesDistinct
  <2>3. Reg!Host(c) = c
    BY <2>2 DEF Reg!Host, Reg!Back
  <2> QED
    BY <2>1, <2>2, <2>3
<1>2. /\ c \in Reg!All /\ "back" \in Reg!All /\ Clients \subseteq Reg!All
      /\ \A d \in Reg!All \ {c} : op'[d] = op[d] /\ pc'[d] = pc[d]
  BY <1>0, <1>1 DEF RegistryType, Reg!All, Reg!Back
<1>3. RegistryType'
  BY <1>0, <1>1 DEF RegistryType
<1>4. PlaceInv'
  <2> SUFFICES ASSUME NEW d \in Reg!All PROVE PlaceOf(d)'
    BY Zenon DEF PlaceInv
  <2>1. CASE d = c
    BY <1>0, <1>1, <1>2, <2>1, Kinds DEF RegistryType, PlaceInv, PlaceOf, Asking, ModulesDistinct
  <2>2. CASE d # c
    BY <1>0, <1>1, <1>2, <2>2 DEF PlaceInv, PlaceOf, Asking
  <2> QED
    BY <2>1, <2>2
<1>5. ChildInv'
  <2>1. ASSUME NEW d \in Clients PROVE ChildOf(d)'
    <3>1. CASE d = c
      BY <1>0, <1>1, <1>2, <3>1, Kinds DEF RegistryType, PlaceInv, PlaceOf, ChildInv, ChildOf, ClientsDistinct
    <3>2. CASE d # c
      BY <1>0, <1>1, <1>2, <3>2 DEF RegistryType, ChildInv, ChildOf
    <3> QED
      BY <3>1, <3>2
  <2>2. /\ pc'["back"] \in {"idle", "begun", "connect", "list", "exists"}
        /\ pc'["back"] \in {"begun", "connect", "list"} => pc["back"] \in {"begun", "connect", "list"}
    BY <1>0, <1>1, <1>2, Kinds DEF RegistryType, ChildInv, ModulesDistinct
  <2>3. pc["back"] \in {"begun", "connect", "list"} => \E d \in Clients : surrogate'[d] = "joining"
    BY <1>0, <1>1, <1>2 DEF RegistryType, ChildInv, ChildOf
  <2> QED
    BY <1>0, <2>1, <2>2, <2>3 DEF ChildInv
<1>6. MapInv'
  BY <1>0, <1>1 DEF MapInv
<1>7. CountsInv'
  <2> SUFFICES ASSUME NEW d \in Clients PROVE CountsOf(d)'
    BY Zenon DEF CountsInv
  <2>1. CASE d = c
    BY <1>0, <1>1, <1>2, <2>1, CountsKept DEF CountsInv, PlaceInv, PlaceOf, Asking
  <2>2. CASE d # c
    BY <1>0, <1>1, <1>2, <2>2, CountsKept DEF CountsInv
  <2> QED
    BY <2>1, <2>2
<1> QED
  BY <1>3, <1>4, <1>5, <1>6, <1>7 DEF RegistryInv

LEMMA PublishStep ==
    ASSUME ClientsDistinct, ModulesDistinct, RegistryInv,
           NEW c \in Reg!All, Reg!Publish(c)
    PROVE  RegistryInv'
<1>0. RegistryType /\ PlaceInv /\ ChildInv /\ MapInv /\ CountsInv
  BY DEF RegistryInv
<1>1. /\ pc[c] = "publish" /\ pc' = [pc EXCEPT ![c] = "done"]
      /\ map' = map \union {<<n, op[c][2]>> : n \in Offers[op[c][2]]}
      /\ UNCHANGED <<set, op, asked, histogram, before, found, surrogate, sem>>
  BY DEF Reg!Publish, Reg!Goto, Reg!finding, Reg!surrogates
<1>2. /\ c \in Reg!All /\ "back" \in Reg!All /\ Clients \subseteq Reg!All
      /\ \A d \in Reg!All \ {c} : op'[d] = op[d] /\ pc'[d] = pc[d]
  BY <1>0, <1>1 DEF RegistryType, Reg!All, Reg!Back
<1>3. RegistryType'
  BY <1>0, <1>1 DEF RegistryType
<1>4. PlaceInv'
  <2> SUFFICES ASSUME NEW d \in Reg!All PROVE PlaceOf(d)'
    BY Zenon DEF PlaceInv
  <2>1. CASE d = c
    BY <1>0, <1>1, <1>2, <2>1, Kinds DEF RegistryType, PlaceInv, PlaceOf, Asking, ModulesDistinct
  <2>2. CASE d # c
    BY <1>0, <1>1, <1>2, <2>2 DEF PlaceInv, PlaceOf, Asking
  <2> QED
    BY <2>1, <2>2
<1>5. ChildInv'
  <2>1. ASSUME NEW d \in Clients PROVE ChildOf(d)'
    <3>1. CASE d = c
      BY <1>0, <1>1, <1>2, <3>1, Kinds DEF RegistryType, PlaceInv, PlaceOf, ChildInv, ChildOf, ClientsDistinct
    <3>2. CASE d # c
      BY <1>0, <1>1, <1>2, <3>2 DEF RegistryType, ChildInv, ChildOf
    <3> QED
      BY <3>1, <3>2
  <2>2. /\ pc'["back"] \in {"idle", "begun", "connect", "list", "exists"}
        /\ pc'["back"] \in {"begun", "connect", "list"} => pc["back"] \in {"begun", "connect", "list"}
    BY <1>0, <1>1, <1>2, Kinds DEF RegistryType, ChildInv, ModulesDistinct
  <2>3. pc["back"] \in {"begun", "connect", "list"} => \E d \in Clients : surrogate'[d] = "joining"
    BY <1>0, <1>1, <1>2 DEF RegistryType, ChildInv, ChildOf
  <2> QED
    BY <1>0, <2>1, <2>2, <2>3 DEF ChildInv
<1>6. MapInv'
  <2>1. op[c][1] = "insert" /\ op[c][2] \in set
    BY <1>0, <1>1, <1>2 DEF PlaceInv, PlaceOf
  <2> SUFFICES ASSUME NEW m \in Reg!Modules, NEW n \in Names, <<n, m>> \in map'
               PROVE  m \in set /\ \A k \in Offers[m] : <<k, m>> \in map'
    BY <1>1 DEF MapInv
  <2>2. CASE m = op[c][2]
    BY <1>1, <2>1, <2>2
  <2>3. CASE m # op[c][2]
    BY <1>0, <1>1, <2>3 DEF MapInv
  <2> QED
    BY <2>2, <2>3
<1>7. CountsInv'
  <2> SUFFICES ASSUME NEW d \in Clients PROVE CountsOf(d)'
    BY Zenon DEF CountsInv
  <2>1. CASE d = c
    BY <1>0, <1>1, <1>2, <2>1, CountsKept DEF CountsInv, PlaceInv, PlaceOf, Asking
  <2>2. CASE d # c
    BY <1>0, <1>1, <1>2, <2>2, CountsKept DEF CountsInv
  <2> QED
    BY <2>1, <2>2
<1> QED
  BY <1>3, <1>4, <1>5, <1>6, <1>7 DEF RegistryInv

LEMMA ListenStep ==
    ASSUME ClientsDistinct, ModulesDistinct, RegistryInv,
           NEW c \in Clients, Reg!Listen(c) \/ Reg!Fail(c)
    PROVE  RegistryInv'
<1>0. RegistryType /\ PlaceInv /\ ChildInv /\ MapInv /\ CountsInv
  BY DEF RegistryInv
<1>1. /\ surrogate[c] = "exec"
      /\ \E to \in {"listen", "died"} : surrogate' = [surrogate EXCEPT ![c] = to]
      /\ UNCHANGED <<pc, set, op, map, asked, histogram, before, found, sem>>
  BY DEF Reg!Listen, Reg!Fail, Reg!Turn, Reg!Goto, Reg!finding, Reg!surrogates
<1>2. /\ c \in Reg!All /\ "back" \in Reg!All /\ Clients \subseteq Reg!All
      /\ \A d \in Reg!All \ {c} : op'[d] = op[d] /\ pc'[d] = pc[d]
  BY <1>0, <1>1 DEF RegistryType, Reg!All, Reg!Back
<1>3. RegistryType'
  BY <1>0, <1>1 DEF RegistryType
<1>4. PlaceInv'
  <2> SUFFICES ASSUME NEW d \in Reg!All PROVE PlaceOf(d)'
    BY Zenon DEF PlaceInv
  <2>1. CASE d = c
    BY <1>0, <1>1, <1>2, <2>1, Kinds DEF RegistryType, PlaceInv, PlaceOf, Asking, ModulesDistinct
  <2>2. CASE d # c
    BY <1>0, <1>1, <1>2, <2>2 DEF PlaceInv, PlaceOf, Asking
  <2> QED
    BY <2>1, <2>2
<1>5. ChildInv'
  <2>1. ASSUME NEW d \in Clients PROVE ChildOf(d)'
    <3>1. CASE d = c
      BY <1>0, <1>1, <1>2, <3>1, Kinds DEF RegistryType, PlaceInv, PlaceOf, ChildInv, ChildOf, ClientsDistinct
    <3>2. CASE d # c
      BY <1>0, <1>1, <1>2, <3>2 DEF RegistryType, ChildInv, ChildOf
    <3> QED
      BY <3>1, <3>2
  <2>2. /\ pc'["back"] \in {"idle", "begun", "connect", "list", "exists"}
        /\ pc'["back"] \in {"begun", "connect", "list"} => pc["back"] \in {"begun", "connect", "list"}
    BY <1>0, <1>1, <1>2, Kinds DEF RegistryType, ChildInv, ModulesDistinct
  <2>3. pc["back"] \in {"begun", "connect", "list"} => \E d \in Clients : surrogate'[d] = "joining"
    BY <1>0, <1>1, <1>2 DEF RegistryType, ChildInv, ChildOf
  <2> QED
    BY <1>0, <2>1, <2>2, <2>3 DEF ChildInv
<1>6. MapInv'
  BY <1>0, <1>1 DEF MapInv
<1>7. CountsInv'
  <2> SUFFICES ASSUME NEW d \in Clients PROVE CountsOf(d)'
    BY Zenon DEF CountsInv
  <2>1. CASE d = c
    BY <1>0, <1>1, <1>2, <2>1, CountsKept DEF CountsInv, PlaceInv, PlaceOf, Asking
  <2>2. CASE d # c
    BY <1>0, <1>1, <1>2, <2>2, CountsKept DEF CountsInv
  <2> QED
    BY <2>1, <2>2
<1> QED
  BY <1>3, <1>4, <1>5, <1>6, <1>7 DEF RegistryInv

LEMMA NotifyStep ==
    ASSUME ClientsDistinct, ModulesDistinct, RegistryInv,
           NEW c \in Clients, Reg!Notify(c)
    PROVE  RegistryInv'
<1>0. RegistryType /\ PlaceInv /\ ChildInv /\ MapInv /\ CountsInv
  BY DEF RegistryInv
<1>1. /\ surrogate[c] = "listen" /\ surrogate' = [surrogate EXCEPT ![c] = "notified"]
      /\ sem' = [sem EXCEPT ![c] = @ + 1]
      /\ UNCHANGED <<pc, set, op, map, asked, histogram, before, found>>
  BY DEF Reg!Notify, Reg!Turn, Reg!Goto, Reg!finding, Reg!surrogates
<1>2. /\ c \in Reg!All /\ "back" \in Reg!All /\ Clients \subseteq Reg!All
      /\ \A d \in Reg!All \ {c} : op'[d] = op[d] /\ pc'[d] = pc[d]
  BY <1>0, <1>1 DEF RegistryType, Reg!All, Reg!Back
<1>3. RegistryType'
  <2>1. surrogate' \in [Reg!All -> {"none", "exec", "listen", "notified", "accept", "joining",
                                   "ended", "died"}]
    BY <1>0, <1>1 DEF RegistryType
  <2>2. sem' \in [Reg!All -> Nat]
    <3>1. sem \in [Reg!All -> Nat] /\ sem[c] + 1 \in Nat
      BY <1>0, <1>2 DEF RegistryType
    <3> QED
      BY <1>1, <3>1
  <2> QED
    BY <1>0, <1>1, <2>1, <2>2 DEF RegistryType
<1>4. PlaceInv'
  <2> SUFFICES ASSUME NEW d \in Reg!All PROVE PlaceOf(d)'
    BY Zenon DEF PlaceInv
  <2>1. CASE d = c
    BY <1>0, <1>1, <1>2, <2>1, Kinds DEF RegistryType, PlaceInv, PlaceOf, Asking, ModulesDistinct
  <2>2. CASE d # c
    BY <1>0, <1>1, <1>2, <2>2 DEF PlaceInv, PlaceOf, Asking
  <2> QED
    BY <2>1, <2>2
<1>5. ChildInv'
  <2>1. ASSUME NEW d \in Clients PROVE ChildOf(d)'
    <3>1. CASE d = c
      BY <1>0, <1>1, <1>2, <3>1, Kinds DEF RegistryType, PlaceInv, PlaceOf, ChildInv, ChildOf, ClientsDistinct
    <3>2. CASE d # c
      BY <1>0, <1>1, <1>2, <3>2 DEF RegistryType, ChildInv, ChildOf
    <3> QED
      BY <3>1, <3>2
  <2>2. /\ pc'["back"] \in {"idle", "begun", "connect", "list", "exists"}
        /\ pc'["back"] \in {"begun", "connect", "list"} => pc["back"] \in {"begun", "connect", "list"}
    BY <1>0, <1>1, <1>2, Kinds DEF RegistryType, ChildInv, ModulesDistinct
  <2>3. pc["back"] \in {"begun", "connect", "list"} => \E d \in Clients : surrogate'[d] = "joining"
    BY <1>0, <1>1, <1>2 DEF RegistryType, ChildInv, ChildOf
  <2> QED
    BY <1>0, <2>1, <2>2, <2>3 DEF ChildInv
<1>6. MapInv'
  BY <1>0, <1>1 DEF MapInv
<1>7. CountsInv'
  <2> SUFFICES ASSUME NEW d \in Clients PROVE CountsOf(d)'
    BY Zenon DEF CountsInv
  <2>1. CASE d = c
    BY <1>0, <1>1, <1>2, <2>1, CountsKept DEF CountsInv, PlaceInv, PlaceOf, Asking
  <2>2. CASE d # c
    BY <1>0, <1>1, <1>2, <2>2, CountsKept DEF CountsInv
  <2> QED
    BY <2>1, <2>2
<1> QED
  BY <1>3, <1>4, <1>5, <1>6, <1>7 DEF RegistryInv

LEMMA PrivateServerStep ==
    ASSUME ClientsDistinct, ModulesDistinct, RegistryInv,
           NEW c \in Clients, Reg!PrivateServer(c)
    PROVE  RegistryInv'
<1>0. RegistryType /\ PlaceInv /\ ChildInv /\ MapInv /\ CountsInv
  BY DEF RegistryInv
<1>1. /\ surrogate[c] = "notified" /\ surrogate' = [surrogate EXCEPT ![c] = "accept"]
      /\ UNCHANGED <<pc, set, op, map, asked, histogram, before, found, sem>>
  BY DEF Reg!PrivateServer, Reg!Turn, Reg!Goto, Reg!finding, Reg!surrogates
<1>2. /\ c \in Reg!All /\ "back" \in Reg!All /\ Clients \subseteq Reg!All
      /\ \A d \in Reg!All \ {c} : op'[d] = op[d] /\ pc'[d] = pc[d]
  BY <1>0, <1>1 DEF RegistryType, Reg!All, Reg!Back
<1>3. RegistryType'
  BY <1>0, <1>1 DEF RegistryType
<1>4. PlaceInv'
  <2> SUFFICES ASSUME NEW d \in Reg!All PROVE PlaceOf(d)'
    BY Zenon DEF PlaceInv
  <2>1. CASE d = c
    BY <1>0, <1>1, <1>2, <2>1, Kinds DEF RegistryType, PlaceInv, PlaceOf, Asking, ModulesDistinct
  <2>2. CASE d # c
    BY <1>0, <1>1, <1>2, <2>2 DEF PlaceInv, PlaceOf, Asking
  <2> QED
    BY <2>1, <2>2
<1>5. ChildInv'
  <2>1. ASSUME NEW d \in Clients PROVE ChildOf(d)'
    <3>1. CASE d = c
      BY <1>0, <1>1, <1>2, <3>1, Kinds DEF RegistryType, PlaceInv, PlaceOf, ChildInv, ChildOf, ClientsDistinct
    <3>2. CASE d # c
      BY <1>0, <1>1, <1>2, <3>2 DEF RegistryType, ChildInv, ChildOf
    <3> QED
      BY <3>1, <3>2
  <2>2. /\ pc'["back"] \in {"idle", "begun", "connect", "list", "exists"}
        /\ pc'["back"] \in {"begun", "connect", "list"} => pc["back"] \in {"begun", "connect", "list"}
    BY <1>0, <1>1, <1>2, Kinds DEF RegistryType, ChildInv, ModulesDistinct
  <2>3. pc["back"] \in {"begun", "connect", "list"} => \E d \in Clients : surrogate'[d] = "joining"
    BY <1>0, <1>1, <1>2 DEF RegistryType, ChildInv, ChildOf
  <2> QED
    BY <1>0, <2>1, <2>2, <2>3 DEF ChildInv
<1>6. MapInv'
  BY <1>0, <1>1 DEF MapInv
<1>7. CountsInv'
  <2> SUFFICES ASSUME NEW d \in Clients PROVE CountsOf(d)'
    BY Zenon DEF CountsInv
  <2>1. CASE d = c
    BY <1>0, <1>1, <1>2, <2>1, CountsKept DEF CountsInv, PlaceInv, PlaceOf, Asking
  <2>2. CASE d # c
    BY <1>0, <1>1, <1>2, <2>2, CountsKept DEF CountsInv
  <2> QED
    BY <2>1, <2>2
<1> QED
  BY <1>3, <1>4, <1>5, <1>6, <1>7 DEF RegistryInv

(* A call that finds begins, and sees the map as it is. *)
LEMMA FindBeginStep ==
    ASSUME ClientsDistinct, ModulesDistinct, RegistryInv,
           NEW c \in Reg!All, pc[c] = "begun", UNCHANGED op, Reg!FindBegin(c)
    PROVE  RegistryInv'
<1>0. RegistryType /\ PlaceInv /\ ChildInv /\ MapInv /\ CountsInv
  BY DEF RegistryInv
<1>1. /\ pc[c] = "begun" /\ op[c][1] = "find" /\ pc' = [pc EXCEPT ![c] = "find"]
      /\ asked' = [asked EXCEPT ![c] = op[c][2]]
      /\ before' = [before EXCEPT ![c] = Reg!Mapped(op[c][2])]
      /\ UNCHANGED <<set, op, map, histogram, found, sem, surrogate>>
  BY DEF Reg!FindBegin, Reg!Goto, Reg!surrogates
<1>2. /\ c \in Reg!All /\ "back" \in Reg!All /\ Clients \subseteq Reg!All
      /\ \A d \in Reg!All \ {c} : op'[d] = op[d] /\ pc'[d] = pc[d]
      /\ c # "back" /\ c \in Clients
  BY <1>0, <1>1 DEF RegistryType, Reg!All, Reg!Back
<1>3. RegistryType'
  <2>1. Reg!Mapped(op[c][2]) \subseteq Reg!Modules /\ op[c][2] \subseteq Names
    BY <1>0, <1>1, Kinds DEF Reg!Mapped
  <2>2. asked' \in [Reg!All -> SUBSET Names]
    BY <1>0, <1>1, <2>1 DEF RegistryType
  <2>3. before' \in [Reg!All -> SUBSET Reg!Modules]
    BY <1>0, <1>1, <2>1 DEF RegistryType
  <2> QED
    BY <1>0, <1>1, <2>2, <2>3 DEF RegistryType
<1>4. PlaceInv'
  BY <1>0, <1>1, <1>2 DEF RegistryType, PlaceInv, PlaceOf, Asking
<1>5. ChildInv'
  <2>1. \A d \in Clients : ChildOf(d)'
    BY <1>0, <1>1, <1>2 DEF RegistryType, ChildInv, ChildOf
  <2> QED
    BY <1>0, <1>1, <1>2, <2>1 DEF ChildInv
<1>6. MapInv'
  BY <1>0, <1>1 DEF MapInv
<1>7. CountsInv'
  <2> SUFFICES ASSUME NEW d \in Clients PROVE CountsOf(d)'
    BY Zenon DEF CountsInv
  <2>1. CASE d = c
    <3>1. asked'[c] = op[c][2] /\ before'[c] = Reg!Mapped(op[c][2]) /\ pc'[c] = "find"
      BY <1>0, <1>1 DEF RegistryType
    <3>2. Seen(c)' = {}
      BY <1>1, <3>1 DEF Seen
    <3>3. \A m : Offering(c, m)' = {}
      BY <3>2 DEF Offering
    <3>4. \A m \in Reg!Modules : histogram'[c][m] = 0
      BY <1>0, <1>1, <1>2 DEF CountsInv, CountsOf
    <3>5. \A m \in Reg!Modules : m \in before'[c] => \A n \in op'[c][2] : <<n, m>> \in map'
      BY <1>1, <3>1 DEF Reg!Mapped
    <3> QED
      BY <1>1, <2>1, <3>1, <3>2, <3>3, <3>4, <3>5, FS_EmptySet DEF CountsOf
  <2>2. CASE d # c
    BY <1>0, <1>1, <1>2, <2>2, CountsKept DEF RegistryType, CountsInv
  <2> QED
    BY <2>1, <2>2
<1> QED
  BY <1>3, <1>4, <1>5, <1>6, <1>7 DEF RegistryInv

(* It looks up one name more, in the map as it is by now. *)
LEMMA FindNameStep ==
    ASSUME ClientsDistinct, ModulesDistinct, RegistryInv, NEW c \in Reg!All, Reg!FindName(c)
    PROVE  RegistryInv'
<1>0. RegistryType /\ PlaceInv /\ ChildInv /\ MapInv /\ CountsInv
  BY DEF RegistryInv
<1>1. PICK n \in asked[c] :
          /\ asked' = [asked EXCEPT ![c] = asked[c] \ {n}]
          /\ histogram' = [histogram EXCEPT ![c] =
                 [m \in Reg!Modules |-> histogram[c][m] + IF <<n, m>> \in map THEN 1 ELSE 0]]
  <2> DEFINE n == CHOOSE n \in asked[c] : TRUE
  <2>1. n \in asked[c]
    BY DEF Reg!FindName
  <2> HIDE DEF n
  <2>2. /\ asked' = [asked EXCEPT ![c] = asked[c] \ {n}]
        /\ histogram' = [histogram EXCEPT ![c] =
               [m \in Reg!Modules |-> histogram[c][m] + IF <<n, m>> \in map THEN 1 ELSE 0]]
    BY DEF Reg!FindName, n
  <2> QED
    BY <2>1, <2>2
<1>2. pc[c] = "find" /\ UNCHANGED <<set, map, op, pc, before, found, sem, surrogate>>
  BY DEF Reg!FindName, Reg!surrogates
<1>3. op[c][1] = "find" /\ c # "back" /\ c \in Clients /\ Clients \subseteq Reg!All
  BY <1>0, <1>2 DEF RegistryType, PlaceInv, PlaceOf, Asking, Reg!All, Reg!Back
<1>4. /\ \A m \in Reg!Modules : histogram[c][m] \in Nat
      /\ asked'[c] = asked[c] \ {n}
      /\ \A m \in Reg!Modules : histogram'[c][m] = histogram[c][m] + IF <<n, m>> \in map THEN 1 ELSE 0
  BY <1>0, <1>1 DEF RegistryType
<1>5. RegistryType'
  <2>1. asked' \in [Reg!All -> SUBSET Names]
    BY <1>0, <1>1 DEF RegistryType
  <2>2. [m \in Reg!Modules |-> histogram[c][m] + IF <<n, m>> \in map THEN 1 ELSE 0]
            \in [Reg!Modules -> Nat]
    BY <1>4
  <2>3. histogram' \in [Reg!All -> [Reg!Modules -> Nat]]
    BY <1>0, <1>1, <2>2 DEF RegistryType
  <2> QED
    BY <1>0, <1>2, <2>1, <2>3 DEF RegistryType
<1>6. PlaceInv' /\ ChildInv' /\ MapInv'
  BY <1>0, <1>2 DEF PlaceInv, PlaceOf, Asking, ChildInv, ChildOf, MapInv
<1>7. CountsInv'
  <2> SUFFICES ASSUME NEW d \in Clients PROVE CountsOf(d)'
    BY Zenon DEF CountsInv
  <2>1. CASE d = c
    <3>1. /\ asked[c] \subseteq op[c][2]
          /\ \A m \in Reg!Modules :
                 /\ histogram[c][m] <= Cardinality(Offering(c, m))
                 /\ m \in before[c] => /\ histogram[c][m] = Cardinality(Seen(c))
                                       /\ \A k \in op[c][2] : <<k, m>> \in map
      BY <1>0, <1>2, <1>3 DEF CountsInv, CountsOf, Asking
    <3>2. Seen(c)' = Seen(c) \union {n} /\ n \notin Seen(c) /\ n \in op[c][2]
      BY <1>2, <1>4, <3>1 DEF Seen
    <3>3. IsFiniteSet(Seen(c)) /\ Cardinality(Seen(c)) \in Nat
      BY <1>0, <1>2, <1>3, OfferingFinite
    <3>4. Cardinality(Seen(c)') = Cardinality(Seen(c)) + 1
      BY <3>2, <3>3, FS_AddElement
    <3>5. ASSUME NEW m \in Reg!Modules
          PROVE  /\ histogram'[c][m] <= Cardinality(Offering(c, m)')
                 /\ m \in before[c] => histogram'[c][m] = Cardinality(Seen(c)')
      <4>1. IsFiniteSet(Offering(c, m)) /\ Cardinality(Offering(c, m)) \in Nat
        BY <1>0, <1>2, <1>3, OfferingFinite
      <4>2. histogram[c][m] \in Nat /\ histogram[c][m] <= Cardinality(Offering(c, m))
        BY <1>4, <3>1
      <4>3. CASE <<n, m>> \in map
        <5>1. Offering(c, m)' = Offering(c, m) \union {n} /\ n \notin Offering(c, m)
          BY <1>2, <3>2, <4>3 DEF Offering
        <5>2. Cardinality(Offering(c, m)') = Cardinality(Offering(c, m)) + 1
          BY <4>1, <5>1, FS_AddElement
        <5>3. histogram'[c][m] = histogram[c][m] + 1
          BY <1>4, <4>3
        <5> QED
          BY <3>1, <3>3, <3>4, <4>1, <4>2, <5>2, <5>3
      <4>4. CASE <<n, m>> \notin map
        <5>1. Offering(c, m)' = Offering(c, m)
          BY <1>2, <3>2, <4>4 DEF Offering
        <5>2. histogram'[c][m] = histogram[c][m]
          BY <1>4, <4>4
        <5>3. m \notin before[c]
          BY <3>1, <3>2, <4>4
        <5> QED
          BY <4>1, <4>2, <5>1, <5>2, <5>3
      <4> QED
        BY <4>3, <4>4
    <3> QED
      BY <1>2, <1>3, <1>4, <2>1, <3>1, <3>5 DEF CountsOf, Asking
  <2>2. CASE d # c
    BY <1>0, <1>1, <1>2, <1>3, <2>2, CountsKept DEF RegistryType, CountsInv
  <2> QED
    BY <2>1, <2>2
<1> QED
  BY <1>5, <1>6, <1>7 DEF RegistryInv

(* It has seen all names, and returns the modules that have as many. *)
LEMMA FindEndStep ==
    ASSUME ClientsDistinct, ModulesDistinct, RegistryInv, NEW c \in Reg!All, Reg!FindEnd(c)
    PROVE  RegistryInv'
<1>0. RegistryType /\ PlaceInv /\ ChildInv /\ MapInv /\ CountsInv
  BY DEF RegistryInv
<1>1. /\ pc[c] = "find" /\ asked[c] = {} /\ pc' = [pc EXCEPT ![c] = "done"]
      /\ found' = [found EXCEPT ![c] =
             {m \in Reg!Modules : histogram[c][m] = Cardinality(op[c][2])}]
      /\ UNCHANGED <<set, map, op, asked, histogram, before, sem, surrogate>>
  BY SameCardinality DEF Reg!FindEnd, Reg!Goto, Reg!surrogates
<1>2. op[c][1] = "find" /\ c # "back" /\ c \in Clients /\ Clients \subseteq Reg!All
      /\ "back" \in Reg!All
      /\ \A d \in Reg!All \ {c} : op'[d] = op[d] /\ pc'[d] = pc[d]
  BY <1>0, <1>1 DEF RegistryType, PlaceInv, PlaceOf, Asking, Reg!All, Reg!Back
<1>3. RegistryType'
  <2>1. found' \in [Reg!All -> SUBSET Reg!Modules]
    BY <1>0, <1>1 DEF RegistryType
  <2> QED
    BY <1>0, <1>1, <2>1 DEF RegistryType
<1>4. PlaceInv'
  BY <1>0, <1>1, <1>2 DEF RegistryType, PlaceInv, PlaceOf, Asking
<1>5. ChildInv'
  <2>1. \A d \in Clients : ChildOf(d)'
    BY <1>0, <1>1, <1>2 DEF RegistryType, ChildInv, ChildOf
  <2> QED
    BY <1>0, <1>1, <1>2, <2>1 DEF ChildInv
<1>6. MapInv'
  BY <1>0, <1>1 DEF MapInv
<1>7. CountsInv'
  <2> SUFFICES ASSUME NEW d \in Clients PROVE CountsOf(d)'
    BY Zenon DEF CountsInv
  <2>1. CASE d = c
    <3>1. \A m \in Reg!Modules :
              /\ histogram[c][m] <= Cardinality(Offering(c, m))
              /\ m \in before[c] => histogram[c][m] = Cardinality(Seen(c))
      BY <1>0, <1>1, <1>2 DEF CountsInv, CountsOf, Asking
    <3>2. Seen(c) = op[c][2]
      BY <1>1 DEF Seen
    <3>3. found'[c] = {m \in Reg!Modules : histogram[c][m] = Cardinality(op[c][2])}
      BY <1>0, <1>1 DEF RegistryType
    <3>4. before[c] \subseteq found'[c]
      BY <1>0, <3>1, <3>2, <3>3 DEF RegistryType
    <3>5. ASSUME NEW m \in found'[c] PROVE m \in Reg!Mapped(op[c][2])
      <4>1. /\ m \in Reg!Modules /\ histogram[c][m] = Cardinality(op[c][2])
            /\ histogram[c][m] <= Cardinality(Offering(c, m))
        BY <3>1, <3>3, <3>5
      <4>2. IsFiniteSet(op[c][2]) /\ Offering(c, m) \subseteq op[c][2]
        BY <1>0, <1>1, <1>2, <3>2, OfferingFinite DEF Offering
      <4>3. /\ Cardinality(op[c][2]) \in Nat /\ Cardinality(Offering(c, m)) \in Nat
            /\ Cardinality(Offering(c, m)) <= Cardinality(op[c][2])
        BY <4>2, FS_Subset, FS_CardinalityType
      <4>4. Cardinality(Offering(c, m)) = Cardinality(op[c][2])
        BY <4>1, <4>3
      <4>5. Offering(c, m) = op[c][2]
        BY <4>2, <4>4, FS_Subset
      <4> QED
        BY <4>1, <4>5 DEF Offering, Reg!Mapped
    <3>6. pc'[c] = "done"
      BY <1>0, <1>1 DEF RegistryType
    <3> QED
      BY <1>1, <2>1, <3>4, <3>5, <3>6 DEF CountsOf, Reg!Mapped
  <2>2. CASE d # c
    BY <1>0, <1>1, <1>2, <2>2, CountsKept DEF RegistryType, CountsInv
  <2> QED
    BY <2>1, <2>2
<1> QED
  BY <1>3, <1>4, <1>5, <1>6, <1>7 DEF RegistryInv

(* A public surrogate begins to wait for its own call, and has done so. *)
LEMMA PublicServerStep ==
    ASSUME ClientsDistinct, ModulesDistinct, RegistryInv, NEW c \in Clients, Reg!PublicServer(c)
    PROVE  RegistryInv'
<1>0. RegistryType /\ PlaceInv /\ ChildInv /\ MapInv /\ CountsInv
  BY DEF RegistryInv
<1>1. /\ op[c][1] = "surrogate"
      /\ UNCHANGED <<set, map, op, asked, histogram, before, found, sem>>
      /\ \/ /\ surrogate[c] = "notified" /\ surrogate' = [surrogate EXCEPT ![c] = "joining"]
            /\ pc' = [pc EXCEPT !["back"] = "begun"]
         \/ /\ pc["back"] \in {"done", "exists", "failed"} /\ UNCHANGED pc
            /\ surrogate[c] = "joining" /\ surrogate' = [surrogate EXCEPT ![c] = "accept"]
  BY DEF Reg!PublicServer, Reg!Turn, Reg!Goto, Reg!finding, Reg!Back
<1>2. /\ c \in Reg!All /\ "back" \in Reg!All /\ Clients \subseteq Reg!All
      /\ \A d \in Clients : d # "back" /\ pc'[d] = pc[d]
  BY <1>0, <1>1 DEF RegistryType, Reg!All, Reg!Back, ClientsDistinct
<1>3. RegistryType'
  BY <1>0, <1>1 DEF RegistryType
<1>4. PlaceInv'
  <2> SUFFICES ASSUME NEW d \in Reg!All PROVE PlaceOf(d)'
    BY Zenon DEF PlaceInv
  <2>1. pc'[d] = pc[d] \/ (d = "back" /\ pc'[d] = "begun")
    BY <1>0, <1>1, <1>2 DEF RegistryType
  <2> QED
    BY <1>0, <1>1, <2>1 DEF PlaceInv, PlaceOf, Asking
<1>5. ChildInv'
  <2>1. ASSUME NEW d \in Clients PROVE ChildOf(d)'
    <3>1. CASE d = c
      BY <1>0, <1>1, <1>2, <3>1, Kinds DEF RegistryType, PlaceInv, PlaceOf, ChildInv, ChildOf
    <3>2. CASE d # c
      BY <1>0, <1>1, <1>2, <3>2 DEF RegistryType, ChildInv, ChildOf
    <3> QED
      BY <3>1, <3>2
  <2>2. /\ pc'["back"] \in {"idle", "begun", "connect", "list", "exists"}
        /\ pc'["back"] \in {"begun", "connect", "list"} => surrogate'[c] = "joining"
    BY <1>0, <1>1, <1>2 DEF RegistryType, ChildInv
  <2> QED
    BY <2>1, <2>2 DEF ChildInv
<1>6. MapInv'
  BY <1>0, <1>1 DEF MapInv
<1>7. CountsInv'
  BY <1>0, <1>1, <1>2, CountsKept DEF CountsInv
<1> QED
  BY <1>3, <1>4, <1>5, <1>6, <1>7 DEF RegistryInv

LEMMA RegistryStep ==
    ASSUME ClientsDistinct, ModulesDistinct
    PROVE  RegistryInv /\ [Reg!Next]_registryVars => RegistryInv'
<1> SUFFICES ASSUME RegistryInv, [Reg!Next]_registryVars PROVE RegistryInv'
  OBVIOUS
<1>1. ASSUME NEW c \in Clients, Reg!Begin(c) \/ Reg!Child(c) PROVE RegistryInv'
  BY <1>1, BeginStep, ListenStep, NotifyStep, PrivateServerStep, PublicServerStep DEF Reg!Child
<1>2. ASSUME NEW c \in Reg!All, Reg!Dispatch(c) PROVE RegistryInv'
  BY <1>2, InsertStep, FindBeginStep, SurrogateStep DEF Reg!Dispatch
<1>3. ASSUME NEW c \in Reg!All, Reg!ListFails(c) PROVE FALSE
  BY <1>3, Listening DEF Reg!ListFails
<1>4. ASSUME NEW c \in Reg!All, Reg!Call(c) PROVE RegistryInv'
  BY <1>2, <1>3, <1>4, ForkStep, BarrierDownStep, ConnectStep, ListedStep, PublishStep,
     FindNameStep, FindEndStep DEF Reg!Call
<1>5. CASE UNCHANGED registryVars
  <2>1. UNCHANGED <<set, map, op, pc, asked, histogram, before, found, surrogate, sem>>
    BY <1>5 DEF registryVars
  <2>2. RegistryType' /\ PlaceInv' /\ ChildInv' /\ MapInv'
    BY <2>1 DEF RegistryInv, RegistryType, PlaceInv, PlaceOf, Asking, ChildInv, ChildOf, MapInv
  <2>3. CountsInv'
    BY <2>1, CountsKept DEF RegistryInv, CountsInv
  <2> QED
    BY <2>2, <2>3 DEF RegistryInv
<1> QED
  BY <1>1, <1>4, <1>5 DEF Reg!Next

-----------------------------------------------------------------------------
(* Files: the directories of the search path *)

Directories == {<<File!External(mount[1]), File!Crimp(mount[2])>> : mount \in Mounts}

(* A path that no directory begins stays as it is. *)
LEMMA StrippedSame ==
    ASSUME NEW path, NEW n \in Nat, \A i \in 1 .. n : File!Strip(path, mounts[i]) = path
    PROVE  File!StrippedTo(path, n) = path
<1> DEFINE f == [i \in 0 .. n |-> path]
           After == CHOOSE g : g = [i \in 0 .. n |-> IF i = 0 THEN path
                                                     ELSE File!Strip(g[i - 1], mounts[i])]
<1>1. ASSUME NEW i \in 0 .. n, i # 0
      PROVE  i \in 1 .. n /\ i - 1 \in 0 .. n
  BY <1>1
<1>2. f = [i \in 0 .. n |-> IF i = 0 THEN path ELSE File!Strip(f[i - 1], mounts[i])]
  <2>1. \A i \in 0 .. n : path = IF i = 0 THEN path ELSE File!Strip(f[i - 1], mounts[i])
    BY <1>1, Zenon
  <2> QED
    BY <2>1, Zenon
<1>3. After = [i \in 0 .. n |-> IF i = 0 THEN path ELSE File!Strip(After[i - 1], mounts[i])]
  <2> HIDE DEF f
  <2> QED
    BY <1>2
<1> HIDE DEF After
<1>4. After[n] = path
  <2> DEFINE S == {i \in 0 .. n : After[i] = path}
  <2>1. 0 \in S
    BY <1>3
  <2>2. ASSUME NEW i \in 0 .. n - 1, i \in S
        PROVE  i + 1 \in S
    <3>1. i + 1 \in 0 .. n /\ i + 1 \in 1 .. n /\ i + 1 # 0 /\ (i + 1) - 1 = i
      OBVIOUS
    <3>2. After[i + 1] = File!Strip(After[i], mounts[i + 1])
      BY <1>3, <3>1
    <3> QED
      BY <2>2, <3>1, <3>2
  <2>3. 0 .. n \subseteq S
    <3> HIDE DEF S
    <3> QED
      BY <2>1, <2>2, UpTo
  <2> QED
    BY <2>3
<1>5. File!StrippedTo(path, n) = After[n]
  BY DEF File!StrippedTo, After
<1> QED
  BY <1>4, <1>5

(* The directory that had the file is taken to the front. *)
LEMMA ToFront ==
    ASSUME NEW S, NEW s \in Seq(S), NEW m \in 1 .. Len(s)
    PROVE  /\ <<s[m]>> \o File!RemoveAt(s, m) \in Seq(S)
           /\ Len(<<s[m]>> \o File!RemoveAt(s, m)) = Len(s)
           /\ (<<s[m]>> \o File!RemoveAt(s, m))[1] = s[m]
           /\ \A k \in 1 .. m - 1 : (<<s[m]>> \o File!RemoveAt(s, m))[k + 1] = s[k]
<1> DEFINE left == SubSeq(s, 1, m - 1)
           right == SubSeq(s, m + 1, Len(s))
           rest == left \o right
           head == <<s[m]>>
<1>0. Len(s) \in Nat /\ m \in 1 .. Len(s) /\ s[m] \in S
  OBVIOUS
<1>1. /\ left \in Seq(S) /\ Len(left) = m - 1
      /\ \A n \in 1 .. m - 1 : left[n] = s[n]
  BY <1>0
<1>2. right \in Seq(S) /\ Len(right) = Len(s) - m
  BY <1>0
<1>3. File!RemoveAt(s, m) = rest
  BY DEF File!RemoveAt
<1>4. head \in Seq(S) /\ Len(head) = 1 /\ head[1] = s[m]
  BY <1>0
<1> HIDE DEF left, right, head
<1>5. /\ rest \in Seq(S) /\ Len(rest) = Len(s) - 1
      /\ \A k \in 1 .. m - 1 : rest[k] = s[k]
  <2>1. rest \in Seq(S) /\ Len(rest) = Len(left) + Len(right)
    BY <1>1, <1>2, ConcatProperties
  <2>2. Len(left) + Len(right) = Len(s) - 1
    BY <1>0, <1>1, <1>2
  <2>3. \A k \in 1 .. Len(left) : rest[k] = left[k]
    BY <1>1, <1>2, ConcatProperties
  <2> QED
    BY <1>1, <2>1, <2>2, <2>3
<1> HIDE DEF rest
<1>6. /\ head \o rest \in Seq(S) /\ Len(head \o rest) = 1 + Len(rest)
      /\ (head \o rest)[1] = s[m]
      /\ \A k \in 1 .. Len(rest) : (head \o rest)[k + 1] = rest[k]
  <2>1. head \o rest \in Seq(S) /\ Len(head \o rest) = Len(head) + Len(rest)
    BY <1>4, <1>5, ConcatProperties
  <2>2. \A k \in 1 .. Len(head) + Len(rest) :
            (head \o rest)[k] = IF k <= Len(head) THEN head[k] ELSE rest[k - Len(head)]
    BY <1>4, <1>5, ConcatProperties
  <2>3. (head \o rest)[1] = head[1]
    <3>1. 1 \in 1 .. Len(head) + Len(rest) /\ 1 <= Len(head)
      BY <1>0, <1>4, <1>5
    <3> QED
      BY <2>2, <3>1
  <2>4. ASSUME NEW k \in 1 .. Len(rest)
        PROVE  (head \o rest)[k + 1] = rest[k]
    <3>1. k + 1 \in 1 .. Len(head) + Len(rest) /\ ~ k + 1 <= Len(head) /\ (k + 1) - Len(head) = k
      BY <1>0, <1>4, <1>5
    <3> QED
      BY <2>2, <3>1
  <2> QED
    BY <1>4, <2>1, <2>3, <2>4
<1>7. ASSUME NEW k \in 1 .. m - 1
      PROVE  (head \o rest)[k + 1] = s[k]
  <2>1. k \in 1 .. Len(rest)
    BY <1>0, <1>5
  <2> QED
    BY <1>5, <1>6, <2>1
<1>8. head \o rest = <<s[m]>> \o File!RemoveAt(s, m)
  BY <1>3 DEF head
<1>9. Len(head \o rest) = Len(s)
  BY <1>0, <1>5, <1>6
<1> QED
  BY <1>6, <1>7, <1>8, <1>9

(* The last file that was found is the one that its directory, which is in *)
(* front, has of the path.                                                 *)
FilesInv ==
    /\ mounts \in Seq(Directories)
    /\ request[2] # File!Lost =>
           /\ mounts # <<>>
           /\ (\A n \in DOMAIN mounts :
                   File!Strip(File!Crimp(request[1]), mounts[n]) = File!Crimp(request[1])) =>
                  /\ request[2] = mounts[1][1] \o <<"/">> \o File!Crimp(request[1])
                  /\ File!Exists(request[2])

(* The first of the places where a path leads to a file. *)
LEMMA FirstHit ==
    ASSUME mounts \in Seq(Directories), NEW path, File!Hits(path) # {}
    PROVE  /\ File!Min(File!Hits(path)) \in File!Hits(path)
           /\ \A n \in File!Hits(path) : File!Min(File!Hits(path)) <= n
<1>1. File!Hits(path) \in SUBSET (1 .. Len(mounts)) /\ Len(mounts) \in Nat
  BY DEF File!Hits
<1>2. PICK s \in File!Hits(path) : \A n \in File!Hits(path) : s <= n
  BY <1>1, LeastExists
<1> QED
  BY <1>2 DEF File!Min

LEMMA FilesStep == FilesInv /\ [File!FilesNext]_fileVars => FilesInv'
<1> SUFFICES ASSUME FilesInv, [File!FilesNext]_fileVars
             PROVE  FilesInv'
  OBVIOUS
<1>1. ASSUME NEW mount \in Mounts, File!Insert(mount[1], mount[2])
      PROVE  FilesInv'
  <2> DEFINE d == <<File!External(mount[1]), File!Crimp(mount[2])>>
  <2>1. d \in Directories
    BY DEF Directories
  <2>2. mounts' = <<d>> \o mounts /\ request' = <<File!Lost, File!Lost>>
    BY <1>1 DEF File!Insert
  <2> HIDE DEF d
  <2>3. <<d>> \o mounts \in Seq(Directories)
    <3>1. <<d>> \in Seq(Directories) /\ mounts \in Seq(Directories)
      BY <2>1 DEF FilesInv
    <3> QED
      BY <3>1, ConcatProperties
  <2>4. request'[2] = File!Lost
    BY <2>2
  <2> QED
    BY <2>2, <2>3, <2>4 DEF FilesInv
<1>2. ASSUME NEW path \in Paths, File!Lookup(path)
      PROVE  FilesInv'
  <2>1. CASE File!Hits(path) = {}
    <3>1. mounts' = mounts /\ request' = <<path, File!Lost>>
      BY <1>2, <2>1 DEF File!Lookup
    <3>2. request'[2] = File!Lost
      BY <3>1
    <3> QED
      BY <3>1, <3>2 DEF FilesInv
  <2>2. CASE File!Hits(path) # {}
    <3> DEFINE m == File!Min(File!Hits(path))
               c == File!Crimp(path)
    <3>1. mounts' = <<mounts[m]>> \o File!RemoveAt(mounts, m) /\ request' = <<path, File!Full(path, m)>>
      BY <1>2, <2>2 DEF File!Lookup
    <3>2. mounts \in Seq(Directories)
      BY DEF FilesInv
    <3>3. m \in File!Hits(path)
      BY <2>2, <3>2, FirstHit
    <3>4. m \in 1 .. Len(mounts) /\ File!Exists(File!Full(path, m))
      BY <3>2, <3>3 DEF File!Hits
    <3> HIDE DEF m
    <3>5. /\ mounts' \in Seq(Directories) /\ Len(mounts') = Len(mounts)
          /\ mounts'[1] = mounts[m] /\ \A k \in 1 .. m - 1 : mounts'[k + 1] = mounts[k]
      BY <3>1, <3>2, <3>4, ToFront
    <3>6. mounts' # <<>> /\ DOMAIN mounts' = 1 .. Len(mounts)
      BY <3>2, <3>4, <3>5
    <3>7. ASSUME \A n \in DOMAIN mounts' : File!Strip(c, mounts'[n]) = c
          PROVE  File!Full(path, m) = mounts'[1][1] \o <<"/">> \o c
      <4>1. ASSUME NEW k \in 1 .. m
            PROVE  File!Strip(c, mounts[k]) = c
        <5>1. CASE k = m
          <6>1. 1 \in DOMAIN mounts'
            BY <3>4, <3>6
          <6> QED
            BY <3>5, <3>7, <5>1, <6>1
        <5>2. CASE k # m
          <6>1. k \in 1 .. m - 1 /\ k + 1 \in DOMAIN mounts'
            BY <3>2, <3>4, <3>6, <5>2
          <6> QED
            BY <3>5, <3>7, <6>1
        <5> QED
          BY <5>1, <5>2
      <4>2. m \in Nat
        BY <3>4
      <4>3. File!StrippedTo(c, m) = c
        BY <4>1, <4>2, StrippedSame
      <4> QED
        BY <3>5, <4>3 DEF File!Full
    <3>8. request'[1] = path /\ request'[2] = File!Full(path, m)
      BY <3>1
    <3> QED
      BY <3>4, <3>5, <3>6, <3>7, <3>8 DEF FilesInv
  <2> QED
    BY <2>1, <2>2
<1>3. CASE UNCHANGED fileVars
  BY <1>3 DEF fileVars, FilesInv
<1> QED
  BY <1>1, <1>2, <1>3 DEF File!FilesNext

(* A file that was found is found again where it was. *)
LEMMA FoundAgain == FilesInv => File!PathsFound
<1> SUFFICES ASSUME FilesInv, request[2] # File!Lost,
                    \A n \in DOMAIN mounts :
                        File!Strip(File!Crimp(request[1]), mounts[n]) = File!Crimp(request[1])
             PROVE  /\ File!Hits(request[1]) # {}
                    /\ File!Full(request[1], File!Min(File!Hits(request[1]))) = request[2]
  BY DEF File!PathsFound
<1> DEFINE p == request[1]
           c == File!Crimp(p)
<1>1. mounts \in Seq(Directories) /\ mounts # <<>>
  BY DEF FilesInv
<1>2. 1 \in DOMAIN mounts /\ DOMAIN mounts = 1 .. Len(mounts) /\ Len(mounts) \in Nat
  BY <1>1
<1>3. request[2] = mounts[1][1] \o <<"/">> \o c /\ File!Exists(request[2])
  BY DEF FilesInv
<1>4. File!Full(p, 1) = request[2]
  <2>1. \A i \in 1 .. 1 : File!Strip(c, mounts[i]) = c
    BY <1>2
  <2>2. File!StrippedTo(c, 1) = c
    BY <2>1, StrippedSame
  <2> QED
    BY <1>3, <2>2 DEF File!Full
<1>5. 1 \in File!Hits(p)
  BY <1>2, <1>3, <1>4 DEF File!Hits
<1>6. File!Min(File!Hits(p)) = 1
  <2>1. File!Min(File!Hits(p)) \in File!Hits(p) /\ File!Min(File!Hits(p)) <= 1
    BY <1>1, <1>5, FirstHit
  <2>2. File!Min(File!Hits(p)) \in 1 .. Len(mounts)
    BY <1>2, <2>1 DEF File!Hits
  <2> QED
    BY <1>2, <2>1, <2>2
<1> QED
  BY <1>4, <1>5, <1>6

-----------------------------------------------------------------------------
(* Facades: a module of the registry, and its nameservice *)

Increasing(s) == \A i, j \in 1 .. Len(s) : i < j => s[i] < s[j]

LEMMA FacadeCounts == \A S : Facade!Cardinality(S) = Cardinality(S)
BY DEF Facade!Cardinality, Cardinality

(* What is less than a name is what is before its place. *)
LEMMA BelowIs ==
    ASSUME NEW s \in Seq(Nat), Increasing(s), NEW x \in Nat
    PROVE  /\ Facade!LowerBound(s, x) \in 1 .. Len(s) + 1
           /\ \A i \in 1 .. Len(s) : s[i] < x <=> i < Facade!LowerBound(s, x)
<1> DEFINE B == {i \in DOMAIN s : s[i] < x}
           C == {i \in 1 .. Len(s) : ~ s[i] < x}
<1>0. Len(s) \in Nat /\ DOMAIN s = 1 .. Len(s) /\ \A i \in 1 .. Len(s) : s[i] \in Nat
  OBVIOUS
<1>1. \E k \in 1 .. Len(s) + 1 : \A i \in 1 .. Len(s) : s[i] < x <=> i < k
  <2>1. CASE C = {}
    <3>1. Len(s) + 1 \in 1 .. Len(s) + 1
      BY <1>0
    <3>2. \A i \in 1 .. Len(s) : s[i] < x <=> i < Len(s) + 1
      BY <1>0, <2>1
    <3> QED
      BY <3>1, <3>2
  <2>2. CASE C # {}
    <3>1. PICK k \in C : \A r \in C : k <= r
      <4>1. C \in SUBSET (1 .. Len(s))
        OBVIOUS
      <4> HIDE DEF C
      <4> QED
        BY <1>0, <2>2, <4>1, LeastExists
    <3>2. ASSUME NEW i \in 1 .. Len(s)
          PROVE  s[i] < x <=> i < k
      <4>1. CASE i < k
        BY <1>0, <3>1, <4>1
      <4>2. CASE i = k
        BY <1>0, <4>2
      <4>3. CASE i > k
        <5>1. s[k] < s[i] /\ ~ s[k] < x
          BY <1>0, <4>3 DEF Increasing
        <5> QED
          BY <1>0, <4>3, <5>1
      <4> QED
        BY <1>0, <4>1, <4>2, <4>3
    <3>3. k \in 1 .. Len(s) + 1
      BY <1>0
    <3> QED
      BY <3>2, <3>3
  <2> QED
    BY <2>1, <2>2
<1>2. PICK k \in 1 .. Len(s) + 1 : \A i \in 1 .. Len(s) : s[i] < x <=> i < k
  BY <1>1
<1>3. B = 1 .. k - 1
  BY <1>0, <1>2
<1>4. Cardinality(1 .. k - 1) = k - 1
  <2>1. 1 \in Int /\ k - 1 \in Int /\ k >= 1
    BY <1>0
  <2>2. Cardinality(1 .. k - 1) = IF 1 > k - 1 THEN 0 ELSE (k - 1) - 1 + 1
    BY <2>1, FS_Interval
  <2> QED
    BY <2>1, <2>2
<1>5. Facade!LowerBound(s, x) = 1 + Cardinality(B)
  BY FacadeCounts DEF Facade!LowerBound
<1>6. Facade!LowerBound(s, x) = k
  <2>1. Cardinality(B) = k - 1
    BY <1>3, <1>4, Zenon
  <2> HIDE DEF B
  <2> QED
    BY <1>0, <1>5, <2>1
<1> QED
  BY <1>2, <1>6

(* A sequence with an element put in at i. *)
LEMMA PutIn ==
    ASSUME NEW S, NEW s \in Seq(S), NEW e \in S, NEW i \in 1 .. Len(s) + 1
    PROVE  /\ Facade!InsertAt(s, i, e) \in Seq(S)
           /\ Len(Facade!InsertAt(s, i, e)) = Len(s) + 1
           /\ \A k \in 1 .. Len(s) + 1 :
                  Facade!InsertAt(s, i, e)[k] = IF k < i THEN s[k] ELSE IF k = i THEN e ELSE s[k - 1]
<1> DEFINE left == SubSeq(s, 1, i - 1)
           right == SubSeq(s, i, Len(s))
           middle == <<e>>
           most == left \o middle
           all == most \o right
<1>0. Len(s) \in Nat /\ i \in 1 .. Len(s) + 1
  OBVIOUS
<1>1. /\ left \in Seq(S) /\ Len(left) = i - 1
      /\ \A n \in 1 .. i - 1 : left[n] = s[n]
  BY <1>0
<1>2. /\ right \in Seq(S) /\ Len(right) = Len(s) - i + 1
      /\ \A n \in 1 .. Len(s) - i + 1 : right[n] = s[i + n - 1]
  BY <1>0
<1>3. middle \in Seq(S) /\ Len(middle) = 1 /\ middle[1] = e
  OBVIOUS
<1>4. Facade!InsertAt(s, i, e) = all
  BY DEF Facade!InsertAt
<1> HIDE DEF left, right, middle
<1>5. /\ most \in Seq(S) /\ Len(most) = i
      /\ \A k \in 1 .. i : most[k] = IF k < i THEN s[k] ELSE e
  <2>1. most \in Seq(S) /\ Len(most) = Len(left) + Len(middle)
    BY <1>1, <1>3, ConcatProperties
  <2>2. \A k \in 1 .. Len(left) + Len(middle) :
            most[k] = IF k <= Len(left) THEN left[k] ELSE middle[k - Len(left)]
    BY <1>1, <1>3, ConcatProperties
  <2> HIDE DEF most
  <2>3. ASSUME NEW k \in 1 .. i
        PROVE  most[k] = IF k < i THEN s[k] ELSE e
    <3>1. /\ k \in 1 .. Len(left) + Len(middle)
          /\ k < i <=> k <= Len(left)
          /\ k < i => k \in 1 .. i - 1
          /\ ~ k < i => k - Len(left) = 1
      BY <1>0, <1>1, <1>3
    <3> QED
      BY <1>1, <1>3, <2>2, <3>1
  <2> QED
    BY <1>0, <1>1, <1>3, <2>1, <2>3
<1> HIDE DEF most
<1>6. /\ all \in Seq(S) /\ Len(all) = Len(s) + 1
      /\ \A k \in 1 .. Len(s) + 1 : all[k] = IF k <= i THEN most[k] ELSE right[k - i]
  <2>1. all \in Seq(S) /\ Len(all) = Len(most) + Len(right)
    BY <1>2, <1>5, ConcatProperties
  <2>2. \A k \in 1 .. Len(most) + Len(right) :
            all[k] = IF k <= Len(most) THEN most[k] ELSE right[k - Len(most)]
    BY <1>2, <1>5, ConcatProperties
  <2>3. Len(most) + Len(right) = Len(s) + 1
    BY <1>0, <1>2, <1>5
  <2> HIDE DEF all
  <2> QED
    BY <1>5, <2>1, <2>2, <2>3
<1> HIDE DEF all
<1>7. ASSUME NEW k \in 1 .. Len(s) + 1
      PROVE  all[k] = IF k < i THEN s[k] ELSE IF k = i THEN e ELSE s[k - 1]
  <2>1. CASE k <= i
    <3>1. k \in 1 .. i /\ (~ k < i => k = i)
      BY <1>0, <2>1
    <3> QED
      BY <1>5, <1>6, <2>1, <3>1
  <2>2. CASE ~ k <= i
    <3>1. k - i \in 1 .. Len(s) - i + 1 /\ i + (k - i) - 1 = k - 1 /\ ~ k < i /\ k # i
      BY <1>0, <2>2
    <3>2. right[k - i] = s[i + (k - i) - 1]
      BY <1>2, <3>1
    <3> QED
      BY <1>6, <2>2, <3>1, <3>2
  <2> QED
    BY <2>1, <2>2
<1> QED
  BY <1>4, <1>6, <1>7

(* A name that is put in its place keeps the names in their order. *)
LEMMA PutInOrder ==
    ASSUME NEW s \in Seq(Nat), Increasing(s), NEW x \in Nat, \A i \in 1 .. Len(s) : s[i] # x,
           NEW k \in 1 .. Len(s) + 1, \A i \in 1 .. Len(s) : s[i] < x <=> i < k
    PROVE  Increasing(Facade!InsertAt(s, k, x))
<1> DEFINE t == Facade!InsertAt(s, k, x)
<1>1. k \in 1 .. Len(s) + 1 /\ \A i \in 1 .. Len(s) : s[i] < x <=> i < k
  OBVIOUS
<1>2. /\ Len(t) = Len(s) + 1
      /\ \A i \in 1 .. Len(s) + 1 : t[i] = IF i < k THEN s[i] ELSE IF i = k THEN x ELSE s[i - 1]
  <2> DEFINE N == Nat
  <2>1. s \in Seq(N) /\ x \in N /\ k \in 1 .. Len(s) + 1
    OBVIOUS
  <2> HIDE DEF N
  <2>2. /\ Facade!InsertAt(s, k, x) \in Seq(N)
        /\ Len(Facade!InsertAt(s, k, x)) = Len(s) + 1
        /\ \A i \in 1 .. Len(s) + 1 :
               Facade!InsertAt(s, k, x)[i]
                   = IF i < k THEN s[i] ELSE IF i = k THEN x ELSE s[i - 1]
    <3> HIDE DEF t
    <3> QED
      BY ONLY <2>1, PutIn
  <2> QED
    BY <2>2
<1>3. Len(s) \in Nat /\ \A i \in 1 .. Len(s) : s[i] \in Nat /\ s[i] # x
  OBVIOUS
<1> HIDE DEF t
<1>4. ASSUME NEW i \in 1 .. Len(s) + 1, NEW j \in 1 .. Len(s) + 1, i < j
      PROVE  t[i] < t[j]
  <2>1. CASE j < k
    <3>1. i < k /\ i \in 1 .. Len(s) /\ j \in 1 .. Len(s)
      BY <1>1, <1>3, <1>4, <2>1
    <3> QED
      BY <1>2, <1>4, <2>1, <3>1 DEF Increasing
  <2>2. CASE j = k
    <3>1. i < k /\ i \in 1 .. Len(s) /\ ~ j < k
      BY <1>1, <1>3, <1>4, <2>2
    <3>2. t[i] = s[i] /\ t[j] = x
      BY <1>2, <2>2, <3>1
    <3> QED
      BY <1>1, <3>1, <3>2
  <2>3. CASE j > k
    <3>1. j - 1 \in 1 .. Len(s) /\ ~ j - 1 < k /\ ~ j < k /\ j # k
      BY <1>1, <1>3, <2>3
    <3>2. t[j] = s[j - 1] /\ s[j - 1] > x
      BY <1>1, <1>2, <1>3, <3>1
    <3>3. CASE i < k
      <4>1. i \in 1 .. Len(s) /\ i < j - 1
        BY <1>1, <1>3, <2>3, <3>3
      <4> QED
        BY <1>2, <3>1, <3>2, <3>3, <4>1 DEF Increasing
    <3>4. CASE i = k
      BY <1>1, <1>2, <1>3, <3>2, <3>4
    <3>5. CASE i > k
      <4>1. i - 1 \in 1 .. Len(s) /\ i - 1 < j - 1 /\ ~ i < k /\ i # k
        BY <1>1, <1>3, <1>4, <3>5
      <4> QED
        BY <1>2, <3>1, <3>2, <4>1 DEF Increasing
    <3> QED
      BY <1>1, <3>3, <3>4, <3>5
  <2> QED
    BY <1>1, <2>1, <2>2, <2>3
<1> QED
  BY <1>2, <1>4 DEF t, Increasing

(* The loop of supports: after n names, what it has met of the interface   *)
(* are the first elements, all among those names; and none of the others   *)
(* is, when every element is among all of the names.                       *)
LEMMA FollowsAll ==
    ASSUME NEW ns \in Seq(Nat), Increasing(ns), NEW fs \in Seq(Nat), Increasing(fs)
    PROVE  Facade!Follows(ns, fs) <=> \A k \in 1 .. Len(fs) : \E i \in 1 .. Len(ns) : ns[i] = fs[k]
<1> DEFINE L == Len(ns)
           V == 0 .. Len(fs)
           Next(n, m) == IF m < Len(fs) /\ ns[n] = fs[m + 1] THEN m + 1 ELSE m
           goes == [n \in 1 .. L |-> [m \in V |-> Next(n, m)]]
           Met == CHOOSE g : g = [n \in 0 .. L |->
                                     IF n = 0 THEN 0
                                     ELSE IF g[n - 1] < Len(fs) /\ ns[n] = fs[g[n - 1] + 1]
                                          THEN g[n - 1] + 1 ELSE g[n - 1]]
           All == \A k \in 1 .. Len(fs) : \E i \in 1 .. L : ns[i] = fs[k]
<1>0. /\ L \in Nat /\ Len(fs) \in Nat /\ 0 \in V
      /\ \A i \in 1 .. L : ns[i] \in Nat
      /\ \A k \in 1 .. Len(fs) : fs[k] \in Nat
  OBVIOUS
<1>1. goes \in [1 .. L -> [V -> V]]
  <2>1. \A n \in 1 .. L, m \in V : Next(n, m) \in V
    BY <1>0
  <2> QED
    BY <2>1
<1>2. PICK f : Recurs(f, L, V, 0, goes)
  <2> HIDE DEF goes, L, V
  <2> QED
    BY <1>0, <1>1, Recursion, Zenon
<1>3. ASSUME NEW n \in 1 .. L
      PROVE  f[n] = Next(n, f[n - 1])
  <2>1. f[n - 1] \in V
    <3>1. n - 1 \in 0 .. L
      BY <1>0
    <3> HIDE DEF goes, L, V
    <3> QED
      BY <1>2, <3>1 DEF Recurs
  <2>2. f[n] = goes[n][f[n - 1]]
    BY <1>2 DEF Recurs
  <2> QED
    BY <2>1, <2>2
<1>4. f = [n \in 0 .. L |-> IF n = 0 THEN 0
                           ELSE IF f[n - 1] < Len(fs) /\ ns[n] = fs[f[n - 1] + 1]
                                THEN f[n - 1] + 1 ELSE f[n - 1]]
  <2>1. f \in [0 .. L -> V] /\ f[0] = 0
    BY <1>2 DEF Recurs
  <2>2. \A n \in 0 .. L : n # 0 => n \in 1 .. L
    BY <1>0
  <2> HIDE DEF L, V
  <2>3. \A n \in 0 .. L : f[n] = IF n = 0 THEN 0
                                 ELSE IF f[n - 1] < Len(fs) /\ ns[n] = fs[f[n - 1] + 1]
                                      THEN f[n - 1] + 1 ELSE f[n - 1]
    BY <1>3, <2>1, <2>2, Zenon
  <2> QED
    BY <2>1, <2>3, Zenon
<1>5. Met = [n \in 0 .. L |-> IF n = 0 THEN 0
                             ELSE IF Met[n - 1] < Len(fs) /\ ns[n] = fs[Met[n - 1] + 1]
                                  THEN Met[n - 1] + 1 ELSE Met[n - 1]]
  <2> HIDE DEF L
  <2> QED
    BY <1>4
<1> HIDE DEF Met
<1>6. Facade!Follows(ns, fs) <=> Met[L] = Len(fs)
  BY DEF Facade!Follows, Met
<1>7. Met[0] = 0 /\ \A n \in 1 .. L : Met[n] = Next(n, Met[n - 1])
  <2>1. 0 \in 0 .. L /\ \A n \in 1 .. L : n \in 0 .. L /\ n # 0
    BY <1>0
  <2> HIDE DEF L
  <2> QED
    BY <1>5, <2>1, Zenon
<1> HIDE DEF All, L, V
<1> DEFINE Among(n, k) == \E i \in 1 .. n : ns[i] = fs[k]
           Good(n) == /\ Met[n] \in V
                      /\ \A k \in 1 .. Len(fs) : k <= Met[n] => Among(n, k)
                      /\ All => \A k \in 1 .. Len(fs) : k > Met[n] => ~ Among(n, k)
           S == {n \in 0 .. L : Good(n)}
<1>8. 0 \in S
  <2>1. \A k \in 1 .. Len(fs) : ~ k <= 0
    BY <1>0
  <2> QED
    BY <1>0, <1>7, <2>1
<1>9. ASSUME NEW n \in 0 .. L - 1, n \in S
      PROVE  n + 1 \in S
  <2> DEFINE m == Met[n]
             e == n + 1
  <2>1. e \in 1 .. L /\ e - 1 = n /\ e \in 0 .. L /\ m \in V /\ m \in Nat /\ m <= Len(fs)
    BY <1>0, <1>9 DEF V
  <2>2. /\ \A k \in 1 .. Len(fs) : k <= m => Among(n, k)
        /\ All => \A k \in 1 .. Len(fs) : k > m => ~ Among(n, k)
    BY <1>9
  <2>3. Met[e] = Next(e, m)
    BY <1>7, <2>1
  <2>4. \A k \in 1 .. Len(fs) : Among(e, k) <=> Among(n, k) \/ ns[e] = fs[k]
    <3>1. \A i : i \in 1 .. e <=> i \in 1 .. n \/ i = e
      BY <1>0, <2>1
    <3> QED
      BY <3>1
  <2> HIDE DEF m, e, Among
  <2>5. CASE m < Len(fs) /\ ns[e] = fs[m + 1]
    <3>1. Met[e] = m + 1 /\ m + 1 \in V /\ m + 1 \in 1 .. Len(fs)
      BY <1>0, <2>1, <2>3, <2>5 DEF V
    <3>2. ASSUME NEW k \in 1 .. Len(fs), k <= m + 1
          PROVE  Among(e, k)
      <4>1. k <= m \/ k = m + 1
        BY <1>0, <2>1, <3>2
      <4> QED
        BY <2>2, <2>4, <2>5, <4>1
    <3>3. ASSUME All, NEW k \in 1 .. Len(fs), k > m + 1
          PROVE  ~ Among(e, k)
      <4>1. k > m
        BY <1>0, <2>1, <3>3
      <4>2. fs[m + 1] < fs[k]
        BY <3>1, <3>3 DEF Increasing
      <4>3. ns[e] # fs[k]
        BY <1>0, <2>5, <3>1, <4>2
      <4> QED
        BY <2>2, <2>4, <3>3, <4>1, <4>3
    <3> QED
      BY <2>1, <3>1, <3>2, <3>3 DEF e
  <2>6. CASE ~ (m < Len(fs) /\ ns[e] = fs[m + 1])
    <3>1. Met[e] = m
      BY <2>3, <2>6
    <3>2. \A k \in 1 .. Len(fs) : k <= m => Among(e, k)
      BY <2>2, <2>4
    <3>3. ASSUME All, NEW k \in 1 .. Len(fs), k > m
          PROVE  ~ Among(e, k)
      <4>1. SUFFICES ASSUME ns[e] = fs[k]
                     PROVE  FALSE
        BY <2>2, <2>4, <3>3
      <4>2. m < Len(fs) /\ m + 1 \in 1 .. Len(fs) /\ k # m + 1 /\ m + 1 < k /\ m + 1 > m
        BY <1>0, <2>1, <2>6, <3>3, <4>1
      <4>3. PICK i \in 1 .. L : ns[i] = fs[m + 1]
        BY <3>3, <4>2 DEF All
      <4>4. ns[i] < ns[e]
        BY <4>1, <4>2, <4>3 DEF Increasing
      <4>5. ~ i = e /\ ~ e < i
        <5>1. e < i => ns[e] < ns[i]
          BY <2>1 DEF Increasing, L
        <5> QED
          BY <1>0, <2>1, <4>4, <5>1
      <4>6. i \in 1 .. n
        BY <1>0, <2>1, <4>5
      <4>7. Among(n, m + 1)
        BY <4>3, <4>6 DEF Among
      <4> QED
        BY <2>2, <3>3, <4>2, <4>7
    <3> QED
      BY <2>1, <3>1, <3>2, <3>3 DEF e
  <2> QED
    BY <2>5, <2>6
<1>10. Good(L)
  <2>1. 0 .. L \subseteq S
    <3> HIDE DEF S
    <3> QED
      BY <1>0, <1>8, <1>9, UpTo
  <2>2. L \in 0 .. L
    BY <1>0
  <2> QED
    BY <2>1, <2>2
<1>11. Met[L] = Len(fs) <=> All
  <2>1. ASSUME Met[L] = Len(fs)
        PROVE  All
    <3>1. \A k \in 1 .. Len(fs) : k <= Met[L]
      BY <1>0, <2>1
    <3> QED
      BY <1>10, <3>1 DEF All
  <2>2. ASSUME All, Met[L] # Len(fs)
        PROVE  FALSE
    <3>1. Len(fs) \in 1 .. Len(fs) /\ Len(fs) > Met[L]
      BY <1>0, <1>10, <2>2 DEF V
    <3> QED
      BY <1>10, <2>2, <3>1 DEF All
  <2> QED
    BY <2>1, <2>2
<1> QED
  BY <1>6, <1>11 DEF All, L

(* The vectors of a module are the same, in the order of the names; those  *)
(* of the nameservice are the same, and the map leads to a place of each   *)
(* name that is in them.                                                   *)
BoardInv ==
    /\ board \in Seq(FunctionNames) /\ nsdocs = board
    /\ nsmap \in [FunctionNames -> Nat]
    /\ \A n \in FunctionNames : nsmap[n] # Facade!Missing =>
           /\ nsmap[n] - Facade!Adjust + 1 \in 1 .. Len(board)
           /\ board[nsmap[n] - Facade!Adjust + 1] = n
    /\ \A i \in 1 .. Len(board) : nsmap[board[i]] # Facade!Missing

FacadeInv ==
    /\ names \in Seq(FunctionNames) /\ Increasing(names)
    /\ docs = names /\ locals = names /\ remotes = names /\ scripts = names
    /\ copied \in Nat
    /\ BoardInv

(* A name that is added to the nameservice is the last. *)
LEMMA BoardGrows ==
    ASSUME BoardInv, NEW n \in FunctionNames, Facade!InsertDirect(n, n, n)
    PROVE  BoardInv'
<1> DEFINE last == Facade!Adjust + Len(board)
<1>1. /\ board \in Seq(FunctionNames) /\ Len(board) \in Nat /\ nsdocs = board
      /\ nsmap \in [FunctionNames -> Nat]
  BY DEF BoardInv
<1>2. /\ board' = Append(board, n)
      /\ nsdocs' = Facade!InsertAt(nsdocs, Len(board) + 1, n)
      /\ nsmap' = IF nsmap[n] = Facade!Missing THEN [nsmap EXCEPT ![n] = last] ELSE nsmap
  <2>1. (Facade!Adjust + Len(board)) - Facade!Adjust + 1 = Len(board) + 1
    BY <1>1 DEF Facade!Adjust
  <2> QED
    BY <2>1 DEF Facade!InsertDirect
<1>3. /\ board' \in Seq(FunctionNames) /\ Len(board') = Len(board) + 1
      /\ board'[Len(board) + 1] = n
      /\ \A i \in 1 .. Len(board) : board'[i] = board[i]
  BY <1>1, <1>2
<1>4. nsdocs' = board'
  <2>1. Len(board) + 1 \in 1 .. Len(board) + 1
    BY <1>1
  <2>2. /\ nsdocs' \in Seq(FunctionNames) /\ Len(nsdocs') = Len(board) + 1
        /\ \A k \in 1 .. Len(board) + 1 :
               nsdocs'[k] = IF k < Len(board) + 1 THEN board[k]
                            ELSE IF k = Len(board) + 1 THEN n ELSE board[k - 1]
    <3> DEFINE i == Len(board) + 1
    <3>1. n \in FunctionNames /\ board \in Seq(FunctionNames)
      BY <1>1
    <3>2. i \in 1 .. Len(board) + 1
      BY <2>1
    <3> HIDE DEF i
    <3>3. /\ Facade!InsertAt(board, i, n) \in Seq(FunctionNames)
          /\ Len(Facade!InsertAt(board, i, n)) = Len(board) + 1
          /\ \A k \in 1 .. Len(board) + 1 :
                 Facade!InsertAt(board, i, n)[k]
                     = IF k < i THEN board[k] ELSE IF k = i THEN n ELSE board[k - 1]
      BY ONLY <3>1, <3>2, PutIn
    <3>4. nsdocs' = Facade!InsertAt(board, i, n)
      BY <1>1, <1>2 DEF i
    <3> QED
      BY <3>3, <3>4, Zenon DEF i
  <2>3. \A k \in 1 .. Len(board) + 1 : nsdocs'[k] = board'[k]
    <3>1. \A k \in 1 .. Len(board) + 1 :
              \/ k \in 1 .. Len(board) /\ k < Len(board) + 1
              \/ k = Len(board) + 1 /\ ~ k < Len(board) + 1
      BY <1>1
    <3> QED
      BY <1>3, <2>2, <3>1
  <2> QED
    BY <1>3, <2>2, <2>3, SeqEqual
<1>5. last \in Nat /\ last # Facade!Missing /\ last - Facade!Adjust + 1 = Len(board) + 1
  BY <1>1 DEF Facade!Adjust, Facade!Missing
<1> HIDE DEF last
<1>6. /\ nsmap' \in [FunctionNames -> Nat]
      /\ \A m \in FunctionNames : \/ nsmap'[m] = nsmap[m] /\ (m = n => nsmap[m] # Facade!Missing)
                                  \/ m = n /\ nsmap'[m] = last
      /\ \A m \in FunctionNames : nsmap[m] # Facade!Missing => nsmap'[m] = nsmap[m]
  BY <1>1, <1>2, <1>5
<1>7. ASSUME NEW m \in FunctionNames, nsmap'[m] # Facade!Missing
      PROVE  /\ nsmap'[m] - Facade!Adjust + 1 \in 1 .. Len(board')
             /\ board'[nsmap'[m] - Facade!Adjust + 1] = m
  <2>1. CASE nsmap'[m] = nsmap[m]
    <3>1. /\ nsmap[m] - Facade!Adjust + 1 \in 1 .. Len(board)
          /\ board[nsmap[m] - Facade!Adjust + 1] = m
      BY <1>7, <2>1 DEF BoardInv
    <3>2. nsmap[m] - Facade!Adjust + 1 \in 1 .. Len(board')
      BY <1>1, <1>3, <3>1
    <3> QED
      BY <1>3, <2>1, <3>1, <3>2
  <2>2. CASE m = n /\ nsmap'[m] = last
    <3>1. Len(board) + 1 \in 1 .. Len(board')
      BY <1>1, <1>3
    <3> QED
      BY <1>3, <1>5, <2>2, <3>1
  <2> QED
    BY <1>6, <2>1, <2>2
<1>8. ASSUME NEW i \in 1 .. Len(board')
      PROVE  nsmap'[board'[i]] # Facade!Missing
  <2>1. i \in 1 .. Len(board) \/ i = Len(board) + 1
    BY <1>1, <1>3
  <2>2. CASE i \in 1 .. Len(board)
    <3>1. board'[i] = board[i] /\ board[i] \in FunctionNames /\ nsmap[board[i]] # Facade!Missing
      BY <1>1, <1>3, <2>2 DEF BoardInv
    <3> QED
      BY <1>6, <3>1
  <2>3. CASE i = Len(board) + 1
    BY <1>3, <1>5, <1>6, <2>3
  <2> QED
    BY <2>1, <2>2, <2>3
<1> QED
  BY <1>3, <1>4, <1>6, <1>7, <1>8 DEF BoardInv

LEMMA FacadeStep == FacadeInv /\ [Facade!Next]_facadeVars => FacadeInv'
<1> SUFFICES ASSUME FacadeInv, [Facade!Next]_facadeVars
             PROVE  FacadeInv'
  OBVIOUS
<1>0. FunctionNames \subseteq Nat
  BY ServicesAssumption DEF NamesOrdered
<1>1. names \in Seq(FunctionNames) /\ names \in Seq(Nat) /\ Len(names) \in Nat
  <2>1. names \in Seq(FunctionNames)
    BY DEF FacadeInv
  <2>2. names \in Seq(Nat)
    BY ONLY <1>0, <2>1, SeqMonotonic
  <2> QED
    BY <2>1, <2>2
<1>2. ASSUME NEW n \in FunctionNames, Facade!BuilderInsert(n)
      PROVE  FacadeInv'
  <2> DEFINE k == Facade!LowerBound(names, n)
  <2>1. /\ n \notin Facade!Range(names)
        /\ names' = Facade!InsertAt(names, k, n) /\ docs' = Facade!InsertAt(docs, k, n)
        /\ locals' = Facade!InsertAt(locals, k, n) /\ remotes' = Facade!InsertAt(remotes, k, n)
        /\ scripts' = Facade!InsertAt(scripts, k, n)
        /\ UNCHANGED <<board, nsdocs, nsmap, copied>>
    BY <1>2 DEF Facade!BuilderInsert, Facade!ScriptInsert, Facade!nameservice
  <2>2. k \in 1 .. Len(names) + 1 /\ \A i \in 1 .. Len(names) : names[i] < n <=> i < k
    BY <1>0, <1>1, BelowIs DEF FacadeInv
  <2> HIDE DEF k
  <2>3. names' \in Seq(FunctionNames)
    BY ONLY <1>1, <1>2, <2>1, <2>2, PutIn
  <2>4. \A i \in 1 .. Len(names) : names[i] # n
    BY <1>1, <2>1 DEF Facade!Range
  <2>5. Increasing(Facade!InsertAt(names, k, n))
    BY <1>0, <1>1, <2>2, <2>4, PutInOrder DEF FacadeInv
  <2>6. Increasing(names)'
    BY <2>1, <2>5 DEF Increasing
  <2>7. /\ docs' = names' /\ locals' = names' /\ remotes' = names' /\ scripts' = names'
        /\ copied' \in Nat
    BY <2>1 DEF FacadeInv
  <2>8. BoardInv'
    BY <2>1 DEF FacadeInv, BoardInv
  <2> QED
    BY <2>3, <2>6, <2>7, <2>8 DEF FacadeInv
<1>3. ASSUME UNCHANGED <<names, docs, locals, remotes, scripts>>, copied' \in Nat, BoardInv'
      PROVE  FacadeInv'
  BY <1>3 DEF FacadeInv, Increasing
<1>4. CASE Facade!Copy
  <2>1. /\ UNCHANGED <<names, docs, locals, remotes, scripts>> /\ copied' = copied + 1
        /\ Facade!InsertDirect(names[copied + 1], locals[copied + 1], docs[copied + 1])
        /\ copied < Len(names)
    BY <1>4 DEF Facade!Copy, Facade!module
  <2>2. copied \in Nat /\ locals = names /\ docs = names /\ BoardInv
    BY DEF FacadeInv
  <2>3. names[copied + 1] \in FunctionNames
    BY <1>1, <2>1, <2>2
  <2>4. BoardInv'
    BY <2>1, <2>2, <2>3, BoardGrows
  <2>5. copied' \in Nat
    BY <2>1, <2>2
  <2> QED
    BY <1>3, <2>1, <2>4, <2>5
<1>5. ASSUME NEW n \in FunctionNames, Facade!Insert(n)
      PROVE  FacadeInv'
  <2>1. /\ UNCHANGED <<names, docs, locals, remotes, scripts, copied>>
        /\ Facade!InsertDirect(n, n, n)
    BY <1>5 DEF Facade!Insert, Facade!module
  <2>2. BoardInv /\ copied \in Nat
    BY DEF FacadeInv
  <2>3. BoardInv'
    BY <2>1, <2>2, BoardGrows
  <2> QED
    BY <1>3, <2>1, <2>2, <2>3
<1>6. CASE Facade!Built \/ UNCHANGED facadeVars
  <2>1. UNCHANGED <<names, docs, locals, remotes, scripts, board, nsdocs, nsmap, copied>>
    BY <1>6 DEF Facade!Built, Facade!module, Facade!nameservice, facadeVars
  <2>2. BoardInv' /\ copied' \in Nat
    BY <2>1 DEF FacadeInv, BoardInv
  <2> QED
    BY <1>3, <2>1, <2>2
<1> QED
  BY <1>2, <1>4, <1>5, <1>6 DEF Facade!Next


(* The place of a name that is there is where it is. *)
LEMMA PlaceOfName ==
    ASSUME NEW s \in Seq(Nat), Increasing(s), NEW k \in 1 .. Len(s)
    PROVE  Facade!LowerBound(s, s[k]) = k
<1>1. Len(s) \in Nat /\ s[k] \in Nat
  OBVIOUS
<1> DEFINE lb == Facade!LowerBound(s, s[k])
<1>2. lb \in 1 .. Len(s) + 1 /\ \A i \in 1 .. Len(s) : s[i] < s[k] <=> i < lb
  BY <1>1, BelowIs
<1> HIDE DEF lb
<1>3. ~ k < lb
  BY <1>1, <1>2
<1>4. ~ lb < k
  <2>1. SUFFICES ASSUME lb < k
                 PROVE  FALSE
    OBVIOUS
  <2>2. lb \in 1 .. Len(s) /\ s[lb] < s[k]
    BY <1>1, <1>2, <2>1 DEF Increasing
  <2> QED
    BY <1>2, <2>2
<1>5. lb = k
  BY <1>1, <1>2, <1>3, <1>4
<1> QED
  BY <1>5 DEF lb

(* What the loop goes along is the names from the first of the interface,  *)
(* which no other of it comes before.                                      *)
LEMMA SupportsAll ==
    ASSUME NEW f \in Seq(Nat), f # <<>>, Increasing(f), names \in Seq(Nat), Increasing(names)
    PROVE  Facade!LocalSupports(f)
               <=> \A k \in 1 .. Len(f) : \E j \in 1 .. Len(names) : names[j] = f[k]
<1>1. /\ Len(f) \in Nat /\ 1 \in 1 .. Len(f) /\ Head(f) = f[1]
      /\ Len(names) \in Nat /\ \A j \in 1 .. Len(names) : names[j] \in Nat
      /\ \A k \in 1 .. Len(f) : f[k] \in Nat
  OBVIOUS
<1> DEFINE lb == Facade!LowerBound(names, f[1])
           ns == SubSeq(names, lb, Len(names))
<1>2. lb \in 1 .. Len(names) + 1 /\ \A i \in 1 .. Len(names) : names[i] < f[1] <=> i < lb
  BY <1>1, BelowIs
<1>3. Facade!LocalSupports(f) <=> Facade!Follows(ns, f)
  BY <1>1 DEF Facade!LocalSupports
<1> HIDE DEF lb
<1>4. /\ ns \in Seq(Nat) /\ Len(ns) = Len(names) - lb + 1
      /\ \A i \in 1 .. Len(names) - lb + 1 : ns[i] = names[lb + i - 1]
  <2>1. /\ lb \in Int /\ Len(names) \in Int /\ (~ lb <= Len(names) => Len(names) - lb + 1 = 0)
        /\ \A i \in lb .. Len(names) : names[i] \in Nat
    BY <1>1, <1>2
  <2>2. /\ SubSeq(names, lb, Len(names)) \in Seq(Nat)
        /\ Len(SubSeq(names, lb, Len(names))) = IF lb <= Len(names) THEN Len(names) - lb + 1 ELSE 0
        /\ \A i \in 1 .. Len(names) - lb + 1 :
               SubSeq(names, lb, Len(names))[i] = names[lb + i - 1]
    BY ONLY <2>1, SubSeqProperties
  <2> QED
    BY <2>1, <2>2
<1> HIDE DEF ns
<1>5. Increasing(ns)
  <2>1. SUFFICES ASSUME NEW i \in 1 .. Len(ns), NEW j \in 1 .. Len(ns), i < j
                 PROVE  ns[i] < ns[j]
    BY DEF Increasing
  <2>2. /\ lb + i - 1 \in 1 .. Len(names) /\ lb + j - 1 \in 1 .. Len(names)
        /\ lb + i - 1 < lb + j - 1
    BY <1>1, <1>2, <1>4, <2>1
  <2>3. names[lb + i - 1] < names[lb + j - 1]
    BY <2>2 DEF Increasing
  <2>4. i \in 1 .. Len(names) - lb + 1 /\ j \in 1 .. Len(names) - lb + 1
    BY <1>4
  <2> QED
    BY <1>4, <2>3, <2>4
<1>6. Facade!Follows(ns, f) <=> \A k \in 1 .. Len(f) : \E i \in 1 .. Len(ns) : ns[i] = f[k]
  BY ONLY <1>4, <1>5, f \in Seq(Nat), Increasing(f), FollowsAll
<1>7. ASSUME NEW k \in 1 .. Len(f)
      PROVE  (\E i \in 1 .. Len(ns) : ns[i] = f[k]) <=> \E j \in 1 .. Len(names) : names[j] = f[k]
  <2>1. ASSUME NEW i \in 1 .. Len(ns), ns[i] = f[k]
        PROVE  \E j \in 1 .. Len(names) : names[j] = f[k]
    <3>1. lb + i - 1 \in 1 .. Len(names) /\ i \in 1 .. Len(names) - lb + 1
      BY <1>1, <1>2, <1>4
    <3> QED
      BY <1>4, <2>1, <3>1
  <2>2. ASSUME NEW j \in 1 .. Len(names), names[j] = f[k]
        PROVE  \E i \in 1 .. Len(ns) : ns[i] = f[k]
    <3>1. k = 1 \/ f[1] < f[k]
      BY <1>1 DEF Increasing
    <3>2. ~ names[j] < f[1]
      BY <1>1, <2>2, <3>1
    <3>3. ~ j < lb
      BY <1>2, <3>2
    <3>4. /\ j - lb + 1 \in 1 .. Len(ns) /\ j - lb + 1 \in 1 .. Len(names) - lb + 1
          /\ lb + (j - lb + 1) - 1 = j
      BY <1>1, <1>2, <1>4, <3>3
    <3>5. ns[j - lb + 1] = names[lb + (j - lb + 1) - 1]
      BY <1>4, <3>4
    <3> QED
      BY <2>2, <3>4, <3>5
  <2> QED
    BY <2>1, <2>2
<1> QED
  BY <1>3, <1>6, <1>7

LEMMA LeadsHome == FacadeInv => Facade!NamesLeadHome
<1> SUFFICES ASSUME FacadeInv
             PROVE  Facade!NamesLeadHome
  OBVIOUS
<1>0. FunctionNames \subseteq Nat
  BY ServicesAssumption DEF NamesOrdered
<1>1. /\ names \in Seq(FunctionNames) /\ Len(names) \in Nat /\ Increasing(names)
      /\ docs = names /\ locals = names /\ scripts = names
      /\ board \in Seq(FunctionNames) /\ nsdocs = board /\ BoardInv
  BY DEF FacadeInv, BoardInv
<1>2. names \in Seq(Nat)
  BY ONLY <1>0, <1>1, SeqMonotonic
<1>3. \A n \in Facade!Range(names) : Facade!LocalFind(n) = n /\ Facade!Doc(n) = n
  <2>1. SUFFICES ASSUME NEW n \in Facade!Range(names)
                 PROVE  Facade!LocalFind(n) = n /\ Facade!Doc(n) = n
    OBVIOUS
  <2>2. PICK k \in 1 .. Len(names) : names[k] = n
    BY <1>1 DEF Facade!Range
  <2>3. Facade!LowerBound(names, n) = k
    <3>1. Facade!LowerBound(names, names[k]) = k
      BY ONLY <1>1, <1>2, PlaceOfName
    <3> QED
      BY <2>2, <3>1
  <2>4. ~ k > Len(names)
    BY <1>1
  <2> QED
    BY <1>1, <2>2, <2>3, <2>4 DEF Facade!LocalFind, Facade!Doc
<1>4. \A i \in DOMAIN names : scripts[i] = locals[i]
  BY <1>1
<1>5. \A n \in FunctionNames : Facade!Find(n) # Facade!Missing =>
          board[Facade!Find(n) - Facade!Adjust + 1] = n /\ Facade!NsDoc(n) = n
  BY <1>1 DEF BoardInv, Facade!Find, Facade!NsDoc
<1>6. ASSUME NEW f \in Facade!Interfaces
      PROVE  /\ Facade!LocalSupports(f) = (Facade!Range(f) \subseteq Facade!Range(names))
             /\ board = names => Facade!RemoteSupports(f) = Facade!LocalSupports(f)
  <2>0. Facade!Cardinality(FunctionNames) = Cardinality(FunctionNames)
        /\ Cardinality(FunctionNames) \in Nat
    BY FacadeCounts, ServicesAssumption, FS_CardinalityType DEF NamesOrdered
  <2>1. PICK k \in 1 .. Facade!Cardinality(FunctionNames) : f \in [1 .. k -> FunctionNames]
    BY DEF Facade!Interfaces
  <2>2. k \in Nat /\ k >= 1
    BY <2>0, <2>1
  <2>3. f \in Seq(FunctionNames) /\ Len(f) = k
    BY <2>1, <2>2
  <2>4. f \in Seq(Nat)
    BY ONLY <1>0, <2>3, SeqMonotonic
  <2>5. f # <<>> /\ DOMAIN f = 1 .. Len(f) /\ DOMAIN names = 1 .. Len(names)
    BY <1>1, <2>2, <2>3
  <2>6. Increasing(f)
    BY <2>5 DEF Facade!Interfaces, Increasing
  <2>7. Facade!LocalSupports(f)
            <=> \A i \in 1 .. Len(f) : \E j \in 1 .. Len(names) : names[j] = f[i]
    BY ONLY <1>1, <1>2, <2>4, <2>5, <2>6, SupportsAll
  <2>8. Facade!Range(f) \subseteq Facade!Range(names)
            <=> \A i \in 1 .. Len(f) : \E j \in 1 .. Len(names) : names[j] = f[i]
    BY <2>5, Zenon DEF Facade!Range
  <2>9. Facade!LocalSupports(f) \in BOOLEAN /\ Facade!RemoteSupports(f) \in BOOLEAN
    BY Zenon DEF Facade!LocalSupports, Facade!Follows, Facade!RemoteSupports
  <2>10. ASSUME board = names
         PROVE  Facade!RemoteSupports(f)
                    <=> \A i \in 1 .. Len(f) : \E j \in 1 .. Len(names) : names[j] = f[i]
    <3>1. ASSUME NEW i \in 1 .. Len(f)
          PROVE  nsmap[f[i]] # Facade!Missing <=> \E j \in 1 .. Len(names) : names[j] = f[i]
      <4>1. f[i] \in FunctionNames
        BY <2>3
      <4> QED
        BY <1>1, <2>10, <4>1 DEF BoardInv
    <3> QED
      BY <2>5, <3>1 DEF Facade!RemoteSupports, Facade!Find
  <2> QED
    BY <2>7, <2>8, <2>9, <2>10
<1> QED
  BY <1>3, <1>4, <1>5, <1>6 DEF Facade!NamesLeadHome

(* When the map has as many names as there are functions, each function    *)
(* has the place of a name.                                                *)
LEMMA BoardListed == FacadeInv => Facade!ListsWhole
<1> DEFINE S == {n \in FunctionNames : nsmap[n] # Facade!Missing}
           Place(n) == nsmap[n] - Facade!Adjust + 1
           P == [n \in S |-> Place(n)]
<1> SUFFICES ASSUME FacadeInv, Facade!Cardinality(S) = Len(board), NEW i \in DOMAIN board
             PROVE  Facade!List[i] = board[i]
  BY DEF Facade!ListsWhole
<1>0. i \in 1 .. Len(board) /\ Cardinality(S) = Len(board)
  BY FacadeCounts DEF FacadeInv, BoardInv
<1>1. /\ board \in Seq(FunctionNames) /\ Len(board) \in Nat
      /\ nsmap \in [FunctionNames -> Nat]
      /\ \A n \in S : Place(n) \in 1 .. Len(board) /\ board[Place(n)] = n
  BY DEF FacadeInv, BoardInv
<1>2. P \in Injection(S, 1 .. Len(board))
  <2>1. P \in [S -> 1 .. Len(board)]
    BY <1>1
  <2>2. \A m, n \in S : P[m] = P[n] => m = n
    BY <1>1
  <2> HIDE DEF P, S
  <2> QED
    BY <2>1, <2>2 DEF Injection, IsInjective
<1>3. IsFiniteSet(1 .. Len(board)) /\ Cardinality(1 .. Len(board)) = Len(board)
  <2>1. 1 \in Int /\ Len(board) \in Int
    BY <1>1
  <2>2. /\ IsFiniteSet(1 .. Len(board))
        /\ Cardinality(1 .. Len(board)) = IF 1 > Len(board) THEN 0 ELSE Len(board) - 1 + 1
    BY ONLY <2>1, FS_Interval
  <2> QED
    BY <1>1, <2>2
<1>4. P \in Surjection(S, 1 .. Len(board))
  <2> DEFINE N == 1 .. Len(board)
  <2>1. P \in Injection(S, N) /\ IsFiniteSet(N) /\ Cardinality(S) = Cardinality(N)
    BY <1>0, <1>2, <1>3
  <2> HIDE DEF P, S, N
  <2>2. P \in Surjection(S, N)
    BY ONLY <2>1, FS_Injection
  <2> QED
    BY <2>2 DEF N
<1>5. PICK n \in S : Place(n) = i
  <2>1. \E n \in S : P[n] = i
    <3> HIDE DEF P, S
    <3> QED
      BY <1>4 DEF Surjection
  <2> QED
    BY <2>1
<1>6. board[i] = n /\ n \in FunctionNames /\ nsmap[n] = i + Facade!Adjust - 1
  BY <1>1, <1>5 DEF Facade!Adjust
<1>7. \A m \in FunctionNames : nsmap[m] = i + Facade!Adjust - 1 => m = n
  <2>1. SUFFICES ASSUME NEW m \in FunctionNames, nsmap[m] = i + Facade!Adjust - 1
                 PROVE  m = n
    OBVIOUS
  <2>2. m \in S /\ Place(m) = i
    BY <1>1, <2>1 DEF Facade!Adjust, Facade!Missing
  <2> QED
    BY <1>1, <1>6, <2>2
<1>8. Facade!List[i] = CHOOSE m \in FunctionNames : nsmap[m] = i + Facade!Adjust - 1
  <2>1. i \in 1 .. Facade!Cardinality(S)
    BY FacadeCounts
  <2> QED
    BY <2>1 DEF Facade!List
<1> QED
  BY <1>6, <1>7, <1>8

(* Every name of a module, or of its surrogate, leads to its own function  *)
(* through each facade, and a name that was inserted in front of others    *)
(* moves them in all of the vectors alike.                                 *)
THEOREM FacadesAreRight == FacadesSpec => [](Facade!NamesLeadHome /\ Facade!ListsWhole)
<1>1. Facade!Init => FacadeInv
  <2> SUFFICES ASSUME Facade!Init
               PROVE  FacadeInv
    OBVIOUS
  <2>1. /\ names = <<>> /\ docs = <<>> /\ locals = <<>> /\ remotes = <<>> /\ scripts = <<>>
        /\ board = <<>> /\ nsdocs = <<>> /\ copied = 0
        /\ nsmap = [n \in FunctionNames |-> Facade!Missing]
    BY DEF Facade!Init
  <2>2. BoardInv
    BY <2>1 DEF BoardInv, Facade!Missing
  <2> QED
    BY <2>1, <2>2 DEF FacadeInv, Increasing
<1>2. FacadeInv /\ [Facade!Next]_facadeVars => FacadeInv'
  BY FacadeStep
<1>3. FacadeInv => Facade!NamesLeadHome /\ Facade!ListsWhole
  BY LeadsHome, BoardListed
<1> QED
  BY <1>1, <1>2, <1>3, PTL DEF FacadesSpec

(* A file that vfs has found stays where it was found, although the lookup *)
(* itself changes the order of the directories.                            *)
THEOREM FilesAreFound == FilesSpec => []File!PathsFound
<1>1. File!FilesInit => FilesInv
  BY DEF File!FilesInit, FilesInv
<1>2. FilesInv /\ [File!FilesNext]_fileVars => FilesInv'
  BY FilesStep
<1>3. FilesInv => File!PathsFound
  BY FoundAgain
<1> QED
  BY <1>1, <1>2, <1>3, PTL DEF FilesSpec

-----------------------------------------------------------------------------
(* What a client finds has every name it asked for, and no module that had *)
(* them is missing, whatever is inserted in the meantime; no surrogate is  *)
(* connected to before it listens, and a module is found whole or not at   *)
(* all; what a script finds it can load; a name leads to its own function  *)
(* through every facade, and a file is found where it was.                 *)
THEOREM LookupsAreRight == LookupsSpec => []LookupsRight
<1>1. Reg!Init => RegistryInv
  <2> SUFFICES ASSUME Reg!Init PROVE RegistryInv
    OBVIOUS
  <2>1. RegistryType
    BY DEF Reg!Init, RegistryType, Reg!All, Reg!Back
  <2>2. PlaceInv /\ ChildInv /\ MapInv
    BY DEF Reg!Init, PlaceInv, PlaceOf, Asking, ChildInv, ChildOf, MapInv, Reg!All, Reg!Back
  <2>3. CountsInv
    BY DEF Reg!Init, CountsInv, CountsOf, Asking, Reg!All
  <2> QED
    BY <2>1, <2>2, <2>3 DEF RegistryInv
<1>2. RegistryInv /\ [Reg!Next]_registryVars => RegistryInv'
  BY RegistryStep, ServicesAssumption
<1>3. RegistryInv => Reg!FindsAll /\ Reg!LoadedWhole
  <2> SUFFICES ASSUME RegistryInv PROVE Reg!FindsAll /\ Reg!LoadedWhole
    OBVIOUS
  <2>1. Reg!FindsAll
    BY DEF RegistryInv, CountsInv, CountsOf, Asking, Reg!FindsAll
  <2>2. \A c \in Reg!All : pc[c] # "failed"
    BY DEF RegistryInv, RegistryType
  <2>3. ASSUME NEW m \in Reg!Modules, NEW n \in Names, <<n, m>> \in map
        PROVE  m \in set /\ m \in Reg!Mapped(Offers[m])
    BY <2>3 DEF RegistryInv, MapInv, Reg!Mapped
  <2> QED
    BY <2>1, <2>2, <2>3 DEF Reg!LoadedWhole
<1>4. Calls!FindsLibraries
  BY DEF Calls!FindsLibraries, Calls!Find, Calls!Split
<1>5. RegistrySpec => [](Reg!FindsAll /\ Reg!LoadedWhole)
  BY <1>1, <1>2, <1>3, PTL DEF RegistrySpec
<1>6. FacadesSpec => [](Facade!NamesLeadHome /\ Facade!ListsWhole)
  BY FacadesAreRight
<1>7. FilesSpec => []File!PathsFound
  BY FilesAreFound
<1> QED
  BY <1>4, <1>5, <1>6, <1>7, PTL DEF LookupsSpec, LookupsRight

-----------------------------------------------------------------------------
(* TestRunner: the children of the runner, and its list of them *)

RunnerType ==
    /\ child \in [Tests -> {"none", "running", "success", "failure", "killed"}]
    /\ late \in [Tests -> BOOLEAN]
    /\ verdict \in [Tests -> {"none", "passed", "failed"}]
    /\ list \in Seq(Tests)
    /\ at \in 0 .. Len(list)
    /\ reading \in {"no", "timer", "kill", "more", "last"}
    /\ reading # "no" => at # 0

VerdictInv == \A t \in Tests :
    /\ verdict[t] = "passed" => child[t] = "success"
    /\ verdict[t] = "failed" =>
           child[t] \in {"failure", "killed"} \/ (child[t] = "success" /\ late[t])
    /\ child[t] = "killed" => late[t]

(* A child is in the list once, from its fork until its pipe is read for   *)
(* the last time.                                                          *)
ListInv == \A n \in 1 .. Len(list) :
    /\ child[list[n]] # "none"
    /\ \A m \in 1 .. Len(list) : list[m] = list[n] => m = n
    /\ verdict[list[n]] = "none" \/ (reading = "last" /\ at = n)

(* A child is meant to be killed only when its time has passed. *)
KillInv == reading = "kill" => late[list[at]]

RunnerInv == RunnerType /\ VerdictInv /\ ListInv /\ KillInv

LEMMA ForkedStep ==
    ASSUME RunnerInv, NEW t \in Tests, Runner!Fork(t)
    PROVE  RunnerInv'
<1>1. /\ child[t] = "none" /\ child' = [child EXCEPT ![t] = "running"]
      /\ list' = Append(list, t) /\ UNCHANGED <<late, at, reading, verdict>>
      /\ reading # "no" => at \in 1 .. Len(list)
  BY DEF Runner!Fork, Runner!children, RunnerInv, RunnerType
<1>2. /\ list \in Seq(Tests) /\ Len(list) \in Nat /\ list' \in Seq(Tests) /\ Len(list') = Len(list) + 1
      /\ \A n \in 1 .. Len(list) : list'[n] = list[n] /\ list[n] \in Tests
      /\ list'[Len(list) + 1] = t
  BY <1>1 DEF RunnerInv, RunnerType
<1>3. \A u \in Tests \ {t} : child'[u] = child[u]
  BY <1>1 DEF RunnerInv, RunnerType
<1>4. child'[t] = "running" /\ verdict[t] = "none"
  BY <1>1 DEF RunnerInv, RunnerType, VerdictInv
<1>5. RunnerType'
  BY <1>1, <1>2 DEF RunnerInv, RunnerType
<1>6. VerdictInv'
  BY <1>1, <1>3, <1>4 DEF RunnerInv, VerdictInv
<1>9. KillInv'
  BY <1>1, <1>2 DEF RunnerInv, KillInv
<1>7. \A n \in 1 .. Len(list) : list[n] # t
  BY <1>1 DEF RunnerInv, ListInv
<1>8. ListInv'
  <2> SUFFICES ASSUME NEW n \in 1 .. Len(list')
               PROVE  /\ child'[list'[n]] # "none"
                      /\ \A m \in 1 .. Len(list') : list'[m] = list'[n] => m = n
                      /\ verdict[list'[n]] = "none" \/ (reading = "last" /\ at = n)
    BY <1>1 DEF ListInv
  <2>1. CASE n = Len(list) + 1
    BY <1>2, <1>4, <1>7, <2>1
  <2>2. CASE n # Len(list) + 1
    <3>1. n \in 1 .. Len(list)
      BY <1>2, <2>2
    <3> QED
      BY <1>2, <1>3, <1>7, <3>1 DEF RunnerInv, ListInv
  <2> QED
    BY <2>1, <2>2
<1> QED
  BY <1>5, <1>6, <1>8, <1>9 DEF RunnerInv

(* The runner gives a verdict, to a child that it means to kill, or that   *)
(* has ended.                                                              *)
LEMMA VerdictStep ==
    ASSUME RunnerInv, Runner!Kill \/ Runner!Reap
    PROVE  RunnerInv'
<1> DEFINE t == list[at]
<1>1. /\ at # 0 /\ reading' = "last" /\ UNCHANGED <<late, list, at>>
      /\ \/ /\ child[t] # "none" /\ late[t]
            /\ child' = [child EXCEPT ![t] = IF @ = "running" THEN "killed" ELSE @]
            /\ verdict' = [verdict EXCEPT ![t] = "failed"]
         \/ /\ child[t] = "success" /\ UNCHANGED child
            /\ verdict' = [verdict EXCEPT ![t] = "passed"]
         \/ /\ child[t] \in {"failure", "killed"} /\ UNCHANGED child
            /\ verdict' = [verdict EXCEPT ![t] = "failed"]
  <2>1. CASE Runner!Kill
    <3>1. at \in 1 .. Len(list) /\ at # 0
      BY <2>1 DEF Runner!Kill, RunnerInv, RunnerType
    <3>2. child[list[at]] # "none" /\ late[list[at]]
      BY <2>1, <3>1 DEF Runner!Kill, RunnerInv, ListInv, KillInv
    <3> QED
      BY <2>1, <3>1, <3>2, Zenon DEF Runner!Kill
  <2>2. CASE Runner!Reap
    <3>1. /\ at # 0 /\ reading' = "last" /\ UNCHANGED <<child, late, list, at>>
          /\ child[t] \in {"success", "failure", "killed"}
          /\ verdict' = [verdict EXCEPT ![t] = IF child[t] = "success" THEN "passed" ELSE "failed"]
      BY <2>2 DEF Runner!Reap, Runner!Visited, Runner!Ended, Runner!children, RunnerInv, RunnerType
    <3>2. CASE child[t] = "success"
      BY <3>1, <3>2
    <3>3. CASE child[t] # "success"
      <4>1. verdict' = [verdict EXCEPT ![t] = "failed"]
        BY <3>1, <3>3
      <4> QED
        BY <3>1, <3>3, <4>1
    <3> QED
      BY <3>2, <3>3
  <2> QED
    BY <2>1, <2>2
<1>2. at \in 1 .. Len(list) /\ t \in Tests
  BY <1>1 DEF RunnerInv, RunnerType
<1>3. RunnerType'
  BY <1>1, <1>2 DEF RunnerInv, RunnerType
<1>4. VerdictInv'
  BY <1>1, <1>2 DEF RunnerInv, RunnerType, VerdictInv
<1>5. ListInv'
  <2> SUFFICES ASSUME NEW n \in 1 .. Len(list)
               PROVE  /\ child'[list[n]] # "none"
                      /\ \A m \in 1 .. Len(list) : list[m] = list[n] => m = n
                      /\ verdict'[list[n]] = "none" \/ at = n
    BY <1>1 DEF ListInv
  <2>1. list[n] \in Tests /\ (n # at => list[n] # t)
    BY <1>1, <1>2 DEF RunnerInv, RunnerType, ListInv
  <2> QED
    BY <1>1, <1>2, <2>1 DEF RunnerInv, RunnerType, ListInv
<1> QED
  BY <1>1, <1>3, <1>4, <1>5 DEF RunnerInv, KillInv

LEMMA Removed ==
    ASSUME NEW s \in Seq(Tests), NEW i \in 1 .. Len(s)
    PROVE  /\ Runner!RemoveAt(s, i) \in Seq(Tests)
           /\ Len(Runner!RemoveAt(s, i)) = Len(s) - 1
           /\ \A n \in 1 .. Len(s) - 1 :
                  Runner!RemoveAt(s, i)[n] = IF n < i THEN s[n] ELSE s[n + 1]
<1> DEFINE left == SubSeq(s, 1, i - 1)
           right == SubSeq(s, i + 1, Len(s))
<1>0. Len(s) \in Nat /\ i \in 1 .. Len(s)
  OBVIOUS
<1>1. /\ left \in Seq(Tests) /\ Len(left) = i - 1
      /\ \A n \in 1 .. i - 1 : left[n] = s[n]
  BY <1>0
<1>2. /\ right \in Seq(Tests) /\ Len(right) = Len(s) - i
      /\ \A n \in 1 .. Len(s) - i : right[n] = s[i + n]
  BY <1>0
<1>3. Runner!RemoveAt(s, i) = left \o right
  BY DEF Runner!RemoveAt
<1> HIDE DEF left, right
<1>4. left \o right \in Seq(Tests) /\ Len(left \o right) = Len(s) - 1
  <2>1. left \o right \in Seq(Tests) /\ Len(left \o right) = Len(left) + Len(right)
    BY <1>1, <1>2, ConcatProperties
  <2>2. Len(left) + Len(right) = Len(s) - 1
    BY <1>0, <1>1, <1>2
  <2> QED
    BY <2>1, <2>2
<1>5. ASSUME NEW n \in 1 .. Len(s) - 1
      PROVE  (left \o right)[n] = IF n < i THEN s[n] ELSE s[n + 1]
  <2>1. CASE n < i
    <3>1. n \in 1 .. Len(left)
      BY <1>0, <1>1, <2>1
    <3>2. (left \o right)[n] = left[n]
      BY <1>1, <1>2, <3>1, ConcatProperties
    <3> QED
      BY <1>1, <2>1, <3>1, <3>2
  <2>2. CASE ~ n < i
    <3>1. /\ n \in 1 .. Len(left) + Len(right) /\ ~ n <= Len(left)
          /\ n - Len(left) = n + 1 - i /\ n + 1 - i \in 1 .. Len(s) - i
      BY <1>0, <1>1, <1>2, <2>2
    <3>2. (left \o right)[n] = right[n + 1 - i]
      BY <1>1, <1>2, <3>1, ConcatProperties
    <3>3. right[n + 1 - i] = s[i + (n + 1 - i)]
      BY <1>2, <3>1
    <3>4. i + (n + 1 - i) = n + 1
      BY <1>0
    <3> QED
      BY <2>2, <3>2, <3>3, <3>4
  <2> QED
    BY <2>1, <2>2
<1> QED
  BY <1>3, <1>4, <1>5

(* A pipe is read; a child that has a verdict goes. *)
LEMMA ReadStep ==
    ASSUME RunnerInv, Runner!Read
    PROVE  RunnerInv'
<1>0. list \in Seq(Tests) /\ Len(list) \in Nat /\ at \in 1 .. Len(list)
  BY DEF Runner!Read, RunnerInv, RunnerType
<1>1. /\ UNCHANGED <<child, late, verdict>> /\ reading \in {"more", "last"} /\ reading' = "no"
      /\ \/ /\ reading = "last" /\ list' = Runner!RemoveAt(list, at)
            /\ at' = Runner!After(at, Len(list) - 1)
         \/ /\ reading # "last" /\ UNCHANGED list
            /\ at' = Runner!After(at + 1, Len(list))
  BY DEF Runner!Read
<1>2. VerdictInv'
  BY <1>1 DEF RunnerInv, VerdictInv
<1>3. CASE reading = "last"
  <2>1. /\ list' \in Seq(Tests) /\ Len(list') = Len(list) - 1
        /\ \A n \in 1 .. Len(list) - 1 : list'[n] = IF n < at THEN list[n] ELSE list[n + 1]
    BY <1>0, <1>1, <1>3, Removed
  <2>2. at' \in 0 .. Len(list')
    BY <1>0, <1>1, <1>3, <2>1 DEF Runner!After
  <2>3. RunnerType'
    BY <1>1, <2>1, <2>2 DEF RunnerInv, RunnerType
  <2>4. ASSUME NEW n \in 1 .. Len(list')
        PROVE  \E i \in 1 .. Len(list) : i = (IF n < at THEN n ELSE n + 1) /\ list'[n] = list[i] /\ i # at
    <3> DEFINE i == IF n < at THEN n ELSE n + 1
    <3>1. i \in 1 .. Len(list) /\ list'[n] = list[i] /\ i # at
      BY <1>0, <2>1
    <3> QED
      BY <3>1
  <2>5. ListInv'
    <3> SUFFICES ASSUME NEW n \in 1 .. Len(list')
                 PROVE  /\ child[list'[n]] # "none"
                        /\ \A m \in 1 .. Len(list') : list'[m] = list'[n] => m = n
                        /\ verdict[list'[n]] = "none"
      BY <1>1 DEF ListInv
    <3>1. PICK i \in 1 .. Len(list) : i = (IF n < at THEN n ELSE n + 1) /\ list'[n] = list[i] /\ i # at
      BY <2>4
    <3>2. child[list'[n]] # "none" /\ verdict[list'[n]] = "none"
      BY <3>1 DEF RunnerInv, ListInv
    <3>3. ASSUME NEW m \in 1 .. Len(list'), list'[m] = list'[n] PROVE m = n
      <4>1. PICK j \in 1 .. Len(list) : j = (IF m < at THEN m ELSE m + 1) /\ list'[m] = list[j]
        BY <2>4
      <4>2. i = j
        BY <3>1, <3>3, <4>1 DEF RunnerInv, ListInv
      <4> QED
        BY <1>0, <2>1, <3>1, <4>1, <4>2
    <3> QED
      BY <3>2, <3>3
  <2> QED
    BY <1>1, <1>2, <2>3, <2>5 DEF RunnerInv, KillInv
<1>4. CASE reading # "last"
  <2>1. at' \in 0 .. Len(list)
    BY <1>0, <1>1, <1>4 DEF Runner!After
  <2>2. RunnerType' /\ ListInv'
    BY <1>1, <1>4, <2>1 DEF RunnerInv, RunnerType, ListInv
  <2> QED
    BY <1>1, <1>2, <2>2 DEF RunnerInv, KillInv
<1> QED
  BY <1>3, <1>4

(* Whatever the tests do, and whenever they end or run out of time: one     *)
(* that passed has ended well, one that failed has not or its time had     *)
(* passed, and each verdict is given once.                                 *)
THEOREM VerdictsAreRight == RunnerSpec => []VerdictsRight
<1>1. Runner!TestsInit => RunnerInv
  BY DEF Runner!TestsInit, RunnerInv, RunnerType, VerdictInv, ListInv, KillInv
<1>2. RunnerInv /\ [Runner!Next]_runnerVars => RunnerInv'
  <2> SUFFICES ASSUME RunnerInv, [Runner!Next]_runnerVars PROVE RunnerInv'
    OBVIOUS
  <2>1. CASE Runner!Round \/ Runner!Look \/ Runner!Visit
    <3>1. /\ UNCHANGED <<child, late, verdict, list>>
          /\ \/ at' = 1 /\ list # <<>> /\ UNCHANGED reading /\ at = 0
             \/ /\ at # 0 /\ UNCHANGED at
                /\ reading \in {"no", "timer"} /\ reading' \in {"timer", "kill", "more"}
                /\ reading' = "kill" => late[list[at]]
      BY <2>1 DEF Runner!Round, Runner!Look, Runner!Visit, Runner!Visited, Runner!children,
                  RunnerInv, RunnerType
    <3>2. list # <<>> => 1 \in 0 .. Len(list)
      BY DEF RunnerInv, RunnerType
    <3>3. RunnerType' /\ VerdictInv'
      BY <3>1, <3>2 DEF RunnerInv, RunnerType, VerdictInv
    <3>4. ListInv' /\ KillInv'
      BY <3>1 DEF RunnerInv, RunnerType, ListInv, KillInv
    <3> QED
      BY <3>3, <3>4 DEF RunnerInv
  <2>2. ASSUME NEW t \in Tests, Runner!Test(t) PROVE RunnerInv'
    <3>1. /\ child[t] # "none" /\ UNCHANGED <<list, at, reading, verdict>>
          /\ \/ UNCHANGED <<child, late>>
             \/ UNCHANGED child /\ late' = [late EXCEPT ![t] = TRUE]
             \/ /\ child[t] = "running" /\ UNCHANGED late
                /\ \E status \in {"success", "failure"} : child' = [child EXCEPT ![t] = status]
      BY <2>2 DEF Runner!Test, Runner!Write, Runner!Exit, Runner!Elapse
    <3>2. RunnerType'
      BY <3>1 DEF RunnerInv, RunnerType
    <3>3. VerdictInv'
      BY <3>1 DEF RunnerInv, RunnerType, VerdictInv
    <3>4. \A u \in Tests : child[u] # "none" => child'[u] # "none"
      BY <3>1 DEF RunnerInv, RunnerType
    <3>5. ListInv'
      BY <3>1, <3>4 DEF RunnerInv, RunnerType, ListInv
    <3>6. KillInv'
      BY <3>1 DEF RunnerInv, RunnerType, KillInv
    <3> QED
      BY <3>2, <3>3, <3>5, <3>6 DEF RunnerInv
  <2>3. CASE UNCHANGED runnerVars
    BY <2>3 DEF runnerVars, RunnerInv, RunnerType, VerdictInv, ListInv, KillInv
  <2> QED
    BY <2>1, <2>2, <2>3, ForkedStep, VerdictStep, ReadStep
       DEF Runner!Next, Runner!Runner, Runner!Collect
<1>3. RunnerInv => VerdictsRight
  <2> SUFFICES ASSUME RunnerInv PROVE VerdictsRight
    OBVIOUS
  <2>1. DOMAIN list = 1 .. Len(list)
    BY DEF RunnerInv, RunnerType
  <2> QED
    BY <2>1 DEF RunnerInv, VerdictInv, ListInv, VerdictsRight, Runner!VerdictsRight
<1> QED
  BY <1>1, <1>2, <1>3, PTL DEF RunnerSpec
=============================================================================
