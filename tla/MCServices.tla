----------------------------- MODULE MCServices -----------------------------
(***************************************************************************)
(* The services on one small instance of each part, with the parts that    *)
(* are recursive or have no state: `part' says which of them a behaviour   *)
(* is about, the others stay as they begin.  Modules without state are     *)
(* evaluated on every `input'.                                             *)
(***************************************************************************)
EXTENDS Services

CONSTANT Bad          \* an object of Python that is not of the type asked for

VARIABLES part, input

(* What the configuration gives the constants that are functions. *)
ModuleOffers == [m \in {"l", "s", "p"} |-> CASE m = "l" -> {1}
                                              [] m = "s" -> {1, 2}
                                              [] m = "p" -> {2}]
OffersToScripts == [m \in {"l", "s", "p"} |-> IF m = "l" THEN {1, 2} ELSE {2}]
HandlesOfThreads == [t \in {"p", "q"} |-> IF t = "p" THEN {"p1", "p2"} ELSE {"q1", "q2"}]

PathsAsked == {<<"a", "/", "b">>, <<"/", "b">>, <<"b">>, <<"c">>}
DirectoriesMounted == {<<<<"x">>, <<>>>>, <<<<"y", "/">>, <<"/", "a", "/">>>>,
                       <<<<"z">>, <<"b">>>>}
(* Values of nested types; some of the strings have a zero in them. *)
TextType == <<<<"text">>>>
CallType == <<<<"text">>, <<"empty">>, <<"pod", 3>>, <<"pair", 3, 1>>, <<"pair", 2, 4>>,
              <<"pair", 1, 5>>>>
ListType == <<<<"text">>, <<"container", 1>>>>
SetType == <<<<"pod", 2>>, <<"text">>, <<"container", 2>>, <<"pair", 1, 3>>, <<"set", 4>>>>
Sent ==
    {<<TextType, <<>>>>, <<TextType, <<5, 0>>>>}
    \union {<<CallType, <<v, <<0, <<7, <<5>>>>>>>>>> : v \in {<<>>, <<5>>, <<0, 6>>}}
    \union {<<ListType, v>> : v \in {<<>>, <<<<>>, <<5>>>>, <<<<5, 6>>>>}}
    \union {<<SetType, <<<<n, <<<<5>>, <<>>>>>>, <<4, <<>>>>>>>> : n \in 3 .. 4}

FilesOnDisk == {<<"x", "/", "a", "/", "b">>, <<"y", "/", "b">>, <<"z", "/", "b">>,
                <<"x", "/", "c">>, <<"z", "/", "c">>, <<"x", "/", "b">>}

Utility == INSTANCE Binary WITH Bits <- 8
Host == INSTANCE ScriptValues

-----------------------------------------------------------------------------
(* The inputs of the modules without state: a value of a type, nested as   *)
(* the traits nest, with one that cannot be converted where there is one.  *)
N == <<"number">>
Sequence(t) == <<"sequence", t>>

LuaInputs == {"lua"} \X
    { <<N, 3>>, <<<<"empty">>, 0>>, <<Sequence(N), <<1, 2, 3>>>>, <<Sequence(N), <<>>>>,
      <<<<"array", 2, N>>, <<5, 6>>>>, <<<<"set", N>>, {1, 4}>>,
      <<<<"map", N, N>>, {<<1, 2>>, <<3, 4>>}>>, <<<<"tuple", N, N>>, <<1, 2>>>>,
      <<<<"tuple", N, Sequence(N), N>>, <<1, <<2, 3>>, 4>>>>,
      <<Sequence(Sequence(N)), <<<<1, 2>>, <<>>, <<3>>>>>>,
      <<<<"map", N, Sequence(N)>>, {<<1, <<2, 3>>>>}>>,
      <<Sequence(<<"tuple", N, N>>), <<<<1, 2>>>>>>,
      <<Sequence(<<"set", N>>), <<{1, 2}>>>> }

PyInputs == {"python"} \X
    { <<N, 3>>, <<N, Bad>>, <<Sequence(N), <<1, 2, 3>>>>, <<Sequence(N), <<1, Bad, 3>>>>,
      <<<<"set", N>>, <<1, 4>>>>, <<<<"set", N>>, <<1, Bad>>>>,
      <<<<"map", N, N>>, <<<<1, 2>>, <<3, 4>>>>>>,
      <<<<"map", N, N>>, <<<<1, 2>>, <<3, Bad>>>>>>,
      <<<<"map", N, N>>, <<<<1, 2>>, <<Bad, 3>>>>>>,
      <<<<"tuple", N, N>>, <<1, 2>>>>, <<Sequence(<<"set", N>>), <<<<1, 2>>, <<3>>>>>>,
      <<<<"map", N, Sequence(N)>>, <<<<1, <<2, 3>>>>, <<2, <<2, Bad>>>>>>>> }

VectorInputs == {"vector"} \X {[i \in 1 .. n |-> i] : n \in 0 .. 5} \X (1 .. 4)

(* Archives of up to two files, or of one that may not agree with itself, *)
(* with and without the directory.                                        *)
Packed == [name : {<<1>>, <<2, 2>>}, header : {<<1>>, <<2, 2>>}, method : {"store", "flate"},
           data : {"plain", "deflated"} \X {5, 6}, crc : {5}, extra : 0 .. 1, comment : 0 .. 1]
Sound == {f \in Packed : /\ f.header = f.name
                         /\ f.data = IF f.method = "store" THEN <<"plain", 5>>
                                                           ELSE <<"deflated", 5>>}
FileSize(f) == File!FileHeader + Len(f.header) + f.extra + 1
EntrySize(f) == File!EntryHeader + Len(f.name) + f.extra + f.comment
SizeOf(S(_), fs) == FoldLeft(LAMBDA n, f : n + S(f), 0, fs)
FileAt(fs, i) == SizeOf(FileSize, SubSeq(fs, 1, i - 1))
EntryAt(fs, i) == SizeOf(FileSize, fs) + SizeOf(EntrySize, SubSeq(fs, 1, i - 1))
Archive(fs, parts, cut, comment) ==
    LET end == SizeOf(FileSize, fs) + SizeOf(EntrySize, fs)
        all == DOMAIN fs
        places == UNION {{FileAt(fs, i), EntryAt(fs, i)} : i \in all}
        Header(o) ==
            LET i == CHOOSE i \in all : o \in {FileAt(fs, i), EntryAt(fs, i)}
                f == fs[i]
            IN  IF o = EntryAt(fs, i)
                THEN [id |-> "entry", name |-> f.name, extra |-> f.extra,
                      comment |-> f.comment, offset |-> FileAt(fs, i)]
                ELSE [id |-> "file", name |-> f.header, data |-> f.data, crc |-> f.crc,
                      method |-> f.method]
    IN  [at |-> [o \in places \union (IF cut THEN {} ELSE {end}) |->
                    IF o = end THEN [id |-> "directory", parts |-> parts,
                                     offset |-> EntryAt(fs, 1)]
                    ELSE Header(o)],
         size |-> end + File!DirectoryHeader + comment]
Opens(f) == IF f.header = f.name /\ f.data = <<IF f.method = "store" THEN "plain"
                                               ELSE "deflated", f.crc>>
            THEN <<"data", f.crc>> ELSE File!Refused
ArchiveInputs ==
    {"archive"} \X ([1 .. 1 -> Packed] \union [1 .. 2 -> {f \in Sound : f.comment # f.extra}])
                \X (1 .. 2) \X BOOLEAN \X (0 .. 1)

TupleInputs == UNION {{"tuple"} \X [1 .. n -> 0 .. 2] \X [1 .. n -> 0 .. 2] : n \in 1 .. 3}
TestInputs ==
    {"tests"} \X [1 .. 2 -> BOOLEAN \X UNION {[1 .. n -> BOOLEAN] : n \in 0 .. 2}]
              \X BOOLEAN \X BOOLEAN

Inputs == LuaInputs \union PyInputs \union VectorInputs
          \union ArchiveInputs \union TupleInputs \union TestInputs

-----------------------------------------------------------------------------
ServicesInit ==
    /\ part \in {"servers", "registry", "rpc", "remote", "facades", "runner", "pointers",
                 "signal", "script", "calls", "files", "sockets", "stream", "input"}
    /\ IF part = "input" THEN input \in Inputs ELSE input = <<"none">>
    /\ Servers!Init /\ (part # "servers" => kind = "memory")
    /\ Reg!Init
    /\ Rpc!Init
    /\ Remote!Init
    /\ Facade!Init
    /\ Runner!TestsInit /\ (part # "runner" => hangs = {})
    /\ Pointer!PointersInit
    /\ Sig!SignalInit
    /\ Script!ScriptInit
    /\ Calls!CallsInit /\ (part # "calls" => host = "lua")
    /\ File!FilesInit
    /\ Socket!SocketsInit
    /\ Stream!StreamInit

(* Only the variables of a part change. *)
OnlyPart ==
    /\ UNCHANGED <<part, input>>
    /\ IF part = "servers" THEN TRUE ELSE UNCHANGED serverVars
    /\ IF part = "registry" THEN TRUE ELSE UNCHANGED registryVars
    /\ IF part = "rpc" THEN TRUE ELSE UNCHANGED rpcVars
    /\ IF part = "remote" THEN TRUE ELSE UNCHANGED remoteVars
    /\ IF part = "facades" THEN TRUE ELSE UNCHANGED facadeVars
    /\ IF part = "runner" THEN TRUE ELSE UNCHANGED runnerVars
    /\ IF part = "pointers" THEN TRUE ELSE UNCHANGED pointerVars
    /\ IF part = "signal" THEN TRUE ELSE UNCHANGED signalVars
    /\ IF part = "script" THEN TRUE ELSE UNCHANGED scriptVars
    /\ IF part = "calls" THEN TRUE ELSE UNCHANGED callVars
    /\ IF part = "files" THEN TRUE ELSE UNCHANGED fileVars
    /\ IF part = "sockets" THEN TRUE ELSE UNCHANGED socketVars
    /\ IF part = "stream" THEN TRUE ELSE UNCHANGED streamVars

ServicesNext ==
    /\ \/ part = "servers" /\ Servers!Next
       \/ part = "registry" /\ Reg!Next
       \/ part = "rpc" /\ Rpc!Next
       \/ part = "remote" /\ Remote!Next
       \/ part = "facades" /\ Facade!Next
       \/ part = "runner" /\ Runner!Next
       \/ part = "pointers" /\ Pointer!PointersNext
       \/ part = "signal" /\ Sig!SignalNext
       \/ part = "script" /\ Script!ScriptNext
       \/ part = "calls" /\ Calls!CallsNext
       \/ part = "files" /\ File!FilesNext
       \/ part = "sockets" /\ Socket!SocketsNext
       \/ part = "stream" /\ Stream!StreamNext
    /\ OnlyPart

servicesVars == <<part, input, serverVars, registryVars, rpcVars, remoteVars, facadeVars,
                  runnerVars, pointerVars, signalVars, scriptVars, callVars, fileVars,
                  socketVars, streamVars>>

(* Threads and processes run, a test that does not hang ends, time passes; *)
(* clients need not call or hang up.                                       *)
ServicesFairness ==
    /\ WF_servicesVars(part = "servers" /\ Servers!Well /\ Servers!Accept /\ OnlyPart)
    /\ \A c \in Clients :
           /\ WF_servicesVars(part = "servers" /\ Servers!Well /\ Servers!Thread(c) /\ OnlyPart)
           /\ WF_servicesVars(part = "registry" /\ Reg!Child(c) /\ OnlyPart)
    /\ \A c \in Reg!All : WF_servicesVars(part = "registry" /\ Reg!Call(c) /\ OnlyPart)
    /\ WF_servicesVars(part = "runner" /\ Runner!Runner /\ OnlyPart)
    /\ \A t \in Tests :
           /\ WF_servicesVars(part = "runner" /\ Runner!Exit(t) /\ OnlyPart)
           /\ WF_servicesVars(part = "runner" /\ Runner!Elapse(t) /\ OnlyPart)

ServicesSpec == ServicesInit /\ [][ServicesNext]_servicesVars /\ ServicesFairness

-----------------------------------------------------------------------------
Given(what) == part = "input" /\ input[1] = what

(* What is put into a buffer, on a Lua stack or into a Python object comes *)
(* out the same, what is of another type is refused, and no reference or   *)
(* stack slot is left over, where the code keeps to that.  Tuples that are *)
(* the keys of its maps and vectors compare as their elements do, an       *)
(* archive opens the file of a name.  A program that runs tests keeps its  *)
(* descriptors, and its status is the verdict on all.                      *)
ConversionsRight ==
    /\ Given("lua") => /\ Host!LuaRound(input[2][1], input[2][2])
                       /\ \A other \in LuaInputs :
                              Host!LuaRefuses(input[2][1], other[2][1], other[2][2])
    /\ Given("python") => Host!PyBalanced(input[2][1], input[2][2]) /\ Host!PyLoadSafe(<<1, 2>>)
    /\ Given("vector") => Stream!VectorReceived(33, input[2], input[3])
    /\ Given("tuple") => Utility!TuplesRight(input[2], input[3])
    /\ Given("archive") => File!ArchiveRight(Archive(input[2], input[3], input[4], input[5]),
                                             [i \in DOMAIN input[2] |-> input[2][i].name],
                                             [i \in DOMAIN input[2] |-> Opens(input[2][i])])
    /\ Given("tests") => /\ Runner!DescriptorsKept(Len(input[2][1][2]) + 1, input[3])
                         /\ \A signal \in {"fault", "term"} :
                                Runner!StatusRight(input[2], input[3], input[4], signal)

(* A servlet whose client has gone ends, a call of the registry returns if *)
(* the surrogate it waits for lives, and tests that end are collected.     *)
ServicesProgress ==
    /\ \A c \in Clients :
           part = "servers" /\ hung[c] ~>
               \/ element[c] = "erased" /\ servlet[c] = "ended"
               \/ element[c] = "set" /\ servlet[c] = "thrown"
               \/ kind = "memory" /\ element[c] = "erased" /\ words[c] = "cut" /\ servlet[c] = "wait"
               \/ ~ Servers!Well
    /\ \A c \in Reg!All : part = "registry" /\ pc[c] = "begun" ~>
           pc[c] \in {"done", "exists", "failed"} \/ surrogate[c] = "died" \/ c = Reg!Back
    /\ part = "runner" /\ hangs = {} ~> \A t \in Tests : verdict[t] # "none"
=============================================================================
