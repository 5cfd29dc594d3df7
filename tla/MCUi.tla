-------------------------------- MODULE MCUi --------------------------------
(***************************************************************************)
(* The parts of the user interface and of its libraries on one small       *)
(* instance each: the pages of textures (PageCache, extended), the tools   *)
(* that write them, the layout structures, the viewer, the camera, what is *)
(* drawn with, and images (Ui, extended, has some of these).  The parts    *)
(* share no state; `part' says which of them a behaviour is about, the     *)
(* others stay as they begin.  Modules without state are evaluated on      *)
(* every `input'.                                                          *)
(***************************************************************************)
EXTENDS PageCache, Ui

VARIABLES part, input,
    tree,                                                           \* BoxTree
    look, axis, eye,                                                \* Geometry
    entries, rebuild, attributes, element, bound, inputs, sent,
    late, taken                                                     \* DrawBlock

Boxes == INSTANCE BoxTree WITH Bits <- 8, BoxSizes <- {1}, BoxPlaces <- {0, 1},
             RootBox <- [width |-> 3, height |-> 3, x |-> 0, y |-> 0],
             Depth <- 2, Children <- 2

(* Two texts that follow each other on a line or begin lines of two sizes; *)
(* words end with the text, in it, or go over into the next.               *)
Beginnings == LET L == "letter" S == "space" R == "return" IN
    {<<L, L, S>>, <<L, S, L>>, <<S, L, L>>, <<L, L, L>>, <<L, R, L>>, <<L, S, R>>}
Endings == LET L == "letter" S == "space" R == "return" IN
    {<<L, L>>, <<S, L>>, <<L, S, L, L>>, <<R, L>>}
TextPairs == {<<[x |-> indent, scale |-> l, chars |-> b], [x |-> indent, scale |-> k, chars |-> e]>> :
                 indent \in {0, 1}, l \in {1, 2}, k \in {1, 2}, b \in Beginnings, e \in Endings}
Camera == INSTANCE Geometry WITH
              Grid <- {-8, -4, -1, 0, 1, 4}, Reach <- 1,
              Spots <- {<<c, 0, 0>> : c \in {-8, 0, 4, 8}} \union {<<0, 4, -4>>}
Block == INSTANCE DrawBlock WITH drawn <- sent, Blocks <- {1, 2}, Buffers <- {1, 2},
                                 Locations <- {0, 2}, MaxInputs <- 2

Sources == INSTANCE PageSources WITH Bits <- 8, PageWide <- 4
Math == INSTANCE Mathematics
Image == INSTANCE Images WITH WordLimit <- 16

-----------------------------------------------------------------------------
(* The inputs of the modules without state. *)

Binaries == {"binary"} \X {n \in 0 .. 255 : n < 32 \/ n % 16 \in {0, 1, 15}} \X (0 .. 8)
Regions == {"region"} \X (1 .. 16) \X (0 .. 15) \X (0 .. 2)
Fonts == {"font"} \X {1, 4, 5, 9, 17} \X {2, 4, 8} \X (0 .. 3)
Tilings == {"tiling"} \X (1 .. 20) \X (1 .. 20)

Columns == {<<1, 2, 0>>, <<0, -1, 3>>, <<2, 1, -1>>}
Matrices == Columns \X Columns \X Columns
Quaternions == (-1 .. 1) \X (-1 .. 1) \X (-1 .. 1) \X (-1 .. 1)
Maths == ({"matrix"} \X Matrices \X Matrices \X {<<1, 2, 3>>})
    \union ({"turn"} \X Math!Units \X Math!Turn \X Math!Turn \X Math!Turn)
    \union ({"quaternion"} \X Quaternions \X {<<0, 0, 0, 1>>, <<0, 0, 0, -1>>, <<1, 0, 0, 0>>}
                           \X {<<2, -3, 5>>})
    \union ({"between"} \X Math!Units \X Math!Units)
    \union ({"look"} \X {<<0, 0, 0>>, <<1, 2, 3>>} \X Math!Units \X Math!Units \X {1, 2})
    \union ({"project"} \X (-1 .. 1) \X (-1 .. 1) \X {1, 2} \X {1, 2})

CornerBox(a, b) == Camera!Box3([i \in 1 .. 3 |-> Camera!Least(a[i], b[i])],
                               [i \in 1 .. 3 |-> Camera!Greatest(a[i], b[i])])
Corners == {-1, 0} \X {0, 4} \X {-4, 1}
SomeBoxes == {CornerBox(a, b) : a \in {<<-1, 0, -4>>, <<0, 4, 1>>}, b \in Corners}
Lenses == {Math!Perspective(3, 1, 4, 8), Math!Orthographic(-1, 1, -1, 0, 1, 2)}
BoxPairs == {"boxes"} \X SomeBoxes \X SomeBoxes \X Lenses

Grey == Image!Format("y", "u8")
Stored == {Grey, Image!Format("rgb", "u8"), Image!Format("bgr", "u8"),
           Image!Format("rgba", "dxt1"), Image!Format("rgba", "dxt5")}
Sides == {1, 2, 4}
ImageInputs == ({"format"} \X Image!Formats \X Image!InputTypes)
    \union ({"write"} \X {Image!Metadata(s[1], s[2], Grey) : s \in {<<4, 4>>, <<5, 3>>, <<8, 1>>}}
                      \X (0 .. 3) \X {Image!Metadata(w, h, Grey) : w \in Sides, h \in Sides}
                      \X {0, 3, 15} \X {0, 1, 15} \X (0 .. 1))
    \union ({"texture"} \X {Image!Metadata(w, h, Grey) : w \in {1, 2, 3, 4, 8}, h \in {1, 2, 3, 4, 8}}
                       \X (0 .. 4) \X (0 .. 3))
    \union ({"keep"} \X Stored \X {1, 2} \X {<<1, 2, 3>>, <<1, 2, 3, 4, 5, 6>>}
                     \X {128, 136, 140, 150})

Inputs == Binaries \union Regions \union Fonts \union Tilings \union Maths
              \union BoxPairs \union ImageInputs

-----------------------------------------------------------------------------
cameraVars == <<look, axis, eye>>
blockVars == <<entries, rebuild, attributes, element, bound, inputs, sent, late, taken>>

AnyText == CHOOSE t \in TextPairs : TRUE

UiInit ==
    /\ part \in {"cache", "tile", "bin", "box", "nodes", "text", "view", "camera",
                 "block", "frame", "stream", "input"}
    /\ IF part = "input" THEN input \in Inputs ELSE input = <<"none">>
    /\ Init
    /\ Pyramid!Init /\ (part # "tile" => units = 1)
    /\ Packing!BinInit
    /\ Boxes!BoxTreeInit
    /\ Nodes!CacheInit
    /\ Layout!LayoutInit /\ (part # "text" => text = AnyText /\ limit = 4)
    /\ View!ViewInit
    /\ Camera!CameraInit
    /\ Block!BlockInit
    /\ Frame!FrameInit
    /\ Stream!StreamInit

(* Only the variables of a part change. *)
OnlyPart ==
    /\ UNCHANGED <<part, input>>
    /\ IF part = "cache" THEN TRUE ELSE UNCHANGED vars
    /\ IF part = "tile" THEN TRUE ELSE UNCHANGED tileVars
    /\ IF part = "bin" THEN TRUE ELSE UNCHANGED binVars
    /\ IF part = "box" THEN TRUE ELSE UNCHANGED tree
    /\ IF part = "nodes" THEN TRUE ELSE UNCHANGED nodeVars
    /\ IF part = "text" THEN TRUE ELSE UNCHANGED textVars
    /\ IF part = "view" THEN TRUE ELSE UNCHANGED viewVars
    /\ IF part = "camera" THEN TRUE ELSE UNCHANGED cameraVars
    /\ IF part = "block" THEN TRUE ELSE UNCHANGED blockVars
    /\ IF part = "frame" THEN TRUE ELSE UNCHANGED frameVars
    /\ IF part = "stream" THEN TRUE ELSE UNCHANGED streamVars

UiNext ==
    /\ \/ part = "cache" /\ Next
       \/ part = "tile" /\ Pyramid!Next
       \/ part = "bin" /\ Packing!BinNext
       \/ part = "box" /\ Boxes!BoxTreeNext
       \/ part = "nodes" /\ Nodes!CacheNext
       \/ part = "text" /\ Layout!LayoutNext
       \/ part = "view" /\ View!ViewNext
       \/ part = "camera" /\ Camera!CameraNext
       \/ part = "block" /\ Block!BlockNext
       \/ part = "frame" /\ Frame!FrameNext
       \/ part = "stream" /\ Stream!StreamNext
    /\ OnlyPart

uiVars == <<part, input, vars, tileVars, binVars, tree, nodeVars,
            textVars, viewVars, cameraVars, blockVars,
            frameVars, streamVars>>

(* The units of the pool and the thread of make_tile run, the layout is one *)
(* loop, and the viewer's loop goes on unless it waits for an event.       *)
UiFairness ==
    /\ Fairness
    /\ WF_uiVars(part = "tile" /\ Pyramid!Make /\ OnlyPart)
    /\ \A u \in 1 .. 2 : WF_uiVars(part = "tile" /\ Pyramid!Unit(u) /\ OnlyPart)
    /\ WF_uiVars(part = "text" /\ Layout!LayoutNext /\ OnlyPart)
    /\ WF_uiVars(part = "view" /\ View!Draw /\ OnlyPart)
    /\ WF_uiVars(part = "view" /\ View!WritePending /\ OnlyPart)
    /\ WF_uiVars(part = "view" /\ View!NonePending /\ OnlyPart)
    /\ WF_uiVars(part = "view" /\ ~ waits /\ View!NoEvent /\ OnlyPart)

UiSpec == UiInit /\ [][UiNext]_uiVars /\ UiFairness

-----------------------------------------------------------------------------
Given(kind) == part = "input" /\ input[1] = kind

(* What is drawn is what was given: a box of the tree is found and drawn   *)
(* where it is, the pages that are asked for, drawn by font_source and     *)
(* visited by retile are those of the texture or the image, the camera     *)
(* leaves out nothing its matrix shows, products and turns compose, a draw *)
(* reads each attribute from the buffer it was given, the formats of an    *)
(* image agree, a write of it stays inside the texture, and all of this    *)
(* arithmetic is right in a word of 8 bits.                                *)
GraphicsRight ==
    /\ part = "box" =>
        /\ Boxes!BoxesNested
        /\ \A px, py \in {0, 1, 2, 3, 4, 6, 8, 12} : Boxes!FindsInside(px, py)
        /\ \A size \in {2, 4}, px, py \in {0, 2, 9}, z \in -1 .. 1 :
               Boxes!DrawsWhole(size, size, px, py, z)
    /\ Given("binary") => /\ Boxes!BinaryRight(input[2], input[3])
                          /\ input[3] > 0 => Boxes!ArithmeticRight(input[2], input[3])
    /\ Given("region") => Sources!RegionRight(16, input[2], input[3], input[4])
    /\ Given("font") => /\ Sources!GlyphsDrawn(input[2], input[3], input[4])
                        /\ Sources!AtlasHolds(input[2], input[3])
    /\ Given("tiling") => Sources!RetileWhole(input[2], input[3])
    /\ part = "camera" => Camera!CameraCullsSoundly
    /\ part = "block" => Block!DrawsAsGiven
    /\ Given("boxes") => Camera!BoxesRight(input[2], input[3], input[4])
    /\ Given("matrix") => Math!Composes(input[2], input[3], input[4])
    /\ Given("turn") => /\ Math!Turns(input[2], input[3], input[4], input[5])
                        /\ Math!HalfTurns(input[2], input[3], input[4], input[5])
    /\ Given("quaternion") => Math!QuaternionTurns(input[2], input[3], input[4])
    /\ Given("between") => Math!TurnsTo(input[2], input[3])
    /\ Given("look") => Math!LooksAhead(input[2], input[3], input[4], input[5])
    /\ Given("project") => Math!ProjectsOnCube(input[2], input[3], input[4], input[5])
    /\ Given("format") => Image!FormatsAgree(input[2], input[3])
    /\ Given("write") => Image!WritesInside(input[2], input[3], input[4], input[5],
                                            input[6], input[7])
    /\ Given("texture") => Image!TexturesComplete(input[2], input[3], input[4])
    /\ Given("keep") => Image!ImagesKept(input[2], input[3], input[4], input[5])

(* make_tile returns, a layout ends, and what the viewer has loaded is     *)
(* drawn, with no event to wait for.                                       *)
UiProgresses ==
    /\ part = "tile" /\ main.step = "split" ~> main.step \in {"done", "threw"}
    /\ part = "text" /\ Layout!Falling /\ (\A n \in DOMAIN text : text[n].x = 0) ~> Layout!Done
    /\ part = "view" /\ fresh > 0 ~> fresh = 0 \/ quit
=============================================================================
