------------------------------ MODULE DrawFrame -----------------------------
(***************************************************************************)
(* The frames of src/foundation/opengl/frame.cpp: images attached to the   *)
(* outputs of a program, the check of the whole, the draw buffers that     *)
(* device.cpp sets when something is first drawn into the frame, and the   *)
(* reads and copies of it.  One frame of Program and the default frame.    *)
(***************************************************************************)
EXTENDS Integers, FiniteSets

CONSTANTS Outputs,      \* locations of the program's outputs, from 0 on
          Images,       \* what can be attached
          Unfit,        \* of these, the ones a frame is not complete with
          Programs, Program, \* what draws into the frame, what it was made for
          DrawBuffers,  \* the device's limit
          NoImage

VARIABLES attached,   \* location -> image or NoImage
          depth,      \* an image, or NoImage
          frameState, \* "none", "checked" or "built"
          outputs,    \* the locations that draws reach
          lastDraw,   \* the program, or "none" or "thrown"
          replaced,   \* an image was put in the place of another
          frameFault  \* a depth buffer alone: the last of no attachments is read

frameVars == << attached, depth, frameState, outputs, lastDraw, replaced,
                frameFault >>

Located == { l \in Outputs : attached[l] # NoImage }

FrameInit ==
    /\ attached = [l \in Outputs |-> NoImage]
    /\ depth = NoImage
    /\ frameState = "none"
    /\ outputs = { 0 }
    /\ lastDraw = "none"
    /\ replaced = FALSE
    /\ frameFault = FALSE

\* The library's answer, CheckFramebufferStatus.
Complete ==
    LET images == ({ attached[l] : l \in Outputs } \cup { depth }) \ { NoImage }
    IN images # {} /\ images \cap Unfit = {}

\* Only a location that had nothing makes the frame be checked again.
Output(l, image) ==
    /\ attached' = [attached EXCEPT ![l] = image]
    /\ frameState' = IF attached[l] = NoImage THEN "none" ELSE frameState
    /\ replaced' = (replaced \/ attached[l] # NoImage)
    /\ UNCHANGED << depth, outputs, lastDraw, frameFault >>

OutputDepth(image) ==
    /\ depth' = image
    /\ frameState' = IF depth = NoImage THEN "none" ELSE frameState
    /\ replaced' = (replaced \/ depth # NoImage)
    /\ UNCHANGED << attached, outputs, lastDraw, frameFault >>

\* frame_check: throws, and leaves the state, if the frame is not complete.
Checked == IF frameState = "none" /\ Complete THEN "checked" ELSE frameState

\* read (after at least one attachment), write, clear, and being copied.
Use ==
    /\ frameState' = Checked
    /\ UNCHANGED << attached, depth, outputs, lastDraw, replaced, frameFault >>

EnableFrame(program) ==
    LET refused == \/ program # Program \/ Cardinality(Located) > DrawBuffers
                   \/ Checked = "none"
        throws == frameState # "built" /\ refused
        empty == frameState # "built" /\ ~refused /\ Located = {}
        n == Cardinality(Located)
    IN /\ ~frameFault
       /\ frameState' = IF frameState = "built" \/ (~throws /\ ~empty)
                        THEN "built"
                        ELSE IF program # Program \/ n > DrawBuffers
                        THEN frameState ELSE Checked
       /\ lastDraw' = IF throws \/ empty THEN "thrown" ELSE program
       /\ frameFault' = empty
       \* as many as there are attachments, counted from location 0
       /\ outputs' = IF frameState = "built" \/ throws \/ empty THEN outputs
                     ELSE { l \in Located : l < n }
       /\ UNCHANGED << attached, depth, replaced >>

FrameNext ==
    \/ \E l \in Outputs, image \in Images : Output(l, image)
    \/ \E image \in Images : OutputDepth(image)
    \/ Use
    \/ \E program \in Programs : EnableFrame(program)

----------------------------------------------------------------------------
(* Properties *)

\* Whatever was attached, read and drawn in between, a draw that was not
\* refused reached every attached location, as long as the locations have no
\* gap, in a frame that is complete unless an attachment was replaced: that is
\* not checked again; and the first such draw was the frame's own program's
\* (device.cpp:213-242, frame.cpp:127-139, 255-266).
DrawsReachAll ==
    frameState = "built" =>
    /\ Located = 0 .. Cardinality(Located) - 1 => outputs = Located
    /\ outputs \subseteq Located
    /\ replaced \/ Complete
    /\ Cardinality(Located) <= DrawBuffers
=============================================================================
