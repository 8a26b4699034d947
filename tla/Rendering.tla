------------------------------- MODULE Rendering -------------------------------
(***************************************************************************)
(* rendering::render_job and the text boxes it draws                       *)
(* (src/src/rendering).  A setter of a text box stores the property and    *)
(* then marks the box; the render job, which may be executing at the same  *)
(* time on another thread, tests and clears the mark and then builds the   *)
(* texture from the properties.                                            *)
(*                                                                         *)
(* Text, colour and font of a box are one value (the colour that render()  *)
(* itself advances is left out).  The properties are not atomic: a texture *)
(* that is built while a setter stores shows anything.                     *)
(***************************************************************************)
EXTENDS Naturals

CONSTANTS
  Boxes,   \* the text boxes that were added to the render job
  Texts,   \* the values of their properties
  Unset    \* no property was set, or no texture was built

ASSUME RenderingAssumption == Unset \notin Texts \cup Boxes

VARIABLES
  text,         \* the properties of each box
  marked,       \* renderable::_marked_for_pre_render
  texture,      \* the value from which text_box::_texture was built
  failed,       \* history: the last pre_render of the box threw
  setter,       \* the setter that is being executed, and its position
  rpc,          \* position of the render job in execute()
  box,          \* the box whose mark it found
  surface,      \* the value from which its surface was built, until it is used
  todo,         \* boxes that the loop of present() has still to visit
  initialized   \* render_job::_initialized

renderVars ==
  <<text, marked, texture, failed, setter, rpc, box, surface, todo, initialized>>

Idle == [step |-> "none"]

Setting == [step : {"storing", "stored"}, box : Boxes, value : Texts]

RenderPoints == {"out", "poll", "test", "clear", "build", "upload", "present"}

RenderTypeOK ==
  /\ text \in [Boxes -> Texts \cup {Unset}]
  /\ marked \in [Boxes -> BOOLEAN]
  /\ texture \in [Boxes -> Texts \cup {Unset}]
  /\ failed \in [Boxes -> BOOLEAN]
  /\ setter \in Setting \cup {Idle}
  /\ rpc \in RenderPoints
  /\ box \in Boxes \cup {Unset}
  /\ box = Unset <=> rpc \notin {"clear", "build", "upload"}
  /\ surface \in Texts \cup {Unset}
  /\ todo \subseteq Boxes
  /\ initialized \in BOOLEAN

RenderInit ==
  /\ text    = [b \in Boxes |-> Unset]
  /\ marked  = [b \in Boxes |-> FALSE]
  /\ texture = [b \in Boxes |-> Unset]
  /\ failed  = [b \in Boxes |-> FALSE]
  /\ setter = Idle
  /\ rpc = "out" /\ box = Unset /\ surface = Unset /\ todo = {}
  /\ initialized = FALSE

-------------------------------------------------------------------------------
(* set_text, set_color, set_font.  They run inside the write job or under   *)
(* its mutex, so there is one at a time.                                    *)

SetBegin(b, v) ==
  /\ setter = Idle
  /\ setter' = [step |-> "storing", box |-> b, value |-> v]
  /\ UNCHANGED <<text, marked, texture, failed, rpc, box, surface, todo, initialized>>

SetStore ==
  /\ setter.step = "storing"
  /\ text' = [text EXCEPT ![setter.box] = setter.value]
  /\ setter' = [setter EXCEPT !.step = "stored"]
  /\ UNCHANGED <<marked, texture, failed, rpc, box, surface, todo, initialized>>

\* mark_pre_render, and the return of the setter.
SetMark ==
  /\ setter.step = "stored"
  /\ marked' = [marked EXCEPT ![setter.box] = TRUE]
  /\ setter' = Idle
  /\ UNCHANGED <<text, texture, failed, rpc, box, surface, todo, initialized>>

-------------------------------------------------------------------------------
(* render_job::execute *)

\* init() is called until it succeeds; it throws if SDL, the window or the
\* renderer fails.
InitFails ==
  /\ rpc = "out" /\ ~initialized
  /\ UNCHANGED renderVars

ExecuteBegin ==
  /\ rpc = "out"
  /\ initialized' = TRUE
  /\ rpc' = "poll"
  /\ UNCHANGED <<text, marked, texture, failed, setter, box, surface, todo>>

\* The end of poll_events, and the beginning of present().
PollEnd ==
  /\ rpc = "poll"
  /\ rpc' = "test"
  /\ todo' = Boxes
  /\ UNCHANGED <<text, marked, texture, failed, setter, box, surface, initialized>>

\* pre_render_if_marked, in the order of a hash map: the test of the mark ...
TestMark(b) ==
  /\ rpc = "test" /\ b \in todo
  /\ todo' = todo \ {b}
  /\ \/ marked[b] /\ rpc' = "clear" /\ box' = b
     \/ ~marked[b] /\ UNCHANGED <<rpc, box>>
  /\ UNCHANGED <<text, marked, texture, failed, setter, surface, initialized>>

\* ... its reset ...
ClearMark ==
  /\ rpc = "clear"
  /\ rpc' = "build"
  /\ marked' = [marked EXCEPT ![box] = FALSE]
  /\ UNCHANGED <<text, texture, failed, setter, box, surface, todo, initialized>>

\* What pre_render may find in the properties.
Seen(b) ==
  IF setter.step = "storing" /\ setter.box = b THEN Texts ELSE {text[b]}

\* ... and pre_render, which builds a surface from the properties ...
BuildSurface ==
  /\ rpc = "build"
  /\ rpc' = "upload"
  /\ surface' \in Seen(box)
  /\ UNCHANGED <<text, marked, texture, failed, setter, box, todo, initialized>>

\* Mutant: the mark is reset after pre_render.
BuildTextureClears ==
  /\ rpc = "upload"
  /\ rpc' = "test"
  /\ box' = Unset /\ surface' = Unset
  /\ texture' = [texture EXCEPT ![box] = surface]
  /\ failed' = [failed EXCEPT ![box] = FALSE]
  /\ marked' = [marked EXCEPT ![box] = FALSE]
  /\ UNCHANGED <<text, setter, todo, initialized>>

\* ... and a texture from the surface.
BuildTexture ==
  /\ rpc = "upload"
  /\ rpc' = "test"
  /\ box' = Unset /\ surface' = Unset
  /\ texture' = [texture EXCEPT ![box] = surface]
  /\ failed' = [failed EXCEPT ![box] = FALSE]
  /\ UNCHANGED <<text, marked, setter, todo, initialized>>

\* Mutant: a box that failed is marked again, to be retried.
BuildFailsRemarks ==
  /\ rpc \in {"build", "upload"}
  /\ rpc' = "out"
  /\ box' = Unset /\ surface' = Unset /\ todo' = {}
  /\ texture' = IF rpc = "upload" THEN [texture EXCEPT ![box] = Unset] ELSE texture
  /\ failed' = [failed EXCEPT ![box] = TRUE]
  /\ marked' = [marked EXCEPT ![box] = TRUE]
  /\ UNCHANGED <<text, setter, initialized>>

\* Either may fail: pre_render throws, the worker swallows the exception and
\* nothing is presented.  A texture that failed is null, one whose surface
\* failed is the old one.
BuildFails ==
  /\ rpc \in {"build", "upload"}
  /\ rpc' = "out"
  /\ box' = Unset /\ surface' = Unset /\ todo' = {}
  /\ texture' = IF rpc = "upload" THEN [texture EXCEPT ![box] = Unset] ELSE texture
  /\ failed' = [failed EXCEPT ![box] = TRUE]
  /\ UNCHANGED <<text, marked, setter, initialized>>

\* The boxes are drawn with the textures they have, and the frame is shown.
Draw ==
  /\ rpc = "test" /\ todo = {}
  /\ rpc' = "present"
  /\ UNCHANGED <<text, marked, texture, failed, setter, box, surface, todo, initialized>>

ExecuteEnd ==
  /\ rpc = "present"
  /\ rpc' = "out"
  /\ UNCHANGED <<text, marked, texture, failed, setter, box, surface, todo, initialized>>

Present ==
  \/ \E b \in Boxes : TestMark(b)
  \/ ClearMark \/ BuildSurface \/ BuildTexture \/ BuildFails \/ Draw \/ ExecuteEnd

Set == SetStore \/ SetMark

RenderNext ==
  \/ \E b \in Boxes, v \in Texts : SetBegin(b, v)
  \/ Set
  \/ ExecuteBegin \/ PollEnd \/ Present

RenderSpec == RenderInit /\ [][RenderNext]_renderVars

-------------------------------------------------------------------------------
(* Properties *)

\* No change is overlooked (renderable.hpp:21-31, text_box.hpp:41-53): a box
\* whose texture is not what its properties say is marked, or its setter is
\* about to mark it, or the render job is about to build it, or the last build
\* failed.
FreshOrMarked ==
  \A b \in Boxes :
    \/ texture[b] = text[b]
    \/ marked[b]
    \/ setter.step # "none" /\ setter.box = b
    \/ rpc = "build" /\ box = b
    \/ rpc = "upload" /\ box = b /\ surface = text[b]
    \/ failed[b]

===============================================================================
