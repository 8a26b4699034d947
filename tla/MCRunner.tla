------------------------------ MODULE MCRunner ------------------------------
(* The scheduler as game::world sets it up, two workers, the write job and  *)
(* the event pump as roots and the render job below the write job.  The     *)
(* pump and a child of it may also be scheduled at any time.                *)
EXTENDS Runner

CONSTANTS write, pump, render, child

ShippedForest ==
  [j \in Jobs |-> CASE j = render -> write
                    [] j = child  -> pump
                    [] OTHER      -> NoJob]

ShippedRoots == <<write, pump>>

WriteFirst == <<write>>

ShippedKids == [j \in Jobs |-> IF j = write THEN <<render>> ELSE <<>>]

\* render_job.cpp:93, the window is created by the first execute() "since SDL
\* requires the thread to be the same as the one that created the window": the
\* worker that executes the render job once executes it ever after.
RenderStaysOnItsThread ==
  \A w \in Workers :
    [](current[w] = render =>
         [](\A v \in Workers \ {w} : current[v] # render))

=============================================================================
