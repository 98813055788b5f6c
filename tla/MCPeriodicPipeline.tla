------------------------- MODULE MCPeriodicPipeline -------------------------
(* A small instance of PeriodicPipeline.                                    *)
EXTENDS PeriodicPipeline

CONSTANTS w1, w2

\* A story that goes on for three weeks, and one of the third week alone.
LongStory == [s \in {1, 2} |-> IF s = 1 THEN {1, 2, 3} ELSE {3}]
=============================================================================
