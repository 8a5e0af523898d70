--------------------------- MODULE MCObservation ---------------------------
(* A small instance of Observation for TLC. *)
EXTENDS Observation, TLC

\* A collection that saves everything, one without the index fund, one that a rate
\* limit stopped after it, with too little weight, and one that saves nothing.
MissingTried == {{}, {"SOXX"}, {"SKHY", "NVDA", "AMD", "AVGO"}, Symbols}

MovesTried == {{"SOXX"}, Symbols}

\* All the matrices: what is missing here are quotes, which decide the values too.
MatricesTried == {Values}
=============================================================================
