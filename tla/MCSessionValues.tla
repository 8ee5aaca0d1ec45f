--------------------------- MODULE MCSessionValues --------------------------
(***************************************************************************)
(* Three options (the mode, a model, a boolean), and a backend that offers *)
(* all of them, only some, the legacy modes, or nothing.                   *)
(***************************************************************************)
EXTENDS SessionValues, TLC
CONSTANTS mode, model, fast, x, y, on, blank, none

MCConfigs ==
    {[values |-> mode :> x, desired |-> d, resumes |-> TRUE, protects |-> d,
      deadline |-> d] : d \in BOOLEAN}
    \cup
    {[values |-> fast :> on, desired |-> FALSE, resumes |-> FALSE, protects |-> TRUE,
      deadline |-> FALSE]}
MCAnswers ==
    {[opts |-> mode :> y @@ model :> x @@ fast :> on, mode |-> none],
     [opts |-> mode :> x @@ model :> y, mode |-> none],
     [opts |-> model :> x, mode |-> y],
     [opts |-> Empty, mode |-> none]}
MCSeeds == {fast :> on @@ model :> y, mode :> on @@ fast :> x}
=============================================================================
