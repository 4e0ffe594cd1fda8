--------------------------- MODULE MCPublication ---------------------------
(* Publication with the command lines of `run' and `generate'.              *)
EXTENDS PublicationProps

Line(validate, build, fuzz, recipe) ==
    [validate |-> validate, build |-> build, fuzz |-> fuzz, recipe |-> recipe,
     contract |-> TRUE, policy |-> "strict"]

ValidateOnly   == Line(TRUE, FALSE, FALSE, TRUE)
BuildRecipe    == Line(TRUE, TRUE, FALSE, TRUE)
FuzzRecipe     == Line(TRUE, TRUE, TRUE, TRUE)
FuzzCompiler   == Line(TRUE, TRUE, TRUE, FALSE)
GenerateOnly   == Line(FALSE, FALSE, FALSE, TRUE)
HybridRecipe   == [BuildRecipe EXCEPT !.policy = "hybrid"]
OtherContract  == [BuildRecipe EXCEPT !.contract = FALSE]
OtherGenerate  == [GenerateOnly EXCEPT !.contract = FALSE]

PublishingLines == {ValidateOnly, FuzzRecipe, HybridRecipe, FuzzCompiler,
                    OtherContract, OtherGenerate}
UnvalidatedLines == {BuildRecipe, GenerateOnly}
=============================================================================
