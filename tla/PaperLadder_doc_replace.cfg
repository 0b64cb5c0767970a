CONSTANTS
    Keys = {buy1, sell1}
    NoKey = NoKey
    Gens = {g1, g2}
SPECIFICATION Spec
INVARIANT SubmittedOnce
