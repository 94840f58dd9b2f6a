SPECIFICATION Spec
CONSTANTS
    CallIds = {c1, c2}
    Tools = {read, write}
    MutatingTools = {write}
    Requestors = {agent, user}
    Agent = agent
    MaxEffects = 2
SYMMETRY CallSymmetry
INVARIANTS
    NotDispatchedHadNoEffect
