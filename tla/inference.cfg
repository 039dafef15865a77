SPECIFICATION Spec
CONSTANTS
    Entity <- Three
    Names = {"a", "b"}
    Types = {"corporate", "executive_hnw", "illicit"}
    MaxFacts = 2
INVARIANTS
    WorksUnderIsTheChain
    SharedTargetsAreLinked
    DelicateEdgesAreSensitive
