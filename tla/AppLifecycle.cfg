SPECIFICATION Spec
CONSTANTS
    c1 = c1
    c2 = c2
    r1 = r1
    r2 = r2
    none = none
    s1 = s1
    Cluster <- MCCluster
    Region <- MCRegion
    NoRegion = none
    World <- MCWorld
    Order <- MCOrder
    Slot <- MCSlot
    Requests <- MCRequests
INVARIANTS WebWorkKeepsItsResources StoppedMeansClosed AnswersAreTrue ConnectsWhereItShould ServesDeclaredPostures
PROPERTY StopEnds
