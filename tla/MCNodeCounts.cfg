SPECIFICATION Spec
CONSTANTS
    Shapes <- SmallShapes
INVARIANTS
    RepresentationIsExact
    ReadyWhenDue
CHECK_DEADLOCK FALSE
