SPECIFICATION Spec
CONSTANT Loads <- ThreeLoads
INVARIANT AutoForThisCallOnly
\* The loads are over.
CHECK_DEADLOCK FALSE
