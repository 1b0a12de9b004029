--------------------------- MODULE MCLlamaCppLoad ---------------------------
EXTENDS LlamaCppLoad

\* Two loads that overlap and one that comes later.
ThreeLoads == {"first", "second", "later"}
=============================================================================
