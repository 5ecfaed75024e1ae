--------------------------- MODULE MCCheckSession ---------------------------
\* CheckSession with every privilege an administrator could change.
EXTENDS CheckSession

MCFacts == Wanted \cup Unwanted
=============================================================================
