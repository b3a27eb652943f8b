SPECIFICATION Spec
INVARIANT MediaWriteNotAbandoned
\* The loop ends when the user quits.
CHECK_DEADLOCK FALSE
