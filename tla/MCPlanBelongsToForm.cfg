SPECIFICATION Spec
INVARIANT PlanBelongsToForm
\* The loop ends when the user quits.
CHECK_DEADLOCK FALSE
