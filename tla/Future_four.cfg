SPECIFICATION Spec
CONSTANT N = 4
INVARIANT AnyReturnsSignalled
\* The call returns, and nothing happens after it.
CHECK_DEADLOCK FALSE
