CONSTANTS
  a = a
  b = b
  c = c
  ghost = ghost
  Pkg = {a, b, c, ghost}
  Repo = {a, b, c}
  Graphs <- MCGraphs
  Args <- MCArgs
SPECIFICATION Spec
INVARIANTS Ready Sorted Cyclic Missing
PROPERTIES Terminates
CHECK_DEADLOCK FALSE
