SPECIFICATION Spec
CONSTANTS
  Node <- Nodes
  Link <- Links
  MaxDepth = 3
  MaxLimit = 5
INVARIANTS DepthIsDistance TruncationTold WalkConnected
CHECK_DEADLOCK FALSE
