\* The namespace of one instance is managed by the other, its CR comes and goes; a
\* call fails, or the operator restarts with another environment.
SPECIFICATION Spec
CONSTANTS
  argoA = argoA  argoB = argoB  app = app  argocd = argocd  other = other
  None = None  Blank = Blank
  Instances = {argoA, argoB}
  Namespaces = {argoA, argoB}
  Names = {argocd, other}
  CRName <- TwoNames
  Labelled = {argoA}
  Editable = {argoA}
  Environments <- PlainOrCluster
  RemoveLabel = FALSE
  MaxLag = 1
  MaxEdits = 1
  MaxFaults = 1
INVARIANTS AccessUnlessMissed RevokedUnlessLate ListedWhenQuiescent
CHECK_DEADLOCK FALSE
