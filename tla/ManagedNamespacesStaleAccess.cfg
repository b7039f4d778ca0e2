\* A worker that gives access from a list of namespaces it read before.
SPECIFICATION Spec
CONSTANTS
  argoA = argoA  argoB = argoB  app = app  argocd = argocd  other = other
  None = None  Blank = Blank
  Instances = {argoA, argoB}
  Namespaces = {argoA, argoB, app}
  Names = {argocd, other}
  CRName <- TwoNames
  Labelled = {app}
  Editable = {argoA, argoB}
  Environments <- Plain
  RemoveLabel = TRUE
  MaxLag = 1
  MaxEdits = 1
  MaxFaults = 0
INVARIANT RevokedWhenQuiescent
CHECK_DEADLOCK FALSE
