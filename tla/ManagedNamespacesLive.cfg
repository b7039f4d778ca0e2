\* Liveness, with a failing call or a restart.
SPECIFICATION FairSpec
CONSTANTS
  argoA = argoA  argoB = argoB  app = app  argocd = argocd  other = other
  None = None  Blank = Blank
  Instances = {argoA}
  Namespaces = {argoA, app}
  Names = {argocd}
  CRName <- SameName
  Labelled = {app}
  Editable = {argoA}
  Environments <- Plain
  RemoveLabel = TRUE
  MaxLag = 1
  MaxEdits = 2
  MaxFaults = 1
INVARIANT AccessUnlessMissed
PROPERTIES LabelledIsGranted DeletionCompletes
CHECK_DEADLOCK FALSE
