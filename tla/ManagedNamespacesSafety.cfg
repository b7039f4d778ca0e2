\* Two instances whose CRs have the same name, one namespace between them, which
\* is relabelled, deleted and created again; the cache is one version behind.
SPECIFICATION Spec
CONSTANTS
  argoA = argoA  argoB = argoB  app = app  argocd = argocd  other = other
  None = None  Blank = Blank
  Instances = {argoA, argoB}
  Namespaces = {argoA, argoB, app}
  Names = {argocd}
  CRName <- SameName
  Labelled = {app}
  Editable = {}
  Environments <- Plain
  RemoveLabel = TRUE
  MaxLag = 1
  MaxEdits = 2
  MaxFaults = 0
SYMMETRY Swap
INVARIANTS TypeOK AccessUnlessMissed ListedWhenQuiescent RevokedUnlessLate
           NamespaceScopedWhenQuiescent
CHECK_DEADLOCK FALSE
