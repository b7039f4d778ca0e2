\* Every field is edited, by clients of both versions.
CONSTANT
  Edited <- AnyThenSSO
SPECIFICATION Spec
INVARIANTS
  TypeOK
  RoundTripStable
PROPERTIES
  UneditedFieldsSurvive
  EditsTakeEffect
