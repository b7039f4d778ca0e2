\* The comment in ConvertFrom that there is no data loss.
CONSTANT
  Edited <- OneSSO
SPECIFICATION Spec
PROPERTY
  NoSSODataLoss
