CONSTANTS
  Artifacts = {g1}
  MaxVer = 1
  Previews = {pv}
SPECIFICATION Spec
PROPERTY PreviewMutatesNothing
