SPECIFICATION FairUploadSpec
CONSTANTS
  ObjectCount = 4
  HasPrefix = TRUE
  UploadFlags = {TRUE}
  MaxFailures = 3
  MaxTorn = 1
PROPERTIES UploadSucceeds
