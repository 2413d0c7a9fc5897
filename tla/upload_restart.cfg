SPECIFICATION FairUploadSpec
CONSTANTS
  ObjectCount = 4
  HasPrefix = TRUE
  UploadFlags = {TRUE, FALSE}
  MaxFailures = 3
  MaxTorn = 0
PROPERTIES UploadSucceeds
