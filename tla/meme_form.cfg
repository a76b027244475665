SPECIFICATION FormSpec
CONSTANT Uploads <- MCUploads
INVARIANTS
  FormTypeOK
  FormIsSplit

CHECK_DEADLOCK FALSE
