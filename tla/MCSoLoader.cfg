SPECIFICATION LoaderSpec
CONSTANTS
  Root = "root"
  Builtin = {"libc"}
  Host = {"malloc"}
  Bits <- MCBits
  Images <- MCImages
INVARIANTS RunsBound NeedsFirst SameProvider
PROPERTIES LoadEnds
CHECK_DEADLOCK FALSE
