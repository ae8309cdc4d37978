SPECIFICATION WireSpec
CONSTANTS
  UINT64_MAX = 63
  Win01 = 4
  Win02 = 8
  Win03 = 16
  First = 2
  MaxUnacked = 7
  MaxNet = 2
  MAX_ACK_BLKS = 2
  Headers <- MCHeaders
  Frames <- MCFrames
  Foreign <- MCForeign
  BufLen = {30, 110}
  aead_overhead = 2
  SvLen = 2
  VersionLists <- MCVersionLists
  RandomOctets = {0, 127, 126, 255}
  Resets <- MCResets
  MaxFrames = 2
  ClientSettings <- MCClientSettings
  ServerSettings <- MCServerSettings
  VER_D8 <- D8
  ForeignExts <- MCForeignExts
  MaxTickets = 2
INVARIANTS
  NumbersRestored
  PacketRestored
  DecodersKeepBounds
  ControlPacketsUnderstood
  SettingsAgreed
  ParamsChecked
CHECK_DEADLOCK FALSE
