INIT OutputInit
NEXT OutputNext
CONSTANTS
  b1 = b1
  b2 = b2
  wat = wat
  wasm = wasm
  Builds = {b1, b2}
  Pid <- SamePid
  Base = {wat}
  Extras = {wasm}
  Bytes <- OneOrThree
  SidecarBytes <- OneByte
  PublishedBytesLimit = 4
  MaxAttempts = 2
  MaxMeddles = 1
  Evidence = Evidence
  Manifest = Manifest
  Stray = Stray
  Absent = Absent
  Other = Other
  Nothing = Nothing
  EmptyDir = EmptyDir
  FullDir = FullDir
  File = File
  Symlink = Symlink
  Destination = Destination
  Outputs <- MCOutputs
  MaxClosureFiles = 9
  MaxClosureFileBytes = 2
  MaxClosureTotalBytes = 9
  MaxDirEntrySlack = 1
  UTF8Before <- MCUTF8Before
  Contract <- MCContract
CHECK_DEADLOCK FALSE
INVARIANTS ReceiptStands NoResidue Described AcceptedIsOneBuild NoFalseRejection RulingIsRight
PROPERTY NothingLost
