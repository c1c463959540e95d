\* Every archive, old block and profile, signed up to twice.
SPECIFICATION Spec
CONSTANTS
  MaxU32 = 5300
  Ids = {"garbage", "code sign", "cms", "old", "a", "b", "c", "d", "e"}
  FSVERITY_BLOCK_SIZE = 128
  SHA256_SIZE = 32
  MAX_ENTRY_UNCOMPRESSED_SIZE = 2200
  MAX_TOTAL_UNCOMPRESSED_SIZE = 5000
  CHUNK_SIZE = 1000
  Deflated = {50, 63}
  MaxRounds = 2
  CmsSizes = {100, 102}
  Inputs <- MCInputs
  Profiles <- MCProfiles
INVARIANTS TypeOK OutputReadable VerifierAccepts CodeSignInPlace ResignKeepsPlace CodeCovered
           TreesVerify AlignedIsAccepted NothingLost
