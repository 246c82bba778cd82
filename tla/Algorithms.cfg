CONSTANTS
  HalfBits = 2
  ByteBits = 2
  MIN_RSA_MODULUS_BITS = 12
  MAX_RSA_MODULUS_BITS = 14
  Fermat4 = 5
  Asked = {11, 12, 13, 15}
  BlockSize = 4
  LenSize = 1
  ShaWord = 2
  WordSize = 2
  MsgBound = 10
  ServeBound = 13
  N = 4
  CipherBits = 1
  ORIG_P <- MCTableP
  ORIG_S <- MCTableS
  B = 4
  IntLen = 2
  GuidLen = 2
  NickLen = 4
  TextLen = 5
  FILE_CHUNKSIZE = 2
  FILE_MAX_CHUNKS_PER_REQ = 4
  SEARCHREPLY_MAX_FILESIZE = 4
  SEARCHREPLY_MAX_METASIZE = 3
  MaxItems = 3
  MESSAGE_MAX_PAYLOAD_ROUTE = 46
  MaxFn = 5
  CMLC_MAX_CAPS = 2
  KeyBits = {5, 9}
  ModulusLen = 3
  Chunks = {0, 1, 2, 3, 5, 6, 9}
  Names <- MCNames
  KBits = 4
  SBits = 3
  ModLen = 4
  LoadBits = {12, 16}
  LineBytes = 5
  PkNameLen = 5
  ImportSize = 14
  Sha <- MCSha
  PassKey <- MCPassKeys
  SampleKeys <- MCSampleKeys
  Nicks <- MCNicks
  Dirs <- MCDirs
  FileNames <- MCFileNames
  Sizes = {3, 6}
  MB = 4
  MaxWords = 10
  Words <- MCWords
  MaxFiles = 3
  NumRoutes = 8
  NewId = {8, 9, 10, 11, 12, 13, 14, 15, 16, 17}
  MaxAdded = 3
  MaxQueues = 6
  Round = 60
SPECIFICATION Spec
INVARIANTS CryptoExact MessagesExact ListingsExact FindRouteExact PassServes
PROPERTY ForgetsOldest
CHECK_DEADLOCK FALSE
