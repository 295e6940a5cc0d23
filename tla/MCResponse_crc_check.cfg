SPECIFICATION Spec
CONSTANTS
  MaxRows = 9
  Keys <- MCKeys
  ByteXor <- MCXor
  Encipher <- MCEncipher
  Decipher <- MCDecipher
  Z_BUFSIZE = 36
  GzMinimum = 2
  Modulus = 23
  Generator = 3
  Privates = {6, 9}
  ServerPrivates = {4}
  Md5 <- MCMd5
  Replies <- MCReplies
  Archives = {"CompressGZ"}
  MaxConnections = 1
INVARIANTS
  IntactPassesCheck
