CONSTANTS
  ByteBits = 4
  MAX_BITS = 5
  MAX_BL_BITS = 4
  LITERALS = 16
  extra_lbits <- SmallLBits
  extra_dbits <- SmallDBits
  bl_order <- SmallOrder
  static_lengths <- SmallLengths
  static_dbits = 4
  MANY = 200
  w_size = 64
  hash_bits = 4
  lit_bufsize = 32
  max_lazy_match = 4
  good_match = 4
  nice_match = 5
  max_chain_length = 4
  TOO_FAR = 7
  wsize = 64
  lbits = 4
  dbits = 2
  FastInput = 6
  Contents <- SmallContents
  OutBufSize = 32
  InBufSize = 32
  ItemSize = 4
  Rooms <- SmallRooms
  Portions <- SmallPortions
SPECIFICATION Spec
INVARIANTS
  NeverWaitsBeyond
CHECK_DEADLOCK FALSE
