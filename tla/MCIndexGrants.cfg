SPECIFICATION Spec
CONSTANTS
  Names = {"admin", "x"}
  Domains = {"d1", "d2"}
  Roles = {"r1", "r2"}
  Keys = {"k1", "k2", "long"}
  HexKeys = {"k1", "k2"}
  Perms = {"p1"}
  RolePerms = {"read"}
  NoCreator = NoCreator
  Genesis = Genesis
  GenesisBlocks <- FirstBlocks
  MaxTxs = 3
  MaxBlock = 2
  MaxBlocks = 3
INVARIANT GrantsListed
CHECK_DEADLOCK FALSE
