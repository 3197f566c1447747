SPECIFICATION WalletSpec
CONSTANTS
  Processes = {p1}
  Files = {f1, f2}
  Passwords = {pw1, pw2}
  Blank = blank
  NoKey = NoKey
  Absent = absent
  Empty = empty
  MaxKeys = 3
SYMMETRY Symmetry
INVARIANTS WalletTypeOK AnnouncedKept OpenKeyStored
PROPERTY ImplementsVault
