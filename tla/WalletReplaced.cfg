SPECIFICATION WalletSpec
CONSTANTS
  Processes = {p1, p2}
  Files = {f1}
  Passwords = {pw1, pw2}
  Blank = blank
  NoKey = NoKey
  Absent = absent
  Empty = empty
  MaxKeys = 2
PROPERTY NotReplaced
