SPECIFICATION FairSpec
CONSTANTS
  Writer = {Ticker, w1}
  Ticker = Ticker
  Inode = {i1, i2, i3}
  None = None
  MaxVersion = 1
  Size <- Sizes
INVARIANT IInv
INVARIANT LoneWriteIsWhole
PROPERTY CatchesUp
