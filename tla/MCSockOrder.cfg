SPECIFICATION Spec
CONSTANTS
  Siz = 3
  Sizes = {2, 4}
  Ends = {1}
  EofLike = {4}
  Blank = Blank
  Eof = Eof
  Nul = Nul
  MaxIn = 6
  MaxOut = 4
INVARIANT BytesInOrder
