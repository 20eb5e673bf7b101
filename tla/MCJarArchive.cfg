CONSTANTS
  src = src
  out = out
  r1 = r1
  r2 = r2
  c = c
  d = d
  code = code
  text1 = text1
  text2 = text2
  new = new
  low = low
  Holders = {h1, h2}
  Paths = {src, out}
  Start <- OneJar
  Names = {c, r1, r2, d}
  ClassNames = {c}
  DirNames = {d}
  NewBytes = {new}
  Contents <- AllContents
  Empty = Empty
  Lowered <- Low
  NoFile = NoFile
  Missing = Missing
  Closed = Closed
  MaxEntries = 3
  MaxEdits = 2
  MaxRewrites = 2
SYMMETRY Symmetry
SPECIFICATION Spec
INVARIANTS IndexesAgree
PROPERTIES FreshRewriteIsExact RewritesAreAtomic
