CONSTANTS
  Invokers = {i1, i2}
  a = a
  b = b
  dir = dir
  Empty = Empty
  Nil = Nil
  Contents = {Empty, a, b}
  Declarations <- MCDeclarations
  Overriding <- MCOverriding
  Dirs = {dir}
SPECIFICATION Spec
INVARIANT InheritsPolicy
