SPECIFICATION Spec
CONSTANTS
  Objects = {s1, s2, s3}
  Arrays = {a1, a2, a3, a4}
  Null = Null
  Codes = {"NotFound", "IOError"}
  Chars = {"colon", "space", "m"}
  Messages <- MCMessages
SYMMETRY Symmetry
INVARIANT OneOwnerEach
PROPERTY ImplementsValues
