CONSTANTS
  a1 = a1
  a2 = a2
  b1 = b1
  p = p
  q = q
  Contexts = {a1, a2, b1}
  Params = {p, q}
  ParamsOf <- MCParamsOf
  Compared <- MCTold
  Tags = {s, t}
  Contents = {v, w}
  Kind = "mult"
SPECIFICATION Spec
PROPERTY KeysAreKept
