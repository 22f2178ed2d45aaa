SPECIFICATION Spec
CONSTANTS
  Tables = {t1}
  Closures = {c1, c2}
  Strings = {s1, s2}
  Roots = {r1, r2}
  Contents = {lit, other}
  Literal = lit
  Nil = Nil
  Dangling = Dangling
  YoungOverHit = TRUE
INVARIANTS
  YoungAreRemembered
CHECK_DEADLOCK FALSE
