\* Two tables and two moduli to switch between.
CONSTANTS
  Address = {t1, t2}
  Modulus = {kyber, falcon}
SPECIFICATION Spec
PROPERTIES
  ImmutableTables
