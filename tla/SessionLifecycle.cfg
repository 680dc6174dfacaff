\* Three uploads over two sessions; two run while one is queued.
SPECIFICATION Spec
CONSTANTS
  s1 = s1
  s2 = s2
  k1 = k1
  k2 = k2
  c1 = c1
  t1 = t1
  t2 = t2
  t3 = t3
  Session = {s1, s2}
  Careful = {s1}
  Keyset = {k1, k2}
  Schema = {c1}
  SchemaOf <- MCSchemaOf
  User = User
  None = None
  Task = {t1, t2, t3}
  MaxRunning = 2
SYMMETRY Symmetry
INVARIANTS
  TypeOK
  CryptoMatchesServer
  BorrowedCryptoLives
  PoolOutlivesUsers
  KeyGoesFirst
