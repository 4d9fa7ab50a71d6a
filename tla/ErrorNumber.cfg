CONSTANTS
  Thread = {t1, t2}
  Block = {b1, b2}
  Errno = {0, 7}
  NULL = NULL
SPECIFICATION Spec
PROPERTY EachThreadItsOwn
