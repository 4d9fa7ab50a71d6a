CONSTANTS
  Thread = {t1, t2, t3}
  Node = {n1, n2, n3}
  NULL = NULL
  MaxList = 2
SPECIFICATION FairSpec
INVARIANTS HeadSpellsContent TakenIsPrivate
PROPERTIES ImplementsExchanger Progress
