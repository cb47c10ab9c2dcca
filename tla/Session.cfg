SPECIFICATION Spec
CONSTANTS
  Names = {a, b}
  Keys = {k1, k2}
  Relation = Relation
  Tx = {t1, t2, t3}
  NoTx = NoTx
SYMMETRY Symmetry
INVARIANTS
  SessionInv
  AuditExplains
  ReportedByName
  AnswersFollow
CHECK_DEADLOCK FALSE
