SPECIFICATION SqlSpec
CONSTANTS
  Id = {1, 2}
  Asked <- MCAsked
  Vec <- MCVec
  None = None
  Take = 1
  CodeError = 1
  MaxNode = 2
  Vector = {"u", "v"}
  Oid = {"o", "p"}
  Nothing = "nothing"
  Partition = {1, 2}
  Naming <- MCNaming
  Point <- MCPoint
  Odd = 77
  Session = {"s", "t"}
  Wanted = {1}
  MaxChanges = 1
  Process = {"leader", "worker"}
  Row <- AggRows
  MaxRows = 4
  MaxDim = 2
  MaxCoord <- AggMax
  Tid = {1, 2, 3}
  DocId = {1, 2}
  Arrays <- MCArrays
  Bad = Bad
  NoDoc = NoDoc
  Query <- MCQuery
  PerTokenK = 1
  CandidateN = 2
  K = 2
  Settings <- MCDocSettings
CHECK_DEADLOCK FALSE
INVARIANTS
  KnnAnswersRight
  ParallelIsSerial
  TypesAgree
  OperandsAreThose
  PickedAreNearest
  NoRefreshDeadlock
  AnswersAreCurrentDocs
  BestTokenDocFound
  HealthIsTold
  SettingsAreKept
