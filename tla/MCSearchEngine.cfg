SPECIFICATION EngineOrFindSpec
CHECK_DEADLOCK FALSE
CONSTANTS
  Cat = Cat
  City = City
  In = In
  Control = Control
  ACTUAL = ACTUAL
  BANNED = BANNED
  t1 = t1
  t2 = t2
  t3 = t3
  Thread = {t1, t2, t3}
  Main = t1
  Free = Free
  Key = {1, 2, 3}
  bucket_count = 2
  Amount <- Amounts
  Corpora <- Documents123
  Word = {Cat, City, In}
  BadWord = Control
  StopWord = {In}
  Submission <- Submissions
  Query <- Queries
  Predicate <- Predicates
  Accepts <- MCAccepts
  Status = {ACTUAL, BANNED}
  AnyId <- Ids
  Scale = 4
  Log <- MCLog
  EPS = 500
  MAX_RESULT_DOCUMENT_COUNT = 2
  sec_in_day_ = 2
  Requests = 3
INVARIANTS IndexesAgree AnswersAreTheBest CountsTheLastDay NoDuplicates NoLostUpdate SameAsSequential
PROPERTIES ImplementsDocuments MatchStaysPossible Terminates
