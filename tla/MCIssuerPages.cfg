CONSTANTS
  Contracts = {c1, c2}
  Accounts = {a1, a2}
  Forms = {f1, f2}
  Complete = {f1}
  MaxEvents = 2
  None = None
  Blank = Blank
  Failed = Failed
  Example = Example
  Titles = {t1, t2}
  FormData = {d1, d2}
  ExampleData = d1
  RevocationKeys = {k1}
  MaxActs = 6
  MaxDeployments = 2
SPECIFICATION MCSpec
CHECK_DEADLOCK FALSE
INVARIANTS PagesTypeOK PressIsAnswered RegisteredAsOffered SchemaHasWhatIsListed
PROPERTIES ShowsWhatIsChosen DeploymentShown
