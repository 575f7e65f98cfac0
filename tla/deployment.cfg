SPECIFICATION FairSpec
CONSTANTS
  Api = {a1}
  WorkerProcess = {w1}
  Request = {r1, r2}
  NoApi = NoApi
  MaxFaults = 2
  MaxSignals = 2
  MaxRestarts = 2
INVARIANTS
  TypeOK
  ServesOnSchema
  GracefulAnswersAll
  PublishNotTorn
PROPERTIES
  SchemaCompletes
  RestartHeals
  StopEnds
