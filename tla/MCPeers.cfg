CONSTANTS
  Configured = {1, 2}
  Machines = {3}
  Agents = {a1}
  Names = {"local", "local-2"}
  Clients = {c1}
  Self = Self
  Anonymous = Anonymous
  Silent = Silent
  NoId = NoId
SPECIFICATION Spec
INVARIANT UniqueIds
INVARIANT OnlineOnce
INVARIANT NobodyForgotten
INVARIANT WaitedMeansScanned
PROPERTY IdsSurvive
