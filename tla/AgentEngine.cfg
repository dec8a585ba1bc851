SPECIFICATION FairSpec
CONSTANTS
  Callers = {x1, x2}
  Connections = {c1, c2}
  NoCaller = NoCaller
  NoConnection = NoConnection
  MaxIdle = 1
  Handlers = {h1, h2}
  Agent = agent
  Servers = {mcp}
  AgentSpecs = {flow, form, long, empty, react}
  NoSpec = NoSpec
  NoRun = NoRun
  Superadmins = {x2}
  Workflows = {flow, form, long, empty}
  ActionsOf <- MCActionsOf
  ServerOf <- MCServerOf
  NoServer = NoServer
  MaxRounds = 2
  MaxIterations = 2
  x1 = x1
  x2 = x2
  h1 = h1
  flow = flow
  form = form
  long = long
  empty = empty
  react = react
  mcp = mcp
  Scenarios <- MCScenarios
INVARIANTS
  AnswerIsOwn
  RegistryIsInLine
  ProjectHistoryIsExact
  AnswerIsKept
  AdmittedWasAllowed
  OutputHasInputs
PROPERTIES
  ExecutionsEnd
CHECK_DEADLOCK FALSE
