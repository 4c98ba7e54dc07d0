CONSTANTS
  Scale = 2
  DyedAttrs <- DyedSets
  Calls = {"in", "out", "far"}
  Kind <- Kinds
  Caller <- Callers
  Source <- Sources
  Callee <- Callees
  Message <- Messages
  MaxStringLength = 4
  SuffixLength = 2
  HttpPaths = {"/get", "/other"}
  Patterns <- PathPatterns
  Sampler <- SamplerConfig
  MaxNow = 1
  Operations <- Answers
  ServerOwner = "o1"
  Streams = {"t1", "t2"}
  Desc <- StreamDescs
  MaxMessages = 2
  MaxEnds = 2
  Contexts = {"bg", "c1", "c2", "c3", "c4"}
  Background = "bg"
  LoggerOptions <- Loggers
  SpanOf <- Spans
  MaxLogs = 2
  Scenarios <- CallScenarios
  CodeLists <- ConfiguredCodes
  Lengths = {1, 2}
  LineFields <- Lines
  Levels = {"debug", "error"}
  Parts = {"calls", "config", "streams", "logs"}
SPECIFICATION Spec
CHECK_DEADLOCK FALSE
INVARIANTS
  SpansKept
  ExemplarResolves
  StartedHandledAgree
  MappingCurrent
  LogsTellTrace
