SPECIFICATION Spec
CONSTANTS
    None = None
    Instances = {"a", "b"}
    MaxIdle = 3
    MaxLate = 1
    MaxRequests = 4
    MaxCalls = 5
    MaxTime = 2
    MaxInt = 3
    MaxWide = 31
    Scale = 4
    MaxSteps = 4
    MaxPad = 4
    MaxRepeat = 4
    TicksPerMinute = 2
    MinutesPerHour = 2
    HoursPerDay = 2
    YearsAhead = 10
    MaxErrors = 3
    Files = {"f", "g", "h"}
    Names = {"x"}
    Texts = {"a", "b"}
    Rpcs = {"first", "second", "third"}
    Paths <- ShortPaths
INVARIANTS ClientReads SchemasAdmit MatchSound RouteIsMostSpecific StoredIsReadBack LimitHonoured FailureCountExact LoadedOnce NextRunIsFirst PredicatesAgree NumbersExact AcceptedRuns MethodsAgree FormatKeepsProgram ParsesBack
CHECK_DEADLOCK FALSE
