SPECIFICATION FairSpec
CONSTANTS
    UpidJobs = {u1}
    SshJobs = {}
    AgentJobs = {a1}
    Calls = {c1}
    NoJob = NoJob
    MaxLog = 2
    Page = 1
INVARIANT AnswersHold
PROPERTIES WatchSettles AgentCancelSettles CallsAnswered
