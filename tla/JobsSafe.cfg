SPECIFICATION Spec
CONSTANTS
    UpidJobs = {u1}
    SshJobs = {s1}
    AgentJobs = {}
    Calls = {c1, c2}
    NoJob = NoJob
    MaxLog = 2
    Page = 1
SYMMETRY Symmetry
INVARIANTS TypeOK RegistryConsistent CancelHeard AnswersHold UnknownMeansLost
PROPERTY ContractKept
