CONSTANTS
    None = None
    Keep = Keep
    p1 = p1
    j1 = j1
    j2 = j2
    t1 = t1
    t2 = t2
    t3 = t3
    i1 = i1
    e1 = e1
    e2 = e2
    s1 = s1
    s2 = s2
    Projects = {p1}
    Jobs = {j1}
    Tasks = {t1, t2}
    Issues = {i1}
    Executors = {e1}
    Sessions = {s1}
    JobProject <- MCJobProject
    IssueProject <- MCIssueProject
    TaskJob <- MCTaskJob
    Policies = {"required", "none"}
    Commands <- DeliveryCommands
SPECIFICATION Spec
SYMMETRY TaskSymmetry
INVARIANTS
    ReviewedWork
    NoLostSubmission
    QuietWhenClosed
PROPERTIES
    ClosedJobs
