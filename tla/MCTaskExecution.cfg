CONSTANTS
    None = None
    Keep = Keep
    p1 = p1
    j1 = j1
    j2 = j2
    t1 = t1
    t2 = t2
    t3 = t3
    i1 = i1
    e1 = e1
    e2 = e2
    s1 = s1
    s2 = s2
    Projects = {p1}
    Jobs = {j1, j2}
    Tasks = {t1, t3}
    Issues = {}
    Executors = {e1, e2}
    Sessions = {s1, s2}
    JobProject <- MCJobProject
    IssueProject <- MCIssueProject
    TaskJob <- MCTaskJob
    Policies = {"required"}
    Commands <- ExecutionAndLeases
SPECIFICATION Spec
SYMMETRY ExecutorSymmetry
INVARIANTS
    Ownership
    DependenciesSound
PROPERTIES
    Handover
