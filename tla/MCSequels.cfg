SPECIFICATION Spec
CONSTANTS
    bob = bob
    eve = eve
    Callers = {c1}
    Scenarios <- Sequels
    MaxCalls <- MCMaxCalls
    MaxCrashes = 0
    Users = {bob, eve}
    Known = {eve}
    AdminRoles = {"r1", "r2"}
    Permissions = {"p"}
    MaxFails = 2
    Phones = {"n1", "n2"}
    Addresses = {"a1", "a2"}
    Members = {"s1", "s2"}
    Branches = {"b1", "b2"}
    FirstBranch = "b1"
    OnBoard = {"s1"}
    LastDay = 2
    Applications = {"a1", "a2"}
    Nins = {"n1"}
    Begun <- MCBegun
    Forms = {"FORM"}
    Checks = {1, 2}
    DocumentTypes = {"rules", "safety"}
    Documents = {1, 2, 3}
    Directives = {"k1"}
    Beauticians = {"w1"}
    Sessions = {1, 2}
    Videos = {1, 2}
    LastHour = 2
    NoShowThreshold = 2
    ProfilesBegun <- MCProfilesBegun
    Walkins = {"w1"}
    WebUsers = {"u1"}
    Made <- MCMade
    Thresholds <- MCThresholds
    HasEmail = {"u1"}
    Transitions = {1, 2, 3}
    Templates = {"k1", "k2"}
    LastTick = 4
    CampaignsBegun <- MCCampaignsBegun
INVARIANTS
    SequenceRunsThrough
CHECK_DEADLOCK FALSE
