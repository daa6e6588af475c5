SPECIFICATION Spec
CONSTANTS
    Reqs = {r1, r2}
    Admins = {a1}
    Keys = {k1, k2}
    Codes = {c1, c2}
    co1 = co1
    Companies = {co1}
    CodeCompany <- OneCompany
    NumHosts = 3
    HubIP = 1
    ForUpdate = TRUE
    None = None
SYMMETRY Symmetry
INVARIANT FailedPeerAddReleasesOtp
