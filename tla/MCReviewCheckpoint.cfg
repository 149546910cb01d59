SPECIFICATION Spec
CONSTANTS
    Procs = {p1, p2}
    Sources = {s1, s2}
    Reviewers = {r1, r2}
    None = None
    MaxEdits = 2
    MaxReviews = 2
    MaxKills = 1
SYMMETRY Interchangeable
PROPERTIES
    PublishedForGood
    RejectionsMissedOnlyLate
