\* Two bundles, two agents; one upload is cut short, none is repeated.
CONSTANTS
    Sha = {x1, x2}
    Agent = {a1, a2}
    NoBundle = none
    Grace = 2
    Again = FALSE
    MaxUploads = 3
    MaxCrashes = 1
SPECIFICATION BundlesFairSpec
INVARIANTS
    BundlesTypeOK
    
PROPERTIES
    OrphansGo
