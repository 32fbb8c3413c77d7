SPECIFICATION Spec
CONSTANTS
    ann = ann
    bob = bob
    nix = nix
    None = None
    Users <- Everybody
    Named <- WithName
    Pictured <- WithName
    FacebookUsers <- WithFacebook
    MaxAsked = 2
INVARIANTS TypeOK SignedInIsRecorded NameIsTheUsers SignInIsOffered NobodyElseIsShown
