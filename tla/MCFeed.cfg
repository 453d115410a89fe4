SPECIFICATION FeedSpec
SYMMETRY Symmetry
CONSTANTS
    plain = plain  naming = naming  user1 = user1
    Posts = {p1, p2, p3}
    Users = {user1}
    Calls = {c1, c2}
    Bodies = {plain, naming}
    MentionedBy <- MCMentionedBy
    MaxUpdateRetries = 2
    MaxVersion = 2
    NoParent = NoParent
    NotYet = NotYet
    Gone = Gone
    Entries = 4
    Limit = 2
    MaxLinks = 3
    ActivityIds = {a1}
    Covers = {i1, i2}
    NoCover = NoCover
INVARIANTS KeptWithPostsUnlessDisturbed PagesAreWholeUnlessPinned CoversAreCounted
PROPERTY WritesChangeWhatTheyAsk
CHECK_DEADLOCK FALSE
