CONSTANTS
    Message = {m1, m2}
    Welcome = m1
    m1 = m1
    m2 = m2
    Cap = 2
    IdMax = 3
    MaxPosts = 4

SPECIFICATION FairSpec
INVARIANTS TypeOK IdsDistinct ZeroIsNeverAnId ShownIsCurrent
PROPERTIES CenterSpec DisplayConverges
CHECK_DEADLOCK FALSE
