\* Two frames, three page ids, two clients, K = 2: pages are evicted and
\* re-read, and two clients pin the same page.  FlushAllPages never
\* releases latch_ (it re-locks it through FlushPage), so the states after it
\* have no successor: deadlock is not checked.
CONSTANTS
    c1 = c1  c2 = c2  noFrame = noFrame  noPage = noPage
    invalidPageId = invalidPageId  v1 = v1
    Clients <- MCClients
    Frames <- MCFrames
    PageIds <- MCPageIds
    Values <- MCValues
    Zero = 0
    NoFrame <- noFrame
    NoPage <- noPage
    InvalidPageId <- invalidPageId
    K = 2
    MaxTs = 5
SYMMETRY ClientSymmetry
SPECIFICATION Spec
INVARIANT TypeOK
INVARIANT FrameAccounting
PROPERTY PageStoreRefined
CHECK_DEADLOCK FALSE
