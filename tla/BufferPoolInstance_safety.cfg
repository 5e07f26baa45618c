\* Instance 1 of 2 (page ids 1, 3, 5), two frames, two clients: pages are
\* evicted and re-read, two clients pin the same page, and a client's
\* FlushAllPgsImp reads a frame's page id while another client evicts,
\* re-fetches or deletes that page.
CONSTANTS
    c1 = c1  c2 = c2  noFrame = noFrame  noPage = noPage
    invalidPageId = invalidPageId  v1 = v1
    Clients <- MCClients
    Values <- MCValues
    Zero = 0
    NoFrame <- noFrame
    NoPage <- noPage
    InvalidPageId <- invalidPageId
    PoolSize = 2
    NumInstances = 2
    InstanceIndex = 1
    MaxPages = 3
    MaxHeld = 1
SYMMETRY ClientSymmetry
SPECIFICATION Spec
INVARIANT TypeOK
INVARIANT FrameAccounting
PROPERTY PageStoreRefined
