SPECIFICATION Spec
CONSTANTS
    UserIds = {1, 2}
    Addresses = {"a", "b", "c"}
    Sources <- MCSources
    NoUser = NoUser
    NoAddress = "none"
    Erased = "erased"
    MaxEditions = 2
    MaxChanges = 1
    AccountRequests = {"r1", "r2"}
    People = {"p", "q"}
    Mail = {"a", "b"}
    LinkIds = {1, 2}
    Placeholder = "none"
    NoAccount = NoAccount
    NoLink = NoLink
    Nobody = "nobody"
    SessionRequests = {"r1", "r2"}
    Owners = {"o"}
    Keys = {1, 2, 3}
    MaxPasswords = 2
    NoSession = NoSession
    NoKey = NoKey
    NoOwner = NoOwner
INVARIANTS NothingLostNothingDoubled AddressesEarned SessionsListed
CONSTRAINT Bounds
CHECK_DEADLOCK FALSE
