SPECIFICATION FairSpec
CONSTANTS
    a = a  b = b  a1 = a1  b1 = b1  b2 = b2
    NoAddr = NoAddr
    Agents = {a, b}
    Addrs = {a1, b1, b2}
    Listen <- AdvertisedAt
    OwnerOf <- Owners
    Kind <- Kinds
    Order <- TextOrder
    Deployments <- Everywhere
    Overlay = TRUE
INVARIANTS SwarmTypeOK OriginOutlivesRecord
PROPERTIES MeshSettles DeadForgotten PathsSettle
