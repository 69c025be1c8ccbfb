SPECIFICATION Spec
CONSTANTS
    aca = aca
    rca = rca
    raa = raa
    Agents = {aca, rca, raa}
    Topics = {"reports", "bids", "resolution"}
    Publishes <- MCPublishes
    Subscribes <- MCSubscribes
    Receivers <- MCReceivers
    SubscribeFirst = TRUE
    CanRestart = {}
    CanRejoin = {}
    MaxSeq <- MCMaxSeq
    MaxLife = 1
INVARIANT EverySubscriberReceives
CHECK_DEADLOCK FALSE
