SPECIFICATION Spec
CONSTANTS
    aca = aca
    rca = rca
    raa = raa
    Agents = {aca, rca, raa}
    Topics = {"reports", "bids", "resolution"}
    Publishes <- MCPublishes
    Subscribes <- MCSubscribes
    Receivers <- MCReceivers
    SubscribeFirst = TRUE
    CanRestart = {raa}
    CanRejoin = {rca, raa}
    MaxSeq <- MCMaxSeq
    MaxLife = 1
INVARIANTS
    TypeOK
    InOrderOnce
    CausalStamps
    ReadIsQueued
CHECK_DEADLOCK FALSE
