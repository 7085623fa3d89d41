SPECIFICATION FairSpec
CONSTANTS
    crypto = crypto
    radio = radio
    nvm = nvm
    Archives = {crypto, radio, nvm}
    InCommit = {crypto, radio}
    MaxFaults = 3
    MaxRegenerations = 2
INVARIANTS
    TypeOK
    ReadyTrue
PROPERTIES
    RetryConverges
