CONSTANTS
    r1 = r1  r2 = r2  r3 = r3  r4 = r4
    ann = ann  bob = bob  key = key
    h1 = h1  h2 = h2  h3 = h3  invoice = invoice
    Requests = {r1, r2, r3, r4}
    Actors = {ann, bob}
    Keys = {key}
    Hashes = {h1, h2, h3}
    Targets = {invoice}
    ActorOf <- ByAnnAndBob
    KeyOf <- OneKey
    HashOf <- Payloads
    TargetOf <- TwoDecisions
    LegacyKeys = {key}
    None = None
SPECIFICATION FairSpec
INVARIANTS DecidedOnce TwinsToldTheSame
PROPERTIES KeepsPromise EveryRequestAnswered
CHECK_DEADLOCK FALSE
