SPECIFICATION Spec
CONSTANTS
    Handler = Handler
    NoMail = NoMail
    NoToken = NoToken
    Blank = Blank
    spoofed = spoofed
    spoofedAgain = spoofedAgain
    signed = signed
    spoofedBlank = spoofedBlank
    signedBlank = signedBlank
    mallory = mallory
    alice = alice
    shop = shop
    bank = bank
    Mails = {spoofed, spoofedAgain, signed, spoofedBlank, signedBlank}
    Identities <- MCIdentities
    SenderOf <- MCSenderOf
    DomainOf <- MCDomainOf
    Pairs <- MCPairs
    PairOf <- MCPairOf
    SignatureValid <- MCSignatureValid
    Reputable <- MCReputable
    TokenOf <- MCTokenOf
    KnownContacts = {spoofed}
    QuotaLimit = 1
    Hour = 1
    MaxTime = 1
    MaxBoots = 1
CONSTRAINT ThreeMails
CHECK_DEADLOCK FALSE
INVARIANTS
    TypeOK
    QuarantinedIsKept
    SpoofedIsQuarantined
    InboxIsJustified
    AnsweredIsCharged
    OneRelease
PROPERTIES
    ApprovedSenderNotJunked
    StoreSpec
    LimiterSpec
