SPECIFICATION Spec
CONSTANTS
    c1 = c1
    c2 = c2
    m1 = m1
    m2 = m2
    m3 = m3
    alice = alice
    spamDomain = spamDomain
    Blank = Blank
    NoMail = NoMail
    Mails <- MCMails
    Identities <- MCIdentities
    SenderOf <- MCSenderOf
    DomainOf <- MCDomainOf
    Clients <- MCClients
CHECK_DEADLOCK FALSE
SYMMETRY Symmetry
INVARIANTS
    TypeOK
    HeldIsQueued
    ReleasedIsTrusted
    OneRejection
PROPERTIES
    QuarantineSpec
