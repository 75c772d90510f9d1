SPECIFICATION Spec
CONSTANTS
    alice = alice
    bob = bob
    carol = carol
    MockKey = MockKey
    MockPrivate = MockPrivate
    NoKey = NoKey
    Users = {alice, bob, carol}
    Name <- MCName
    Published <- MCPublished
    Lists <- MCLists
    Bodies <- MCBodies
    NewLimit = 1
    MailLimit = 2
CHECK_DEADLOCK FALSE
INVARIANTS
    AddressedToRecipient
