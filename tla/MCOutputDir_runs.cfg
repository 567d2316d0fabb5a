\* Three revisions, three mishaps; in the end the directory comes to rest.
SPECIFICATION FairSpec
CONSTANTS
    user = user
    mail = mail
    old = old
    text = text
    newer = newer
    GenNames = {user, mail}
    OtherNames = {old}
    Texts = {text, newer}
    Revisions <- Evolving
    MaxMishaps = 3
    Absent = Absent
    Hand = Hand
    Headed = Headed
    Headless = Headless
CHECK_DEADLOCK FALSE
PROPERTIES
    HandWrittenIsKept
    RunRepairs
    DirectoryComesToRest
