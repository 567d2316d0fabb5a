\* Somebody has a file of his own under the name of a generated one.
SPECIFICATION Spec
CONSTANTS
    user = user
    mail = mail
    old = old
    text = text
    newer = newer
    GenNames = {user, mail}
    OtherNames = {old}
    Texts = {text, newer}
    Revisions <- Dropping
    MaxMishaps = 0
    Absent = Absent
    Hand = Hand
    Headed = Headed
    Headless = Headless
CHECK_DEADLOCK FALSE
PROPERTIES
    HandWrittenIsLeftAlone
