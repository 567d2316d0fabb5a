\* A run is stopped between truncating and writing a file.
SPECIFICATION Spec
CONSTANTS
    user = user
    mail = mail
    old = old
    text = text
    newer = newer
    GenNames = {user, mail}
    OtherNames = {old}
    Texts = {text, newer}
    Revisions <- Dropping
    MaxMishaps = 1
    Absent = Absent
    Hand = Hand
    Headed = Headed
    Headless = Headless
CHECK_DEADLOCK FALSE
PROPERTIES
    NothingIsLeftOver
