SPECIFICATION Spec
CONSTANTS
    s1 = s1
    s2 = s2
    stuffed = stuffed
    spacedDot = spacedDot
    DataLine = DataLine
    QuitLine = QuitLine
    Dot = Dot
    Sessions <- MCSessions
    LinesOf <- MCLinesOf
    SpacedDots = {spacedDot}
    Stuffed = {stuffed}
    MailLimit <- MCMailLimit
    LineLimit <- MCLineLimit
CHECK_DEADLOCK FALSE
INVARIANTS
    AcceptedIsTranslated
