SPECIFICATION Spec
CONSTANTS
    Consoles = {c1, c2}
    Modules = {page1, research}
    First = page1
    Shared = {research}
    t1 = t1
    t2 = t2
    raw = raw
    page1 = page1
    research = research
    Texts = {t1, t2, raw}
    Refused <- TheRefused
    Normal <- TheNormal
    Early <- TheEarly
    Nothing = Nothing
    MaxSaves = 2
    MaxEdits = 2
    MaxOthers = 1
SYMMETRY Symmetry
INVARIANT CleanEditorsShowTheSite
PROPERTY SavesKnowThePresent
CHECK_DEADLOCK FALSE
