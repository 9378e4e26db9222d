SPECIFICATION BuilderSpec
CONSTANTS
    Categories = {c1, c2}
    Subcategories = {s1}
    CatalogItems = {i1}
    Contents = {x, y}
    Members = {p1}
    Managers = {m1}
    Requests = {r1}
    None = None
    MaxEdits = 2
    MaxChoices = 1
    MaxCart = 2
SYMMETRY symmetry
INVARIANTS
    LinesAreCurrent
    BuilderShowsItsFilter
    RevisionsCarryTheirCart
    ItemsAreNamedOnce
PROPERTIES
    ChangesKeepItemsFiled
