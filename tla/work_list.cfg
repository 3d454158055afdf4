CONSTANTS
    ann = ann
    bob = bob
    t1 = t1
    t2 = t2
    Nobody = Nobody
    NoText = "none"
    Users <- MCUsers
    NationRoles <- MCNationRoles
    Tabs = {t1, t2}
    Forms <- MCForms
    Bookmarks <- MCBookmarks
    Items <- MCItems
    Texts = {"acme"}
    MaxPages = 2
SPECIFICATION Spec
SYMMETRY Symmetry
INVARIANTS
    TypeOK
    ListedAsTicked
PROPERTIES
    BareShowsLastSearch
    PageLinkKeepsSearch
    ChipDropsOnlyItsFilter
