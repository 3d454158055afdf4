CONSTANTS
    ann = ann
    bob = bob
    t1 = t1
    Nobody = Nobody
    NoText = "none"
    Users <- MCUsers
    NationRoles <- MCNationRoles
    Tabs = {t1}
    Forms <- MCForms
    Bookmarks <- MCBookmarks
    Items <- MCItems
    Texts = {"acme"}
    MaxPages = 2
SPECIFICATION Spec
PROPERTIES
    PageLinkShowsItsPage
