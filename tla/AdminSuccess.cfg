SPECIFICATION Spec
CONSTANTS
    Upload = {u1}
    Fetch = {f1}
    Sections <- MCSections
    Render <- MCRender
    Valid = {"a", "t"}
    Start = "tmpl"
    UserText <- MCUserText
    Nil = Nil
INVARIANT SuccessMeansReloaded
