SPECIFICATION FairSpec
CONSTANTS
    Upload = {u1, u2}
    Fetch = {f1}
    Sections <- MCSections
    Render <- MCRender
    Valid = {"a", "t"}
    Start = "tmpl"
    UserText <- MCUserText
    Nil = Nil
INVARIANTS TypeOK TokenSealed TokenKept ReloadInForce
PROPERTIES UploadReported
