\* An address the server is asked about, and a second such field or a file,
\* whose rule has no method, added to the form later.
SPECIFICATION Spec
CONSTANTS
    HasExtension = FALSE
    Accepts <- MCAccepts
    Email = email
    Tenant = tenant
    File = file
    Field = {email, tenant, file}
    Name <- MCName
    InitialField = {email}
    Attributes <- MCAttributes
    Value <- MCValue
    Replaces = {email}
    MaxFields = 2
    MaxFailures = 1
CHECK_DEADLOCK FALSE
INVARIANTS
    TypeOK
    SentIsChecked
    ShownIsInvalid
    LinkIsOfAnError
    PendingIsCounted
    WaitingIsWhole
