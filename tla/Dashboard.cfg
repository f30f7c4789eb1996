SPECIFICATION MCSpec
CONSTANTS
    rename = rename
    link = link
    role = role
    None = None
    Action = {rename, link, role}
    Twice = {rename}
    Form = {link}
    Choice = {role}
    MaxEvents = 2
    b1 = b1
    b2 = b2
    d1 = d1
    d2 = d2
    f1 = f1
    f2 = f2
    Null = Null
    Batch = {b1, b2}
    Dir = {d1, d2}
    Home = d1
    Name = {f1, f2}
    Upload <- MCUpload
    Others <- MCOthers
    MaxLost = 1
INVARIANTS
    AnswersGoToShown
    SudoConfirmed
PROPERTIES
    QuestionsEnd
    AskedBeforeOverwriting
    BatchEnds
CHECK_DEADLOCK FALSE
