SPECIFICATION Spec
CONSTANTS
    rename = rename
    link = link
    role = role
    None = None
    Action = {rename, link, role}
    Twice = {rename}
    Form = {link}
    Choice = {role}
    MaxEvents = 2
INVARIANTS
    QuestionShown
CHECK_DEADLOCK FALSE
