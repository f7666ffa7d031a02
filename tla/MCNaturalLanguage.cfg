\* Two devices with three messages: searches, selections, details and statuses
\* that a client sends interleave with a restart of the hub. Handlers stop when
\* the messages are used up.
CONSTANTS
    Devices = {d1, d2}
    p1 = p1
    p2 = p2
    Products = {p1, p2}
    NoProduct = NoProduct
    Texts <- MCTexts
    Lists <- MCLists
    Abilities <- MCAbilities
    Sent = {"IDLE", "THINKING"}
    NoOne = NoOne
    MaxMessages = 3
    MaxRestarts = 1
SPECIFICATION Spec
INVARIANTS TypeOK ContextIsLastShown SelectionCoherent AnswerNamesProduct FollowUpWasShown StatusIsStage
PROPERTIES StatusSettles
CHECK_DEADLOCK FALSE
