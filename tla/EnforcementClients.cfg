SPECIFICATION Spec
CONSTANTS
    Decisions = {d1}
    HttpClients = {h1}
    McpClients = {m1}
    ChatGptClients = {g1}
    Nil = Nil
INVARIANTS OneRunPerDecision RunsAreOnRecord ExecutedIsTrue EvidenceIsTrue
PROPERTIES ChatGptAnswers
CHECK_DEADLOCK FALSE
