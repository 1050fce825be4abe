SPECIFICATION Spec
CONSTANTS
    Answers <- MCAnswers
    Turns <- MCTurns
    Results <- MCResults
    Rewritings <- MCRewritings
    CallIds = {"c1", "c2"}
    ToolNames = {"read", "write"}
    MaxMessages = 3
INVARIANTS
    ResultsAreNamed
    AnswersComeBack
    NothingIsLost
PROPERTIES
    PrefixIsStable
