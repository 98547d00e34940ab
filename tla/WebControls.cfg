SPECIFICATION Spec
CONSTANTS
    Rows <- MCRows
    Replies <- MCReplies
    Terms = {"", "d", "lm", "deepseek"}
    LongTerms = {"lm", "deepseek"}
    Columns = {"tier", "price"}
    MaxSelected = 3
    Colours = 3
INVARIANTS SuggestionsSound ChartTellsApart
PROPERTIES OpeningKeepsTheme
