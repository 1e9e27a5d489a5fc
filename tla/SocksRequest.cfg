SPECIFICATION Spec
CONSTANTS
    Programs <- MCPrograms
    Answers <- MCAnswers
INVARIANTS ConnectsAsAsked RepliesTruthfully DataIsNotTouched
CHECK_DEADLOCK FALSE
