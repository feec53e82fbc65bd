CONSTANTS
    Book <- MCBook
    MealBound = 2
SPECIFICATION WebShoppingSpec
PROPERTIES
    CheckedStateSurvives
CHECK_DEADLOCK FALSE
