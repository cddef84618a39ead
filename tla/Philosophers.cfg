SPECIFICATION FairDiningSpec
CONSTANT MAX_PH = 4
INVARIANTS DiningInv OneSpareUnit NobodyForgotten
PROPERTY MealsGoOn
CHECK_DEADLOCK FALSE
