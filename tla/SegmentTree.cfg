SPECIFICATION Spec
CONSTANT Items = {0, 1, 2, 3, 4, 5, 6, 7}
INVARIANTS TypeOK AnswersForSet
PROPERTIES InsertTellsNew
