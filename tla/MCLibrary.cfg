SPECIFICATION LibrarySpec
INVARIANTS
    TextMeetsMeaning
    HashesReadTheKey
    OrdersAreLawful
    RandomnessIsSound
    BooksAreKept
    RetiredIsUnreachable
    NothingLeaks
    AnswersAreTrue
PROPERTIES
    ImplementsHeap
CHECK_DEADLOCK FALSE
