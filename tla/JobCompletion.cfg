SPECIFICATION FairSpec
CONSTANTS
    Targets = {t1, t2, t3}
    CancelTx = CancelTx
    Nobody = Nobody
INVARIANTS
    CompletedMeansDone
PROPERTIES
    DoneStaysDone
    ImplementsOutcome
    ResultsArrive
