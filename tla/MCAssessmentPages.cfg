SPECIFICATION Spec
CONSTANTS
    FormSheets <- MCFormSheets
    DirectSheets <- MCDirectSheets
    Call = {c1, c2}
SYMMETRY CallSymmetry
INVARIANTS
    TypeOK
    ShownWasSubmitted
    BetterAnswersNeverLose
    ScalesAgree
    WeakDomainsAreNamed
