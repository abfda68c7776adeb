\* A verdict ends the run of the Runner.
SPECIFICATION Spec
CONSTANTS
    InitialIssues <- MCIssues
    Texts <- MCTexts
    Fields = {1}
    Related = {1, 2}
    Children = {1, 2}
    TextLimit = 5
    ShortLimit = 3
    MaxJournals = 2
    MaxRelations = 1
    MaxChildren = 1
    Budget = 22
    Revisions = {1, 2}
    MaxEdits = 1
    MaxMeddles = 1
CHECK_DEADLOCK FALSE
INVARIANTS TypeOK AcceptedIsGrounded StaleMeansEdited LeastIsDropped
