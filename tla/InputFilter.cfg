SPECIFICATION Spec
CONSTANTS
    MaxVar = 6
    MaxFile = 6
    DataTypes <- MCDataTypes
    Requests <- MCRequests
    Others <- MCOthers
    MaxRequest = 100
    MaxPost = 100
    Units <- MCUnits
INVARIANTS TypeOK FieldsAreWhole FilesAreSent ContentIsContiguous HandlerSees
PROPERTIES RunReturns
CHECK_DEADLOCK FALSE
