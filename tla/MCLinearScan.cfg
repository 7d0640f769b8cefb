CONSTANTS
    RegType <- MCRegType
    Tests <- MCTests
SPECIFICATION Spec
INVARIANTS TypeOK LegalizedCode NoInterference ValuesArrive
