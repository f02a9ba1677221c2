\* Bodies of up to three lines of every kind, with every outcome of
\* importer.submit and importer.commit.
CONSTANTS
    MaxLines = 3
SPECIFICATION Spec
INVARIANT TypeOK
INVARIANT CountReportsStored
INVARIANT AcceptedStoredOn200
INVARIANT UnreadableEndsImport
PROPERTY HandlerReturns
