CONSTANTS
    PayloadWords = 3
    SeqLimit = 3
    TxLimit = 3
SPECIFICATION Spec
INVARIANTS TypeOK AcceptedIsActive ConfirmedIsMine
PROPERTIES CompletionSound ImplementsDevice
