CONSTANTS
    Alice = Alice
    Bob = Bob
    Threads = 2
    Dialogues <- MCDialogues
    Width = 4
    MaySplit = TRUE
    MayDie = TRUE
SPECIFICATION Spec
INVARIANTS
    TypeOK
    NoFrameSwallowed
    ReportsAgree
    QuietClose
PROPERTIES
    Termination
