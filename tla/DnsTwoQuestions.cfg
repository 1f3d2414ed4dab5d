SPECIFICATION Spec
CONSTANTS
    BufferSize = 36
    Messages <- TwoQuestions
    ResponseIp <- MCResponseIp
INVARIANTS
    QuestionSectionCopied
