SPECIFICATION LiveSpec
CONSTANTS
  Models <- MCModels
  Vocabulary <- MCVocabulary
  MaxRequests = 3
  MaxTokens = 2
INVARIANTS
  TypeOK
  StatusIsConnection
  HandlersReadPresent
  UpdatersNeverThrow
  AnswersItsConversation
  ThinkingApart
PROPERTIES
  ComesToRest
  ImplementsConversation
CHECK_DEADLOCK FALSE
