SPECIFICATION Spec
CONSTANTS
  Width = 2
  Word = {0, 1}
  NoMessage = NoMessage
PROPERTIES BoxSpec
