SPECIFICATION TerminalSpec
CONSTANTS
  BUFFER_WIDTH = 4
  BUFFER_HEIGHT = 3
  LINE_CAPACITY = 3
  Bytes <- MCBytes
  PROMPT <- MCPrompt
  Keys = {"c", "e", "h", " "}
  Unprintable = {"u"}
  Texts <- MCTexts
  UNKNOWN <- MCUnknown
  Line <- MCLine
  MAX_EVENTS = 7
INVARIANT EditIsShown
