SPECIFICATION Spec
CONSTANTS
  Chars <- Char
  MaxChars = 6
  Words = {"w"}
INVARIANT AcceptedIsValid

CHECK_DEADLOCK FALSE
