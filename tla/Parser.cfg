\* Up to six characters: two lines with a field each, or a room and a message.
SPECIFICATION Spec
CONSTANTS
  NL = nl
  CR = cr
  TextChars = {"|", ">", nl, cr, "x"}
  MaxText = 6
  IdentChars = {":", " ", "p", "a"}
  MaxIdent = 6
INVARIANTS FramesParseAsLines IdentsReadBack
