SPECIFICATION Spec
CONSTANTS
  Piece <- MCPiece
  Value <- MCValue
  MaxPieces = 5
INVARIANTS
  FormattingKeepsCode
  InliningKeepsCode
  LiteralMeansValue
