CONSTANTS
  bot = bot
  renamed = renamed
  inbox = inbox
  box = box
  m1 = m1
  m2 = m2
  m3 = m3
  alpha = alpha
  beta = beta
  Names <- TwoBoxes
  Owners <- TwoOwners
  NamedFor <- Moves
  Ids <- TwoIds
  Senders = {alpha, beta}
  Instants <- OneInstant
  None = None
  NoImage = NoImage
SPECIFICATION Spec
SYMMETRY SymmetryOfTwo
INVARIANTS
  ImageIsStore
