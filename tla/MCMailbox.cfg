CONSTANTS
  bot = bot
  renamed = renamed
  inbox = inbox
  box = box
  m1 = m1
  m2 = m2
  m3 = m3
  alpha = alpha
  beta = beta
  Names <- OneBox
  Owners <- OneOwner
  NamedFor <- StaysPut
  Ids <- ThreeIds
  Senders = {alpha}
  Instants <- TwoInstants
  None = None
  NoImage = NoImage
SPECIFICATION Spec
SYMMETRY SymmetryOfThree
INVARIANTS
  ImageIsStore
  DeliveryAgrees
  WithheldIsSpokenFor
  AccountExplainsState
PROPERTY
  MessagesGoForward
