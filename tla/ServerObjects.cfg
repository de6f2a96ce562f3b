\* Grants with two clerks, two names (one like a session's) and three
\* requests; a playground with two handlers and the ticker; addresses of two
\* bits, or of five.
CONSTANTS
  alice = alice
  tmp = tmp
  near = near
  g1 = g1
  g2 = g2
  guest = guest
  h1 = h1
  h2 = h2
  NoBlock = NoBlock
  NoGrant = NoGrant
  Source = app
  Sweeper = sweeper
  Idle = Idle
  Names <- TwoNames
  TmpNames <- TmpOnly
  Blocks <- OneBlock
  GrantIds <- TwoGrants
  Clerks <- TwoHandlers
  Modes <- BothModes
  MaxGrantFaults = 1
  MaxGrantRestarts = 1
  MaxCalls = 3
  Owners <- OneOwner
  Players <- TwoHandlers
  Bits4 = 2
  Prefix = 3
  Unrestricted = TRUE
  MaxDBFaults = 1
  MaxPlayRestarts = 1
SYMMETRY Interchangeable
SPECIFICATION Spec
VIEW Seen
INVARIANTS
  GrantTypeOK
  AccountMatchesList
  RuleMatchesList
  PlayTypeOK
  RecordedIsComplete
  NoStrayPlayground
  SameAddressesThroughout
  BareMeansOne
CHECK_DEADLOCK FALSE
