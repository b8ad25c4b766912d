\* Two holders, two tokens, two snapshots: for each balance a checkpoint of the
\* first period, of the second, of both or of none.  A summary is fresh for two
\* ticks.
SPECIFICATION DeskSpec
CONSTANTS
  Holders = {h1, h2}
  MaxSupply = 2  MaxSnapshots = 2
  Ttl = 2
  None = None  Unread = Unread
SYMMETRY Symmetry
CONSTRAINT AskedFirst
INVARIANTS BooksAddUp EligibilityIsTrue
PROPERTY ImplementsPromise
