\* A run and its Mignons end: behaviours stop.
CHECK_DEADLOCK FALSE
SPECIFICATION Spec
CONSTANTS
  wc = wc wo = wo ca = ca posn = posn cand = cand alien = alien
  Works = {wc, wo}
  OwnCancels = {ca}
  CancelTarget <- OfTheClose
  Earlier = Earlier
  WorkRole <- Trades
  WorkContract <- Traded
  Positions = {posn}
  Candidates = {cand, alien}
  RefContract <- Priced
  Underlying <- Shares
  Nothing = Nothing
  Outputs <- Answers
  mignon = mignon other = other quote = quote page = page
  Mignons = {mignon, other}
  Refs = {quote}
  Urls = {page}
  KeyOf <- AsSpelled
  Wants = {"value"}
  Briefs <- Prompts
  Reports <- FirstReplies
  Patches <- Repairs
  Keep = Keep
  Extracts = {1}
  MaxRepairs = 2
  Target = 2
  MaxReads = 2
  Unread = Unread
INVARIANTS TypeOK RecordSound ReportsSound
