CHECK_DEADLOCK FALSE
SPECIFICATION AsmSpec
CONSTANTS
  wc = wc wo = wo ca = ca posn = posn cand = cand alien = alien
  Works = {wc, wo}
  OwnCancels = {ca}
  CancelTarget <- OfTheClose
  Earlier = Earlier
  WorkRole <- Trades
  WorkContract <- Traded
  Positions = {posn}
  Candidates = {cand, alien}
  RefContract <- Priced
  Underlying <- Shares
  Nothing = Nothing
  Outputs <- Answers
INVARIANT RecordAssembled
