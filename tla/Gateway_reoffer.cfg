\* The SG repeats an offer.
SPECIFICATION FairSpec
CONSTANTS
  Ids = {a}
  MaxSessions = 2
  Repeats = 1
  ReOffers = TRUE
INVARIANTS
  OfferIsNew
CHECK_DEADLOCK FALSE
