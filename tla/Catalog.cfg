\* Two threads price estimates of two lookups from a list of two pages.
CONSTANTS
  Workers = {w1, w2}
  Pages = 2
  MaxRetries = 1
  Lookups = 2
  MaxDay = 2
  NoList = NoList
  Listing <- MCListing
  Questions <- MCQuestions
  Region = "us-central1"
SPECIFICATION FairSpec
INVARIANTS
  ListComplete
  CanonicalMatch
PROPERTIES
  PricesEventuallyCurrent
  EstimateEnds
