\* An edit of the corpus and the first order of the profile overlap.
SPECIFICATION ProfilesSpec
CONSTANTS
  Ids = {"local-paper"}
  DefaultProfile = "local-paper"
  DefaultCorpus = 10
  Corpora = {20}
  Cost = 3
  Overlap = TRUE
  MaxOrders = 2
PROPERTIES
  CorpusChangesPrecedeTrading
CHECK_DEADLOCK FALSE
