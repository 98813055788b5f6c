\* Five articles in two languages, every similarity relation; and one article
\* behind any number of redirects.
SPECIFICATION Spec
CONSTANTS
  Articles = {1, 2, 3, 4, 5}
  Language <- TwoLanguages
  MinBatch = 2
  MaxBatch = 3
  MaxRedirects = 5
INVARIANTS
  EveryArticlePlacedOnce
  GreedyByDefinition
  ExtractionSound
PROPERTY LaterArticleIsLocal
CHECK_DEADLOCK FALSE
