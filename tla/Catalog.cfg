SPECIFICATION CatalogSpec
CONSTANTS
  Products <- MCProducts
  Variants <- MCVariants
  Order <- MCOrder
  Inside <- MCInside
  Canon <- MCCanon
  Presets <- MCPresets
  QuestionWords <- MCQuestionWords
  MaxTerms = 2
  MaxEvidence = 3
  MaxCandidates = 2
  MaxSelected = 2
  RankConstant = 60
  Requests = {r1, r2}
  Forms <- MCForms
  InitialCatalog <- MCInitialCatalog
  CategoryLimits <- MCCategoryLimits
  Plans <- MCPlans
  Layouts <- MCLayouts
  Presented <- MCPresented
  SemanticEnabled = TRUE
  MaxMishaps = 1
SYMMETRY MCSymmetry
INVARIANTS
  CommandsAreAccounted
  EditsBuildOnEachOther
  AggregatesAreExact
  NothingIsPickedSilently
  EveryPriceIsShown
CHECK_DEADLOCK FALSE
