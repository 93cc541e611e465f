SPECIFICATION Spec
CONSTANTS
  CompanyForms <- McCompanyForms
  AuthorityWords <- McAuthorityWords
  NonDistinctive <- McNonDistinctive
  InternalNumbers <- McInternalNumbers
  SenderMarkers <- McSenderMarkers
  ReferenceMarkers <- McReferenceMarkers
  LegalMarkers <- McLegalMarkers
  DefaultNames <- McDefaultNames
  Letters <- McLetters
  Folded <- McFolded
  PartOf <- McPartOf
  PrefixOf <- McPrefixOf
  SuffixOf <- McSuffixOf
  Placeholders <- McPlaceholders
  MaxTitleLength <- McMaxTitleLength
  MaxValueLength <- McMaxValueLength
  MaxTemplateLength <- McMaxTemplateLength
  Texts <- McTexts
  Directories <- McDirectories
  FieldQuestions <- McFieldQuestions
  AmountLimit <- McAmountLimit
  Amounts <- McAmounts
  Characters <- McCharacters
  TitleQuestions <- McTitleQuestions
  MaxRuns <- McMaxRuns
  Pending = Pending
INVARIANTS
  CourtsAreNoSenders
  SenderIsNotPassedOver
  EqualEntriesMatchNobody
  WeakerFindingsDoNotInterfere
  ModelOnlyFillsGaps
  CreditNoteMirrorsInvoice
  AmountsReadRight
  TitleIsClean
  TitleSettles
CHECK_DEADLOCK FALSE
