SPECIFICATION Spec
CONSTANTS
  Pages <- MCPages
  Texts <- MCTexts
  MaxColumns = 4
  MaxTables = 3
INVARIANT
  ReadsWhatIsWritten
PROPERTY
  LayoutDoesNotMatter
