\* A tree that changes, links included, under one browser.
CONSTANTS
  Names <- MCNames
  Places <- MCPlaces
  LinkTo <- MCLinkTo
  Typed <- MCTyped
  MaxAhead = 2
SPECIFICATION FairSpec
INVARIANTS
  TypeOK
  AnswersFit
  CompleteIsWhole
  LinksLeadWhereListed
PROPERTIES
  EndComesCloser
  EveryAnswerEnds
