\* Listings behind symbolic links.
CONSTANTS
  Names <- MCNames
  Places <- MCPlaces
  LinkTo <- MCLinkTo
  Typed <- MCTyped
  MaxAhead = 2
SPECIFICATION Spec
INVARIANTS
  LinkedListingsLead
