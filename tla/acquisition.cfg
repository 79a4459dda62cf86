SPECIFICATION Spec
CONSTANTS
  Handlers = {h1}
  Keepers = {k1}
  Places = {here, there}
  BadPlaces = {"bad"}
  shop = shop
  office = office
  TagKeys = {shop, office}
  small = small
  large = large
  SmallBoxes = {small}
  LargeBoxes = {large}
  n = n
  m = m
  way = way
  p = p
  q = q
  None = None
  Queries <- MCQueries
  Answers <- MCAnswers
  Items <- MCItems
  Bodies = {0, 3, 4}
  Archives <- MCArchives
  Gap = 2
  MaxBytes = 3
  MaxMembers = 2
  MaxUnpacked = 4
  MaxRatio = 2
INVARIANTS RefetchIsTheSearch WaysAreWhole SavedWithinCaps
PROPERTY NoStaleFailure
