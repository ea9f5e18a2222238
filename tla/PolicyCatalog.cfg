CONSTANTS
  Blank = Blank  Unreadable = Unreadable  None = None
  Datasets <- MCDatasets
  Fields <- MCFields
  Tables = {"view", "base"}
  Profiles = {"demo", "audit"}
  Sensitive <- MCSensitive
  SystemMaxLimit = 2
  Files <- MCFiles
  Edits <- MCEdits
  Views <- MCViews
  Projections <- MCProjections
  CallerProfile = "demo"
  AuthorizedTable = "view"
  AllowedColumns <- MCAllowed
SPECIFICATION Spec
INVARIANTS TypeOK GrantsAreWritten NothingUngranted ListingIsBracketed PromisesKept
