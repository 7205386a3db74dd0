SPECIFICATION Spec
CONSTANTS
  siteA = siteA
  siteB = siteB
  article = article
  none = none
  Urls = {siteA, siteB, article}
  Pages = {siteA, siteB}
  NoPage = none
  Site <- MCSite
  Within <- MCWithin
  Half = 2
  Difficulties = {3}
  Samples <- MCSamples
  MaxRequests = 2
  MaxAccounts = 2
  MaxFound = 1
INVARIANTS
  TypeOK
  AccountsKeepApart
PROPERTIES
  ReportsExactly
  NoncesAreTheirAccounts
