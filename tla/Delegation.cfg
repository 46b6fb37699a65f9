SPECIFICATION Spec
CONSTANTS
  sys = sys team = team app = app base = base own = own
  db = db stripe = stripe acme = acme other = other usd = usd eur = eur exfil = exfil
  netAdmin = netAdmin capNetAdmin = capNetAdmin chown = chown
  Secrets = {db}
  Hosts = {stripe, exfil}
  Spellings = {netAdmin, capNetAdmin, chown}
  Canonical <- TheCanonical
  Dangerous <- TheDangerous
  Prefixes = {acme}
  Images = {acme, other}
  PrefixesOf <- ThePrefixesOf
  Currencies = {usd, eur}
  MaxMoney = 1
  Namespaces <- TheNamespaces
  Names <- TheNames
  Objects <- TheObjects
  Root = sys
  Facets <- TheFacets
  Pods <- ThePods
  Spends <- TheSpends
  NoParent = NoParent
  Absent = Absent
  MaxWrites = 3
  MaxPods = 1
INVARIANTS TypeOK Lineage Delegated
PROPERTIES KeepsPromise
