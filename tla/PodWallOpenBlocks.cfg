SPECIFICATION Spec
CONSTANTS
  here = here there = there default = default db = db inside = inside stripe = stripe
  exfil = exfil netAdmin = netAdmin capNetAdmin = capNetAdmin chown = chown acme = acme
  latest = latest any = any odd = odd ten = ten usd = usd data = data
  alice = alice
  Secrets = {db}
  Hosts = {inside, stripe, exfil}
  Spellings = {netAdmin, capNetAdmin, chown}
  Canonical <- TheCanonical
  Dangerous <- TheDangerous
  Prefixes = {acme}
  Images = {acme, latest}
  PrefixesOf <- ThePrefixesOf
  Currencies = {usd}
  MaxMoney = 20000
  Namespaces = {here, there}
  Accounts = {default}
  Labels <- TheLabels
  Blocks = {any, odd, ten}
  ZeroBlocks = {any, odd}
  OpenBlocks = {any}
  Covers <- TheCovers
  Absent = Absent
  Cluster = Cluster
  Pinned = {acme}
  TrustedPrefixes = {acme}
  Volumes = {data}
  Unreadable = Unreadable
  MaxWord = 20000
  Suffixes = {"", "G", "Gi"}
  Multiple <- TheMultiple
  Gib = 8
  CorePrice = 2 GibPrice = 1
  Facets <- TheFacets
  Specs <- TheSpecs
  Debuggers <- TheDebuggers
  Policies <- OddPolicies
  Roles <- TheRoles
  Bindings <- TheBindings
  MaxObjects = 2
  Spends <- TheSpends
  Submissions <- TheSubmissions
  Signers = {alice}
  Unsigned = Unsigned
  InCluster = {inside}
  Here = here
  NoPod = NoPod
INVARIANT SlashZeroIsUnrestricted
