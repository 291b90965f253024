SPECIFICATION BackendSpec
CONSTANTS
  Parts = {"realtime"}
  s1 = s1
  x1 = x1
  t1 = t1
  Schedules = {s1}
  Targets = {x1}
  Tenants = {t1}
  OpenTenants = {t1}
  TenantOf <- MCTenantOf
  ZoneOf <- MCZoneOf
  CronOf <- MCCronOf
  MaxRuns <- MCMaxRuns
  EndAt <- MCEndAt
  PostAt <- MCPostAt
  Dispatchers = {1, 2}
  Transacted = {TRUE, FALSE}
  Horizon = 5
  MaxCrashes = 1
  MaxEdits = 2
  None = None
  e1 = e1
  e2 = e2
  Emails = {e1, e2}
  AddressOf <- MCAddressOf
  Clients = {1, 2}
  Tokens = {1, 2, 3}
  MaxRequests = 5
  MaxUpsets = 1
  Hosts = {1, 2}
  Tabs = {1, 2}
  Logins = {1}
  Refreshes = {1, 2, 3}
  NeededRoles = {"viewer", "editor"}
  HeldRoles = {"editor", "viewer"}
  MaxRoleEdits = 2
  u1 = u1
  u2 = u2
  Founders = {u1, u2}
  Names = {"Acme", "ACME", "Acme_1"}
  KeyOf <- MCKeyOf
  BaseOf <- MCBaseOf
  SlugAt <- MCSlugAt
  SchemaAt <- MCSchemaAt
  PublicOrg <- MCPublicOrg
  MaxNumber = 3
  MaxPetitions = 3
  MaxKills = 1
  v1 = v1
  v2 = v2
  k1 = k1
  k2 = k2
  Viewers = {v1, v2}
  Sockets = {k1, k2}
  ViewerOf <- MCViewerOf
  EndpointOf <- MCEndpointOf
  Capacity = 1
  MaxEvents = 2
  MaxBreaks = 1
  r1 = r1
  p1 = p1
  Nobody = Nobody
  Entries = {r1}
  People = {p1}
  AuthorOf <- MCAuthorOf
  Scribes = {1, 2}
  MaxRetries = 2
  TableWorlds = {TRUE, FALSE}
  MaxFaults = 2
  MaxScribesLost = 1
CHECK_DEADLOCK FALSE
INVARIANT RoutedEventsAreHandled
