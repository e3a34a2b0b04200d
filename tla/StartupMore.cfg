CONSTANTS
  p1 = p1 p2 = p2 r1 = r1 r2 = r2 k1 = k1 k2 = k2 k3 = k3 k4 = k4
  Missing = Missing Empty = Empty e1 = e1 e2 = e2 e3 = e3
  master = master ventas = ventas url1 = url1 url2 = url2
  api = api health = health dash = dash None = None
  Processes = {p1, p2}
  Deployments <- BootAndReset
  MaxFaults = 1
  Replicas = {r1, r2}
  Pairs = {k1, k2, k3, k4}
  Volumes <- AllVolumes
  MaxCrashes = 1
  Runs = {e1, e2, e3}
  Services = {master, ventas}
  Urls = {url1, url2}
  Paths = {api, health}
  Names = {api, health, dash}
  Config <- Configs
  Dashed <- OwnNames
  Earlier <- NewOrOldKong
  MaxErrors = 2
  Scenarios = {"seed", "keys", "kong"}
SPECIFICATION StartupSpec
CHECK_DEADLOCK FALSE
INVARIANTS
  TypeOK
  SeedInv
  TypesOK
  AdminReachesEndpoints
  JwksIsCurrent
