\* One tab, with two answers under way, that starts two jobs of up to two
\* devices behind two proxies, and is reloaded once.
SPECIFICATION PanelSpec
CONSTANTS
  hall = hall
  cellar = cellar
  near = near
  far = far
  desktop = desktop
  phone = phone
  Macs = {hall, cellar}
  Proxies = {near, far}
  ProxyOf <- MCProxyOf
  Actions = {"enable"}
  Nothing = Nothing
  MaxJobs = 2
  Panels = {desktop}
  Roaming = {}
  Reloading = {desktop}
  Losing = {}
  MaxInFlight <- MCMaxInFlight
  MaxBreaks = 1
INVARIANTS
  CountsAddUp
  ResultTells
PROPERTIES
  JobEnds
  ResultSeen
\* Nothing moves while no job runs and nobody touches a panel.
CHECK_DEADLOCK FALSE
