\* Two tabs: one with two answers under way that is left and returned to, or
\* loses its connection; one that is reloaded.  One break in all.
SPECIFICATION PanelSpec
CONSTANTS
  hall = hall
  cellar = cellar
  near = near
  far = far
  desktop = desktop
  phone = phone
  Macs = {hall}
  Proxies = {near}
  ProxyOf <- MCProxyOf
  Actions = {"read"}
  Nothing = Nothing
  MaxJobs = 2
  Panels = {desktop, phone}
  Roaming = {desktop}
  Reloading = {phone}
  Losing = {desktop}
  MaxInFlight <- MCMaxInFlight
  MaxBreaks = 1
INVARIANTS
  OneJob
  OwnProgressFollowed
PROPERTIES
  PollingEnds
\* Nothing moves while no job runs and nobody touches a panel.
CHECK_DEADLOCK FALSE
VIEW MCView
