SPECIFICATION SetupSpec
CONSTANTS
  d1 = d1
  d2 = d2
  d3 = d3
  nginx = nginx
  tailscale = tailscale
  qbittorrent = qbittorrent
  cifs = cifs
  nas = nas
  m1 = m1
  m2 = m2
  root = root
  None = None
  Free = Free
  Vacant = Vacant
  Foreign = Foreign
  Torn = Torn
  Disks = {d1, d3}
  Unusable = {d3}
  Sightings = {{d1}, {d3}}
  Mounts = {root, m1, m2}
  Root = root
  Services = {nginx, tailscale, qbittorrent, cifs, nas}
  Controlled = {nginx, tailscale, qbittorrent}
  Nginx = nginx
  Tailscale = tailscale
  Cifs = cifs
  Nas = nas
  WithInputs = {qbittorrent}
  Presets <- MCPresets
  MaxAttempts = 2
INVARIANT FailedValidationFreesDestination
CHECK_DEADLOCK FALSE
