CONSTANTS
  Request = request
  Forward = forward
  Run <- MCRun
  Direct = {lan, tailscale}
  Frp = frp
SPECIFICATION Spec
CHECK_DEADLOCK FALSE
INVARIANT ViewerKeepsRoute
