SPECIFICATION ShellSpec
CONSTANTS
  Nil = Nil
  Any = Any
  Users = {u1, u2}
  Stale = Stale
INVARIANTS
  ShownUserIsSessionUser
  SessionIsAsLeft
  PanelsFitTheWindow
PROPERTIES
  RoutingSettles
  BadSessionLeadsToSignIn
