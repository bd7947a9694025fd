SPECIFICATION Spec
CONSTANTS
  Sockets = {s1, s2}
  Visitors = {v1, v2}
  Users = {ann}
  Nobody = Nobody
SYMMETRY Symmetric
INVARIANT OnlineIsLive
