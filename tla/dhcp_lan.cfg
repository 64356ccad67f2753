\* Two clients and two addresses; both ask for the first one, so that a client may
\* come to hold both.  The clock passes the end of every lease taken at its start.
SPECIFICATION Spec
CONSTANTS
  c1 = c1
  c2 = c2
  Clients <- MCClients
  LEASE_NUM = 2
  LEASE_DURATION = 1
  MaxXid = 2
  Nobody = Nobody
  NoAddr = NoAddr
  Outside = Outside
  Asked = {0}
  MaxNow = 2
  WireCap = 2
  ReplyCap = 2
  MaxRestarts = 0
SYMMETRY Symmetry
INVARIANTS
  TypeOK
  NoDoubleAssignment
  UseIsLeased
  GrantNotRefused
PROPERTY
  KeepsPromise
\* The bounds on the clock and on transactions stop the system.
CHECK_DEADLOCK FALSE
