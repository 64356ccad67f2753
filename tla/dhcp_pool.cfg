\* Clients that ask for no address of their own.
SPECIFICATION Spec
CONSTANTS
  c1 = c1
  c2 = c2
  Clients <- MCClients
  LEASE_NUM = 2
  LEASE_DURATION = 1
  MaxXid = 2
  Nobody = Nobody
  NoAddr = NoAddr
  Outside = Outside
  Asked = {NoAddr}
  MaxNow = 2
  WireCap = 2
  ReplyCap = 1
  MaxRestarts = 1
SYMMETRY Symmetry
INVARIANTS
  NoDoubleAssignment
  UseIsLeased
  OneLeasePerClient
  DiscoverAnswered
\* The bounds on the clock and on transactions stop the system.
CHECK_DEADLOCK FALSE
