\* One lab on one router; two failures of stop go unnoticed, which is as many as
\* ClosedWithoutOwner tolerates. Two new clients may be added in part.
CONSTANTS
  MaxIgnored = 2
  Peer = {p1, p2, p3}
  First = {p1}
SPECIFICATION PeersSpec
INVARIANTS
  PeersTypeOK
  RoutedOnlyThroughPolicy
  IngressGuarded
  UnownedIsClean
  ClosedWithoutOwner
  PeersServed
  AllOrNothing
