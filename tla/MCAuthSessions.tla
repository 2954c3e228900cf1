--------------------------- MODULE MCAuthSessions ---------------------------
EXTENDS AuthSessions, TLC

CONSTANTS ann, home, phone, p, s

\* One user with two clients, each with one request in progress at a time.
Accounts == [c \in Clients |-> ann]
Owners == [r \in Requests |-> IF r = s THEN phone ELSE home]

\* The two clients, with their requests, may change places.
ClientSymmetry ==
  {f \in Permutations(Clients \cup Requests) :
     /\ f[home] \in Clients /\ f[p] \in Requests
     /\ f[home] = home <=> f[p] = p}
=============================================================================
