---------------------------- MODULE MCSubscribers ----------------------------
EXTENDS Subscribers, TLC

CONSTANTS e1, e2, r1, r2, b1, b2

SubscriberSymmetry ==
  Permutations(Emails) \cup Permutations(Requests) \cup Permutations(Notifiers)
=============================================================================
