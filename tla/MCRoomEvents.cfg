\* Two streams, queues of one, three events: the smallest queue overflows.
SPECIFICATION Spec
CONSTANTS
  Streams = {s1, s2}
  MaxDepth = 1
  MaxEvents = 3
SYMMETRY Symmetry
INVARIANTS TypeOK QueuesAreBounded StateLostOnlyToAFlood
PROPERTIES PagesNeverGoBack
CHECK_DEADLOCK FALSE
