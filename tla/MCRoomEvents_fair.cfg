\* One stream, a queue of two and four events under the event loop's fairness.
SPECIFICATION FairSpec
CONSTANTS
  Streams = {s1}
  MaxDepth = 2
  MaxEvents = 4
PROPERTIES ImplementsFeed LostStreamsAreForgotten QueuedEventsAreDelivered
CHECK_DEADLOCK FALSE
