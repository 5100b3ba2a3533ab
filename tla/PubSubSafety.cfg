\* One tunnel, so that a send can tear down inside publish.
CONSTANTS
  s1 = s1
  s2 = s2
  Sockets = {s1, s2}
  Tunnels = {s1}
  Names = {alpha, beta}
  MaxTopics = 2
  MaxSubs = 3
  TopicHash <- LastTopicCell
  SubHash <- LastSubCell
  Nobody = nobody
  MaxDepth = 3
SYMMETRY SocketSymmetry
SPECIFICATION Spec
INVARIANTS ListsMatchRows IndexesAgree NoDeadSubscriber
           FramesKeepTheirTopic DeliveredOnce EveryoneServed CapacityReturns
