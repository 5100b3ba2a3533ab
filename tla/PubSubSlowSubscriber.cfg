\* Two plain sockets: one slow subscriber and one peer.
CONSTANTS
  Sockets = {s1, s2}
  Tunnels = {}
  Names = {alpha}
  MaxTopics = 1
  MaxSubs = 2
  TopicHash <- LastTopicCell
  SubHash <- LastSubCell
  Nobody = nobody
  MaxDepth = 1
SPECIFICATION Spec
INVARIANTS PublishWorkIsBounded
