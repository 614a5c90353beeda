CONSTANTS
  m1 = m1
  m2 = m2
  None = None
  Words = {"a", "b"}
  Malformed = {"a+"}
  Subs <- SomeSubs
  TopicNames <- SomeTopicNames
  Messages = {m1, m2}
SPECIFICATION Spec
PROPERTY ClearsItsTopic
