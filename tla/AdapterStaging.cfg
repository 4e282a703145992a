SPECIFICATION FairSpec
CONSTANTS
  App = {p1, p2}
  Attempt = {a1, a2}
  Name = {n1}
  NoOne = NoOne
  Foreign = Foreign
INVARIANT OneStory
PROPERTIES
  NothingIsTakenBack
  OnlyVerifiedIsPublished
  ImplementsStore
  AdmissionIsReleased
