\* A capture, two rows to supersede it with, a claim and two tabs.
SPECIFICATION Spec
CONSTANTS
  Experiences = {e1, e2, e3}
  Claims = {c1}
  Sessions = {s1, s2}
  None = None
INVARIANTS
  TypeOK
  LostSupportIsRetracted
  ImagesAreCarried
SYMMETRY Symmetry
CHECK_DEADLOCK FALSE
