SPECIFICATION Spec
CONSTANTS
  Session = {s1, s2}
  Node = {n1}
  Default = {d1}
INVARIANT DefaultsConfigured
