SPECIFICATION AttachSpec
CONSTANTS
  Attachers = {a1}
  Launch = Launch
  Nobody = Nobody
INVARIANT
  ParameterReadable
