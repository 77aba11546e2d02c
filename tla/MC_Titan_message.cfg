CONSTANTS
  Keys = {k1, k2}
  Ephemeral = {e1, e2}
  Junk = {z}
  MemoCap = 20
  MaxOutputs = 2
  Msgs <- MCMsgs
SYMMETRY MCSymmetry
SPECIFICATION Spec
INVARIANTS MessageRoundTrip
