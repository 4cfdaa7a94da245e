SPECIFICATION TrafficSpec
CONSTANTS
  k1 = k1  k2 = k2  k3 = k3  k4 = k4  c1 = c1  c2 = c2
  Nil = Nil
  Keys = {k1, k2, k3}
  Callers = {c1}
  MaxEntries = 0
  SampleSize = 2
PROPERTIES ImplementsStore ExpiredReclaimed
