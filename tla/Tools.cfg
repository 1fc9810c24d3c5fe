SPECIFICATION Spec
CONSTANTS
  pc = pc  work = work  den = den  s1 = s1  s2 = s2
  Devices = {pc, work, den}
  NameOf <- MCNameOf
  Capabilities <- MCCapabilities
  Natives <- MCNatives
  Servers = {s1, s2}
  Published <- MCPublished
  MaxConnects = 3
INVARIANTS RunsWhereOffered
