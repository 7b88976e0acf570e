SPECIFICATION SamplerSpec
CONSTANTS
  Hosts = {x, y}
  Ports = {1, 2}
  Sources = {a, b, c, d, e, f}
  z = z
  Punchers <- OneClient
  MaxVisited = 6
SYMMETRY SourceSymmetry
INVARIANTS SamplerInv OfferFits
