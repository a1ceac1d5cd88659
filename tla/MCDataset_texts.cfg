SPECIFICATION Spec
CONSTANTS
  Specs <- SomeSpecs
  MaxAttrs = 2
  Lens = {0, 1, 8, 11, 20, 60, 300}
  HeadLens = {109, 30, 133}
INVARIANTS InMemory NeverGrows VectorWhole BodyIsPrefix OverrunByOne
