SPECIFICATION Spec
CONSTANTS
    h1 = h1  h2 = h2  c1 = c1  c2 = c2  c3 = c3
    Handlers <- TwoHandlers
    Children <- ThreeChildren
    NoChild = NoChild
    Main = h1
    MaxDeaths = 1
INVARIANT Owned
