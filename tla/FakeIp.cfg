SPECIFICATION Spec
CONSTANTS
    Hosts = {h1, h2, h3}
    First = 4
    Last = 7
    Size = 2
    None = None
SYMMETRY Symmetry
INVARIANTS
    Mirror
    AnswerResolves
