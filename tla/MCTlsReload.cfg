SPECIFICATION Spec
CONSTANTS
    r1 = r1
    r2 = r2
    NoConfig = NoConfig
    MaxVersion = 1
    Reloaders <- TwoReloaders
SYMMETRY ReloaderSymmetry
INVARIANTS
    NeverBroken
    ConfigMatchesContext
