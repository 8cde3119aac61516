\* Three upgrades, visitors that may leave at any time, a ring of two.
SPECIFICATION Spec
CONSTANTS
    Upgrades = {u1, u2, u3}
    RecentLimit = 2
    Hasty = TRUE
SYMMETRY UpgradeSymmetry
INVARIANTS EachUpgradeCountedOnce RecentIsNewestFirst ActiveCountsTunnels
\* The listener is closed and every upgrade is over.
CHECK_DEADLOCK FALSE
