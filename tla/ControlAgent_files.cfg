SPECIFICATION Spec
CONSTANTS
    Threads = {t1, t2}
INVARIANTS
    TypeOK
    FilesWhole
    HouseHasCharacter
    ChangesAreLoaded
SYMMETRY Alike
