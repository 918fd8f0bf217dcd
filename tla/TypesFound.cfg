SPECIFICATION Spec
CONSTANTS
    a = a
    b2 = b2
    b = b
    broken = broken
    packed = packed
    unknown = unknown
    library = library
    int = int
    main = main
    lib = lib
    pkg = pkg
    pkg2 = pkg2
    none = none
    Types = {a, b2, b, broken, packed, unknown, library, int}
    Assemblies <- MCAssemblies
    Roots = {a, packed}
    Module <- MCModule
    Main = main
    Name <- MCName
    Known = {int}
    Owner <- MCOwner
    ID = none
    Refs = {pkg}
    Broken = {broken}
INVARIANTS
    TypeOK
    NamesAreFound
    NothingElse
PROPERTIES
    ComesToAnEnd
CHECK_DEADLOCK FALSE
