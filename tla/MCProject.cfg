SPECIFICATION ProjectSpec
CONSTANTS
    Specs <- BuildSpecs
    Labels <- BuildLabels
    ForeignName = "a_b"
    Seed <- BuildSeed
    Reserved = {"io", "ffi", "mem"}
    Keywords = {"test"}
    MaxCalls = 4
    MaxCommands = 2
    PackageRoots <- MCRoots
    StdBare = {"ffi", "mem", "io"}
    Existing <- MCExisting
    RootFile <- MCRootFile
    RootDeclares <- MCRootDeclares
    ImportLists <- MCImportLists
    Foreign <- MCForeign
    Contents <- MCContents
    MaxImports = 4
INVARIANTS
    ProjectTypeOK
    DeclaredBefore
    WrittenBackTheSame
    AddedToRoots
    ImportsBound
PROPERTIES
    ImplementsImportOrder
CHECK_DEADLOCK FALSE
