SPECIFICATION FrontSpec
CONSTANTS
    Worlds <- FrontWorlds
    SearchPaths <- Search
    Packages <- NoPackages
    Prelude <- PreludeName
    MaxErrors = 2
    MaxDepth = 6
    TypeItems <- MCTypeItems
    FlowItems <- MCFlowItems
    ModuleItems <- MCModuleItems
    ImplItems <- MCImplItems
    Aliases <- MCAliases
    Locals <- NoLocals
    Modules <- NoModules
    Shapes <- MCShapes
    Records <- MCRecords
    Closures <- MCClosures
    Impls <- MCImpls
    SafeShapes <- MCSafe
CHECK_DEADLOCK FALSE
INVARIANTS
    ImportsFirst
    OwnText
    LinesKept
    SuccessHasProduct
    TypeTextIsExact
    NothingGained
    InstancesHaveTheirOwnName
    InterfaceReadsBack
    InstanceIsTheTemplate
PROPERTIES
    CircularIsInProgress
    Terminates
