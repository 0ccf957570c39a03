\* A session and an application write and edit, the application clears the tree, and
\* another session searches, and edits a file of the first.
SPECIFICATION LookupsSpec
CONSTANTS
    Names = {1, 2}
    Paths <- MCPaths
    Words = {"x", "y"}
    MaxWords = 3
    Written <- MCWritten
    Edits <- MCEdits
    Patterns <- MCPatterns
    Limits = {1, 3}
    Clients = {"session", "app", "reader"}
    Own <- MCOwn
    Globbers = {"reader"}
    Searches = {"y"}
    Roots <- MCRoots
    MaxGrepMatches = 2
    MaxReadLines = 2
    MaxReadBytes = 1
    MaxInt = 7
    Args <- MCArgs
    AgentsFiles <- MCAgents
    SkillsDir <- MCRoot
    SkillName = 1
    RolesDir <- MCRolesDir
    RoleNames = {1}
INVARIANTS
    LookupsTypeOK
    TreeClosed
    GlobFindsSteadyFiles
    GlobBounded
    ReadShowsSlice
    GrepFindsSteadyLines
    DiscoveryFindsSteady
    DiscoveryFailsIfDisturbed
PROPERTY EditReplacesExactly
