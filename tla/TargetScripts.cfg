CONSTANTS
    DigestSteps <- MCDigestSteps
    Runs = {a, b}
    Cases <- MCCases
    Faults <- MCFaults
    MaxKills = 1
    Manifests <- MCManifests
    Trees <- MCTrees
    MaxEdits = 1
    Packages <- MCPackages
    Arguments <- MCArguments
    MaxCalls = 2
    U64 = 16
    U32 = 8
INIT ScriptsInit
NEXT ScriptsNext
INVARIANTS PassIsAgreement QuietRunCloses ManifestExact AcceptedWasThere SelfTestsHold AsOfficial
SYMMETRY RunSymmetry
CHECK_DEADLOCK FALSE
