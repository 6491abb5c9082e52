SPECIFICATION RegistrySpec
CONSTANTS
  FirstGroups <- CoreGroups
  WebEntries <- WebApis
  SyncDocs <- CoreDocs
  Manifests <- MCManifests
  Globals <- MCGlobals
  Functions <- MCFunctions
INVARIANTS RegistryTypes RegisteredOnce CellsCallTheirTools
