SPECIFICATION AssetSpec
CONSTANTS
  Starter = {"server", "cli"}
  Answering = "server"
  System = "gen"
  Workflows = {"gen"}
  Catalog = {"gen"}
  Contracts = {"build.yaml", "spec.yaml"}
  Texts = {"build.md", "spec.md"}
  SpecContract = "spec.yaml"
  SpecText = "spec.md"
  Namesake <- NamesOf
  Shipped <- Repository
  Contents <- Edited
  MaxEdits = 1
  MaxStops = 1
  Nothing = Nothing
PROPERTY CatalogIsReadOnly
CHECK_DEADLOCK FALSE
