CONSTANTS
  TableOrder <- MCTableOrder
  Definitions <- MCDefinitions
  Initially <- MCInitially
  Elsewhere <- MCElsewhere
  MaxDDL = 2
  Singular <- MCSingular
  Parts <- MCParts
  Capital <- MCCapital
  Unspeakable = {"1st"}
  Methods = {"As", "Select", "Update"}
SPECIFICATION Spec
INVARIANTS TypeOK NamesAreDistinct ReferencesAreUsable MetadataMatchesCatalog
PROPERTIES KeysWhereTheyBelong ForeignKeysPairColumns
CHECK_DEADLOCK FALSE
