SPECIFICATION Spec
CONSTANTS
  SetupJobs = {1, 2}
  Selections = {{"glmocr-sdk", "reranker"}}
  MaxBoots = 1
  MaxRoutes = 1
  Nobody = Nobody
  Peers = {h1, h2}
  Boxes = {b1, b2}
  Loops = {t1}
  OldBox = b2
  Keys = {"old", "new"}
  MaxRegistry = 2
  MaxTurns = 1
  MaxWrites = 1
  None = None
 
PROPERTIES  FleetSees
CONSTRAINT Small
CHECK_DEADLOCK FALSE
