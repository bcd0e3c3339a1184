CONSTANTS
  Given <- SmallGiven
  Twins = {x, y}
SPECIFICATION GuardsSpec
INVARIANTS GuardsTypeOK NothingUnchecked RecordsAgree AssistantKeeps  ModelsKept ComputedRight
SYMMETRY TwinSymmetry
CHECK_DEADLOCK FALSE
