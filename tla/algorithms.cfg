CONSTANTS
  XLEN = 4
  W = 4
  Size = 5
  Chars = {0, 1, 2}
  Tristates = {"T", "S", "C", "V1", "V2"}
  Booleans = {"M"}
  Menu <- MCMenu
  modules_sym = "M"
  EvalExpr <- expr_calc_value
SPECIFICATION Spec
INVARIANTS AluMeaning CopyMeaning DivisionMeaning RewritesKeepMeaning SubmenuSound ChoiceExclusive FilesReadBack CacheCoherent
