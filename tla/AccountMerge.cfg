SPECIFICATION Spec
CONSTANTS
  Assets = {"native", "USDC"}
  MaxAmount = 2
PROPERTIES OpenBalancesBlock
