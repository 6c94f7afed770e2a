SPECIFICATION Spec
CONSTANTS
  Collections = {c1, c2}
  Currencies = {"weth", "weth2"}
  Strategies = {"linear"}
  Oracles = {"oracle"}
  DecimalsOf <- MCDecimals
  c1 = c1
  c2 = c2
  Full = {c1}
  FieldValues <- MCFieldValues
  ConfiguratorInputs <- MCInputs
  Wide = {{15, 16}, {32}}
INVARIANT TypeOK
INVARIANT FieldsIndependent
INVARIANT ReservesListedOnce
