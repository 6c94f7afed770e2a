SPECIFICATION Spec
CONSTANTS
  Collections = {c1}
  Currencies = {"weth"}
  Strategies = {"linear"}
  Oracles = {"oracle"}
  DecimalsOf <- MCDecimals
  c1 = c1
  Full = {c1}
  FieldValues <- MCFieldValues
  ConfiguratorInputs <- MCInputs
  Wide = {{15, 16}, {0, 31}, {32}}
INVARIANT FieldsReadBack
