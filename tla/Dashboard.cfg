\* Four requests, three uses of the cookie and three inputs.
SPECIFICATION Spec
CONSTANTS
  Calls = {k1, k2, k3, k4}
  NoCall = NoCall
  MaxExchanges = 3
  MaxTokens = 2
  MaxInputs = 3
SYMMETRY Symmetry
INVARIANTS
  ExchangesDoNotOverlap
  RetryCarriesNewToken
  PreviewIsOfTheInput
\* The tab runs out of requests.
CHECK_DEADLOCK FALSE
