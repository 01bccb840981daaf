\* A deviation: the editor is emptied while its preview is on its way, and the
\* pane spins for ever.
SPECIFICATION Spec
CONSTANTS
  Calls = {k1, k2, k3, k4}
  NoCall = NoCall
  MaxExchanges = 3
  MaxTokens = 2
  MaxInputs = 3
SYMMETRY Symmetry
INVARIANT
  EmptiedEditorRests
\* The tab runs out of requests.
CHECK_DEADLOCK FALSE
