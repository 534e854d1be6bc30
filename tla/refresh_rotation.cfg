SPECIFICATION Spec
CONSTANTS
  Callers = {c1, c2}
  Providers = {"grok", "gemini"}
  MaxTokens = 2
SYMMETRY Symmetry
INVARIANT RotationIsKept
