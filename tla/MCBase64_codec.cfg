SPECIFICATION Spec
CONSTANTS
  Inputs <- ShortInputs
  Texts <- ShortTexts
INVARIANTS RoundTrip EncodedLength DecodedLength
