SPECIFICATION Spec
CONSTANT Texts <- MCTexts
INVARIANTS InBounds TokensSpellText StringValue
PROPERTY Terminates
