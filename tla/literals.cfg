SPECIFICATION Spec
CONSTANT Texts <- MCTexts
INVARIANT TypeOK
INVARIANT NoOverflow
INVARIANT YieldsUtf8
PROPERTY TakesJson
