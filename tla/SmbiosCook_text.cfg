CONSTANTS
  Structures <- MCStructures
  MaxString = 64
SPECIFICATION Spec
INVARIANTS TypeOK InsideStructure LineFits TextFits NothingLeftOut OneLinePerMember StringsRight
