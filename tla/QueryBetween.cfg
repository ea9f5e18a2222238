CONSTANTS
  Text = Text  Scalar = Scalar  Null = Null  Absent = Absent  None = None
  Letters <- MCLetters
  Names <- MCNames
  SafeNames <- MCSafe
  Fields <- MCFields
  TypeOf <- MCTypeOf
  Filterable <- MCFilterable
  Aggregatable <- MCAggregatable
  Columns <- MCColumns
  MaxLimit = 2
  DefaultLimit = 1
  MaxProjection = 2
  MaxFilters = 2
  MaxAggregations = 2
  MaxGroupBy = 1
  MaxOrderBy = 2
  MaxInValues = 2
  Requests <- MCRequests
  MaxMatches = 4
SPECIFICATION Spec
INVARIANTS BetweenIsOrdered
