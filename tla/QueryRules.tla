----------------------------- MODULE QueryRules ------------------------------
(***************************************************************************)
(* The pure functions a query_data request runs through:                   *)
(* validate_query_request (domain/rules.py), _to_query_plan                *)
(* (application/query_service.py), compile_query_plan                      *)
(* (adapters/outbound/mysql/sql_compiler.py) and the request check of the  *)
(* Demo Agent (enterprise_data_mcp_demo/query_schema.py).                  *)
(*                                                                         *)
(* A request is JSON of any shape.  What the rules cannot tell apart is    *)
(* one value here: Text stands for a string or an object where a list is   *)
(* expected, Scalar for a number or a boolean there, and for anything of a *)
(* wrong type as an element of a list.                                     *)
(* A literal is what the rules see of a filter value: the kind of thing it *)
(* parses as, its rank among strings and its rank by meaning.              *)
(***************************************************************************)
EXTENDS Integers, SequencesExt

CONSTANTS
  Text, Scalar, Null, Absent,
  Letters,      \* what list() makes of Text: its characters, or its keys
  Names,        \* the strings a request names fields and aliases by
  SafeNames,    \* those that are plain identifiers
  Fields,       \* field_meta: granted by the policy and present in the view
  TypeOf,       \* their value types
  Filterable,
  Aggregatable,
  Columns,      \* _ALLOWED_COLUMNS of the query adapter
  MaxLimit, DefaultLimit,
  MaxProjection, MaxFilters, MaxAggregations, MaxGroupBy, MaxOrderBy, MaxInValues

ValueTypes == {"STRING", "INTEGER", "NUMBER", "BOOLEAN", "DATE", "DATETIME"}

(***************************************************************************)
(* Columns is a constant of the adapter, a list of plain identifiers.      *)
(* Fields comes from the policy file and the catalog; nothing in the code  *)
(* makes it a part of that list.                                           *)
(***************************************************************************)
ASSUME FieldsAssumption ==
  /\ Letters \in Seq(Names)
  /\ SafeNames \subseteq Names
  /\ Columns \subseteq SafeNames
  /\ Fields \subseteq Names
  /\ TypeOf \in [Fields -> ValueTypes]
  /\ Filterable \subseteq Fields
  /\ Aggregatable \subseteq Fields

ASSUME LimitsAssumption ==
  /\ MaxLimit \in Nat \ {0}
  /\ DefaultLimit \in 1 .. MaxLimit

ASSUME ShapesAssumption ==
  \A x \in {Text, Scalar, Null, Absent} : x \notin Names /\ x \notin Int

Comparisons == {"EQ", "NE", "GT", "GTE", "LT", "LTE"}
NullOps == {"IS_NULL", "IS_NOT_NULL"}
Operators == Comparisons \cup NullOps \cup {"IN", "BETWEEN"}
Functions == {"COUNT", "SUM", "AVG", "MIN", "MAX"}
Directions == {"ASC", "DESC"}

------------------------------------------------------------------------------
(* Requests.                                                                *)

Literal == [kind : STRING, spelled : Int, means : Int]
ListOf(S) == Seq(S \cup {Scalar}) \cup {Text, Scalar, Null}

\* a missing value is no literal, one that is not an array is one literal
FilterItem ==
  {f \in [field : Names \cup {Scalar}, op : STRING \cup {Scalar},
          shape : {"absent", "scalar", "array"}, items : Seq(Literal)] :
     /\ f.shape = "absent" => Len(f.items) = 0
     /\ f.shape = "scalar" => Len(f.items) = 1}
AggregationItem ==
  [function : STRING \cup {Scalar}, field : Names \cup {Scalar}, alias : Names \cup {Scalar}]
OrderItem == [field : Names \cup {Scalar}, direction : STRING \cup {Scalar}]

Payload ==
  [writeKey : BOOLEAN,                          \* raw_sql, sql or statement
   operation : {"absent", "write", "other"},
   strayKey : BOOLEAN,                          \* a key outside _ALLOWED_TOP_LEVEL
   dataset : {"granted", "unknown", "blank"},
   projection : ListOf(Names), groupBy : ListOf(Names),
   filters : ListOf(FilterItem), aggregations : ListOf(AggregationItem),
   orderBy : ListOf(OrderItem),
   limit : Int \cup {Absent, Scalar}]

------------------------------------------------------------------------------
(* Values.  "oddNan" is a non-finite number that is not on the list of      *)
(* spellings the rules refuse and that Decimal parses: -nan, sNaN, NaN1.    *)

Accepted(type) ==
  CASE type = "STRING"   -> {"text", "decimal", "nan", "oddNan", "date", "instant", "localTime"}
    [] type = "INTEGER"  -> {"integer"}
    [] type = "NUMBER"   -> {"decimal", "oddNan"}
    [] type = "BOOLEAN"  -> {"boolean"}
    [] type = "DATE"     -> {"date"}
    [] type = "DATETIME" -> {"instant"}

Literals(f) == ToSet(f.items)
TypesMatch(f) == \A v \in Literals(f) : v.kind \in Accepted(TypeOf[f.field])

\* Decimal raises InvalidOperation, which _ordered_pair does not catch
Incomparable(f) ==
  TypeOf[f.field] = "NUMBER" /\ \E v \in Literals(f) : v.kind = "oddNan"

\* _ordered_pair: numbers and booleans by value, everything else as strings
Ordered(f) ==
  IF TypeOf[f.field] \in {"NUMBER", "INTEGER", "BOOLEAN"}
    THEN f.items[1].means <= f.items[2].means
    ELSE f.items[1].spelled <= f.items[2].spelled

ValueOk(f) ==
  \/ f.op \in NullOps /\ f.shape = "absent"
  \/ f.op \in Comparisons /\ f.shape = "scalar" /\ TypesMatch(f)
  \/ f.op = "IN" /\ f.shape = "array" /\ Len(f.items) \in 1 .. MaxInValues /\ TypesMatch(f)
  \/ /\ f.op = "BETWEEN" /\ f.shape = "array" /\ Len(f.items) = 2
     /\ TypesMatch(f) /\ ~Incomparable(f) /\ Ordered(f)

FilterVerdict(f) ==
  IF f = Scalar \/ f.field \notin Filterable \/ f.op = Scalar THEN "VALIDATION_ERROR"
  ELSE IF f.op \notin Operators THEN "UNSUPPORTED_OPERATOR"
  ELSE IF ValueOk(f) THEN "accepted"
  ELSE IF /\ f.op = "BETWEEN" /\ f.shape = "array" /\ Len(f.items) = 2
          /\ TypesMatch(f) /\ Incomparable(f) THEN "raised"
  ELSE "VALIDATION_ERROR"

Refused(f) == FilterVerdict(f) # "accepted"

------------------------------------------------------------------------------
(* validate_query_request                                                   *)

\* MUTANT of WriteIntent: the operation key is not looked at
WriteKeyOnly(p) == p.writeKey

WriteIntent(p) == p.writeKey \/ p.operation = "write"

IsList(x) == x \notin {Text, Scalar, Null}
OrEmpty(x) == IF x = Null THEN <<>> ELSE x      \* _as_str_list

Shaped(p) ==
  /\ ~p.strayKey
  /\ p.projection = Null \/ (IsList(p.projection) /\ ToSet(p.projection) \subseteq Names)
  /\ p.groupBy = Null \/ (IsList(p.groupBy) /\ ToSet(p.groupBy) \subseteq Names)
  /\ IsList(p.filters) /\ IsList(p.aggregations) /\ IsList(p.orderBy)

IsDetail(p) == OrEmpty(p.projection) # <<>>
OneMode(p) == IsDetail(p) # (p.aggregations # <<>>)

ProjectionOk(p) == LET s == OrEmpty(p.projection) IN
  /\ Len(s) <= MaxProjection
  /\ IsInjective(s)
  /\ ToSet(s) \subseteq Fields

\* MUTANT of AggregationOk: without _safe_alias
AggregationAnyAlias(a) ==
  /\ a # Scalar
  /\ a.function \in Functions
  /\ a.field \in Aggregatable
  /\ a.function \in {"SUM", "AVG"} => TypeOf[a.field] \in {"INTEGER", "NUMBER"}

AggregationOk(a) ==
  /\ a # Scalar
  /\ a.function \in Functions
  /\ a.field \in Aggregatable
  /\ a.alias \in SafeNames
  /\ a.function \in {"SUM", "AVG"} => TypeOf[a.field] \in {"INTEGER", "NUMBER"}

AggregationsOk(p) ==
  /\ Len(p.aggregations) <= MaxAggregations
  /\ \A a \in ToSet(p.aggregations) : AggregationOk(a)
  /\ \A i, j \in DOMAIN p.aggregations :
       p.aggregations[i].alias = p.aggregations[j].alias => i = j

Aliases(p) == {a.alias : a \in ToSet(p.aggregations)}

\* MUTANT of GroupByOk: the fields are not looked up in the allowed ones
GroupByAnything(p) == LET s == OrEmpty(p.groupBy) IN
  /\ Len(s) <= MaxGroupBy
  /\ IsInjective(s)

GroupByOk(p) == LET s == OrEmpty(p.groupBy) IN
  /\ Len(s) <= MaxGroupBy
  /\ IsInjective(s)
  /\ ToSet(s) \subseteq Aggregatable

Sortable(p) ==
  IF IsDetail(p) THEN ToSet(p.projection) ELSE ToSet(OrEmpty(p.groupBy)) \cup Aliases(p)

OrderByOk(p) ==
  /\ Len(p.orderBy) <= MaxOrderBy
  /\ \A o \in ToSet(p.orderBy) :
       o # Scalar /\ o.field \in Sortable(p) /\ o.direction \in Directions
  /\ \A i, j \in DOMAIN p.orderBy : p.orderBy[i].field = p.orderBy[j].field => i = j

LimitVerdict(p) ==
  IF p.limit = Absent THEN "accepted"
  ELSE IF p.limit = Scalar THEN "VALIDATION_ERROR"
  ELSE IF p.limit < 1 THEN "VALIDATION_ERROR"
  ELSE IF p.limit > MaxLimit THEN "RESULT_LIMIT_EXCEEDED"
  ELSE "accepted"

FirstRefused(p) == p.filters[SelectInSeq(p.filters, Refused)]

\* MUTANT of Verdict: the limit is checked before the order
LimitBeforeOrder(p) ==
  IF WriteIntent(p) THEN "WRITE_OPERATION_FORBIDDEN"
  ELSE IF ~Shaped(p) \/ ~OneMode(p) \/ ~ProjectionOk(p) \/ Len(p.filters) > MaxFilters
    THEN "VALIDATION_ERROR"
  ELSE IF \E f \in ToSet(p.filters) : Refused(f) THEN FilterVerdict(FirstRefused(p))
  ELSE IF LimitVerdict(p) # "accepted" THEN LimitVerdict(p)
  ELSE IF AggregationsOk(p) /\ GroupByOk(p) /\ OrderByOk(p) THEN "accepted"
  ELSE "VALIDATION_ERROR"

\* the checks in their order; the first filter at fault decides among the filters
Verdict(p) ==
  IF WriteIntent(p) THEN "WRITE_OPERATION_FORBIDDEN"
  ELSE IF ~Shaped(p) \/ ~OneMode(p) \/ ~ProjectionOk(p) \/ Len(p.filters) > MaxFilters
    THEN "VALIDATION_ERROR"
  ELSE IF \E f \in ToSet(p.filters) : Refused(f) THEN FilterVerdict(FirstRefused(p))
  ELSE IF AggregationsOk(p) /\ GroupByOk(p) /\ OrderByOk(p) THEN LimitVerdict(p)
  ELSE "VALIDATION_ERROR"

Refusals == {"WRITE_OPERATION_FORBIDDEN", "VALIDATION_ERROR", "UNSUPPORTED_OPERATOR",
             "RESULT_LIMIT_EXCEEDED"}

------------------------------------------------------------------------------
(* _to_query_plan                                                           *)

AliasesOf(s) == [i \in DOMAIN s |-> s[i].alias]
BoundValues(f) == IF f.op \in NullOps THEN <<>> ELSE f.items

\* MUTANT of PlanOf: the null filters' missing value is bound as well
PlanBindingNulls(p) ==
  [projection   |-> IF IsDetail(p) THEN p.projection
                    ELSE OrEmpty(p.groupBy) \o AliasesOf(p.aggregations),
   filters      |-> p.filters,
   aggregations |-> p.aggregations,
   groupBy      |-> OrEmpty(p.groupBy),
   orderBy      |-> p.orderBy,
   binds        |-> FlattenSeq([i \in DOMAIN p.filters |->
                      IF p.filters[i].op \in NullOps THEN <<Null>> ELSE p.filters[i].items]),
   limit        |-> IF p.limit = Absent THEN DefaultLimit ELSE p.limit]

PlanOf(p) ==
  [projection   |-> IF IsDetail(p) THEN p.projection
                    ELSE OrEmpty(p.groupBy) \o AliasesOf(p.aggregations),
   filters      |-> p.filters,
   aggregations |-> p.aggregations,
   groupBy      |-> OrEmpty(p.groupBy),
   orderBy      |-> p.orderBy,
   binds        |-> FlattenSeq([i \in DOMAIN p.filters |-> BoundValues(p.filters[i])]),
   limit        |-> IF p.limit = Absent THEN DefaultLimit ELSE p.limit]

------------------------------------------------------------------------------
(* compile_query_plan: whether it raises, and the statement it builds.      *)
(* With safe identifiers no clause can hold the keywords or the semicolon   *)
(* that _assert_readonly_select looks for.  The table is not checked here:  *)
(* the catalog adapter refuses any other view before the rules see a field. *)

PlanAliases(plan) == {a.alias : a \in ToSet(plan.aggregations)}

\* every name is an alias of this plan or an allowed column
Known(plan, names) ==
  names \subseteq (PlanAliases(plan) \cap SafeNames) \cup (Columns \ PlanAliases(plan))

Compiles(plan) ==
  /\ Known(plan, ToSet(plan.projection))
  /\ \A f \in ToSet(plan.filters) : f.field \in Columns
  /\ \A a \in ToSet(plan.aggregations) : a.field \in Columns /\ a.alias \in SafeNames
  /\ ToSet(plan.groupBy) \subseteq Columns
  /\ Known(plan, {o.field : o \in ToSet(plan.orderBy)})
  /\ \A f \in ToSet(plan.filters) : f.op = "BETWEEN" => Len(f.items) = 2
  /\ \A f \in ToSet(plan.filters) : f.op \in Operators

\* the columns of the view a statement names
ColumnsRead(plan) ==
  (IF plan.aggregations = <<>> THEN ToSet(plan.projection) ELSE {})
    \cup {f.field : f \in ToSet(plan.filters)}
    \cup {a.field : a \in ToSet(plan.aggregations)}
    \cup ToSet(plan.groupBy)
    \cup ({o.field : o \in ToSet(plan.orderBy)} \ PlanAliases(plan))

Placeholders(f) ==
  CASE f.op \in NullOps     -> 0
    [] f.op = "IN"          -> Len(f.items)
    [] f.op = "BETWEEN"     -> 2
    [] f.op \in Comparisons -> 1

Params(f) ==
  CASE f.op \in NullOps           -> <<>>
    [] f.op \in {"IN", "BETWEEN"} -> f.items
    [] f.op \in Comparisons       -> <<f.items[1]>>

ParamsOf(plan) ==
  FlattenSeq([i \in DOMAIN plan.filters |-> Params(plan.filters[i])])

\* _where_clause goes through the filters
PlaceholdersOf(plan) ==
  LET upTo[n \in 0 .. Len(plan.filters)] ==
        IF n = 0 THEN 0 ELSE upTo[n - 1] + Placeholders(plan.filters[n])
  IN  upTo[Len(plan.filters)]

FetchLimit(plan) == plan.limit + 1

------------------------------------------------------------------------------
(* validate_query_request_args of the Demo Agent.                           *)

DemoListOk(x) == x # Text /\ x # Scalar

\* MUTANT of DemoLimitOk: no upper bound
DemoLimitFromOne(p) == p.limit = Absent \/ (p.limit # Scalar /\ p.limit >= 1)

DemoLimitOk(p) == p.limit = Absent \/ (p.limit # Scalar /\ p.limit \in 1 .. MaxLimit)

\* operation is not among its keys
DemoVerdict(p) ==
  IF p.writeKey THEN "WRITE_OPERATION_FORBIDDEN"
  ELSE IF \/ p.strayKey \/ p.operation # "absent"
          \/ p.dataset = "blank"
          \/ ~DemoListOk(p.projection) \/ ~DemoListOk(p.aggregations)
          \/ (OrEmpty(p.projection) # <<>>) = (OrEmpty(p.aggregations) # <<>>)
          \/ ~DemoLimitOk(p)
    THEN "VALIDATION_ERROR"
  ELSE IF Scalar \in {p.filters, p.groupBy, p.orderBy} THEN "raised"   \* list(5)
  ELSE "accepted"

\* list(x) where the server wants objects, and where it wants names
ListedItems(x) == IF x = Text THEN [i \in DOMAIN Letters |-> Scalar] ELSE OrEmpty(x)
ListedNames(x) == IF x = Text THEN Letters ELSE OrEmpty(x)

DemoArgs(p) ==
  [p EXCEPT !.projection = OrEmpty(@), !.aggregations = OrEmpty(@),
            !.filters = ListedItems(@), !.groupBy = ListedNames(@),
            !.orderBy = ListedItems(@),
            !.limit = IF @ = Absent THEN DefaultLimit ELSE @]
=============================================================================
