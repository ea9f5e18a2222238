---------------------------- MODULE MCQueryPath ------------------------------
(***************************************************************************)
(* A small instance of QueryPath: a view with a number, a date, a time     *)
(* stamp, a column the policy does not grant and a granted one that the    *)
(* adapter's list does not have, and requests that vary every part of a    *)
(* detail and of an aggregate query around a good one.                     *)
(***************************************************************************)
EXTENDS QueryPath

MCFields == {"sales", "day", "at", "margin"}
MCColumns == {"sales", "day", "at", "cost"}
MCSafe == MCColumns \cup {"margin", "total", "note"}
MCLetters == <<"day">>                     \* an object with the key "day"
MCNames == MCSafe \cup {"bad-alias"}
MCTypeOf == [f \in MCFields |->
  CASE f \in {"sales", "margin"} -> "NUMBER" [] f = "day" -> "DATE" [] f = "at" -> "DATETIME"]
MCFilterable == MCFields
MCAggregatable == {"sales", "day", "margin"}

MCLiteral(kind, spelled, means) == [kind |-> kind, spelled |-> spelled, means |-> means]
One == MCLiteral("decimal", 1, 1)
Ten == MCLiteral("decimal", 0, 10)         \* "10" sorts before "9"
NaN == MCLiteral("nan", 2, 0)
MinusNaN == MCLiteral("oddNan", 2, 0)
Monday == MCLiteral("date", 1, 1)
Sunday == MCLiteral("date", 2, 7)
TokyoMorning == MCLiteral("instant", 2, 1) \* the later spelling is the earlier instant
UtcEvening == MCLiteral("instant", 1, 2)
Nested == MCLiteral("array", 0, 0)

Filter(f, op, shape, items) == [field |-> f, op |-> op, shape |-> shape, items |-> items]
IsSet == Filter("sales", "IS_NOT_NULL", "absent", <<>>)
Above == Filter("sales", "GT", "scalar", <<One>>)
Sometimes == Filter("day", "IN", "array", <<Monday, Sunday>>)
Like == Filter("day", "LIKE", "scalar", <<Monday>>)

BadFilters == {
  Scalar, Like,
  Filter("cost", "EQ", "scalar", <<One>>),
  Filter("sales", "IS_NULL", "scalar", <<One>>),
  Filter("sales", "EQ", "scalar", <<NaN>>),
  Filter("sales", "IN", "array", <<>>),
  Filter("sales", "IN", "array", <<One, Nested>>),
  Filter("sales", "IN", "array", <<One, One, One>>),
  Filter("sales", "BETWEEN", "array", <<Ten, One>>),
  Filter("sales", "BETWEEN", "array", <<One, MinusNaN>>),
  Filter("sales", "BETWEEN", "array", <<One>>),
  Filter("day", "BETWEEN", "array", <<Sunday, Monday>>)}

GoodFilters == {
  IsSet, Above, Sometimes,
  Filter("margin", "IS_NULL", "absent", <<>>),
  Filter("sales", "EQ", "scalar", <<MinusNaN>>),
  Filter("sales", "BETWEEN", "array", <<One, Ten>>),
  Filter("at", "BETWEEN", "array", <<UtcEvening, TokyoMorning>>)}

FilterLists ==
  {<<>>, Text, Null, Scalar, <<IsSet, Sometimes>>, <<Sometimes, Above>>, <<Above, Like>>,
   <<Like, Scalar>>, <<Scalar, Like>>, <<IsSet, Above, Sometimes>>}
    \cup {<<f>> : f \in BadFilters \cup GoodFilters}

Agg(fn, f, alias) == [function |-> fn, field |-> f, alias |-> alias]
Order(f, d) == [field |-> f, direction |-> d]

Detail == [writeKey |-> FALSE, operation |-> "absent", strayKey |-> FALSE,
           dataset |-> "granted", projection |-> <<"sales">>, filters |-> <<>>,
           aggregations |-> <<>>, groupBy |-> <<>>, orderBy |-> <<>>, limit |-> 1]

Aggregate == [Detail EXCEPT !.projection = <<>>, !.groupBy = <<"day">>,
                            !.aggregations = <<Agg("SUM", "sales", "total")>>]

Limits == {Absent, Scalar, 0, 1, 2, 3}
Groupings == {<<>>, Null, Text, Scalar, <<"day">>, <<"cost">>, <<"margin">>, <<"at">>, <<"day", "day">>}
Orders == {<<>>, Null, Text, Scalar, <<Scalar>>, <<Order("sales", "ASC")>>,
           <<Order("total", "DESC")>>, <<Order("cost", "ASC")>>, <<Order("margin", "ASC")>>,
           <<Order("day", "UP")>>,
           <<Order("day", "ASC"), Order("day", "DESC")>>,
           <<Order("day", "ASC"), Order("total", "DESC")>>}
Projections == {<<>>, Null, Text, <<Scalar>>, <<"sales">>, <<"day", "sales">>,
                <<"sales", "sales">>, <<"cost">>, <<"margin">>}
Aggregations == {<<>>, Null, Text, <<Scalar>>,
                 <<Agg("SUM", "sales", "total")>>, <<Agg("SUM", "day", "total")>>,
                 <<Agg("MAX", "day", "cost")>>, <<Agg("COUNT", "sales", "day")>>,
                 <<Agg("COUNT", "sales", "bad-alias")>>, <<Agg("MEDIAN", "sales", "total")>>,
                 <<Agg("SUM", "cost", "total")>>, <<Agg("SUM", "margin", "total")>>,
                 <<Agg("SUM", "sales", "margin")>>,
                 <<Agg("SUM", "sales", "total"), Agg("AVG", "sales", "total")>>,
                 <<Agg("SUM", "sales", "total"), Agg("AVG", "sales", "note")>>}

MCRequests ==
  {[Detail EXCEPT !.projection = s, !.filters = f, !.limit = l] :
     s \in Projections, f \in FilterLists, l \in Limits}
  \cup {[Detail EXCEPT !.groupBy = g, !.orderBy = o, !.limit = l] :
          g \in Groupings, o \in Orders, l \in Limits}
  \cup {[Aggregate EXCEPT !.aggregations = a, !.groupBy = g, !.orderBy = o, !.limit = l] :
          a \in Aggregations, g \in Groupings, o \in Orders, l \in {Absent, 1, 3}}
  \cup {[Detail EXCEPT !.writeKey = w, !.operation = o, !.strayKey = k, !.dataset = d,
                       !.projection = s] :
          w \in BOOLEAN, o \in {"absent", "write", "other"}, k \in BOOLEAN,
          d \in {"granted", "unknown", "blank"}, s \in {<<"sales">>, <<"cost">>}}
=============================================================================
