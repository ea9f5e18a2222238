--------------------------- MODULE MCPolicyCatalog ---------------------------
(***************************************************************************)
(* A small instance of PolicyCatalog: two names for datasets, one of them  *)
(* a sensitive word as well, three columns of which the query adapter      *)
(* knows two, and policy files in both forms around good ones.             *)
(***************************************************************************)
EXTENDS PolicyCatalog

MCDatasets == {"stock", "token"}
MCFields == {"day", "sales", "cost"}
MCSensitive == {"token", "password"}
MCViews == {{}, {"day"}, {"sales"}, MCFields}
MCProjections == {{"day"}, {"sales"}, {"day", "cost"}}
MCAllowed == {"day", "sales"}

MCEntry(id, form, fields) ==
  [id |-> id, table |-> "view", wellFormed |-> TRUE, defaultLimit |-> 1, maxLimit |-> 2,
   fieldForm |-> form, fields |-> fields]

Stock == MCEntry("stock", "mapping", <<"day", "sales", "cost">>)
Token == MCEntry("token", "list", <<"sales">>)
Elsewhere == [Token EXCEPT !.table = "base"]

Doc(form, entries) ==
  [profile |-> "demo", otherKeys |-> {}, form |-> form, entries |-> entries]
Shipped == Doc("mapping", <<Stock>>)
Both == Doc("list", <<Stock, Token>>)
OneElsewhere == Doc("list", <<Stock, Elsewhere>>)
Narrow == Doc("list", <<MCEntry("stock", "list", <<"day">>), Token>>)
OtherProfile == [Both EXCEPT !.profile = "audit"]

Entries1 ==
  {[Stock EXCEPT !.fieldForm = f, !.fields = s] :
     f \in {"mapping", "list", "other"},
     s \in {<<>>, <<"day">>, <<"day", "day">>, <<"sales", "cost">>}}
  \cup {[Stock EXCEPT !.defaultLimit = d, !.maxLimit = m] : d \in 0 .. 2, m \in 0 .. 3}
  \cup {[Stock EXCEPT !.wellFormed = FALSE], Token, Elsewhere}

MCEdits == {Both, OneElsewhere, OtherProfile, Narrow}

MCFiles == MCEdits \cup {Unreadable, Shipped}
  \cup {Doc(form, <<e>>) : form \in {"mapping", "list"}, e \in Entries1}
  \cup {Doc(form, <<e, Stock>>) : form \in {"mapping", "list", "other"}, e \in Entries1}
  \cup {[Shipped EXCEPT !.otherKeys = k] : k \in {{"version"}, {"password"}}}
  \cup {[Shipped EXCEPT !.profile = Blank], Doc("mapping", <<>>), Doc("list", <<>>)}
=============================================================================
