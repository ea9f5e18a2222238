---------------------------- MODULE PolicyCatalog ----------------------------
(***************************************************************************)
(* What a client is promised and what it gets: the policy a host loaded at *)
(* boot (bootstrap/container.py), the columns that the view has in MySQL   *)
(* now (MysqlCatalogAdapter), and the three calls that combine the two:    *)
(* ListAuthorizedDatasets, GetAuthorizedSchema and ExecuteReadQuery.       *)
(*                                                                         *)
(* The file, the view and the host change under the client: an operator    *)
(* edits the file, which no host rereads, DDL adds and drops columns       *)
(* between two statements of one call, a host is stopped and booted.  A    *)
(* call is cut where it reads the database.  Its audit row is the subject  *)
(* of UseCases, the rest of a query's checks that of QueryRules.           *)
(***************************************************************************)
EXTENDS PolicyFile

CONSTANTS
  Files,            \* what the policy file may contain at first
  Edits,            \* and what an operator may make of it
  Views,            \* the sets of columns that DDL may give the view
  Projections,      \* BOUND: the sets of fields a client may query
  CallerProfile,    \* MCP_POLICY_PROFILE of the host
  AuthorizedTable,  \* _AUTHORIZED_TABLES of both adapters
  AllowedColumns,   \* _ALLOWED_COLUMNS of the query adapter
  None

ASSUME CatalogAssumption ==
  /\ Edits \subseteq Files
  /\ Files \subseteq Document \cup {Unreadable}
  /\ Views \subseteq SUBSET Fields
  /\ Projections \subseteq SUBSET Fields
  /\ {} \notin Projections       \* a detail query has a projection
  /\ AuthorizedTable \in Tables
  /\ AllowedColumns \subseteq Fields
  /\ Unreadable \notin Document
  /\ None \notin Datasets

VARIABLES
  file,     \* the policy file on disk
  host,     \* the document and the policies a running host has in memory
  view,     \* the columns of the authorized view
  call,     \* the client's call, or its last one
  fieldOffers,    \* history: fields that a schema showed and that hold still
  datasetOffers,  \* history: datasets that a listing showed and that hold still
  everVisible, alwaysVisible   \* history: datasets with a visible field during a listing

history == <<fieldOffers, datasetOffers, everVisible, alwaysVisible>>
vars == <<file, host, view, call, history>>

Down == [doc |-> Unreadable, policies |-> {}]
Outcomes == {"none", "ok", "rejected", "notAllowed", "unknownColumn", "unavailable"}
NoCall == [op |-> "none", dataset |-> None, wanted |-> {}, rest |-> {}, listed |-> {},
           shown |-> {}, outcome |-> "none"]

TypeOK ==
  /\ file \in Files
  /\ host = Down \/ (host.doc \in Files /\ Loads(host.doc))
  /\ host.policies \subseteq Policy
  /\ view \in Views
  /\ call \in [op : {"none", "list", "schema", "query"}, dataset : Datasets \cup {None},
              wanted : SUBSET Fields, rest : SUBSET Policy, listed : SUBSET Datasets,
              shown : SUBSET Fields, outcome : Outcomes]
  /\ call.rest \subseteq host.policies
  /\ fieldOffers \subseteq Datasets \X Fields
  /\ datasetOffers \cup everVisible \cup alwaysVisible \subseteq Datasets

Init ==
  /\ file \in Files
  /\ host = Down
  /\ view \in Views
  /\ call = NoCall
  /\ fieldOffers = {}
  /\ datasetOffers = {}
  /\ everVisible = {}
  /\ alwaysVisible = {}

------------------------------------------------------------------------------
(* What the ports answer.                                                   *)

\* list_dataset_policies
Granted(h) == IF h.doc # Unreadable /\ h.doc.profile = CallerProfile THEN h.policies ELSE {}

\* get_field_snapshot and the use case's own look at allowed_fields
VisibleFields(p, columns) == IF p.table = AuthorizedTable THEN p.fields \cap columns ELSE {}

Idle == call.op = "none" \/ call.outcome # "none"

Answer(outcome) == call' = [call EXCEPT !.outcome = outcome]

NotListing == everVisible' = {} /\ alwaysVisible' = {}

\* the datasets that a listing at one instant would show
VisibleDatasets(policies, columns) ==
  {p.id : p \in {q \in policies : VisibleFields(q, columns) # {}}}

------------------------------------------------------------------------------
(* The world around the client.                                             *)

EditFile(d) ==
  /\ file' = d
  /\ UNCHANGED <<host, view, call, history>>

\* an offer ends with the column or the grant it rests on
StillOffered(policies, columns) ==
  /\ fieldOffers' = {o \in fieldOffers :
       \E p \in policies : p.id = o[1] /\ o[2] \in VisibleFields(p, columns)}
  /\ datasetOffers' = datasetOffers \cap VisibleDatasets(policies, columns)

AlterView(columns) ==
  /\ view' = columns
  /\ IF host = Down THEN UNCHANGED <<fieldOffers, datasetOffers>>
                    ELSE StillOffered(Granted(host), columns)
  /\ IF call.op = "list" /\ ~Idle
       THEN /\ everVisible' = everVisible \cup VisibleDatasets(Granted(host), columns)
            /\ alwaysVisible' = alwaysVisible \cap VisibleDatasets(Granted(host), columns)
       ELSE UNCHANGED <<everVisible, alwaysVisible>>
  /\ UNCHANGED <<file, host, call>>

\* MUTANT of Boot: what does not validate is loaded nevertheless
BootLenient ==
  /\ host = Down
  /\ file # Unreadable
  /\ host' = [doc |-> file, policies |-> PoliciesOf(file)]
  /\ StillOffered(Granted(host'), view)
  /\ UNCHANGED <<file, view, call, everVisible, alwaysVisible>>

\* build_mysql_container; a file that does not load ends the process
Boot ==
  /\ host = Down
  /\ Loads(file)
  /\ host' = [doc |-> file, policies |-> PoliciesOf(file)]
  /\ StillOffered(Granted(host'), view)
  /\ UNCHANGED <<file, view, call, everVisible, alwaysVisible>>

Stop ==
  /\ host # Down
  /\ host' = Down
  /\ call' = NoCall
  /\ NotListing
  /\ UNCHANGED <<file, view, fieldOffers, datasetOffers>>

------------------------------------------------------------------------------
(* ListAuthorizedDatasets: one catalog query for each granted dataset.      *)

BeginList ==
  /\ host # Down /\ Idle
  /\ call' = [NoCall EXCEPT !.op = "list", !.rest = Granted(host)]
  /\ everVisible' = VisibleDatasets(Granted(host), view)
  /\ alwaysVisible' = VisibleDatasets(Granted(host), view)
  /\ UNCHANGED <<file, host, view, fieldOffers, datasetOffers>>

\* MUTANT of AskCatalog: the first dataset without a field ends the listing
AskUntilEmpty(p) ==
  /\ ~Idle /\ p \in call.rest /\ p.table = AuthorizedTable
  /\ IF VisibleFields(p, view) = {}
       THEN call' = [call EXCEPT !.rest = {}] /\ UNCHANGED datasetOffers
       ELSE /\ call' = [call EXCEPT !.rest = @ \ {p}, !.listed = @ \cup {p.id}]
            /\ datasetOffers' = datasetOffers \cup {p.id}
  /\ UNCHANGED <<file, host, view, fieldOffers, everVisible, alwaysVisible>>

AskCatalog(p) ==
  /\ ~Idle /\ p \in call.rest /\ p.table = AuthorizedTable
  /\ IF VisibleFields(p, view) = {}
       THEN call' = [call EXCEPT !.rest = @ \ {p}] /\ UNCHANGED datasetOffers
       ELSE /\ call' = [call EXCEPT !.rest = @ \ {p}, !.listed = @ \cup {p.id}]
            /\ datasetOffers' = datasetOffers \cup {p.id}
  /\ UNCHANGED <<file, host, view, fieldOffers, everVisible, alwaysVisible>>

\* one dataset over a table of another name takes the whole listing down
ListRaises ==
  /\ ~Idle /\ call.op = "list"
  /\ \E p \in call.rest : p.table # AuthorizedTable
  /\ Answer("notAllowed")
  /\ UNCHANGED <<file, host, view, history>>

ListAnswered ==
  /\ ~Idle /\ call.op = "list" /\ call.rest = {}
  /\ Answer("ok")
  /\ UNCHANGED <<file, host, view, history>>

------------------------------------------------------------------------------
(* GetAuthorizedSchema.                                                     *)

\* next(p for p in policies if p.dataset_id == d) over a set
Matches(d) == {p \in Granted(host) : p.id = d}

\* what a use case hears of the snapshot; asked is whether the fields will do
Snapshot(p, asked, good, bad) ==
  IF p.table # AuthorizedTable THEN {"notAllowed"}
  ELSE {"unavailable", IF asked THEN good ELSE bad}

SchemaAnswers(d) ==
  IF Matches(d) = {} THEN {"rejected"}
  ELSE UNION {Snapshot(p, VisibleFields(p, view) # {}, "ok", "rejected") : p \in Matches(d)}

\* MUTANT of SchemaFields: what the policy grants, without a look at the view
SchemaGranted(d) == UNION {p.fields : p \in Matches(d)}

\* MUTANT of SchemaFields: neither the adapter nor the use case looks at allowed_fields
SchemaWholeView(d) == UNION {view : p \in Matches(d)}

SchemaFields(d) == UNION {VisibleFields(p, view) : p \in Matches(d)}

GetSchema(d) ==
  /\ host # Down /\ Idle
  /\ \E outcome \in SchemaAnswers(d) :
       /\ call' = [NoCall EXCEPT !.op = "schema", !.dataset = d, !.outcome = outcome,
                                 !.shown = IF outcome = "ok" THEN SchemaFields(d) ELSE {}]
       /\ fieldOffers' = fieldOffers \cup ({d} \X call'.shown)
  /\ NotListing
  /\ UNCHANGED <<file, host, view, datasetOffers>>

------------------------------------------------------------------------------
(* ExecuteReadQuery: snapshot and validation, then the statement.           *)

QueryAnswers(d, wanted) ==
  IF Matches(d) = {} THEN {"rejected"}
  ELSE UNION {Snapshot(p, wanted \subseteq VisibleFields(p, view), "none", "rejected") :
                p \in Matches(d)}

BeginQuery(d, wanted) ==
  /\ host # Down /\ Idle
  /\ \E outcome \in QueryAnswers(d, wanted) :
       call' = [NoCall EXCEPT !.op = "query", !.dataset = d, !.wanted = wanted,
                              !.outcome = outcome]
  /\ NotListing
  /\ UNCHANGED <<file, host, view, fieldOffers, datasetOffers>>

\* compile_query_plan goes by a list of columns of its own, MySQL by the view
ExecuteQuery ==
  /\ call.op = "query" /\ ~Idle
  /\ Answer(IF ~(call.wanted \subseteq AllowedColumns) THEN "notAllowed"
            ELSE IF call.wanted \subseteq view THEN "ok"
            ELSE "unknownColumn")      \* an error of the driver: DATA_SOURCE_UNAVAILABLE
  /\ UNCHANGED <<file, host, view, history>>

\* the connection or a statement of a listing or a query, map_mysql_error
MySqlFails ==
  /\ ~Idle
  /\ call.op = "query" \/ \E p \in call.rest : p.table = AuthorizedTable
  /\ Answer("unavailable")
  /\ UNCHANGED <<file, host, view, history>>

Next ==
  \/ \E d \in Edits : EditFile(d)
  \/ \E columns \in Views : AlterView(columns)
  \/ Boot \/ Stop
  \/ BeginList \/ ListRaises \/ ListAnswered
  \/ \E p \in call.rest : AskCatalog(p)
  \/ \E d \in Datasets : GetSchema(d)
  \/ \E d \in Datasets : \E wanted \in Projections : BeginQuery(d, wanted)
  \/ ExecuteQuery \/ MySqlFails

Spec == Init /\ [][Next]_vars

------------------------------------------------------------------------------
(* The pairs of dataset and field that a document writes down.              *)
Written(doc) ==
  UNION {{e.id} \X ToSet(e.fields) : e \in ToSet(doc.entries)}

(***************************************************************************)
(* The policies of a running host are those of the file it booted with,    *)
(* whichever of the two forms it is written in: at most one for a dataset, *)
(* so that the use cases' search for the first match has one answer, each  *)
(* with a field, no grant that the file does not write, and none lost      *)
(* unless the file repeats a key of a mapping.                             *)
(***************************************************************************)
GrantsAreWritten ==
  host # Down =>
    LET granted == UNION {{p.id} \X p.fields : p \in host.policies} IN
    /\ \A p, q \in host.policies : p.id = q.id => p = q
    /\ \A p \in host.policies : p.fields # {}
    /\ granted \subseteq Written(host.doc)
    /\ IsInjective(IdsOf(host.doc)) => granted = Written(host.doc)

(***************************************************************************)
(* No listing, schema or result shows a dataset or a field that the file   *)
(* does not grant to this host's policy profile, though the columns come   *)
(* from the view; and no schema is shown that has no field.                *)
(***************************************************************************)
NothingUngranted ==
  (call.outcome = "ok" \/ call.listed # {}) =>
    LET mine == IF host.doc.profile = CallerProfile THEN Written(host.doc) ELSE {} IN
    /\ \A d \in call.listed : \E f \in Fields : <<d, f>> \in mine
    /\ call.op = "schema" => call.shown # {} /\ {call.dataset} \X call.shown \subseteq mine
    /\ call.op = "query" => {call.dataset} \X call.wanted \subseteq mine

(***************************************************************************)
(* A listing is put together from one snapshot for each dataset while DDL  *)
(* goes on.  It shows every dataset that had a visible field all the time, *)
(* and none that never had one; without DDL it is exact.                   *)
(***************************************************************************)
ListingIsBracketed ==
  (call.op = "list" /\ call.outcome = "ok")
    => alwaysVisible \subseteq call.listed /\ call.listed \subseteq everVisible

(***************************************************************************)
(* A client may build on what it was shown.  A query for fields of a       *)
(* schema is refused or fails on a column only if a field was dropped or   *)
(* its grant withdrawn in between, or if it is a column that the query     *)
(* adapter does not know; a listed dataset has a schema unless its last    *)
(* visible field went.                                                     *)
(***************************************************************************)
PromisesKept ==
  call.outcome \in {"rejected", "notAllowed", "unknownColumn"} =>
    /\ call.op = "query"
         => ~({call.dataset} \X call.wanted \subseteq fieldOffers)
            \/ ~(call.wanted \subseteq AllowedColumns)
    /\ call.op = "schema" => call.dataset \notin datasetOffers
=============================================================================
