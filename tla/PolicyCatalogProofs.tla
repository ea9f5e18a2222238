-------------------------- MODULE PolicyCatalogProofs --------------------------
(***************************************************************************)
(* Proofs about PolicyCatalog for any policy files, edits, views and       *)
(* projections: what a loaded file grants, and what a client may build on  *)
(* while the file, the view and the host change under it.                  *)
(***************************************************************************)
EXTENDS PolicyCatalog, SequenceTheorems, TLAPS

(***************************************************************************)
(* The policies of a document that loads: one for a dataset in both forms  *)
(* of the file, each with a field.                                         *)
(***************************************************************************)
LEMMA LoadedPolicies ==
  ASSUME NEW doc \in Document, Loads(doc)
  PROVE  /\ PoliciesOf(doc) \subseteq Policy
         /\ \A p, q \in PoliciesOf(doc) : p.id = q.id => p = q
         /\ \A p \in PoliciesOf(doc) : p.fields # {}
<1>1. doc.entries \in Seq(Entry) /\ doc.form \in {"mapping", "list"}
  BY DEF Document, Forms, Loads, DatasetsOk
<1>2. Entries(doc) \subseteq ToSet(doc.entries)
  BY <1>1 DEF Entries, ToSet
<1>3. ToSet(doc.entries) \subseteq Entry
  BY <1>1 DEF ToSet
<1>4. ASSUME NEW e \in Entries(doc)
      PROVE  PolicyOf(e) \in Policy /\ PolicyOf(e).id = e.id /\ PolicyOf(e).fields # {}
  <2>1. e \in Entry /\ e.fields # <<>>
    BY <1>2, <1>3, <1>4 DEF Loads, DatasetsOk, EntryOk, FieldsOk
  <2>2. e.fields \in Seq(Fields) /\ e.id \in Datasets /\ e.table \in Tables
    BY <2>1 DEF Entry
  <2>3. ToSet(e.fields) \subseteq Fields /\ ToSet(e.fields) # {}
    <3>1. 1 \in DOMAIN e.fields
      <4>1. Len(e.fields) \in Nat \ {0}
        BY <2>1, <2>2, EmptySeq, Zenon
      <4>2. QED
        BY <2>2, <4>1
    <3>2. \A i \in DOMAIN e.fields : e.fields[i] \in Fields
      BY <2>2
    <3>3. QED
      BY <3>1, <3>2, Zenon DEF ToSet
  <2>4. QED
    BY <2>2, <2>3 DEF PolicyOf, Policy
<1>5. ASSUME NEW d \in Entries(doc), NEW e \in Entries(doc), d.id = e.id PROVE d = e
  <2>1. CASE doc.form = "mapping"
    <3>1. PICK i \in DOMAIN doc.entries :
            /\ d = doc.entries[i]
            /\ \A j \in DOMAIN doc.entries : j > i => doc.entries[j].id # d.id
      BY <2>1, <1>5 DEF Entries
    <3>2. PICK k \in DOMAIN doc.entries :
            /\ e = doc.entries[k]
            /\ \A j \in DOMAIN doc.entries : j > k => doc.entries[j].id # e.id
      BY <2>1, <1>5 DEF Entries
    <3>3. i \in Nat /\ k \in Nat /\ ~(i > k) /\ ~(k > i)
      BY <1>1, <1>5, <3>1, <3>2
    <3>4. QED
      BY <3>1, <3>2, <3>3
  <2>2. CASE doc.form = "list"
    <3>1. PICK i \in DOMAIN doc.entries, k \in DOMAIN doc.entries :
            d = doc.entries[i] /\ e = doc.entries[k]
      BY <1>2, <1>5 DEF ToSet
    <3>2. IsInjective(IdsOf(doc))
      BY <2>2 DEF Loads, DatasetsOk
    <3>3. IdsOf(doc)[i] = d.id /\ IdsOf(doc)[k] = e.id
      BY <3>1 DEF IdsOf
    <3>4. i = k
      BY <1>5, <3>2, <3>3 DEF IsInjective, IdsOf
    <3>5. QED
      BY <3>1, <3>4
  <2>3. QED
    BY <1>1, <2>1, <2>2
<1>6. QED
  BY <1>4, <1>5 DEF PoliciesOf

(***************************************************************************)
(* The grants of such a document are written in it, all of them unless it  *)
(* repeats a key.                                                          *)
(***************************************************************************)
GrantsOf(policies) == UNION {{p.id} \X p.fields : p \in policies}

LEMMA LoadedGrants ==
  ASSUME NEW doc \in Document, Loads(doc)
  PROVE  /\ GrantsOf(PoliciesOf(doc)) \subseteq Written(doc)
         /\ IsInjective(IdsOf(doc)) => GrantsOf(PoliciesOf(doc)) = Written(doc)
<1>1. doc.entries \in Seq(Entry) /\ doc.form \in {"mapping", "list"}
  BY DEF Document, Forms, Loads, DatasetsOk
<1>2. GrantsOf(PoliciesOf(doc)) = UNION {{e.id} \X ToSet(e.fields) : e \in Entries(doc)}
  <2>1. \A e : PolicyOf(e).id = e.id /\ PolicyOf(e).fields = ToSet(e.fields)
    BY DEF PolicyOf
  <2>2. GrantsOf(PoliciesOf(doc))
          = UNION {{PolicyOf(e).id} \X PolicyOf(e).fields : e \in Entries(doc)}
    BY DEF GrantsOf, PoliciesOf
  <2>3. QED
    BY <2>1, <2>2
<1>3. Entries(doc) \subseteq ToSet(doc.entries)
  BY <1>1 DEF Entries, ToSet
<1>4. ASSUME IsInjective(IdsOf(doc)) PROVE ToSet(doc.entries) \subseteq Entries(doc)
  <2>1. ASSUME NEW i \in DOMAIN doc.entries, NEW j \in DOMAIN doc.entries, j > i
        PROVE  doc.entries[j].id # doc.entries[i].id
    <3>1. i # j
      BY <1>1, <2>1
    <3>2. QED
      BY <1>4, <2>1, <3>1 DEF IsInjective, IdsOf
  <2>2. QED
    BY <1>1, <2>1 DEF Entries, ToSet
<1>5. QED
  BY <1>2, <1>3, <1>4 DEF Written

------------------------------------------------------------------------------
(***************************************************************************)
(* The inductive invariant.  A running host has the policies of a document *)
(* that loads; a call belongs to a running host.                           *)
(***************************************************************************)
HostInv ==
  host = Down \/ \E doc \in Files \cap Document :
                   Loads(doc) /\ host = [doc |-> doc, policies |-> PoliciesOf(doc)]

CallInv ==
  /\ host = Down => call = NoCall
  /\ call.op = "none" => call = NoCall
  /\ call.op # "list" => call.rest = {} /\ call.listed = {}

Now == VisibleDatasets(Granted(host), view)

(***************************************************************************)
(* What was offered to the client holds as long as a host runs.            *)
(***************************************************************************)
OfferInv ==
  host # Down =>
    /\ \A o \in fieldOffers :
         \E p \in Granted(host) : p.id = o[1] /\ o[2] \in VisibleFields(p, view)
    /\ datasetOffers \subseteq Now

(***************************************************************************)
(* What a call has passed was granted by the host that answers it.         *)
(***************************************************************************)
GrantInv ==
  /\ call.rest \subseteq Granted(host)
  /\ \A d \in call.listed : \E p \in Granted(host) : p.id = d
  /\ (call.op = "schema" /\ call.outcome = "ok") =>
       /\ call.shown # {}
       /\ \E p \in Granted(host) : p.id = call.dataset /\ call.shown \subseteq p.fields
  /\ (call.op = "query" /\ call.outcome \in {"none", "ok"}) =>
       \E p \in Granted(host) : p.id = call.dataset /\ call.wanted \subseteq p.fields

(***************************************************************************)
(* A listing under way has shown, or still has before it, every dataset    *)
(* that was visible throughout.                                            *)
(***************************************************************************)
ListInv ==
  /\ (call.op = "list" /\ call.outcome = "none") =>
       alwaysVisible \subseteq Now /\ Now \subseteq everVisible
  /\ (call.op = "list" /\ call.outcome \in {"none", "ok"}) =>
       /\ alwaysVisible \subseteq call.listed \cup {p.id : p \in call.rest}
       /\ call.listed \subseteq everVisible
       /\ call.outcome = "ok" => call.rest = {}

CatalogInv ==
  /\ TypeOK
  /\ HostInv
  /\ CallInv
  /\ OfferInv
  /\ GrantInv
  /\ ListInv
  /\ PromisesKept

------------------------------------------------------------------------------
(***************************************************************************)
(* What a host grants its caller, as the use cases rely on it.             *)
(***************************************************************************)
LEMMA GrantedPolicies ==
  ASSUME HostInv
  PROVE  /\ Granted(host) \subseteq host.policies /\ Granted(host) \subseteq Policy
         /\ \A p, q \in Granted(host) : p.id = q.id => p = q
         /\ \A p \in Granted(host) : p.fields # {}
         /\ \A p \in Granted(host) :
              /\ host # Down /\ host.doc.profile = CallerProfile
              /\ {p.id} \X p.fields \subseteq Written(host.doc)
<1>1. CASE host = Down
  BY <1>1 DEF Down, Granted
<1>2. CASE host # Down
  <2>1. PICK doc \in Files \cap Document :
          Loads(doc) /\ host = [doc |-> doc, policies |-> PoliciesOf(doc)]
    BY <1>2 DEF HostInv
  <2>2. host.doc = doc /\ host.policies = PoliciesOf(doc)
    BY <2>1
  <2>3. Granted(host) \subseteq host.policies
    BY DEF Granted
  <2>4. \A p \in Granted(host) : host.doc.profile = CallerProfile
    BY DEF Granted
  <2>5. GrantsOf(PoliciesOf(doc)) \subseteq Written(doc)
    BY <2>1, LoadedGrants
  <2>6. \A p \in PoliciesOf(doc) : {p.id} \X p.fields \subseteq Written(doc)
    BY <2>5 DEF GrantsOf
  <2>7. QED
    BY <1>2, <2>1, <2>2, <2>3, <2>4, <2>6, LoadedPolicies
<1>3. QED
  BY <1>1, <1>2

(***************************************************************************)
(* A dataset with an offer is the policy the offer rests on, so that a     *)
(* later call for the dataset meets the same fields.                       *)
(***************************************************************************)
LEMMA OffersHold ==
  ASSUME HostInv, OfferInv, NEW p \in Granted(host)
  PROVE  /\ \A f : <<p.id, f>> \in fieldOffers => f \in VisibleFields(p, view)
         /\ p.id \in datasetOffers => VisibleFields(p, view) # {}
<1>1. host # Down
  BY GrantedPolicies
<1>2. ASSUME NEW f, <<p.id, f>> \in fieldOffers PROVE f \in VisibleFields(p, view)
  <2>1. PICK q \in Granted(host) : q.id = p.id /\ f \in VisibleFields(q, view)
    BY <1>1, <1>2 DEF OfferInv
  <2>2. QED
    BY <2>1, GrantedPolicies
<1>3. ASSUME p.id \in datasetOffers PROVE VisibleFields(p, view) # {}
  <2>1. PICK q \in Granted(host) : q.id = p.id /\ VisibleFields(q, view) # {}
    BY <1>1, <1>3 DEF OfferInv, Now, VisibleDatasets
  <2>2. QED
    BY <2>1, GrantedPolicies
<1>4. QED
  BY <1>2, <1>3

(***************************************************************************)
(* What is visible has the names of policies.                              *)
(***************************************************************************)
LEMMA VisibleTypes ==
  ASSUME HostInv, NEW columns
  PROVE  /\ VisibleDatasets(Granted(host), columns) \subseteq Datasets
         /\ \A p \in Granted(host) : p.id \in Datasets /\ VisibleFields(p, columns) \subseteq Fields
         /\ \A p \in Granted(host) : VisibleFields(p, columns) \subseteq p.fields
BY GrantedPolicies DEF VisibleDatasets, VisibleFields, Policy

------------------------------------------------------------------------------
(***************************************************************************)
(* A host runs with a document that loads, from its boot to its stop.      *)
(***************************************************************************)
LEMMA HostKept == CatalogInv /\ [Next]_vars => HostInv'
<1> SUFFICES ASSUME CatalogInv, [Next]_vars
             PROVE  HostInv'
  OBVIOUS
<1>1. CASE host' = host
  BY <1>1 DEF CatalogInv, HostInv
<1>2. CASE Boot
  <2>1. file \in Files \cap Document
    BY <1>2, CatalogAssumption DEF Boot, Loads, CatalogInv, TypeOK
  <2>2. QED
    BY <1>2, <2>1 DEF Boot, HostInv
<1>3. CASE Stop
  BY <1>3 DEF Stop, HostInv
<1>4. host' = host \/ Boot \/ Stop
  BY DEF Next, vars, EditFile, AlterView, BeginList, AskCatalog, ListRaises, ListAnswered,
         GetSchema, BeginQuery, ExecuteQuery, MySqlFails
<1>5. QED
  BY <1>1, <1>2, <1>3, <1>4

(***************************************************************************)
(* One catalog query of a listing shows its dataset, or passes over it.    *)
(***************************************************************************)
LEMMA AskMoves ==
  ASSUME CatalogInv, NEW p \in call.rest, AskCatalog(p)
  PROVE  /\ host # Down /\ call.op = "list" /\ call.outcome = "none" /\ p \in Granted(host)
         /\ UNCHANGED <<file, host, view, fieldOffers, everVisible, alwaysVisible>>
         /\ \/ /\ VisibleFields(p, view) = {}
               /\ call' = [call EXCEPT !.rest = call.rest \ {p}]
               /\ datasetOffers' = datasetOffers
            \/ /\ VisibleFields(p, view) # {}
               /\ call' = [call EXCEPT !.rest = call.rest \ {p},
                                      !.listed = call.listed \cup {p.id}]
               /\ datasetOffers' = datasetOffers \cup {p.id}
<1>1. call.op = "list" /\ call.outcome = "none" /\ host # Down
  <2>1. call.op = "list" /\ ~Idle
    BY DEF CatalogInv, CallInv, AskCatalog
  <2>2. host # Down
    BY <2>1 DEF CatalogInv, CallInv, NoCall
  <2>3. QED
    BY <2>1, <2>2 DEF Idle
<1>2. p \in Granted(host)
  BY DEF CatalogInv, GrantInv
<1>3. QED
  BY <1>1, <1>2 DEF AskCatalog

(***************************************************************************)
(* Every variable keeps its type.                                          *)
(***************************************************************************)
LEMMA CatalogNextType == CatalogInv /\ [Next]_vars => TypeOK'
<1> SUFFICES ASSUME CatalogInv, [Next]_vars
             PROVE  TypeOK'
  OBVIOUS
<1>h. HostInv
  BY DEF CatalogInv
<1>g. Granted(host) \subseteq host.policies /\ Granted(host) \subseteq Policy
  BY <1>h, GrantedPolicies
<1> TypeOK /\ CallInv
  BY DEF CatalogInv
<1> USE CatalogAssumption DEF TypeOK, Outcomes, NoCall, Answer, history
<1>1. ASSUME NEW d \in Edits, EditFile(d) PROVE TypeOK'
  BY <1>1 DEF EditFile
<1>2. ASSUME NEW columns \in Views, AlterView(columns) PROVE TypeOK'
  BY <1>2, <1>h, VisibleTypes DEF AlterView, StillOffered
<1>3. CASE Boot
  <2>1. file \in Document
    BY <1>3 DEF Boot, Loads
  <2>2. host'.policies \subseteq Policy
    BY <1>3, <2>1, LoadedPolicies DEF Boot
  <2>3. call.rest = {}
    BY <1>3 DEF Boot, CallInv
  <2>4. QED
    BY <1>3, <2>2, <2>3 DEF Boot, StillOffered
<1>4. CASE Stop
  BY <1>4 DEF Stop, Down, NotListing
<1>5. CASE BeginList
  BY <1>5, <1>h, <1>g, VisibleTypes DEF BeginList
<1>6. CASE ListRaises \/ ListAnswered
  BY <1>6 DEF ListRaises, ListAnswered
<1>7. ASSUME NEW p \in call.rest, AskCatalog(p) PROVE TypeOK'
  <2>1. p.id \in Datasets
    BY DEF Policy
  <2>2. UNCHANGED <<file, host, view, fieldOffers, everVisible, alwaysVisible>>
    BY <1>7, AskMoves
  <2>3. CASE /\ call' = [call EXCEPT !.rest = call.rest \ {p}]
             /\ datasetOffers' = datasetOffers
    BY <2>2, <2>3
  <2>4. CASE /\ call' = [call EXCEPT !.rest = call.rest \ {p},
                                    !.listed = call.listed \cup {p.id}]
             /\ datasetOffers' = datasetOffers \cup {p.id}
    BY <2>1, <2>2, <2>4
  <2>5. QED
    BY <1>7, <2>3, <2>4, AskMoves
<1>8. ASSUME NEW d \in Datasets, GetSchema(d) PROVE TypeOK'
  <2>1. SchemaFields(d) \subseteq Fields
    BY <1>h, VisibleTypes DEF SchemaFields, Matches
  <2>2. SchemaAnswers(d) \subseteq Outcomes
    BY DEF SchemaAnswers, Snapshot
  <2>3. PICK outcome \in SchemaAnswers(d), shown \in SUBSET Fields :
          call' = [NoCall EXCEPT !.op = "schema", !.dataset = d, !.outcome = outcome,
                                 !.shown = shown]
    BY <1>8, <2>1 DEF GetSchema
  <2>4. fieldOffers' \subseteq Datasets \X Fields
    <3>1. call'.shown \subseteq Fields
      BY <2>3
    <3>2. fieldOffers' = fieldOffers \cup ({d} \X call'.shown)
      BY <1>8 DEF GetSchema
    <3>3. QED
      BY <3>1, <3>2
  <2>5. QED
    BY <1>8, <2>2, <2>3, <2>4 DEF GetSchema, NotListing
<1>9. ASSUME NEW d \in Datasets, NEW wanted \in Projections, BeginQuery(d, wanted) PROVE TypeOK'
  <2>1. QueryAnswers(d, wanted) \subseteq Outcomes
    BY DEF QueryAnswers, Snapshot
  <2>2. PICK outcome \in Outcomes :
          call' = [NoCall EXCEPT !.op = "query", !.dataset = d, !.wanted = wanted,
                                 !.outcome = outcome]
    BY <1>9, <2>1 DEF BeginQuery
  <2>3. QED
    BY <1>9, <2>2 DEF BeginQuery, NotListing
<1>10. CASE ExecuteQuery
  BY <1>10 DEF ExecuteQuery
<1>11. CASE MySqlFails
  BY <1>11 DEF MySqlFails
<1>12. CASE UNCHANGED vars
  BY <1>12 DEF vars
<1>13. QED
  BY <1>1, <1>2, <1>3, <1>4, <1>5, <1>6, <1>7, <1>8, <1>9, <1>10, <1>11, <1>12 DEF Next

(***************************************************************************)
(* A call begins on a running host and is gone with it.                    *)
(***************************************************************************)
LEMMA CallKept == CatalogInv /\ [Next]_vars => CallInv'
<1> SUFFICES ASSUME CatalogInv, [Next]_vars
             PROVE  CallInv'
  OBVIOUS
<1> USE DEF CatalogInv, TypeOK, CallInv, NoCall, Answer, Idle
<1>1. CASE UNCHANGED <<host, call>>
  BY <1>1
<1>2. CASE Boot
  BY <1>2 DEF Boot
<1>3. CASE Stop
  BY <1>3 DEF Stop
<1>4. CASE BeginList
  BY <1>4 DEF BeginList
<1>5. CASE ListRaises \/ ListAnswered
  BY <1>5 DEF ListRaises, ListAnswered
<1>6. ASSUME NEW p \in call.rest, AskCatalog(p) PROVE CallInv'
  BY <1>6, AskMoves
<1>7. ASSUME NEW d \in Datasets, GetSchema(d) PROVE CallInv'
  BY <1>7 DEF GetSchema
<1>8. ASSUME NEW d \in Datasets, NEW wanted \in Projections, BeginQuery(d, wanted) PROVE CallInv'
  BY <1>8 DEF BeginQuery
<1>9. CASE ExecuteQuery \/ MySqlFails
  BY <1>9 DEF ExecuteQuery, MySqlFails
<1>10. QED
  BY <1>1, <1>2, <1>3, <1>4, <1>5, <1>6, <1>7, <1>8, <1>9
  DEF Next, vars, EditFile, AlterView

------------------------------------------------------------------------------
(***************************************************************************)
(* What the answers of the two calls that look for a dataset mean.         *)
(***************************************************************************)
LEMMA SchemaMeans ==
  ASSUME NEW d, NEW outcome \in SchemaAnswers(d)
  PROVE  /\ outcome = "ok" =>
              \E p \in Granted(host) : p \in Matches(d) /\ VisibleFields(p, view) # {}
         /\ outcome \in {"rejected", "notAllowed", "unknownColumn"} =>
              \/ \A p \in Granted(host) : p.id # d
              \/ \E p \in Granted(host) : p.id = d /\ VisibleFields(p, view) = {}
<1>1. CASE Matches(d) = {}
  BY <1>1 DEF SchemaAnswers, Matches
<1>2. CASE Matches(d) # {}
  <2>1. PICK p \in Matches(d) :
          outcome \in Snapshot(p, VisibleFields(p, view) # {}, "ok", "rejected")
    BY <1>2 DEF SchemaAnswers
  <2>2. outcome = "ok" => p \in Granted(host) /\ VisibleFields(p, view) # {}
    BY <2>1 DEF Matches, Snapshot
  <2>3. outcome \in {"rejected", "notAllowed", "unknownColumn"} => VisibleFields(p, view) = {}
    BY <2>1 DEF Snapshot, VisibleFields
  <2>4. QED
    BY <2>1, <2>2, <2>3 DEF Matches
<1>3. QED
  BY <1>1, <1>2

(***************************************************************************)
(* One policy matches a dataset, so a schema shows fields of this policy.  *)
(***************************************************************************)
LEMMA SchemaShows ==
  ASSUME HostInv, NEW d, NEW outcome \in SchemaAnswers(d), outcome = "ok"
  PROVE  /\ SchemaFields(d) # {}
         /\ \E p \in Granted(host) : p.id = d /\ SchemaFields(d) \subseteq p.fields
<1>1. PICK p \in Granted(host) : p \in Matches(d) /\ VisibleFields(p, view) # {}
  BY SchemaMeans
<1>2. Matches(d) = {p} /\ p.id = d
  BY <1>1, GrantedPolicies DEF Matches
<1>3. SchemaFields(d) = VisibleFields(p, view)
  BY <1>2 DEF SchemaFields
<1>4. QED
  BY <1>1, <1>2, <1>3, VisibleTypes

LEMMA QueryMeans ==
  ASSUME NEW d, NEW wanted, NEW outcome \in QueryAnswers(d, wanted)
  PROVE  /\ outcome # "ok"
         /\ outcome = "none" =>
              \E p \in Granted(host) : p.id = d /\ wanted \subseteq p.fields
         /\ outcome \in {"rejected", "notAllowed", "unknownColumn"} =>
              \/ \A p \in Granted(host) : p.id # d
              \/ \E p \in Granted(host) :
                   /\ p.id = d
                   /\ VisibleFields(p, view) = {} \/ ~(wanted \subseteq VisibleFields(p, view))
<1>1. CASE Matches(d) = {}
  BY <1>1 DEF QueryAnswers, Matches
<1>2. CASE Matches(d) # {}
  <2>1. PICK p \in Matches(d) :
          outcome \in Snapshot(p, wanted \subseteq VisibleFields(p, view), "none", "rejected")
    BY <1>2 DEF QueryAnswers
  <2>2. p \in Granted(host) /\ p.id = d
    BY DEF Matches
  <2>3. outcome = "none" => wanted \subseteq p.fields
    BY <2>1 DEF Snapshot, VisibleFields
  <2>4. outcome \in {"rejected", "notAllowed", "unknownColumn"} =>
          VisibleFields(p, view) = {} \/ ~(wanted \subseteq VisibleFields(p, view))
    BY <2>1 DEF Snapshot, VisibleFields
  <2>5. outcome # "ok"
    BY <2>1 DEF Snapshot
  <2>6. QED
    BY <2>2, <2>3, <2>4, <2>5
<1>3. QED
  BY <1>1, <1>2

(***************************************************************************)
(* An offer ends with the column or the grant under it, in the same step.  *)
(***************************************************************************)
LEMMA OffersKept == CatalogInv /\ [Next]_vars => OfferInv'
<1> SUFFICES ASSUME CatalogInv, [Next]_vars
             PROVE  OfferInv'
  OBVIOUS
<1> HostInv /\ OfferInv
  BY DEF CatalogInv
<1> USE DEF OfferInv, Now
<1>1. CASE UNCHANGED <<host, view, fieldOffers, datasetOffers>>
  BY <1>1
<1>2. ASSUME NEW columns \in Views, AlterView(columns) PROVE OfferInv'
  <2>1. CASE host = Down
    BY <1>2, <2>1 DEF AlterView
  <2>2. CASE host # Down
    BY <1>2, <2>2 DEF AlterView, StillOffered
  <2>3. QED
    BY <2>1, <2>2
<1>3. CASE Boot
  BY <1>3 DEF Boot, StillOffered
<1>4. CASE Stop
  BY <1>4 DEF Stop
<1>5. ASSUME NEW p \in call.rest, AskCatalog(p) PROVE OfferInv'
  BY <1>5, AskMoves DEF VisibleDatasets
<1>6. ASSUME NEW d \in Datasets, GetSchema(d) PROVE OfferInv'
  <2>1. UNCHANGED <<host, view, datasetOffers>>
    BY <1>6 DEF GetSchema
  <2>2. ASSUME NEW o \in fieldOffers', o \notin fieldOffers
        PROVE  \E p \in Granted(host) : p.id = o[1] /\ o[2] \in VisibleFields(p, view)
    <3>1. o \in {d} \X SchemaFields(d)
      <4>1. call'.shown \in {{}, SchemaFields(d)}
        BY <1>6 DEF GetSchema, NoCall
      <4>2. fieldOffers' = fieldOffers \cup ({d} \X call'.shown)
        BY <1>6 DEF GetSchema
      <4>3. QED
        BY <2>2, <4>1, <4>2
    <3>2. o[1] = d /\ \E p \in Matches(d) : o[2] \in VisibleFields(p, view)
      BY <3>1 DEF SchemaFields
    <3>3. QED
      BY <3>2 DEF Matches
  <2>3. QED
    BY <2>1, <2>2
<1>7. QED
  BY <1>1, <1>2, <1>3, <1>4, <1>5, <1>6
  DEF Next, vars, history, EditFile, BeginList, ListRaises, ListAnswered, BeginQuery,
      ExecuteQuery, MySqlFails

(***************************************************************************)
(* No call gets past a check for what its host does not grant.             *)
(***************************************************************************)
LEMMA GrantsKept == CatalogInv /\ [Next]_vars => GrantInv'
<1> SUFFICES ASSUME CatalogInv, [Next]_vars
             PROVE  GrantInv'
  OBVIOUS
<1> GrantInv /\ TypeOK /\ CallInv
  BY DEF CatalogInv
<1> USE DEF GrantInv, NoCall, Answer
<1>1. CASE UNCHANGED <<host, call>>
  BY <1>1
<1>2. CASE Boot \/ Stop
  <2>1. call' = NoCall
    BY <1>2 DEF Boot, Stop, CallInv
  <2>2. QED
    BY <2>1
<1>3. CASE BeginList
  BY <1>3 DEF BeginList
<1>4. ASSUME NEW p \in call.rest, AskCatalog(p) PROVE GrantInv'
  <2>1. /\ UNCHANGED host
        /\ call.op = "list" /\ p \in Granted(host)
    BY <1>4, AskMoves
  <2>2. CASE call' = [call EXCEPT !.rest = call.rest \ {p}]
    BY <2>1, <2>2 DEF TypeOK
  <2>3. CASE call' = [call EXCEPT !.rest = call.rest \ {p},
                                  !.listed = call.listed \cup {p.id}]
    BY <2>1, <2>3 DEF TypeOK
  <2>4. QED
    BY <1>4, <2>2, <2>3, AskMoves
<1>5. ASSUME NEW d \in Datasets, GetSchema(d) PROVE GrantInv'
  <2>1. PICK outcome \in SchemaAnswers(d) :
          call' = [NoCall EXCEPT !.op = "schema", !.dataset = d, !.outcome = outcome,
                                 !.shown = IF outcome = "ok" THEN SchemaFields(d) ELSE {}]
    BY <1>5 DEF GetSchema
  <2>2. /\ call'.op = "schema" /\ call'.dataset = d /\ call'.outcome = outcome
        /\ call'.shown = IF outcome = "ok" THEN SchemaFields(d) ELSE {}
        /\ call'.rest = {} /\ call'.listed = {} /\ UNCHANGED host
    BY <1>5, <2>1 DEF GetSchema
  <2>3. outcome = "ok" =>
          /\ SchemaFields(d) # {}
          /\ \E p \in Granted(host) : p.id = d /\ SchemaFields(d) \subseteq p.fields
    BY SchemaShows DEF CatalogInv
  <2>4. QED
    BY <2>2, <2>3
<1>6. ASSUME NEW d \in Datasets, NEW wanted \in Projections, BeginQuery(d, wanted) PROVE GrantInv'
  BY <1>6, QueryMeans DEF BeginQuery
<1>7. CASE ListRaises \/ ListAnswered
  BY <1>7 DEF ListRaises, ListAnswered, TypeOK
<1>8. CASE ExecuteQuery
  BY <1>8 DEF ExecuteQuery, TypeOK, Idle
<1>9. CASE MySqlFails
  BY <1>9 DEF MySqlFails, TypeOK
<1>10. QED
  BY <1>1, <1>2, <1>3, <1>4, <1>5, <1>6, <1>7, <1>8, <1>9
  DEF Next, vars, EditFile, AlterView

(***************************************************************************)
(* DDL in the middle of a listing, and each dataset it asks for, leave the *)
(* listing between what was always visible and what ever was.              *)
(***************************************************************************)
LEMMA ListKept == CatalogInv /\ [Next]_vars => ListInv'
<1> SUFFICES ASSUME CatalogInv, [Next]_vars
             PROVE  ListInv'
  OBVIOUS
<1> HostInv /\ ListInv /\ TypeOK /\ CallInv /\ GrantInv
  BY DEF CatalogInv
<1> USE DEF ListInv, Now
<1>1. CASE UNCHANGED <<host, view, call, everVisible, alwaysVisible>>
  BY <1>1
<1>2. ASSUME NEW columns \in Views, AlterView(columns) PROVE ListInv'
  <2>1. CASE call.op = "list" /\ ~Idle
    BY <1>2, <2>1 DEF AlterView
  <2>2. CASE ~(call.op = "list" /\ ~Idle)
    BY <1>2, <2>2 DEF AlterView, Idle
  <2>3. QED
    BY <2>1, <2>2
<1>3. CASE call'.op # "list"
  BY <1>3
<1>4. CASE BeginList
  BY <1>4 DEF BeginList, NoCall, VisibleDatasets
<1>5. ASSUME NEW p \in call.rest, AskCatalog(p) PROVE ListInv'
  <2>1. /\ UNCHANGED <<host, view, everVisible, alwaysVisible>>
        /\ call.op = "list" /\ call.outcome = "none" /\ p \in Granted(host)
    BY <1>5, AskMoves
  <2>2. CASE VisibleFields(p, view) = {} /\ call' = [call EXCEPT !.rest = call.rest \ {p}]
    <3>1. p.id \notin VisibleDatasets(Granted(host), view)
      BY <2>1, <2>2, GrantedPolicies DEF VisibleDatasets
    <3>2. p.id \notin alwaysVisible
      BY <2>1, <3>1
    <3>3. call'.listed = call.listed /\ call'.rest = call.rest \ {p} /\ call'.outcome = "none"
      BY <2>1, <2>2 DEF TypeOK
    <3>4. QED
      BY <2>1, <3>2, <3>3
  <2>3. CASE /\ VisibleFields(p, view) # {}
             /\ call' = [call EXCEPT !.rest = call.rest \ {p},
                                     !.listed = call.listed \cup {p.id}]
    <3>1. p.id \in VisibleDatasets(Granted(host), view)
      BY <2>1, <2>3 DEF VisibleDatasets
    <3>2. p.id \in everVisible
      BY <2>1, <3>1
    <3>3. /\ call'.listed = call.listed \cup {p.id} /\ call'.rest = call.rest \ {p}
          /\ call'.outcome = "none"
      BY <2>1, <2>3 DEF TypeOK
    <3>4. QED
      BY <2>1, <3>2, <3>3
  <2>4. QED
    BY <1>5, <2>2, <2>3, AskMoves
<1>6. CASE ListRaises \/ MySqlFails
  BY <1>6 DEF ListRaises, MySqlFails, Answer, TypeOK, history
<1>7. CASE ListAnswered
  BY <1>7 DEF ListAnswered, Answer, Idle, TypeOK, history
<1>8. CASE Boot \/ Stop
  BY <1>8 DEF Boot, Stop, CallInv, NoCall
<1>9. ASSUME NEW d \in Datasets, GetSchema(d) PROVE ListInv'
  BY <1>9, <1>3 DEF GetSchema, NoCall
<1>10. ASSUME NEW d \in Datasets, NEW wanted \in Projections, BeginQuery(d, wanted) PROVE ListInv'
  BY <1>10, <1>3 DEF BeginQuery, NoCall
<1>11. CASE ExecuteQuery
  BY <1>11, <1>3 DEF ExecuteQuery, Answer, TypeOK
<1>12. QED
  BY <1>1, <1>2, <1>4, <1>5, <1>6, <1>7, <1>8, <1>9, <1>10, <1>11
  DEF Next, vars, history, EditFile

(***************************************************************************)
(* A call that is refused was not promised: an offer would still hold, and *)
(* with it the answer.                                                     *)
(***************************************************************************)
Refused == {"rejected", "notAllowed", "unknownColumn"}

LEMMA PromisesHold == CatalogInv /\ [Next]_vars => PromisesKept'
<1> SUFFICES ASSUME CatalogInv, [Next]_vars
             PROVE  PromisesKept'
  OBVIOUS
<1> HostInv /\ OfferInv /\ TypeOK /\ CallInv /\ GrantInv /\ PromisesKept
  BY DEF CatalogInv
<1>1. CASE UNCHANGED call /\ fieldOffers' \subseteq fieldOffers
                          /\ datasetOffers' \subseteq datasetOffers
  BY <1>1 DEF PromisesKept
<1>2. CASE call'.outcome \notin Refused
  BY <1>2 DEF PromisesKept, Refused
<1>3. ASSUME NEW columns \in Views, AlterView(columns) PROVE PromisesKept'
  BY <1>1, <1>3 DEF AlterView, StillOffered
<1>4. CASE Boot
  BY <1>1, <1>4 DEF Boot, StillOffered
<1>5. CASE Stop \/ BeginList
  <2>1. NoCall.outcome = "none"
    BY DEF NoCall
  <2>2. CASE Stop
    BY <1>2, <2>1, <2>2 DEF Stop, Refused
  <2>3. CASE BeginList
    <3>1. call'.outcome = "none"
      BY <2>3 DEF BeginList, NoCall
    <3>2. QED
      BY <1>2, <3>1 DEF Refused
  <2>4. QED
    BY <1>5, <2>2, <2>3
<1>6. ASSUME NEW p \in call.rest, AskCatalog(p) PROVE PromisesKept'
  <2>1. call'.outcome = "none"
    BY <1>6, AskMoves DEF TypeOK
  <2>2. QED
    BY <1>2, <2>1 DEF Refused
<1>7. CASE ListRaises
  BY <1>7 DEF ListRaises, Answer, TypeOK, PromisesKept
<1>8. CASE ListAnswered \/ MySqlFails
  BY <1>2, <1>8 DEF ListAnswered, MySqlFails, Answer, TypeOK, Refused
<1>9. ASSUME NEW d \in Datasets, GetSchema(d) PROVE PromisesKept'
  <2>1. PICK outcome \in SchemaAnswers(d) :
          call' = [NoCall EXCEPT !.op = "schema", !.dataset = d, !.outcome = outcome,
                                 !.shown = IF outcome = "ok" THEN SchemaFields(d) ELSE {}]
    BY <1>9 DEF GetSchema
  <2>2. /\ call'.op = "schema" /\ call'.dataset = d /\ call'.outcome = outcome
        /\ host # Down /\ datasetOffers' = datasetOffers
    BY <1>9, <2>1 DEF GetSchema, NoCall
  <2>3. ASSUME outcome \in Refused, d \in datasetOffers PROVE FALSE
    <3>1. \E p \in Granted(host) : p.id = d
      BY <2>2, <2>3 DEF OfferInv, Now, VisibleDatasets
    <3>2. PICK p \in Granted(host) : p.id = d /\ VisibleFields(p, view) = {}
      BY <2>3, <3>1, SchemaMeans DEF Refused
    <3>3. QED
      BY <2>3, <3>2, OffersHold
  <2>4. QED
    BY <2>2, <2>3 DEF PromisesKept, Refused
<1>10. ASSUME NEW d \in Datasets, NEW wanted \in Projections, BeginQuery(d, wanted)
       PROVE  PromisesKept'
  <2>1. PICK outcome \in QueryAnswers(d, wanted) :
          call' = [NoCall EXCEPT !.op = "query", !.dataset = d, !.wanted = wanted,
                                 !.outcome = outcome]
    BY <1>10 DEF BeginQuery
  <2>2. /\ call'.op = "query" /\ call'.dataset = d /\ call'.wanted = wanted
        /\ call'.outcome = outcome /\ host # Down /\ fieldOffers' = fieldOffers
    BY <1>10, <2>1 DEF BeginQuery, NoCall
  <2>3. ASSUME outcome \in Refused, {d} \X wanted \subseteq fieldOffers PROVE FALSE
    <3>1. PICK f \in wanted : <<d, f>> \in fieldOffers
      BY <2>3, CatalogAssumption
    <3>2. \E p \in Granted(host) : p.id = d
      BY <2>2, <3>1 DEF OfferInv
    <3>3. PICK p \in Granted(host) :
            /\ p.id = d
            /\ VisibleFields(p, view) = {} \/ ~(wanted \subseteq VisibleFields(p, view))
      BY <2>3, <3>2, QueryMeans DEF Refused
    <3>4. \A g \in wanted : <<p.id, g>> \in fieldOffers
      BY <2>3, <3>3
    <3>5. QED
      BY <3>1, <3>3, <3>4, OffersHold
  <2>4. QED
    BY <2>2, <2>3 DEF PromisesKept, Refused
<1>11. CASE ExecuteQuery
  <2>1. /\ call.op = "query" /\ call.outcome = "none" /\ host # Down
        /\ fieldOffers' = fieldOffers
    BY <1>11 DEF ExecuteQuery, Idle, CallInv, NoCall, history
  <2>2. /\ call'.op = "query" /\ call'.dataset = call.dataset /\ call'.wanted = call.wanted
        /\ call'.outcome = IF ~(call.wanted \subseteq AllowedColumns) THEN "notAllowed"
                           ELSE IF call.wanted \subseteq view THEN "ok"
                           ELSE "unknownColumn"
    BY <1>11, <2>1 DEF ExecuteQuery, Answer, TypeOK
  <2>3. PICK p \in Granted(host) : p.id = call.dataset /\ call.wanted \subseteq p.fields
    BY <2>1 DEF GrantInv
  <2>4. ASSUME {call.dataset} \X call.wanted \subseteq fieldOffers
        PROVE  call.wanted \subseteq view
    <3>1. \A g \in call.wanted : <<p.id, g>> \in fieldOffers
      BY <2>3, <2>4
    <3>2. \A g \in call.wanted : g \in VisibleFields(p, view)
      BY <3>1, OffersHold
    <3>3. QED
      BY <3>2 DEF VisibleFields
  <2>5. QED
    BY <2>1, <2>2, <2>4 DEF PromisesKept
<1>12. CASE UNCHANGED <<call, fieldOffers, datasetOffers>>
  BY <1>1, <1>12
<1>13. QED
  BY <1>3, <1>4, <1>5, <1>6, <1>7, <1>8, <1>9, <1>10, <1>11, <1>12
  DEF Next, vars, history, EditFile

------------------------------------------------------------------------------
(***************************************************************************)
(* The invariant holds before the first boot and in every later state.     *)
(***************************************************************************)
LEMMA CatalogInit == Init => CatalogInv
<1> SUFFICES ASSUME Init PROVE CatalogInv
  OBVIOUS
<1> USE DEF Init
<1>1. TypeOK
  BY CatalogAssumption DEF TypeOK, Down, NoCall, Outcomes
<1>2. HostInv /\ CallInv /\ OfferInv
  BY DEF HostInv, CallInv, OfferInv, NoCall
<1>3. GrantInv /\ ListInv /\ PromisesKept
  BY DEF GrantInv, ListInv, PromisesKept, NoCall
<1>4. QED
  BY <1>1, <1>2, <1>3 DEF CatalogInv

THEOREM CatalogInvariant == Spec => []CatalogInv
<1>1. CatalogInv /\ [Next]_vars => CatalogInv'
  BY CatalogNextType, HostKept, CallKept, OffersKept, GrantsKept, ListKept, PromisesHold
  DEF CatalogInv
<1>2. QED
  BY CatalogInit, <1>1, PTL DEF Spec

(***************************************************************************)
(* Type correctness of the policy, the view and the calls.                 *)
(***************************************************************************)
THEOREM CatalogTypeCorrect == Spec => []TypeOK
<1>1. CatalogInv => TypeOK
  BY DEF CatalogInv
<1>2. QED
  BY CatalogInvariant, <1>1, PTL

(***************************************************************************)
(* YamlPolicyAdapter: what a host grants is what the file it booted with   *)
(* writes, with one policy for a dataset, in either form of the file.      *)
(***************************************************************************)
THEOREM LoadedAsWritten == Spec => []GrantsAreWritten
<1>1. ASSUME CatalogInv PROVE GrantsAreWritten
  <2>1. CASE host = Down
    BY <2>1 DEF GrantsAreWritten
  <2>2. CASE host # Down
    <3>1. PICK doc \in Files \cap Document :
            Loads(doc) /\ host = [doc |-> doc, policies |-> PoliciesOf(doc)]
      BY <1>1, <2>2 DEF CatalogInv, HostInv
    <3>2. host.doc = doc /\ host.policies = PoliciesOf(doc)
      BY <3>1
    <3>3. QED
      BY <3>1, <3>2, LoadedPolicies, LoadedGrants DEF GrantsAreWritten, GrantsOf
  <2>3. QED
    BY <2>1, <2>2
<1>2. QED
  BY CatalogInvariant, <1>1, PTL

(***************************************************************************)
(* No use case answers with a dataset or a field that the file does not    *)
(* grant to the profile of the host: no listing with a dataset, no schema  *)
(* with a column of the view, no result with a field.                      *)
(***************************************************************************)
THEOREM OnlyGrantedIsShown == Spec => []NothingUngranted
<1>1. ASSUME CatalogInv PROVE NothingUngranted
  <2>h. HostInv /\ GrantInv /\ CallInv /\ TypeOK
    BY <1>1 DEF CatalogInv
  <2> DEFINE mine == IF host.doc.profile = CallerProfile THEN Written(host.doc) ELSE {}
  <2>1. ASSUME NEW p \in Granted(host)
        PROVE  /\ {p.id} \X p.fields \subseteq mine
               /\ \E f \in Fields : <<p.id, f>> \in mine
    <3>1. {p.id} \X p.fields \subseteq mine
      BY <2>h, GrantedPolicies
    <3>2. PICK f \in p.fields : f \in Fields
      BY <2>h, GrantedPolicies DEF Policy
    <3>3. <<p.id, f>> \in mine
      BY <3>1, <3>2
    <3>4. QED
      BY <3>1, <3>2, <3>3
  <2>2. \A d \in call.listed : \E f \in Fields : <<d, f>> \in mine
    BY <2>h, <2>1 DEF GrantInv
  <2>3. (call.op = "schema" /\ call.outcome = "ok") =>
          call.shown # {} /\ {call.dataset} \X call.shown \subseteq mine
    <3>1. SUFFICES ASSUME call.op = "schema", call.outcome = "ok"
                   PROVE  call.shown # {} /\ {call.dataset} \X call.shown \subseteq mine
      OBVIOUS
    <3>2. PICK p \in Granted(host) : p.id = call.dataset /\ call.shown \subseteq p.fields
      BY <2>h, <3>1 DEF GrantInv
    <3>3. QED
      BY <2>h, <2>1, <3>1, <3>2 DEF GrantInv
  <2>4. (call.op = "query" /\ call.outcome = "ok") =>
          {call.dataset} \X call.wanted \subseteq mine
    <3>1. SUFFICES ASSUME call.op = "query", call.outcome = "ok"
                   PROVE  {call.dataset} \X call.wanted \subseteq mine
      OBVIOUS
    <3>2. PICK p \in Granted(host) : p.id = call.dataset /\ call.wanted \subseteq p.fields
      BY <2>h, <3>1 DEF GrantInv
    <3>3. QED
      BY <2>1, <3>2
  <2>5. call.op # "list" => call.listed = {}
    BY <2>h DEF CallInv
  <2>6. QED
    BY <2>2, <2>3, <2>4, <2>5 DEF NothingUngranted
<1>2. QED
  BY CatalogInvariant, <1>1, PTL

(***************************************************************************)
(* ListAuthorizedDatasets under DDL: complete for what was visible         *)
(* throughout, and nothing that was never visible.                         *)
(***************************************************************************)
THEOREM ListingsAreBracketed == Spec => []ListingIsBracketed
<1>1. ASSUME CatalogInv PROVE ListingIsBracketed
  <2>1. ListInv
    BY <1>1 DEF CatalogInv
  <2>2. QED
    BY <2>1 DEF ListInv, ListingIsBracketed
<1>2. QED
  BY CatalogInvariant, <1>1, PTL

(***************************************************************************)
(* A client may build on a listing and on a schema as long as the view and *)
(* the grants stay.                                                        *)
(***************************************************************************)
THEOREM OffersAreKept == Spec => []PromisesKept
<1>1. CatalogInv => PromisesKept
  BY DEF CatalogInv
<1>2. QED
  BY CatalogInvariant, <1>1, PTL
=============================================================================
