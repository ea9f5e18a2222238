----------------------------- MODULE PolicyFile ------------------------------
(***************************************************************************)
(* The policy file and what YamlPolicyAdapter.from_yaml_path               *)
(* (adapters/policy/yaml_policy_adapter.py) makes of it.                   *)
(*                                                                         *)
(* A file is Unreadable (missing, not readable, no YAML, no mapping) or a  *)
(* Document.  The YAML parser keeps the last of several equal keys of a    *)
(* mapping and says nothing; in the list form the adapter itself looks for *)
(* repeated names.  Every refusal is a PolicyValidationError, and the      *)
(* reason is wording, so a document loads or it does not.                  *)
(***************************************************************************)
EXTENDS Integers, SequencesExt

CONSTANTS
  Datasets, Fields,   \* names a document may give datasets and fields
  Tables,             \* names it may give the table behind a dataset
  Profiles, Blank,    \* policy_profile, or none or a blank one
  Sensitive,          \* _SENSITIVE_KEYS, in any case
  Unreadable,
  SystemMaxLimit      \* _SYSTEM_MAX_LIMIT

Forms == {"mapping", "list", "other"}

Entry ==
  [id : Datasets, table : Tables, wellFormed : BOOLEAN,   \* for pydantic and Capability
   defaultLimit : Int, maxLimit : Int,
   fieldForm : Forms, fields : Seq(Fields)]

Document ==
  [profile : Profiles \cup {Blank},
   otherKeys : SUBSET STRING,          \* further keys of the root, which are not read
   form : Forms, entries : Seq(Entry)]

Policy == [id : Datasets, table : Tables, fields : SUBSET Fields]

------------------------------------------------------------------------------
IdsOf(doc) == [i \in DOMAIN doc.entries |-> doc.entries[i].id]

\* the entries that yaml.safe_load hands over
Entries(doc) ==
  IF doc.form = "mapping"
    THEN {doc.entries[i] : i \in {k \in DOMAIN doc.entries :
            \A j \in DOMAIN doc.entries : j > k => doc.entries[j].id # doc.entries[k].id}}
    ELSE ToSet(doc.entries)

\* _reject_sensitive_keys sees the names that are keys, not those that are values
KeysOf(doc) ==
  doc.otherKeys
    \cup (IF doc.form = "mapping" THEN {e.id : e \in Entries(doc)} ELSE {})
    \cup UNION {ToSet(e.fields) : e \in {d \in Entries(doc) : d.fieldForm = "mapping"}}

LimitsOk(e) == e.maxLimit \in 1 .. SystemMaxLimit /\ e.defaultLimit \in 1 .. e.maxLimit

FieldsOk(e) ==
  /\ e.fieldForm # "other"
  /\ e.fields # <<>>
  /\ e.fieldForm = "list" => IsInjective(e.fields)

EntryOk(e) == e.wellFormed /\ LimitsOk(e) /\ FieldsOk(e)

\* MUTANT of DatasetsOk: the list form does not look for repeated ids
DatasetsRepeated(doc) ==
  /\ doc.form # "other"
  /\ \A e \in Entries(doc) : EntryOk(e)

DatasetsOk(doc) ==
  /\ doc.form # "other"
  /\ doc.form = "list" => IsInjective(IdsOf(doc))
  /\ \A e \in Entries(doc) : EntryOk(e)

Loads(doc) ==
  /\ doc # Unreadable
  /\ KeysOf(doc) \cap Sensitive = {}
  /\ doc.profile # Blank
  /\ DatasetsOk(doc)

\* limits, title, description and physical_column are checked and dropped
PolicyOf(e) == [id |-> e.id, table |-> e.table, fields |-> ToSet(e.fields)]

PoliciesOf(doc) == {PolicyOf(e) : e \in Entries(doc)}
=============================================================================
