---------------------------- MODULE TopicRegistry ----------------------------
(***************************************************************************)
(* The topic table and what refers to it: persistence/repositories.py      *)
(* create_topic, delete_topic and the topic routes of api/app.py.  Ids are *)
(* fresh UUIDs, so a deleted topic does not come back.  A dependent is a   *)
(* row of source, article, ingestion_attempt or brief, the tables with a   *)
(* foreign key ON DELETE RESTRICT; dependents are never deleted.           *)
(***************************************************************************)
EXTENDS Naturals

CONSTANTS
  Topics,           \* ids of topics, numbered in the order of their names
  Established       \* those created before

ASSUME RegistryAssumption == Topics \subseteq Nat

VARIABLES
  topic,            \* topic table: state of the row of each id
  dependents,       \* topics that a dependent refers to
  deleting          \* topics with a DELETE past its checks

registry == <<topic, dependents, deleting>>

RegistryTypeOK ==
  /\ topic \in [Topics -> {"unborn", "present", "deleted"}]
  /\ dependents \in SUBSET Topics
  /\ deleting \in SUBSET Topics

RegistryInit ==
  /\ topic = [t \in Topics |-> IF t \in Established THEN "present" ELSE "unborn"]
  /\ dependents = {}
  /\ deleting = {}

Present == {t \in Topics : topic[t] = "present"}

\* POST /topics
CreateTopic(t) ==
  /\ topic[t] = "unborn"
  /\ topic' = [topic EXCEPT ![t] = "present"]
  /\ UNCHANGED <<dependents, deleting>>

\* The INSERT of a row that refers to t.  The foreign key refuses it without
\* the topic: the caller gets an IntegrityError and nothing changes.
Refer(t) ==
  /\ t \in Present
  /\ dependents' = dependents \cup {t}
  /\ UNCHANGED <<topic, deleting>>

\* delete_topic: the row and its dependents are looked for.  Otherwise the
\* answer is 404 or 409 and nothing changes.
CheckDelete(t) ==
  /\ t \in Present \ dependents
  /\ deleting' = deleting \cup {t}
  /\ UNCHANGED <<topic, dependents>>

\* Mutant: the tables have no foreign key, and the check is all there is.
RestrictedNever(t) == t \notin Topics

\* ON DELETE RESTRICT
Restricted(t) == t \in dependents

\* The DELETE statement and its commit.  A dependent inserted since the check
\* makes it fail: the route answers 500 and not 409.
Delete(t) ==
  /\ t \in deleting
  /\ deleting' = deleting \ {t}
  /\ topic' = IF Restricted(t) THEN topic ELSE [topic EXCEPT ![t] = "deleted"]
  /\ UNCHANGED dependents

RegistryStep(t) == CreateTopic(t) \/ CheckDelete(t) \/ Delete(t)
=============================================================================
