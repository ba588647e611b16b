----------------------------- MODULE Workspaces -----------------------------
(***************************************************************************)
(* Creation of a workspace: POST /v1/orgs/{org}/workspaces and what        *)
(* db::workspaces::create does for it.  The row of public.workspaces, the  *)
(* tenant schema, the reaper and the version mark are separate commits, so *)
(* a failure between two of them leaves what was committed before it.      *)
(* Nothing in the code deletes a workspace, suspends it or resumes a       *)
(* creation.                                                               *)
(***************************************************************************)
EXTENDS Naturals, FiniteSets

CONSTANTS
    Slugs,          \* names of workspaces of one organization
    Existing,       \* the ones created before
    Requests        \* POST /workspaces requests

ASSUME WorkspacesAssumption == Existing \subseteq Slugs

VARIABLES
    space,          \* space[s]: what is committed for workspace s
    post            \* post[r]: where request r is, and its answer

workspaceVars == <<space, post>>

(* "some": the schema exists, the executions table does not yet. *)
Space == [row : BOOLEAN, tables : {"none", "some", "all"},
          reaper : BOOLEAN, version : BOOLEAN]

NoSpace == [row |-> FALSE, tables |-> "none", reaper |-> FALSE, version |-> FALSE]

Complete == [row |-> TRUE, tables |-> "all", reaper |-> TRUE, version |-> TRUE]

Working == {"schema", "ddl", "reaper", "version", "read"}
Stage == Working \cup {"new", "answered"}
Post == [at : Stage, slug : Slugs, answer : {0, 201, 400, 404, 409, 500}]

Answer(r, status) == post' = [post EXCEPT ![r].at = "answered", ![r].answer = status]

Goto(r, stage) == post' = [post EXCEPT ![r].at = stage]

-----------------------------------------------------------------------------
(* The handler refuses a malformed slug (400) and an organization that    *)
(* does not exist (404).                                                   *)
Refuse(r) ==
    /\ post[r].at = "new"
    /\ \E status \in {400, 404} : Answer(r, status)
    /\ UNCHANGED space

\* Mutant: the unique constraint on the slug is missing.
create_anyway(r) ==
    /\ post[r].at = "new"
    /\ space' = [space EXCEPT ![post[r].slug].row = TRUE]
    /\ Goto(r, "schema")

(* INSERT INTO public.workspaces: its own commit, status ACTIVE.  A slug   *)
(* already taken is the constraint error the handler answers with 409.     *)
create(r) ==
    LET s == post[r].slug IN
    /\ post[r].at = "new"
    /\ IF space[s].row
       THEN Answer(r, 409) /\ UNCHANGED space
       ELSE /\ space' = [space EXCEPT ![s].row = TRUE]
            /\ Goto(r, "schema")

(* CREATE SCHEMA IF NOT EXISTS and the first statements of the DDL. *)
provision_schema(r) ==
    /\ post[r].at = "schema"
    /\ space' = [space EXCEPT ![post[r].slug].tables =
                    IF @ = "none" THEN "some" ELSE @]
    /\ Goto(r, "ddl")

(* The remaining statements, each CREATE ... IF NOT EXISTS. *)
ApplyDdl(r) ==
    /\ post[r].at = "ddl"
    /\ space' = [space EXCEPT ![post[r].slug].tables = "all"]
    /\ Goto(r, "reaper")

(* Endpoint, CRON job and pg_cron entry of the reaper in one transaction. *)
provision_reaper(r) ==
    /\ post[r].at = "reaper"
    /\ space' = [space EXCEPT ![post[r].slug].reaper = TRUE]
    /\ Goto(r, "version")

(* UPDATE ... SET schema_version = 1. *)
SetVersion(r) ==
    /\ post[r].at = "version"
    /\ space' = [space EXCEPT ![post[r].slug].version = TRUE]
    /\ Goto(r, "read")

(* The complete row is read back and returned. *)
ReadBack(r) ==
    /\ post[r].at = "read"
    /\ Answer(r, 201)
    /\ UNCHANGED space

\* Mutant: a failed creation takes the row away again.
CreateError_unlists(r) ==
    /\ post[r].at \in Working \cup {"new"}
    /\ Answer(r, 500)
    /\ space' = [space EXCEPT ![post[r].slug].row = FALSE]

(* The database fails, or the process dies, before the next commit; or     *)
(* only the read back fails, and a complete workspace is answered with 500. *)
CreateError(r) ==
    /\ post[r].at \in Working \cup {"new"}
    /\ Answer(r, 500)
    /\ UNCHANGED space

WorkspaceStep(r) ==
    \/ Refuse(r) \/ create(r) \/ provision_schema(r) \/ ApplyDdl(r)
    \/ provision_reaper(r) \/ SetVersion(r) \/ ReadBack(r) \/ CreateError(r)

WorkspaceInit ==
    /\ space = [s \in Slugs |-> IF s \in Existing THEN Complete ELSE NoSpace]
    /\ post \in [Requests -> {[at |-> "new", slug |-> s, answer |-> 0] : s \in Slugs}]

-----------------------------------------------------------------------------
WorkspaceTypeOK ==
    /\ space \in [Slugs -> Space]
    /\ post \in [Requests -> Post]

(* schema_version marks exactly what is complete: a workspace with the     *)
(* mark has its tables and its reaper, so one without it is the            *)
(* half-provisioned workspace the comment in db::workspaces::create speaks *)
(* of; and no reaper runs in a schema without tables.                      *)
VersionMarksComplete ==
    \A s \in Slugs :
        /\ space[s].version => space[s].reaper
        /\ space[s].reaper => space[s].tables = "all"
        /\ space[s].tables # "none" => space[s].row

(* However many requests name one slug, only one of them ever provisions   *)
(* it, at most one is told 201, and who is told 201 has a workspace with   *)
(* its tables, its reaper and its mark: the unique constraint on the row   *)
(* is what keeps two creations apart.                                      *)
SingleProvisioner ==
    \A r, q \in Requests :
        /\ post[r].answer = 201 => space[post[r].slug] = Complete
        /\ (post[r].slug = post[q].slug /\ r # q) =>
            /\ post[r].at \in Working =>
                 post[q].at \notin Working /\ post[q].answer # 201
            /\ ~(post[r].answer = 201 /\ post[q].answer = 201)
=============================================================================
