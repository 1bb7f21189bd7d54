----------------------------- MODULE Workspace -----------------------------
(***************************************************************************)
(* How one workspace comes to be and is opened: create_workspace, connect  *)
(* and _open of workspaces.py, migrate of schema.py.                       *)
(*                                                                         *)
(* Any thread or process may be the one that finds the file new, or of an  *)
(* older version, and then several bring it up to date at once.  The       *)
(* connection is in autocommit, so each statement of the DDL script takes  *)
(* effect alone, and a process may die after any of them.                  *)
(***************************************************************************)
EXTENDS Integers, Sequences

CONSTANTS
  Users,     \* threads and processes that ask for the workspace
  MaxFaults  \* bound: statements that raise and processes that die

ASSUME WorkspaceAssumption == MaxFaults \in Nat

(* _DDL in its order; tables that no property tells apart share a name:    *)
(* points goes with vec_points and fts_points, the rest with briefs.       *)
DDL == <<"schema_meta", "points", "points_fts_ai", "receipts", "approvals", "briefs">>

(* What migrate adds to tables that are older than the column.             *)
Columns == <<"approvals.risk_tier", "receipts.risk_tier">>

Parts == {DDL[i] : i \in 1 .. Len(DDL)} \cup {Columns[c] : c \in 1 .. Len(Columns)}

NoVersion      == -1
OldVersion     == 2
SCHEMA_VERSION == 6

(* What a table brings along when it is created, rather than found.        *)
Brings(table) ==
  CASE table = "receipts"  -> {table, "receipts.risk_tier"}
    [] table = "approvals" -> {table, "approvals.risk_tier"}
    [] OTHER               -> {table}

VARIABLES
  dir,      \* the directory of the workspace exists
  file,     \* so does heydey.db
  schema,   \* the parts in the file
  version,  \* the row schema_version, NoVersion if there is none
  job,      \* per user: where it is
  faults

wvars == <<dir, file, schema, version, job, faults>>

Kinds == {"create",   \* POST /workspaces
          "connect",  \* any route or command that needs the workspace
          "init",     \* heydey init, and ops_ingest: connect, else create
          "sync",     \* a rerouted sync: create, unless it is there, and connect
          "kb"}       \* kb_migrate: connect, and migrate once more

(* making: inside create_workspace.  again: the caller runs migrate itself.*)
Idle == [step |-> "idle"]
Job ==
  [step : {"find", "check", "mkdir", "open", "version", "ddl", "column", "alter",
           "stamp", "use"},
   kind : Kinds, making : BOOLEAN, again : BOOLEAN, i : 1 .. Len(DDL)]

WorkspaceTypeOK ==
  /\ dir \in BOOLEAN /\ file \in BOOLEAN
  /\ schema \subseteq Parts
  /\ version \in {NoVersion, OldVersion, SCHEMA_VERSION}
  /\ job \in [Users -> Job \cup {Idle}]
  /\ faults \in 0 .. MaxFaults

(* A workspace of version 2 knew neither the briefs nor the risk tier.     *)
OldSchema == {DDL[i] : i \in 1 .. Len(DDL)} \ {"briefs"}

WorkspaceInit ==
  /\ \/ dir = FALSE /\ file = FALSE /\ schema = {} /\ version = NoVersion
     \/ dir = TRUE /\ file = TRUE /\ schema = OldSchema /\ version = OldVersion
  /\ job = [u \in Users |-> Idle]
  /\ faults = 0

-----------------------------------------------------------------------------
Go(u, step) == job' = [job EXCEPT ![u].step = step]
Leave(u)    == job' = [job EXCEPT ![u] = Idle]

Ask(u, kind) ==
  /\ job[u] = Idle
  /\ job' = [job EXCEPT ![u] =
               [step |-> IF kind \in {"create", "sync"} THEN "check" ELSE "find",
                kind |-> kind, making |-> FALSE, again |-> kind = "kb", i |-> 1]]
  /\ UNCHANGED <<dir, file, schema, version, faults>>

(* connect: WorkspaceNotFound sends heydey init to create, others away.    *)
Connect(u) ==
  /\ job[u].step = "find"
  /\ IF file THEN Go(u, "version")
     ELSE IF job[u].kind = "init" THEN Go(u, "check")
     ELSE Leave(u)
  /\ UNCHANGED <<dir, file, schema, version, faults>>

(* create_workspace: WorkspaceExists lets a sync pass, stops the others.   *)
CheckPath(u) ==
  /\ job[u].step = "check"
  /\ IF ~file THEN Go(u, "mkdir")
     ELSE IF job[u].kind = "sync" THEN Go(u, "find")
     ELSE Leave(u)
  /\ UNCHANGED <<dir, file, schema, version, faults>>

(* path.parent.mkdir without exist_ok: FileExistsError is no               *)
(* WorkspaceError, and nobody catches it.                                  *)
MakeDir(u) ==
  /\ job[u].step = "mkdir"
  /\ dir' = TRUE
  /\ IF dir THEN Leave(u) ELSE Go(u, "open")
  /\ UNCHANGED <<file, schema, version, faults>>

CreateFile(u) ==
  /\ job[u].step = "open"
  /\ file' = TRUE
  /\ job' = [job EXCEPT ![u].step = "version", ![u].making = TRUE, ![u].again = TRUE]
  /\ UNCHANGED <<dir, schema, version, faults>>

(* The workspace is up to date for u: the caller may run migrate once      *)
(* more; a maker closes the file, and connects if it needs it.             *)
Opened(u) ==
  IF job[u].again
  THEN job' = [job EXCEPT ![u].step = "ddl", ![u].again = FALSE, ![u].i = 1]
  ELSE IF ~job[u].making THEN Go(u, "use")
  ELSE IF job[u].kind = "create" THEN Leave(u)
  ELSE job' = [job EXCEPT ![u].step = "find", ![u].making = FALSE]

(* The version check of _open; no table or no row counts as -1.            *)
ReadVersion(u) ==
  /\ job[u].step = "version"
  /\ IF version = SCHEMA_VERSION THEN Opened(u) ELSE Go(u, "ddl")
  /\ UNCHANGED <<dir, file, schema, version, faults>>

(* executescript: one statement, IF NOT EXISTS.                            *)
RunStatement(u) ==
  LET i == job[u].i
  IN /\ job[u].step = "ddl"
     /\ schema' = schema \cup (IF DDL[i] \in schema THEN {} ELSE Brings(DDL[i]))
     /\ job' = [job EXCEPT ![u].step = IF i = Len(DDL) THEN "column" ELSE "ddl",
                           ![u].i    = IF i = Len(DDL) THEN 1 ELSE i + 1]
     /\ UNCHANGED <<dir, file, version, faults>>

NextColumn(u) ==
  IF job[u].i = Len(Columns)
  THEN job' = [job EXCEPT ![u].step = "stamp", ![u].i = 1]
  ELSE job' = [job EXCEPT ![u].step = "column", ![u].i = @ + 1]

(* The version is written before the columns are there.                   *)
ReadColumns_bug(u) ==
  /\ job[u].step = "column"
  /\ version' = SCHEMA_VERSION
  /\ IF Columns[job[u].i] \in schema THEN NextColumn(u) ELSE Go(u, "alter")
  /\ UNCHANGED <<dir, file, schema, faults>>

(* _ensure_column: PRAGMA table_info.                                      *)
ReadColumns(u) ==
  /\ job[u].step = "column"
  /\ IF Columns[job[u].i] \in schema THEN NextColumn(u) ELSE Go(u, "alter")
  /\ UNCHANGED <<dir, file, schema, version, faults>>

(* ALTER TABLE raises if someone else was quicker.                         *)
AlterTable(u) ==
  LET column == Columns[job[u].i]
  IN /\ job[u].step = "alter"
     /\ schema' = schema \cup {column}
     /\ IF column \in schema THEN Leave(u) ELSE NextColumn(u)
     /\ UNCHANGED <<dir, file, version, faults>>

(* The row schema_version is the last thing migrate writes.                *)
StampVersion(u) ==
  /\ job[u].step = "stamp"
  /\ version' = SCHEMA_VERSION
  /\ Opened(u)
  /\ UNCHANGED <<dir, file, schema, faults>>

Close(u) ==
  /\ job[u].step = "use"
  /\ Leave(u)
  /\ UNCHANGED <<dir, file, schema, version, faults>>

(* A statement finds the database locked and raises, or the process dies:  *)
(* what has been written stays, and nothing is tried again.                *)
Breaks(u) ==
  /\ faults < MaxFaults
  /\ job[u] # Idle
  /\ faults' = faults + 1
  /\ Leave(u)
  /\ UNCHANGED <<dir, file, schema, version>>

opening(u) ==
  \/ \E kind \in Kinds : Ask(u, kind)
  \/ Connect(u) \/ CheckPath(u) \/ MakeDir(u) \/ CreateFile(u) \/ ReadVersion(u)
  \/ RunStatement(u) \/ ReadColumns(u) \/ AlterTable(u) \/ StampVersion(u)

-----------------------------------------------------------------------------
(* Who holds a connection has every table and column of the version the    *)
(* code was written for, however many others made, opened or healed the    *)
(* file at once and whatever died halfway (_open, "version-check every     *)
(* open"; SECURITY.md, "schema bumps heal old workspaces on first touch"). *)
HandedOutIsWhole == (\E u \in Users : job[u].step = "use") => schema = Parts
=============================================================================
