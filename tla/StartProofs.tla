---------------------------- MODULE StartProofs ----------------------------
(***************************************************************************)
(* What holds of a start: of the workspace that is opened and of the       *)
(* knowledge base that is migrated into it (KbMigrate), for any number of  *)
(* users, rows, batches, writes and faults, and of the supervisor that is  *)
(* launched (Launch), for any number of processes, calls of the page,      *)
(* launches and kills.  The two share no state.                            *)
(***************************************************************************)
EXTENDS KbMigrate, Launch, FiniteSetTheorems, WellFoundedInduction, TLAPS

-----------------------------------------------------------------------------
(* The workspace: any number of threads and processes create, open and     *)
(* heal it, and any number of them die on the way.                         *)
Scripted == {DDL[i] : i \in 1 .. Len(DDL)}

(* What a user that is inside migrate knows of the schema: what it has     *)
(* created or found before, nobody takes away.                             *)
Knows(u) ==
  /\ job[u].step \in {"find", "check", "mkdir", "open", "version", "stamp"} => job[u].i = 1
  /\ job[u].step = "ddl" => \A i \in 1 .. job[u].i - 1 : DDL[i] \in schema
  /\ job[u].step \in {"column", "alter"} =>
       /\ job[u].i \in 1 .. Len(Columns)
       /\ Scripted \subseteq schema
       /\ \A c \in 1 .. job[u].i - 1 : Columns[c] \in schema
  /\ job[u].step \in {"stamp", "use"} => Parts \subseteq schema

WholeInv ==
  /\ WorkspaceTypeOK
  /\ version = SCHEMA_VERSION => Parts \subseteq schema
  /\ \A u \in Users : Knows(u)

WNext == \E u \in Users : opening(u) \/ Close(u) \/ Breaks(u)

LEMMA DDLFacts ==
  /\ Len(DDL) = 6 /\ Len(Columns) = 2
  /\ Scripted = {DDL[i] : i \in 1 .. 6}
  /\ Parts = Scripted \cup {Columns[1], Columns[2]}
  /\ \A i \in 1 .. 6 : Brings(DDL[i]) \subseteq Parts /\ DDL[i] \in Brings(DDL[i])
<1>1. Len(DDL) = 6 /\ Len(Columns) = 2
  BY DEF DDL, Columns
<1>2. Scripted = {DDL[i] : i \in 1 .. 6}
  BY <1>1 DEF Scripted
<1>3. {Columns[c] : c \in 1 .. 2} = {Columns[1], Columns[2]}
  OBVIOUS
<1>4. Parts = Scripted \cup {Columns[1], Columns[2]}
  BY <1>1, <1>3 DEF Parts, Scripted
<1>5. ASSUME NEW i \in 1 .. 6
      PROVE  Brings(DDL[i]) \subseteq {DDL[i], Columns[1], Columns[2]} /\ DDL[i] \in Brings(DDL[i])
  BY DEF Brings, Columns
<1>6. ASSUME NEW i \in 1 .. 6 PROVE DDL[i] \in Scripted
  BY <1>2
<1> QED
  BY <1>1, <1>2, <1>4, <1>5, <1>6

LEMMA WholeInit == WorkspaceInit => WholeInv
<1> SUFFICES ASSUME WorkspaceInit PROVE WholeInv
  OBVIOUS
<1>1. OldSchema \subseteq Parts
  BY DEF OldSchema, Parts
<1>2. job \in [Users -> Job \cup {Idle}]
  BY DEF WorkspaceInit
<1>5. WorkspaceTypeOK
  <2>1. schema \subseteq Parts /\ version \in {NoVersion, OldVersion, SCHEMA_VERSION}
    BY <1>1 DEF WorkspaceInit
  <2>2. dir \in BOOLEAN /\ file \in BOOLEAN
    BY DEF WorkspaceInit
  <2>3. faults \in 0 .. MaxFaults
    BY WorkspaceAssumption DEF WorkspaceInit
  <2> QED
    BY <1>2, <2>1, <2>2, <2>3 DEF WorkspaceTypeOK
<1>3. version # SCHEMA_VERSION
  BY DEF WorkspaceInit, NoVersion, OldVersion, SCHEMA_VERSION
<1>4. \A u \in Users : job[u].step = "idle"
  BY DEF WorkspaceInit, Idle
<1> QED
  BY <1>5, <1>3, <1>4 DEF WholeInv, Knows

(* A step of u leaves what the others know alone, as long as the schema    *)
(* only grows.                                                             *)
LEMMA OthersKnow ==
  ASSUME NEW u \in Users, NEW j \in Job \cup {Idle}, WholeInv,
         job' = [job EXCEPT ![u] = j],
         schema \subseteq schema', schema' \subseteq Parts,
         version' \in {NoVersion, OldVersion, SCHEMA_VERSION},
         dir' \in BOOLEAN, file' \in BOOLEAN, faults' \in 0 .. MaxFaults,
         version' = SCHEMA_VERSION => Parts \subseteq schema',
         Knows(u)'
  PROVE  WholeInv'
<1>1. WorkspaceTypeOK'
  BY DEF WholeInv, WorkspaceTypeOK
<1>2. ASSUME NEW v \in Users, v # u PROVE Knows(v)'
  <2>1. job'[v] = job[v]
    BY <1>2 DEF WholeInv, WorkspaceTypeOK
  <2> QED
    BY <2>1 DEF WholeInv, Knows
<1> QED
  BY <1>1, <1>2 DEF WholeInv

(* The same for a step that leaves the file as it is.                      *)
LEMMA FileStays ==
  ASSUME NEW u \in Users, NEW j \in Job \cup {Idle}, WholeInv,
         job' = [job EXCEPT ![u] = j],
         UNCHANGED <<schema, version>>,
         dir' \in BOOLEAN, file' \in BOOLEAN, faults' \in 0 .. MaxFaults,
         Knows(u)'
  PROVE  WholeInv'
BY OthersKnow DEF WholeInv, WorkspaceTypeOK

(* A user that knows nothing, or is where it needs to know nothing.        *)
LEMMA NothingToKnow ==
  ASSUME NEW u \in Users, WholeInv, NEW j \in Job \cup {Idle},
         job' = [job EXCEPT ![u] = j],
         \/ j.step = "idle"
         \/ j.step \in {"find", "check", "mkdir", "open", "version", "ddl"} /\ j.i = 1
  PROVE  Knows(u)'
<1>1. job'[u] = j
  BY DEF WholeInv, WorkspaceTypeOK
<1> QED
  BY <1>1 DEF Knows

LEMMA JobOf ==
  ASSUME WholeInv, NEW u \in Users, job[u].step # "idle"
  PROVE  /\ job[u] \in Job
         /\ job[u].step \in {"find", "check", "mkdir", "open", "version", "ddl", "column",
                             "alter", "stamp", "use"}
         /\ job[u].i \in 1 .. 6
<1>1. job[u] \in Job \cup {Idle} /\ Idle.step = "idle"
  BY DEF WholeInv, WorkspaceTypeOK, Idle
<1>2. job[u] \in Job
  BY <1>1
<1> QED
  BY <1>2, DDLFacts DEF Job

(* One field of a job at a time.                                           *)
LEMMA SetStep ==
  ASSUME NEW r \in Job,
         NEW s \in {"find", "check", "mkdir", "open", "version", "ddl", "column",
                   "alter", "stamp", "use"}
  PROVE  /\ [r EXCEPT !.step = s] \in Job
         /\ [r EXCEPT !.step = s].step = s
         /\ [r EXCEPT !.step = s].i = r.i
BY DEF Job

LEMMA SetIndex ==
  ASSUME NEW r \in Job, NEW i, i \in 1 .. 6
  PROVE  /\ [r EXCEPT !.i = i] \in Job
         /\ [r EXCEPT !.i = i].step = r.step
         /\ [r EXCEPT !.i = i].i = i
<1>1. Len(DDL) = 6
  BY DDLFacts
<1> QED
  BY <1>1 DEF Job

LEMMA SetFlags ==
  ASSUME NEW r \in Job, NEW b \in BOOLEAN
  PROVE  /\ [r EXCEPT !.again = b] \in Job
         /\ [r EXCEPT !.again = b].step = r.step
         /\ [r EXCEPT !.again = b].i = r.i
         /\ [r EXCEPT !.making = b] \in Job
         /\ [r EXCEPT !.making = b].step = r.step
         /\ [r EXCEPT !.making = b].i = r.i
BY DEF Job

LEMMA GoStays ==
  ASSUME WholeInv, NEW u \in Users, NEW step, job[u] \in Job,
         step \in {"find", "check", "mkdir", "open", "version", "ddl", "column",
                  "alter", "stamp", "use"}
  PROVE  /\ [job[u] EXCEPT !.step = step] \in Job
         /\ [job[u] EXCEPT !.step = step].step = step
         /\ [job[u] EXCEPT !.step = step].i = job[u].i
         /\ Go(u, step) => job' = [job EXCEPT ![u] = [job[u] EXCEPT !.step = step]]
BY DEF Job, Go, WholeInv, WorkspaceTypeOK
-----------------------------------------------------------------------------
LEMMA OpenedKnows ==
  ASSUME WholeInv, NEW u \in Users, job[u].step \in {"version", "stamp"}, Opened(u),
         Parts \subseteq schema, UNCHANGED <<dir, file, schema, faults>>,
         version' \in {NoVersion, OldVersion, SCHEMA_VERSION}
  PROVE  WholeInv'
<1>0. Len(DDL) = 6
  BY DDLFacts
<1>1. job[u] \in Job /\ job[u].i = 1
  BY JobOf DEF WholeInv, Knows
<1>2. schema \subseteq schema' /\ schema' \subseteq Parts /\ Parts \subseteq schema'
  BY DEF WholeInv, WorkspaceTypeOK
<1>3. dir' \in BOOLEAN /\ file' \in BOOLEAN /\ faults' \in 0 .. MaxFaults
  BY DEF WholeInv, WorkspaceTypeOK
<1>4. PICK j \in Job \cup {Idle} :
        /\ job' = [job EXCEPT ![u] = j]
        /\ \/ j.step \in {"idle", "use"}
           \/ j.step \in {"ddl", "find"} /\ j.i = 1
  <2>1. CASE job[u].again
    <3> DEFINE j == [job[u] EXCEPT !.step = "ddl", !.again = FALSE, !.i = 1]
    <3> DEFINE r == [job[u] EXCEPT !.step = "ddl"]
               q == [r EXCEPT !.again = FALSE]
    <3>a. r \in Job /\ r.step = "ddl"
      BY <1>1, SetStep
    <3> HIDE DEF r
    <3>b. q \in Job /\ q.step = "ddl"
      BY <3>a, SetFlags
    <3> HIDE DEF q
    <3>c. [q EXCEPT !.i = 1] \in Job /\ [q EXCEPT !.i = 1].step = "ddl" /\ [q EXCEPT !.i = 1].i = 1
      BY <3>b, SetIndex, 1 \in 1 .. 6, Zenon
    <3>1. j \in Job /\ j.step = "ddl" /\ j.i = 1
      BY ONLY <3>c, Zenon DEF q, r
    <3>2. job' = [job EXCEPT ![u] = j]
      BY <1>1, <2>1 DEF Opened, WholeInv, WorkspaceTypeOK
    <3> QED
      BY <3>1, <3>2
  <2>2. CASE ~job[u].again /\ ~job[u].making
    <3> DEFINE j == [job[u] EXCEPT !.step = "use"]
    <3>1. job' = [job EXCEPT ![u] = j]
      BY <1>1, <2>2, GoStays DEF Opened
    <3>2. j \in Job /\ j.step = "use"
      BY <1>1, SetStep
    <3> QED
      BY <3>1, <3>2
  <2>3. CASE ~job[u].again /\ job[u].making /\ job[u].kind = "create"
    <3>1. job' = [job EXCEPT ![u] = Idle] /\ Idle.step = "idle"
      BY <2>3 DEF Opened, Leave, Idle
    <3> QED
      BY <3>1
  <2>4. CASE ~job[u].again /\ job[u].making /\ job[u].kind # "create"
    <3> DEFINE j == [job[u] EXCEPT !.step = "find", !.making = FALSE]
    <3> DEFINE r == [job[u] EXCEPT !.step = "find"]
    <3>a. r \in Job /\ r.step = "find" /\ r.i = 1
      BY <1>1, SetStep
    <3> HIDE DEF r
    <3>b. /\ [r EXCEPT !.making = FALSE] \in Job
          /\ [r EXCEPT !.making = FALSE].step = "find" /\ [r EXCEPT !.making = FALSE].i = 1
      BY <3>a, SetFlags
    <3>1. j \in Job /\ j.step = "find" /\ j.i = 1
      BY ONLY <3>b, Zenon DEF r
    <3>2. job' = [job EXCEPT ![u] = j]
      BY <1>1, <2>4 DEF Opened, WholeInv, WorkspaceTypeOK
    <3> QED
      BY <3>1, <3>2
  <2> QED
    BY <2>1, <2>2, <2>3, <2>4
<1>5. job'[u] = j
  BY <1>4 DEF WholeInv, WorkspaceTypeOK
<1>6. Knows(u)'
  BY <1>2, <1>4, <1>5 DEF Knows
<1> QED
  BY <1>2, <1>3, <1>4, <1>6, OthersKnow

(* After a column that is there comes the next, or the version.            *)
LEMMA NextColumnKnows ==
  ASSUME WholeInv, NEW u \in Users, job[u].step \in {"column", "alter"}, NextColumn(u),
         UNCHANGED <<dir, file, version, faults>>,
         schema \subseteq schema', schema' \subseteq Parts, Columns[job[u].i] \in schema'
  PROVE  WholeInv'
<1>0. Len(DDL) = 6 /\ Len(Columns) = 2
  BY DDLFacts
<1>1. job[u] \in Job /\ job[u].i \in 1 .. 2
  BY JobOf, DDLFacts DEF WholeInv, Knows
<1>2. Scripted \subseteq schema' /\ \A c \in 1 .. job[u].i : Columns[c] \in schema'
  BY <1>1 DEF WholeInv, Knows
<1>3. /\ dir' \in BOOLEAN /\ file' \in BOOLEAN /\ faults' \in 0 .. MaxFaults
      /\ version' \in {NoVersion, OldVersion, SCHEMA_VERSION}
      /\ version' = SCHEMA_VERSION => Parts \subseteq schema'
  BY DEF WholeInv, WorkspaceTypeOK
<1>4. CASE job[u].i = 2
  <2> DEFINE j == [job[u] EXCEPT !.step = "stamp", !.i = 1]
  <2> DEFINE r == [job[u] EXCEPT !.step = "stamp"]
  <2>a. r \in Job /\ r.step = "stamp"
    BY <1>1, SetStep
  <2> HIDE DEF r
  <2>b. /\ [r EXCEPT !.i = 1] \in Job
        /\ [r EXCEPT !.i = 1].step = "stamp" /\ [r EXCEPT !.i = 1].i = 1
    BY <2>a, SetIndex, 1 \in 1 .. 6, Zenon
  <2>1. j \in Job /\ j.step = "stamp" /\ j.i = 1
    BY ONLY <2>b, Zenon DEF r
  <2>2. job' = [job EXCEPT ![u] = j]
    BY <1>0, <1>1, <1>4 DEF NextColumn, WholeInv, WorkspaceTypeOK
  <2>3. Parts \subseteq schema'
    BY <1>2, <1>4, DDLFacts
  <2>4. job'[u] = j
    BY <2>2 DEF WholeInv, WorkspaceTypeOK
  <2>5. Knows(u)'
    BY <2>1, <2>3, <2>4 DEF Knows
  <2> QED
    BY <1>3, <2>1, <2>2, <2>5, OthersKnow
<1>5. CASE job[u].i = 1
  <2> DEFINE j == [job[u] EXCEPT !.step = "column", !.i = job[u].i + 1]
  <2> DEFINE r == [job[u] EXCEPT !.step = "column"]
  <2>c. job[u].i + 1 \in 1 .. 6 /\ job[u].i + 1 = 2
    BY <1>5
  <2>a. r \in Job /\ r.step = "column"
    BY <1>1, SetStep
  <2> HIDE DEF r
  <2>b. /\ [r EXCEPT !.i = job[u].i + 1] \in Job
        /\ [r EXCEPT !.i = job[u].i + 1].step = "column" /\ [r EXCEPT !.i = job[u].i + 1].i = job[u].i + 1
    BY <2>a, <2>c, SetIndex, Zenon
  <2>1. j \in Job /\ j.step = "column" /\ j.i = 2
    BY ONLY <2>b, <2>c, Zenon DEF r
  <2>2. job' = [job EXCEPT ![u] = j]
    <3>1. job[u].i # Len(Columns)
      BY <1>0, <1>5
    <3>2. job' = [job EXCEPT ![u].step = "column", ![u].i = job[u].i + 1]
      BY <3>1, Zenon DEF NextColumn
    <3>3. u \in DOMAIN job
      BY DEF WholeInv, WorkspaceTypeOK
    <3> QED
      BY <3>2, <3>3, Zenon
  <2>3. job'[u] = j
    BY <2>2 DEF WholeInv, WorkspaceTypeOK
  <2>4. Knows(u)'
    BY <1>2, <1>5, <2>1, <2>3, DDLFacts DEF Knows
  <2> QED
    BY <1>3, <2>1, <2>2, <2>4, OthersKnow
<1> QED
  BY <1>1, <1>4, <1>5
-----------------------------------------------------------------------------
(* A step that only moves u on, to where it knows nothing more.            *)
LEMMA MovesOn ==
  ASSUME WholeInv, NEW u \in Users,
         job[u].step \in {"find", "check", "mkdir", "open", "version"},
         NEW step \in {"find", "check", "mkdir", "open", "version", "ddl"},
         Go(u, step), UNCHANGED <<schema, version, faults>>,
         dir' \in BOOLEAN, file' \in BOOLEAN
  PROVE  WholeInv'
<1> DEFINE j == [job[u] EXCEPT !.step = step]
<1>0. job[u].i = 1
  BY DEF WholeInv, Knows
<1>1. j \in Job /\ j.step = step /\ j.i = 1 /\ job' = [job EXCEPT ![u] = j]
  BY <1>0, JobOf, GoStays
<1> HIDE DEF j
<1>2. Knows(u)'
  BY <1>1, NothingToKnow
<1> QED
  BY <1>1, <1>2, FileStays DEF WholeInv, WorkspaceTypeOK

LEMMA GoesAway ==
  ASSUME WholeInv, NEW u \in Users, Leave(u), UNCHANGED <<schema, version>>,
         dir' \in BOOLEAN, file' \in BOOLEAN, faults' \in 0 .. MaxFaults
  PROVE  WholeInv'
<1>1. Idle \in Job \cup {Idle} /\ Idle.step = "idle" /\ job' = [job EXCEPT ![u] = Idle]
  BY DEF Leave, Idle
<1>2. Knows(u)'
  BY <1>1, NothingToKnow
<1> QED
  BY <1>1, <1>2, FileStays

(* From statement to statement of the DDL script.                          *)
LEMMA StatementKnows ==
  ASSUME WholeInv, NEW u \in Users, RunStatement(u)
  PROVE  WholeInv'
<1> DEFINE i == job[u].i
           st == IF i = Len(DDL) THEN "column" ELSE "ddl"
           n  == IF i = Len(DDL) THEN 1 ELSE i + 1
           r  == [job[u] EXCEPT !.step = st]
           j  == [r EXCEPT !.i = n]
<1>0. Len(DDL) = 6 /\ Len(Columns) = 2
  BY DDLFacts
<1>1. job[u].step = "ddl" /\ job[u] \in Job /\ i \in 1 .. 6
  BY JobOf DEF RunStatement
<1>2. st \in {"column", "ddl"} /\ n \in 1 .. 6
  BY <1>0, <1>1
<1>3. r \in Job /\ r.step = st
  <2> HIDE DEF st
  <2>1. st \in {"find", "check", "mkdir", "open", "version", "ddl", "column",
                "alter", "stamp", "use"}
    BY <1>2
  <2> QED
    BY <1>1, <2>1, SetStep, Zenon
<1>4. j \in Job /\ j.step = st /\ j.i = n
  <2> HIDE DEF r, n, st
  <2> QED
    BY <1>2, <1>3, SetIndex, Zenon
<1>5. job' = [job EXCEPT ![u] = j]
  <2>1. job' = [job EXCEPT ![u].step = st, ![u].i = n]
    BY DEF RunStatement
  <2>2. u \in DOMAIN job
    BY DEF WholeInv, WorkspaceTypeOK
  <2> HIDE DEF n, st
  <2> QED
    BY <2>1, <2>2, Zenon
<1> HIDE DEF j
<1>6. schema \subseteq schema' /\ schema' \subseteq Parts /\ DDL[i] \in schema'
  BY <1>1, DDLFacts DEF RunStatement, WholeInv, WorkspaceTypeOK
<1>7. \A k \in 1 .. i : DDL[k] \in schema'
  BY <1>1, <1>6 DEF WholeInv, Knows
<1>8. job'[u] = j
  BY <1>5 DEF WholeInv, WorkspaceTypeOK
<1>9. Knows(u)'
  <2>1. CASE i = 6
    <3>1. Scripted \subseteq schema'
      BY <2>1, <1>7, DDLFacts
    <3>2. j.step = "column" /\ j.i = 1
      BY <2>1, <1>0, <1>4
    <3> QED
      BY <3>1, <3>2, <1>0, <1>8 DEF Knows
  <2>2. CASE i # 6
    <3>1. j.step = "ddl" /\ j.i = i + 1
      BY <2>2, <1>0, <1>4
    <3> QED
      BY <3>1, <1>1, <1>7, <1>8 DEF Knows
  <2> QED
    BY <2>1, <2>2
<1>10. /\ dir' \in BOOLEAN /\ file' \in BOOLEAN /\ faults' \in 0 .. MaxFaults
       /\ version' \in {NoVersion, OldVersion, SCHEMA_VERSION}
       /\ version' = SCHEMA_VERSION => Parts \subseteq schema'
  BY <1>6 DEF RunStatement, WholeInv, WorkspaceTypeOK
<1> QED
  BY <1>4, <1>5, <1>6, <1>9, <1>10, OthersKnow

LEMMA OpeningKnows ==
  ASSUME WholeInv, NEW u \in Users, opening(u)
  PROVE  WholeInv'
<1>1. CASE \E kind \in Kinds : Ask(u, kind)
  <2>1. PICK kind \in Kinds : Ask(u, kind)
    BY <1>1
  <2> DEFINE st == IF kind \in {"create", "sync"} THEN "check" ELSE "find"
             b  == kind = "kb"
             j  == [step |-> st, kind |-> kind, making |-> FALSE, again |-> b, i |-> 1]
  <2>2. st \in {"check", "find"} /\ b \in BOOLEAN
    OBVIOUS
  <2>3. job' = [job EXCEPT ![u] = j]
    BY <2>1 DEF Ask
  <2>4. j \in Job /\ j.step = st /\ j.i = 1
    <3> HIDE DEF st, b
    <3> QED
      BY <2>2, DDLFacts DEF Job
  <2> HIDE DEF j
  <2>5. Knows(u)'
    BY <2>2, <2>3, <2>4, NothingToKnow
  <2> QED
    BY <2>1, <2>3, <2>4, <2>5, FileStays DEF Ask, WholeInv, WorkspaceTypeOK
<1>2. CASE Connect(u)
  <2>1. Go(u, "version") \/ Go(u, "check") \/ Leave(u)
    BY <1>2 DEF Connect
  <2>2. /\ UNCHANGED <<schema, version, faults>>
        /\ dir' \in BOOLEAN /\ file' \in BOOLEAN /\ faults' \in 0 .. MaxFaults
    BY <1>2 DEF Connect, WholeInv, WorkspaceTypeOK
  <2> QED
    BY <1>2, <2>1, <2>2, MovesOn, GoesAway DEF Connect
<1>3. CASE CheckPath(u)
  <2>1. Go(u, "mkdir") \/ Go(u, "find") \/ Leave(u)
    BY <1>3 DEF CheckPath
  <2>2. /\ UNCHANGED <<schema, version, faults>>
        /\ dir' \in BOOLEAN /\ file' \in BOOLEAN /\ faults' \in 0 .. MaxFaults
    BY <1>3 DEF CheckPath, WholeInv, WorkspaceTypeOK
  <2> QED
    BY <1>3, <2>1, <2>2, MovesOn, GoesAway DEF CheckPath
<1>4. CASE MakeDir(u)
  <2>1. Go(u, "open") \/ Leave(u)
    BY <1>4 DEF MakeDir
  <2>2. /\ UNCHANGED <<schema, version, faults>>
        /\ dir' \in BOOLEAN /\ file' \in BOOLEAN /\ faults' \in 0 .. MaxFaults
    BY <1>4 DEF MakeDir, WholeInv, WorkspaceTypeOK
  <2> QED
    BY <1>4, <2>1, <2>2, MovesOn, GoesAway DEF MakeDir
<1>5. CASE CreateFile(u)
  <2> DEFINE r == [job[u] EXCEPT !.step = "version"]
             q == [r EXCEPT !.making = TRUE]
             j == [q EXCEPT !.again = TRUE]
  <2>1. job[u] \in Job /\ job[u].i = 1
    BY <1>5, JobOf DEF CreateFile, WholeInv, Knows
  <2>2. job' = [job EXCEPT ![u] = j]
    BY <1>5 DEF CreateFile, WholeInv, WorkspaceTypeOK
  <2>3. r \in Job /\ r.step = "version" /\ r.i = 1
    BY <2>1, SetStep
  <2> HIDE DEF r
  <2>4. q \in Job /\ q.step = "version" /\ q.i = 1
    BY <2>3, SetFlags
  <2> HIDE DEF q
  <2>5. j \in Job /\ j.step = "version" /\ j.i = 1
    BY <2>4, SetFlags
  <2> HIDE DEF j
  <2>6. Knows(u)'
    BY <2>2, <2>5, NothingToKnow
  <2> QED
    BY <1>5, <2>2, <2>5, <2>6, FileStays DEF CreateFile, WholeInv, WorkspaceTypeOK
<1>6. CASE ReadVersion(u)
  <2>1. CASE version = SCHEMA_VERSION
    BY <1>6, <2>1, OpenedKnows DEF ReadVersion, WholeInv, WorkspaceTypeOK
  <2>2. CASE version # SCHEMA_VERSION
    BY <1>6, <2>2, MovesOn DEF ReadVersion, WholeInv, WorkspaceTypeOK
  <2> QED
    BY <2>1, <2>2
<1>7. CASE RunStatement(u)
  BY <1>7, StatementKnows
<1>8. CASE ReadColumns(u)
  <2>1. CASE Columns[job[u].i] \in schema
    BY <1>8, <2>1, NextColumnKnows DEF ReadColumns, WholeInv, WorkspaceTypeOK
  <2>2. CASE Columns[job[u].i] \notin schema
    <3> DEFINE j == [job[u] EXCEPT !.step = "alter"]
    <3>1. j \in Job /\ j.step = "alter" /\ j.i = job[u].i /\ job' = [job EXCEPT ![u] = j]
      BY <1>8, <2>2, JobOf, GoStays DEF ReadColumns
    <3> HIDE DEF j
    <3>2. job'[u] = j
      BY <3>1 DEF WholeInv, WorkspaceTypeOK
    <3>3. Knows(u)'
      BY <1>8, <3>1, <3>2 DEF ReadColumns, WholeInv, Knows
    <3> QED
      BY <1>8, <3>1, <3>3, FileStays DEF ReadColumns, WholeInv, WorkspaceTypeOK
  <2> QED
    BY <2>1, <2>2
<1>9. CASE AlterTable(u)
  <2>1. job[u].i \in 1 .. 2
    BY <1>9, DDLFacts DEF AlterTable, WholeInv, Knows
  <2>2. Columns[job[u].i] \in Parts
    BY <2>1, DDLFacts
  <2>3. CASE Columns[job[u].i] \in schema
    <3>1. schema' = schema
      BY <1>9, <2>3 DEF AlterTable
    <3> QED
      BY <1>9, <2>3, <3>1, GoesAway DEF AlterTable, WholeInv, WorkspaceTypeOK
  <2>4. CASE Columns[job[u].i] \notin schema
    <3>1. schema \subseteq schema' /\ schema' \subseteq Parts /\ Columns[job[u].i] \in schema'
      BY <1>9, <2>2 DEF AlterTable, WholeInv, WorkspaceTypeOK
    <3> QED
      BY <1>9, <2>4, <3>1, NextColumnKnows DEF AlterTable
  <2> QED
    BY <2>3, <2>4
<1>10. CASE StampVersion(u)
  <2>1. Parts \subseteq schema
    BY <1>10 DEF StampVersion, WholeInv, Knows
  <2> QED
    BY <1>10, <2>1, OpenedKnows DEF StampVersion
<1> QED
  BY <1>1, <1>2, <1>3, <1>4, <1>5, <1>6, <1>7, <1>8, <1>9, <1>10 DEF opening

LEMMA WholeStep == WholeInv /\ (WNext \/ UNCHANGED wvars) => WholeInv'
<1> SUFFICES ASSUME WholeInv, WNext \/ UNCHANGED wvars PROVE WholeInv'
  OBVIOUS
<1>1. ASSUME NEW u \in Users, opening(u) PROVE WholeInv'
  BY <1>1, OpeningKnows
<1>2. ASSUME NEW u \in Users, Close(u) PROVE WholeInv'
  BY <1>2, GoesAway DEF Close, WholeInv, WorkspaceTypeOK
<1>3. ASSUME NEW u \in Users, Breaks(u) PROVE WholeInv'
  BY <1>3, GoesAway, WorkspaceAssumption DEF Breaks, WholeInv, WorkspaceTypeOK
<1>4. CASE UNCHANGED wvars
  BY <1>4 DEF wvars, WholeInv, WorkspaceTypeOK, Knows
<1> QED
  BY <1>1, <1>2, <1>3, <1>4 DEF WNext

-----------------------------------------------------------------------------
(* The rows of the knowledge base.                                         *)
(* Nothing the store or a migration does moves a user but closing does.    *)
LEMMA KbStep == KbNext => WNext \/ UNCHANGED wvars
<1> SUFFICES ASSUME KbNext PROVE WNext \/ UNCHANGED wvars
  OBVIOUS
<1>1. CASE (\E c \in Chunks : SourceStores(c)) \/ \E r \in DOMAIN source : SourceDeletes(r)
  BY <1>1 DEF SourceStores, SourceDeletes
<1>2. ASSUME NEW u \in Users, opening(u) PROVE WNext
  BY <1>2 DEF WNext
<1>3. ASSUME NEW u \in Users,
             (\E c \in Chunks : StoreChunk(u, c)) \/ \E r \in DOMAIN points : DeleteChunk(u, r)
      PROVE  UNCHANGED wvars
  BY <1>3 DEF StoreChunk, DeleteChunk
<1>4. ASSUME NEW u \in Users, migrating(u) PROVE WNext \/ UNCHANGED wvars
  BY <1>4 DEF migrating, CheckEmpty, CountSource, SelectBatch, InsertBatch, CountTarget,
              Report, Quiet, WNext
<1>5. ASSUME NEW u \in Users, Leaves(u) \/ UserBreaks(u) PROVE WNext
  BY <1>5 DEF Leaves, UserBreaks, WNext
<1> QED
  BY <1>1, <1>2, <1>3, <1>4, <1>5 DEF KbNext

(* Whoever holds a connection has the whole schema (HandedOutIsWhole),     *)
(* with any number of threads and processes creating, opening and healing  *)
(* the workspace at once, and any number of them dying on the way.         *)
THEOREM OpenIsWhole == KbSpec => []HandedOutIsWhole
<1>1. KbInit => WholeInv
  BY WholeInit DEF KbInit
<1>2. WholeInv /\ [KbNext]_storevars => WholeInv'
  BY WholeStep, KbStep DEF storevars
<1>3. WholeInv => HandedOutIsWhole
  BY DEF WholeInv, WorkspaceTypeOK, Knows, HandedOutIsWhole
<1> QED
  BY <1>1, <1>2, <1>3, PTL DEF KbSpec

-----------------------------------------------------------------------------
(* The store.                                                              *)

(* A set of row ids has a largest one.                                     *)
LEMMA MaxRowId ==
  ASSUME NEW N \in Nat, NEW S, S \subseteq 1 .. N, S # {}
  PROVE  Max(S) \in S /\ \A y \in S : y <= Max(S)
<1> DEFINE Above(x) == {y \in S : y > x}
           T == {Above(x) : x \in S}
           R == StrictSubsetOrdering(S)
<1>0. S \subseteq Int
  OBVIOUS
<1>1. IsFiniteSet(S)
  <2>1. IsFiniteSet(1 .. N)
    BY FS_Interval
  <2> QED
    BY <2>1, FS_Subset
<1>2. T \subseteq SUBSET S /\ T # {}
  OBVIOUS
<1>3. IsWellFoundedOn(R, SUBSET S)
  BY <1>1, FS_StrictSubsetOrderingWellFounded, FS_FiniteSubsetsOfFinite
<1>4. PICK U \in T : \A W \in T : ~ (<<W, U>> \in R)
  <2> HIDE DEF T, R
  <2> QED
    BY <1>2, <1>3, WFMin
<1>5. PICK x \in S : U = Above(x)
  OBVIOUS
<1>6. ASSUME NEW y \in S, y > x PROVE FALSE
  <2>1. Above(y) \subseteq Above(x) /\ y \in Above(x) /\ y \notin Above(y)
    <3>1. x \in Int /\ y \in Int /\ \A z \in S : z \in Int
      BY <1>0
    <3>2. \A z \in S : z > y => z > x
      BY <3>1, <1>6
    <3>3. ~ (y > y)
      BY <3>1
    <3> QED
      BY <1>6, <3>2, <3>3
  <2>2. <<Above(y), Above(x)>> \in R
    BY <2>1 DEF StrictSubsetOrdering
  <2> QED
    BY <1>4, <1>5, <2>2
<1>7. \A y \in S : x >= y
  BY <1>6
<1> QED
  BY <1>7 DEF Max

(* A new row id is new.                                                    *)
LEMMA NewRow ==
  ASSUME NEW f, DOMAIN f \subseteq 1 .. MaxRow
  PROVE  /\ NextRow(f) \in Nat \ {0} /\ NextRow(f) \notin DOMAIN f
         /\ \A r \in DOMAIN f : r < NextRow(f)
<1>1. CASE DOMAIN f = {}
  BY <1>1 DEF NextRow
<1>2. CASE DOMAIN f # {}
  <2>1. Max(DOMAIN f) \in DOMAIN f /\ \A y \in DOMAIN f : y <= Max(DOMAIN f)
    BY <1>2, MaxRowId, KbAssumption
  <2> HIDE DEF Max
  <2>2. NextRow(f) = Max(DOMAIN f) + 1
    BY <1>2 DEF NextRow
  <2> QED
    BY <2>1, <2>2
<1> QED
  BY <1>1, <1>2

(* A chunk is written to the row it has, or to a new one.                  *)
LEMMA RowOfFacts ==
  ASSUME NEW f, DOMAIN f \subseteq 1 .. MaxRow, NEW c
  PROVE  \/ RowOf(f, c) \in DOMAIN f
         \/ /\ RowOf(f, c) = NextRow(f) /\ RowOf(f, c) \notin DOMAIN f
            /\ RowOf(f, c) \in Nat \ {0} /\ \A r \in DOMAIN f : r < RowOf(f, c)
<1>1. CASE c \in Ids(f)
  <2>1. \E r \in DOMAIN f : f[r][1] = c
    BY <1>1 DEF Ids
  <2> QED
    BY <1>1, <2>1 DEF RowOf
<1>2. CASE c \notin Ids(f)
  BY <1>2, NewRow DEF RowOf
<1> QED
  BY <1>1, <1>2

LEMMA WithFacts ==
  ASSUME NEW f, NEW g
  PROVE  /\ DOMAIN With(f, g) = DOMAIN f \cup DOMAIN g
         /\ \A r \in DOMAIN f : With(f, g)[r] = f[r]
         /\ \A r \in DOMAIN g \ DOMAIN f : With(f, g)[r] = g[r]
BY DEF With

LEMMA WithoutFacts ==
  ASSUME NEW f, NEW rows
  PROVE  /\ DOMAIN Without(f, rows) = DOMAIN f \ rows
         /\ \A r \in DOMAIN f \ rows : Without(f, rows)[r] = f[r]
BY DEF Without

LEMMA PageFacts ==
  ASSUME NEW f, NEW c, NEW n
  PROVE  /\ DOMAIN Page(f, c, n) \subseteq DOMAIN f
         /\ \A r \in DOMAIN Page(f, c, n) : Page(f, c, n)[r] = f[r]
BY DEF Page

(* What a migration relies on, and what no row loses.                      *)

Fields == {"at", "table", "src", "cursor", "copied", "rows"}

CopyInv ==
  /\ copy = [u \in Users |-> copy[u]]
  /\ \A u \in Users :
       /\ copy[u].at \in {"select", "insert"} => Fields \subseteq DOMAIN copy[u]
       /\ copy[u].at # "none" => begun /\ job[u].step = "use"

RangeInv ==
  /\ DOMAIN source \subseteq 1 .. MaxRow
  /\ DOMAIN points \subseteq 1 .. MaxRow
  /\ DOMAIN vecs \subseteq 1 .. MaxRow
  /\ \A u \in Users : copy[u].at = "insert" => DOMAIN copy[u].rows \subseteq 1 .. MaxRow
  /\ fts = DOMAIN points

(* Row r of f is a row of g as well, with the same item.                   *)
AsIn(r, f, g) == r \in DOMAIN g /\ f[r] = g[r]

(* But for the rows that the source rewrote or lost meanwhile, whatever is *)
(* in one table only is what the source has.                               *)
PairInv ==
  /\ ~begun => points = vecs
  /\ \A u \in Users : copy[u].at = "insert" =>
       \A r \in DOMAIN copy[u].rows : r \in changed \/ AsIn(r, copy[u].rows, source)
  /\ \A r \in DOMAIN points : r \in changed \/ AsIn(r, points, vecs) \/ AsIn(r, points, source)
  /\ \A r \in DOMAIN vecs : r \in changed \/ AsIn(r, vecs, points) \/ AsIn(r, vecs, source)

RowInv == CopyInv /\ RangeInv /\ PairInv

LEMMA RowInit == KbInit => RowInv
<1> SUFFICES ASSUME KbInit PROVE RowInv
  OBVIOUS
<1>1. \A u \in Users : copy[u].at = "none"
  BY DEF KbInit, NoCopy
<1>2. DOMAIN points = {} /\ DOMAIN vecs = {} /\ points = vecs /\ fts = {}
        /\ copy = [u \in Users |-> copy[u]]
  BY DEF KbInit, Empty
<1>3. DOMAIN source \subseteq 1 .. MaxRow
  BY KbAssumption DEF KbInit
<1> QED
  BY <1>1, <1>2, <1>3 DEF RowInv, CopyInv, RangeInv, PairInv

LEMMA InUse ==
  ASSUME WholeInv, NEW u \in Users, job[u].step = "use"
  PROVE  "points_fts_ai" \in schema
<1>1. "points_fts_ai" = DDL[3]
  BY DEF DDL
<1>2. DDL[3] \in Parts
  BY DDLFacts
<1> QED
  BY <1>1, <1>2 DEF WholeInv, Knows

LEMMA OthersStay ==
  ASSUME WholeInv, NEW u \in Users, NEW v \in Users, v # u,
         opening(u) \/ Close(u) \/ Breaks(u)
  PROVE  job'[v] = job[v]
<1> DOMAIN job = Users
  BY DEF WholeInv, WorkspaceTypeOK
<1>1. ASSUME Go(u, "version") \/ Go(u, "check") \/ Go(u, "mkdir") \/ Go(u, "find") \/ Go(u, "open")
             \/ Go(u, "alter") \/ Go(u, "ddl") \/ Go(u, "use") \/ Leave(u)
      PROVE  job'[v] = job[v]
  BY <1>1 DEF Go, Leave
<1>2. ASSUME Opened(u) PROVE job'[v] = job[v]
  <2>1. CASE job[u].again
    BY <1>2, <2>1 DEF Opened
  <2>2. CASE ~job[u].again /\ job[u].making /\ job[u].kind # "create"
    BY <1>2, <2>2 DEF Opened
  <2> QED
    BY <1>1, <1>2, <2>1, <2>2 DEF Opened
<1>3. ASSUME NextColumn(u) PROVE job'[v] = job[v]
  BY <1>3 DEF NextColumn
<1>4. ASSUME RunStatement(u) PROVE job'[v] = job[v]
  BY <1>4 DEF RunStatement
<1>5. ASSUME (\E kind \in Kinds : Ask(u, kind)) \/ CreateFile(u) PROVE job'[v] = job[v]
  BY <1>5 DEF Ask, CreateFile
<1> QED
  BY <1>1, <1>2, <1>3, <1>4, <1>5 DEF opening, Connect, CheckPath, MakeDir, ReadVersion,
     ReadColumns, AlterTable, StampVersion, Close, Breaks

LEMMA OpeningRows ==
  ASSUME WholeInv, RowInv, NEW u \in Users, opening(u), UNCHANGED kbvars
  PROVE  RowInv'
<1>1. job[u].step # "use"
  BY DEF opening, Ask, Connect, CheckPath, MakeDir, CreateFile, ReadVersion, RunStatement,
         ReadColumns, AlterTable, StampVersion, Idle
<1>2. \A v \in Users : copy[v].at # "none" => job'[v].step = "use"
  BY <1>1, OthersStay DEF RowInv, CopyInv
<1>3. CopyInv'
  BY <1>2 DEF RowInv, CopyInv, kbvars, history
<1>4. RangeInv' /\ PairInv'
  BY DEF RowInv, RangeInv, PairInv, AsIn, kbvars, history
<1> QED
  BY <1>3, <1>4 DEF RowInv

(* A step that leaves all migrations where they are.                       *)
LEMMA CopiesStay ==
  ASSUME CopyInv, UNCHANGED <<wvars, copy, begun>>
  PROVE  CopyInv'
BY DEF CopyInv, wvars

(* A step of the migration of u alone.                                     *)
LEMMA OneMoves ==
  ASSUME CopyInv, NEW u \in Users, NEW c, copy' = [copy EXCEPT ![u] = c],
         UNCHANGED wvars, begun',
         c.at \in {"select", "insert"} => Fields \subseteq DOMAIN c,
         job[u].step = "use"
  PROVE  /\ CopyInv'
         /\ copy'[u] = c
         /\ \A v \in Users : v # u => copy'[v] = copy[v]
<1>1. copy'[u] = c /\ copy' = [v \in Users |-> copy'[v]] /\ \A v \in Users : v # u => copy'[v] = copy[v]
  BY DEF CopyInv
<1> QED
  BY <1>1 DEF CopyInv, wvars

(* u closes, and so does its migration.                                    *)
LEMMA OneLeaves ==
  ASSUME WholeInv, RowInv, NEW u \in Users, Close(u) \/ Breaks(u),
         copy' = [copy EXCEPT ![u] = NoCopy],
         UNCHANGED <<source, points, vecs, fts, writes, history>>
  PROVE  RowInv'
<1>1. /\ copy'[u].at = "none" /\ copy' = [v \in Users |-> copy'[v]]
      /\ \A v \in Users : v # u => copy'[v] = copy[v] /\ job'[v] = job[v]
  BY OthersStay DEF RowInv, CopyInv, NoCopy
<1>2. CopyInv'
  BY <1>1 DEF RowInv, CopyInv, history
<1>3. \A v \in Users : copy'[v].at = "insert" => copy'[v] = copy[v]
  BY <1>1
<1>4. RangeInv'
  BY <1>3 DEF RowInv, RangeInv, history
<1>5. PairInv'
  BY <1>3 DEF RowInv, PairInv, AsIn, history
<1> QED
  BY <1>2, <1>4, <1>5 DEF RowInv

(* A row of the source that is rewritten or lost is a changed one if there *)
(* is a migration to know it; before the first, both tables are the same.  *)
LEMMA SourceRows ==
  ASSUME WholeInv, RowInv,
         (\E c \in Chunks : SourceStores(c)) \/ \E r \in DOMAIN source : SourceDeletes(r)
  PROVE  RowInv'
<1>1. ASSUME NEW k,
             UNCHANGED <<wvars, points, vecs, fts, copy, begun>>,
             DOMAIN source' \subseteq 1 .. MaxRow,
             \A r \in DOMAIN source : r # k => AsIn(r, source, source'),
             changed \subseteq changed',
             begun /\ k \in DOMAIN source => k \in changed'
      PROVE  RowInv'
  <2>1. CopyInv'
    BY <1>1, CopiesStay DEF RowInv
  <2>2. RangeInv'
    BY <1>1 DEF RowInv, RangeInv
  <2>3. CASE begun
    <3>1. \A f, r : AsIn(r, f, source) => r \in changed' \/ AsIn(r, f, source')
      BY <1>1, <2>3 DEF AsIn
    <3>2. PairInv'
      BY <1>1, <2>3, <3>1 DEF RowInv, PairInv, AsIn
    <3> QED
      BY <2>1, <2>2, <3>2 DEF RowInv
  <2>4. CASE ~begun
    <3>1. points = vecs /\ \A u \in Users : copy[u].at = "none"
      BY <2>4 DEF RowInv, PairInv, CopyInv
    <3>2. PairInv'
      BY <1>1, <2>4, <3>1 DEF PairInv, AsIn
    <3> QED
      BY <2>1, <2>2, <3>2 DEF RowInv
  <2> QED
    BY <2>3, <2>4
<1>2. ASSUME NEW c \in Chunks, SourceStores(c) PROVE RowInv'
  <2> DEFINE k == RowOf(source, c)
             new == [x \in {k} |-> Version(c)]
  <2>1. /\ source' = With(new, source) /\ DOMAIN new = {k} /\ k <= MaxRow
        /\ UNCHANGED <<wvars, points, vecs, fts, copy, begun>>
        /\ changed \subseteq changed' /\ (begun /\ k \in DOMAIN source => k \in changed')
    BY <1>2 DEF SourceStores
  <2>2. DOMAIN source \subseteq 1 .. MaxRow /\ MaxRow \in Nat
    BY KbAssumption DEF RowInv, RangeInv
  <2>3. k \in DOMAIN source \/ k \in Nat \ {0}
    BY <2>2, RowOfFacts
  <2> HIDE DEF new, k
  <2>4. k \in 1 .. MaxRow
    BY <2>1, <2>2, <2>3
  <2>5. /\ DOMAIN source' = DOMAIN source \cup {k}
        /\ \A r \in DOMAIN source : r # k => source'[r] = source[r]
    BY <2>1 DEF With
  <2> QED
    BY <1>1, <2>1, <2>2, <2>4, <2>5 DEF AsIn
<1>3. ASSUME NEW k \in DOMAIN source, SourceDeletes(k) PROVE RowInv'
  <2>1. /\ source' = Without(source, {k})
        /\ UNCHANGED <<wvars, points, vecs, fts, copy, begun>>
        /\ changed \subseteq changed' /\ (begun => k \in changed')
    BY <1>3 DEF SourceDeletes
  <2>2. /\ DOMAIN source' = DOMAIN source \ {k}
        /\ \A r \in DOMAIN source \ {k} : source'[r] = source[r]
    BY <2>1, WithoutFacts
  <2> QED
    BY <1>1, <2>1, <2>2 DEF AsIn, RowInv, RangeInv
<1> QED
  BY <1>2, <1>3

LEMMA TargetRows ==
  ASSUME WholeInv, RowInv, NEW u \in Users,
         (\E c \in Chunks : StoreChunk(u, c)) \/ \E r \in DOMAIN points : DeleteChunk(u, r)
  PROVE  RowInv'
<1>1. ASSUME NEW c \in Chunks, StoreChunk(u, c) PROVE RowInv'
  <2> DEFINE k == RowOf(points, c)
             new == [x \in {k} |-> Version(c)]
  <2>1. CopyInv' /\ UNCHANGED <<source, copy, begun, changed>>
    BY <1>1, CopiesStay DEF StoreChunk, RowInv, history
  <2>2. CASE k \in DOMAIN vecs \ DOMAIN points
    <3>1. UNCHANGED <<points, vecs, fts>>
      BY <1>1, <2>2 DEF StoreChunk
    <3> QED
      BY <2>1, <3>1 DEF RowInv, RangeInv, PairInv, AsIn
  <2>3. CASE k \notin DOMAIN vecs \ DOMAIN points
    <3>1. /\ points' = With(new, points) /\ vecs' = With(new, vecs) /\ DOMAIN new = {k}
          /\ k <= MaxRow /\ fts' = fts \cup {k}
      BY <1>1, <2>3, InUse DEF StoreChunk, Holds
    <3>2. DOMAIN points \subseteq 1 .. MaxRow /\ MaxRow \in Nat
      BY KbAssumption DEF RowInv, RangeInv
    <3>3. k \in DOMAIN points \/ k \in Nat \ {0}
      BY <3>2, RowOfFacts
    <3> HIDE DEF new, k
    <3>4. k \in 1 .. MaxRow
      BY <3>1, <3>2, <3>3
    <3>5. /\ DOMAIN points' = DOMAIN points \cup {k} /\ DOMAIN vecs' = DOMAIN vecs \cup {k}
          /\ \A r \in DOMAIN points : r # k => points'[r] = points[r]
          /\ \A r \in DOMAIN vecs : r # k => vecs'[r] = vecs[r]
          /\ points'[k] = new[k] /\ vecs'[k] = new[k]
      BY <3>1 DEF With
    <3>6. RangeInv'
      BY <2>1, <3>1, <3>4, <3>5 DEF RowInv, RangeInv
    <3>7. ~begun' => points' = vecs'
      BY <2>1, <3>1 DEF RowInv, PairInv
    <3>8. \A r \in DOMAIN points' :
            r \in changed \/ AsIn(r, points', vecs') \/ AsIn(r, points', source')
      BY <2>1, <3>5 DEF AsIn, RowInv, PairInv
    <3>9. \A r \in DOMAIN vecs' :
            r \in changed \/ AsIn(r, vecs', points') \/ AsIn(r, vecs', source')
      BY <2>1, <3>5 DEF AsIn, RowInv, PairInv
    <3>10. PairInv'
      BY <2>1, <3>7, <3>8, <3>9 DEF RowInv, PairInv, AsIn
    <3> QED
      BY <2>1, <3>6, <3>10 DEF RowInv
  <2> QED
    BY <2>2, <2>3
<1>2. ASSUME NEW k \in DOMAIN points, DeleteChunk(u, k) PROVE RowInv'
  <2>1. /\ points' = Without(points, {k}) /\ vecs' = Without(vecs, {k}) /\ fts' = fts \ {k}
        /\ UNCHANGED <<wvars, source, copy, begun, changed>>
    BY <1>2 DEF DeleteChunk
  <2>2. /\ DOMAIN points' = DOMAIN points \ {k} /\ DOMAIN vecs' = DOMAIN vecs \ {k}
        /\ \A r \in DOMAIN points \ {k} : points'[r] = points[r]
        /\ \A r \in DOMAIN vecs \ {k} : vecs'[r] = vecs[r]
    BY <2>1, WithoutFacts
  <2>3. CopyInv'
    BY <2>1, CopiesStay DEF RowInv
  <2>4. RangeInv'
    BY <2>1, <2>2 DEF RowInv, RangeInv
  <2>5. PairInv'
    <3>1. ~begun' => points' = vecs'
      BY <2>1 DEF RowInv, PairInv
    <3>2. \A r \in DOMAIN points' :
            r \in changed \/ AsIn(r, points', vecs') \/ AsIn(r, points', source')
      BY <2>1, <2>2 DEF AsIn, RowInv, PairInv
    <3>3. \A r \in DOMAIN vecs' :
            r \in changed \/ AsIn(r, vecs', points') \/ AsIn(r, vecs', source')
      BY <2>1, <2>2 DEF AsIn, RowInv, PairInv
    <3> QED
      BY <2>1, <3>1, <3>2, <3>3 DEF RowInv, PairInv, AsIn
  <2> QED
    BY <2>3, <2>4, <2>5 DEF RowInv
<1> QED
  BY <1>1, <1>2

(* What a migration only reads or counts leaves the rows alone; if it      *)
(* selects a batch, this is what the source has.                           *)
LEMMA OneReads ==
  ASSUME WholeInv, RowInv, NEW u \in Users, NEW c, copy' = [copy EXCEPT ![u] = c],
         UNCHANGED <<wvars, source, points, vecs, fts, changed>>, begun',
         c.at \in {"select", "insert"} => Fields \subseteq DOMAIN c,
         c.at = "insert" => \A r \in DOMAIN c.rows : AsIn(r, c.rows, source),
         job[u].step = "use",
         begun \/ points = vecs
  PROVE  RowInv'
<1>1. /\ CopyInv' /\ copy'[u] = c
      /\ \A v \in Users : v # u => copy'[v] = copy[v]
  BY OneMoves DEF RowInv
<1>2. RangeInv'
  BY <1>1 DEF RowInv, RangeInv, AsIn
<1>3. PairInv'
  <2>1. ASSUME NEW v \in Users, copy'[v].at = "insert"
        PROVE  \A r \in DOMAIN copy'[v].rows : r \in changed \/ AsIn(r, copy'[v].rows, source)
    BY <1>1, <2>1 DEF RowInv, PairInv
  <2> QED
    BY <2>1 DEF RowInv, PairInv, AsIn
<1> QED
  BY <1>1, <1>2, <1>3 DEF RowInv

LEMMA ReadingRows ==
  ASSUME WholeInv, RowInv, NEW u \in Users,
         CountSource(u) \/ SelectBatch(u) \/ CountTarget(u) \/ Report(u)
  PROVE  RowInv'
<1>0. /\ copy[u].at \in {"count points", "count vectors", "select", "verify"}
      /\ UNCHANGED <<wvars, source, points, vecs, fts, changed, begun>>
  BY DEF CountSource, SelectBatch, CountTarget, Report, Quiet, history
<1>1. begun /\ begun' /\ job[u].step = "use"
  BY <1>0 DEF RowInv, CopyInv
<1>2. CASE CountSource(u)
  <2> DEFINE n  == Cardinality(DOMAIN source)
             c1 == [at |-> "count vectors", src |-> <<n>>]
             c2 == [at |-> "select", table |-> "points", src |-> <<copy[u].src[1], n>>,
                    cursor |-> 0, copied |-> [t \in Table |-> 0], rows |-> Empty]
  <2>1. CASE copy' = [copy EXCEPT ![u] = c1]
    BY <1>0, <1>1, <2>1, OneReads
  <2>2. CASE copy' = [copy EXCEPT ![u] = c2]
    <3>1. c2.at = "select" /\ Fields \subseteq DOMAIN c2
      BY DEF Fields
    <3> HIDE DEF c2
    <3> QED
      BY <1>0, <1>1, <2>2, <3>1, OneReads
  <2> QED
    BY <1>2, <2>1, <2>2 DEF CountSource
<1>3. CASE SelectBatch(u)
  <2> DEFINE me   == copy[u]
             rows == Page(source, me.cursor, BATCH)
             c1 == [me EXCEPT !.at = "insert", !.rows = rows]
             c2 == [me EXCEPT !.table = "vecs", !.cursor = 0]
             c3 == [at |-> "verify", src |-> me.src, copied |-> me.copied, dst |-> <<>>]
  <2>0. me.at = "select" /\ Fields \subseteq DOMAIN me
    BY <1>3 DEF SelectBatch, RowInv, CopyInv
  <2>1. CASE copy' = [copy EXCEPT ![u] = c1]
    <3>1. \A r \in DOMAIN rows : AsIn(r, rows, source)
      BY PageFacts DEF AsIn
    <3> HIDE DEF rows
    <3>2. c1.at = "insert" /\ c1.rows = rows /\ DOMAIN c1 = DOMAIN me
      BY <2>0 DEF Fields
    <3> HIDE DEF c1
    <3> QED
      BY <1>0, <1>1, <2>0, <2>1, <3>1, <3>2, OneReads
  <2>2. CASE copy' = [copy EXCEPT ![u] = c2]
    <3>1. c2.at = "select" /\ DOMAIN c2 = DOMAIN me
      BY <2>0 DEF Fields
    <3> HIDE DEF c2
    <3> QED
      BY <1>0, <1>1, <2>0, <2>2, <3>1, OneReads
  <2>3. CASE copy' = [copy EXCEPT ![u] = c3]
    BY <1>0, <1>1, <2>3, OneReads
  <2> QED
    BY <1>3, <2>1, <2>2, <2>3 DEF SelectBatch
<1>4. CASE CountTarget(u)
  <2>1. PICK d : copy' = [copy EXCEPT ![u].dst = d]
    BY <1>4 DEF CountTarget
  <2> DEFINE c == [copy[u] EXCEPT !.dst = d]
  <2>2. c.at = "verify"
    BY <1>4 DEF CountTarget
  <2>3. copy' = [copy EXCEPT ![u] = c]
    BY <2>1 DEF RowInv, CopyInv
  <2> HIDE DEF c
  <2> QED
    BY <1>0, <1>1, <2>2, <2>3, OneReads
<1>5. CASE Report(u)
  <2>1. PICK b : copy' = [copy EXCEPT ![u] = [at |-> "reported", ok |-> b]]
    BY <1>5 DEF Report
  <2> QED
    BY <1>0, <1>1, <2>1, OneReads
<1> QED
  BY <1>2, <1>3, <1>4, <1>5

LEMMA CheckingRows ==
  ASSUME WholeInv, RowInv, NEW u \in Users, CheckEmpty(u)
  PROVE  RowInv'
<1> DEFINE c == [at |-> "count points"]
<1>0. job[u].step = "use" /\ copy[u] = NoCopy
  BY DEF CheckEmpty
<1>1. CASE points = Empty
  <2>1. /\ copy' = [copy EXCEPT ![u] = c] /\ begun'
        /\ UNCHANGED <<wvars, source, points, vecs, fts, changed>>
    BY <1>1 DEF CheckEmpty
  <2> QED
    BY <1>0, <2>1, OneReads DEF RowInv, PairInv
<1>2. CASE points # Empty
  <2>1. Close(u) /\ UNCHANGED kbvars
    BY <1>2 DEF CheckEmpty
  <2>2. copy' = [copy EXCEPT ![u] = NoCopy]
    BY <1>0, <2>1 DEF kbvars, RowInv, CopyInv
  <2> QED
    BY <2>1, <2>2, OneLeaves DEF kbvars
<1> QED
  BY <1>1, <1>2

LEMMA InsertingRows ==
  ASSUME WholeInv, RowInv, NEW u \in Users, InsertBatch(u)
  PROVE  RowInv'
<1> DEFINE me    == copy[u]
           rows  == me.rows
           into  == IF me.table = "points" THEN points ELSE vecs
           clash == \/ DOMAIN rows \cap DOMAIN into # {}
                    \/ me.table = "points" /\ Ids(rows) \cap Ids(points) # {}
           c == [me EXCEPT !.at = "select", !.cursor = Max(DOMAIN me.rows), !.rows = Empty,
                           !.copied[me.table] = @ + Cardinality(DOMAIN me.rows)]
<1>0. me.at = "insert" /\ Fields \subseteq DOMAIN me /\ begun /\ job[u].step = "use"
  BY DEF InsertBatch, RowInv, CopyInv
<1>1. CASE clash
  <2>1. Close(u) /\ copy' = [copy EXCEPT ![u] = NoCopy]
        /\ UNCHANGED <<source, points, vecs, fts, writes, history>>
    BY <1>1 DEF InsertBatch
  <2> QED
    BY <2>1, OneLeaves
<1>2. CASE ~clash
  <2>1. /\ copy' = [copy EXCEPT ![u] = c]
        /\ UNCHANGED <<wvars, source, begun, changed>>
    BY <1>2 DEF InsertBatch, Inserted, Quiet, history
  <2>2. c.at = "select" /\ DOMAIN c = DOMAIN me
    BY <1>0 DEF Fields
  <2> HIDE DEF c
  <2>3. /\ CopyInv' /\ copy'[u] = c
        /\ \A v \in Users : v # u => copy'[v] = copy[v]
    BY <1>0, <2>1, <2>2, OneMoves DEF RowInv
  <2>4. \A v \in Users : copy'[v].at = "insert" => copy'[v] = copy[v] /\ copy[v].at = "insert"
    BY <2>2, <2>3
  <2>5. DOMAIN rows \subseteq 1 .. MaxRow
    BY <1>0 DEF RowInv, RangeInv
  <2>6. \A r \in DOMAIN rows : r \in changed \/ AsIn(r, rows, source)
    BY <1>0 DEF RowInv, PairInv
  <2>7. CASE me.table = "points"
    <3>1. /\ points' = With(points, rows) /\ DOMAIN rows \cap DOMAIN points = {}
          /\ fts' = fts \cup DOMAIN rows /\ UNCHANGED vecs
      BY <1>0, <1>2, <2>7, InUse DEF InsertBatch
    <3> HIDE DEF rows
    <3>2. /\ DOMAIN points' = DOMAIN points \cup DOMAIN rows
          /\ \A r \in DOMAIN points : points'[r] = points[r]
          /\ \A r \in DOMAIN rows : points'[r] = rows[r]
      BY <3>1 DEF With
    <3>3. RangeInv'
      BY <2>1, <2>4, <2>5, <3>1, <3>2 DEF RowInv, RangeInv
    <3>4. /\ \A r \in DOMAIN points' :
               r \in changed \/ AsIn(r, points', vecs') \/ AsIn(r, points', source')
          /\ \A r \in DOMAIN vecs' :
               r \in changed \/ AsIn(r, vecs', points') \/ AsIn(r, vecs', source')
      BY <2>1, <2>6, <3>1, <3>2 DEF RowInv, PairInv, AsIn
    <3>5. PairInv'
      BY <1>0, <2>1, <2>4, <3>4 DEF RowInv, PairInv, AsIn
    <3> QED
      BY <2>3, <3>3, <3>5 DEF RowInv
  <2>8. CASE me.table # "points"
    <3>1. /\ vecs' = With(vecs, rows) /\ DOMAIN rows \cap DOMAIN vecs = {}
          /\ UNCHANGED <<points, fts>>
      BY <1>0, <1>2, <2>8 DEF InsertBatch
    <3> HIDE DEF rows
    <3>2. /\ DOMAIN vecs' = DOMAIN vecs \cup DOMAIN rows
          /\ \A r \in DOMAIN vecs : vecs'[r] = vecs[r]
          /\ \A r \in DOMAIN rows : vecs'[r] = rows[r]
      BY <3>1 DEF With
    <3>3. RangeInv'
      BY <2>1, <2>4, <2>5, <3>1, <3>2 DEF RowInv, RangeInv
    <3>4. /\ \A r \in DOMAIN points' :
               r \in changed \/ AsIn(r, points', vecs') \/ AsIn(r, points', source')
          /\ \A r \in DOMAIN vecs' :
               r \in changed \/ AsIn(r, vecs', points') \/ AsIn(r, vecs', source')
      BY <2>1, <2>6, <3>1, <3>2 DEF RowInv, PairInv, AsIn
    <3>5. PairInv'
      BY <1>0, <2>1, <2>4, <3>4 DEF RowInv, PairInv, AsIn
    <3> QED
      BY <2>3, <3>3, <3>5 DEF RowInv
  <2> QED
    BY <2>7, <2>8
<1> QED
  BY <1>1, <1>2

LEMMA RowStep == WholeInv /\ RowInv /\ [KbNext]_storevars => RowInv'
<1> SUFFICES ASSUME WholeInv, RowInv, [KbNext]_storevars PROVE RowInv'
  OBVIOUS
<1>1. CASE (\E c \in Chunks : SourceStores(c)) \/ \E r \in DOMAIN source : SourceDeletes(r)
  BY <1>1, SourceRows
<1>2. ASSUME NEW u \in Users, opening(u) /\ UNCHANGED kbvars PROVE RowInv'
  BY <1>2, OpeningRows
<1>3. ASSUME NEW u \in Users,
             (\E c \in Chunks : StoreChunk(u, c)) \/ \E r \in DOMAIN points : DeleteChunk(u, r)
      PROVE  RowInv'
  BY <1>3, TargetRows
<1>4. ASSUME NEW u \in Users, migrating(u) PROVE RowInv'
  BY <1>4, CheckingRows, ReadingRows, InsertingRows DEF migrating
<1>5. ASSUME NEW u \in Users, Leaves(u) \/ UserBreaks(u) PROVE RowInv'
  BY <1>5, OneLeaves DEF Leaves, UserBreaks
<1>6. CASE UNCHANGED storevars
  <2>1. UNCHANGED <<wvars, source, points, vecs, fts, copy, begun, changed>>
    BY <1>6 DEF storevars, kbvars, history
  <2> QED
    BY <2>1 DEF RowInv, CopyInv, RangeInv, PairInv, AsIn, wvars
<1> QED
  BY <1>1, <1>2, <1>3, <1>4, <1>5, <1>6 DEF KbNext

(* Chunk, words and vector of a row belong together (RowsBelongTogether),  *)
(* for any number of users, migrations, deaths and ingests, any size of    *)
(* store and batch, and whatever the writers of both stores add, rewrite   *)
(* and delete meanwhile, but in the rows that the source rewrote or lost.  *)
THEOREM RowsStayTogether == KbSpec => []RowsBelongTogether
<1>1. KbInit => WholeInv /\ RowInv
  BY WholeInit, RowInit DEF KbInit
<1>2. WholeInv /\ RowInv /\ [KbNext]_storevars => WholeInv' /\ RowInv'
  BY WholeStep, KbStep, RowStep DEF storevars
<1>3. RowInv => RowsBelongTogether
  BY DEF RowInv, RangeInv, PairInv, AsIn, RowsBelongTogether
<1> QED
  BY <1>1, <1>2, <1>3, PTL DEF KbSpec
-----------------------------------------------------------------------------
(* What the migration reports, against what it copied.                     *)

(* The first rows of the source, up to one that it has.                    *)
UpTo(p)    == {r \in DOMAIN source : r <= p}
Reached(p) == p = 0 \/ p \in DOMAIN source

Target(t) == IF t = "points" THEN points ELSE vecs

(* The first n row ids of the source are in a table of the target.         *)
Has(t, n) ==
  \E p : /\ Reached(p) /\ Cardinality(UpTo(p)) = n
         /\ UpTo(p) \subseteq DOMAIN Target(t)

(* What a migration that may still report ok relies on.                    *)
Active(u)   == copy[u].at \in {"select", "insert", "verify"}
InTables(u) == copy[u].at \in {"select", "insert"}

(* The counts were not more than the source has by now.                    *)
Counted(u) ==
  /\ copy[u].at = "count vectors" =>
       copy[u].src[1] \in Nat /\ copy[u].src[1] <= Cardinality(DOMAIN source)
  /\ Active(u) =>
       /\ copy[u].src[1] \in Nat /\ copy[u].src[2] \in Nat
       /\ copy[u].src[1] <= copy[u].src[2]
       /\ copy[u].src[2] <= Cardinality(DOMAIN source)

(* What it has copied is there, and is the beginning of the source.        *)
Copied(u) ==
  Active(u) =>
    /\ copy[u].copied \in [Table -> Nat]
    /\ \A t \in Table : Has(t, copy[u].copied[t])

(* The cursor is where the copied rows end.                                *)
AtCursor(u) ==
  InTables(u) =>
    /\ copy[u].table \in Table
    /\ Reached(copy[u].cursor)
    /\ Cardinality(UpTo(copy[u].cursor)) = copy[u].copied[copy[u].table]
    /\ copy[u].table = "points" => copy[u].copied["vecs"] = 0

(* When the points were through, they were all that the source had.        *)
PointsDone(u) ==
  copy[u].at = "verify" \/ (InTables(u) /\ copy[u].table = "vecs") =>
    copy[u].src[2] <= copy[u].copied["points"]

(* A batch goes on from there.                                             *)
Batched(u) ==
  copy[u].at = "insert" =>
    /\ DOMAIN copy[u].rows # {}
    /\ DOMAIN copy[u].rows = UpTo(Max(DOMAIN copy[u].rows)) \ UpTo(copy[u].cursor)

(* What ok asks of the counts, but for the last one.                       *)
Agrees(u) ==
  /\ copy[u].src[1] > 0
  /\ copy[u].src[1] = copy[u].copied["points"]
  /\ copy[u].src[2] = copy[u].copied["vecs"]
  /\ copy[u].copied["vecs"] = copy[u].dst[2]

VecsHavePoints == DOMAIN vecs \subseteq DOMAIN points
SameRowIds     == DOMAIN points = DOMAIN vecs

(* Counts that agree with a table that only grows pin down its rows.       *)
Verified(u) ==
  copy[u].at = "verify" =>
    /\ {"at", "src", "copied", "dst"} \subseteq DOMAIN copy[u]
    /\ copy[u].dst \in Seq(Nat)
    /\ Len(copy[u].dst) >= 2 /\ Agrees(u) => VecsHavePoints
    /\ Len(copy[u].dst) = 3 /\ Agrees(u) /\ copy[u].copied["points"] = copy[u].dst[3]
         => SameRowIds

(* No two migrations have filled the same table.                           *)
Alone(u, v) ==
  Active(u) /\ Active(v) =>
    \A t \in Table : copy[u].copied[t] = 0 \/ copy[v].copied[t] = 0

Progress(u) == Counted(u) /\ Copied(u) /\ AtCursor(u) /\ PointsDone(u) /\ Batched(u)

(* No store has lost a row, so this has to hold.                           *)
WholeCopyInv ==
  churned = {} =>
    /\ \A u \in Users : Progress(u) /\ Verified(u)
    /\ \A u, v \in Users : u # v => Alone(u, v)

-----------------------------------------------------------------------------
LEMMA SourceFinite ==
  ASSUME RangeInv
  PROVE  /\ IsFiniteSet(DOMAIN source) /\ Cardinality(DOMAIN source) \in Nat
         /\ DOMAIN source \subseteq Nat
         /\ \A p : IsFiniteSet(UpTo(p)) /\ Cardinality(UpTo(p)) \in Nat
<1>1. IsFiniteSet(1 .. MaxRow) /\ DOMAIN source \in SUBSET (1 .. MaxRow)
  BY KbAssumption, FS_Interval DEF RangeInv
<1>2. \A p : UpTo(p) \in SUBSET (1 .. MaxRow)
  BY <1>1 DEF UpTo
<1>3. DOMAIN source \subseteq Nat
  BY <1>1, KbAssumption
<1> QED
  BY <1>1, <1>2, <1>3, FS_Subset, FS_CardinalityType

LEMMA ReachedRow ==
  ASSUME RangeInv, NEW p, Reached(p)
  PROVE  p \in Nat
BY SourceFinite DEF Reached

(* As many of the first rows are the same rows.                            *)
LEMMA UpToSame ==
  ASSUME RangeInv, NEW p, NEW q, Reached(p), Reached(q),
         Cardinality(UpTo(p)) = Cardinality(UpTo(q))
  PROVE  UpTo(p) = UpTo(q)
<1>1. p \in Nat /\ q \in Nat /\ DOMAIN source \subseteq Nat
  BY ReachedRow, SourceFinite
<1>2. CASE p <= q
  <2>1. UpTo(p) \in SUBSET UpTo(q)
    BY <1>1, <1>2 DEF UpTo
  <2> QED
    BY <2>1, SourceFinite, FS_Subset
<1>3. CASE q <= p
  <2>1. UpTo(q) \in SUBSET UpTo(p)
    BY <1>1, <1>3 DEF UpTo
  <2> QED
    BY <2>1, SourceFinite, FS_Subset
<1> QED
  BY <1>1, <1>2, <1>3

LEMMA UpToZero ==
  ASSUME RangeInv
  PROVE  UpTo(0) = {} /\ Cardinality(UpTo(0)) = 0 /\ \A p : Cardinality(UpTo(p)) = 0 => UpTo(p) = {}
<1>1. UpTo(0) = {}
  BY DEF UpTo, RangeInv
<1> QED
  BY <1>1, FS_EmptySet, SourceFinite

(* The row ids that are there stay, and new ones of the source come last.  *)
Grows ==
  /\ DOMAIN source \subseteq DOMAIN source'
  /\ \A k \in DOMAIN source' \ DOMAIN source, r \in DOMAIN source : r < k
  /\ DOMAIN points \subseteq DOMAIN points'
  /\ DOMAIN vecs \subseteq DOMAIN vecs'

LEMMA UpToStays ==
  ASSUME RangeInv, RangeInv', Grows, NEW p, Reached(p)
  PROVE  UpTo(p)' = UpTo(p) /\ Reached(p)'
<1>1. p \in Nat /\ DOMAIN source' \subseteq Int /\ DOMAIN source \subseteq Int
  BY ReachedRow DEF RangeInv
<1>2. CASE p = 0
  BY <1>2 DEF UpTo, Reached, RangeInv
<1>3. CASE p \in DOMAIN source
  <2>1. \A k \in DOMAIN source' : k <= p => k \in DOMAIN source
    BY <1>1, <1>3 DEF Grows
  <2> QED
    BY <1>3, <2>1 DEF UpTo, Reached, Grows
<1> QED
  BY <1>2, <1>3 DEF Reached

LEMMA HasStays ==
  ASSUME RangeInv, RangeInv', Grows, NEW t \in Table, NEW n, Has(t, n)
  PROVE  Has(t, n)'
<1>1. PICK p : /\ Reached(p) /\ Cardinality(UpTo(p)) = n
               /\ UpTo(p) \subseteq DOMAIN Target(t)
  BY DEF Has
<1>2. UpTo(p)' = UpTo(p) /\ Reached(p)'
  BY <1>1, UpToStays
<1>3. DOMAIN Target(t) \subseteq DOMAIN Target(t)'
  BY DEF Target, Grows, Table
<1>4. UpTo(p)' \subseteq DOMAIN Target(t)'
  BY <1>1, <1>2, <1>3
<1> QED
  BY <1>1, <1>2, <1>4 DEF Has

(* A migration that stands still while the stores grow.                    *)
LEMMA ProgressStays ==
  ASSUME RangeInv, RangeInv', Grows, NEW v \in Users, copy'[v] = copy[v], Progress(v)
  PROVE  Progress(v)'
<1>1. Active(v)' = Active(v) /\ InTables(v)' = InTables(v)
  BY DEF Active, InTables
<1>2. Counted(v)'
  <2>0. IsFiniteSet(DOMAIN source')
    <3>1. MaxRow \in Int /\ 1 \in Int
      BY KbAssumption
    <3>2. IsFiniteSet(1 .. MaxRow)
      BY <3>1, FS_Interval
    <3>3. DOMAIN source' \in SUBSET (1 .. MaxRow)
      BY DEF RangeInv
    <3> QED
      BY <3>2, <3>3, FS_Subset
  <2> DEFINE n == Cardinality(DOMAIN source)
             m == Cardinality(DOMAIN source')
  <2>1. n <= m
    BY <2>0, FS_Subset DEF Grows
  <2>2. n \in Nat /\ m \in Nat
    BY <2>0, SourceFinite, FS_CardinalityType
  <2> HIDE DEF n, m
  <2>3. CASE copy[v].at = "count vectors"
    <3>1. copy[v].src[1] \in Nat /\ copy[v].src[1] <= n
      BY <2>3 DEF Progress, Counted, n
    <3>2. copy[v].src[1] <= m
      BY ONLY <2>1, <2>2, <3>1
    <3>3. ~ Active(v)
      BY <2>3 DEF Active
    <3> QED
      BY <1>1, <3>1, <3>2, <3>3 DEF Counted, m
  <2>4. CASE Active(v)
    <3>1. /\ copy[v].src[1] \in Nat /\ copy[v].src[2] \in Nat
          /\ copy[v].src[1] <= copy[v].src[2] /\ copy[v].src[2] <= n
      BY <2>4 DEF Progress, Counted, n
    <3>2. copy[v].src[2] <= m
      BY ONLY <2>1, <2>2, <3>1
    <3>3. copy[v].at # "count vectors"
      BY <2>4 DEF Active
    <3> QED
      BY <1>1, <3>1, <3>2, <3>3 DEF Counted, m
  <2> QED
    BY <1>1, <2>3, <2>4 DEF Counted
<1>3. Copied(v)'
  <2>1. \A t \in Table : Active(v) => Has(t, copy[v].copied[t])'
    <3> TAKE t \in Table
    <3> HAVE Active(v)
    <3>1. PICK n : n = copy[v].copied[t]
      OBVIOUS
    <3>2. Has(t, n)'
      BY <3>1, HasStays DEF Progress, Copied
    <3> QED
      BY <3>1, <3>2
  <2> QED
    BY <1>1, <2>1 DEF Progress, Copied
<1>4. AtCursor(v)'
  <2>1. PICK p : p = copy[v].cursor
    OBVIOUS
  <2>2. InTables(v) => UpTo(p)' = UpTo(p) /\ Reached(p)'
    BY <2>1, UpToStays DEF Progress, AtCursor
  <2> QED
    BY <1>1, <2>1, <2>2 DEF Progress, AtCursor
<1>5. PointsDone(v)'
  BY <1>1 DEF Progress, PointsDone
<1>6. Batched(v)'
  <2> SUFFICES ASSUME copy[v].at = "insert" PROVE Batched(v)'
    BY DEF Batched
  <2>1. PICK p : p = copy[v].cursor
    OBVIOUS
  <2>2. PICK m : m = Max(DOMAIN copy[v].rows)
    OBVIOUS
  <2>3. m \in DOMAIN source
    <3>1. DOMAIN copy[v].rows \subseteq 1 .. MaxRow /\ DOMAIN copy[v].rows # {}
      BY DEF RangeInv, Progress, Batched
    <3>2. m \in DOMAIN copy[v].rows
      BY <2>2, <3>1, MaxRowId, KbAssumption
    <3> QED
      BY <3>2 DEF Progress, Batched, UpTo
  <2>4. UpTo(p)' = UpTo(p) /\ UpTo(m)' = UpTo(m)
    BY <2>1, <2>3, UpToStays DEF Progress, AtCursor, InTables, Reached
  <2> QED
    BY <2>1, <2>2, <2>4 DEF Progress, Batched
<1> QED
  BY <1>2, <1>3, <1>4, <1>5, <1>6 DEF Progress
-----------------------------------------------------------------------------
LEMMA MinRowId ==
  ASSUME NEW N \in Nat, NEW S, S \subseteq 1 .. N, S # {}
  PROVE  \E x \in S : \A y \in S : x <= y
<1> DEFINE T == {N + 1 - r : r \in S}
<1>1. T \subseteq 1 .. N /\ T # {}
  <2>1. \A r \in S : r \in 1 .. N
    OBVIOUS
  <2>2. \A r \in S : N + 1 - r \in 1 .. N
    BY <2>1
  <2> QED
    BY <2>2
<1>2. PICK m \in T : \A y \in T : y <= m
  <2> HIDE DEF T
  <2> QED
    BY <1>1, MaxRowId
<1>3. PICK x \in S : m = N + 1 - x
  BY <1>2
<1>4. \A y \in S : N + 1 - y <= N + 1 - x
  BY <1>2, <1>3
<1> QED
  BY <1>4

(* A batch is a run of rows of the source, and empty only at its end.      *)
LEMMA PageIsARun ==
  ASSUME RangeInv, NEW c, Reached(c), NEW rows, rows = Page(source, c, BATCH)
  PROVE  /\ rows # Empty => /\ DOMAIN rows # {}
                            /\ DOMAIN rows = UpTo(Max(DOMAIN rows)) \ UpTo(c)
         /\ rows = Empty => UpTo(c) = DOMAIN source
<1> DEFINE rest      == {r \in DOMAIN source : r > c}
           before(x) == {y \in rest : y < x}
           X         == {x \in rest : Cardinality(before(x)) < BATCH}
<1>0. /\ c \in Nat /\ BATCH \in Nat /\ BATCH > 0
      /\ DOMAIN source \subseteq Nat /\ IsFiniteSet(DOMAIN source)
      /\ DOMAIN source \subseteq 1 .. MaxRow /\ MaxRow \in Nat
  BY ReachedRow, SourceFinite, KbAssumption DEF RangeInv
<1>1. rows = [r \in X |-> source[r]]
  BY DEF Page
<1>2. DOMAIN rows = X
  BY <1>1
<1>3. \A x \in rest : IsFiniteSet(before(x)) /\ Cardinality(before(x)) \in Nat
  <2>1. \A x \in rest : before(x) \in SUBSET DOMAIN source
    OBVIOUS
  <2> HIDE DEF before, rest
  <2> QED
    BY <1>0, <2>1, FS_Subset, FS_CardinalityType
<1>4. ASSUME rows # Empty
      PROVE  DOMAIN rows # {} /\ DOMAIN rows = UpTo(Max(DOMAIN rows)) \ UpTo(c)
  <2>1. X # {}
    BY <1>1, <1>4 DEF Empty
  <2>2. X \subseteq 1 .. MaxRow
    BY <1>0
  <2>3. Max(X) \in X /\ \A y \in X : y <= Max(X)
    <3> HIDE DEF X
    <3> QED
      BY <1>0, <2>1, <2>2, MaxRowId
  <2>4. PICK m \in X : m = Max(X) /\ \A y \in X : y <= m
    BY <2>3
  <2>5. X \subseteq UpTo(m) \ UpTo(c)
    BY <1>0, <2>4 DEF UpTo
  <2>6. ASSUME NEW r \in UpTo(m) \ UpTo(c) PROVE r \in X
    <3>1. r \in rest /\ m \in rest
      BY <1>0, <2>6 DEF UpTo
    <3>2. before(r) \in SUBSET before(m)
      BY <1>0, <2>6 DEF UpTo
    <3>3. Cardinality(before(r)) <= Cardinality(before(m))
      <4> HIDE DEF before
      <4> QED
        BY <1>3, <3>1, <3>2, FS_Subset
    <3>4. Cardinality(before(m)) < BATCH
      OBVIOUS
    <3>5. Cardinality(before(r)) < BATCH
      <4> HIDE DEF before, rest
      <4> QED
        BY <1>0, <1>3, <3>1, <3>3, <3>4
    <3> QED
      BY <3>1, <3>5
  <2> QED
    BY <1>2, <2>1, <2>4, <2>5, <2>6
<1>5. ASSUME rows = Empty PROVE UpTo(c) = DOMAIN source
  <2>1. X = {}
    BY <1>2, <1>5 DEF Empty
  <2>2. CASE rest = {}
    BY <1>0, <2>2 DEF UpTo
  <2>3. CASE rest # {}
    <3>1. rest \subseteq 1 .. MaxRow
      BY <1>0
    <3>2. PICK x \in rest : \A y \in rest : x <= y
      <4> HIDE DEF rest
      <4> QED
        BY <1>0, <2>3, <3>1, MinRowId
    <3>3. before(x) = {}
      BY <1>0, <3>2
    <3>4. Cardinality(before(x)) = 0
      BY <3>3, FS_EmptySet
    <3>5. x \in X
      BY <1>0, <3>4
    <3> QED
      BY <2>1, <3>5
  <2> QED
    BY <2>2, <2>3
<1> QED
  BY <1>4, <1>5

(* Two migrations cannot both fill a table: both begin with the first row. *)
LEMMA Clash ==
  ASSUME RangeInv, NEW u \in Users, NEW v \in Users,
         Progress(u), Progress(v), Alone(u, v),
         copy[u].at = "insert", Active(v), copy[v].copied[copy[u].table] > 0
  PROVE  DOMAIN copy[u].rows \cap DOMAIN Target(copy[u].table) # {}
<1> DEFINE t == copy[u].table
<1>0. Active(u) /\ InTables(u)
  BY DEF Active, InTables
<1>1. t \in Table /\ copy[u].copied[t] \in Nat /\ copy[v].copied[t] \in Nat
  BY <1>0 DEF Progress, AtCursor, Copied
<1>2. copy[u].copied[t] = 0
  BY <1>0, <1>1 DEF Alone
<1>3. UpTo(copy[u].cursor) = {}
  BY <1>0, <1>2, UpToZero DEF Progress, AtCursor
<1>4. PICK m : m = Max(DOMAIN copy[u].rows)
  OBVIOUS
<1>5. DOMAIN copy[u].rows = UpTo(m) /\ m \in UpTo(m)
  <2>1. DOMAIN copy[u].rows # {} /\ DOMAIN copy[u].rows = UpTo(m)
    BY <1>3, <1>4 DEF Progress, Batched
  <2>2. DOMAIN copy[u].rows \subseteq 1 .. MaxRow
    BY DEF RangeInv
  <2>3. m \in DOMAIN copy[u].rows
    BY <1>4, <2>1, <2>2, MaxRowId, KbAssumption
  <2> QED
    BY <2>1, <2>3
<1>6. PICK p : /\ Reached(p) /\ Cardinality(UpTo(p)) = copy[v].copied[t]
               /\ UpTo(p) \subseteq DOMAIN Target(t)
  BY <1>1 DEF Progress, Copied, Has
<1>7. UpTo(p) # {}
  BY <1>1, <1>6, FS_EmptySet
<1>8. PICK x : x \in UpTo(p)
  BY <1>7
<1>9. x \in Nat /\ p \in Nat /\ m \in Nat /\ x <= p /\ x \in DOMAIN source /\ m \in DOMAIN source
  BY <1>5, <1>6, <1>8, ReachedRow, SourceFinite DEF UpTo
<1>10. CASE m <= p
  BY <1>5, <1>6, <1>9, <1>10 DEF UpTo
<1>11. CASE p < m
  BY <1>5, <1>6, <1>8, <1>9, <1>11 DEF UpTo
<1> QED
  BY <1>9, <1>10, <1>11

-----------------------------------------------------------------------------
StepsOn == churned' = {} => churned = {}

PairsStay ==
  /\ VecsHavePoints => VecsHavePoints'
  /\ SameRowIds => SameRowIds'

LEMMA VerifiedStays ==
  ASSUME NEW v \in Users, copy'[v] = copy[v], Verified(v), PairsStay
  PROVE  Verified(v)'
BY DEF Verified, Agrees, PairsStay

(* All migrations stand still while the stores grow.                       *)
LEMMA AllStandStill ==
  ASSUME RangeInv, RangeInv', Grows, PairsStay, StepsOn, UNCHANGED copy, WholeCopyInv
  PROVE  WholeCopyInv'
<1> SUFFICES ASSUME churned' = {}
             PROVE  /\ \A v \in Users : Progress(v)' /\ Verified(v)'
                    /\ \A u, v \in Users : u # v => Alone(u, v)'
  BY DEF WholeCopyInv
<1>1. ASSUME NEW v \in Users PROVE Progress(v)' /\ Verified(v)'
  BY ProgressStays, VerifiedStays DEF WholeCopyInv, StepsOn
<1>2. ASSUME NEW u \in Users, NEW v \in Users, u # v PROVE Alone(u, v)'
  BY <1>2 DEF WholeCopyInv, StepsOn, Alone, Active
<1> QED
  BY <1>1, <1>2

(* One moves on, the others stand still.                                   *)
LEMMA OneMovesOn ==
  ASSUME RangeInv, RangeInv', Grows, StepsOn, WholeCopyInv, NEW u \in Users,
         \A v \in Users : v # u => copy'[v] = copy[v],
         churned' = {} =>
           /\ Progress(u)' /\ Verified(u)'
           /\ \A v \in Users : v # u => Verified(v)' /\ Alone(u, v)'
  PROVE  WholeCopyInv'
<1> SUFFICES ASSUME churned' = {}
             PROVE  /\ \A v \in Users : Progress(v)' /\ Verified(v)'
                    /\ \A w, v \in Users : w # v => Alone(w, v)'
  BY DEF WholeCopyInv
<1>1. ASSUME NEW v \in Users, v # u PROVE Progress(v)' /\ Verified(v)' /\ Alone(u, v)'
  BY <1>1, ProgressStays DEF WholeCopyInv, StepsOn
<1>2. ASSUME NEW w \in Users, NEW v \in Users, w # v PROVE Alone(w, v)'
  <2>1. CASE w = u
    BY <1>1, <1>2, <2>1
  <2>2. CASE v = u
    <3>1. Alone(v, w)'
      BY <1>1, <1>2, <2>2
    <3> QED
      BY <3>1 DEF Alone
  <2>3. CASE w # u /\ v # u
    BY <1>2, <2>3 DEF WholeCopyInv, StepsOn, Alone, Active
  <2> QED
    BY <2>1, <2>2, <2>3
<1> QED
  BY <1>1, <1>2

(* It moves to where it has nothing to lose.                               *)
LEMMA OneIsOut ==
  ASSUME RangeInv, RangeInv', Grows, PairsStay, StepsOn, WholeCopyInv, NEW u \in Users,
         \A v \in Users : v # u => copy'[v] = copy[v],
         copy'[u].at \in {"none", "count points", "reported"}
  PROVE  WholeCopyInv'
<1>1. Progress(u)' /\ Verified(u)' /\ \A v \in Users : Alone(u, v)'
  BY DEF Progress, Counted, Copied, AtCursor, PointsDone, Batched, Verified, Alone, Active,
         InTables
<1>2. ASSUME churned' = {}, NEW v \in Users, v # u PROVE Verified(v)'
  BY <1>2, VerifiedStays DEF WholeCopyInv, StepsOn
<1> QED
  BY <1>1, <1>2, OneMovesOn

(* Nobody is where there is anything to lose.                              *)
LEMMA AllAreOut ==
  ASSUME \A u \in Users : copy'[u].at \in {"none", "count points", "reported"}
  PROVE  WholeCopyInv'
BY DEF WholeCopyInv, Progress, Counted, Copied, AtCursor, PointsDone, Batched, Verified, Alone,
       Active, InTables

LEMMA CopyInit == KbInit => WholeCopyInv
<1> SUFFICES ASSUME KbInit PROVE WholeCopyInv
  OBVIOUS
<1>1. \A u \in Users : copy[u].at = "none"
  BY DEF KbInit, NoCopy
<1> QED
  BY <1>1 DEF WholeCopyInv, Progress, Counted, Copied, AtCursor, PointsDone, Batched,
              Verified, Alone, Active, InTables

LEMMA Unchanged ==
  ASSUME UNCHANGED <<source, points, vecs>>
  PROVE  Grows /\ PairsStay
BY DEF Grows, PairsStay, VecsHavePoints, SameRowIds

-----------------------------------------------------------------------------
LEMMA SourceCopies ==
  ASSUME WholeInv, RowInv, RowInv', WholeCopyInv,
         (\E c \in Chunks : SourceStores(c)) \/ \E r \in DOMAIN source : SourceDeletes(r)
  PROVE  WholeCopyInv'
<1>1. ASSUME NEW c \in Chunks, SourceStores(c) PROVE WholeCopyInv'
  <2> DEFINE k == RowOf(source, c)
             new == [x \in {k} |-> Version(c)]
  <2>1. source' = With(new, source) /\ DOMAIN new = {k}
        /\ UNCHANGED <<points, vecs, copy, churned>>
    BY <1>1 DEF SourceStores
  <2>2. k \in DOMAIN source \/ \A r \in DOMAIN source : r < k
    BY RowOfFacts DEF RowInv, RangeInv
  <2> HIDE DEF new, k
  <2>3. DOMAIN source' = DOMAIN source \cup {k}
    BY <2>1 DEF With
  <2>4. Grows /\ PairsStay
    BY <2>1, <2>2, <2>3 DEF Grows, PairsStay, VecsHavePoints, SameRowIds
  <2> QED
    BY <2>1, <2>4, AllStandStill DEF RowInv, StepsOn
<1>2. CASE \E r \in DOMAIN source : SourceDeletes(r)
  <2>1. CASE begun
    BY <1>2, <2>1 DEF SourceDeletes, WholeCopyInv
  <2>2. CASE ~begun
    BY <1>2, <2>2, AllAreOut DEF SourceDeletes, RowInv, CopyInv
  <2> QED
    BY <2>1, <2>2
<1> QED
  BY <1>1, <1>2

LEMMA TargetCopies ==
  ASSUME WholeInv, RowInv, RowInv', WholeCopyInv, NEW u \in Users,
         (\E c \in Chunks : StoreChunk(u, c)) \/ \E r \in DOMAIN points : DeleteChunk(u, r)
  PROVE  WholeCopyInv'
<1>1. ASSUME NEW c \in Chunks, StoreChunk(u, c) PROVE WholeCopyInv'
  <2> DEFINE k == RowOf(points, c)
             new == [x \in {k} |-> Version(c)]
  <2>0. UNCHANGED <<source, copy, churned>>
    BY <1>1 DEF StoreChunk, history
  <2>1. CASE UNCHANGED <<points, vecs>>
    BY <2>0, <2>1, Unchanged, AllStandStill DEF RowInv, StepsOn
  <2>2. CASE points' = With(new, points) /\ vecs' = With(new, vecs)
    <3>1. DOMAIN new = {k}
      OBVIOUS
    <3> HIDE DEF new, k
    <3>2. DOMAIN points' = DOMAIN points \cup {k} /\ DOMAIN vecs' = DOMAIN vecs \cup {k}
      BY <2>2, <3>1 DEF With
    <3>3. Grows /\ PairsStay
      BY <2>0, <3>2 DEF Grows, PairsStay, VecsHavePoints, SameRowIds
    <3> QED
      BY <2>0, <3>3, AllStandStill DEF RowInv, StepsOn
  <2> QED
    BY <1>1, <2>1, <2>2 DEF StoreChunk
<1>2. CASE \E r \in DOMAIN points : DeleteChunk(u, r)
  <2>1. CASE begun
    BY <1>2, <2>1 DEF DeleteChunk, WholeCopyInv
  <2>2. CASE ~begun
    BY <1>2, <2>2, AllAreOut DEF DeleteChunk, RowInv, CopyInv
  <2> QED
    BY <2>1, <2>2
<1> QED
  BY <1>1, <1>2

(* Checking, reporting, leaving, dying.                                    *)
LEMMA OutCopies ==
  ASSUME WholeInv, RowInv, RowInv', WholeCopyInv, NEW u \in Users,
         CheckEmpty(u) \/ Report(u) \/ Leaves(u) \/ UserBreaks(u)
  PROVE  WholeCopyInv'
<1>1. UNCHANGED <<source, points, vecs, churned>>
  BY DEF CheckEmpty, Report, Leaves, UserBreaks, Quiet, kbvars, history
<1>2. Grows /\ PairsStay /\ StepsOn /\ RangeInv /\ RangeInv'
  BY <1>1, Unchanged DEF StepsOn, RowInv
<1>3. \/ UNCHANGED copy
      \/ /\ copy'[u].at \in {"none", "count points", "reported"}
         /\ \A v \in Users : v # u => copy'[v] = copy[v]
  <2>1. CASE CheckEmpty(u)
    <3>1. UNCHANGED copy \/ copy' = [copy EXCEPT ![u] = [at |-> "count points"]]
      BY <2>1 DEF CheckEmpty, kbvars
    <3>2. CASE UNCHANGED copy
      BY <3>2
    <3>3. CASE copy' = [copy EXCEPT ![u] = [at |-> "count points"]]
      BY <3>3 DEF RowInv, CopyInv
    <3> QED
      BY <3>1, <3>2, <3>3
  <2>2. CASE Report(u)
    <3>1. PICK b : copy' = [copy EXCEPT ![u] = [at |-> "reported", ok |-> b]]
      BY <2>2 DEF Report
    <3> QED
      BY <3>1 DEF RowInv, CopyInv
  <2>3. CASE Leaves(u) \/ UserBreaks(u)
    <3>1. copy' = [copy EXCEPT ![u] = NoCopy]
      BY <2>3 DEF Leaves, UserBreaks
    <3> QED
      BY <3>1 DEF RowInv, CopyInv, NoCopy
  <2> QED
    BY <2>1, <2>2, <2>3
<1> QED
  BY <1>2, <1>3, AllStandStill, OneIsOut

(* u reads, and knows more.                                                *)
LEMMA OneLearns ==
  ASSUME RowInv, RowInv', WholeCopyInv, NEW u \in Users, NEW c,
         copy' = [copy EXCEPT ![u] = c],
         UNCHANGED <<source, points, vecs, churned>>,
         churned = {} /\ copy'[u] = c => Progress(u)' /\ Verified(u)',
         c.at = "count vectors"
           \/ (c.at \in {"select", "insert", "verify"}
               /\ \/ c.copied = copy[u].copied /\ Active(u)
                  \/ \A t \in Table : c.copied[t] = 0)
  PROVE  WholeCopyInv'
<1>1. copy'[u] = c /\ \A v \in Users : v # u => copy'[v] = copy[v]
  BY DEF RowInv, CopyInv
<1>2. Grows /\ PairsStay /\ StepsOn /\ RangeInv /\ RangeInv'
  BY Unchanged DEF StepsOn, RowInv
<1>3. ASSUME churned' = {}, NEW v \in Users, v # u PROVE Verified(v)' /\ Alone(u, v)'
  <2>1. Verified(v) /\ Alone(u, v)
    BY <1>3 DEF WholeCopyInv
  <2>2. Verified(v)'
    BY <1>1, <1>2, <1>3, <2>1, VerifiedStays
  <2>3. Alone(u, v)'
    BY <1>1, <1>3, <2>1 DEF Alone, Active
  <2> QED
    BY <2>2, <2>3
<1> QED
  BY <1>1, <1>2, <1>3, OneMovesOn

LEMMA CountingCopies ==
  ASSUME WholeInv, RowInv, RowInv', WholeCopyInv, NEW u \in Users, CountSource(u)
  PROVE  WholeCopyInv'
<1> DEFINE n  == Cardinality(DOMAIN source)
           a  == copy[u].src[1]
           c1 == [at |-> "count vectors", src |-> <<n>>]
           c2 == [at |-> "select", table |-> "points", src |-> <<a, n>>,
                  cursor |-> 0, copied |-> [t \in Table |-> 0], rows |-> Empty]
<1>0. UNCHANGED <<source, points, vecs, churned>> /\ RangeInv /\ RangeInv'
  BY DEF CountSource, Quiet, history, RowInv
<1>1. n \in Nat /\ n <= n
  <2>1. n \in Nat
    BY <1>0, SourceFinite
  <2> QED
    BY <2>1
<1>2. CASE copy' = [copy EXCEPT ![u] = c1]
  <2>1. c1.at = "count vectors" /\ c1.src[1] = n
    OBVIOUS
  <2> HIDE DEF c1
  <2>2. ASSUME copy'[u] = c1 PROVE Progress(u)' /\ Verified(u)'
    <3>1. Counted(u)'
      <4>1. Cardinality(DOMAIN source)' = n
        BY <1>0
      <4> HIDE DEF n
      <4>2. ~ Active(u)' /\ copy'[u].src[1] = n
        BY <2>1, <2>2 DEF Active
      <4> QED
        BY <1>1, <4>1, <4>2 DEF Counted
    <3> QED
      BY <2>1, <2>2, <3>1 DEF Progress, Copied, AtCursor, PointsDone, Batched, Verified, Active,
                           InTables
  <2> QED
    BY <1>0, <1>2, <2>1, <2>2, OneLearns
<1>3. CASE copy[u].at = "count vectors" /\ copy' = [copy EXCEPT ![u] = c2]
  <2>1. /\ c2.at = "select" /\ c2.table = "points" /\ c2.src[1] = a /\ c2.src[2] = n
        /\ c2.cursor = 0 /\ c2.copied = [t \in Table |-> 0]
    OBVIOUS
  <2> HIDE DEF c2
  <2>2. c2.copied \in [Table -> Nat] /\ (\A t \in Table : c2.copied[t] = 0)
        /\ "points" \in Table /\ "vecs" \in Table
    BY <2>1 DEF Table
  <2>3. ASSUME churned = {}, copy'[u] = c2 PROVE Progress(u)' /\ Verified(u)'
    <3>1. a \in Nat /\ a <= n
      BY <1>3, <2>3 DEF WholeCopyInv, Progress, Counted
    <3>2. Counted(u)'
      <4>1. Cardinality(DOMAIN source)' = n
        BY <1>0
      <4> HIDE DEF n, a
      <4>2. /\ copy'[u].at # "count vectors"
            /\ copy'[u].src[1] = a /\ copy'[u].src[2] = n
        BY <2>1, <2>3
      <4> QED
        BY <1>1, <3>1, <4>1, <4>2 DEF Counted
    <3>3. UpTo(0)' = {} /\ Cardinality(UpTo(0)') = 0 /\ Reached(0)'
      BY <1>0, UpToZero DEF UpTo, Reached
    <3>4. Copied(u)'
      BY <2>2, <2>3, <3>3 DEF Copied, Has
    <3>5. AtCursor(u)'
      BY <2>1, <2>2, <2>3, <3>3 DEF AtCursor
    <3> QED
      BY <2>1, <2>3, <3>2, <3>4, <3>5 DEF Progress, PointsDone, Batched, Verified, InTables
  <2> QED
    BY <1>0, <1>3, <2>1, <2>2, <2>3, OneLearns
<1> QED
  BY <1>2, <1>3 DEF CountSource

LEMMA SelectingCopies ==
  ASSUME WholeInv, RowInv, RowInv', WholeCopyInv, NEW u \in Users, SelectBatch(u)
  PROVE  WholeCopyInv'
<1> DEFINE me   == copy[u]
           rows == Page(source, me.cursor, BATCH)
           c1 == [me EXCEPT !.at = "insert", !.rows = rows]
           c2 == [me EXCEPT !.table = "vecs", !.cursor = 0]
           c3 == [at |-> "verify", src |-> me.src, copied |-> me.copied, dst |-> <<>>]
<1>0. /\ UNCHANGED <<source, points, vecs, churned>> /\ RangeInv /\ RangeInv'
      /\ me.at = "select" /\ Fields \subseteq DOMAIN me /\ Active(u) /\ InTables(u)
  BY DEF SelectBatch, Quiet, history, RowInv, CopyInv, Active, InTables
<1>1. /\ \A p : UpTo(p)' = UpTo(p) /\ Reached(p)' = Reached(p)
      /\ \A t, n : Has(t, n)' = Has(t, n)
  BY <1>0 DEF UpTo, Reached, Has, Target, AsIn
<1>2. "points" \in Table /\ "vecs" \in Table
  BY DEF Table
<1>3. CASE rows # Empty
  <2>1. copy' = [copy EXCEPT ![u] = c1]
    BY <1>3 DEF SelectBatch
  <2> HIDE DEF rows
  <2>2. /\ c1.at = "insert" /\ c1.table = me.table /\ c1.src = me.src /\ c1.cursor = me.cursor
        /\ c1.copied = me.copied /\ c1.rows = rows
    BY <1>0 DEF Fields
  <2> HIDE DEF c1
  <2>3. ASSUME churned = {}, copy'[u] = c1 PROVE Progress(u)' /\ Verified(u)'
    <3>1. Progress(u)
      BY <2>3 DEF WholeCopyInv
    <3>2. Counted(u)'
      BY <1>0, <2>2, <2>3, <3>1 DEF Progress, Counted, Active
    <3>3. Copied(u)'
      BY <1>0, <1>1, <2>2, <2>3, <3>1 DEF Progress, Copied, Active
    <3>4. AtCursor(u)'
      BY <1>0, <1>1, <2>2, <2>3, <3>1 DEF Progress, AtCursor, InTables
    <3>5. PointsDone(u)'
      BY <1>0, <2>2, <2>3, <3>1 DEF Progress, PointsDone, InTables
    <3>6. Batched(u)'
      <4>1. PICK c : c = me.cursor
        OBVIOUS
      <4>2. Reached(c)
        BY <1>0, <3>1, <4>1 DEF Progress, AtCursor
      <4>3. DOMAIN rows # {} /\ DOMAIN rows = UpTo(Max(DOMAIN rows)) \ UpTo(c)
        BY <1>0, <1>3, <4>1, <4>2, PageIsARun DEF rows
      <4> QED
        BY <1>1, <2>2, <2>3, <4>1, <4>3 DEF Batched
    <3> QED
      BY <2>2, <2>3, <3>2, <3>3, <3>4, <3>5, <3>6 DEF Progress, Verified
  <2> QED
    BY <1>0, <2>1, <2>2, <2>3, OneLearns
<1>4. CASE rows = Empty
  <2>1. ASSUME churned = {}
        PROVE  me.copied[me.table] = Cardinality(DOMAIN source) /\ Progress(u)
    <3>1. Progress(u)
      BY <2>1 DEF WholeCopyInv
    <3>2. PICK c : c = me.cursor
      OBVIOUS
    <3>3. Reached(c) /\ Cardinality(UpTo(c)) = me.copied[me.table]
      BY <1>0, <3>1, <3>2 DEF Progress, AtCursor
    <3>4. UpTo(c) = DOMAIN source
      BY <1>0, <1>4, <3>2, <3>3, PageIsARun
    <3> QED
      BY <3>1, <3>3, <3>4
  <2>2. CASE me.table = "points"
    <3>1. copy' = [copy EXCEPT ![u] = c2]
      BY <1>4, <2>2 DEF SelectBatch
    <3>2. /\ c2.at = "select" /\ c2.table = "vecs" /\ c2.src = me.src /\ c2.cursor = 0
          /\ c2.copied = me.copied
      BY <1>0 DEF Fields
    <3> HIDE DEF c2
    <3>3. ASSUME churned = {}, copy'[u] = c2 PROVE Progress(u)' /\ Verified(u)'
      <4>1. Counted(u)'
        BY <1>0, <2>1, <3>2, <3>3 DEF Progress, Counted, Active
      <4>2. Copied(u)'
        BY <1>0, <1>1, <2>1, <3>2, <3>3 DEF Progress, Copied, Active
      <4>3. UpTo(0)' = {} /\ Cardinality(UpTo(0)') = 0 /\ Reached(0)'
        BY <1>0, UpToZero DEF UpTo, Reached
      <4>4. AtCursor(u)'
        BY <1>0, <1>2, <2>1, <2>2, <3>2, <3>3, <4>3 DEF Progress, AtCursor, InTables
      <4>5. PointsDone(u)'
        BY <1>0, <2>1, <2>2, <3>2, <3>3 DEF Progress, Counted, PointsDone, InTables
      <4> QED
        BY <3>2, <3>3, <4>1, <4>2, <4>4, <4>5 DEF Progress, Batched, Verified
    <3> QED
      BY <1>0, <3>1, <3>2, <3>3, OneLearns
  <2>3. CASE me.table # "points"
    <3>1. copy' = [copy EXCEPT ![u] = c3]
      BY <1>4, <2>3 DEF SelectBatch
    <3>2. /\ c3.at = "verify" /\ c3.src = me.src /\ c3.copied = me.copied /\ c3.dst = <<>>
          /\ DOMAIN c3 = {"at", "src", "copied", "dst"}
      OBVIOUS
    <3> HIDE DEF c3
    <3>3. ASSUME churned = {}, copy'[u] = c3 PROVE Progress(u)' /\ Verified(u)'
      <4>1. Counted(u)'
        BY <1>0, <2>1, <3>2, <3>3 DEF Progress, Counted, Active
      <4>2. Copied(u)'
        BY <1>0, <1>1, <2>1, <3>2, <3>3 DEF Progress, Copied, Active
      <4>3. me.table = "vecs"
        BY <1>0, <2>1, <2>3, <3>3 DEF Progress, AtCursor, Table
      <4>4. PointsDone(u)'
        BY <1>0, <2>1, <3>2, <3>3, <4>3 DEF Progress, PointsDone, InTables
      <4>5. <<>> \in Seq(Nat) /\ Len(<<>>) = 0
        OBVIOUS
      <4>6. Verified(u)'
        <5>1. Len(copy'[u].dst) = 0 /\ copy'[u].dst \in Seq(Nat)
          BY <3>2, <3>3, <4>5
        <5>2. ~ (Len(copy'[u].dst) >= 2) /\ Len(copy'[u].dst) # 3
          BY <5>1
        <5> QED
          BY <3>2, <3>3, <5>1, <5>2 DEF Verified
      <4> QED
        BY <3>2, <3>3, <4>1, <4>2, <4>4, <4>6 DEF Progress, Batched, AtCursor, InTables
    <3> QED
      BY <1>0, <3>1, <3>2, <3>3, OneLearns
  <2> QED
    BY <2>2, <2>3
<1> QED
  BY <1>3, <1>4

-----------------------------------------------------------------------------
LEMMA TargetFinite ==
  ASSUME RangeInv
  PROVE  /\ IsFiniteSet(DOMAIN points) /\ Cardinality(DOMAIN points) \in Nat
         /\ IsFiniteSet(DOMAIN vecs) /\ Cardinality(DOMAIN vecs) \in Nat
<1>1. /\ IsFiniteSet(1 .. MaxRow)
      /\ DOMAIN points \in SUBSET (1 .. MaxRow) /\ DOMAIN vecs \in SUBSET (1 .. MaxRow)
  BY KbAssumption, FS_Interval DEF RangeInv
<1> QED
  BY <1>1, FS_Subset, FS_CardinalityType

(* Where the counts agree, the migration copied the same rows to both      *)
(* tables.                                                                 *)
LEMMA SameRows ==
  ASSUME RangeInv, NEW u \in Users, Progress(u), copy[u].at = "verify",
         copy[u].src[1] = copy[u].copied["points"], copy[u].src[2] = copy[u].copied["vecs"]
  PROVE  \E S : /\ Cardinality(S) = copy[u].copied["points"]
                /\ Cardinality(S) = copy[u].copied["vecs"]
                /\ S \subseteq DOMAIN points /\ S \subseteq DOMAIN vecs
<1>1. /\ Active(u) /\ "points" \in Table /\ "vecs" \in Table
      /\ Target("points") = points /\ Target("vecs") = vecs
  BY DEF Active, Table, Target
<1>2. PICK a, b : a = copy[u].copied["points"] /\ b = copy[u].copied["vecs"]
  OBVIOUS
<1>3. a \in Nat /\ b \in Nat /\ Has("points", a) /\ Has("vecs", b)
  BY <1>1, <1>2 DEF Progress, Copied
<1>4. a <= b /\ b <= a
  BY <1>1, <1>2 DEF Progress, Counted, PointsDone
<1>5. a = b
  BY <1>3, <1>4
<1>6. PICK p : /\ Reached(p) /\ Cardinality(UpTo(p)) = a
               /\ UpTo(p) \subseteq DOMAIN points
  BY <1>1, <1>3 DEF Has
<1>7. PICK q : /\ Reached(q) /\ Cardinality(UpTo(q)) = b
               /\ UpTo(q) \subseteq DOMAIN vecs
  BY <1>1, <1>3 DEF Has
<1>8. UpTo(p) = UpTo(q)
  BY <1>5, <1>6, <1>7, UpToSame
<1> QED
  BY <1>2, <1>5, <1>6, <1>7, <1>8

LEMMA VerifyingCopies ==
  ASSUME WholeInv, RowInv, RowInv', WholeCopyInv, NEW u \in Users,
         CountTarget(u)
  PROVE  WholeCopyInv'
<1> DEFINE me == copy[u]
           n  == Len(me.dst)
           k  == Cardinality(CASE n = 0 -> DOMAIN points [] n = 1 -> DOMAIN vecs [] n = 2 -> fts)
           d  == Append(me.dst, k)
           c  == [me EXCEPT !.dst = d]
<1>0. /\ UNCHANGED <<source, points, vecs, churned>> /\ RangeInv /\ RangeInv'
      /\ me.at = "verify" /\ Active(u)
  BY DEF CountTarget, Quiet, history, RowInv, Active
<1>1. /\ \A p : UpTo(p)' = UpTo(p) /\ Reached(p)' = Reached(p)
      /\ \A t, j : Has(t, j)' = Has(t, j)
  BY <1>0 DEF UpTo, Reached, Has, Target, AsIn
<1>2. copy' = [copy EXCEPT ![u] = c]
  BY DEF CountTarget, RowInv, CopyInv
<1>3. c.at = "verify" /\ c.src = me.src /\ c.copied = me.copied
  BY <1>0
<1>4. ASSUME churned = {}, copy'[u] = c PROVE Progress(u)' /\ Verified(u)'
  <2>1. /\ Progress(u) /\ Verified(u) /\ me.dst \in Seq(Nat)
        /\ {"at", "src", "copied", "dst"} \subseteq DOMAIN me
    BY <1>0, <1>4 DEF WholeCopyInv, Verified
  <2>2. Progress(u)'
    <3>1. Counted(u)'
      BY <1>0, <1>3, <1>4, <2>1 DEF Progress, Counted, Active
    <3>2. Copied(u)'
      BY <1>0, <1>1, <1>3, <1>4, <2>1 DEF Progress, Copied, Active
    <3>3. PointsDone(u)'
      BY <1>0, <1>3, <1>4, <2>1 DEF Progress, PointsDone
    <3> QED
      BY <1>3, <1>4, <3>1, <3>2, <3>3 DEF Progress, AtCursor, Batched, InTables
  <2>3. c.dst = d /\ DOMAIN c = DOMAIN me
    BY <2>1
  <2>4. n \in 0 .. 2
    <3>1. n < 3
      BY DEF CountTarget
    <3>2. n \in Nat
      BY <2>1
    <3> HIDE DEF n
    <3> QED
      BY <3>1, <3>2
  <2>5. /\ n = 1 => k = Cardinality(DOMAIN vecs)
        /\ n = 2 => k = Cardinality(DOMAIN points)
        /\ k \in Nat
    <3>1. fts = DOMAIN points
      BY DEF RowInv, RangeInv
    <3>2. CASE n = 0
      BY <1>0, <3>2, TargetFinite
    <3>3. CASE n = 1
      BY <1>0, <3>3, TargetFinite
    <3>4. CASE n = 2
      BY <1>0, <3>1, <3>4, TargetFinite
    <3> HIDE DEF n, k
    <3> QED
      BY <2>4, <3>2, <3>3, <3>4
  <2> HIDE DEF k, c
  <2>6. /\ d \in Seq(Nat) /\ Len(d) = n + 1 /\ d[n + 1] = k
        /\ \A i \in 1 .. n : d[i] = me.dst[i]
    BY <2>1, <2>5
  <2> HIDE DEF d, n
  <2>7. ASSUME Len(d) >= 2, Agrees(u)' PROVE VecsHavePoints
    <3>1. /\ me.src[1] = me.copied["points"] /\ me.src[2] = me.copied["vecs"]
          /\ me.copied["vecs"] = d[2] /\ me.src[1] > 0
      BY <1>3, <1>4, <2>3, <2>7 DEF Agrees
    <3>2. CASE n = 1
      <4>1. PICK S : /\ Cardinality(S) = me.copied["vecs"]
                     /\ S \subseteq DOMAIN points /\ S \subseteq DOMAIN vecs
        BY <1>0, <2>1, <3>1, SameRows
      <4>2. S \in SUBSET DOMAIN vecs /\ Cardinality(S) = Cardinality(DOMAIN vecs)
        BY <2>5, <2>6, <3>1, <3>2, <4>1
      <4>3. S = DOMAIN vecs
        BY <1>0, <4>2, FS_Subset, TargetFinite
      <4> QED
        BY <4>1, <4>3 DEF VecsHavePoints
    <3>3. CASE n = 2
      <4>1. Len(me.dst) >= 2 /\ me.dst[2] = d[2]
        BY <2>6, <3>3 DEF n
      <4> QED
        BY <1>0, <2>1, <3>1, <4>1 DEF Verified, Agrees
    <3> QED
      BY <2>4, <2>6, <2>7, <3>2, <3>3
  <2>8. ASSUME Len(d) = 3, Agrees(u)', me.copied["points"] = d[3] PROVE SameRowIds
    <3>1. me.src[1] = me.copied["points"] /\ me.src[2] = me.copied["vecs"] /\ n = 2
      <4>1. me.src[1] = me.copied["points"] /\ me.src[2] = me.copied["vecs"]
        BY <1>3, <1>4, <2>3, <2>8 DEF Agrees
      <4>2. Len(d) = 3 /\ Len(d) = n + 1
        BY <2>6, <2>8
      <4>3. n = 2
        <5>1. n = 0 \/ n = 1 \/ n = 2
          BY <2>4
        <5>2. n + 1 = 3
          BY <4>2
        <5> QED
          BY <5>1, <5>2
      <4> QED
        BY <4>1, <4>3
    <3>2. PICK S : /\ Cardinality(S) = me.copied["points"]
                   /\ S \subseteq DOMAIN points /\ S \subseteq DOMAIN vecs
      BY <1>0, <2>1, <3>1, SameRows
    <3>3. S \in SUBSET DOMAIN points /\ Cardinality(S) = Cardinality(DOMAIN points)
      BY <2>5, <2>6, <2>8, <3>1, <3>2
    <3>4. S = DOMAIN points
      BY <1>0, <3>3, FS_Subset, TargetFinite
    <3>5. VecsHavePoints
      BY <2>7, <2>8
    <3> QED
      BY <3>2, <3>4, <3>5 DEF VecsHavePoints, SameRowIds
  <2>9. Verified(u)'
    <3>1. VecsHavePoints' = VecsHavePoints /\ SameRowIds' = SameRowIds
      BY <1>0 DEF VecsHavePoints, SameRowIds
    <3> QED
      BY <1>0, <1>3, <1>4, <2>1, <2>3, <2>6, <2>7, <2>8, <3>1 DEF Verified
  <2> QED
    BY <2>2, <2>9
<1> QED
  BY <1>0, <1>2, <1>3, <1>4, OneLearns

(* What a batch that goes in adds to its table.                            *)
LEMMA BatchGoesIn ==
  ASSUME RowInv, RowInv', churned = {}, NEW u \in Users, Progress(u), copy[u].at = "insert",
         NEW t, t = copy[u].table, NEW m, m = Max(DOMAIN copy[u].rows),
         UNCHANGED source, Grows,
         DOMAIN copy[u].rows \subseteq DOMAIN Target(t)'
  PROVE  /\ Reached(m)
         /\ Cardinality(UpTo(m)) = copy[u].copied[t] + Cardinality(DOMAIN copy[u].rows)
         /\ UpTo(m) \subseteq DOMAIN Target(t)'
         /\ Cardinality(DOMAIN copy[u].rows) \in Nat
<1> DEFINE rows == copy[u].rows
<1>0. RangeInv /\ Active(u) /\ InTables(u) /\ t \in Table
  BY DEF RowInv, Active, InTables, Progress, AtCursor
<1>1. PICK c : c = copy[u].cursor
  OBVIOUS
<1>2. /\ Reached(c) /\ Cardinality(UpTo(c)) = copy[u].copied[t]
      /\ DOMAIN rows # {} /\ DOMAIN rows = UpTo(m) \ UpTo(c)
  BY <1>0, <1>1 DEF Progress, AtCursor, Batched
<1>3. m \in DOMAIN rows
  <2>1. DOMAIN rows \subseteq 1 .. MaxRow
    BY <1>0 DEF RangeInv
  <2> QED
    BY <1>2, <2>1, MaxRowId, KbAssumption
<1>4. m \in DOMAIN source /\ m \in Nat /\ c \in Nat /\ c < m /\ DOMAIN source \subseteq Nat
  <2>1. m \in DOMAIN source /\ m \in Nat /\ c \in Nat /\ DOMAIN source \subseteq Nat
    BY <1>0, <1>2, <1>3, ReachedRow, SourceFinite DEF UpTo
  <2> QED
    BY <1>2, <1>3, <2>1 DEF UpTo
<1>5. Reached(m)
  BY <1>4 DEF Reached
<1>6. UpTo(m) = UpTo(c) \cup DOMAIN rows /\ UpTo(c) \cap DOMAIN rows = {}
  <2>1. \A r \in DOMAIN source : r <= c => r <= m
    BY <1>4
  <2>2. UpTo(c) \subseteq UpTo(m)
    BY <2>1 DEF UpTo
  <2> HIDE DEF rows
  <2> QED
    BY <1>2, <2>2
<1>7. IsFiniteSet(DOMAIN rows) /\ Cardinality(DOMAIN rows) \in Nat
  <2>1. DOMAIN rows \in SUBSET UpTo(m)
    BY <1>2
  <2> QED
    BY <1>0, <2>1, SourceFinite, FS_Subset, FS_CardinalityType
<1>8. Cardinality(UpTo(m)) = copy[u].copied[t] + Cardinality(DOMAIN rows)
  <2>1. IsFiniteSet(UpTo(c)) /\ Cardinality(UpTo(c)) \in Nat
    BY <1>0, SourceFinite
  <2>2. Cardinality(UpTo(c) \cap DOMAIN rows) = 0
    BY <1>6, FS_EmptySet
  <2> DEFINE a == Cardinality(UpTo(c))
             b == Cardinality(DOMAIN rows)
  <2>3. Cardinality(UpTo(m)) = a + b - 0
    <3> HIDE DEF rows
    <3> QED
      BY <1>6, <1>7, <2>1, <2>2, FS_Union
  <2>4. a \in Nat /\ b \in Nat
    BY <1>7, <2>1
  <2> HIDE DEF a, b
  <2>5. Cardinality(UpTo(m)) = a + b
    BY <2>3, <2>4
  <2> QED
    BY <1>2, <2>5 DEF a, b
<1>9. UpTo(c) \subseteq DOMAIN Target(t)'
  <2>1. PICK n : n = copy[u].copied[t]
    OBVIOUS
  <2>2. PICK p : /\ Reached(p) /\ Cardinality(UpTo(p)) = n
                 /\ UpTo(p) \subseteq DOMAIN Target(t)
    BY <1>0, <2>1 DEF Progress, Copied, Has
  <2>3. UpTo(p) = UpTo(c)
    BY <1>0, <1>2, <2>1, <2>2, UpToSame
  <2>4. DOMAIN Target(t) \subseteq DOMAIN Target(t)'
    BY <1>0 DEF Target, Grows, Table
  <2> QED
    BY <2>2, <2>3, <2>4
<1>10. UpTo(m) \subseteq DOMAIN Target(t)'
  BY <1>6, <1>9
<1> QED
  BY <1>5, <1>7, <1>8, <1>10

LEMMA InsertingCopies ==
  ASSUME WholeInv, RowInv, RowInv', WholeCopyInv, NEW u \in Users, InsertBatch(u)
  PROVE  WholeCopyInv'
<1> DEFINE me    == copy[u]
           t     == me.table
           rows  == me.rows
           into  == IF t = "points" THEN points ELSE vecs
           m     == Max(DOMAIN me.rows)
           k     == Cardinality(DOMAIN me.rows)
           clash == \/ DOMAIN rows \cap DOMAIN into # {}
                    \/ t = "points" /\ Ids(rows) \cap Ids(points) # {}
           c == [me EXCEPT !.at = "select", !.cursor = Max(DOMAIN me.rows), !.rows = Empty,
                           !.copied[me.table] = @ + Cardinality(DOMAIN me.rows)]
<1>0. /\ me.at = "insert" /\ Fields \subseteq DOMAIN me /\ Active(u) /\ InTables(u)
      /\ RangeInv /\ RangeInv' /\ UNCHANGED <<source, churned>> /\ StepsOn
  BY DEF InsertBatch, RowInv, CopyInv, Active, InTables, Quiet, history, StepsOn
<1>1. CASE clash
  <2>1. copy' = [copy EXCEPT ![u] = NoCopy] /\ UNCHANGED <<points, vecs>>
    BY <1>1 DEF InsertBatch
  <2>2. copy'[u].at = "none" /\ \A v \in Users : v # u => copy'[v] = copy[v]
    BY <2>1 DEF RowInv, CopyInv, NoCopy
  <2> QED
    BY <1>0, <2>1, <2>2, Unchanged, OneIsOut
<1>2. CASE ~clash
  <2>1. copy' = [copy EXCEPT ![u] = c]
    BY <1>2 DEF InsertBatch, Inserted
  <2>2. copy'[u] = c /\ \A v \in Users : v # u => copy'[v] = copy[v]
    BY <2>1 DEF RowInv, CopyInv
  <2>3. /\ c.at = "select" /\ c.cursor = m /\ c.table = t /\ c.src = me.src
        /\ c.copied = [me.copied EXCEPT ![t] = me.copied[t] + k]
    BY <1>0 DEF Fields
  <2> HIDE DEF c
  <2>a. PICK s, x : s = t /\ x = m
    OBVIOUS
  <2>4. /\ s = "points" => points' = With(points, rows) /\ UNCHANGED vecs
        /\ s # "points" => vecs' = With(vecs, rows) /\ UNCHANGED points
        /\ DOMAIN rows \cap DOMAIN Target(s) = {}
    BY <1>2, <2>a DEF InsertBatch, Target
  <2>5. /\ Grows
        /\ DOMAIN rows \subseteq DOMAIN Target(s)'
    <3> HIDE DEF rows
    <3>1. CASE s = "points"
      <4>1. points' = With(points, rows) /\ vecs' = vecs /\ DOMAIN rows \cap DOMAIN points = {}
        BY <2>4, <3>1 DEF Target
      <4>2. DOMAIN points' = DOMAIN points \cup DOMAIN rows
        BY <4>1, WithFacts
      <4> QED
        BY <1>0, <3>1, <4>1, <4>2 DEF Grows, Target
    <3>2. CASE s # "points"
      <4>1. vecs' = With(vecs, rows) /\ points' = points /\ DOMAIN rows \cap DOMAIN vecs = {}
        BY <2>4, <3>2 DEF Target
      <4>2. DOMAIN vecs' = DOMAIN vecs \cup DOMAIN rows
        BY <4>1, WithFacts
      <4> QED
        BY <1>0, <3>2, <4>1, <4>2 DEF Grows, Target
    <3> QED
      BY <3>1, <3>2
  <2>6. ASSUME churned = {}
        PROVE  /\ Progress(u)' /\ Verified(u)'
               /\ \A v \in Users : v # u => Verified(v)' /\ Alone(u, v)'
    <3>0. Progress(u) /\ t \in Table /\ me.copied \in [Table -> Nat]
      BY <1>0, <2>6 DEF WholeCopyInv, Progress, AtCursor, Copied
    <3>1. s = t /\ x = m
      BY <2>a
    <3>2. /\ Reached(x) /\ Cardinality(UpTo(x)) = me.copied[s] + k
          /\ UpTo(x) \subseteq DOMAIN Target(s)'
          /\ k \in Nat
      BY <1>0, <2>5, <2>6, <3>0, <3>1, BatchGoesIn
    <3>3. UpTo(x)' = UpTo(x) /\ Reached(x)'
      BY <1>0, <3>2 DEF UpTo, Reached
    <3>4. /\ c.copied \in [Table -> Nat] /\ c.copied[s] = me.copied[s] + k
          /\ \A y \in Table : y # s => c.copied[y] = me.copied[y]
      <4> HIDE DEF k, m, t
      <4> QED
        BY <2>3, <3>0, <3>1, <3>2
    <3>5. Counted(u)'
      BY <1>0, <2>2, <2>3, <3>0 DEF Progress, Counted, Active
    <3>6. Copied(u)'
      <4>1. ASSUME NEW y \in Table PROVE Has(y, copy[u].copied[y])'
        <5>1. CASE y = s
          <6>1. PICK n : n = me.copied[s] + k
            OBVIOUS
          <6>2. UpTo(x)' \subseteq DOMAIN Target(s)'
            BY <3>2, <3>3
          <6>3. Cardinality(UpTo(x)') = n
            BY <3>2, <3>3, <6>1
          <6>4. Has(s, n)'
            BY <3>3, <6>2, <6>3 DEF Has
          <6>5. copy'[u].copied[y] = n
            BY <2>2, <3>4, <5>1, <6>1
          <6> QED
            BY <5>1, <6>4, <6>5
        <5>2. CASE y # s
          <6>1. PICK n : n = me.copied[y]
            OBVIOUS
          <6>2. Has(y, n)'
            BY <1>0, <2>5, <3>0, <6>1, HasStays DEF Progress, Copied
          <6> QED
            BY <2>2, <3>4, <5>2, <6>1, <6>2
        <5> QED
          BY <5>1, <5>2
      <4> QED
        BY <2>2, <3>4, <4>1 DEF Copied
    <3>7. AtCursor(u)'
      <4>1. Cardinality(UpTo(x)') = c.copied[s]
        BY <3>2, <3>3, <3>4
      <4>2. t = "points" => c.copied["vecs"] = 0
        BY <1>0, <3>0, <3>1, <3>4 DEF Progress, AtCursor, Table
      <4> QED
        BY <2>2, <2>3, <3>0, <3>1, <3>3, <4>1, <4>2 DEF AtCursor
    <3>8. PointsDone(u)'
      <4>1. t = "vecs" => c.copied["points"] = me.copied["points"]
        BY <3>1, <3>4 DEF Table
      <4> QED
        BY <1>0, <2>2, <2>3, <3>0, <4>1 DEF Progress, PointsDone, InTables
    <3>9. Batched(u)' /\ Verified(u)'
      BY <2>2, <2>3 DEF Batched, Verified
    <3>10. ASSUME NEW v \in Users, v # u, Active(v), copy[v].copied[t] > 0 PROVE FALSE
      <4>1. Progress(v) /\ Alone(u, v)
        BY <2>6, <3>10 DEF WholeCopyInv
      <4> QED
        BY <1>0, <2>4, <3>0, <3>1, <3>10, <4>1, Clash
    <3>11. ASSUME NEW v \in Users, v # u PROVE Alone(u, v)'
      <4>1. SUFFICES ASSUME Active(v), NEW y \in Table, copy[v].copied[y] # 0
                     PROVE  copy'[u].copied[y] = 0
        BY <2>2, <3>11 DEF Alone, Active
      <4>2. Alone(u, v) /\ copy[v].copied \in [Table -> Nat]
        BY <2>6, <3>11, <4>1 DEF WholeCopyInv, Progress, Copied
      <4>3. y # s
        BY <3>1, <3>10, <3>11, <4>1, <4>2
      <4> QED
        BY <1>0, <2>2, <3>4, <4>1, <4>2, <4>3 DEF Alone
    <3>12. ASSUME NEW v \in Users, v # u PROVE Verified(v)'
      <4>1. Verified(v) /\ Progress(v)
        BY <2>6, <3>12 DEF WholeCopyInv
      <4>2. CASE copy[v].at = "verify" /\ Agrees(v)
        <5>1. /\ Active(v) /\ copy[v].copied["points"] \in Nat /\ copy[v].copied["vecs"] \in Nat
              /\ copy[v].src[1] <= copy[v].src[2] /\ copy[v].src[1] > 0
              /\ copy[v].copied["points"] = copy[v].src[1]
              /\ copy[v].copied["vecs"] = copy[v].src[2]
          BY <4>1, <4>2 DEF Active, Progress, Copied, Counted, Agrees, Table
        <5>2. copy[v].copied["points"] > 0 /\ copy[v].copied["vecs"] > 0
          BY <5>1
        <5> QED
          BY <3>0, <3>10, <3>12, <5>1, <5>2 DEF Table
      <4>3. CASE ~ (copy[v].at = "verify" /\ Agrees(v))
        BY <2>2, <3>12, <4>1, <4>3 DEF Verified, Agrees
      <4> QED
        BY <4>2, <4>3
    <3> QED
      BY <3>5, <3>6, <3>7, <3>8, <3>9, <3>11, <3>12 DEF Progress
  <2> QED
    BY <1>0, <2>2, <2>5, <2>6, OneMovesOn DEF StepsOn
<1> QED
  BY <1>1, <1>2

LEMMA CopyStep ==
  ASSUME WholeInv, RowInv, RowInv', WholeCopyInv, [KbNext]_storevars
  PROVE  WholeCopyInv'
<1>1. CASE (\E c \in Chunks : SourceStores(c)) \/ \E r \in DOMAIN source : SourceDeletes(r)
  BY <1>1, SourceCopies
<1>2. CASE UNCHANGED kbvars
  <2>1. UNCHANGED <<source, points, vecs, copy, churned>>
    BY <1>2 DEF kbvars, history
  <2> QED
    BY <2>1, Unchanged, AllStandStill DEF RowInv, StepsOn
<1>3. ASSUME NEW u \in Users,
             (\E c \in Chunks : StoreChunk(u, c)) \/ \E r \in DOMAIN points : DeleteChunk(u, r)
      PROVE  WholeCopyInv'
  BY <1>3, TargetCopies
<1>4. ASSUME NEW u \in Users, migrating(u) PROVE WholeCopyInv'
  BY <1>4, OutCopies, CountingCopies, SelectingCopies, InsertingCopies, VerifyingCopies
  DEF migrating
<1>5. ASSUME NEW u \in Users, Leaves(u) \/ UserBreaks(u) PROVE WholeCopyInv'
  BY <1>5, OutCopies
<1> QED
  BY <1>1, <1>2, <1>3, <1>4, <1>5 DEF KbNext, storevars

LEMMA OthersAreLeft ==
  ASSUME CopyInv, NEW w \in Users, NEW v \in Users, v # w,
         migrating(w) \/ Leaves(w) \/ UserBreaks(w)
  PROVE  copy'[v] = copy[v]
<1>1. CASE CheckEmpty(w)
  BY <1>1 DEF CheckEmpty, kbvars, CopyInv
<1>2. CASE CountSource(w) \/ SelectBatch(w)
  BY <1>2 DEF CountSource, SelectBatch, CopyInv
<1>3. CASE InsertBatch(w)
  BY <1>3 DEF InsertBatch, Inserted, CopyInv
<1>4. CASE CountTarget(w) \/ Report(w)
  BY <1>4 DEF CountTarget, Report, CopyInv
<1>5. CASE Leaves(w) \/ UserBreaks(w)
  BY <1>5 DEF Leaves, UserBreaks, CopyInv
<1> QED
  BY <1>1, <1>2, <1>3, <1>4, <1>5 DEF migrating

LEMMA OnlyReportReports ==
  ASSUME CopyInv, KbNext, NEW u \in Users,
         copy[u].at = "verify", copy'[u].at = "reported"
  PROVE  Report(u)
<1>0. ~ UNCHANGED copy
  OBVIOUS
<1>1. CASE (\E c \in Chunks : SourceStores(c)) \/ \E r \in DOMAIN source : SourceDeletes(r)
  BY <1>0, <1>1 DEF SourceStores, SourceDeletes
<1>2. ASSUME NEW w \in Users,
             \/ opening(w) /\ UNCHANGED kbvars
             \/ \E c \in Chunks : StoreChunk(w, c)
             \/ \E r \in DOMAIN points : DeleteChunk(w, r)
      PROVE  FALSE
  BY <1>0, <1>2 DEF StoreChunk, DeleteChunk, kbvars
<1>3. ASSUME NEW w \in Users, w # u, migrating(w) \/ Leaves(w) \/ UserBreaks(w) PROVE FALSE
  BY <1>3, OthersAreLeft
<1>4. CASE CheckEmpty(u) \/ CountSource(u) \/ SelectBatch(u) \/ InsertBatch(u)
  <2>1. CASE CheckEmpty(u)
    <3>1. copy[u] = NoCopy
      BY <2>1 DEF CheckEmpty
    <3>2. NoCopy.at = "none"
      BY DEF NoCopy
    <3> QED
      BY <3>1, <3>2
  <2>2. CASE CountSource(u)
    <3>1. copy[u].at = "count points" \/ copy[u].at = "count vectors"
      BY <2>2 DEF CountSource
    <3> QED
      BY <3>1
  <2>3. CASE SelectBatch(u) \/ InsertBatch(u)
    <3>1. copy[u].at = "select" \/ copy[u].at = "insert"
      BY <2>3 DEF SelectBatch, InsertBatch
    <3> QED
      BY <3>1
  <2> QED
    BY <1>4, <2>1, <2>2, <2>3
<1>5. CASE CountTarget(u)
  <2>1. PICK d : copy' = [copy EXCEPT ![u].dst = d]
    BY <1>5 DEF CountTarget
  <2>2. copy'[u] = [copy[u] EXCEPT !.dst = d]
    BY <2>1 DEF CopyInv
  <2>3. copy'[u].at = "verify"
    BY <2>2
  <2> QED
    BY <2>3
<1>6. CASE Leaves(u) \/ UserBreaks(u)
  <2>1. copy' = [copy EXCEPT ![u] = NoCopy]
    BY <1>6 DEF Leaves, UserBreaks
  <2> QED
    BY <2>1 DEF CopyInv, NoCopy
<1> QED
  BY <1>1, <1>2, <1>3, <1>4, <1>5, <1>6 DEF KbNext, migrating

(* A migration that reports that it copied something, and all of it, has   *)
(* left one vector a chunk (ReportedCopyIsWhole), of the same version but  *)
(* in the rows that the source rewrote, however the source grew meanwhile  *)
(* and whoever else migrated, ingested or died on the way.                 *)
THEOREM ReportsAreTrue == KbSpec => ReportedCopyIsWhole
<1> DEFINE Inv == WholeInv /\ RowInv /\ WholeCopyInv
           True == \A u \in Users : ReportsOk(u) /\ churned = {} =>
                     /\ DOMAIN points = DOMAIN vecs
                     /\ \A r \in DOMAIN points \ changed : points[r] = vecs[r]
<1>1. KbInit => Inv
  BY WholeInit, RowInit, CopyInit DEF KbInit
<1>2. Inv /\ [KbNext]_storevars => Inv'
  <2> SUFFICES ASSUME Inv, [KbNext]_storevars PROVE Inv'
    OBVIOUS
  <2>1. WholeInv' /\ RowInv'
    BY WholeStep, KbStep, RowStep DEF storevars
  <2> QED
    BY <2>1, CopyStep
<1>3. Inv /\ [KbNext]_storevars => [True]_storevars
  <2> SUFFICES ASSUME Inv, KbNext, NEW u \in Users, ReportsOk(u), churned = {}
               PROVE  /\ DOMAIN points = DOMAIN vecs
                      /\ \A r \in DOMAIN points \ changed : points[r] = vecs[r]
    OBVIOUS
  <2>1. Report(u)
    BY OnlyReportReports DEF RowInv, ReportsOk
  <2>2. Verified(u)
    BY DEF WholeCopyInv
  <2>3. SameRowIds
    BY <2>1, <2>2 DEF Report, Verified, Agrees, RowInv, CopyInv, ReportsOk
  <2>4. \A r \in DOMAIN points \ changed : AsIn(r, points, vecs) \/ AsIn(r, points, source)
    BY DEF RowInv, PairInv
  <2>5. \A r \in DOMAIN vecs \ changed : AsIn(r, vecs, points) \/ AsIn(r, vecs, source)
    BY DEF RowInv, PairInv
  <2> QED
    BY <2>3, <2>4, <2>5 DEF SameRowIds, AsIn
<1> QED
  BY <1>1, <1>2, <1>3, PTL DEF KbSpec, ReportedCopyIsWhole

-----------------------------------------------------------------------------
(* The launch, for any number of processes booting at once and of probes   *)
(* that time out.  What is proved of the token is proved of every launch   *)
(* that no other one crossed: the invariant says what such a launch knows  *)
(* of the others, and of the file.                                         *)
Call == [step : {"idle", "send", "ok", "401", "503"},
         sends : Tokens, readUnder : Tokens, sentTo : Tokens]

Types ==
  /\ proc \in [Procs -> {"down", "open", "dump", "bind", "serving"}]
  /\ token \in [Procs -> Tokens]
  /\ runtime \in Tokens \cup {Torn}
  /\ ui \in [Clients -> Call]
  /\ launches \in Tokens
  /\ crashes \in 0 .. MaxCrashes
  /\ slow \in 0 .. MaxSlow
  /\ disturbed \subseteq Tokens

(* The port has one owner, and whoever got past the probe has a token.     *)
PortInv ==
  /\ \A p, q \in Serving : p = q
  /\ \A p \in Procs : proc[p] # "down" => token[p] # 0

(* A launch that no other one crossed is the only one on its way, and from *)
(* its write on the file holds its token.                                  *)
FileInv ==
  \A p \in Procs : proc[p] # "down" /\ token[p] \notin disturbed =>
    /\ Booting \subseteq {p}
    /\ proc[p] \in {"bind", "serving"} => runtime = token[p]

(* A call carries the token of the supervisor it was read under, unless    *)
(* that one was crossed.                                                   *)
CallInv ==
  \A c \in Clients :
    /\ ui[c].step = "send" => ui[c].readUnder \in {0, ui[c].sends} \cup disturbed
    /\ ui[c].step = "401" => ui[c].readUnder # ui[c].sentTo \/ ui[c].sentTo \in disturbed

TokenInv == FileInv /\ CallInv
-----------------------------------------------------------------------------
(* The token that is compared is that of the process that serves.          *)
LEMMA ListeningFacts ==
  ASSUME Types, PortInv
  PROVE  /\ \A p \in Serving : Listening = token[p]
         /\ Serving = {} => Listening = 0
         /\ Serving # {} => Listening # 0
         /\ Listening \in Tokens
<1>1. CASE Serving = {}
  BY <1>1, BoundAssumption DEF Listening, Tokens
<1>2. CASE Serving # {}
  <2>1. PICK p \in Serving : p = CHOOSE q \in Serving : TRUE
    BY <1>2
  <2>2. Listening = token[p] /\ p \in Procs /\ proc[p] = "serving"
    BY <1>2, <2>1 DEF Listening, Serving
  <2>3. \A q \in Serving : q = p
    BY DEF PortInv
  <2> QED
    BY <1>2, <2>2, <2>3 DEF Types, PortInv
<1> QED
  BY <1>1, <1>2

LEMMA TypesStep == Types /\ PortInv /\ [Next]_vars => Types' /\ PortInv'
<1> SUFFICES ASSUME Types, PortInv, [Next]_vars PROVE Types' /\ PortInv'
  OBVIOUS
<1>1. ASSUME NEW p \in Procs, Probe(p) PROVE Types' /\ PortInv'
  <2>1. /\ launches + 1 \in Tokens /\ launches + 1 # 0 /\ launches' = launches + 1
        /\ slow' \in 0 .. MaxSlow
    <3>1. launches \in Tokens /\ slow \in 0 .. MaxSlow /\ {MaxLaunches, MaxSlow} \subseteq Nat
      BY BoundAssumption DEF Types
    <3> QED
      BY <1>1, <3>1 DEF Probe, Tokens
  <2>2. /\ token' = [token EXCEPT ![p] = launches + 1] /\ proc' = [proc EXCEPT ![p] = "open"]
        /\ disturbed' = Crossing(Booting \cup Serving) /\ UNCHANGED <<runtime, ui, crashes>>
    BY <1>1 DEF Probe
  <2>3. Types'
    <3>1. disturbed' \subseteq Tokens
      BY <2>1, <2>2 DEF Types, Crossing, Booting, Serving
    <3> QED
      BY <2>1, <2>2, <3>1 DEF Types
  <2>4. PortInv'
    BY <2>1, <2>2 DEF Types, PortInv, Serving
  <2> QED
    BY <2>3, <2>4
<1>2. ASSUME NEW p \in Procs, boot(p) PROVE Types' /\ PortInv'
  <2>1. CASE OpenRuntime(p)
    BY <2>1 DEF OpenRuntime, Types, PortInv, Serving
  <2>2. CASE DumpRuntime(p)
    BY <2>2 DEF DumpRuntime, Types, PortInv, Serving
  <2>3. CASE Bind(p)
    BY <2>3 DEF Bind, Types, PortInv, Serving
  <2> QED
    BY <1>2, <2>1, <2>2, <2>3 DEF boot
<1>3. ASSUME NEW p \in Procs, Kill(p) PROVE Types' /\ PortInv'
  <2>1. crashes' \in 0 .. MaxCrashes
    <3>1. crashes \in 0 .. MaxCrashes /\ MaxCrashes \in Nat
      BY BoundAssumption DEF Types
    <3> QED
      BY <1>3, <3>1 DEF Kill
  <2> QED
    BY <1>3, <2>1 DEF Kill, Types, PortInv, Serving
<1>4. ASSUME NEW c \in Clients, ReadRuntime(c) PROVE Types' /\ PortInv'
  <2>1. Listening \in Tokens /\ 0 \in Tokens
    BY ListeningFacts, BoundAssumption DEF Tokens
  <2> DEFINE call == [step |-> IF runtime \in {0, Torn} THEN "503" ELSE "send",
                      sends |-> IF runtime = Torn THEN 0 ELSE runtime,
                      readUnder |-> Listening, sentTo |-> 0]
  <2>2. call \in Call
    BY <2>1 DEF Call, Types
  <2>3. /\ ui' = [ui EXCEPT ![c] = call]
        /\ UNCHANGED <<proc, token, runtime, launches, crashes, slow, disturbed>>
    BY <1>4 DEF ReadRuntime
  <2> HIDE DEF call
  <2> QED
    BY <2>2, <2>3 DEF Types, PortInv, Serving
<1>5. ASSUME NEW c \in Clients, SendMutation(c) PROVE Types' /\ PortInv'
  <2>1. Listening \in Tokens
    BY ListeningFacts
  <2>2. UNCHANGED <<proc, token, runtime, launches, crashes, slow, disturbed>>
    BY <1>5 DEF SendMutation
  <2>3. ui' \in [Clients -> Call]
    BY <1>5, <2>1 DEF SendMutation, Types, Call
  <2> QED
    BY <2>2, <2>3 DEF Types, PortInv, Serving
<1>6. CASE UNCHANGED vars
  BY <1>6 DEF vars, Types, PortInv, Serving
<1> QED
  BY <1>1, <1>2, <1>3, <1>4, <1>5, <1>6 DEF Next

(* Nothing that a process does changes what a call has read or was told.   *)
LEMMA CallsKept == CallInv /\ UNCHANGED ui /\ disturbed \subseteq disturbed' => CallInv'
BY DEF CallInv

(* A probe leaves only launches that nobody crosses: its own if none was   *)
(* on its way, and those of processes that are down.                       *)
LEMMA ProbeStep ==
  ASSUME Types, TokenInv, NEW p \in Procs, Probe(p)
  PROVE  TokenInv'
<1>1. /\ proc' = [proc EXCEPT ![p] = "open"] /\ token' = [token EXCEPT ![p] = launches + 1]
      /\ disturbed' = Crossing(Booting \cup Serving) /\ UNCHANGED ui
  BY DEF Probe
<1>2. /\ proc'[p] = "open" /\ token'[p] = launches + 1
      /\ \A q \in Procs : q # p => proc'[q] = proc[q] /\ token'[q] = token[q]
  BY <1>1 DEF Types
<1>3. disturbed \subseteq disturbed'
  BY <1>1 DEF Crossing
<1>4. ASSUME NEW q \in Procs, q # p, proc'[q] # "down" PROVE token'[q] \in disturbed'
  <2>1. q \in Booting \cup Serving
    BY <1>2, <1>4 DEF Types, Booting, Serving
  <2> QED
    BY <1>1, <1>2, <1>4, <2>1 DEF Crossing
<1>5. ASSUME token'[p] \notin disturbed' PROVE Booting' \subseteq {p}
  <2>1. Booting = {}
    BY <1>1, <1>2, <1>5 DEF Crossing
  <2> QED
    BY <1>2, <2>1 DEF Booting
<1>6. FileInv'
  BY <1>2, <1>4, <1>5 DEF FileInv
<1> QED
  BY <1>1, <1>3, <1>6, CallsKept DEF TokenInv

(* A launch that no other one crossed is alone on its way, so a step of    *)
(* the boot is its own.                                                    *)
LEMMA BootStep ==
  ASSUME Types, TokenInv, NEW p \in Procs, boot(p)
  PROVE  TokenInv'
<1>1. /\ p \in Booting /\ UNCHANGED <<token, ui, disturbed>>
      /\ \A q \in Procs : q # p => proc'[q] = proc[q]
  BY DEF boot, OpenRuntime, DumpRuntime, Bind, Types, Booting
<1>2. ASSUME NEW q \in Procs, proc'[q] # "down", token'[q] \notin disturbed'
      PROVE  /\ q = p /\ Booting \subseteq {p}
             /\ proc[p] = "bind" => runtime = token[p]
  <2>1. proc[q] # "down" /\ token[q] \notin disturbed
    BY <1>1, <1>2 DEF Booting
  <2>2. Booting \subseteq {q}
    BY <2>1 DEF TokenInv, FileInv
  <2> QED
    BY <1>1, <2>1, <2>2 DEF TokenInv, FileInv
<1>3. ASSUME NEW q \in Procs, proc'[q] # "down", token'[q] \notin disturbed'
      PROVE  /\ Booting' \subseteq {q}
             /\ proc'[q] \in {"bind", "serving"} => runtime' = token'[q]
  <2>1. Booting' \subseteq {q}
    BY <1>1, <1>2, <1>3 DEF Booting
  <2>2. CASE OpenRuntime(p)
    BY <1>2, <1>3, <2>1, <2>2 DEF OpenRuntime, Types
  <2>3. CASE DumpRuntime(p)
    BY <1>2, <1>3, <2>1, <2>3 DEF DumpRuntime, Types
  <2>4. CASE Bind(p)
    BY <1>2, <1>3, <2>1, <2>4 DEF Bind, Types
  <2> QED
    BY <2>2, <2>3, <2>4 DEF boot
<1>4. FileInv'
  BY <1>3 DEF FileInv
<1> QED
  BY <1>1, <1>4, CallsKept DEF TokenInv

(* A process that publishes its token uncrossed is asked for that token.   *)
LEMMA TokenStep ==
  ASSUME Types, PortInv, TokenInv, [Next]_vars
  PROVE  TokenInv'
<1>1. ASSUME NEW p \in Procs, Kill(p) PROVE TokenInv'
  <2>1. /\ UNCHANGED <<token, runtime, ui, launches, slow, disturbed>>
        /\ \A q \in Procs : proc'[q] = IF q = p THEN "down" ELSE proc[q]
    BY <1>1 DEF Kill, Types
  <2>2. Booting' \subseteq Booting
    BY <2>1 DEF Booting
  <2>3. FileInv'
    BY <2>1, <2>2 DEF TokenInv, FileInv
  <2> QED
    BY <2>1, <2>3, CallsKept DEF TokenInv
<1>2. ASSUME NEW c \in Clients, ReadRuntime(c) PROVE TokenInv'
  <2>1. UNCHANGED <<proc, token, runtime, disturbed>>
    BY <1>2 DEF ReadRuntime
  <2>2. FileInv'
    BY <2>1 DEF TokenInv, FileInv, Booting
  <2>3. \A q \in Clients : q # c => ui'[q] = ui[q]
    BY <1>2 DEF ReadRuntime, Types
  <2>4. /\ ui'[c].step \in {"503", "send"}
        /\ ui'[c].step = "send" => ui'[c].sends = runtime
        /\ ui'[c].readUnder = Listening
    BY <1>2 DEF ReadRuntime, Types
  <2>5. Listening \in {0, runtime} \cup disturbed
    BY ListeningFacts DEF TokenInv, FileInv, Serving
  <2>6. CallInv'
    BY <2>1, <2>3, <2>4, <2>5 DEF TokenInv, CallInv
  <2> QED
    BY <2>2, <2>6 DEF TokenInv
<1>3. ASSUME NEW c \in Clients, SendMutation(c) PROVE TokenInv'
  <2>1. UNCHANGED <<proc, token, runtime, disturbed>>
    BY <1>3 DEF SendMutation
  <2>2. FileInv'
    BY <2>1 DEF TokenInv, FileInv, Booting
  <2>3. \A q \in Clients : q # c => ui'[q] = ui[q]
    BY <1>3 DEF SendMutation, Types
  <2>4. ui[c].step = "send" /\ ui[c] \in Call
    BY <1>3 DEF SendMutation, Types
  <2>5. /\ ui'[c].step # "send" /\ ui'[c].readUnder = ui[c].readUnder
        /\ ui'[c].sentTo = Listening
        /\ ui'[c].step = "401" => Serving # {} /\ ui[c].sends # Listening
    BY <1>3, <2>4 DEF SendMutation, Types, Call
  <2>6. ui[c].readUnder \in {0, ui[c].sends} \cup disturbed
    BY <2>4 DEF TokenInv, CallInv
  <2>7. ui'[c].step = "401" => ui'[c].readUnder # ui'[c].sentTo \/ ui'[c].sentTo \in disturbed
    BY <2>5, <2>6, ListeningFacts
  <2>8. CallInv'
    BY <2>1, <2>3, <2>5, <2>7 DEF TokenInv, CallInv
  <2> QED
    BY <2>2, <2>8 DEF TokenInv
<1>4. CASE UNCHANGED vars
  BY <1>4, CallsKept DEF vars, TokenInv, FileInv, Booting
<1> QED
  BY <1>1, <1>2, <1>3, <1>4, ProbeStep, BootStep DEF Next

LEMMA InitInv == Init => Types /\ PortInv /\ TokenInv
BY BoundAssumption
   DEF Init, Types, PortInv, TokenInv, FileInv, CallInv, Booting, Serving, Call, Tokens

-----------------------------------------------------------------------------
(* Every variable keeps its type, however many processes boot at once and  *)
(* however slow the probes: at most one process ever owns the port.        *)
THEOREM LaunchTypes == Spec => []TypeOK
<1>1. Types /\ PortInv => TypeOK
  <2> SUFFICES ASSUME Types, PortInv PROVE Cardinality(Serving) <= 1
    BY DEF Types, TypeOK, Call
  <2>1. CASE Serving = {}
    BY <2>1, FS_EmptySet
  <2>2. CASE Serving # {}
    <3>1. PICK p : Serving = {p}
      BY <2>2 DEF PortInv
    <3> QED
      BY <3>1, FS_Singleton
  <2> QED
    BY <2>1, <2>2
<1> QED
  BY <1>1, InitInv, TypesStep, PTL DEF Spec

(* Whatever starts overlap, probes time out and processes are killed: a    *)
(* launch that no other one crossed is alone on its way, and the file      *)
(* holds its token from its write on.                                      *)
THEOREM LaunchInvariant == Spec => [](Types /\ PortInv /\ TokenInv)
<1>1. Types /\ PortInv /\ TokenInv /\ [Next]_vars => (Types /\ PortInv /\ TokenInv)'
  BY TypesStep, TokenStep
<1> QED
  BY <1>1, InitInv, PTL DEF Spec

(* The token in supervisor.json is that of the process that serves, unless *)
(* another launch crossed that of the process: kills and restarts at any   *)
(* point, and what was crossed before it, do not change that.              *)
THEOREM ServedTokenIsPublished == Spec => []LiveTokenIsPublished
<1>1. TokenInv => LiveTokenIsPublished
  BY DEF TokenInv, FileInv, LiveTokenIsPublished, Serving
<1> QED
  BY <1>1, LaunchInvariant, PTL

(* No call of the UI is refused by the supervisor under which it read the  *)
(* file, unless another launch crossed that supervisor's.                  *)
THEOREM NoCallIsRefusedInPlace == Spec => []RefusedOnlyAcrossRestart
<1>1. TokenInv => RefusedOnlyAcrossRestart
  BY DEF TokenInv, CallInv, RefusedOnlyAcrossRestart
<1> QED
  BY <1>1, LaunchInvariant, PTL
=============================================================================
