------------------------- MODULE IngestProjections -------------------------
(***************************************************************************)
(* The projections of POST /ingest (app/api/ingest.py): behind the usage   *)
(* records one request also upserts projects and session contexts,         *)
(* replaces the project directories of its source and the todos of its     *)
(* sessions, and stores transcript messages and parts.  No transaction     *)
(* spans this path: each statement commits by itself, a statement that     *)
(* fails is caught per collection, and requests of one source interleave.  *)
(*                                                                         *)
(* A request is a record [projects, contexts, directories, todos,          *)
(* messages, parts]; a context is <<session, project>>, a todo <<session,  *)
(* position, item>>, a part <<part, kind>>.  Blank is a path of white      *)
(* space.                                                                  *)
(***************************************************************************)
EXTENDS Values, Integers, Sequences, FiniteSets, SequencesExt

CONSTANTS
    ProjectionRequests, \* the bodies that collectors send
    ProjectionWorkers,  \* requests handled at a time
    Blank,
    MaxProjectionFaults \* bound on failing statements and dying requests

ASSUME ProjectionAssumption ==
    /\ None \notin ProjectionRequests
    /\ \A body \in ProjectionRequests :
          /\ IsFiniteSet(body.projects) /\ IsFiniteSet(body.contexts) /\ IsFiniteSet(body.directories)
          /\ IsFiniteSet(body.todos) /\ IsFiniteSet(body.messages) /\ IsFiniteSet(body.parts)

VARIABLES
    knownSessions,      \* sessions: the rows the usage path has created
    sourceProjects,     \* opencode_source_projects
    sessionContexts,    \* opencode_session_contexts: session -> [session, project]
    directories,        \* opencode_project_directories
    todos,              \* opencode_session_todos: <<session, position, item>>
    parts,              \* observed_parts: part -> kind
    projecting,         \* worker -> the statements left, the counts, the body
    lastProjected,      \* the body of the last request if it ran alone and no collection was cut short
    projectionFaults    \* number of faults so far

projectionVars == <<knownSessions, sourceProjects, sessionContexts, directories, todos, parts,
                    projecting, lastProjected, projectionFaults>>

Free == [body |-> None, left |-> <<>>, accepted |-> 0, rejected |-> 0, alone |-> FALSE]

ProjectionInit ==
    /\ knownSessions = {} /\ sourceProjects = {} /\ sessionContexts = [s \in {} |-> None]
    /\ directories = {} /\ todos = {} /\ parts = [p \in {} |-> None]
    /\ projecting = [w \in ProjectionWorkers |-> Free]
    /\ lastProjected = None /\ projectionFaults = 0

Do(op, x) == <<[op |-> op, arg |-> x]>>
Each(op, S) == LET q == SetToSeq(S) IN [k \in 1..Len(q) |-> [op |-> op, arg |-> q[k]]]

\* _process_project_directories: blanks are dropped; a batch of nothing but
\* blanks leaves the stored rows alone; an empty or absent array clears them.
DirectoryStatements(body) ==
    LET paths == body.directories \ {Blank}
    IN  IF paths = {} /\ body.directories # {} THEN <<>>
        ELSE Do("clear_directories", 0) \o Each("directory", paths)

\* _process_session_todos: per session a DELETE and then its rows.
TodoStatements(body) ==
    LET of(s) == {t \in body.todos : t[1] = s}
        ss    == SetToSeq({t[1] : t \in body.todos})
    IN  FlattenSeq([k \in 1..Len(ss) |-> Do("clear_todos", ss[k]) \o Each("todo", of(ss[k]))])

\* Mutant: contexts before the projects they refer to.
Statements_ContextsFirst(body) ==
    Each("context", body.contexts) \o Each("project", body.projects)
        \o DirectoryStatements(body) \o TodoStatements(body)
        \o Each("message", body.messages) \o Each("part", body.parts)

\* The tail of ingest_usage, in its order.
Statements(body) ==
    Each("project", body.projects) \o Each("context", body.contexts)
        \o DirectoryStatements(body) \o TodoStatements(body)
        \o Each("message", body.messages) \o Each("part", body.parts)

\* The usage records of the request have been booked, their sessions exist.
BeginProjection(w, body) ==
    /\ projecting[w].body = None
    /\ knownSessions' = knownSessions \cup body.sessions
    /\ LET alone == \A v \in ProjectionWorkers : projecting[v].body = None
           start == [body |-> body, left |-> Statements(body), accepted |-> 0, rejected |-> 0, alone |-> alone]
       IN  projecting' = [v \in ProjectionWorkers |->
               IF v = w THEN start ELSE [projecting[v] EXCEPT !.alone = FALSE]]
    /\ lastProjected' = None
    /\ UNCHANGED <<sourceProjects, sessionContexts, directories, todos, parts, projectionFaults>>

\* The exception handler around the directories and the one around the todos:
\* what is left of the collection is skipped.
Skip(left) ==
    LET op   == Head(left).op
        same == CASE op \in {"clear_directories", "directory"} -> {"directory"}
                  [] op \in {"clear_todos", "todo"} -> {"clear_todos", "todo"}
                  [] OTHER -> {}
    IN  SelectSeq(Tail(left), LAMBDA st : st.op \notin same)

Proceed(w) == projecting' = [projecting EXCEPT ![w].left = Tail(@), ![w].accepted = @ + 1]
CutShort(w) == projecting' = [projecting EXCEPT ![w].left = Skip(@), ![w].rejected = @ + 1, ![w].alone = FALSE]

\* Projects, contexts, messages and parts are caught one by one.
Rejected(w) == projecting' = [projecting EXCEPT ![w].left = Tail(@), ![w].rejected = @ + 1]

ProcessProject(w, p) ==
    /\ sourceProjects' = sourceProjects \cup {p}
    /\ Proceed(w)
    /\ UNCHANGED <<sessionContexts, directories, todos, parts>>

\* _process_session_context: the references that can be resolved now; one
\* that was resolved before stays (COALESCE).
ProcessSessionContext(w, ctx) ==
    LET old == IF ctx[1] \in DOMAIN sessionContexts THEN sessionContexts[ctx[1]]
               ELSE [session |-> FALSE, project |-> FALSE]
    IN  /\ sessionContexts' = [s \in DOMAIN sessionContexts \cup {ctx[1]} |->
              IF s # ctx[1] THEN sessionContexts[s]
              ELSE [session |-> old.session \/ ctx[1] \in knownSessions,
                    project |-> old.project \/ ctx[2] \in sourceProjects]]
        /\ Proceed(w)
        /\ UNCHANGED <<sourceProjects, directories, todos, parts>>

\* Another request has inserted the same path: the unique key raises.
InsertDirectory(w, d) ==
    /\ IF d \in directories THEN CutShort(w) /\ UNCHANGED directories
       ELSE Proceed(w) /\ directories' = directories \cup {d}
    /\ UNCHANGED <<sourceProjects, sessionContexts, todos, parts>>

ClearDirectories(w) ==
    /\ directories' = {}
    /\ Proceed(w)
    /\ UNCHANGED <<sourceProjects, sessionContexts, todos, parts>>

ClearTodos(w, s) ==
    /\ todos' = {t \in todos : t[1] # s}
    /\ Proceed(w)
    /\ UNCHANGED <<sourceProjects, sessionContexts, directories, parts>>

InsertTodo(w, t) ==
    /\ IF \E u \in todos : u[1] = t[1] /\ u[2] = t[2] THEN CutShort(w) /\ UNCHANGED todos
       ELSE Proceed(w) /\ todos' = todos \cup {t}
    /\ UNCHANGED <<sourceProjects, sessionContexts, directories, parts>>

\* The upsert of observed_messages has a comma before the closing parenthesis
\* of a COALESCE: PostgreSQL rejects the statement, whatever the message.
ProcessMessage(w) ==
    /\ Rejected(w)
    /\ UNCHANGED <<sourceProjects, sessionContexts, directories, todos, parts>>

\* The part is upserted; if it names a tool, the upsert of the tool call in
\* the same transaction has the same comma and takes the part with it.
ProcessPart(w, p) ==
    /\ IF p[2] = "tool_call" THEN Rejected(w) /\ UNCHANGED parts
       ELSE Proceed(w) /\ parts' = [q \in DOMAIN parts \cup {p[1]} |-> IF q = p[1] THEN p[2] ELSE parts[q]]
    /\ UNCHANGED <<sourceProjects, sessionContexts, directories, todos>>

Project(w) ==
    /\ projecting[w].left # <<>>
    /\ LET st == Head(projecting[w].left)
       IN  \/ st.op = "project" /\ ProcessProject(w, st.arg)
           \/ st.op = "context" /\ ProcessSessionContext(w, st.arg)
           \/ st.op = "clear_directories" /\ ClearDirectories(w)
           \/ st.op = "directory" /\ InsertDirectory(w, st.arg)
           \/ st.op = "clear_todos" /\ ClearTodos(w, st.arg)
           \/ st.op = "todo" /\ InsertTodo(w, st.arg)
           \/ st.op = "message" /\ ProcessMessage(w)
           \/ st.op = "part" /\ ProcessPart(w, st.arg)
    /\ UNCHANGED <<knownSessions, lastProjected, projectionFaults>>

\* A statement fails in the database.
ProjectionFails(w) ==
    /\ projecting[w].left # <<>> /\ projectionFaults < MaxProjectionFaults
    /\ projectionFaults' = projectionFaults + 1
    /\ CutShort(w)
    /\ UNCHANGED <<knownSessions, sourceProjects, sessionContexts, directories, todos, parts, lastProjected>>

\* The process or its connection dies.
ProjectionDies(w) ==
    /\ projecting[w].left # <<>> /\ projectionFaults < MaxProjectionFaults
    /\ projectionFaults' = projectionFaults + 1
    /\ projecting' = [projecting EXCEPT ![w] = Free]
    /\ UNCHANGED <<knownSessions, sourceProjects, sessionContexts, directories, todos, parts, lastProjected>>

AnswerProjection(w) ==
    /\ projecting[w].body # None /\ projecting[w].left = <<>>
    /\ lastProjected' = IF projecting[w].alone THEN projecting[w].body ELSE None
    /\ projecting' = [projecting EXCEPT ![w] = Free]
    /\ UNCHANGED <<knownSessions, sourceProjects, sessionContexts, directories, todos, parts, projectionFaults>>

ProjectionNext ==
    \E w \in ProjectionWorkers :
        \/ \E body \in ProjectionRequests : BeginProjection(w, body)
        \/ Project(w) \/ ProjectionFails(w) \/ ProjectionDies(w) \/ AnswerProjection(w)

ProjectionSpec == ProjectionInit /\ [][ProjectionNext]_projectionVars

-----------------------------------------------------------------------------
(* A request that ran alone and unharmed leaves what it reported, whatever *)
(* crossed requests and failures had left before: its directories without  *)
(* blanks, exactly its todos for each of its sessions, and every context   *)
(* linked to a session or project the gateway knows by then, which needs   *)
(* the projects to be stored before the contexts.                          *)
UndisturbedRequestIsExact ==
    lastProjected # None =>
        LET b == lastProjected
        IN  /\ b.directories = {} \/ b.directories # {Blank} =>
                   directories = b.directories \ {Blank}
            /\ {t \in todos : t[1] \in {u[1] : u \in b.todos}} = b.todos
            /\ \A ctx \in b.contexts :
                   /\ ctx[2] \in b.projects => sessionContexts[ctx[1]].project
                   /\ ctx[1] \in b.sessions => sessionContexts[ctx[1]].session

(* What a session context was once linked to it stays linked to, although  *)
(* later batches carry the context without the project or before the       *)
(* session, in any interleaving.                                           *)
ContextLinksStay ==
    \A s \in DOMAIN sessionContexts :
        /\ sessionContexts[s].session => sessionContexts'[s].session
        /\ sessionContexts[s].project => sessionContexts'[s].project

\* What the projections of a body promise across any crossing of requests:
\* every step keeps the links and, if it ends an undisturbed request, leaves
\* what was reported.
ProjectionsAreExact == [][UndisturbedRequestIsExact' /\ ContextLinksStay]_projectionVars
=============================================================================
