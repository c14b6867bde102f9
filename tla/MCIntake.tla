------------------------------ MODULE MCIntake ------------------------------
(* Data on its way in and out beside the usage path: reporting deliveries, *)
(* the projections of an ingest body, the backfill from the code host,     *)
(* retention, and readers that walk through pages.  They share no table    *)
(* the models keep, so the run explores one of them at a time: `focus' is  *)
(* chosen in the initial state.                                            *)
EXTENDS Reporting, IngestProjections, OutcomeBackfill, PagedReads, TranscriptRetention

VARIABLE focus

-----------------------------------------------------------------------------
(* Reporting: three deliveries of one resource, two of them at one time,   *)
(* and one that is about no resource.                                      *)

Delivery(id, resource, at, payload) == [id |-> id, resource |-> resource, at |-> at, payload |-> payload]

d1 == Delivery(1, "r", 5, [title |-> "x", state |-> None])
d2 == Delivery(2, "r", 5, [title |-> "y", state |-> "open"])
d3 == Delivery(3, "r", 4, [state |-> "draft", author |-> "z"])
d4 == Delivery(4, None, 6, [title |-> "w"])

MCDeliveries == {d1, d2, d3, d4}
MCBatches == {<<d1, d4>>, <<d4, d2>>, <<d3, d1>>}

(* Late, early and tied deliveries merge to one aggregate in every order   *)
(* of arrival (forward_merge and advance_last).                            *)
ASSUME MergeOrderExamples == \A ds \in {<<d1, d2>>, <<d1, d3>>, <<d1, d2, d3>>} : MergeIsOrderFree(ds)

-----------------------------------------------------------------------------
(* Ingest bodies: contexts that come before their session or project, a    *)
(* batch of blank directories, todos in two versions.                      *)

Body == [sessions |-> {}, projects |-> {}, contexts |-> {}, directories |-> {}, todos |-> {},
         messages |-> {}, parts |-> {}]

MCRequests ==
    {[Body EXCEPT !.sessions = {"s"}, !.projects = {"p"}, !.contexts = {<<"s", "p">>},
                  !.directories = {"d", "e", Blank}],
     [Body EXCEPT !.contexts = {<<"s", "q">>}, !.directories = {Blank},
                  !.todos = {<<"s", 1, "x">>, <<"s", 2, "y">>}],
     [Body EXCEPT !.directories = {"d"}, !.todos = {<<"s", 1, "z">>}, !.messages = {"m"},
                  !.parts = {<<"a", "text">>, <<"b", "tool_call">>}]}

-----------------------------------------------------------------------------
(* The code host: two change requests that share a commit, one issue,      *)
(* three sessions.  Two edits can pass titles on, T to the first and U to  *)
(* the second change request, or give both the same one.                   *)

MCPulls == <<[from |-> 2, to |-> 4, body |-> {9}, head |-> {9}, commits |-> [c |-> {9}]],
             [from |-> 3, to |-> 6, body |-> {}, head |-> {}, commits |-> [c |-> {9}]]>>
MCIssues == [n \in {9} |-> [from |-> 1, to |-> 2]]
HostSession(title, from, to) ==
    [title |-> title, from |-> from, to |-> to, agent |-> None, client |-> None, project |-> None]
MCHostSessions == <<HostSession("T", 5, 5), HostSession("U", 2, 3), HostSession("V", 3, 3)>>
MCBackfillWindows == {<<0, 9>>}

-----------------------------------------------------------------------------
(* Pages: up to four rows with tied and missing times, and a session tree  *)
(* with two paths to one session and a cycle.                              *)

Content(session, tag, at) == [session |-> session, tag |-> tag, at |-> at]
MCContents == {Content("s", "x", 1), Content("s", "x", None), Content("t", "y", 1), Content("s", "x", 2)}
MCStarts == {f \in [{1, 2, 3} -> {c \in MCContents : c.at # 2}] : f[1] = Content("s", "x", 1)}
Filter(session, tag, from, to, depth) ==
    [session |-> session, tag |-> tag, from |-> from, to |-> to, depth |-> depth]
MCFilters == {Filter("s", None, None, None, None), Filter("s", "x", None, 1, 1), Filter(None, None, 1, 2, None)}
MCTrees == {{<<"s", "u">>}, {<<"s", "t">>, <<"t", "u">>, <<"u", "s">>, <<"s", "u">>, <<"u", "t">>}}

-----------------------------------------------------------------------------
(* Transcripts: an old message whose part, or whose tool call, is old,     *)
(* recent or without a time, and parts that arrive for either message.     *)

TranscriptRow(table, at, part, message) == [table |-> table, at |-> at, part |-> part, message |-> message]
MCTranscriptStarts ==
    {[m1 |-> TranscriptRow("observed_messages", 1, None, None), m2 |-> TranscriptRow("observed_messages", old, None, None),
      p1 |-> TranscriptRow("observed_parts", 1, None, "m1"), p2 |-> TranscriptRow("observed_parts", 1, None, "m1"),
      p3 |-> TranscriptRow("observed_parts", 2, None, None),
      t1 |-> TranscriptRow("observed_tool_calls", 1, "p1", "m1"), t2 |-> TranscriptRow("observed_tool_calls", call, "p3", "m2")] :
        old \in {1, 3}, call \in {1, 2, None}}
MCLateParts == [x |-> TranscriptRow("observed_parts", 5, None, "m1"), y |-> TranscriptRow("observed_parts", 1, None, "m2")]
MCCutoffs == [observed_messages |-> 3, observed_parts |-> 3, observed_tool_calls |-> 2]

-----------------------------------------------------------------------------
\* The components that are not explored start in one state each.
Init == /\ focus \in {"reporting", "projections", "backfill", "pages", "retention"}
        /\ ReportingInit /\ ProjectionInit /\ BackfillInit /\ PagedInit /\ RetentionInit
        /\ hostPulls[1].title = "U" /\ hostPulls[2].title = "V"
        /\ focus # "pages" => links = {<<"s", "u">>} /\ Range(stored) = {Content("s", "x", 1)}
        /\ focus # "retention" => transcripts["m2"].at = 1 /\ transcripts["t2"].at = 1

Next == \/ focus = "reporting" /\ ReportingNext
             /\ UNCHANGED <<focus, projectionVars, backfillVars, pagedVars, retentionVars>>
        \/ focus = "projections" /\ ProjectionNext
             /\ UNCHANGED <<focus, repVars, backfillVars, pagedVars, retentionVars>>
        \/ focus = "backfill" /\ BackfillNext
             /\ UNCHANGED <<focus, repVars, projectionVars, pagedVars, retentionVars>>
        \/ focus = "pages" /\ PagedNext
             /\ UNCHANGED <<focus, repVars, projectionVars, backfillVars, retentionVars>>
        \/ focus = "retention" /\ RetentionNext
             /\ UNCHANGED <<focus, repVars, projectionVars, backfillVars, pagedVars>>

Spec == Init /\ [][Next]_<<focus, repVars, projectionVars, backfillVars, pagedVars, retentionVars>>
=============================================================================
