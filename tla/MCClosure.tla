----------------------------- MODULE MCClosure -----------------------------
(* Two change requests that link one issue, and what their hosts deliver.  *)
EXTENDS ClosureProjection

CONSTANTS i1, a, b

Closes == {<<"declares_closure", i1>>}
Refers == {<<"references", i1>>}

Fact(ent, type, at, via, ls) == [ent |-> ent, type |-> type, at |-> at, via |-> via, links |-> ls]

MCDeliveries ==
    {Fact(i1, "issue.closed", 4, "webhook", None),
     Fact(i1, "issue.reopened", 5, "webhook", None),
     Fact(a, "change_request.opened", 1, "webhook", Closes \cup {Malformed}),
     Fact(a, "change_request.merged", 2, "webhook", None),
     Fact(a, "change_request.updated", 3, "backfill", Refers),
     Fact(b, "change_request.opened", 2, "backfill", Closes)}

Symmetry == Permutations(Workers)

MCWindows == {All, <<1, 4>>}

=============================================================================
