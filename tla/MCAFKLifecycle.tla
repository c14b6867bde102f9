--------------------------- MODULE MCAFKLifecycle ---------------------------
(***************************************************************************)
(* Small instances of AFKLifecycle: two connections, two runs, one new and *)
(* one legacy AWX job, two change requests.  The number of requests is not *)
(* bounded; MCRequests names the distinct ones.                            *)
(***************************************************************************)
EXTENDS AFKLifecycle, TLC

CONSTANTS a, b, r1, r2, j1, old, c1, c2

Provision(k, t, batch, rec) ==
  [op |-> "provision", key |-> k, title |-> t, batch |-> batch,
   recovered |-> rec]
Bind(r, cr) == [op |-> "bind", run |-> r, cr |-> cr]
Create(j, r, cr, s, o, f) ==
  [op |-> "create", job |-> j, run |-> r, cr |-> cr, session |-> s,
   outcome |-> o, failure |-> f]
Update(j, o, cr, s, given, f) ==
  [op |-> "terminal", job |-> j, outcome |-> o, cr |-> cr, session |-> s,
   failureProvided |-> given, failure |-> f]

MCRequests ==
  {Provision("k1", "t", "batch", None), Provision("k2", "t", None, r1)}
  \cup {Bind(r1, c1), Bind(r1, c2), Bind(r2, c1)}
  \cup {Create(j1, r, None, None, "running", None) : r \in {r1, r2}}
  \cup {Create(j1, r2, c1, None, "running", "f"),
        Create(j1, r1, c1, "s", "completed", None)}
  \cup {Update(j1, "completed", None, "s", FALSE, None),
        Update(j1, "completed", c1, "s", TRUE, None),
        Update(j1, "failed", c2, None, TRUE, "f"),
        Update(old, "failed", None, None, FALSE, None),
        Update(old, "completed", c1, "s", FALSE, None)}
  \cup {[op |-> "checkpoint", job |-> j1, ref |-> "ref"]}
  \cup {[op |-> "title", run |-> r1, title |-> "u"]}
  \cup {[op |-> "delete", run |-> r] : r \in {r1, r2}}

Symmetry == Permutations(Clients)
=============================================================================
