--------------------------- MODULE MCOrderService ---------------------------
(* Model-checking instance of OrderService: the bounds and symmetry.       *)
EXTENDS OrderService, TLC

\* States that differ only in what no later step reads are one state: the
\* results already returned, the audit events already emitted, and the
\* arguments and local order of requests that are idle.
InFlight(f, blank) == [p \in Clients |-> IF pc[p] = "idle" THEN blank ELSE f[p]]
BusyView == <<db, cache, clock, backend, pc, now,
              InFlight(req, None), InFlight(local, None), InFlight(todo, {}),
              InFlight(batch, <<>>), up, restarts>>

\* Import files of up to two entries for distinct ids, the empty file
\* included; a second entry still fails when its id was accepted before.
MCFiles == {<<>>} \cup {<<e>> : e \in Entry}
               \cup {s \in {<<e, f>> : e, f \in Entry} : s[1].id # s[2].id}

Symmetry == Permutations(Clients) \cup Permutations(Customers)

=============================================================================
