----------------------------- MODULE MCBackend -----------------------------
EXTENDS Backend, TLC

CONSTANTS s1, x1, t1, e1, e2, u1, u2, v1, v2, k1, k2, r1, p1

\* One weekly schedule and one target of an organization; the clocks go back
\* at moment 2.
MCTenantOf == s1 :> t1 @@ x1 :> t1
MCZoneOf   == s1 :> [at |-> 2, before |-> 1, after |-> 0]
MCCronOf   == s1 :> [period |-> 2, phase |-> 0]
MCMaxRuns  == s1 :> 2
MCEndAt    == s1 :> 5
MCPostAt   == x1 :> 1

\* Two spellings of one address.
MCAddressOf == e1 :> e1 @@ e2 :> e1

\* Two spellings of a name, and one that differs in its slug only; a slug is
\* the list of its parts, and the schema name drops what tells them apart.
MCKeyOf == [n \in {"Acme", "ACME", "Acme_1", "Public"} |->
              IF n = "ACME" THEN "Acme" ELSE n]
MCBaseOf == [n \in {"Acme", "ACME", "Acme_1"} |->
               IF n = "Acme_1" THEN <<"acme_", 1>> ELSE <<"acme">>]
MCSlugAt(slug, n)   == IF n = 0 THEN slug ELSE Append(slug, n)
MCSchemaAt(slug, n) == MCSlugAt([slug EXCEPT ![1] = "acme"], n)
MCPublicOrg == [name |-> "Public", slug |-> <<"public">>, schema |-> <<"public">>,
                active |-> TRUE, owner |-> {}]

\* A user on the event stream and another on the inbox.
MCViewerOf   == k1 :> v1 @@ k2 :> v2
MCEndpointOf == k1 :> "events" @@ k2 :> "inbox"

MCAuthorOf == r1 :> p1

=============================================================================
