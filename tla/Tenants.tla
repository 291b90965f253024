------------------------------- MODULE Tenants -------------------------------
(***************************************************************************)
(* apps/organizations: how an organization comes to be and how the         *)
(* deletion of its owner closes it.  CheckOrCreateOrganizationView looks   *)
(* the name up, and create_organization_with_owner creates the             *)
(* organization with its schema, domain and owner in one transaction at    *)
(* READ COMMITTED: what it inserted is `pending` until it commits.         *)
(* DeleteAccountView runs statement by statement.                          *)
(***************************************************************************)
EXTENDS Integers, FiniteSets

CONSTANTS
  Names,            \* names as users spell them
  KeyOf,            \* the name, upper and lower case alike (name__iexact)
  BaseOf,           \* its slug, not numbered yet (slugify)
  SlugAt(_, _),     \* that slug with number n, as it is for n = 0
  SchemaAt(_, _),   \* the schema name made of a slug, with number n
  PublicOrg,        \* what create_public_tenant seeded
  Founders,         \* verified users
  MaxNumber,        \* bound: the numbers tried for a slug or a schema name
  MaxPetitions,     \* bound: requests
  MaxKills          \* bound: workers killed

ASSUME TenantsAssumption ==
  /\ MaxPetitions \in Nat /\ MaxKills \in Nat /\ MaxNumber \in Nat
  /\ PublicOrg = [name |-> PublicOrg.name, slug |-> PublicOrg.slug,
                  schema |-> PublicOrg.schema, active |-> TRUE, owner |-> {}]

VARIABLES
  orgs,       \* committed organizations; owner is {} without such a member
  pending,    \* rows inserted in a founder's transaction
  founding,   \* the next statement of a founder's request
  wish,       \* what that request asks for and has chosen so far
  leaving,    \* the next statement of the deletion of the founder's account
  owned,      \* the organizations it has yet to close
  gone,       \* deleted users
  lost,       \* founders refused by a unique column
  crowded,    \* founders whose transaction overlapped another's
  twins,     \* names two requests founded at once
  orphans,    \* slugs committed while their founder's account was deleted
  petitions, kills

tenantGhosts == <<lost, crowded, twins, orphans, petitions, kills>>
foundingVars == <<pending, founding, wish>>
leavingVars  == <<leaving, owned, gone>>
tenantVars   == <<orgs, foundingVars, leavingVars, tenantGhosts>>

NoWish == [name |-> PublicOrg.name, slug |-> PublicOrg.slug,
           schema |-> PublicOrg.schema]

TenantsInit ==
  /\ orgs = {PublicOrg}
  /\ pending = [u \in Founders |-> {}]
  /\ founding = [u \in Founders |-> "ready"]
  /\ wish = [u \in Founders |-> NoWish]
  /\ leaving = [u \in Founders |-> "no"]
  /\ owned = [u \in Founders |-> {}]
  /\ gone = {} /\ lost = {} /\ crowded = {} /\ twins = {} /\ orphans = {}
  /\ petitions = 0 /\ kills = 0

-----------------------------------------------------------------------------
(* Founding *)

\* Mutant: the name is compared as it is spelled.
ExistsAsSpelled(n) == {o \in orgs : o.active /\ o.name = n}

CheckOrganizationExists(n) ==
  {o \in orgs : o.active /\ KeyOf[o.name] = KeyOf[n]}

InTransaction == {u \in Founders : founding[u] \notin {"ready", "recheck"}}

Proceeds(u, s) == founding' = [founding EXCEPT ![u] = s]

Answers(u) ==
  /\ founding' = [founding EXCEPT ![u] = "ready"]
  /\ wish' = [wish EXCEPT ![u] = NoWish]
  /\ pending' = [pending EXCEPT ![u] = {}]

\* CheckOrCreateOrganizationView: the name is free, so it is to be created; an
\* existing organization is answered and changes nothing.
CheckOrCreate(u, n) ==
  /\ u \notin gone
  /\ founding[u] = "ready"
  /\ petitions < MaxPetitions
  /\ CheckOrganizationExists(n) = {}
  /\ Proceeds(u, "recheck")
  /\ wish' = [wish EXCEPT ![u].name = n]
  /\ twins' = IF \E v \in Founders :
                    founding[v] # "ready" /\ KeyOf[wish[v].name] = KeyOf[n]
               THEN twins \union {KeyOf[n]} ELSE twins
  /\ lost' = lost \ {u}
  /\ crowded' = crowded \ {u}
  /\ petitions' = petitions + 1
  /\ UNCHANGED <<orgs, pending, leavingVars, orphans, kills>>

\* The transaction begins and looks again; a name taken meanwhile is a 409.
Recheck(u) ==
  /\ founding[u] = "recheck"
  /\ IF CheckOrganizationExists(wish[u].name) = {}
     THEN /\ Proceeds(u, "slug")
          /\ UNCHANGED <<pending, wish>>
          /\ crowded' = IF InTransaction = {} THEN crowded
                        ELSE crowded \union InTransaction \union {u}
     ELSE /\ Answers(u)
          /\ UNCHANGED crowded
  /\ UNCHANGED <<orgs, leavingVars, lost, twins, orphans, petitions, kills>>

\* What is not taken yet in a numbered list, with the lowest number there is.
FirstFree(at, taken) ==
  {at[n] : n \in {k \in 0 .. MaxNumber :
                    at[k] \notin taken /\ \A m \in 0 .. k - 1 : at[m] \in taken}}

\* Mutant: the slugs of closed organizations are not looked at.
GenerateActiveSlug(u) ==
  /\ founding[u] = "slug"
  /\ LET at == [n \in 0 .. MaxNumber |-> SlugAt(BaseOf[wish[u].name], n)]
     IN  \E x \in FirstFree(at, {o.slug : o \in {p \in orgs : p.active}}) :
           wish' = [wish EXCEPT ![u].slug = x]
  /\ Proceeds(u, "schema")
  /\ UNCHANGED <<orgs, pending, leavingVars, tenantGhosts>>

GenerateUniqueSlug(u) ==
  /\ founding[u] = "slug"
  /\ LET at == [n \in 0 .. MaxNumber |-> SlugAt(BaseOf[wish[u].name], n)]
     IN  \E x \in FirstFree(at, {o.slug : o \in orgs}) :
           wish' = [wish EXCEPT ![u].slug = x]
  /\ Proceeds(u, "schema")
  /\ UNCHANGED <<orgs, pending, leavingVars, tenantGhosts>>

GenerateSchemaName(u) ==
  /\ founding[u] = "schema"
  /\ LET at == [n \in 0 .. MaxNumber |-> SchemaAt(wish[u].slug, n)]
     IN  \E x \in FirstFree(at, {o.schema : o \in orgs}) :
           wish' = [wish EXCEPT ![u].schema = x]
  /\ Proceeds(u, "insert")
  /\ UNCHANGED <<orgs, pending, leavingVars, tenantGhosts>>

Clashes(rows, w) == \E o \in rows : o.slug = w.slug \/ o.schema = w.schema

NewOrg(w) == [name |-> w.name, slug |-> w.slug, schema |-> w.schema,
              active |-> TRUE, owner |-> {}]

\* Mutant: the row is committed at once.
InsertOrgAtOnce(u) ==
  /\ founding[u] = "insert"
  /\ ~ Clashes(orgs, wish[u])
  /\ orgs' = orgs \union {NewOrg(wish[u])}
  /\ pending' = [pending EXCEPT ![u] = {NewOrg(wish[u])}]
  /\ Proceeds(u, "commit")
  /\ UNCHANGED <<wish, leavingVars, tenantGhosts>>

\* The row, unique by slug and schema, and the schema itself.  A row that
\* clashes with one not committed yet waits for that transaction to end; one
\* that clashes with a committed row is refused, and nothing handles the error.
InsertOrg(u) ==
  /\ founding[u] = "insert"
  /\ \A v \in Founders \ {u} : ~ Clashes(pending[v], wish[u])
  /\ IF Clashes(orgs, wish[u])
     THEN /\ lost' = lost \union {u}
          /\ Answers(u)
     ELSE /\ pending' = [pending EXCEPT ![u] = {NewOrg(wish[u])}]
          /\ Proceeds(u, "commit")
          /\ UNCHANGED <<wish, lost>>
  /\ UNCHANGED <<orgs, leavingVars, crowded, twins, orphans, petitions, kills>>

\* The domain, the owner's membership and the commit, where the foreign key to
\* the user is checked.
CommitOrg(u) ==
  /\ founding[u] = "commit"
  /\ IF u \in gone
     THEN UNCHANGED <<orgs, orphans>>
     ELSE /\ orgs' = (orgs \ pending[u])
                       \union {[o EXCEPT !.owner = {u}] : o \in pending[u]}
          /\ orphans' = IF leaving[u] = "no" THEN orphans
                        ELSE orphans \union {wish[u].slug}
  /\ Answers(u)
  /\ UNCHANGED <<leavingVars, lost, crowded, twins, petitions, kills>>

\* The worker is killed: the transaction is rolled back.
KillFounding(u) ==
  /\ founding[u] # "ready"
  /\ kills < MaxKills
  /\ kills' = kills + 1
  /\ Answers(u)
  /\ UNCHANGED <<orgs, leavingVars, lost, crowded, twins, orphans, petitions>>

-----------------------------------------------------------------------------
(* The deletion of an account, as far as organizations are concerned *)

OwnedBy(u) == {o \in orgs : o.owner = {u}}

\* The memberships with role OWNER are read.
DeleteAccountOf(u) ==
  /\ u \notin gone
  /\ leaving[u] = "no"
  /\ petitions < MaxPetitions
  /\ petitions' = petitions + 1
  /\ leaving' = [leaving EXCEPT ![u] = "close"]
  /\ owned' = [owned EXCEPT ![u] = {o.slug : o \in OwnedBy(u)}]
  /\ UNCHANGED <<orgs, foundingVars, gone, lost, crowded, twins, orphans, kills>>

\* Each of their organizations is saved with is_active false.
CloseOrg(u) ==
  /\ leaving[u] = "close"
  /\ \E s \in owned[u] :
       /\ orgs' = {IF o.slug = s THEN [o EXCEPT !.active = FALSE] ELSE o : o \in orgs}
       /\ owned' = [owned EXCEPT ![u] = @ \ {s}]
  /\ UNCHANGED <<foundingVars, leaving, gone, tenantGhosts>>

\* The user's memberships are deleted.
DropMemberships(u) ==
  /\ leaving[u] = "close"
  /\ owned[u] = {}
  /\ orgs' = {IF o.owner = {u} THEN [o EXCEPT !.owner = {}] ELSE o : o \in orgs}
  /\ leaving' = [leaving EXCEPT ![u] = "drop"]
  /\ UNCHANGED <<foundingVars, owned, gone, tenantGhosts>>

\* The row of the user, refused while a membership points to it.
DropFounder(u) ==
  /\ leaving[u] = "drop"
  /\ gone' = IF OwnedBy(u) = {} THEN gone \union {u} ELSE gone
  /\ leaving' = [leaving EXCEPT ![u] = "no"]
  /\ UNCHANGED <<orgs, foundingVars, owned, tenantGhosts>>

KillLeaving(u) ==
  /\ leaving[u] # "no"
  /\ kills < MaxKills
  /\ kills' = kills + 1
  /\ leaving' = [leaving EXCEPT ![u] = "no"]
  /\ owned' = [owned EXCEPT ![u] = {}]
  /\ UNCHANGED <<orgs, foundingVars, gone, lost, crowded, twins, orphans, petitions>>

-----------------------------------------------------------------------------
(* Specification *)

Found(u) ==
  \/ Recheck(u)
  \/ GenerateUniqueSlug(u) \/ GenerateSchemaName(u)
  \/ InsertOrg(u) \/ CommitOrg(u)

Leave(u) == CloseOrg(u) \/ DropMemberships(u) \/ DropFounder(u)

TenantsNext ==
  \E u \in Founders :
    \/ \E n \in Names : CheckOrCreate(u, n)
    \/ Found(u) \/ KillFounding(u)
    \/ DeleteAccountOf(u) \/ Leave(u) \/ KillLeaving(u)

TenantsSpec == TenantsInit /\ [][TenantsNext]_tenantVars

-----------------------------------------------------------------------------
(* Properties *)

TenantsTypeOK ==
  /\ PublicOrg \in orgs
  /\ \A o \in orgs :
       /\ o.active \in BOOLEAN
       /\ o.owner = {} \/ \E u \in Founders : o.owner = {u}
  /\ founding \in [Founders -> {"ready", "recheck", "slug", "schema", "insert",
                                "commit"}]
  /\ leaving \in [Founders -> {"no", "close", "drop"}]
  /\ gone \union lost \union crowded \subseteq Founders
  /\ petitions \in 0 .. MaxPetitions /\ kills \in 0 .. MaxKills

(* Two active organizations have different names, upper and lower case       *)
(* alike, unless two requests founded the name at once: the name is checked  *)
(* twice, but no constraint makes it unique (check_organization_exists).     *)
OneActiveName ==
  \A o, p \in orgs :
    /\ o.active /\ p.active /\ o # p
    /\ KeyOf[o.name] = KeyOf[p.name]
    => KeyOf[o.name] \in twins

(* An active organization has an owner, whatever fails on the way in or out, *)
(* unless it was founded while the account of its founder was being deleted  *)
(* (create_organization_with_owner, DeleteAccountView.delete).               *)
ActiveOrgHasOwner ==
  \A o \in orgs :
    o.active /\ o.slug # PublicOrg.slug => o.owner # {} \/ o.slug \in orphans

(* A unique column refuses only founders whose transaction overlapped        *)
(* another's: the name of a closed organization can be used again, and gets  *)
(* a slug and a schema of its own (generate_unique_slug).                    *)
LostToARivalOnly == lost \subseteq crowded

=============================================================================
