---------------------------- MODULE TenantsProofs ----------------------------
(***************************************************************************)
(* Organizations, for any number of founders, names and requests: what the *)
(* transactions at READ COMMITTED and the statements of a deletion leave   *)
(* behind, whichever of them are cut short.                                *)
(***************************************************************************)
EXTENDS Tenants, TLAPS

USE TenantsAssumption

\* Rows and wishes are records.
RecordsOK ==
  /\ \A o \in orgs : o = [name |-> o.name, slug |-> o.slug, schema |-> o.schema,
                          active |-> o.active, owner |-> o.owner]
  /\ wish = [u \in Founders |-> wish[u]]
  /\ \A u \in Founders : wish[u] = [name |-> wish[u].name, slug |-> wish[u].slug,
                                    schema |-> wish[u].schema]
  /\ owned = [u \in Founders |-> owned[u]]
  /\ pending = [u \in Founders |->
                  IF founding[u] = "commit" THEN {NewOrg(wish[u])} ELSE {}]

\* The public organization keeps its slug to itself.
PublicOK ==
  /\ \A o \in orgs : o.slug = PublicOrg.slug => o = PublicOrg
  /\ \A u \in Founders : founding[u] = "commit" => wish[u].slug # PublicOrg.slug
  /\ \A u \in Founders : PublicOrg.slug \notin owned[u]

\* Who founds a name that is taken, or with somebody else, is a twin.
NamesOK ==
  /\ OneActiveName
  /\ \A u \in Founders, o \in orgs :
       founding[u] # "ready" /\ o.active /\ KeyOf[o.name] = KeyOf[wish[u].name]
         => KeyOf[o.name] \in twins
  /\ \A u, v \in Founders :
       /\ u # v /\ founding[u] # "ready" /\ founding[v] # "ready"
       /\ KeyOf[wish[u].name] = KeyOf[wish[v].name]
       => KeyOf[wish[u].name] \in twins

\* What is owned by a user who leaves is about to be closed.
OwnersOK ==
  /\ ActiveOrgHasOwner
  /\ \A u \in Founders : leaving[u] = "close" =>
       \A o \in orgs : o.active /\ o.owner = {u} => o.slug \in owned[u] \union orphans

\* A founder alone in a transaction chose what is free, and it stays free.
SlotsOK ==
  /\ LostToARivalOnly
  /\ \A u, v \in InTransaction : u # v => u \in crowded /\ v \in crowded
  /\ \A u \in Founders \ crowded :
       /\ founding[u] \in {"schema", "insert"} => \A o \in orgs : o.slug # wish[u].slug
       /\ founding[u] = "insert" => \A o \in orgs : o.schema # wish[u].schema

TenInv ==
  /\ TenantsTypeOK /\ RecordsOK /\ PublicOK
  /\ NamesOK /\ OwnersOK /\ SlotsOK

-----------------------------------------------------------------------------
(* What a statement does to its founder *)

FoundingSteps == {"ready", "recheck", "slug", "schema", "insert", "commit"}

OtherFounders(u) == \A v \in Founders \ {u} : founding'[v] = founding[v] /\ wish'[v] = wish[v]

\* The parts of the type that the founding of an organization may touch.
FoundingTyped ==
  /\ founding \in [Founders -> FoundingSteps]
  /\ wish = [u \in Founders |-> wish[u]]
  /\ \A u \in Founders : wish[u] = [name |-> wish[u].name, slug |-> wish[u].slug,
                                    schema |-> wish[u].schema]
  /\ pending = [u \in Founders |->
                  IF founding[u] = "commit" THEN {NewOrg(wish[u])} ELSE {}]

LEMMA Typed == ASSUME TenInv PROVE FoundingTyped
BY DEF TenInv, TenantsTypeOK, RecordsOK, FoundingTyped, FoundingSteps

LEMMA AnswersEffect ==
  ASSUME TenInv, NEW u \in Founders, Answers(u)
  PROVE  /\ founding'[u] = "ready" /\ OtherFounders(u) /\ FoundingTyped'
<1>1. FoundingTyped
  BY Typed
<1>2. /\ founding' = [founding EXCEPT ![u] = "ready"]
      /\ wish' = [wish EXCEPT ![u] = NoWish]
      /\ pending' = [pending EXCEPT ![u] = {}]
  BY DEF Answers
<1>3. founding' \in [Founders -> FoundingSteps] /\ founding'[u] = "ready"
  BY <1>1, <1>2 DEF FoundingTyped, FoundingSteps
<1>4. wish'[u] = NoWish /\ wish' = [v \in Founders |-> wish'[v]]
  BY <1>1, <1>2 DEF FoundingTyped
<1>5. OtherFounders(u)
  BY <1>1, <1>2 DEF FoundingTyped, OtherFounders
<1>6. \A v \in Founders : wish'[v] = [name |-> wish'[v].name, slug |-> wish'[v].slug,
                                      schema |-> wish'[v].schema]
  BY <1>1, <1>4, <1>5 DEF FoundingTyped, OtherFounders, NoWish
<1>7. pending' = [v \in Founders |->
                    IF founding'[v] = "commit" THEN {NewOrg(wish'[v])} ELSE {}]
  BY <1>1, <1>2, <1>3, <1>5 DEF FoundingTyped, OtherFounders
<1> QED
  BY <1>3, <1>4, <1>5, <1>6, <1>7 DEF FoundingTyped

\* The founder goes on with wish w, nothing being pending before or after.
LEMMA GoesOn ==
  ASSUME TenInv, NEW u \in Founders, NEW s \in FoundingSteps \ {"commit"}, NEW w,
         founding[u] # "commit",
         w = [name |-> w.name, slug |-> w.slug, schema |-> w.schema],
         Proceeds(u, s), wish' = [wish EXCEPT ![u] = w], UNCHANGED pending
  PROVE  founding'[u] = s /\ wish'[u] = w /\ OtherFounders(u) /\ FoundingTyped'
<1>1. FoundingTyped
  BY Typed
<1>2. founding' \in [Founders -> FoundingSteps] /\ founding'[u] = s
  BY <1>1 DEF FoundingTyped, Proceeds
<1>3. wish'[u] = w /\ wish' = [v \in Founders |-> wish'[v]]
  BY <1>1 DEF FoundingTyped
<1>4. OtherFounders(u)
  BY <1>1 DEF FoundingTyped, OtherFounders, Proceeds
<1>5. \A v \in Founders : wish'[v] = [name |-> wish'[v].name, slug |-> wish'[v].slug,
                                      schema |-> wish'[v].schema]
  BY <1>1, <1>3, <1>4 DEF FoundingTyped, OtherFounders
<1>6. pending' = [v \in Founders |->
                    IF founding'[v] = "commit" THEN {NewOrg(wish'[v])} ELSE {}]
  BY <1>1, <1>2, <1>4 DEF FoundingTyped, OtherFounders
<1> QED
  BY <1>2, <1>3, <1>4, <1>5, <1>6 DEF FoundingTyped

\* One field of the wish is chosen.
LEMMA WishParts ==
  ASSUME TenInv, NEW u \in Founders, NEW x
  PROVE  /\ [wish EXCEPT ![u].name = x]
              = [wish EXCEPT ![u] = [name |-> x, slug |-> wish[u].slug,
                                     schema |-> wish[u].schema]]
         /\ [wish EXCEPT ![u].slug = x]
              = [wish EXCEPT ![u] = [name |-> wish[u].name, slug |-> x,
                                     schema |-> wish[u].schema]]
         /\ [wish EXCEPT ![u].schema = x]
              = [wish EXCEPT ![u] = [name |-> wish[u].name, slug |-> wish[u].slug,
                                     schema |-> x]]
<1>1. PICK w : w = wish[u]
  OBVIOUS
<1>2. w = [name |-> w.name, slug |-> w.slug, schema |-> w.schema]
  BY <1>1, Typed DEF FoundingTyped
<1>3. /\ [w EXCEPT !.name = x] = [name |-> x, slug |-> w.slug, schema |-> w.schema]
      /\ [w EXCEPT !.slug = x] = [name |-> w.name, slug |-> x, schema |-> w.schema]
      /\ [w EXCEPT !.schema = x] = [name |-> w.name, slug |-> w.slug, schema |-> x]
  BY <1>2
<1> QED
  BY <1>1, <1>3

-----------------------------------------------------------------------------
(* The parts of the invariant that a step is no business of *)

LEMMA FormKept ==
  ASSUME TenInv, FoundingTyped', UNCHANGED <<orgs, leaving, owned, gone>>,
         lost' \subseteq Founders, crowded' \subseteq Founders,
         petitions' \in 0 .. MaxPetitions, kills' \in 0 .. MaxKills
  PROVE  TenantsTypeOK' /\ RecordsOK'
BY DEF TenInv, TenantsTypeOK, RecordsOK, FoundingTyped, FoundingSteps

LEMMA PublicQuiet ==
  ASSUME TenInv, UNCHANGED <<orgs, owned>>,
         \A u \in Founders : founding'[u] = "commit" =>
                               founding[u] = "commit" /\ wish'[u] = wish[u]
  PROVE  PublicOK'
BY DEF TenInv, PublicOK

LEMMA NamesQuiet ==
  ASSUME TenInv, UNCHANGED <<orgs, twins>>,
         \A u \in Founders : founding'[u] # "ready" =>
                               founding[u] # "ready" /\ wish'[u].name = wish[u].name
  PROVE  NamesOK'
BY DEF TenInv, NamesOK, OneActiveName

LEMMA OwnersQuiet ==
  ASSUME TenInv, UNCHANGED <<orgs, orphans>>,
         \A u \in Founders : leaving'[u] = "close" =>
                               leaving[u] = "close" /\ owned'[u] = owned[u]
  PROVE  OwnersOK'
BY DEF TenInv, OwnersOK, ActiveOrgHasOwner

\* No slug or schema is taken that was free, and nobody begins.
LEMMA SlotsQuiet ==
  ASSUME TenInv, UNCHANGED <<lost, crowded>>,
         \A o \in orgs' : \E p \in orgs : p.slug = o.slug /\ p.schema = o.schema,
         \A u \in Founders : founding'[u] \notin {"ready", "recheck"} =>
                               founding'[u] = founding[u] /\ wish'[u] = wish[u]
  PROVE  SlotsOK'
<1>1. \A u \in InTransaction' : u \in InTransaction
  BY DEF InTransaction
<1> QED
  BY <1>1 DEF TenInv, SlotsOK, LostToARivalOnly

-----------------------------------------------------------------------------
(* One lemma per action *)

LEMMA TenInvInit == TenantsInit => TenInv
<1> SUFFICES ASSUME TenantsInit PROVE TenInv
  OBVIOUS
<1>1. TenantsTypeOK
  <2>1. PublicOrg.active = TRUE /\ PublicOrg.owner = {}
    BY TenantsAssumption
  <2>2. \A o \in orgs : o.active \in BOOLEAN /\ o.owner = {}
    BY <2>1 DEF TenantsInit
  <2>3. /\ founding \in [Founders -> {"ready", "recheck", "slug", "schema", "insert",
                                    "commit"}]
        /\ leaving \in [Founders -> {"no", "close", "drop"}]
    BY DEF TenantsInit
  <2> QED
    BY <2>2, <2>3 DEF TenantsInit, TenantsTypeOK
<1>2. RecordsOK /\ PublicOK
  BY DEF TenantsInit, RecordsOK, PublicOK, NoWish
<1>3. NamesOK /\ OwnersOK
  BY DEF TenantsInit, NamesOK, OneActiveName, OwnersOK, ActiveOrgHasOwner
<1>4. SlotsOK
  BY DEF TenantsInit, SlotsOK, LostToARivalOnly, InTransaction
<1> QED
  BY <1>1, <1>2, <1>3, <1>4 DEF TenInv

LEMMA CheckOrCreateKeeps ==
  ASSUME TenInv, NEW u \in Founders, NEW n \in Names, CheckOrCreate(u, n)
  PROVE  TenInv'
<1> DEFINE w == [name |-> n, slug |-> wish[u].slug, schema |-> wish[u].schema]
<1>1. /\ founding[u] = "ready" /\ CheckOrganizationExists(n) = {}
      /\ Proceeds(u, "recheck")
      /\ wish' = [wish EXCEPT ![u].name = n]
      /\ lost' = lost \ {u} /\ crowded' = crowded \ {u}
      /\ petitions < MaxPetitions /\ petitions' = petitions + 1
      /\ UNCHANGED <<orgs, pending, leavingVars, orphans, kills>>
  BY DEF CheckOrCreate
<1>2. wish' = [wish EXCEPT ![u] = w]
  BY <1>1, WishParts
<1>3. w = [name |-> w.name, slug |-> w.slug, schema |-> w.schema] /\ w.name = n
  OBVIOUS
<1> HIDE DEF w
<1>4. founding'[u] = "recheck" /\ wish'[u] = w /\ OtherFounders(u) /\ FoundingTyped'
  BY <1>1, <1>2, <1>3, GoesOn DEF FoundingSteps
<1>5. TenantsTypeOK' /\ RecordsOK'
  BY <1>1, <1>4, FormKept DEF leavingVars, TenInv, TenantsTypeOK
<1>6. PublicOK'
  BY <1>1, <1>4, PublicQuiet DEF OtherFounders, leavingVars
<1>7. NamesOK'
  <2>1. /\ twins \subseteq twins'
        /\ \A v \in Founders : founding[v] # "ready" /\ KeyOf[wish[v].name] = KeyOf[n]
                                 => KeyOf[n] \in twins'
    BY DEF CheckOrCreate
  <2>2. \A o \in orgs : o.active => KeyOf[o.name] # KeyOf[n]
    BY <1>1 DEF CheckOrganizationExists
  <2>3. OneActiveName'
    BY <1>1, <2>1 DEF TenInv, NamesOK, OneActiveName
  <2>4. ASSUME NEW v \in Founders, NEW o \in orgs,
               founding'[v] # "ready", o.active, KeyOf[o.name] = KeyOf[wish'[v].name]
        PROVE  KeyOf[o.name] \in twins'
    BY <1>3, <1>4, <2>1, <2>2, <2>4 DEF TenInv, NamesOK, OtherFounders
  <2>5. ASSUME NEW v \in Founders, NEW x \in Founders, v # x,
               founding'[v] # "ready", founding'[x] # "ready",
               KeyOf[wish'[v].name] = KeyOf[wish'[x].name]
        PROVE  KeyOf[wish'[v].name] \in twins'
    <3>1. CASE v = u
      BY <1>3, <1>4, <2>1, <2>5, <3>1 DEF OtherFounders
    <3>2. CASE x = u
      BY <1>3, <1>4, <2>1, <2>5, <3>2 DEF OtherFounders
    <3>3. CASE v # u /\ x # u
      BY <1>4, <2>1, <2>5, <3>3 DEF TenInv, NamesOK, OtherFounders
    <3> QED
      BY <3>1, <3>2, <3>3
  <2> QED
    BY <1>1, <2>3, <2>4, <2>5 DEF NamesOK
<1>8. OwnersOK'
  BY <1>1, OwnersQuiet DEF leavingVars
<1>9. SlotsOK'
  <2>1. u \notin InTransaction' /\ \A v \in InTransaction' : v \in InTransaction /\ v # u
    BY <1>4 DEF InTransaction, OtherFounders
  <2>2. \A v \in Founders \ crowded' : founding'[v] \in {"schema", "insert"} =>
          v \notin crowded /\ founding'[v] = founding[v] /\ wish'[v] = wish[v]
    BY <1>1, <1>4 DEF OtherFounders
  <2> QED
    BY <1>1, <2>1, <2>2 DEF TenInv, SlotsOK, LostToARivalOnly
<1> QED
  BY <1>5, <1>6, <1>7, <1>8, <1>9 DEF TenInv

LEMMA RecheckKeeps ==
  ASSUME TenInv, NEW u \in Founders, Recheck(u)
  PROVE  TenInv'
<1>1. /\ founding[u] = "recheck"
      /\ UNCHANGED <<orgs, leavingVars, lost, twins, orphans, petitions, kills>>
  BY DEF Recheck
<1>2. OwnersOK'
  BY <1>1, OwnersQuiet DEF leavingVars
<1>3. CASE CheckOrganizationExists(wish[u].name) = {}
  <2>1. /\ Proceeds(u, "slug") /\ UNCHANGED <<pending, wish>>
        /\ crowded' = IF InTransaction = {} THEN crowded
                      ELSE crowded \union InTransaction \union {u}
    BY <1>3 DEF Recheck
  <2>2. wish' = [wish EXCEPT ![u] = wish[u]]
    BY <2>1, Typed DEF FoundingTyped
  <2>3. founding'[u] = "slug" /\ wish'[u] = wish[u] /\ OtherFounders(u) /\ FoundingTyped'
    <3>1. PICK w : w = wish[u]
      OBVIOUS
    <3>2. w = [name |-> w.name, slug |-> w.slug, schema |-> w.schema]
      BY <3>1, Typed DEF FoundingTyped
    <3> QED
      BY <1>1, <2>1, <2>2, <3>1, <3>2, GoesOn DEF FoundingSteps
  <2>4. TenantsTypeOK' /\ RecordsOK'
    BY <1>1, <2>1, <2>3, FormKept DEF leavingVars, TenInv, TenantsTypeOK, InTransaction
  <2>5. PublicOK' /\ NamesOK'
    BY <1>1, <2>3, PublicQuiet, NamesQuiet DEF OtherFounders, leavingVars
  <2>6. SlotsOK'
    <3>1. InTransaction' = InTransaction \union {u} /\ u \notin InTransaction
      BY <1>1, <2>3 DEF InTransaction, OtherFounders
    <3>2. \A v, x \in InTransaction' : v # x => v \in crowded' /\ x \in crowded'
      BY <2>1, <3>1 DEF TenInv, SlotsOK
    <3>3. \A v \in Founders \ crowded' : founding'[v] \in {"schema", "insert"} =>
            v \notin crowded /\ founding'[v] = founding[v] /\ wish'[v] = wish[v]
      BY <2>1, <2>3 DEF OtherFounders
    <3>4. lost' \subseteq crowded'
      BY <1>1, <2>1 DEF TenInv, SlotsOK, LostToARivalOnly
    <3> QED
      BY <1>1, <3>2, <3>3, <3>4 DEF TenInv, SlotsOK, LostToARivalOnly
  <2> QED
    BY <1>2, <2>4, <2>5, <2>6 DEF TenInv
<1>4. CASE CheckOrganizationExists(wish[u].name) # {}
  <2>1. Answers(u) /\ UNCHANGED crowded
    BY <1>4 DEF Recheck
  <2>2. founding'[u] = "ready" /\ OtherFounders(u) /\ FoundingTyped'
    BY <2>1, AnswersEffect
  <2>3. TenantsTypeOK' /\ RecordsOK'
    BY <1>1, <2>1, <2>2, FormKept DEF leavingVars, TenInv, TenantsTypeOK
  <2>4. PublicOK' /\ NamesOK' /\ SlotsOK'
    BY <1>1, <2>1, <2>2, PublicQuiet, NamesQuiet, SlotsQuiet DEF OtherFounders, leavingVars
  <2> QED
    BY <1>2, <2>3, <2>4 DEF TenInv
<1> QED
  BY <1>3, <1>4

\* What is found free is not taken.
LEMMA FreeIsNotTaken ==
  ASSUME NEW at, NEW taken, NEW x \in FirstFree(at, taken)
  PROVE  x \notin taken
BY DEF FirstFree

LEMMA SlugKeeps ==
  ASSUME TenInv, NEW u \in Founders, GenerateUniqueSlug(u)
  PROVE  TenInv'
<1> DEFINE at == [n \in 0 .. MaxNumber |-> SlugAt(BaseOf[wish[u].name], n)]
<1>0. PICK x \in FirstFree(at, {o.slug : o \in orgs}) :
        wish' = [wish EXCEPT ![u].slug = x]
  BY DEF GenerateUniqueSlug
<1>1. /\ \A o \in orgs : o.slug # x
      /\ wish' = [wish EXCEPT ![u].slug = x]
  <2> HIDE DEF at
  <2>1. x \notin {o.slug : o \in orgs}
    BY <1>0, FreeIsNotTaken
  <2> QED
    BY <1>0, <2>1
<1>2. /\ founding[u] = "slug" /\ Proceeds(u, "schema")
      /\ UNCHANGED <<orgs, pending, leavingVars, tenantGhosts>>
  BY DEF GenerateUniqueSlug
<1>3. PICK w : w = [name |-> wish[u].name, slug |-> x, schema |-> wish[u].schema]
  OBVIOUS
<1>4. /\ w = [name |-> w.name, slug |-> w.slug, schema |-> w.schema]
      /\ w.name = wish[u].name /\ w.slug = x /\ wish' = [wish EXCEPT ![u] = w]
  BY <1>1, <1>3, WishParts
<1>5. founding'[u] = "schema" /\ wish'[u] = w /\ OtherFounders(u) /\ FoundingTyped'
  BY <1>2, <1>4, GoesOn DEF FoundingSteps
<1>6. TenantsTypeOK' /\ RecordsOK'
  BY <1>2, <1>5, FormKept DEF leavingVars, tenantGhosts, TenInv, TenantsTypeOK
<1>7. PublicOK' /\ NamesOK' /\ OwnersOK'
  BY <1>2, <1>4, <1>5, PublicQuiet, NamesQuiet, OwnersQuiet
     DEF OtherFounders, leavingVars, tenantGhosts
<1>8. SlotsOK'
  <2>1. InTransaction' = InTransaction
    BY <1>2, <1>5 DEF InTransaction, OtherFounders
  <2>2. UNCHANGED <<orgs, lost, crowded>>
    BY <1>2 DEF tenantGhosts
  <2>3. \A o \in orgs : o.slug # wish'[u].slug
    BY <1>1, <1>4, <1>5
  <2> QED
    BY <1>5, <2>1, <2>2, <2>3 DEF TenInv, SlotsOK, LostToARivalOnly, OtherFounders
<1> QED
  BY <1>6, <1>7, <1>8 DEF TenInv

LEMMA SchemaKeeps ==
  ASSUME TenInv, NEW u \in Founders, GenerateSchemaName(u)
  PROVE  TenInv'
<1> DEFINE at == [n \in 0 .. MaxNumber |-> SchemaAt(wish[u].slug, n)]
<1>0. PICK x \in FirstFree(at, {o.schema : o \in orgs}) :
        wish' = [wish EXCEPT ![u].schema = x]
  BY DEF GenerateSchemaName
<1>1. /\ \A o \in orgs : o.schema # x
      /\ wish' = [wish EXCEPT ![u].schema = x]
  <2> HIDE DEF at
  <2>1. x \notin {o.schema : o \in orgs}
    BY <1>0, FreeIsNotTaken
  <2> QED
    BY <1>0, <2>1
<1>2. /\ founding[u] = "schema" /\ Proceeds(u, "insert")
      /\ UNCHANGED <<orgs, pending, leavingVars, tenantGhosts>>
  BY DEF GenerateSchemaName
<1>3. PICK w : w = [name |-> wish[u].name, slug |-> wish[u].slug, schema |-> x]
  OBVIOUS
<1>4. /\ w = [name |-> w.name, slug |-> w.slug, schema |-> w.schema]
      /\ w.name = wish[u].name /\ w.slug = wish[u].slug /\ w.schema = x
      /\ wish' = [wish EXCEPT ![u] = w]
  BY <1>1, <1>3, WishParts
<1>5. founding'[u] = "insert" /\ wish'[u] = w /\ OtherFounders(u) /\ FoundingTyped'
  BY <1>2, <1>4, GoesOn DEF FoundingSteps
<1>6. TenantsTypeOK' /\ RecordsOK'
  BY <1>2, <1>5, FormKept DEF leavingVars, tenantGhosts, TenInv, TenantsTypeOK
<1>7. PublicOK' /\ NamesOK' /\ OwnersOK'
  BY <1>2, <1>4, <1>5, PublicQuiet, NamesQuiet, OwnersQuiet
     DEF OtherFounders, leavingVars, tenantGhosts
<1>8. SlotsOK'
  <2>1. InTransaction' = InTransaction
    BY <1>2, <1>5 DEF InTransaction, OtherFounders
  <2>2. UNCHANGED <<orgs, lost, crowded>>
    BY <1>2 DEF tenantGhosts
  <2>3. /\ \A o \in orgs : o.schema # wish'[u].schema
        /\ wish'[u].slug = wish[u].slug
    BY <1>1, <1>4, <1>5
  <2> QED
    BY <1>2, <1>5, <2>1, <2>2, <2>3 DEF TenInv, SlotsOK, LostToARivalOnly, OtherFounders
<1> QED
  BY <1>6, <1>7, <1>8 DEF TenInv

LEMMA InsertKeeps ==
  ASSUME TenInv, NEW u \in Founders, InsertOrg(u)
  PROVE  TenInv'
<1>1. /\ founding[u] = "insert"
      /\ UNCHANGED <<orgs, leavingVars, crowded, twins, orphans, petitions, kills>>
  BY DEF InsertOrg
<1>2. OwnersOK'
  BY <1>1, OwnersQuiet DEF leavingVars
<1>3. CASE Clashes(orgs, wish[u])
  <2>1. lost' = lost \union {u} /\ Answers(u)
    BY <1>3 DEF InsertOrg
  <2>2. founding'[u] = "ready" /\ OtherFounders(u) /\ FoundingTyped'
    BY <2>1, AnswersEffect
  <2>3. TenantsTypeOK' /\ RecordsOK'
    BY <1>1, <2>1, <2>2, FormKept DEF leavingVars, TenInv, TenantsTypeOK
  <2>4. PublicOK' /\ NamesOK'
    BY <1>1, <2>2, PublicQuiet, NamesQuiet DEF OtherFounders, leavingVars
  <2>5. SlotsOK'
    <3>1. u \in crowded
      BY <1>1, <1>3 DEF Clashes, TenInv, SlotsOK
    <3>2. InTransaction' \subseteq InTransaction
      BY <2>2 DEF InTransaction, OtherFounders
    <3> QED
      BY <1>1, <2>1, <2>2, <3>1, <3>2 DEF TenInv, SlotsOK, LostToARivalOnly, OtherFounders
  <2> QED
    BY <1>2, <2>3, <2>4, <2>5 DEF TenInv
<1>4. CASE ~ Clashes(orgs, wish[u])
  <2>1. /\ pending' = [pending EXCEPT ![u] = {NewOrg(wish[u])}]
        /\ Proceeds(u, "commit") /\ UNCHANGED <<wish, lost>>
    BY <1>4 DEF InsertOrg
  <2>2. FoundingTyped
    BY Typed
  <2>3. /\ founding' \in [Founders -> FoundingSteps] /\ founding'[u] = "commit"
        /\ \A v \in Founders \ {u} : founding'[v] = founding[v]
    BY <2>1, <2>2 DEF FoundingTyped, FoundingSteps, Proceeds
  <2>4. pending' = [v \in Founders |->
                      IF founding'[v] = "commit" THEN {NewOrg(wish[v])} ELSE {}]
    BY <2>1, <2>2, <2>3 DEF FoundingTyped
  <2>5. FoundingTyped' /\ OtherFounders(u)
    BY <2>1, <2>2, <2>3, <2>4 DEF FoundingTyped, OtherFounders, NewOrg
  <2>6. TenantsTypeOK' /\ RecordsOK'
    BY <1>1, <2>1, <2>5, FormKept DEF leavingVars, TenInv, TenantsTypeOK
  <2>7. PublicOK'
    <3>1. wish[u].slug # PublicOrg.slug
      BY <1>4 DEF Clashes, TenInv, TenantsTypeOK
    <3> QED
      BY <1>1, <2>1, <2>3, <3>1 DEF TenInv, PublicOK, leavingVars
  <2>8. NamesOK'
    BY <1>1, <2>1, <2>3, NamesQuiet
  <2>9. SlotsOK'
    <3>1. InTransaction' = InTransaction
      BY <1>1, <2>3 DEF InTransaction
    <3> QED
      BY <1>1, <2>1, <2>3, <3>1 DEF TenInv, SlotsOK, LostToARivalOnly
  <2> QED
    BY <1>2, <2>6, <2>7, <2>8, <2>9 DEF TenInv
<1> QED
  BY <1>3, <1>4

LEMMA CommitKeeps ==
  ASSUME TenInv, NEW u \in Founders, CommitOrg(u)
  PROVE  TenInv'
<1>1. /\ founding[u] = "commit" /\ Answers(u)
      /\ UNCHANGED <<leavingVars, lost, crowded, twins, petitions, kills>>
  BY DEF CommitOrg
<1>2. founding'[u] = "ready" /\ OtherFounders(u) /\ FoundingTyped'
  BY <1>1, AnswersEffect
<1>3. CASE u \in gone
  <2>1. UNCHANGED <<orgs, orphans>>
    BY <1>3 DEF CommitOrg
  <2>2. TenantsTypeOK' /\ RecordsOK'
    BY <1>1, <1>2, <2>1, FormKept DEF leavingVars, TenInv, TenantsTypeOK
  <2>3. PublicOK' /\ NamesOK' /\ OwnersOK' /\ SlotsOK'
    BY <1>1, <1>2, <2>1, PublicQuiet, NamesQuiet, OwnersQuiet, SlotsQuiet
       DEF OtherFounders, leavingVars
  <2> QED
    BY <2>2, <2>3 DEF TenInv
<1>4. CASE u \notin gone
  <2>1. PICK r : r = [name |-> wish[u].name, slug |-> wish[u].slug, schema |-> wish[u].schema,
                      active |-> TRUE, owner |-> {u}]
    OBVIOUS
  <2>2. /\ r = [name |-> r.name, slug |-> r.slug, schema |-> r.schema,
                active |-> r.active, owner |-> r.owner]
        /\ r.name = wish[u].name /\ r.slug = wish[u].slug /\ r.schema = wish[u].schema
        /\ r.active = TRUE /\ r.owner = {u}
    BY <2>1
  <2>3. pending[u] = {NewOrg(wish[u])}
    BY <1>1, Typed DEF FoundingTyped
  <2>4. [NewOrg(wish[u]) EXCEPT !.owner = {u}] = r
    <3>1. PICK m : m = NewOrg(wish[u])
      OBVIOUS
    <3>2. PICK n, l, h, a, b : /\ n = wish[u].name /\ l = wish[u].slug /\ h = wish[u].schema
                               /\ a = TRUE /\ b = {}
      OBVIOUS
    <3>3. [m EXCEPT !.owner = {u}] = r
      <4>1. m = [name |-> n, slug |-> l, schema |-> h, active |-> a, owner |-> b]
        BY <3>1, <3>2 DEF NewOrg
      <4>2. r = [name |-> n, slug |-> l, schema |-> h, active |-> a, owner |-> {u}]
        BY <2>1, <3>2
      <4>3. [m EXCEPT !.owner = {u}]
              = [name |-> n, slug |-> l, schema |-> h, active |-> a, owner |-> {u}]
        BY <4>1
      <4> QED
        BY <4>2, <4>3
    <3> QED
      BY <3>1, <3>3
  <2>5. /\ orgs' \subseteq orgs \union {r} /\ r \in orgs'
        /\ \A o \in orgs : o \in orgs' \/ o = NewOrg(wish[u])
    BY <1>4, <2>3, <2>4 DEF CommitOrg
  <2>6. orphans' = IF leaving[u] = "no" THEN orphans ELSE orphans \union {wish[u].slug}
    BY <1>4 DEF CommitOrg
  <2>7. wish[u].slug # PublicOrg.slug
    BY <1>1 DEF TenInv, PublicOK
  <2>8. PublicOrg \in orgs'
    BY <2>5, <2>7 DEF NewOrg, TenInv, TenantsTypeOK
  <2>9. TenantsTypeOK'
    BY <1>1, <1>2, <2>2, <2>5, <2>8
       DEF leavingVars, TenInv, TenantsTypeOK, FoundingTyped, FoundingSteps
  <2>10. RecordsOK'
    BY <1>1, <1>2, <2>2, <2>5 DEF leavingVars, TenInv, RecordsOK, FoundingTyped
  <2>11. PublicOK'
    BY <1>1, <1>2, <2>2, <2>5, <2>7 DEF leavingVars, TenInv, PublicOK, OtherFounders
  <2>12. NamesOK'
    <3>1. ASSUME NEW o \in orgs, o.active, KeyOf[o.name] = KeyOf[r.name]
          PROVE  KeyOf[r.name] \in twins
      BY <1>1, <2>2, <3>1 DEF TenInv, NamesOK
    <3>2. ASSUME NEW v \in Founders, v # u, founding[v] # "ready",
                 KeyOf[r.name] = KeyOf[wish[v].name]
          PROVE  KeyOf[r.name] \in twins
      BY <1>1, <2>2, <3>2 DEF TenInv, NamesOK
    <3>3. OneActiveName'
      <4>1. ASSUME NEW o \in orgs', NEW p \in orgs', o.active, p.active, o # p,
                   KeyOf[o.name] = KeyOf[p.name]
            PROVE  KeyOf[o.name] \in twins
        <5>1. CASE o \in orgs /\ p \in orgs
          BY <4>1, <5>1 DEF TenInv, NamesOK, OneActiveName
        <5>2. CASE o = r \/ p = r
          BY <2>5, <3>1, <4>1, <5>2
        <5> QED
          BY <2>5, <5>1, <5>2
      <4> QED
        BY <1>1, <4>1 DEF OneActiveName
    <3>4. ASSUME NEW v \in Founders, NEW o \in orgs', founding'[v] # "ready", o.active,
                 KeyOf[o.name] = KeyOf[wish'[v].name]
          PROVE  KeyOf[o.name] \in twins
      <4>1. v # u /\ founding[v] # "ready" /\ wish'[v] = wish[v]
        BY <1>2, <3>4 DEF OtherFounders
      <4>2. CASE o = r
        BY <3>2, <3>4, <4>1, <4>2
      <4>3. CASE o \in orgs
        BY <3>4, <4>1, <4>3 DEF TenInv, NamesOK
      <4> QED
        BY <2>5, <4>2, <4>3
    <3>5. ASSUME NEW v \in Founders, NEW x \in Founders, v # x,
                 founding'[v] # "ready", founding'[x] # "ready",
                 KeyOf[wish'[v].name] = KeyOf[wish'[x].name]
          PROVE  KeyOf[wish'[v].name] \in twins
      BY <1>2, <3>5 DEF OtherFounders, TenInv, NamesOK
    <3> QED
      BY <1>1, <3>3, <3>4, <3>5 DEF NamesOK
  <2>13. OwnersOK'
    <3>1. ActiveOrgHasOwner'
      <4>1. ASSUME NEW o \in orgs', o.active, o.slug # PublicOrg.slug
            PROVE  o.owner # {} \/ o.slug \in orphans'
        BY <2>2, <2>5, <2>6, <4>1 DEF TenInv, OwnersOK, ActiveOrgHasOwner
      <4> QED
        BY <4>1 DEF ActiveOrgHasOwner
    <3>2. ASSUME NEW v \in Founders, leaving[v] = "close",
                 NEW o \in orgs', o.active, o.owner = {v}
          PROVE  o.slug \in owned[v] \union orphans'
      <4>1. CASE o = r
        BY <2>2, <2>6, <3>2, <4>1
      <4>2. CASE o \in orgs
        BY <2>6, <3>2, <4>2 DEF TenInv, OwnersOK
      <4> QED
        BY <2>5, <4>1, <4>2
    <3> QED
      BY <1>1, <3>1, <3>2 DEF OwnersOK, leavingVars
  <2>14. SlotsOK'
    <3>1. u \in InTransaction
      BY <1>1 DEF InTransaction
    <3>2. InTransaction' \subseteq InTransaction \ {u}
      BY <1>2 DEF InTransaction, OtherFounders
    <3>3. \A v \in Founders \ {u} : founding[v] \in {"schema", "insert"} => v \in crowded
      BY <3>1 DEF InTransaction, TenInv, SlotsOK
    <3>4. \A v \in Founders \ crowded' : founding'[v] \notin {"schema", "insert"}
      BY <1>1, <1>2, <3>3 DEF OtherFounders
    <3> QED
      BY <1>1, <3>2, <3>4 DEF TenInv, SlotsOK, LostToARivalOnly
  <2> QED
    BY <2>9, <2>10, <2>11, <2>12, <2>13, <2>14 DEF TenInv
<1> QED
  BY <1>3, <1>4

LEMMA KillFoundingKeeps ==
  ASSUME TenInv, NEW u \in Founders, KillFounding(u)
  PROVE  TenInv'
<1>1. /\ Answers(u) /\ kills < MaxKills /\ kills' = kills + 1
      /\ UNCHANGED <<orgs, leavingVars, lost, crowded, twins, orphans, petitions>>
  BY DEF KillFounding
<1>2. founding'[u] = "ready" /\ OtherFounders(u) /\ FoundingTyped'
  BY <1>1, AnswersEffect
<1>3. TenantsTypeOK' /\ RecordsOK'
  BY <1>1, <1>2, FormKept DEF leavingVars, TenInv, TenantsTypeOK
<1>4. PublicOK' /\ NamesOK' /\ OwnersOK' /\ SlotsOK'
  BY <1>1, <1>2, PublicQuiet, NamesQuiet, OwnersQuiet, SlotsQuiet DEF OtherFounders, leavingVars
<1> QED
  BY <1>3, <1>4 DEF TenInv

\* The part of the type that a deletion may touch, when nobody's founding moves.
LEMMA FormLeft ==
  ASSUME TenInv, UNCHANGED <<pending, founding, wish, lost, crowded>>,
         \A o \in orgs' :
           /\ o = [name |-> o.name, slug |-> o.slug, schema |-> o.schema,
                   active |-> o.active, owner |-> o.owner]
           /\ o.active \in BOOLEAN
           /\ o.owner = {} \/ \E u \in Founders : o.owner = {u},
         PublicOrg \in orgs',
         leaving' \in [Founders -> {"no", "close", "drop"}],
         owned' = [u \in Founders |-> owned'[u]], gone' \subseteq Founders,
         petitions' \in 0 .. MaxPetitions, kills' \in 0 .. MaxKills
  PROVE  TenantsTypeOK' /\ RecordsOK'
BY DEF TenInv, TenantsTypeOK, RecordsOK

LEMMA FormNow ==
  ASSUME TenInv
  PROVE  /\ \A o \in orgs :
              /\ o = [name |-> o.name, slug |-> o.slug, schema |-> o.schema,
                      active |-> o.active, owner |-> o.owner]
              /\ o.active \in BOOLEAN
              /\ o.owner = {} \/ \E u \in Founders : o.owner = {u}
         /\ PublicOrg \in orgs
         /\ leaving \in [Founders -> {"no", "close", "drop"}]
         /\ owned = [u \in Founders |-> owned[u]] /\ gone \subseteq Founders
         /\ petitions \in 0 .. MaxPetitions /\ kills \in 0 .. MaxKills
BY DEF TenInv, TenantsTypeOK, RecordsOK

LEMMA DeleteAccountOfKeeps ==
  ASSUME TenInv, NEW u \in Founders, DeleteAccountOf(u)
  PROVE  TenInv'
<1>1. /\ petitions < MaxPetitions /\ petitions' = petitions + 1
      /\ leaving' = [leaving EXCEPT ![u] = "close"]
      /\ owned' = [owned EXCEPT ![u] = {o.slug : o \in OwnedBy(u)}]
      /\ UNCHANGED <<orgs, foundingVars, gone, lost, crowded, twins, orphans, kills>>
  BY DEF DeleteAccountOf
<1>2. /\ owned'[u] = {o.slug : o \in OwnedBy(u)} /\ owned' = [v \in Founders |-> owned'[v]]
      /\ \A v \in Founders \ {u} : owned'[v] = owned[v] /\ leaving'[v] = leaving[v]
      /\ leaving' \in [Founders -> {"no", "close", "drop"}]
  BY <1>1 DEF TenInv, TenantsTypeOK, RecordsOK
<1>3. TenantsTypeOK' /\ RecordsOK'
  <2>1. UNCHANGED <<orgs, pending, founding, wish, lost, crowded, gone, kills>>
    BY <1>1 DEF foundingVars
  <2>2. petitions' \in 0 .. MaxPetitions
    BY <1>1, FormNow
  <2> QED
    BY <1>2, <2>1, <2>2, FormNow, FormLeft
<1>4. PublicOK'
  <2>1. PublicOrg.owner = {}
    BY TenantsAssumption
  <2>2. PublicOrg.slug \notin owned'[u]
    BY <1>2, <2>1 DEF OwnedBy, TenInv, PublicOK
  <2> QED
    BY <1>1, <1>2, <2>2 DEF foundingVars, TenInv, PublicOK
<1>5. NamesOK' /\ SlotsOK'
  BY <1>1, NamesQuiet, SlotsQuiet DEF foundingVars
<1>6. OwnersOK'
  BY <1>1, <1>2 DEF TenInv, OwnersOK, ActiveOrgHasOwner, OwnedBy
<1> QED
  BY <1>3, <1>4, <1>5, <1>6 DEF TenInv


LEMMA CloseKeeps ==
  ASSUME TenInv, NEW u \in Founders, CloseOrg(u)
  PROVE  TenInv'
<1> DEFINE F(o, s) == IF o.slug = s THEN [o EXCEPT !.active = FALSE] ELSE o
<1>1. PICK s \in owned[u] : /\ orgs' = {F(o, s) : o \in orgs}
                            /\ owned' = [owned EXCEPT ![u] = @ \ {s}]
  BY DEF CloseOrg
<1>2. UNCHANGED <<foundingVars, leaving, gone, tenantGhosts>>
  BY DEF CloseOrg
<1>3. ASSUME NEW o \in orgs
      PROVE  /\ F(o, s) = [name |-> o.name, slug |-> o.slug, schema |-> o.schema,
                           active |-> F(o, s).active, owner |-> o.owner]
             /\ F(o, s).active = (o.active /\ o.slug # s)
  <2>1. PICK n, l, h, a, b : o = [name |-> n, slug |-> l, schema |-> h, active |-> a,
                                  owner |-> b]
    BY DEF TenInv, RecordsOK
  <2>2. o.active \in BOOLEAN
    BY DEF TenInv, TenantsTypeOK
  <2> QED
    BY <2>1, <2>2
<1>4. /\ owned'[u] = owned[u] \ {s} /\ owned' = [v \in Founders |-> owned'[v]]
      /\ \A v \in Founders \ {u} : owned'[v] = owned[v]
  BY <1>1 DEF TenInv, RecordsOK
<1> HIDE DEF F
<1>5. \A o \in orgs : /\ F(o, s).name = o.name /\ F(o, s).slug = o.slug
                      /\ F(o, s).schema = o.schema /\ F(o, s).owner = o.owner
  BY <1>3
<1>6. PublicOrg \in orgs'
  <2>1. PublicOrg \in orgs /\ PublicOrg.slug # s
    BY <1>1 DEF TenInv, TenantsTypeOK, PublicOK
  <2>2. F(PublicOrg, s) = PublicOrg
    BY <2>1 DEF F
  <2> QED
    BY <1>1, <2>1, <2>2
<1>7. TenantsTypeOK' /\ RecordsOK'
  <2>1. ASSUME NEW p \in orgs'
        PROVE  /\ p = [name |-> p.name, slug |-> p.slug, schema |-> p.schema,
                       active |-> p.active, owner |-> p.owner]
               /\ p.active \in BOOLEAN
               /\ p.owner = {} \/ \E v \in Founders : p.owner = {v}
    <3>1. PICK o \in orgs : p = F(o, s)
      BY <1>1
    <3> QED
      BY <1>3, <1>5, <3>1 DEF TenInv, TenantsTypeOK
  <2> QED
    BY <1>2, <1>4, <1>6, <2>1, FormLeft DEF foundingVars, tenantGhosts, TenInv, TenantsTypeOK
<1>8. PublicOK'
  <2>1. ASSUME NEW p \in orgs', p.slug = PublicOrg.slug PROVE p = PublicOrg
    <3>1. PICK o \in orgs : p = F(o, s)
      BY <1>1
    <3>2. o = PublicOrg /\ PublicOrg.slug # s
      BY <1>1, <1>5, <2>1, <3>1 DEF TenInv, PublicOK
    <3> QED
      BY <3>1, <3>2 DEF F
  <2> QED
    BY <1>2, <1>4, <2>1 DEF TenInv, PublicOK, foundingVars
<1>9. NamesOK'
  <2> DEFINE G(o) == F(o, s)
  <2>1. /\ orgs' = {G(o) : o \in orgs}
        /\ \A o \in orgs : G(o).name = o.name /\ (G(o).active => o.active)
    BY <1>1, <1>3, <1>5
  <2>2. ASSUME NEW o \in orgs', NEW p \in orgs', o.active, p.active, o # p,
               KeyOf[o.name] = KeyOf[p.name]
        PROVE  KeyOf[o.name] \in twins
    <3>1. PICK q \in orgs, r \in orgs : o = G(q) /\ p = G(r)
      BY <2>1
    <3> QED
      BY <2>1, <2>2, <3>1 DEF TenInv, NamesOK, OneActiveName
  <2> QED
    BY <1>2, <2>1, <2>2 DEF TenInv, NamesOK, OneActiveName, foundingVars, tenantGhosts
<1>10. OwnersOK'
  <2>1. ASSUME NEW p \in orgs', p.active
        PROVE  \E o \in orgs : o.active /\ o.slug = p.slug /\ o.owner = p.owner /\ o.slug # s
    <3>1. PICK o \in orgs : p = F(o, s)
      BY <1>1
    <3>2. o.active /\ o.slug # s
      BY <1>3, <2>1, <3>1
    <3> QED
      BY <1>5, <3>1, <3>2
  <2>2. ActiveOrgHasOwner'
    BY <1>2, <2>1 DEF TenInv, OwnersOK, ActiveOrgHasOwner, tenantGhosts
  <2>3. ASSUME NEW v \in Founders, leaving[v] = "close",
               NEW p \in orgs', p.active, p.owner = {v}
        PROVE  p.slug \in owned'[v] \union orphans
    BY <1>4, <2>1, <2>3 DEF TenInv, OwnersOK
  <2> QED
    BY <1>2, <2>2, <2>3 DEF OwnersOK, tenantGhosts
<1>11. SlotsOK'
  <2>1. \A p \in orgs' : \E o \in orgs : o.slug = p.slug /\ o.schema = p.schema
    BY <1>1, <1>5
  <2> QED
    BY <1>2, <2>1, SlotsQuiet DEF foundingVars, tenantGhosts
<1> QED
  BY <1>7, <1>8, <1>9, <1>10, <1>11 DEF TenInv

LEMMA DropMembershipsKeeps ==
  ASSUME TenInv, NEW u \in Founders, DropMemberships(u)
  PROVE  TenInv'
<1> DEFINE F(o) == IF o.owner = {u} THEN [o EXCEPT !.owner = {}] ELSE o
<1>1. /\ leaving[u] = "close" /\ owned[u] = {}
      /\ orgs' = {F(o) : o \in orgs}
      /\ leaving' = [leaving EXCEPT ![u] = "drop"]
      /\ UNCHANGED <<foundingVars, owned, gone, tenantGhosts>>
  BY DEF DropMemberships
<1>2. ASSUME NEW o \in orgs
      PROVE  /\ F(o) = [name |-> o.name, slug |-> o.slug, schema |-> o.schema,
                        active |-> o.active, owner |-> F(o).owner]
             /\ F(o).owner = IF o.owner = {u} THEN {} ELSE o.owner
  <2>1. PICK n, l, h, a, b : o = [name |-> n, slug |-> l, schema |-> h, active |-> a,
                                  owner |-> b]
    BY FormNow
  <2> QED
    BY <2>1
<1>3. /\ leaving' \in [Founders -> {"no", "close", "drop"}] /\ leaving'[u] = "drop"
      /\ \A v \in Founders \ {u} : leaving'[v] = leaving[v]
  BY <1>1, FormNow
<1>4. F(PublicOrg) = PublicOrg
  <2>1. PublicOrg.owner = {}
    BY TenantsAssumption
  <2> QED
    BY <2>1
<1> HIDE DEF F
<1>5. \A o \in orgs : /\ F(o).name = o.name /\ F(o).slug = o.slug
                      /\ F(o).schema = o.schema /\ F(o).active = o.active
  BY <1>2
<1>6. PublicOrg \in orgs'
  BY <1>1, <1>4, FormNow
<1>7. TenantsTypeOK' /\ RecordsOK'
  <2>1. ASSUME NEW p \in orgs'
        PROVE  /\ p = [name |-> p.name, slug |-> p.slug, schema |-> p.schema,
                       active |-> p.active, owner |-> p.owner]
               /\ p.active \in BOOLEAN
               /\ p.owner = {} \/ \E v \in Founders : p.owner = {v}
    <3>1. PICK o \in orgs : p = F(o)
      BY <1>1
    <3> QED
      BY <1>2, <1>5, <3>1, FormNow
  <2>2. UNCHANGED <<pending, founding, wish, lost, crowded, owned, gone, petitions, kills>>
    BY <1>1 DEF foundingVars, tenantGhosts
  <2> QED
    BY <1>3, <1>6, <2>1, <2>2, FormNow, FormLeft
<1>8. PublicOK'
  <2>1. ASSUME NEW p \in orgs', p.slug = PublicOrg.slug PROVE p = PublicOrg
    <3>1. PICK o \in orgs : p = F(o)
      BY <1>1
    <3>2. o = PublicOrg
      BY <1>5, <2>1, <3>1 DEF TenInv, PublicOK
    <3> QED
      BY <1>4, <3>1, <3>2
  <2> QED
    BY <1>1, <2>1 DEF TenInv, PublicOK, foundingVars
<1>9. NamesOK'
  <2>1. ASSUME NEW o \in orgs', NEW p \in orgs', o.active, p.active, o # p,
               KeyOf[o.name] = KeyOf[p.name]
        PROVE  KeyOf[o.name] \in twins
    <3>1. PICK q \in orgs, r \in orgs : o = F(q) /\ p = F(r)
      BY <1>1
    <3>2. q # r /\ q.active /\ r.active /\ q.name = o.name /\ r.name = p.name
      BY <1>5, <2>1, <3>1
    <3> QED
      BY <2>1, <3>2 DEF TenInv, NamesOK, OneActiveName
  <2>2. ASSUME NEW v \in Founders, NEW o \in orgs', founding[v] # "ready", o.active,
               KeyOf[o.name] = KeyOf[wish[v].name]
        PROVE  KeyOf[o.name] \in twins
    <3>1. PICK q \in orgs : o = F(q)
      BY <1>1
    <3> QED
      BY <1>5, <2>2, <3>1 DEF TenInv, NamesOK
  <2> QED
    BY <1>1, <2>1, <2>2 DEF TenInv, NamesOK, OneActiveName, foundingVars, tenantGhosts
<1>10. OwnersOK'
  <2>1. ASSUME NEW p \in orgs', p.active
        PROVE  \E o \in orgs : /\ o.active /\ o.slug = p.slug
                               /\ p.owner = IF o.owner = {u} THEN {} ELSE o.owner
    <3>1. PICK o \in orgs : p = F(o)
      BY <1>1
    <3> QED
      BY <1>2, <1>5, <2>1, <3>1
  <2>2. ASSUME NEW p \in orgs', p.active, p.slug # PublicOrg.slug
        PROVE  p.owner # {} \/ p.slug \in orphans
    <3>1. PICK o \in orgs : /\ o.active /\ o.slug = p.slug
                            /\ p.owner = IF o.owner = {u} THEN {} ELSE o.owner
      BY <2>1, <2>2
    <3>2. CASE o.owner = {u}
      BY <1>1, <3>1, <3>2 DEF TenInv, OwnersOK
    <3>3. CASE o.owner # {u}
      BY <2>2, <3>1, <3>3 DEF TenInv, OwnersOK, ActiveOrgHasOwner
    <3> QED
      BY <3>2, <3>3
  <2>3. ASSUME NEW v \in Founders, leaving'[v] = "close",
               NEW p \in orgs', p.active, p.owner = {v}
        PROVE  p.slug \in owned[v] \union orphans
    <3>1. v # u /\ leaving[v] = "close"
      BY <1>3, <2>3
    <3>2. PICK o \in orgs : /\ o.active /\ o.slug = p.slug
                            /\ p.owner = IF o.owner = {u} THEN {} ELSE o.owner
      BY <2>1, <2>3
    <3>3. o.owner = {v}
      BY <2>3, <3>2
    <3> QED
      BY <3>1, <3>2, <3>3 DEF TenInv, OwnersOK
  <2> QED
    BY <1>1, <2>2, <2>3 DEF OwnersOK, ActiveOrgHasOwner, tenantGhosts
<1>11. SlotsOK'
  <2>1. \A p \in orgs' : \E o \in orgs : o.slug = p.slug /\ o.schema = p.schema
    BY <1>1, <1>5
  <2> QED
    BY <1>1, <2>1, SlotsQuiet DEF foundingVars, tenantGhosts
<1> QED
  BY <1>7, <1>8, <1>9, <1>10, <1>11 DEF TenInv

\* The end of a deletion, one way or the other.
LEMMA LeavingEnds ==
  ASSUME TenInv, NEW u \in Founders, leaving' = [leaving EXCEPT ![u] = "no"],
         owned' = owned \/ owned' = [owned EXCEPT ![u] = {}], gone' \subseteq Founders,
         kills' \in 0 .. MaxKills,
         UNCHANGED <<orgs, foundingVars, lost, crowded, twins, orphans, petitions>>
  PROVE  TenInv'
<1>1. /\ leaving' \in [Founders -> {"no", "close", "drop"}] /\ leaving'[u] = "no"
      /\ \A v \in Founders \ {u} : leaving'[v] = leaving[v] /\ owned'[v] = owned[v]
      /\ owned' = [v \in Founders |-> owned'[v]] /\ owned'[u] \in {owned[u], {}}
  BY FormNow
<1>2. UNCHANGED <<pending, founding, wish>>
  BY DEF foundingVars
<1>3. TenantsTypeOK' /\ RecordsOK'
  BY <1>1, <1>2, FormNow, FormLeft
<1>4. PublicOK'
  BY <1>1, <1>2 DEF TenInv, PublicOK
<1>5. NamesOK' /\ SlotsOK'
  BY <1>2, NamesQuiet, SlotsQuiet
<1>6. OwnersOK'
  BY <1>1, OwnersQuiet
<1> QED
  BY <1>3, <1>4, <1>5, <1>6 DEF TenInv

LEMMA TenInvStep == TenInv /\ [TenantsNext]_tenantVars => TenInv'
<1> SUFFICES ASSUME TenInv, [TenantsNext]_tenantVars PROVE TenInv'
  OBVIOUS
<1>1. ASSUME NEW u \in Founders, DropFounder(u) PROVE TenInv'
  <2>1. gone' \subseteq Founders /\ kills' \in 0 .. MaxKills
    BY <1>1, FormNow DEF DropFounder, tenantGhosts
  <2> QED
    BY <1>1, <2>1, LeavingEnds DEF DropFounder, tenantGhosts
<1>2. ASSUME NEW u \in Founders, KillLeaving(u) PROVE TenInv'
  <2>1. gone' \subseteq Founders /\ kills' \in 0 .. MaxKills
    BY <1>2, FormNow DEF KillLeaving
  <2> QED
    BY <1>2, <2>1, LeavingEnds DEF KillLeaving
<1>3. CASE UNCHANGED tenantVars
  <2>1. UNCHANGED <<orgs, pending, founding, wish, leaving, owned, gone, lost, crowded,
                    twins, orphans, petitions, kills>>
    BY <1>3 DEF tenantVars, foundingVars, leavingVars, tenantGhosts
  <2>2. TenantsTypeOK' /\ RecordsOK'
    BY <2>1, FormNow, FormLeft
  <2>3. PublicOK' /\ NamesOK' /\ OwnersOK' /\ SlotsOK'
    BY <2>1, PublicQuiet, NamesQuiet, OwnersQuiet, SlotsQuiet
  <2> QED
    BY <2>2, <2>3 DEF TenInv
<1> QED
  BY <1>1, <1>2, <1>3, CheckOrCreateKeeps, RecheckKeeps, SlugKeeps, SchemaKeeps, InsertKeeps,
     CommitKeeps, KillFoundingKeeps, DeleteAccountOfKeeps, CloseKeeps, DropMembershipsKeeps
     DEF TenantsNext, Found, Leave

-----------------------------------------------------------------------------
(* The theorems *)

LEMMA TenantsAlways == TenantsSpec => []TenInv
BY TenInvInit, TenInvStep, PTL DEF TenantsSpec

(* The public organization stays, and every row and request keeps its type.  *)
THEOREM TenantsTypes == TenantsSpec => []TenantsTypeOK
<1>1. TenInv => TenantsTypeOK
  BY DEF TenInv
<1> QED
  BY <1>1, TenantsAlways, PTL

(* Active organizations have different names, upper and lower case alike,    *)
(* unless two requests founded the name at once (check_organization_exists). *)
THEOREM NamesApart == TenantsSpec => []OneActiveName
<1>1. TenInv => OneActiveName
  BY DEF TenInv, NamesOK
<1> QED
  BY <1>1, TenantsAlways, PTL

(* An active organization has an owner unless it was founded while its       *)
(* founder was being deleted (DeleteAccountView.delete).                     *)
THEOREM OwnersStay == TenantsSpec => []ActiveOrgHasOwner
<1>1. TenInv => ActiveOrgHasOwner
  BY DEF TenInv, OwnersOK
<1> QED
  BY <1>1, TenantsAlways, PTL

(* Only a founder whose transaction overlapped another's is refused by a     *)
(* unique column (generate_unique_slug, create_organization_with_owner).     *)
THEOREM RefusedByRivals == TenantsSpec => []LostToARivalOnly
<1>1. TenInv => LostToARivalOnly
  BY DEF TenInv, SlotsOK
<1> QED
  BY <1>1, TenantsAlways, PTL

=============================================================================
