----------------------------- MODULE AuthProofs -----------------------------
(***************************************************************************)
(* apps/auth_core, for any number of addresses, workers, tokens, logins,   *)
(* tabs and organizations.  Accounts: what can go wrong when a handler is  *)
(* not one transaction goes wrong only when two requests overlap, or a     *)
(* worker is lost, at the same row.  Sessions: a session that no two       *)
(* requests raced for has one good refresh token, and what its tokens      *)
(* allow in an organization, a role held there allows.                     *)
(***************************************************************************)
EXTENDS Accounts, Sessions, FiniteSetTheorems, TLAPS

USE AccountsAssumption

\* A worker handles the request its next statement belongs to.
StepsOK ==
  \A c \in Clients :
    /\ step[c] = "ready" <=> job[c].op = "none"
    /\ step[c] = "create" <=> job[c].op = "signup"
    /\ step[c] \in {"invalidate", "issue"} <=> job[c].op = "issue"
    /\ step[c] \in {"password", "verify", "mark"} <=> job[c].op = "present"
    /\ step[c] \in {"dropVerify", "dropReset", "dropUser"} <=> job[c].op = "delete"

\* Rows and requests refer to rows that were made.
MadeOK ==
  /\ \A t \in Tokens : token[t] # "unmade" => owner[t] \in Emails \X Kinds
  /\ \A c \in Clients : job[c].op = "present" => token[job[c].of] # "unmade"
  /\ \A e \in Emails :
       account[e] = "absent" =>
         /\ \A t \in Tokens : token[t] # "unmade" => owner[t][1] # e
         /\ \A c \in Clients : job[c].op \in {"issue", "delete"} => job[c].of # e

\* Who signs up with an address that is taken, or with somebody else, is a rival.
RivalsOK ==
  /\ \A c \in Clients, f \in Emails :
       job[c].op = "signup" /\ Exists(f) /\ AddressOf[f] = AddressOf[job[c].of]
         => AddressOf[f] \in rivals
  /\ \A c, d \in Clients :
       /\ c # d /\ job[c].op = "signup" /\ job[d].op = "signup"
       /\ AddressOf[job[c].of] = AddressOf[job[d].of]
       => AddressOf[job[c].of] \in rivals
  /\ OneAccountPerAddress

\* One request carries a link, and has not changed the password before it does.
LinksOK ==
  \A t \in Tokens \ shared :
    /\ resets[t] <= 1
    /\ \A c, d \in Carrying(t) : c = d
    /\ \A c \in Carrying(t) : step[c] \in {"password", "verify"} => resets[t] = 0
    /\ token[t] \in {"open", "unmade"} /\ Carrying(t) = {} => resets[t] = 0

\* One request makes a token, and has invalidated the others before it does.
MakersOK ==
  \A e \in Emails, k \in Kinds :
    <<e, k>> \notin overlap =>
      /\ \A t, u \in Live(e, k) : t = u
      /\ \A c, d \in Making(e, k) : c = d
      /\ \A c \in Making(e, k) : step[c] = "issue" => Live(e, k) = {}

Left(e, k) == {t \in Issued(e, k) : token[t] # "gone"}

\* What a deletion has deleted stays so, unless it was disturbed.
DeletersOK ==
  /\ StrandedByATokenOnly
  /\ \A e \in Emails \ disturbed : \A c \in Deleting(e) :
       /\ step[c] \in {"dropReset", "dropUser"} => Left(e, "verify") = {}
       /\ step[c] = "dropUser" => Left(e, "reset") = {}

AccInv ==
  /\ AccountsTypeOK /\ StepsOK /\ MadeOK
  /\ RivalsOK /\ LinksOK /\ MakersOK /\ DeletersOK

-----------------------------------------------------------------------------
(* What a statement does to its worker *)

LEMMA JobFields ==
  ASSUME AccountsTypeOK, NEW c \in Clients
  PROVE  /\ job[c].op \in {"none", "signup", "delete", "issue", "present"}
         /\ job[c].op \in {"signup", "delete", "issue"} => job[c].of \in Emails
         /\ job[c].op = "issue" => job[c].kind \in Kinds
         /\ job[c].op = "present" => job[c].of \in Tokens
<1>1. job[c] \in Jobs
  BY DEF AccountsTypeOK
<1> QED
  BY <1>1 DEF Jobs, NoJob

Others(c) == \A d \in Clients \ {c} : job'[d] = job[d] /\ step'[d] = step[d]

WorkersTyped ==
  /\ step \in [Clients -> Steps] /\ job \in [Clients -> Jobs]
  /\ requests \in 0 .. MaxRequests

LEMMA Accepts ==
  ASSUME AccInv, NEW c \in Clients, NEW j \in Jobs, NEW s \in Steps, Accept(c, j, s)
  PROVE  /\ job[c].op = "none" /\ job'[c] = j /\ step'[c] = s
         /\ Others(c) /\ WorkersTyped'
<1>1. step[c] = "ready" /\ job[c].op = "none"
  BY DEF Accept, AccInv, StepsOK
<1>2. /\ job' = [job EXCEPT ![c] = j] /\ step' = [step EXCEPT ![c] = s]
      /\ requests < MaxRequests /\ requests' = requests + 1
  BY DEF Accept
<1>3. job \in [Clients -> Jobs] /\ step \in [Clients -> Steps] /\ requests \in 0 .. MaxRequests
  BY DEF AccInv, AccountsTypeOK
<1> QED
  BY <1>1, <1>2, <1>3 DEF Others, WorkersTyped

LEMMA Proceeded ==
  ASSUME AccInv, NEW c \in Clients, NEW s \in Steps, Proceed(c, s)
  PROVE  job' = job /\ step'[c] = s /\ Others(c) /\ WorkersTyped'
<1>1. job \in [Clients -> Jobs] /\ step \in [Clients -> Steps] /\ requests \in 0 .. MaxRequests
  BY DEF AccInv, AccountsTypeOK
<1> QED
  BY <1>1 DEF Proceed, Others, WorkersTyped

LEMMA Answered ==
  ASSUME AccInv, NEW c \in Clients, Answer(c)
  PROVE  /\ job'[c].op = "none" /\ step'[c] = "ready"
         /\ Others(c) /\ WorkersTyped'
<1>1. job \in [Clients -> Jobs] /\ step \in [Clients -> Steps] /\ requests \in 0 .. MaxRequests
  BY DEF AccInv, AccountsTypeOK
<1>2. NoJob \in Jobs /\ NoJob.op = "none" /\ "ready" \in Steps
  BY DEF NoJob, Jobs, Steps
<1> QED
  BY <1>1, <1>2 DEF Answer, Others, WorkersTyped

\* The worker that moves is in step with its request.
LEMMA InStep ==
  ASSUME AccInv, NEW c \in Clients, Others(c),
         /\ step'[c] = "ready" <=> job'[c].op = "none"
         /\ step'[c] = "create" <=> job'[c].op = "signup"
         /\ step'[c] \in {"invalidate", "issue"} <=> job'[c].op = "issue"
         /\ step'[c] \in {"password", "verify", "mark"} <=> job'[c].op = "present"
         /\ step'[c] \in {"dropVerify", "dropReset", "dropUser"} <=> job'[c].op = "delete"
  PROVE  StepsOK'
BY DEF AccInv, StepsOK, Others

LEMMA Inserted ==
  ASSUME AccInv, NEW e \in Emails, NEW k \in Kinds, InsertToken(e, k)
  PROVE  /\ token' \in [Tokens -> {"unmade", "open", "lapsed", "used", "gone"}]
         /\ owner' \in [Tokens -> (Emails \X Kinds) \union {NoOwner}]
         /\ \E t \in Tokens :
              /\ token[t] = "unmade" /\ token'[t] = "open" /\ owner'[t] = <<e, k>>
              /\ \A u \in Tokens \ {t} : token'[u] = token[u] /\ owner'[u] = owner[u]
<1>1. PICK t \in Spare : /\ token' = [token EXCEPT ![t] = "open"]
                         /\ owner' = [owner EXCEPT ![t] = <<e, k>>]
  BY DEF InsertToken
<1>2. t \in Tokens /\ token[t] = "unmade"
  BY <1>1 DEF Spare
<1>3. /\ token \in [Tokens -> {"unmade", "open", "lapsed", "used", "gone"}]
      /\ owner \in [Tokens -> (Emails \X Kinds) \union {NoOwner}]
  BY DEF AccInv, AccountsTypeOK
<1> QED
  BY <1>1, <1>2, <1>3

-----------------------------------------------------------------------------
(* The parts of the invariant that a step is no business of *)

LEMMA MadeQuiet ==
  ASSUME AccInv, UNCHANGED owner,
         \A e \in Emails : account'[e] = "absent" => account[e] = "absent",
         \A t \in Tokens : token'[t] = "unmade" <=> token[t] = "unmade",
         \A d \in Clients : job'[d].op \in {"issue", "delete", "present"} => job'[d] = job[d]
  PROVE  MadeOK'
BY JobFields DEF AccInv, MadeOK

LEMMA RivalsQuiet ==
  ASSUME AccInv, UNCHANGED rivals, \A e \in Emails : Exists(e)' => Exists(e),
         \A d \in Clients : job'[d].op = "signup" => job'[d] = job[d]
  PROVE  RivalsOK'
BY DEF AccInv, RivalsOK, OneAccountPerAddress

LEMMA LinksQuiet ==
  ASSUME AccInv, UNCHANGED <<resets, shared>>,
         \A t \in Tokens : token'[t] \in {"open", "unmade"} => token[t] \in {"open", "unmade"},
         \A d \in Clients : job'[d].op = "present" \/ job[d].op = "present"
                              => job'[d] = job[d] /\ step'[d] = step[d]
  PROVE  LinksOK'
<1>1. \A t \in Tokens : Carrying(t)' = Carrying(t)
  BY DEF Carrying
<1>2. \A t \in Tokens : \A c \in Carrying(t) : step'[c] = step[c]
  BY DEF Carrying
<1> QED
  BY <1>1, <1>2 DEF AccInv, LinksOK

LEMMA MakersQuiet ==
  ASSUME AccInv, UNCHANGED overlap,
         \A t \in Tokens : token'[t] \in {"open", "lapsed"} =>
                             token[t] \in {"open", "lapsed"} /\ owner'[t] = owner[t],
         \A d \in Clients : job'[d].op = "issue" => job'[d] = job[d] /\ step'[d] = step[d]
  PROVE  MakersOK'
<1>1. \A e \in Emails, k \in Kinds : Live(e, k)' \subseteq Live(e, k)
  BY DEF Live, Issued, Spare
<1>2. \A e \in Emails, k \in Kinds : Making(e, k)' \subseteq Making(e, k)
  BY DEF Making
<1>3. \A e \in Emails, k \in Kinds : \A c \in Making(e, k)' : step'[c] = step[c]
  BY DEF Making
<1> QED
  BY <1>1, <1>2, <1>3 DEF AccInv, MakersOK

LEMMA DeletersQuiet ==
  ASSUME AccInv, UNCHANGED stranded, disturbed \subseteq disturbed',
         \A t \in Tokens : token'[t] \notin {"unmade", "gone"} =>
                             token[t] \notin {"unmade", "gone"} /\ owner'[t] = owner[t],
         \A d \in Clients : job'[d].op = "delete" => job'[d] = job[d] /\ step'[d] = step[d]
  PROVE  DeletersOK'
<1>1. \A e \in Emails, k \in Kinds : Left(e, k)' \subseteq Left(e, k)
  BY DEF Left, Issued, Spare
<1>2. \A e \in Emails : \A c \in Deleting(e)' : c \in Deleting(e) /\ step'[c] = step[c]
  BY DEF Deleting
<1> QED
  BY <1>1, <1>2 DEF AccInv, DeletersOK, StrandedByATokenOnly, Kinds

-----------------------------------------------------------------------------
(* One lemma per action *)

LEMMA AccInvInit == AccountsInit => AccInv
<1> SUFFICES ASSUME AccountsInit PROVE AccInv
  OBVIOUS
<1>1. AccountsTypeOK
  BY DEF AccountsInit, AccountsTypeOK, Jobs, Steps
<1>2. StepsOK /\ MadeOK
  BY DEF AccountsInit, StepsOK, MadeOK, NoJob
<1>3. RivalsOK
  BY DEF AccountsInit, RivalsOK, OneAccountPerAddress, Exists, NoJob
<1>4. \A e \in Emails, k \in Kinds : Live(e, k) = {} /\ Making(e, k) = {}
  BY DEF AccountsInit, Live, Issued, Spare, Making, NoJob
<1>5. LinksOK /\ MakersOK
  BY <1>4 DEF AccountsInit, LinksOK, MakersOK, Carrying, NoJob
<1>6. DeletersOK
  BY DEF AccountsInit, DeletersOK, StrandedByATokenOnly, Deleting, NoJob
<1> QED
  BY <1>1, <1>2, <1>3, <1>5, <1>6 DEF AccInv

LEMMA SignupKeeps ==
  ASSUME AccInv, NEW c \in Clients, NEW e \in Emails, Signup(c, e)
  PROVE  AccInv'
<1> DEFINE j == [op |-> "signup", of |-> e]
<1>1. /\ \A f \in Namesakes(e) : ~ Exists(f)
      /\ Accept(c, j, "create")
      /\ rivals' = IF SigningUp(e) # {} THEN rivals \union {AddressOf[e]} ELSE rivals
      /\ UNCHANGED <<accountRows, resets, shared, overlap, stranded, disturbed, upsets>>
  BY DEF Signup
<1>2. j \in Jobs /\ j.op = "signup" /\ j.of = e /\ "create" \in Steps
  BY DEF Jobs, Steps
<1> HIDE DEF j
<1>3. /\ job[c].op = "none" /\ job'[c] = j /\ step'[c] = "create"
      /\ Others(c) /\ WorkersTyped'
  BY <1>1, <1>2, Accepts
<1>4. AccountsTypeOK'
  BY <1>1, <1>3 DEF AccInv, AccountsTypeOK, WorkersTyped, accountRows
<1>5. StepsOK'
  BY <1>2, <1>3, InStep
<1>6. MadeOK'
  BY <1>1, <1>2, <1>3, MadeQuiet DEF Others, accountRows
<1>7. RivalsOK'
  <2>1. rivals \subseteq rivals' /\ \A f \in Emails : Exists(f)' = Exists(f)
    BY <1>1 DEF Exists, accountRows
  <2>2. ASSUME NEW f \in Emails, Exists(f) PROVE AddressOf[f] # AddressOf[e]
    BY <1>1, <2>2 DEF Namesakes
  <2>3. ASSUME NEW d \in Clients, d # c, job[d].op = "signup",
               AddressOf[job[d].of] = AddressOf[e]
        PROVE  AddressOf[e] \in rivals'
    <3>1. d \in SigningUp(e)
      BY <2>3, JobFields DEF SigningUp, Namesakes, AccInv
    <3> QED
      BY <1>1, <3>1
  <2>4. ASSUME NEW d \in Clients, NEW f \in Emails,
               job'[d].op = "signup", Exists(f)', AddressOf[f] = AddressOf[job'[d].of]
        PROVE  AddressOf[f] \in rivals'
    BY <1>2, <1>3, <2>1, <2>2, <2>4 DEF AccInv, RivalsOK, Others
  <2>5. ASSUME NEW d \in Clients, NEW b \in Clients, d # b,
               job'[d].op = "signup", job'[b].op = "signup",
               AddressOf[job'[d].of] = AddressOf[job'[b].of]
        PROVE  AddressOf[job'[d].of] \in rivals'
    <3>1. CASE d = c
      BY <1>2, <1>3, <2>3, <2>5, <3>1 DEF Others
    <3>2. CASE b = c
      BY <1>2, <1>3, <2>3, <2>5, <3>2 DEF Others
    <3>3. CASE d # c /\ b # c
      BY <1>3, <2>1, <2>5, <3>3 DEF Others, AccInv, RivalsOK
    <3> QED
      BY <3>1, <3>2, <3>3
  <2>6. OneAccountPerAddress'
    BY <2>1 DEF AccInv, RivalsOK, OneAccountPerAddress
  <2> QED
    BY <2>4, <2>5, <2>6 DEF RivalsOK
<1>8. LinksOK'
  BY <1>1, <1>2, <1>3, LinksQuiet DEF Others, accountRows
<1>9. MakersOK'
  BY <1>1, <1>2, <1>3, MakersQuiet DEF Others, accountRows
<1>10. DeletersOK'
  BY <1>1, <1>2, <1>3, DeletersQuiet DEF Others, accountRows
<1> QED
  BY <1>4, <1>5, <1>6, <1>7, <1>8, <1>9, <1>10 DEF AccInv

LEMMA CreateUserKeeps ==
  ASSUME AccInv, NEW c \in Clients, CreateUser(c)
  PROVE  AccInv'
<1>1. step[c] = "create" /\ Answer(c) /\ UNCHANGED accountGhosts
  BY DEF CreateUser
<1>2. job[c].op = "signup"
  BY <1>1 DEF AccInv, StepsOK
<1>3. PICK e \in Emails : e = job[c].of
  BY <1>2, JobFields DEF AccInv
<1>4. /\ job'[c].op = "none" /\ step'[c] = "ready"
      /\ Others(c) /\ WorkersTyped'
  BY <1>1, Answered
<1>5. StepsOK'
  BY <1>4, InStep
<1>6. CASE account[e] = "absent"
  <2>1. /\ account' = [account EXCEPT ![e] = "active"]
        /\ verified' = [verified EXCEPT ![e] = FALSE]
        /\ InsertToken(e, "verify")
    BY <1>3, <1>6 DEF CreateUser
  <2>2. "verify" \in Kinds
    BY DEF Kinds
  <2>3. /\ token' \in [Tokens -> {"unmade", "open", "lapsed", "used", "gone"}]
        /\ owner' \in [Tokens -> (Emails \X Kinds) \union {NoOwner}]
        /\ \E u \in Tokens :
             /\ token[u] = "unmade" /\ token'[u] = "open" /\ owner'[u] = <<e, "verify">>
             /\ \A v \in Tokens \ {u} : token'[v] = token[v] /\ owner'[v] = owner[v]
    BY <2>1, <2>2, Inserted
  <2>4. PICK t \in Tokens :
             /\ token[t] = "unmade" /\ token'[t] = "open" /\ owner'[t] = <<e, "verify">>
             /\ \A u \in Tokens \ {t} : token'[u] = token[u] /\ owner'[u] = owner[u]
    BY <2>3
  <2>5. /\ account'[e] = "active" /\ \A f \in Emails \ {e} : account'[f] = account[f]
        /\ account' \in [Emails -> {"absent", "active", "inactive", "deleted"}]
        /\ verified' \in [Emails -> BOOLEAN]
    BY <2>1 DEF AccInv, AccountsTypeOK
  <2>6. AccountsTypeOK'
    BY <1>1, <1>4, <2>3, <2>5 DEF AccInv, AccountsTypeOK, WorkersTyped, accountGhosts
  <2>7. MadeOK'
    <3>1. ASSUME NEW u \in Tokens, token'[u] # "unmade"
          PROVE  /\ owner'[u] \in Emails \X Kinds
                 /\ \A f \in Emails : account'[f] = "absent" => owner'[u][1] # f
      <4>1. CASE u = t
        <5>1. <<e, "verify">> \in Emails \X Kinds /\ <<e, "verify">>[1] = e
          BY <2>2
        <5>2. owner'[u] = <<e, "verify">>
          BY <2>4, <4>1
        <5>3. \A f \in Emails : account'[f] = "absent" => f # e
          BY <2>5
        <5> QED
          BY <5>1, <5>2, <5>3
      <4>2. CASE u # t
        <5>1. token[u] # "unmade" /\ owner'[u] = owner[u]
          BY <2>4, <3>1, <4>2
        <5>2. \A f \in Emails : account'[f] = "absent" => account[f] = "absent"
          BY <2>5
        <5> QED
          BY <5>1, <5>2 DEF AccInv, MadeOK
      <4> QED
        BY <4>1, <4>2
    <3>2. ASSUME NEW d \in Clients, job'[d].op = "present" PROVE token'[job'[d].of] # "unmade"
      BY <1>4, <2>4, <3>2, JobFields DEF Others, AccInv, MadeOK
    <3>3. ASSUME NEW f \in Emails, account'[f] = "absent",
                 NEW d \in Clients, job'[d].op \in {"issue", "delete"}
          PROVE  job'[d].of # f
      BY <1>4, <2>5, <3>3 DEF Others, AccInv, MadeOK
    <3> QED
      BY <3>1, <3>2, <3>3 DEF MadeOK
  <2>8. RivalsOK'
    <3>1. \A f \in Emails \ {e} : Exists(f)' = Exists(f)
      BY <2>5 DEF Exists
    <3>2. UNCHANGED rivals
      BY <1>1 DEF accountGhosts
    <3>3. \A d \in Clients : job'[d].op = "signup" => d # c /\ job[d] = job'[d]
      BY <1>4 DEF Others
    <3>4. ASSUME NEW d \in Clients, NEW f \in Emails,
                 job'[d].op = "signup", Exists(f)', AddressOf[f] = AddressOf[job'[d].of]
          PROVE  AddressOf[f] \in rivals'
      <4>1. CASE f = e
        BY <1>2, <1>3, <3>2, <3>3, <3>4, <4>1 DEF AccInv, RivalsOK
      <4>2. CASE f # e
        BY <3>1, <3>2, <3>3, <3>4, <4>2 DEF AccInv, RivalsOK
      <4> QED
        BY <4>1, <4>2
    <3>5. ASSUME NEW f \in Emails, NEW g \in Emails, Exists(f)', Exists(g)', f # g,
                 AddressOf[f] = AddressOf[g]
          PROVE  AddressOf[f] \in rivals'
      <4>1. CASE f = e
        BY <1>2, <1>3, <3>1, <3>2, <3>5, <4>1 DEF AccInv, RivalsOK
      <4>2. CASE g = e
        BY <1>2, <1>3, <3>1, <3>2, <3>5, <4>2 DEF AccInv, RivalsOK
      <4>3. CASE f # e /\ g # e
        BY <3>1, <3>2, <3>5, <4>3 DEF AccInv, RivalsOK, OneAccountPerAddress
      <4> QED
        BY <4>1, <4>2, <4>3
    <3>6. OneAccountPerAddress'
      BY <3>5 DEF OneAccountPerAddress
    <3> QED
      BY <3>2, <3>3, <3>4, <3>6 DEF AccInv, RivalsOK
  <2>9. LinksOK'
    BY <1>1, <1>2, <1>4, <2>4, LinksQuiet DEF Others, accountGhosts
  <2>10. MakersOK'
    <3>1. \A k \in Kinds : Live(e, k) = {} /\ Making(e, k) = {}
      BY <1>6 DEF AccInv, MadeOK, Live, Issued, Spare, Making
    <3>2. ASSUME NEW f \in Emails, NEW k \in Kinds
          PROVE  /\ f = e => Live(f, k)' \subseteq {t}
                 /\ f # e => Live(f, k)' \subseteq Live(f, k)
      <4>1. ASSUME NEW u \in Live(f, k)', u # t PROVE u \in Live(f, k)
        BY <2>4, <4>1 DEF Live, Issued, Spare
      <4>2. t \in Live(f, k)' => f = e
        BY <2>4 DEF Live, Issued
      <4> QED
        BY <3>1, <4>1, <4>2
    <3>3. \A f \in Emails, k \in Kinds : \A d \in Making(f, k)' :
            d \in Making(f, k) /\ step'[d] = step[d]
      BY <1>4 DEF Making, Others
    <3>4. UNCHANGED overlap
      BY <1>1 DEF accountGhosts
    <3> QED
      BY <3>1, <3>2, <3>3, <3>4 DEF AccInv, MakersOK
  <2>11. DeletersOK'
    <3>1. Deleting(e)' = {}
      BY <1>4, <1>6 DEF Deleting, Others, AccInv, MadeOK
    <3>2. \A f \in Emails \ {e} : \A d \in Deleting(f)' : d \in Deleting(f) /\ step'[d] = step[d]
      BY <1>4 DEF Deleting, Others
    <3>3. \A f \in Emails \ {e}, k \in Kinds : Left(f, k)' \subseteq Left(f, k)
      BY <2>4 DEF Left, Issued, Spare
    <3>4. UNCHANGED <<stranded, disturbed>>
      BY <1>1 DEF accountGhosts
    <3> QED
      BY <3>1, <3>2, <3>3, <3>4 DEF AccInv, DeletersOK, StrandedByATokenOnly, Kinds
  <2> QED
    BY <1>5, <2>6, <2>7, <2>8, <2>9, <2>10, <2>11 DEF AccInv
<1>7. CASE account[e] # "absent"
  <2>1. UNCHANGED accountRows
    BY <1>3, <1>7 DEF CreateUser
  <2>2. AccountsTypeOK'
    BY <1>1, <1>4, <2>1 DEF AccInv, AccountsTypeOK, WorkersTyped, accountGhosts, accountRows
  <2>3. MadeOK' /\ RivalsOK'
    BY <1>1, <1>4, <2>1, MadeQuiet, RivalsQuiet DEF Others, Exists, accountRows, accountGhosts
  <2>4. LinksOK' /\ MakersOK' /\ DeletersOK'
    BY <1>1, <1>2, <1>4, <2>1, LinksQuiet, MakersQuiet, DeletersQuiet
       DEF Others, accountRows, accountGhosts
  <2> QED
    BY <1>5, <2>2, <2>3, <2>4 DEF AccInv
<1> QED
  BY <1>6, <1>7

LEMMA MakeTokenKeeps ==
  ASSUME AccInv, NEW c \in Clients, NEW e \in Emails, NEW k \in Kinds,
         account[e] # "absent", MakeToken(c, e, k)
  PROVE  AccInv'
<1> DEFINE j == [op |-> "issue", of |-> e, kind |-> k]
<1>1. /\ Accept(c, j, "invalidate")
      /\ overlap' = IF Making(e, k) # {} THEN overlap \union {<<e, k>>} ELSE overlap
      /\ UNCHANGED <<accountRows, resets, shared, rivals, stranded, disturbed, upsets>>
  BY DEF MakeToken
<1>2. j \in Jobs /\ j.op = "issue" /\ j.of = e /\ j.kind = k /\ "invalidate" \in Steps
  BY DEF Jobs, Steps
<1> HIDE DEF j
<1>3. /\ job[c].op = "none" /\ job'[c] = j /\ step'[c] = "invalidate"
      /\ Others(c) /\ WorkersTyped'
  BY <1>1, <1>2, Accepts
<1>4. AccountsTypeOK'
  BY <1>1, <1>3 DEF AccInv, AccountsTypeOK, WorkersTyped, accountRows
<1>5. StepsOK'
  BY <1>2, <1>3, InStep
<1>6. MadeOK'
  BY <1>1, <1>2, <1>3 DEF AccInv, MadeOK, Others, accountRows
<1>7. RivalsOK'
  BY <1>1, <1>2, <1>3, RivalsQuiet DEF Others, Exists, accountRows
<1>8. LinksOK'
  BY <1>1, <1>2, <1>3, LinksQuiet DEF Others, accountRows
<1>9. MakersOK'
  <2>1. \A f \in Emails, l \in Kinds : Live(f, l)' = Live(f, l)
    BY <1>1 DEF Live, Issued, Spare, accountRows
  <2>2. \A f \in Emails, l \in Kinds : \A d \in Making(f, l)' :
          \/ d \in Making(f, l) /\ d # c /\ step'[d] = step[d]
          \/ d = c /\ f = e /\ l = k
    BY <1>2, <1>3 DEF Making, Others
  <2>3. overlap \subseteq overlap' /\ (Making(e, k) # {} => <<e, k>> \in overlap')
    BY <1>1
  <2> QED
    BY <1>3, <2>1, <2>2, <2>3 DEF AccInv, MakersOK
<1>10. DeletersOK'
  BY <1>1, <1>2, <1>3, DeletersQuiet DEF Others, accountRows
<1> QED
  BY <1>4, <1>5, <1>6, <1>7, <1>8, <1>9, <1>10 DEF AccInv

LEMMA InvalidateKeeps ==
  ASSUME AccInv, NEW c \in Clients, InvalidateTokens(c)
  PROVE  AccInv'
<1>1. /\ step[c] = "invalidate"
      /\ token' = [t \in Tokens |->
                     IF t \in Live(job[c].of, job[c].kind) THEN "used" ELSE token[t]]
      /\ Proceed(c, "issue")
      /\ UNCHANGED <<account, verified, owner, accountGhosts>>
  BY DEF InvalidateTokens
<1>2. job[c].op = "issue" /\ "issue" \in Steps
  BY <1>1 DEF AccInv, StepsOK, Steps
<1>3. PICK e \in Emails, k \in Kinds : e = job[c].of /\ k = job[c].kind
  BY <1>2, JobFields DEF AccInv
<1>4. job' = job /\ step'[c] = "issue" /\ Others(c) /\ WorkersTyped'
  BY <1>1, <1>2, Proceeded
<1>5. \A t \in Tokens : token'[t] = IF t \in Live(e, k) THEN "used" ELSE token[t]
  BY <1>1, <1>3
<1>6. \A t \in Tokens : token'[t] = token[t] \/ (token[t] \in {"open", "lapsed"} /\ token'[t] = "used")
  BY <1>5 DEF Live
<1>7. AccountsTypeOK'
  BY <1>1, <1>4, <1>6 DEF AccInv, AccountsTypeOK, WorkersTyped, accountGhosts
<1>8. StepsOK'
  BY <1>2, <1>4, InStep
<1>9. MadeOK' /\ RivalsOK'
  BY <1>1, <1>4, <1>6, MadeQuiet, RivalsQuiet DEF Others, Exists, accountGhosts
<1>10. LinksOK' /\ DeletersOK'
  BY <1>1, <1>2, <1>4, <1>6, LinksQuiet, DeletersQuiet DEF Others, accountGhosts
<1>11. MakersOK'
  <2>1. Live(e, k)' = {}
    BY <1>1, <1>5, <1>6 DEF Live, Issued, Spare
  <2>2. \A f \in Emails, l \in Kinds : Live(f, l)' \subseteq Live(f, l)
    BY <1>1, <1>6 DEF Live, Issued, Spare
  <2>3. \A f \in Emails, l \in Kinds :
          /\ Making(f, l)' = Making(f, l)
          /\ \A d \in Making(f, l) : step'[d] = step[d] \/ (f = e /\ l = k)
    BY <1>3, <1>4 DEF Making, Others
  <2>4. UNCHANGED overlap
    BY <1>1 DEF accountGhosts
  <2> QED
    BY <2>1, <2>2, <2>3, <2>4 DEF AccInv, MakersOK
<1> QED
  BY <1>7, <1>8, <1>9, <1>10, <1>11 DEF AccInv

LEMMA IssueKeeps ==
  ASSUME AccInv, NEW c \in Clients, IssueToken(c)
  PROVE  AccInv'
<1>1. /\ step[c] = "issue" /\ Answer(c)
      /\ UNCHANGED <<account, verified, resets, shared, overlap, rivals, stranded, upsets>>
  BY DEF IssueToken
<1>2. job[c].op = "issue"
  BY <1>1 DEF AccInv, StepsOK
<1>3. PICK e \in Emails, k \in Kinds : e = job[c].of /\ k = job[c].kind
  BY <1>2, JobFields DEF AccInv
<1>4. /\ job'[c].op = "none" /\ step'[c] = "ready"
      /\ Others(c) /\ WorkersTyped'
  BY <1>1, Answered
<1>5. StepsOK'
  BY <1>4, InStep
<1>6. disturbed' = IF Deleting(e) # {} THEN disturbed \union {e} ELSE disturbed
  BY <1>3 DEF IssueToken
<1>7. RivalsOK'
  BY <1>1, <1>4, RivalsQuiet DEF Others, Exists
<1>8. c \in Making(e, k)
  BY <1>2, <1>3 DEF Making
<1>9. CASE Exists(e)
  <2>1. InsertToken(e, k)
    BY <1>3, <1>9 DEF IssueToken
  <2>2. /\ token' \in [Tokens -> {"unmade", "open", "lapsed", "used", "gone"}]
        /\ owner' \in [Tokens -> (Emails \X Kinds) \union {NoOwner}]
        /\ \E u \in Tokens :
             /\ token[u] = "unmade" /\ token'[u] = "open" /\ owner'[u] = <<e, k>>
             /\ \A v \in Tokens \ {u} : token'[v] = token[v] /\ owner'[v] = owner[v]
    BY <2>1, Inserted
  <2>3. PICK t \in Tokens :
             /\ token[t] = "unmade" /\ token'[t] = "open" /\ owner'[t] = <<e, k>>
             /\ \A u \in Tokens \ {t} : token'[u] = token[u] /\ owner'[u] = owner[u]
    BY <2>2
  <2>4. AccountsTypeOK'
    BY <1>1, <1>4, <1>6, <2>2 DEF AccInv, AccountsTypeOK, WorkersTyped
  <2>5. MadeOK'
    <3>1. ASSUME NEW u \in Tokens, token'[u] # "unmade"
          PROVE  /\ owner'[u] \in Emails \X Kinds
                 /\ \A f \in Emails : account'[f] = "absent" => owner'[u][1] # f
      <4>1. CASE u = t
        <5>1. <<e, k>> \in Emails \X Kinds /\ <<e, k>>[1] = e
          OBVIOUS
        <5>2. owner'[u] = <<e, k>>
          BY <2>3, <4>1
        <5>3. \A f \in Emails : account'[f] = "absent" => f # e
          BY <1>1, <1>9 DEF Exists
        <5> QED
          BY <5>1, <5>2, <5>3
      <4>2. CASE u # t
        BY <1>1, <2>3, <3>1, <4>2 DEF AccInv, MadeOK
      <4> QED
        BY <4>1, <4>2
    <3>2. ASSUME NEW d \in Clients, job'[d].op = "present" PROVE token'[job'[d].of] # "unmade"
      BY <1>4, <2>3, <3>2, JobFields DEF Others, AccInv, MadeOK
    <3>3. ASSUME NEW f \in Emails, account'[f] = "absent",
                 NEW d \in Clients, job'[d].op \in {"issue", "delete"}
          PROVE  job'[d].of # f
      BY <1>1, <1>4, <3>3 DEF Others, AccInv, MadeOK
    <3> QED
      BY <3>1, <3>2, <3>3 DEF MadeOK
  <2>6. LinksOK'
    BY <1>1, <1>2, <1>4, <2>3, LinksQuiet DEF Others
  <2>7. MakersOK'
    <3>1. ASSUME NEW f \in Emails, NEW l \in Kinds
          PROVE  Live(f, l)' \subseteq IF f = e /\ l = k THEN Live(f, l) \union {t} ELSE Live(f, l)
      <4>1. ASSUME NEW u \in Live(f, l)', u # t PROVE u \in Live(f, l)
        BY <2>3, <4>1 DEF Live, Issued, Spare
      <4>2. t \in Live(f, l)' => f = e /\ l = k
        BY <2>3 DEF Live, Issued
      <4> QED
        BY <4>1, <4>2
    <3>2. \A f \in Emails, l \in Kinds : \A d \in Making(f, l)' :
            d \in Making(f, l) /\ d # c /\ step'[d] = step[d]
      BY <1>4 DEF Making, Others
    <3> QED
      BY <1>1, <1>8, <3>1, <3>2 DEF AccInv, MakersOK
  <2>8. DeletersOK'
    <3>1. e \in disturbed' \/ Deleting(e)' = {}
      BY <1>4, <1>6 DEF Deleting, Others
    <3>2. \A f \in Emails \ {e} : \A d \in Deleting(f)' : d \in Deleting(f) /\ step'[d] = step[d]
      BY <1>4 DEF Deleting, Others
    <3>3. \A f \in Emails \ {e}, l \in Kinds : Left(f, l)' \subseteq Left(f, l)
      BY <2>3 DEF Left, Issued, Spare
    <3>4. UNCHANGED stranded /\ disturbed \subseteq disturbed'
      BY <1>1, <1>6
    <3> QED
      BY <3>1, <3>2, <3>3, <3>4 DEF AccInv, DeletersOK, StrandedByATokenOnly, Kinds
  <2> QED
    BY <1>5, <1>7, <2>4, <2>5, <2>6, <2>7, <2>8 DEF AccInv
<1>10. CASE ~ Exists(e)
  <2>1. UNCHANGED <<token, owner>>
    BY <1>3, <1>10 DEF IssueToken
  <2>2. AccountsTypeOK'
    BY <1>1, <1>4, <1>6, <2>1 DEF AccInv, AccountsTypeOK, WorkersTyped
  <2>3. MadeOK'
    BY <1>1, <1>4, <2>1, MadeQuiet DEF Others
  <2>4. LinksOK' /\ MakersOK' /\ DeletersOK'
    BY <1>1, <1>2, <1>4, <1>6, <2>1, LinksQuiet, MakersQuiet, DeletersQuiet DEF Others
  <2> QED
    BY <1>5, <1>7, <2>2, <2>3, <2>4 DEF AccInv
<1> QED
  BY <1>9, <1>10

LEMMA PresentKeeps ==
  ASSUME AccInv, NEW c \in Clients, NEW t \in Tokens, Present(c, t)
  PROVE  AccInv'
<1> DEFINE j == [op |-> "present", of |-> t]
           s == IF owner[t][2] = "reset" THEN "password" ELSE "verify"
<1>1. /\ token[t] = "open" /\ Accept(c, j, s)
      /\ shared' = IF Carrying(t) # {} THEN shared \union {t} ELSE shared
      /\ UNCHANGED <<accountRows, resets, overlap, rivals, stranded, disturbed, upsets>>
  BY DEF Present
<1>2. j \in Jobs /\ j.op = "present" /\ j.of = t
  BY DEF Jobs
<1>3. PICK r \in {"password", "verify"} : r = s
  OBVIOUS
<1> HIDE DEF j, s
<1>4. r \in Steps
  BY DEF Steps
<1>5. /\ job[c].op = "none" /\ job'[c] = j /\ step'[c] = r
      /\ Others(c) /\ WorkersTyped'
  BY <1>1, <1>2, <1>3, <1>4, Accepts
<1>6. AccountsTypeOK'
  BY <1>1, <1>5 DEF AccInv, AccountsTypeOK, WorkersTyped, accountRows
<1>7. StepsOK'
  BY <1>2, <1>3, <1>5, InStep
<1>8. MadeOK'
  BY <1>1, <1>2, <1>5 DEF AccInv, MadeOK, Others, accountRows
<1>9. RivalsOK'
  BY <1>1, <1>2, <1>5, RivalsQuiet DEF Others, Exists, accountRows
<1>10. LinksOK'
  <2>1. \A u \in Tokens \ {t} : Carrying(u)' = Carrying(u)
    BY <1>2, <1>5 DEF Carrying, Others
  <2>2. Carrying(t)' = Carrying(t) \union {c}
    BY <1>2, <1>5 DEF Carrying, Others
  <2>3. \A u \in Tokens : \A d \in Carrying(u) : step'[d] = step[d]
    BY <1>5 DEF Carrying, Others
  <2>4. shared \subseteq shared' /\ (Carrying(t) # {} => t \in shared')
    BY <1>1
  <2>5. UNCHANGED <<token, resets>>
    BY <1>1 DEF accountRows
  <2>6. \A u \in Tokens \ {t} : u \notin shared' =>
          /\ resets'[u] <= 1
          /\ \A b, d \in Carrying(u)' : b = d
          /\ \A b \in Carrying(u)' : step'[b] \in {"password", "verify"} => resets'[u] = 0
          /\ token'[u] \in {"open", "unmade"} /\ Carrying(u)' = {} => resets'[u] = 0
    BY <2>1, <2>3, <2>4, <2>5 DEF AccInv, LinksOK
  <2>7. ASSUME t \notin shared'
        PROVE  resets'[t] = 0 /\ Carrying(t)' = {c}
    BY <1>1, <2>2, <2>4, <2>5, <2>7 DEF AccInv, LinksOK
  <2> QED
    BY <2>6, <2>7 DEF LinksOK
<1>11. MakersOK' /\ DeletersOK'
  BY <1>1, <1>2, <1>5, MakersQuiet, DeletersQuiet DEF Others, accountRows
<1> QED
  BY <1>6, <1>7, <1>8, <1>9, <1>10, <1>11 DEF AccInv

\* A step of the request with link t, as far as the links are concerned.
LEMMA LinkStep ==
  ASSUME AccInv, NEW c \in Clients, NEW t \in Tokens, c \in Carrying(t), Others(c),
         shared \subseteq shared', \A u \in Tokens \ {t} : resets'[u] = resets[u],
         \A u \in Tokens : token'[u] \in {"open", "unmade"} => token[u] \in {"open", "unmade"},
         \/ job'[c] = job[c]
         \/ job'[c].op = "none",
         t \notin shared' =>
           /\ resets'[t] <= 1
           /\ job'[c] = job[c] /\ step'[c] \in {"password", "verify"} => resets'[t] = 0
           /\ token'[t] \in {"open", "unmade"} /\ job'[c].op = "none" => resets'[t] = 0
  PROVE  LinksOK'
<1>1. \A u \in Tokens \ {t} : Carrying(u)' = Carrying(u)
  BY DEF Carrying, Others
<1>2. \A u \in Tokens \ {t} : \A d \in Carrying(u) : step'[d] = step[d]
  BY DEF Carrying, Others
<1>3. \A u \in Tokens \ {t} : u \notin shared' =>
        /\ resets'[u] <= 1
        /\ \A b, d \in Carrying(u)' : b = d
        /\ \A b \in Carrying(u)' : step'[b] \in {"password", "verify"} => resets'[u] = 0
        /\ token'[u] \in {"open", "unmade"} /\ Carrying(u)' = {} => resets'[u] = 0
  BY <1>1, <1>2 DEF AccInv, LinksOK
<1>4. ASSUME t \notin shared' PROVE \A d \in Carrying(t) : d = c
  BY <1>4 DEF AccInv, LinksOK
<1>5. ASSUME t \notin shared'
      PROVE  \/ Carrying(t)' = {c} /\ job'[c] = job[c]
             \/ Carrying(t)' = {} /\ job'[c].op = "none"
  BY <1>4, <1>5 DEF Carrying, Others
<1>6. t \notin shared' =>
        /\ resets'[t] <= 1
        /\ \A b, d \in Carrying(t)' : b = d
        /\ \A b \in Carrying(t)' : step'[b] \in {"password", "verify"} => resets'[t] = 0
        /\ token'[t] \in {"open", "unmade"} /\ Carrying(t)' = {} => resets'[t] = 0
  BY <1>5
<1> QED
  BY <1>3, <1>6 DEF LinksOK

\* The link a request carries, and what is known while nobody shares it.
LEMMA Carried ==
  ASSUME AccInv, NEW c \in Clients, job[c].op = "present"
  PROVE  /\ job[c].of \in Tokens /\ c \in Carrying(job[c].of)
         /\ token[job[c].of] # "unmade"
         /\ job[c].of \notin shared =>
              /\ resets[job[c].of] <= 1
              /\ step[c] \in {"password", "verify"} => resets[job[c].of] = 0
<1>1. job[c].of \in Tokens /\ token[job[c].of] # "unmade"
  BY JobFields DEF AccInv, MadeOK
<1>2. c \in Carrying(job[c].of)
  BY DEF Carrying
<1> QED
  BY <1>1, <1>2 DEF AccInv, LinksOK

LEMMA SavePasswordKeeps ==
  ASSUME AccInv, NEW c \in Clients, SavePassword(c)
  PROVE  AccInv'
<1>1. /\ step[c] = "password"
      /\ UNCHANGED <<accountRows, shared, overlap, rivals, stranded, disturbed, upsets>>
  BY DEF SavePassword
<1>2. job[c].op = "present"
  BY <1>1 DEF AccInv, StepsOK
<1>3. PICK t \in Tokens : /\ t = job[c].of /\ c \in Carrying(t)
                          /\ t \notin shared => resets[t] = 0
  BY <1>1, <1>2, Carried
<1>4. resets \in [Tokens -> Nat]
  BY DEF AccInv, AccountsTypeOK
<1>5. CASE Exists(owner[t][1])
  <2>1. resets' = [resets EXCEPT ![t] = @ + 1] /\ Proceed(c, "mark")
    BY <1>3, <1>5 DEF SavePassword
  <2>2. /\ resets' \in [Tokens -> Nat] /\ resets'[t] = resets[t] + 1
        /\ \A u \in Tokens \ {t} : resets'[u] = resets[u]
    BY <1>4, <2>1
  <2>3. job' = job /\ step'[c] = "mark" /\ Others(c) /\ WorkersTyped'
    BY <2>1, Proceeded DEF Steps
  <2>4. AccountsTypeOK' /\ StepsOK'
    BY <1>1, <1>2, <2>2, <2>3, InStep DEF AccInv, AccountsTypeOK, WorkersTyped, accountRows
  <2>5. LinksOK'
    BY <1>1, <1>2, <1>3, <2>2, <2>3, LinkStep DEF accountRows
  <2>6. MadeOK' /\ RivalsOK'
    BY <1>1, <2>3, MadeQuiet, RivalsQuiet DEF Exists, accountRows
  <2>7. MakersOK' /\ DeletersOK'
    BY <1>1, <1>2, <2>3, MakersQuiet, DeletersQuiet DEF Others, accountRows
  <2> QED
    BY <2>4, <2>5, <2>6, <2>7 DEF AccInv
<1>6. CASE ~ Exists(owner[t][1])
  <2>1. UNCHANGED resets /\ Answer(c)
    BY <1>3, <1>6 DEF SavePassword
  <2>2. /\ job'[c].op = "none" /\ step'[c] = "ready"
        /\ Others(c) /\ WorkersTyped'
    BY <2>1, Answered
  <2>3. AccountsTypeOK' /\ StepsOK'
    BY <1>1, <2>1, <2>2, InStep DEF AccInv, AccountsTypeOK, WorkersTyped, accountRows
  <2>4. LinksOK'
    BY <1>1, <1>2, <1>3, <2>1, <2>2, LinkStep DEF accountRows
  <2>5. MadeOK' /\ RivalsOK'
    BY <1>1, <2>2, MadeQuiet, RivalsQuiet DEF Others, Exists, accountRows
  <2>6. MakersOK' /\ DeletersOK'
    BY <1>1, <1>2, <2>2, MakersQuiet, DeletersQuiet DEF Others, accountRows
  <2> QED
    BY <2>3, <2>4, <2>5, <2>6 DEF AccInv
<1> QED
  BY <1>5, <1>6

LEMMA SaveVerifiedKeeps ==
  ASSUME AccInv, NEW c \in Clients, SaveVerified(c)
  PROVE  AccInv'
<1>1. /\ step[c] = "verify"
      /\ UNCHANGED <<account, token, owner, accountGhosts>>
  BY DEF SaveVerified
<1>2. job[c].op = "present"
  BY <1>1 DEF AccInv, StepsOK
<1>3. PICK t \in Tokens : /\ t = job[c].of /\ c \in Carrying(t)
                          /\ t \notin shared => resets[t] = 0
  BY <1>1, <1>2, Carried
<1>4. /\ \/ job' = job /\ step'[c] = "mark"
         \/ job'[c].op = "none" /\ step'[c] = "ready"
      /\ Others(c) /\ WorkersTyped'
  <2>1. Proceed(c, "mark") \/ Answer(c)
    BY DEF SaveVerified
  <2>2. "mark" \in Steps
    BY DEF Steps
  <2> QED
    BY <2>1, <2>2, Proceeded, Answered
<1>5. verified' \in [Emails -> BOOLEAN]
  BY DEF SaveVerified, AccInv, AccountsTypeOK
<1>6. AccountsTypeOK' /\ StepsOK'
  BY <1>1, <1>2, <1>4, <1>5, InStep DEF AccInv, AccountsTypeOK, WorkersTyped, accountGhosts
<1>7. LinksOK'
  BY <1>1, <1>2, <1>3, <1>4, LinkStep DEF accountGhosts
<1>8. MadeOK' /\ RivalsOK'
  BY <1>1, <1>4, MadeQuiet, RivalsQuiet DEF Others, Exists, accountGhosts
<1>9. MakersOK' /\ DeletersOK'
  BY <1>1, <1>2, <1>4, MakersQuiet, DeletersQuiet DEF Others, accountGhosts
<1> QED
  BY <1>6, <1>7, <1>8, <1>9 DEF AccInv

LEMMA MarkKeeps ==
  ASSUME AccInv, NEW c \in Clients, MarkToken(c)
  PROVE  AccInv'
<1>1. /\ step[c] = "mark" /\ Answer(c)
      /\ UNCHANGED <<account, verified, owner, accountGhosts>>
  BY DEF MarkToken
<1>2. job[c].op = "present"
  BY <1>1 DEF AccInv, StepsOK
<1>3. PICK t \in Tokens : /\ t = job[c].of /\ c \in Carrying(t) /\ token[t] # "unmade"
                          /\ t \notin shared => resets[t] <= 1
  BY <1>2, Carried
<1>4. token' = IF token[t] = "gone" THEN token ELSE [token EXCEPT ![t] = "used"]
  BY <1>3 DEF MarkToken
<1>5. /\ token' \in [Tokens -> {"unmade", "open", "lapsed", "used", "gone"}]
      /\ token'[t] \in {"used", "gone"} /\ \A u \in Tokens \ {t} : token'[u] = token[u]
      /\ token'[t] = "used" => token[t] \notin {"unmade", "gone"}
  BY <1>3, <1>4 DEF AccInv, AccountsTypeOK
<1>6. /\ job'[c].op = "none" /\ step'[c] = "ready"
      /\ Others(c) /\ WorkersTyped'
  BY <1>1, Answered
<1>7. AccountsTypeOK' /\ StepsOK'
  BY <1>1, <1>5, <1>6, InStep DEF AccInv, AccountsTypeOK, WorkersTyped, accountGhosts
<1>8. LinksOK'
  BY <1>1, <1>2, <1>3, <1>5, <1>6, LinkStep DEF accountGhosts
<1>9. MadeOK' /\ RivalsOK'
  BY <1>1, <1>3, <1>5, <1>6, MadeQuiet, RivalsQuiet DEF Others, Exists, accountGhosts
<1>10. MakersOK' /\ DeletersOK'
  BY <1>1, <1>2, <1>5, <1>6, MakersQuiet, DeletersQuiet DEF Others, accountGhosts
<1> QED
  BY <1>7, <1>8, <1>9, <1>10 DEF AccInv

LEMMA LapseKeeps ==
  ASSUME AccInv, NEW t \in Tokens, Lapse(t)
  PROVE  AccInv'
<1>1. /\ token[t] = "open" /\ token' = [token EXCEPT ![t] = "lapsed"]
      /\ upsets < MaxUpsets /\ upsets' = upsets + 1
      /\ UNCHANGED <<account, verified, owner, step, job, requests, resets, shared, overlap,
                     rivals, stranded, disturbed>>
  BY DEF Lapse, Upset
<1>2. /\ token' \in [Tokens -> {"unmade", "open", "lapsed", "used", "gone"}]
      /\ token'[t] = "lapsed" /\ \A u \in Tokens \ {t} : token'[u] = token[u]
  BY <1>1 DEF AccInv, AccountsTypeOK
<1>3. AccountsTypeOK' /\ StepsOK'
  BY <1>1, <1>2 DEF AccInv, AccountsTypeOK, StepsOK
<1>4. MadeOK' /\ RivalsOK'
  BY <1>1, <1>2, MadeQuiet, RivalsQuiet DEF Exists
<1>5. LinksOK' /\ MakersOK' /\ DeletersOK'
  BY <1>1, <1>2, LinksQuiet, MakersQuiet, DeletersQuiet
<1> QED
  BY <1>3, <1>4, <1>5 DEF AccInv

LEMMA DeleteAccountKeeps ==
  ASSUME AccInv, NEW c \in Clients, NEW e \in Emails, DeleteAccount(c, e)
  PROVE  AccInv'
<1> DEFINE j == [op |-> "delete", of |-> e]
<1>1. /\ account[e] = "active" /\ Accept(c, j, "dropVerify")
      /\ UNCHANGED <<accountRows, accountGhosts>>
  BY DEF DeleteAccount
<1>2. j \in Jobs /\ j.op = "delete" /\ j.of = e /\ "dropVerify" \in Steps
  BY DEF Jobs, Steps
<1> HIDE DEF j
<1>3. /\ job[c].op = "none" /\ job'[c] = j /\ step'[c] = "dropVerify"
      /\ Others(c) /\ WorkersTyped'
  BY <1>1, <1>2, Accepts
<1>4. AccountsTypeOK' /\ StepsOK'
  BY <1>1, <1>2, <1>3, InStep DEF AccInv, AccountsTypeOK, WorkersTyped, accountRows, accountGhosts
<1>5. MadeOK'
  BY <1>1, <1>2, <1>3 DEF AccInv, MadeOK, Others, accountRows
<1>6. RivalsOK'
  BY <1>1, <1>2, <1>3, RivalsQuiet DEF Others, Exists, accountRows, accountGhosts
<1>7. LinksOK' /\ MakersOK'
  BY <1>1, <1>2, <1>3, LinksQuiet, MakersQuiet DEF Others, accountRows, accountGhosts
<1>8. DeletersOK'
  <2>1. \A f \in Emails : \A d \in Deleting(f)' :
          \/ d \in Deleting(f) /\ step'[d] = step[d]
          \/ step'[d] = "dropVerify"
    BY <1>3 DEF Deleting, Others
  <2>2. \A f \in Emails, k \in Kinds : Left(f, k)' = Left(f, k)
    BY <1>1 DEF Left, Issued, Spare, accountRows
  <2>3. UNCHANGED <<stranded, disturbed>>
    BY <1>1 DEF accountGhosts
  <2> QED
    BY <2>1, <2>2, <2>3 DEF AccInv, DeletersOK, StrandedByATokenOnly, Kinds
<1> QED
  BY <1>4, <1>5, <1>6, <1>7, <1>8 DEF AccInv

\* The deletion of the tokens of a kind, by the request that goes on to step s.
LEMMA DropTokens ==
  ASSUME AccInv, NEW c \in Clients, NEW k \in Kinds, NEW s \in {"dropReset", "dropUser"},
         job[c].op = "delete", token' = Without(job[c].of, k), Proceed(c, s),
         UNCHANGED <<account, verified, owner, accountGhosts>>,
         s = "dropReset" => k = "verify",
         s = "dropUser" => k = "reset" /\ step[c] = "dropReset"
  PROVE  AccInv'
<1>1. PICK e \in Emails : e = job[c].of
  BY JobFields DEF AccInv
<1>2. \A t \in Tokens : token'[t] = IF t \in Issued(e, k) THEN "gone" ELSE token[t]
  BY <1>1 DEF Without
<1>3. \A t \in Tokens : /\ token'[t] = token[t] \/ token'[t] = "gone"
                        /\ token'[t] = "unmade" <=> token[t] = "unmade"
  BY <1>2 DEF Issued, Spare
<1>4. token' \in [Tokens -> {"unmade", "open", "lapsed", "used", "gone"}]
  BY <1>1 DEF Without, AccInv, AccountsTypeOK
<1>5. job' = job /\ step'[c] = s /\ Others(c) /\ WorkersTyped'
  BY Proceeded DEF Steps
<1>6. AccountsTypeOK' /\ StepsOK'
  BY <1>4, <1>5, InStep DEF AccInv, AccountsTypeOK, WorkersTyped, accountGhosts
<1>7. MadeOK' /\ RivalsOK'
  BY <1>3, <1>5, MadeQuiet, RivalsQuiet DEF Exists, accountGhosts
<1>8. LinksOK' /\ MakersOK'
  BY <1>3, <1>5, LinksQuiet, MakersQuiet DEF Others, accountGhosts
<1>9. DeletersOK'
  <2>1. Left(e, k)' = {}
    BY <1>2, <1>3 DEF Left, Issued, Spare
  <2>2. \A f \in Emails, l \in Kinds : Left(f, l)' \subseteq Left(f, l)
    BY <1>3 DEF Left, Issued, Spare, accountGhosts
  <2>3. ASSUME NEW f \in Emails, NEW d \in Deleting(f)'
        PROVE  d \in Deleting(f) /\ (step'[d] = step[d] \/ (d = c /\ f = e))
    BY <1>1, <1>5, <2>3 DEF Deleting, Others
  <2>4. UNCHANGED <<stranded, disturbed>>
    BY DEF accountGhosts
  <2> QED
    BY <1>5, <2>1, <2>2, <2>3, <2>4 DEF AccInv, DeletersOK, StrandedByATokenOnly, Kinds
<1> QED
  BY <1>6, <1>7, <1>8, <1>9 DEF AccInv

LEMMA DropUserKeeps ==
  ASSUME AccInv, NEW c \in Clients, DropUser(c)
  PROVE  AccInv'
<1>1. /\ step[c] = "dropUser" /\ Answer(c)
      /\ UNCHANGED <<verified, token, owner, resets, shared, overlap, rivals,
                     disturbed, upsets>>
  BY DEF DropUser
<1>2. job[c].op = "delete"
  BY <1>1 DEF AccInv, StepsOK
<1>3. PICK e \in Emails : e = job[c].of
  BY <1>2, JobFields DEF AccInv
<1>4. /\ \/ account' = [account EXCEPT ![e] = "deleted"]
         \/ UNCHANGED account
      /\ stranded' = stranded \/ (RowsOf(e) # {} /\ stranded' = stranded \union {e})
  BY <1>3 DEF DropUser
<1>5. /\ account' \in [Emails -> {"absent", "active", "inactive", "deleted"}]
      /\ \A f \in Emails : account'[f] = account[f] \/ account'[f] = "deleted"
  BY <1>4 DEF AccInv, AccountsTypeOK
<1>6. /\ job'[c].op = "none" /\ step'[c] = "ready"
      /\ Others(c) /\ WorkersTyped'
  BY <1>1, Answered
<1>7. AccountsTypeOK' /\ StepsOK'
  BY <1>1, <1>4, <1>5, <1>6, InStep DEF AccInv, AccountsTypeOK, WorkersTyped
<1>8. MadeOK' /\ RivalsOK'
  BY <1>1, <1>5, <1>6, MadeQuiet, RivalsQuiet DEF Others, Exists
<1>9. LinksOK' /\ MakersOK'
  BY <1>1, <1>2, <1>6, LinksQuiet, MakersQuiet DEF Others
<1>10. DeletersOK'
  <2>1. RowsOf(e) = Left(e, "verify") \union Left(e, "reset")
    BY DEF RowsOf, Left
  <2>2. c \in Deleting(e)
    BY <1>2, <1>3 DEF Deleting
  <2>3. RowsOf(e) # {} => e \in disturbed
    BY <1>1, <2>1, <2>2 DEF AccInv, DeletersOK
  <2>4. \A f \in Emails, k \in Kinds : Left(f, k)' = Left(f, k)
    BY <1>1 DEF Left, Issued, Spare
  <2>5. \A f \in Emails : \A d \in Deleting(f)' : d \in Deleting(f) /\ step'[d] = step[d]
    BY <1>6 DEF Deleting, Others
  <2> QED
    BY <1>1, <1>4, <2>3, <2>4, <2>5 DEF AccInv, DeletersOK, StrandedByATokenOnly, Kinds
<1> QED
  BY <1>7, <1>8, <1>9, <1>10 DEF AccInv

LEMMA SwitchAccountKeeps ==
  ASSUME AccInv, NEW e \in Emails, SwitchAccount(e)
  PROVE  AccInv'
<1>1. /\ Exists(e) /\ upsets < MaxUpsets /\ upsets' = upsets + 1
      /\ account' = [account EXCEPT ![e] = IF @ = "active" THEN "inactive" ELSE "active"]
      /\ UNCHANGED <<verified, token, owner, step, job, requests, resets, shared, overlap,
                     rivals, stranded, disturbed>>
  BY DEF SwitchAccount, Upset
<1>2. /\ account' \in [Emails -> {"absent", "active", "inactive", "deleted"}]
      /\ account'[e] \in {"active", "inactive"} /\ \A f \in Emails \ {e} : account'[f] = account[f]
  BY <1>1 DEF AccInv, AccountsTypeOK
<1>3. \A f \in Emails : /\ Exists(f)' = Exists(f)
                        /\ account'[f] = "absent" => account[f] = "absent"
  BY <1>1, <1>2 DEF Exists
<1>4. AccountsTypeOK' /\ StepsOK'
  BY <1>1, <1>2 DEF AccInv, AccountsTypeOK, StepsOK
<1>5. MadeOK' /\ RivalsOK'
  BY <1>1, <1>3, MadeQuiet, RivalsQuiet
<1>6. LinksOK' /\ MakersOK' /\ DeletersOK'
  BY <1>1, LinksQuiet, MakersQuiet, DeletersQuiet
<1> QED
  BY <1>4, <1>5, <1>6 DEF AccInv

LEMMA LoseClientKeeps ==
  ASSUME AccInv, NEW c \in Clients, LoseClient(c)
  PROVE  AccInv'
<1>1. /\ upsets < MaxUpsets /\ upsets' = upsets + 1
      /\ shared' = IF job[c].op = "present" THEN shared \union {job[c].of} ELSE shared
      /\ Answer(c)
      /\ UNCHANGED <<accountRows, resets, overlap, rivals, stranded, disturbed>>
  BY DEF LoseClient, Upset
<1>2. /\ job'[c].op = "none" /\ step'[c] = "ready"
      /\ Others(c) /\ WorkersTyped'
  BY <1>1, Answered
<1>3. shared' \subseteq Tokens
  BY <1>1, JobFields DEF AccInv, AccountsTypeOK
<1>4. AccountsTypeOK' /\ StepsOK'
  BY <1>1, <1>2, <1>3, InStep DEF AccInv, AccountsTypeOK, WorkersTyped, accountRows
<1>5. MadeOK' /\ RivalsOK'
  BY <1>1, <1>2, MadeQuiet, RivalsQuiet DEF Others, Exists, accountRows
<1>6. MakersOK' /\ DeletersOK'
  BY <1>1, <1>2, MakersQuiet, DeletersQuiet DEF Others, accountRows
<1>7. LinksOK'
  <2>1. CASE job[c].op = "present"
    <3>1. PICK t \in Tokens : t = job[c].of /\ c \in Carrying(t)
      BY <2>1, Carried
    <3>2. t \in shared' /\ shared \subseteq shared'
      BY <1>1, <2>1, <3>1
    <3> QED
      BY <1>1, <1>2, <3>1, <3>2, LinkStep DEF accountRows
  <2>2. CASE job[c].op # "present"
    BY <1>1, <1>2, <2>2, LinksQuiet DEF Others, accountRows
  <2> QED
    BY <2>1, <2>2
<1> QED
  BY <1>4, <1>5, <1>6, <1>7 DEF AccInv

LEMMA AccInvStep == AccInv /\ [AccountsNext]_accountVars => AccInv'
<1> SUFFICES ASSUME AccInv, [AccountsNext]_accountVars PROVE AccInv'
  OBVIOUS
<1>1. ASSUME NEW c \in Clients, Request(c) PROVE AccInv'
  <2>1. ASSUME NEW e \in Emails, Forgot(c, e) \/ Resend(c, e) PROVE AccInv'
    <3>1. account[e] # "absent" /\ \E k \in Kinds : MakeToken(c, e, k)
      BY <2>1 DEF Forgot, Resend, Kinds
    <3> QED
      BY <3>1, MakeTokenKeeps
  <2> QED
    BY <1>1, <2>1, SignupKeeps, DeleteAccountKeeps, PresentKeeps DEF Request
<1>2. ASSUME NEW c \in Clients, Handle(c) PROVE AccInv'
  <2>1. CASE DropVerifyTokens(c)
    <3>1. job[c].op = "delete" /\ "verify" \in Kinds
      BY <2>1 DEF DropVerifyTokens, AccInv, StepsOK, Kinds
    <3> QED
      BY <2>1, <3>1, DropTokens DEF DropVerifyTokens
  <2>2. CASE DropResetTokens(c)
    <3>1. job[c].op = "delete" /\ "reset" \in Kinds
      BY <2>2 DEF DropResetTokens, AccInv, StepsOK, Kinds
    <3> QED
      BY <2>2, <3>1, DropTokens DEF DropResetTokens
  <2> QED
    BY <1>2, <2>1, <2>2, CreateUserKeeps, InvalidateKeeps, IssueKeeps, SavePasswordKeeps,
       SaveVerifiedKeeps, MarkKeeps, DropUserKeeps DEF Handle
<1>3. CASE UNCHANGED accountVars
  <2>1. AccountsTypeOK' /\ StepsOK'
    BY <1>3 DEF AccInv, AccountsTypeOK, StepsOK, accountVars, accountRows, accountGhosts
  <2>2. MadeOK' /\ RivalsOK'
    BY <1>3, MadeQuiet, RivalsQuiet DEF Exists, accountVars, accountRows, accountGhosts
  <2>3. LinksOK' /\ MakersOK' /\ DeletersOK'
    BY <1>3, LinksQuiet, MakersQuiet, DeletersQuiet DEF accountVars, accountRows, accountGhosts
  <2> QED
    BY <2>1, <2>2, <2>3 DEF AccInv
<1> QED
  BY <1>1, <1>2, <1>3, LoseClientKeeps, LapseKeeps, SwitchAccountKeeps DEF AccountsNext

-----------------------------------------------------------------------------
(* The theorems *)

LEMMA AccountsAlways == AccountsSpec => []AccInv
BY AccInvInit, AccInvStep, PTL DEF AccountsSpec

(* Every row, request and counter keeps its type (the models of auth_core).  *)
THEOREM AccountsTypes == AccountsSpec => []AccountsTypeOK
<1>1. AccInv => AccountsTypeOK
  BY DEF AccInv
<1> QED
  BY <1>1, AccountsAlways, PTL

(* An account has one unused token of a kind at most, unless two requests    *)
(* made tokens for it at once (ForgotPasswordView and the resend view).      *)
THEOREM LastLinkOnly == AccountsSpec => []OneUnusedToken
<1>1. AccInv => OneUnusedToken
  BY DEF AccInv, MakersOK, OneUnusedToken
<1> QED
  BY <1>1, AccountsAlways, PTL

(* A link changes the password once, unless two requests carried it at once  *)
(* or a worker was lost with it (ResetPasswordView).                         *)
THEOREM LinkWorksOnce == AccountsSpec => []OneResetPerLink
<1>1. AccInv => OneResetPerLink
  BY DEF AccInv, LinksOK, OneResetPerLink
<1> QED
  BY <1>1, AccountsAlways, PTL

(* Addresses that differ in case alone belong to one account, unless two     *)
(* requests signed up with them at once (SignupSerializer.validate_email).   *)
THEOREM AddressesApart == AccountsSpec => []OneAccountPerAddress
<1>1. AccInv => OneAccountPerAddress
  BY DEF AccInv, RivalsOK
<1> QED
  BY <1>1, AccountsAlways, PTL

(* As far as the mailed tokens go, a deletion fails half done only if one    *)
(* was made for the account meanwhile (_delete_user_manually).               *)
THEOREM StrandedByATokenMade == AccountsSpec => []StrandedByATokenOnly
<1>1. AccInv => StrandedByATokenOnly
  BY DEF AccInv, DeletersOK
<1> QED
  BY <1>1, AccountsAlways, PTL

-----------------------------------------------------------------------------
(* Sessions *)

HIDE AccountsAssumption
USE SessionsAssumption

Claims == [login : Logins \union {0}, org : Hosts \union {0}, role : Roles \union {NoRole}]

Minted(t) == refresh[t] # NoClaims

\* A role the user has was noted.
HeldNow == \A o \in Hosts : role[o] # NoRole => <<o, role[o]>> \in held

\* The role a token names was held in the organization it names.
TokensOK ==
  /\ \A t \in Refreshes : Minted(t) => refresh[t].login \in Logins
  /\ \A t \in Refreshes :
       refresh[t].org # 0 =>
         /\ refresh[t].org \in Hosts
         /\ <<refresh[t].org, refresh[t].role>> \in held

\* A session that ended has a token.
EndedOK == \A l \in ended : \E t \in Refreshes : refresh[t].login = l

CarriesOK ==
  \A b \in Tabs :
    \/ tab[b] = "ready" /\ carries[b] = {}
    \/ tab[b] # "ready" /\ \E t \in Refreshes : carries[b] = {t} /\ Minted(t)

\* A request that alone carries a token of its session carries the good one.
CarriesGood ==
  \A l \in Logins \ forked :
    /\ \A b, c \in Carriers(l) : b = c
    /\ \A b \in Tabs, t \in Refreshes :
         t \in carries[b] /\ refresh[t].login = l =>
           l \notin ended /\ \A u \in Good(l) : u = t

SessInv ==
  /\ SessionsTypeOK
  /\ HeldNow /\ TokensOK /\ RoleWasHeldThere /\ EndedOK
  /\ CarriesOK /\ CarriesGood /\ OneGoodToken

-----------------------------------------------------------------------------
(* active_membership finds a membership *)

\* A finite set of numbers that is not empty has a greatest one.
LEMMA Greatest ==
  ASSUME NEW S \in SUBSET Nat, IsFiniteSet(S), S # {}
  PROVE  \E m \in S : \A n \in S : n <= m
<1> DEFINE Bad == {T \in FiniteSubsetsOf(S) : T # {} /\ ~ \E m \in T : \A n \in T : n <= m}
<1>1. SUFFICES ASSUME Bad # {} PROVE FALSE
  <2>1. S \in FiniteSubsetsOf(S)
    BY DEF FiniteSubsetsOf
  <2> QED
    BY <1>1, <2>1
<1>2. IsWellFoundedOn(StrictSubsetOrdering(S), FiniteSubsetsOf(S))
  BY FS_StrictSubsetOrderingWellFounded
<1>3. PICK T \in Bad : \A U \in Bad : <<U, T>> \notin StrictSubsetOrdering(S)
  <2>1. Bad \subseteq FiniteSubsetsOf(S)
    OBVIOUS
  <2> HIDE DEF Bad
  <2> QED
    BY <1>1, <1>2, <2>1, WFMin
<1>4. T \in SUBSET S /\ IsFiniteSet(T) /\ T # {} /\ ~ \E m \in T : \A n \in T : n <= m
  BY <1>3 DEF FiniteSubsetsOf
<1>5. PICK x \in T : TRUE
  BY <1>4
<1>6. T \ {x} \in FiniteSubsetsOf(S)
  BY <1>4, FS_Subset DEF FiniteSubsetsOf
<1>7. <<T \ {x}, T>> \in StrictSubsetOrdering(S)
  BY <1>4, <1>5 DEF StrictSubsetOrdering
<1>8. T \ {x} \notin Bad
  BY <1>3, <1>7
<1>9. CASE T \ {x} = {}
  BY <1>4, <1>5, <1>9
<1>10. CASE T \ {x} # {}
  <2>1. PICK m \in T \ {x} : \A n \in T \ {x} : n <= m
    BY <1>6, <1>8, <1>10
  <2> QED
    BY <1>4, <1>5, <2>1
<1> QED
  BY <1>9, <1>10

LEMMA LastJoined ==
  ASSUME SessionsTypeOK
  PROVE  /\ ActiveMembership.org \in Hosts \union {0}
         /\ ActiveMembership.role \in HeldRoles \union {NoRole}
         /\ ActiveMembership.org # 0 =>
              /\ ActiveMembership.org \in Hosts
              /\ ActiveMembership.role = role[ActiveMembership.org]
              /\ ActiveMembership.role # NoRole
<1> DEFINE joined == {o \in Hosts : role[o] # NoRole}
           last == CHOOSE p \in joined : \A q \in joined : q <= p
<1>1. CASE joined = {}
  BY <1>1 DEF ActiveMembership
<1>2. CASE joined # {}
  <2>1. joined \in SUBSET Nat /\ IsFiniteSet(joined)
    BY FS_Subset
  <2>2. \E p \in joined : \A q \in joined : q <= p
    <3> HIDE DEF joined
    <3> QED
      BY <1>2, <2>1, Greatest
  <2>3. last \in joined
    BY <2>2
  <2>4. last \in Hosts /\ role[last] \in HeldRoles /\ role[last] # NoRole
    BY <2>3 DEF SessionsTypeOK
  <2>5. ActiveMembership = [org |-> last, role |-> role[last]]
    BY <1>2 DEF ActiveMembership
  <2> QED
    BY <2>4, <2>5
<1> QED
  BY <1>1, <1>2

-----------------------------------------------------------------------------
(* The inductive invariant *)

LEMMA SessInvInit == SessionsInit => SessInv
<1> SUFFICES ASSUME SessionsInit PROVE SessInv
  OBVIOUS
<1>1. SessionsTypeOK /\ HeldNow
  BY DEF SessionsInit, SessionsTypeOK, NoClaims, HeldNow
<1>2. TokensOK /\ RoleWasHeldThere
  BY DEF SessionsInit, TokensOK, Minted, RoleWasHeldThere, NoClaims
<1>3. \A l \in Logins : Carriers(l) = {} /\ Good(l) = {}
  BY DEF SessionsInit, Carriers, Good, NoClaims
<1> QED
  BY <1>1, <1>2, <1>3 DEF SessInv, SessionsInit, EndedOK, CarriesOK, CarriesGood, OneGoodToken

\* The parts that do not mention the requests stay with the tokens.
LEMMA SameTokens ==
  ASSUME SessInv, UNCHANGED <<refresh, allowed>>, held \subseteq held'
  PROVE  TokensOK' /\ RoleWasHeldThere'
BY DEF SessInv, TokensOK, Minted, RoleWasHeldThere

\* And the parts about requests when those and the tokens stay.
LEMMA SameRequests ==
  ASSUME SessInv, UNCHANGED <<refresh, blacklist, tab, carries, forked, ended>>
  PROVE  EndedOK' /\ CarriesOK' /\ CarriesGood' /\ OneGoodToken'
BY DEF SessInv, EndedOK, CarriesOK, Minted, CarriesGood, OneGoodToken, Good, Carriers

LEMMA LoginKeeps ==
  ASSUME SessInv, NEW l \in Logins, Login(l)
  PROVE  SessInv'
<1> DEFINE t == CHOOSE u \in Unminted : TRUE
           c == [login |-> l, org |-> ActiveMembership.org, role |-> ActiveMembership.role]
<1>1. t \in Refreshes /\ refresh[t] = NoClaims
  BY DEF Login, Unminted
<1>2. /\ refresh' = [refresh EXCEPT ![t] = c]
      /\ roleAt' = [roleAt EXCEPT ![t] = ActiveMembership.role]
      /\ UNCHANGED <<role, blacklist, tab, carries, held, forked, ended, allowed, roleEdits>>
      /\ \A u \in Refreshes : refresh[u].login # l
  BY DEF Login
<1>3. /\ c \in Claims /\ c.login = l /\ c # NoClaims
      /\ c.org # 0 => c.org \in Hosts /\ <<c.org, c.role>> \in held
  BY LastJoined DEF Claims, NoClaims, SessInv, HeldNow
<1> HIDE DEF t, c
<1>4. /\ refresh \in [Refreshes -> Claims] /\ refresh'[t] = c
      /\ \A u \in Refreshes \ {t} : refresh'[u] = refresh[u]
  BY <1>1, <1>2 DEF SessInv, SessionsTypeOK, Claims
<1>5. SessionsTypeOK' /\ HeldNow'
  <2>1. roleAt' \in [Refreshes -> HeldRoles \union {NoRole}]
    BY <1>1, <1>2, LastJoined DEF SessInv, SessionsTypeOK
  <2> QED
    BY <1>1, <1>2, <1>3, <2>1 DEF SessInv, SessionsTypeOK, Claims, HeldNow
<1>6. TokensOK'
  <2>1. ASSUME NEW u \in Refreshes, Minted(u)' PROVE refresh'[u].login \in Logins
    BY <1>3, <1>4, <2>1 DEF SessInv, TokensOK, Minted
  <2>2. ASSUME NEW u \in Refreshes, refresh'[u].org # 0
        PROVE  /\ refresh'[u].org \in Hosts
               /\ <<refresh'[u].org, refresh'[u].role>> \in held
    <3>1. CASE u = t
      BY <1>3, <1>4, <2>2, <3>1
    <3>2. CASE u # t
      BY <1>4, <2>2, <3>2 DEF SessInv, TokensOK
    <3> QED
      BY <3>1, <3>2
  <2> QED
    BY <1>2, <2>1, <2>2 DEF TokensOK
<1>7. RoleWasHeldThere'
  BY <1>2 DEF SessInv, RoleWasHeldThere
<1>8. CarriesOK'
  <2>1. \A b \in Tabs, u \in Refreshes : carries[b] = {u} /\ Minted(u) => Minted(u)'
    BY <1>1, <1>4 DEF Minted
  <2> QED
    BY <1>2, <2>1 DEF SessInv, CarriesOK
<1>9. ASSUME NEW b \in Tabs, NEW u \in Refreshes, u \in carries[b]
      PROVE  u # t
  BY <1>1, <1>9 DEF SessInv, CarriesOK, Minted
<1>10. \A m \in Logins \ {l} : Good(m)' = Good(m) /\ Carriers(m)' = Carriers(m)
  <2> SUFFICES ASSUME NEW m \in Logins \ {l}
               PROVE  Good(m)' = Good(m) /\ Carriers(m)' = Carriers(m)
    OBVIOUS
  <2>1. \A u \in Refreshes : refresh'[u].login = m <=> refresh[u].login = m
    BY <1>1, <1>3, <1>4 DEF NoClaims
  <2>2. \A b \in Tabs : carries[b] \subseteq Refreshes
    BY DEF SessInv, SessionsTypeOK
  <2> QED
    BY <1>2, <2>1, <2>2 DEF Good, Carriers
<1>11. Good(l)' \subseteq {t} /\ Carriers(l)' = {}
  <2>1. \A u \in Refreshes : refresh'[u].login = l => u = t
    BY <1>2, <1>4
  <2>2. \A b \in Tabs : carries[b] \subseteq Refreshes
    BY DEF SessInv, SessionsTypeOK
  <2> QED
    BY <1>2, <1>9, <2>1, <2>2 DEF Good, Carriers
<1>12. l \notin ended
  BY <1>2 DEF SessInv, EndedOK
<1>13. EndedOK'
  BY <1>1, <1>2, <1>4 DEF SessInv, SessionsTypeOK, EndedOK, NoClaims
<1>14. OneGoodToken'
  <2>1. ASSUME NEW m \in Logins, m \notin forked
        PROVE  (\A u, v \in Good(m)' : u = v) /\ (m \in ended => Good(m)' = {})
    BY <1>10, <1>11, <1>12, <2>1 DEF SessInv, OneGoodToken
  <2> QED
    BY <1>2, <2>1 DEF OneGoodToken
<1>15. CarriesGood'
  <2> SUFFICES ASSUME NEW m \in Logins, m \notin forked
               PROVE  /\ \A b, d \in Carriers(m)' : b = d
                      /\ \A b \in Tabs, u \in Refreshes :
                           u \in carries[b] /\ refresh'[u].login = m =>
                             m \notin ended /\ \A v \in Good(m)' : v = u
    BY <1>2 DEF CarriesGood
  <2>1. CASE m = l
    <3>1. \A u \in Refreshes : refresh'[u].login = l => u = t
      BY <1>2, <1>4
    <3> QED
      BY <1>9, <1>11, <2>1, <3>1
  <2>2. CASE m # l
    <3>1. Good(m)' = Good(m) /\ Carriers(m)' = Carriers(m)
      BY <1>10, <2>2
    <3>2. \A b \in Tabs, u \in Refreshes : u \in carries[b] => refresh'[u] = refresh[u]
      BY <1>4, <1>9
    <3> QED
      BY <3>1, <3>2 DEF SessInv, CarriesGood
  <2> QED
    BY <2>1, <2>2
<1> QED
  BY <1>5, <1>6, <1>7, <1>8, <1>13, <1>14, <1>15 DEF SessInv

LEMMA CheckKeeps ==
  ASSUME SessInv, NEW b \in Tabs, NEW op \in {"refresh", "logout"}, NEW t \in Refreshes,
         CheckToken(b, op, t)
  PROVE  SessInv'
<1> DEFINE l == refresh[t].login
<1>1. /\ tab[b] = "ready" /\ Minted(t) /\ t \notin blacklist
      /\ tab' = [tab EXCEPT ![b] = op]
      /\ carries' = [carries EXCEPT ![b] = {t}]
      /\ forked' = IF Carriers(l) # {} THEN forked \union {l} ELSE forked
      /\ UNCHANGED <<role, refresh, blacklist, held, roleAt, ended, allowed, roleEdits>>
  BY DEF CheckToken, Minted
<1>2. l \in Logins /\ carries[b] = {}
  BY <1>1 DEF SessInv, TokensOK, CarriesOK
<1>3. /\ \A c \in Tabs : carries'[c] = IF c = b THEN {t} ELSE carries[c]
      /\ tab'[b] = op /\ \A c \in Tabs \ {b} : tab'[c] = tab[c]
  BY <1>1 DEF SessInv, SessionsTypeOK
<1>4. SessionsTypeOK'
  BY <1>1, <1>2 DEF SessInv, SessionsTypeOK
<1>5. TokensOK' /\ RoleWasHeldThere' /\ EndedOK'
  BY <1>1, SameTokens DEF SessInv, EndedOK
<1>6. CarriesOK'
  BY <1>1, <1>3 DEF SessInv, CarriesOK, Minted
<1>7. /\ \A m \in Logins : Good(m)' = Good(m)
      /\ forked \subseteq forked'
  BY <1>1 DEF Good
<1>8. OneGoodToken'
  BY <1>1, <1>7 DEF SessInv, OneGoodToken
<1> HIDE DEF l
<1>9. \A m \in Logins : Carriers(m)' = IF m = l THEN Carriers(m) \union {b} ELSE Carriers(m)
  BY <1>1, <1>2, <1>3 DEF Carriers, l
<1>10. CarriesGood'
  <2> SUFFICES ASSUME NEW m \in Logins, m \notin forked'
               PROVE  /\ \A c, d \in Carriers(m)' : c = d
                      /\ \A c \in Tabs, u \in Refreshes :
                           u \in carries'[c] /\ refresh[u].login = m =>
                             m \notin ended /\ \A v \in Good(m)' : v = u
    BY <1>1 DEF CarriesGood
  <2>1. m \notin forked
    BY <1>7
  <2>2. CASE m = l
    <3>1. Carriers(l) = {}
      BY <1>1, <2>2 DEF l
    <3>2. \A c \in Tabs, u \in Refreshes : u \in carries'[c] /\ refresh[u].login = m => u = t
      BY <1>3, <2>2, <3>1 DEF Carriers
    <3>3. t \in Good(m)
      BY <1>1, <2>2 DEF Good, l
    <3>4. m \notin ended /\ \A v \in Good(m) : v = t
      BY <2>1, <3>3 DEF SessInv, OneGoodToken
    <3> QED
      BY <1>7, <1>9, <2>2, <3>1, <3>2, <3>4
  <2>3. CASE m # l
    <3>1. Carriers(m)' = Carriers(m) /\ Good(m)' = Good(m)
      BY <1>7, <1>9, <2>3
    <3>2. \A c \in Tabs, u \in Refreshes :
            u \in carries'[c] /\ refresh[u].login = m => u \in carries[c]
      BY <1>3, <2>3 DEF l
    <3> QED
      BY <2>1, <3>1, <3>2 DEF SessInv, CarriesGood
  <2> QED
    BY <2>2, <2>3
<1>11. HeldNow'
  BY <1>1 DEF SessInv, HeldNow
<1> QED
  BY <1>4, <1>5, <1>6, <1>8, <1>10, <1>11 DEF SessInv

\* What a request carried is gone when it is answered.
LEMMA Finished ==
  ASSUME SessInv, NEW b \in Tabs, Finish(b)
  PROVE  /\ carries' \in [Tabs -> SUBSET Refreshes]
         /\ tab' \in [Tabs -> {"ready", "refresh", "logout"}]
         /\ carries'[b] = {} /\ tab'[b] = "ready"
         /\ \A c \in Tabs \ {b} : carries'[c] = carries[c] /\ tab'[c] = tab[c]
BY DEF SessInv, SessionsTypeOK, Finish

LEMMA RotateKeeps ==
  ASSUME SessInv, NEW b \in Tabs, Rotate(b)
  PROVE  SessInv'
<1> DEFINE n == CHOOSE u \in Unminted : TRUE
<1>1. n \in Refreshes /\ refresh[n] = NoClaims
  BY DEF Rotate, Unminted
<1>2. PICK t \in Refreshes : carries[b] = {t} /\ Minted(t)
  BY DEF SessInv, CarriesOK, Rotate
<1>3. /\ blacklist' = blacklist \union {t}
      /\ refresh' = [refresh EXCEPT ![n] = refresh[t]]
      /\ roleAt' = [roleAt EXCEPT ![n] = RoleNow(refresh[t])]
      /\ Finish(b)
      /\ UNCHANGED <<role, held, forked, ended, allowed, roleEdits>>
  BY <1>2 DEF Rotate, Reissue
<1> HIDE DEF n
<1>0. PICK l \in Logins : l = refresh[t].login
  BY <1>2 DEF SessInv, TokensOK
<1>4. /\ n # t
      /\ refresh'[n] = refresh[t] /\ \A u \in Refreshes \ {n} : refresh'[u] = refresh[u]
  BY <1>1, <1>2, <1>3 DEF SessInv, SessionsTypeOK, TokensOK, Minted
<1>5. /\ carries'[b] = {} /\ tab'[b] = "ready"
      /\ \A c \in Tabs \ {b} : carries'[c] = carries[c] /\ tab'[c] = tab[c]
  BY <1>3, Finished
<1>6. SessionsTypeOK' /\ HeldNow'
  <2>1. RoleNow(refresh[t]) \in HeldRoles \union {NoRole}
    BY DEF SessInv, SessionsTypeOK, TokensOK, RoleNow
  <2> QED
    BY <1>1, <1>3, <2>1, Finished DEF SessInv, SessionsTypeOK, HeldNow
<1>7. TokensOK'
  BY <1>2, <1>3, <1>4 DEF SessInv, TokensOK, Minted
<1>8. ASSUME NEW m \in Logins, NEW u \in Refreshes, refresh[u].login = m
      PROVE  refresh'[u].login = m
  BY <1>1, <1>4, <1>8 DEF NoClaims
<1>9. RoleWasHeldThere' /\ EndedOK'
  <2>2. EndedOK'
    BY <1>3, <1>8 DEF SessInv, SessionsTypeOK, EndedOK
  <2> QED
    BY <1>3, <2>2 DEF SessInv, RoleWasHeldThere
<1>10. CarriesOK'
  BY <1>2, <1>4, <1>5, <1>1 DEF SessInv, CarriesOK, Minted
<1>11. ASSUME NEW c \in Tabs, NEW u \in Refreshes, u \in carries'[c]
       PROVE  u \in carries[c] /\ u # n /\ c # b /\ refresh'[u] = refresh[u]
  BY <1>1, <1>4, <1>5, <1>11 DEF SessInv, CarriesOK, Minted
<1>12. \A m \in Logins : Carriers(m)' \subseteq Carriers(m) \ {b}
  <2>1. carries' \in [Tabs -> SUBSET Refreshes]
    BY <1>3, Finished
  <2> QED
    BY <1>5, <1>11, <2>1 DEF Carriers
<1>13. ASSUME NEW m \in Logins, m # l PROVE Good(m)' \subseteq Good(m)
  BY <1>0, <1>3, <1>4, <1>13 DEF Good
<1>14. ASSUME l \notin forked PROVE l \notin ended /\ Good(l)' \subseteq {n} /\ Carriers(l)' = {}
  <2>1. l \notin ended /\ \A u \in Good(l) : u = t
    BY <1>0, <1>2, <1>4, <1>14 DEF SessInv, CarriesGood
  <2>2. Carriers(l) = {b}
    BY <1>0, <1>2, <1>4, <1>14 DEF SessInv, CarriesGood, Carriers
  <2>3. Good(l)' \subseteq {n}
    BY <1>0, <1>3, <1>4, <2>1 DEF Good
  <2> QED
    BY <1>4, <1>12, <2>1, <2>2, <2>3
<1>15. OneGoodToken'
  <2>1. ASSUME NEW m \in Logins, m \notin forked
        PROVE  (\A u, v \in Good(m)' : u = v) /\ (m \in ended => Good(m)' = {})
    <3>1. CASE m = l
      BY <1>14, <2>1, <3>1
    <3>2. CASE m # l
      <4>1. Good(m)' \subseteq Good(m)
        BY <1>13, <2>1, <3>2
      <4>2. (\A u, v \in Good(m) : u = v) /\ (m \in ended => Good(m) = {})
        BY <2>1 DEF SessInv, OneGoodToken
      <4> QED
        BY <4>1, <4>2
    <3> QED
      BY <3>1, <3>2
  <2> QED
    BY <1>3, <2>1 DEF OneGoodToken
<1>16. CarriesGood'
  <2> SUFFICES ASSUME NEW m \in Logins, m \notin forked
               PROVE  /\ \A c, d \in Carriers(m)' : c = d
                      /\ \A c \in Tabs, u \in Refreshes :
                           u \in carries'[c] /\ refresh'[u].login = m =>
                             m \notin ended /\ \A v \in Good(m)' : v = u
    BY <1>3 DEF CarriesGood
  <2>1. \A c, d \in Carriers(m)' : c = d
    BY <1>12 DEF SessInv, CarriesGood
  <2>2. ASSUME NEW c \in Tabs, NEW u \in Refreshes, u \in carries'[c], refresh'[u].login = m
        PROVE  m \notin ended /\ \A v \in Good(m)' : v = u
    <3>1. u \in carries[c] /\ refresh[u].login = m
      BY <1>11, <2>2
    <3>2. m # l
      <4>1. c \in Carriers(m)'
        BY <2>2 DEF Carriers
      <4> QED
        BY <1>14, <4>1
    <3> QED
      BY <1>13, <3>1, <3>2 DEF SessInv, CarriesGood
  <2> QED
    BY <2>1, <2>2
<1> QED
  BY <1>6, <1>7, <1>9, <1>10, <1>15, <1>16 DEF SessInv

LEMMA LogoutKeeps ==
  ASSUME SessInv, NEW b \in Tabs, Logout(b)
  PROVE  SessInv'
<1>1. PICK t \in Refreshes : carries[b] = {t} /\ Minted(t)
  BY DEF SessInv, CarriesOK, Logout
<1>3. PICK l \in Logins : l = refresh[t].login
  BY <1>1 DEF SessInv, TokensOK
<1>2. /\ blacklist' = blacklist \union {t}
      /\ ended' = ended \union {l}
      /\ Finish(b)
      /\ UNCHANGED <<role, refresh, held, roleAt, forked, allowed, roleEdits>>
  BY <1>3, <1>1 DEF Logout
<1>4. /\ carries' \in [Tabs -> SUBSET Refreshes]
      /\ carries'[b] = {} /\ tab'[b] = "ready"
      /\ \A c \in Tabs \ {b} : carries'[c] = carries[c] /\ tab'[c] = tab[c]
  BY <1>2, Finished
<1>5. SessionsTypeOK' /\ HeldNow'
  BY <1>2, Finished DEF SessInv, SessionsTypeOK, HeldNow
<1>6. TokensOK' /\ RoleWasHeldThere' /\ EndedOK'
  BY <1>2, <1>3, SameTokens DEF SessInv, EndedOK
<1>7. CarriesOK'
  BY <1>2, <1>4 DEF SessInv, CarriesOK, Minted
<1>8. \A m \in Logins : Good(m)' \subseteq Good(m) /\ Carriers(m)' \subseteq Carriers(m) \ {b}
  BY <1>2, <1>4 DEF Good, Carriers
<1>9. l \notin forked => Good(l)' = {} /\ Carriers(l)' = {}
  <2>1. ASSUME l \notin forked PROVE \A u \in Good(l) : u = t
    BY <1>3, <1>1, <2>1 DEF SessInv, CarriesGood
  <2>2. ASSUME l \notin forked PROVE Carriers(l) = {b}
    BY <1>3, <1>1, <2>2 DEF SessInv, CarriesGood, Carriers
  <2>3. ASSUME l \notin forked PROVE Good(l)' = {}
    BY <1>2, <2>1, <2>3 DEF Good
  <2> QED
    <3>1. Carriers(l)' \subseteq Carriers(l) \ {b}
      BY <1>8
    <3> QED
      BY <2>2, <2>3, <3>1
<1>10. OneGoodToken'
  <2>1. ASSUME NEW m \in Logins, m \notin forked
        PROVE  (\A u, v \in Good(m)' : u = v) /\ (m \in ended' => Good(m)' = {})
    <3>1. CASE m = l
      BY <1>9, <2>1, <3>1
    <3>2. CASE m # l
      <4>1. Good(m)' \subseteq Good(m) /\ (m \in ended' => m \in ended)
        BY <1>2, <1>8, <2>1, <3>2
      <4>2. (\A u, v \in Good(m) : u = v) /\ (m \in ended => Good(m) = {})
        BY <2>1 DEF SessInv, OneGoodToken
      <4> QED
        BY <4>1, <4>2
    <3> QED
      BY <3>1, <3>2
  <2> QED
    BY <1>2, <2>1 DEF OneGoodToken
<1>11. CarriesGood'
  <2> SUFFICES ASSUME NEW m \in Logins, m \notin forked
               PROVE  /\ \A c, d \in Carriers(m)' : c = d
                      /\ \A c \in Tabs, u \in Refreshes :
                           u \in carries'[c] /\ refresh[u].login = m =>
                             m \notin ended' /\ \A v \in Good(m)' : v = u
    BY <1>2 DEF CarriesGood
  <2>1. \A c, d \in Carriers(m)' : c = d
    BY <1>8 DEF SessInv, CarriesGood
  <2>2. ASSUME NEW c \in Tabs, NEW u \in Refreshes, u \in carries'[c], refresh[u].login = m
        PROVE  m \notin ended' /\ \A v \in Good(m)' : v = u
    <3>1. u \in carries[c]
      BY <1>4, <2>2
    <3>2. m # l
      <4>1. c \in Carriers(m)'
        BY <1>2, <2>2 DEF Carriers
      <4> QED
        BY <1>9, <4>1
    <3> QED
      BY <1>2, <1>8, <2>2, <3>1, <3>2 DEF SessInv, CarriesGood
  <2> QED
    BY <2>1, <2>2
<1> QED
  BY <1>5, <1>6, <1>7, <1>10, <1>11 DEF SessInv

LEMMA ActKeeps ==
  ASSUME SessInv, NEW t \in Refreshes, NEW o \in Hosts, NEW needed \in NeededRoles,
         Act(t, o, needed)
  PROVE  SessInv'
<1>1. /\ refresh[t].role \in AllowedRoles(needed)
      /\ refresh[t].org = o /\ refresh[t].org # 0
      /\ allowed' = allowed \union {<<t, o, needed>>}
      /\ UNCHANGED <<role, refresh, blacklist, tab, carries, held, roleAt, forked, ended,
                     roleEdits>>
  BY DEF Act, Authenticates
<1>2. <<o, refresh[t].role>> \in held
  BY <1>1 DEF SessInv, TokensOK
<1>3. RoleWasHeldThere'
  BY <1>1, <1>2 DEF SessInv, RoleWasHeldThere
<1>4. TokensOK' /\ SessionsTypeOK' /\ HeldNow'
  BY <1>1 DEF SessInv, TokensOK, Minted, SessionsTypeOK, HeldNow
<1> QED
  BY <1>1, <1>3, <1>4, SameRequests DEF SessInv

LEMMA SessInvStep == SessInv /\ [SessionsNext]_sessionVars => SessInv'
<1> SUFFICES ASSUME SessInv, [SessionsNext]_sessionVars PROVE SessInv'
  OBVIOUS
<1>1. ASSUME NEW o \in Hosts, NEW r \in HeldRoles \union {NoRole}, ChangeRole(o, r) PROVE SessInv'
  <2>1. SessionsTypeOK' /\ HeldNow'
    BY <1>1 DEF SessInv, SessionsTypeOK, ChangeRole, HeldNow
  <2> QED
    BY <1>1, <2>1, SameTokens, SameRequests DEF SessInv, ChangeRole
<1>2. CASE UNCHANGED sessionVars
  <2>1. SessionsTypeOK' /\ HeldNow'
    BY <1>2 DEF SessInv, SessionsTypeOK, sessionVars, HeldNow
  <2> QED
    BY <1>2, <2>1, SameTokens, SameRequests DEF SessInv, sessionVars
<1> QED
  BY <1>1, <1>2, LoginKeeps, CheckKeeps, RotateKeeps, LogoutKeeps, ActKeeps DEF SessionsNext

LEMMA SessionsAlways == SessionsSpec => []SessInv
<1> QED
  BY SessInvInit, SessInvStep, PTL DEF SessionsSpec

-----------------------------------------------------------------------------
(* Theorems *)

(* The variables keep their types.                                           *)
THEOREM SessionsTypes == SessionsSpec => []SessionsTypeOK
<1>1. SessInv => SessionsTypeOK
  BY DEF SessInv
<1> QED
  BY <1>1, SessionsAlways, PTL

(* A session has one good refresh token, and none after logging out, unless  *)
(* two requests carried a token of it at once (RefreshView, LogoutView).     *)
THEOREM OneTokenPerSession == SessionsSpec => []OneGoodToken
<1>1. SessInv => OneGoodToken
  BY DEF SessInv
<1> QED
  BY <1>1, SessionsAlways, PTL

(* What a view of an organization allows, a role the user had in that        *)
(* organization allows (JWTAuthenticationWithContext, HasOrgRole).           *)
THEOREM RolesStayInTheirOrg == SessionsSpec => []RoleWasHeldThere
<1>1. SessInv => RoleWasHeldThere
  BY DEF SessInv
<1> QED
  BY <1>1, SessionsAlways, PTL

=============================================================================
