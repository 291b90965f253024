------------------------------ MODULE Accounts ------------------------------
(***************************************************************************)
(* apps/auth_core: accounts and the links mailed to their owners.  Users   *)
(* sign up, verify their address, ask for another link, reset a password   *)
(* and delete the account.  create_user is one transaction; the other      *)
(* handlers read a row, decide in memory and write, each statement         *)
(* committed on its own.  Tokens are the rows of EmailVerificationToken    *)
(* and PasswordResetToken, which differ in their lifetime only.            *)
(***************************************************************************)
EXTENDS Integers, FiniteSets

CONSTANTS
  Emails,      \* e-mail addresses as users spell them
  AddressOf,   \* the address, upper and lower case alike (email__iexact)
  Clients,     \* web workers, each handling one request at a time
  Tokens,      \* bound: the token rows that can be made
  MaxRequests, \* bound: requests
  MaxUpsets    \* bound: tokens lapsed, workers killed, edits of administrators

ASSUME AccountsAssumption ==
  /\ IsFiniteSet(Tokens)
  /\ MaxRequests \in Nat /\ MaxUpsets \in Nat

Kinds == {"verify", "reset"}

VARIABLES
  account,    \* the User row: "absent", "active", "inactive" or "deleted"
  verified,   \* is_verified
  token,      \* a token row: "unmade", "open", "lapsed" (unused), "used", "gone"
  owner,      \* whose it is and of which kind
  step, job,  \* a worker's next statement and the request it handles
  resets,     \* how often a token changed the password
  shared,     \* tokens two requests carried at once, or a lost worker carried
  overlap,    \* <<email, kind>> for which two requests made tokens at once
  rivals,     \* addresses two requests signed up with at once
  stranded,   \* accounts whose deletion failed at its last statement
  disturbed,  \* accounts a token was made for while they were being deleted
  requests, upsets

accountRows == <<account, verified, token, owner>>
accountGhosts == <<resets, shared, overlap, rivals, stranded, disturbed, upsets>>
accountVars == <<accountRows, step, job, requests, accountGhosts>>

NoJob == [op |-> "none"]

NoOwner == <<>>

Steps == {"ready", "create", "invalidate", "issue", "password", "verify",
          "mark", "dropVerify", "dropReset", "dropUser"}

Jobs == [op : {"signup", "delete"}, of : Emails]
          \union [op : {"issue"}, of : Emails, kind : Kinds]
          \union [op : {"present"}, of : Tokens]
          \union {NoJob}

Spare == {t \in Tokens : token[t] = "unmade"}

Issued(e, k) == {t \in Tokens \ Spare : owner[t] = <<e, k>>}

Live(e, k) == {t \in Issued(e, k) : token[t] \in {"open", "lapsed"}}

Exists(e) == account[e] \in {"active", "inactive"}

Namesakes(e) == {f \in Emails : AddressOf[f] = AddressOf[e]}

Accept(c, j, s) ==
  /\ step[c] = "ready"
  /\ requests < MaxRequests
  /\ requests' = requests + 1
  /\ job' = [job EXCEPT ![c] = j]
  /\ step' = [step EXCEPT ![c] = s]

Proceed(c, s) ==
  /\ step' = [step EXCEPT ![c] = s]
  /\ UNCHANGED <<job, requests>>

Answer(c) ==
  /\ step' = [step EXCEPT ![c] = "ready"]
  /\ job' = [job EXCEPT ![c] = NoJob]
  /\ UNCHANGED requests

AccountsInit ==
  /\ account = [e \in Emails |-> "absent"]
  /\ verified = [e \in Emails |-> FALSE]
  /\ token = [t \in Tokens |-> "unmade"]
  /\ owner = [t \in Tokens |-> NoOwner]
  /\ step = [c \in Clients |-> "ready"]
  /\ job = [c \in Clients |-> NoJob]
  /\ resets = [t \in Tokens |-> 0]
  /\ shared = {} /\ overlap = {} /\ rivals = {}
  /\ stranded = {} /\ disturbed = {}
  /\ requests = 0 /\ upsets = 0

-----------------------------------------------------------------------------
(* Signing up *)

\* Bound: a spare token for every request that makes one.
Room ==
  Cardinality(Spare)
    > Cardinality({c \in Clients : job[c].op \in {"signup", "issue"}})

SigningUp(e) == {c \in Clients : job[c].op = "signup" /\ job[c].of \in Namesakes(e)}

\* Mutant: the serializer compares the address as it is spelled.
SignupSpelled(c, e) ==
  /\ account[e] = "absent"
  /\ Room
  /\ Accept(c, [op |-> "signup", of |-> e], "create")
  /\ rivals' = IF SigningUp(e) # {} THEN rivals \union {AddressOf[e]} ELSE rivals
  /\ UNCHANGED <<accountRows, resets, shared, overlap, stranded, disturbed, upsets>>

\* SignupSerializer.validate_email: nobody has the address, in any spelling.
Signup(c, e) ==
  /\ \A f \in Namesakes(e) : ~ Exists(f)
  /\ account[e] = "absent"   \* bound: no address is registered anew
  /\ Room
  /\ Accept(c, [op |-> "signup", of |-> e], "create")
  /\ rivals' = IF SigningUp(e) # {} THEN rivals \union {AddressOf[e]} ELSE rivals
  /\ UNCHANGED <<accountRows, resets, shared, overlap, stranded, disturbed, upsets>>

\* A new row, and the mail with its link.  A mail that fails is logged; like a
\* link nobody opens, it is a token that is never presented.
InsertToken(e, k) ==
  /\ Spare # {}
  /\ LET t == CHOOSE u \in Spare : TRUE
     IN  /\ token' = [token EXCEPT ![t] = "open"]
         /\ owner' = [owner EXCEPT ![t] = <<e, k>>]

\* create_user: the account and its first token, in one transaction; the unique
\* column refuses an address spelled the same way.
CreateUser(c) ==
  LET e == job[c].of
  IN  /\ step[c] = "create"
      /\ IF account[e] = "absent"
         THEN /\ account' = [account EXCEPT ![e] = "active"]
              /\ verified' = [verified EXCEPT ![e] = FALSE]
              /\ InsertToken(e, "verify")
         ELSE UNCHANGED <<accountRows>>
      /\ Answer(c)
      /\ UNCHANGED accountGhosts

-----------------------------------------------------------------------------
(* Making a token *)

Making(e, k) ==
  {c \in Clients : /\ job[c].op = "issue"
                   /\ job[c].of = e /\ job[c].kind = k}

MakeToken(c, e, k) ==
  /\ Room
  /\ Accept(c, [op |-> "issue", of |-> e, kind |-> k], "invalidate")
  /\ overlap' = IF Making(e, k) # {} THEN overlap \union {<<e, k>>} ELSE overlap
  /\ UNCHANGED <<accountRows, resets, shared, rivals, stranded, disturbed, upsets>>

\* ForgotPasswordView finds the account by the address as it was spelled.
Forgot(c, e) ==
  /\ account[e] = "active"
  /\ MakeToken(c, e, "reset")

\* ResendVerificationEmailView finds it in any spelling; two accounts that
\* match end the request with MultipleObjectsReturned.
Resend(c, e) ==
  /\ {f \in Namesakes(e) : account[f] = "active"} = {e}
  /\ ~ verified[e]
  /\ MakeToken(c, e, "verify")

\* Mutant: only tokens that have expired are invalidated; one still good stays.
InvalidateLapsed(c) ==
  /\ step[c] = "invalidate"
  /\ token' = [t \in Tokens |->
                 IF t \in Issued(job[c].of, job[c].kind) /\ token[t] = "lapsed"
                 THEN "used" ELSE token[t]]
  /\ Proceed(c, "issue")
  /\ UNCHANGED <<account, verified, owner, accountGhosts>>

\* The UPDATE of the tokens that are not used.
InvalidateTokens(c) ==
  /\ step[c] = "invalidate"
  /\ token' = [t \in Tokens |->
                 IF t \in Live(job[c].of, job[c].kind) THEN "used" ELSE token[t]]
  /\ Proceed(c, "issue")
  /\ UNCHANGED <<account, verified, owner, accountGhosts>>

Deleting(e) == {c \in Clients : job[c].op = "delete" /\ job[c].of = e}

\* The INSERT of the new one and the mail; an account deleted in the meantime
\* is refused by the foreign key.
IssueToken(c) ==
  LET e == job[c].of
  IN  /\ step[c] = "issue"
      /\ IF Exists(e)
         THEN InsertToken(e, job[c].kind)
         ELSE UNCHANGED <<token, owner>>
      /\ disturbed' = IF Deleting(e) # {} THEN disturbed \union {e} ELSE disturbed
      /\ Answer(c)
      /\ UNCHANGED <<account, verified, resets, shared, overlap, rivals, stranded, upsets>>

-----------------------------------------------------------------------------
(* Using a link *)

Carrying(t) == {c \in Clients : job[c].op = "present" /\ job[c].of = t}

\* ResetPasswordView and VerifyEmailView read the token: one that is used or
\* has expired is answered 400 (or 200 if the address is verified).
Present(c, t) ==
  /\ token[t] = "open"
  /\ Accept(c, [op |-> "present", of |-> t],
            IF owner[t][2] = "reset" THEN "password" ELSE "verify")
  /\ shared' = IF Carrying(t) # {} THEN shared \union {t} ELSE shared
  /\ UNCHANGED <<accountRows, resets, overlap, rivals, stranded,
                 disturbed, upsets>>

\* The password is saved; the row must still be there (update_fields).
SavePassword(c) ==
  LET t == job[c].of
  IN  /\ step[c] = "password"
      /\ IF Exists(owner[t][1])
         THEN /\ resets' = [resets EXCEPT ![t] = @ + 1]
              /\ Proceed(c, "mark")
         ELSE UNCHANGED resets /\ Answer(c)
      /\ UNCHANGED <<accountRows, shared, overlap, rivals, stranded,
                     disturbed, upsets>>

SaveVerified(c) ==
  LET e == owner[job[c].of][1]
  IN  /\ step[c] = "verify"
      /\ IF Exists(e)
         THEN /\ verified' = [verified EXCEPT ![e] = TRUE]
              /\ Proceed(c, "mark")
         ELSE UNCHANGED verified /\ Answer(c)
      /\ UNCHANGED <<account, token, owner, accountGhosts>>

\* Mutant: the token is not saved.
MarkNothing(c) ==
  /\ step[c] = "mark"
  /\ Answer(c)
  /\ UNCHANGED <<accountRows, accountGhosts>>

\* is_used is saved, unless the row was deleted with its account.
MarkToken(c) ==
  LET t == job[c].of
  IN  /\ step[c] = "mark"
      /\ token' = IF token[t] = "gone" THEN token
                  ELSE [token EXCEPT ![t] = "used"]
      /\ Answer(c)
      /\ UNCHANGED <<account, verified, owner, accountGhosts>>

Upset ==
  /\ upsets < MaxUpsets
  /\ upsets' = upsets + 1

\* expires_at passes: an hour for a reset, a day for a verification.
Lapse(t) ==
  /\ token[t] = "open"
  /\ Upset
  /\ token' = [token EXCEPT ![t] = "lapsed"]
  /\ UNCHANGED <<account, verified, owner, step, job, requests, resets, shared, overlap,
                 rivals, stranded, disturbed>>

-----------------------------------------------------------------------------
(* Deleting an account: _delete_user_manually, in the order of its statements *)

DeleteAccount(c, e) ==
  /\ account[e] = "active"
  /\ Accept(c, [op |-> "delete", of |-> e], "dropVerify")
  /\ UNCHANGED <<accountRows, accountGhosts>>

Without(e, k) ==
  [t \in Tokens |->
     IF t \in Issued(e, k) THEN "gone" ELSE token[t]]

\* Mutant: the tokens that were used stay.
DropUnusedVerifyTokens(c) ==
  LET e == job[c].of
  IN  /\ step[c] = "dropVerify"
      /\ token' = [t \in Tokens |->
                     IF t \in Live(e, "verify") THEN "gone" ELSE token[t]]
      /\ Proceed(c, "dropReset")
      /\ UNCHANGED <<account, verified, owner, accountGhosts>>

DropVerifyTokens(c) ==
  /\ step[c] = "dropVerify"
  /\ token' = Without(job[c].of, "verify")
  /\ Proceed(c, "dropReset")
  /\ UNCHANGED <<account, verified, owner, accountGhosts>>

DropResetTokens(c) ==
  /\ step[c] = "dropReset"
  /\ token' = Without(job[c].of, "reset")
  /\ Proceed(c, "dropUser")
  /\ UNCHANGED <<account, verified, owner, accountGhosts>>

RowsOf(e) ==
  {t \in Issued(e, "verify") \union Issued(e, "reset") : token[t] # "gone"}

\* The raw DELETE of the user: rows that still point to it make it fail, and
\* what was done before stays done.
DropUser(c) ==
  LET e == job[c].of
  IN  /\ step[c] = "dropUser"
      /\ IF RowsOf(e) = {}
         THEN /\ account' = [account EXCEPT ![e] = "deleted"]
              /\ UNCHANGED stranded
         ELSE /\ stranded' = stranded \union {e}
              /\ UNCHANGED account
      /\ Answer(c)
      /\ UNCHANGED <<verified, token, owner, resets, shared, overlap, rivals,
                     disturbed, upsets>>

-----------------------------------------------------------------------------
(* Others *)

\* An administrator edits is_active (UserAdmin).
SwitchAccount(e) ==
  /\ Exists(e)
  /\ Upset
  /\ account' = [account EXCEPT ![e] = IF @ = "active" THEN "inactive" ELSE "active"]
  /\ UNCHANGED <<verified, token, owner, step, job, requests, resets, shared, overlap,
                 rivals, stranded, disturbed>>

\* A worker is killed between two statements; create_user is rolled back.
LoseClient(c) ==
  /\ step[c] # "ready"
  /\ Upset
  /\ shared' = IF job[c].op = "present" THEN shared \union {job[c].of} ELSE shared
  /\ Answer(c)
  /\ UNCHANGED <<accountRows, resets, overlap, rivals, stranded, disturbed>>

-----------------------------------------------------------------------------
(* Specification *)

Request(c) ==
  \/ \E e \in Emails :
       Signup(c, e) \/ Forgot(c, e) \/ Resend(c, e) \/ DeleteAccount(c, e)
  \/ \E t \in Tokens : Present(c, t)

Handle(c) ==
  \/ CreateUser(c)
  \/ InvalidateTokens(c) \/ IssueToken(c)
  \/ SavePassword(c) \/ SaveVerified(c) \/ MarkToken(c)
  \/ DropVerifyTokens(c) \/ DropResetTokens(c) \/ DropUser(c)

AccountsNext ==
  \/ \E c \in Clients : Request(c) \/ Handle(c) \/ LoseClient(c)
  \/ \E t \in Tokens : Lapse(t)
  \/ \E e \in Emails : SwitchAccount(e)

AccountsSpec == AccountsInit /\ [][AccountsNext]_accountVars

-----------------------------------------------------------------------------
(* Properties *)

AccountsTypeOK ==
  /\ account \in [Emails -> {"absent", "active", "inactive", "deleted"}]
  /\ verified \in [Emails -> BOOLEAN]
  /\ token \in [Tokens -> {"unmade", "open", "lapsed", "used", "gone"}]
  /\ owner \in [Tokens -> (Emails \X Kinds) \union {NoOwner}]
  /\ step \in [Clients -> Steps]
  /\ job \in [Clients -> Jobs]
  /\ resets \in [Tokens -> Nat]
  /\ shared \subseteq Tokens
  /\ overlap \subseteq Emails \X Kinds
  /\ stranded \subseteq Emails
  /\ disturbed \subseteq Emails
  /\ requests \in 0 .. MaxRequests
  /\ upsets \in 0 .. MaxUpsets

(* An account has one unused token of a kind at most, so that only the last  *)
(* link works, unless two requests made tokens for it at the same time       *)
(* (ForgotPasswordView, ResendVerificationEmailView).                        *)
OneUnusedToken ==
  \A e \in Emails, k \in Kinds :
    <<e, k>> \notin overlap =>
      \A t, u \in Live(e, k) : t = u

(* A reset link changes the password once, unless two requests carried it    *)
(* at the same time or a worker was lost with it: the token is checked,      *)
(* used and marked in separate statements (ResetPasswordView).               *)
OneResetPerLink ==
  \A t \in Tokens : resets[t] <= 1 \/ t \in shared

(* No two accounts have addresses that differ in case alone, unless two      *)
(* requests signed up with them at the same time: the column is unique as    *)
(* it is spelled, the check is not (SignupSerializer.validate_email).        *)
OneAccountPerAddress ==
  \A e, f \in Emails :
    /\ Exists(e) /\ Exists(f) /\ e # f
    /\ AddressOf[e] = AddressOf[f]
    => AddressOf[e] \in rivals

(* As far as the mailed tokens go, the deletion of an account fails half     *)
(* done only if a token was made for it meanwhile (_delete_user_manually has *)
(* no transaction; the other rows that point to a user are not part of this).*)
StrandedByATokenOnly == stranded \subseteq disturbed

=============================================================================
