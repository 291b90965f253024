------------------------------ MODULE Sessions ------------------------------
(***************************************************************************)
(* apps/auth_core: logging in, refreshing and logging out, and what a      *)
(* token lets its holder do at the host of an organization.  The organi-   *)
(* zation and the role are written into the token at login; a refresh      *)
(* copies them into the next one (ROTATE_REFRESH_TOKENS) and blacklists    *)
(* the old (BLACKLIST_AFTER_ROTATION).  One user with several tabs.        *)
(***************************************************************************)
EXTENDS Integers, Sequences, FiniteSets

CONSTANTS
  Hosts,        \* organizations, by the order in which the user joined them
  Tabs,         \* browser tabs, each with one request at a time
  Logins,       \* bound: sessions
  Refreshes,    \* bound: refresh tokens
  NeededRoles,  \* the roles views require
  HeldRoles,    \* the roles the user may get in an organization
  MaxRoleEdits  \* bound: changes of a role

Hierarchy == <<"owner", "admin", "editor", "viewer">>

Position(role) == CHOOSE i \in 1 .. Len(Hierarchy) : Hierarchy[i] = role

Roles == {Hierarchy[i] : i \in 1 .. Len(Hierarchy)}

NoRole == "none"

ASSUME SessionsAssumption ==
  /\ Hosts \subseteq Nat \ {0} /\ IsFiniteSet(Hosts)
  /\ 0 \notin Logins
  /\ NeededRoles \subseteq Roles /\ HeldRoles \subseteq Roles
  /\ MaxRoleEdits \in Nat

NoClaims == [login |-> 0, org |-> 0, role |-> NoRole]

VARIABLES
  role,        \* the user's role in each organization, "none" if no member
  refresh,     \* a refresh token: its claims, NoClaims before it is minted
  blacklist,
  tab, carries,\* a tab's request and the token it carries
  held,        \* the roles the user had at some time, with the organization
  roleAt,      \* the user's role when a token was issued, in its organization
  forked,      \* logins of which two requests carried a token at once
  ended,       \* logins the user was told they logged out of
  allowed,     \* what a view let the user do, by which token
  roleEdits

sessionVars == <<role, refresh, blacklist, tab, carries, held, roleAt, forked,
                 ended, allowed, roleEdits>>

Unminted == {t \in Refreshes : refresh[t] = NoClaims}

SessionsInit ==
  /\ role = [o \in Hosts |-> NoRole]
  /\ refresh = [t \in Refreshes |-> NoClaims]
  /\ blacklist = {}
  /\ tab = [b \in Tabs |-> "ready"]
  /\ carries = [b \in Tabs |-> {}]
  /\ held = {}
  /\ roleAt = [t \in Refreshes |-> NoRole]
  /\ forked = {} /\ ended = {} /\ allowed = {} /\ roleEdits = 0

\* active_membership: the organization joined last.
ActiveMembership ==
  LET joined == {o \in Hosts : role[o] # NoRole}
  IN  IF joined = {} THEN [org |-> 0, role |-> NoRole]
      ELSE LET o == CHOOSE p \in joined : \A q \in joined : q <= p
           IN  [org |-> o, role |-> role[o]]

\* LoginView with CustomTokenObtainSerializer.get_token
Login(l) ==
  /\ \A t \in Refreshes : refresh[t].login # l
  /\ Unminted # {}
  /\ LET t == CHOOSE u \in Unminted : TRUE
     IN  /\ refresh' = [refresh EXCEPT ![t] =
                          [login |-> l, org |-> ActiveMembership.org,
                           role |-> ActiveMembership.role]]
         /\ roleAt' = [roleAt EXCEPT ![t] = ActiveMembership.role]
  /\ UNCHANGED <<role, blacklist, tab, carries, held, forked, ended, allowed,
                 roleEdits>>

Carriers(l) == {b \in Tabs : \E t \in carries[b] : refresh[t].login = l}

\* RefreshView and LogoutView decode the token and look it up in the blacklist.
CheckToken(b, op, t) ==
  LET l == refresh[t].login
  IN  /\ tab[b] = "ready"
      /\ refresh[t] # NoClaims
      /\ t \notin blacklist
      /\ tab' = [tab EXCEPT ![b] = op]
      /\ carries' = [carries EXCEPT ![b] = {t}]
      /\ forked' = IF Carriers(l) # {} THEN forked \union {l} ELSE forked
      /\ UNCHANGED <<role, refresh, blacklist, held, roleAt, ended, allowed,
                     roleEdits>>

Finish(b) ==
  /\ tab' = [tab EXCEPT ![b] = "ready"]
  /\ carries' = [carries EXCEPT ![b] = {}]

\* The role now held in the organization a token names: no refresh asks for it.
RoleNow(claims) == IF claims.org = 0 THEN NoRole ELSE role[claims.org]

Reissue(n, t) ==
  /\ refresh' = [refresh EXCEPT ![n] = refresh[t]]
  /\ roleAt' = [roleAt EXCEPT ![n] = RoleNow(refresh[t])]

\* Mutant: the old token stays good.
RotateOnly(b) ==
  /\ tab[b] = "refresh"
  /\ Unminted # {}
  /\ \E t \in carries[b] : Reissue(CHOOSE u \in Unminted : TRUE, t)
  /\ Finish(b)
  /\ UNCHANGED <<role, blacklist, held, forked, ended, allowed, roleEdits>>

\* The old token is blacklisted (get_or_create: again, if it already is), and
\* the next one carries the same claims.
Rotate(b) ==
  /\ tab[b] = "refresh"
  /\ Unminted # {}
  /\ \E t \in carries[b] :
       /\ blacklist' = blacklist \union {t}
       /\ Reissue(CHOOSE u \in Unminted : TRUE, t)
  /\ Finish(b)
  /\ UNCHANGED <<role, held, forked, ended, allowed, roleEdits>>

Logout(b) ==
  /\ tab[b] = "logout"
  /\ blacklist' = blacklist \union carries[b]
  /\ ended' = ended \union {refresh[t].login : t \in carries[b]}
  /\ Finish(b)
  /\ UNCHANGED <<role, refresh, held, roleAt, forked, allowed, roleEdits>>

\* An owner or an administrator changes the user's role or removes the user.
ChangeRole(o, r) ==
  /\ roleEdits < MaxRoleEdits
  /\ role[o] # r
  /\ role' = [role EXCEPT ![o] = r]
  /\ held' = held \union {<<o, r>>}
  /\ roleEdits' = roleEdits + 1
  /\ UNCHANGED <<refresh, blacklist, tab, carries, roleAt, forked, ended, allowed>>

-----------------------------------------------------------------------------
(* A request to an organization's host, with an access token of a session *)

\* Mutant: the token of any organization will do.
AuthenticatesAnywhere(claims, o) == claims.org # 0

\* JWTAuthenticationWithContext.authenticate
Authenticates(claims, o) == claims.org # 0 /\ claims.org = o

\* HasOrgRole._get_allowed_roles
AllowedRoles(needed) == {Hierarchy[i] : i \in 1 .. Position(needed)}

\* The access token issued with a refresh token has its claims, and is good
\* until it expires, whatever became of the session.
Act(t, o, needed) ==
  /\ refresh[t] # NoClaims
  /\ Authenticates(refresh[t], o)
  /\ refresh[t].role \in AllowedRoles(needed)
  /\ allowed' = allowed \union {<<t, o, needed>>}
  /\ UNCHANGED <<role, refresh, blacklist, tab, carries, held, roleAt, forked,
                 ended, roleEdits>>

-----------------------------------------------------------------------------
(* Specification *)

SessionsNext ==
  \/ \E l \in Logins : Login(l)
  \/ \E b \in Tabs :
       \/ \E op \in {"refresh", "logout"}, t \in Refreshes : CheckToken(b, op, t)
       \/ Rotate(b) \/ Logout(b)
  \/ \E o \in Hosts, r \in HeldRoles \union {NoRole} : ChangeRole(o, r)
  \/ \E t \in Refreshes, o \in Hosts, needed \in NeededRoles : Act(t, o, needed)

SessionsSpec == SessionsInit /\ [][SessionsNext]_sessionVars

-----------------------------------------------------------------------------
(* Properties *)

SessionsTypeOK ==
  /\ role \in [Hosts -> HeldRoles \union {NoRole}]
  /\ refresh \in [Refreshes -> [login : Logins \union {0}, org : Hosts \union {0},
                                role : Roles \union {NoRole}]]
  /\ blacklist \subseteq Refreshes
  /\ tab \in [Tabs -> {"ready", "refresh", "logout"}]
  /\ carries \in [Tabs -> SUBSET Refreshes]
  /\ held \subseteq Hosts \X (HeldRoles \union {NoRole})
  /\ roleAt \in [Refreshes -> HeldRoles \union {NoRole}]
  /\ forked \union ended \subseteq Logins
  /\ roleEdits \in 0 .. MaxRoleEdits

Good(l) == {t \in Refreshes \ blacklist : refresh[t].login = l}

(* A session has one good refresh token, and none once its user logged out,  *)
(* unless two tabs sent a token of it at once: then it forks, and logging    *)
(* out of one branch leaves the other (RefreshView, LogoutView).             *)
OneGoodToken ==
  \A l \in Logins \ forked :
    /\ \A t, u \in Good(l) : t = u
    /\ l \in ended => Good(l) = {}

(* What a view of an organization lets a user do, a role they had in that    *)
(* very organization allows, then or earlier: no sequence of logins,         *)
(* refreshes, removals and changes of role carries a role from one           *)
(* organization to another (JWTAuthenticationWithContext, HasOrgRole).       *)
RoleWasHeldThere ==
  \A a \in allowed : \E r \in AllowedRoles(a[3]) : <<a[2], r>> \in held

-----------------------------------------------------------------------------
(* What the documentation says, and the code does not do *)

(* docs/ARCHITECTURE.md:403: after a change of role "their existing access   *)
(* tokens still carry the old role until they expire (15 minutes)".  A token *)
(* issued later allows what the role held when it was issued allows.         *)
AllowedByRoleAtIssue ==
  \A a \in allowed : roleAt[a[1]] \in AllowedRoles(a[3])

=============================================================================
