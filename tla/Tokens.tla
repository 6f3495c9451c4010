------------------------------- MODULE Tokens -------------------------------
(***************************************************************************)
(* Sign-in and refresh-token rotation (budgetcut-server/src/lib.rs:        *)
(* register, login, issue_tokens, refresh_token).  A session is a family   *)
(* of refresh tokens; each is exchanged once, for the next one.  The       *)
(* handlers hold the server's mutex, so each is one step, but its answer   *)
(* may be lost, and a client that keeps what it had tries again with it.   *)
(*                                                                         *)
(* A token that verify_refresh_token finds malformed or expired changes    *)
(* nothing and is left out, and so is the access token that accompanies    *)
(* every refresh token.                                                    *)
(***************************************************************************)
CONSTANTS
  Email,
  Jti,       \* token ids; how many there are bounds the model
  Client,    \* apps and tabs
  Unissued,  \* a jti not drawn yet
  NoToken       \* no token held

\* A family is named by the first token of its chain; the code draws a name.
Record == [user : Email, family : Jti, used : BOOLEAN, revoked : BOOLEAN]

ASSUME NoTokenAssumption == NoToken \notin Jti
ASSUME UnissuedAssumption == Unissued \notin Record

VARIABLES
  users,    \* Inner.users: the registered addresses
  refresh,  \* Inner.refresh: [user, family, used, revoked] of each token issued
  held,     \* the refresh token each client keeps
  reused    \* history: the families in which a used token was presented

tokenVars == <<users, refresh, held, reused>>

Usable(j) == refresh[j] # Unissued /\ ~ refresh[j].used /\ ~ refresh[j].revoked

Unused(user, family) ==
  [user |-> user, family |-> family, used |-> FALSE, revoked |-> FALSE]

\* The two flags of a record; neither is ever reset.
MarkedUsed(r) ==
  [user |-> r.user, family |-> r.family, used |-> TRUE, revoked |-> r.revoked]
MarkedRevoked(r) ==
  [user |-> r.user, family |-> r.family, used |-> r.used, revoked |-> TRUE]

TokensInit ==
  /\ users = {}
  /\ refresh = [j \in Jti |-> Unissued]
  /\ held = [c \in Client |-> NoToken]
  /\ reused = {}

\* The answer with token j reaches client c, or is lost on the way.
Answer(c, j) == held' = [held EXCEPT ![c] = j] \/ UNCHANGED held

\* issue_tokens: a new family of one unused token.
IssueTokens(user, j) ==
  /\ refresh[j] = Unissued
  /\ refresh' = [refresh EXCEPT ![j] = Unused(user, j)]

\* register: an address is taken by its first registration.
Register(c, user, j) ==
  /\ user \notin users
  /\ users' = users \union {user}
  /\ IssueTokens(user, j)
  /\ Answer(c, j)
  /\ UNCHANGED reused

\* issue_tokens fails in register: the address is taken nevertheless.
RegisterFails(user) ==
  /\ user \notin users
  /\ users' = users \union {user}
  /\ UNCHANGED <<refresh, held, reused>>

\* login, with the right password.
Login(c, user, j) ==
  /\ user \in users
  /\ IssueTokens(user, j)
  /\ Answer(c, j)
  /\ UNCHANGED <<users, reused>>

\* Another tab starts with the token that this one keeps.
Share(c, d) ==
  /\ held[c] # NoToken
  /\ held' = [held EXCEPT ![d] = held[c]]
  /\ UNCHANGED <<users, refresh, reused>>

\* Faulty variant: the presented token stays usable.
RotatePresentedUnmarked(j, next) ==
  refresh' = [refresh EXCEPT ![next] = Unused(refresh[j].user, refresh[j].family)]

\* Faulty variant: the successor is not recorded.
RotateUnrecorded(j, next) == refresh' = [refresh EXCEPT ![j] = MarkedUsed(@)]

\* Mark the presented token used, then rotate within the same family.
Rotate(j, next) ==
  refresh' = [refresh EXCEPT ![j] = MarkedUsed(@),
                             ![next] = Unused(refresh[j].user, refresh[j].family)]

\* refresh_token with a token that was never exchanged.
Exchange(c, next) ==
  /\ held[c] # NoToken /\ Usable(held[c])
  /\ refresh[next] = Unissued
  /\ Rotate(held[c], next)
  /\ Answer(c, next)
  /\ UNCHANGED <<users, reused>>

\* Minting the successor fails: the presented token is used up all the same.
ExchangeFails(c) ==
  /\ held[c] # NoToken /\ Usable(held[c])
  /\ refresh' = [refresh EXCEPT ![held[c]] = MarkedUsed(@)]
  /\ UNCHANGED <<users, held, reused>>

\* Faulty variant: only the presented token is revoked.
RevokePresented(j) == refresh' = [refresh EXCEPT ![j] = MarkedRevoked(@)]

\* Revoke every token of j's family.
RevokeFamily(j) ==
  refresh' = [k \in Jti |->
                IF refresh[k] # Unissued /\ refresh[k].family = refresh[j].family
                THEN MarkedRevoked(refresh[k])
                ELSE refresh[k]]

\* refresh_token with a token that was exchanged before.
Reuse(c) ==
  /\ held[c] # NoToken
  /\ refresh[held[c]].used /\ ~ refresh[held[c]].revoked
  /\ RevokeFamily(held[c])
  /\ reused' = reused \union {refresh[held[c]].family}
  /\ UNCHANGED <<users, held>>

TokensNext ==
  \/ \E c \in Client, user \in Email, j \in Jti :
       Register(c, user, j) \/ Login(c, user, j)
  \/ \E user \in Email : RegisterFails(user)
  \/ \E c \in Client :
       \/ \E d \in Client : Share(c, d)
       \/ \E next \in Jti : Exchange(c, next)
       \/ ExchangeFails(c)
       \/ Reuse(c)

TokensSpec == TokensInit /\ [][TokensNext]_tokenVars

----------------------------------------------------------------------------
TokensTypeOK ==
  /\ users \subseteq Email
  /\ refresh \in [Jti -> Record \union {Unissued}]
  /\ held \in [Client -> Jti \union {NoToken}]
  /\ \A c \in Client : held[c] # NoToken => refresh[held[c]] # Unissued
  /\ reused \subseteq Jti

\* Of the tokens of one session only one can be exchanged, however often answers
\* were lost, exchanges failed half-way or tabs shared a token (lib.rs, Refresh:
\* "family ties a rotation chain together").
OneUsablePerFamily ==
  \A j, k \in Jti :
    Usable(j) /\ Usable(k) /\ refresh[j].family = refresh[k].family => j = k

\* Once a used token was presented again, no token of its session is accepted,
\* and no later step brings one back (lib.rs, refresh_token: "presenting an
\* already-used token revokes the entire family").
ReuseEndsSession == \A j \in Jti : Usable(j) => refresh[j].family \notin reused
=============================================================================
