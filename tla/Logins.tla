------------------------------- MODULE Logins -------------------------------
(***************************************************************************)
(* Refresh tokens (src/server/security/jwt.ts, the routes in               *)
(* src/server/api/routes/auth.ts) and the browser that keeps the last one  *)
(* it was given in a cookie. Tabs share the cookie and may send requests   *)
(* at once; answers come in any order. A token is its row in               *)
(* refresh_tokens.                                                         *)
(***************************************************************************)
EXTENDS Naturals, Sequences

CONSTANTS
    Requests,    \* the requests of all tabs, each sent once
    MaxFaults    \* bound: statements that fail, answers that are lost

ASSUME MaxFaultsAssumption == MaxFaults \in Nat

VARIABLES
    tokens,    \* the refresh_tokens table
    cookie,    \* the token in the browser's cookie, 0 for none
    request,   \* request[r]: how far r is, the token it came with and the one it got
    faults     \* how many faults there were

vars == <<tokens, cookie, request, faults>>

Unsent == [stage |-> "unsent", old |-> 0, new |-> 0]

LoginsTypeOK ==
    /\ tokens \in Seq([revoked : BOOLEAN, expired : BOOLEAN])
    /\ cookie \in 0..Len(tokens)
    /\ request \in [Requests -> [stage : {"unsent", "lookup", "revoke", "issue", "answer",
                                          "clear", "done", "failed"},
                                 old : 0..Len(tokens), new : 0..Len(tokens)]]
    /\ faults \in 0..MaxFaults

Init ==
    /\ tokens = << >>
    /\ cookie = 0
    /\ request = [r \in Requests |-> Unsent]
    /\ faults = 0

MovesTo(r, stage) == request' = [request EXCEPT ![r].stage = stage]

----------------------------------------------------------------------------
(* /login: authenticateUser has compared the password.                     *)
LogIn(r) ==
    /\ request[r].stage = "unsent"
    /\ MovesTo(r, "issue")
    /\ UNCHANGED <<tokens, cookie, faults>>

(* /refresh: rotateRefreshToken.                                           *)
Refresh(r) ==
    /\ request[r].stage = "unsent" /\ cookie # 0
    /\ request' = [request EXCEPT ![r] = [stage |-> "lookup", old |-> cookie, new |-> 0]]
    /\ UNCHANGED <<tokens, cookie, faults>>

\* /logout tells nobody but the browser.
LogOut(r) ==
    /\ request[r].stage = "unsent"
    /\ MovesTo(r, "clear")
    /\ UNCHANGED <<tokens, cookie, faults>>

Usable(t) == ~tokens[t].revoked /\ ~tokens[t].expired

\* The SELECT; if it finds nothing the request is refused, and the cookie
\* stays. The comparison with the hash, a long one, comes after it.
LookUp(r) ==
    /\ request[r].stage = "lookup"
    /\ MovesTo(r, IF Usable(request[r].old) THEN "revoke" ELSE "done")
    /\ UNCHANGED <<tokens, cookie, faults>>

\* The last token issued is the one to go.
RevokeNewest(r) ==
    /\ request[r].stage = "revoke"
    /\ tokens' = [tokens EXCEPT ![Len(tokens)].revoked = TRUE]
    /\ MovesTo(r, "issue")
    /\ UNCHANGED <<cookie, faults>>

Revoke(r) ==
    /\ request[r].stage = "revoke"
    /\ tokens' = [tokens EXCEPT ![request[r].old].revoked = TRUE]
    /\ MovesTo(r, "issue")
    /\ UNCHANGED <<cookie, faults>>

\* createRefreshToken hands out the token before there is a row for it.
IssueUnstored(r) ==
    /\ request[r].stage = "issue"
    /\ request' = [request EXCEPT ![r].stage = "answer", ![r].new = Len(tokens) + 1]
    /\ UNCHANGED <<tokens, cookie, faults>>

\* createRefreshToken: hashing takes long, too; then the INSERT.
Issue(r) ==
    /\ request[r].stage = "issue"
    /\ tokens' = Append(tokens, [revoked |-> FALSE, expired |-> FALSE])
    /\ request' = [request EXCEPT ![r].stage = "answer", ![r].new = Len(tokens) + 1]
    /\ UNCHANGED <<cookie, faults>>

\* The answer reaches the browser.
Answer(r) ==
    /\ request[r].stage \in {"answer", "clear"}
    /\ cookie' = request[r].new
    /\ MovesTo(r, "done")
    /\ UNCHANGED <<tokens, faults>>

\* A statement fails or the answer is lost. What was revoked stays revoked.
Fail(r) ==
    /\ faults < MaxFaults
    /\ request[r].stage \notin {"unsent", "done", "failed"}
    /\ MovesTo(r, "failed")
    /\ faults' = faults + 1
    /\ UNCHANGED <<tokens, cookie>>

Expire(t) ==
    /\ ~tokens[t].expired
    /\ tokens' = [tokens EXCEPT ![t].expired = TRUE]
    /\ UNCHANGED <<cookie, request, faults>>

Rest == (\A r \in Requests : request[r].stage \in {"done", "failed"}) /\ UNCHANGED vars

Serve(r) ==
    \/ LogIn(r) \/ Refresh(r) \/ LogOut(r)
    \/ LookUp(r) \/ Revoke(r) \/ Issue(r) \/ Answer(r) \/ Fail(r)

Next ==
    \/ \E r \in Requests : Serve(r)
    \/ \E t \in DOMAIN tokens : Expire(t)
    \/ Rest

Spec == Init /\ [][Next]_vars

----------------------------------------------------------------------------
\* Tabs that refresh at once do not log each other out: while the token in
\* the cookie is revoked, the one that replaces it is on its way, unless the
\* request for it has failed.
CookieIsGood ==
    \/ cookie = 0
    \/ ~tokens[cookie].revoked
    \/ \E r \in Requests :
          request[r].old = cookie /\ request[r].stage \in {"issue", "answer", "failed"}

\* However the rotations of one token overlap, a token is given to one
\* request only, and nothing but the cookie can bring it back: the tokens that
\* are still on their way are all different from each other and from the
\* cookie, and nobody has used them.
AnswersAreFresh ==
    \A r \in Requests : request[r].stage = "answer" =>
        /\ cookie # request[r].new
        /\ ~tokens[request[r].new].revoked
        /\ \A q \in Requests : /\ request[q].old # request[r].new
                               /\ q # r => request[q].new # request[r].new
=============================================================================
