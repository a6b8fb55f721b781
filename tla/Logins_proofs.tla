---------------------------- MODULE Logins_proofs ----------------------------
(***************************************************************************)
(* Proofs about Logins: for any number of requests and faults, the token   *)
(* in the cookie is good or about to be replaced.                          *)
(***************************************************************************)
EXTENDS Logins, SequenceTheorems, TLAPS

\* What a request carries at each of its stages: the token it came with has a
\* row while it is looked up and revoked, so has the one it is to be answered
\* with, and a logout, which asked for none, with none.
RequestsCarryTokens ==
    \A r \in Requests :
        /\ request[r].stage \in {"lookup", "revoke"} => request[r].old \in DOMAIN tokens
        /\ request[r].stage = "answer" => request[r].new \in DOMAIN tokens
        /\ request[r].stage \in {"unsent", "clear"} => request[r].new = 0

Row == [revoked : BOOLEAN, expired : BOOLEAN]

IInv == LoginsTypeOK /\ RequestsCarryTokens /\ AnswersAreFresh /\ CookieIsGood

\* Nothing is stored and nobody is logged in (createRefreshToken has not run).
LEMMA InitIInv == Init => IInv
BY MaxFaultsAssumption
   DEF Init, IInv, LoginsTypeOK, RequestsCarryTokens, AnswersAreFresh, CookieIsGood, Unsent

\* An UPDATE of one row: the others stay, and so does their number.
LEMMA UpdateRow ==
    ASSUME NEW table \in Seq(Row), NEW t \in DOMAIN table, NEW row \in Row,
           NEW updated, updated = [table EXCEPT ![t] = row]
    PROVE  /\ updated \in Seq(Row) /\ Len(updated) = Len(table)
           /\ DOMAIN updated = DOMAIN table /\ updated[t] = row
           /\ \A u \in DOMAIN table : u # t => updated[u] = table[u]
<1>1. DOMAIN table = 1..Len(table) /\ DOMAIN updated = DOMAIN table
  OBVIOUS
<1>2. updated \in Seq(Row) /\ Len(updated) = Len(table)
  BY <1>1, ExceptSeq
<1>3. QED
  BY <1>1, <1>2

\* A request that only changes its stage, and has no business with tokens at
\* the new one, disturbs nothing: login before its INSERT, logout, the SELECT
\* of rotateRefreshToken, and a failure.
LEMMA MovesKeepIInv ==
    ASSUME IInv, NEW r \in Requests, NEW stage, MovesTo(r, stage), tokens' = tokens, cookie' = cookie,
           faults' \in 0..MaxFaults,
           \/ request[r].stage = "unsent" /\ stage = "issue"
           \/ request[r].stage = "unsent" /\ stage = "clear"
           \/ request[r].stage = "lookup" /\ stage \in {"revoke", "done"}
           \/ stage = "failed"
    PROVE  IInv'
<1>1. \A q \in Requests : q # r => request'[q] = request[q]
  BY DEF IInv, LoginsTypeOK, MovesTo
<1>2. /\ request'[r].stage = stage
      /\ request'[r].old = request[r].old /\ request'[r].new = request[r].new
  BY DEF IInv, LoginsTypeOK, MovesTo
<1>3. LoginsTypeOK'
  BY DEF IInv, LoginsTypeOK, MovesTo
<1>4. RequestsCarryTokens'
  BY <1>1, <1>2 DEF IInv, RequestsCarryTokens
<1>5. AnswersAreFresh'
  BY <1>1, <1>2 DEF IInv, AnswersAreFresh
<1>6. CookieIsGood'
  BY <1>1, <1>2 DEF IInv, CookieIsGood
<1>7. QED
  BY <1>3, <1>4, <1>5, <1>6 DEF IInv

\* A refresh takes the token of the cookie, which no answer carries.
LEMMA RefreshKeepsIInv ==
    ASSUME IInv, NEW r \in Requests, Refresh(r)
    PROVE  IInv'
<1>1. \A q \in Requests : q # r => request'[q] = request[q]
  BY DEF IInv, LoginsTypeOK, Refresh
<1>2. request'[r] = [stage |-> "lookup", old |-> cookie, new |-> 0]
  BY DEF IInv, LoginsTypeOK, Refresh
<1>3. cookie \in DOMAIN tokens /\ 0 \notin DOMAIN tokens
  BY DEF IInv, LoginsTypeOK, Refresh
<1>4. tokens' = tokens /\ cookie' = cookie /\ faults' = faults
  BY DEF Refresh
<1>5. LoginsTypeOK'
  BY <1>4 DEF IInv, LoginsTypeOK, Refresh
<1>6. RequestsCarryTokens'
  BY <1>1, <1>2, <1>3, <1>4 DEF IInv, RequestsCarryTokens
<1>7. AnswersAreFresh'
  BY <1>1, <1>2, <1>3, <1>4 DEF IInv, AnswersAreFresh, RequestsCarryTokens
<1>8. CookieIsGood'
  BY <1>1, <1>2, <1>4 DEF IInv, CookieIsGood, Refresh
<1>9. QED
  BY <1>5, <1>6, <1>7, <1>8 DEF IInv

\* The UPDATE of rotateRefreshToken: whoever holds the revoked token in his
\* cookie waits for this request's answer.
LEMMA RevokeKeepsIInv ==
    ASSUME IInv, NEW r \in Requests, Revoke(r)
    PROVE  IInv'
<1> DEFINE old == request[r].old
<1>1. \A q \in Requests : q # r => request'[q] = request[q]
  BY DEF IInv, LoginsTypeOK, Revoke, MovesTo
<1>2. /\ request'[r].stage = "issue" /\ request[r].stage = "revoke"
      /\ request'[r].old = old /\ request'[r].new = request[r].new
  BY DEF IInv, LoginsTypeOK, Revoke, MovesTo
<1>3. /\ old \in DOMAIN tokens
      /\ DOMAIN tokens' = DOMAIN tokens /\ Len(tokens') = Len(tokens)
      /\ tokens'[old].revoked
      /\ \A t \in DOMAIN tokens : t # old => tokens'[t] = tokens[t]
      /\ tokens' \in Seq(Row)
  <2> DEFINE row == [tokens[old] EXCEPT !.revoked = TRUE]
  <2>1. tokens \in Seq(Row) /\ old \in DOMAIN tokens
    BY <1>2 DEF IInv, LoginsTypeOK, RequestsCarryTokens, Row
  <2>2. tokens[old] \in Row
    BY <2>1, ElementOfSeq
  <2>3. row \in Row /\ row.revoked
    BY <2>2 DEF Row
  <2>4. tokens' = [tokens EXCEPT ![old] = row]
    BY DEF Revoke
  <2> HIDE DEF old, row
  <2>5. /\ tokens' \in Seq(Row) /\ Len(tokens') = Len(tokens)
        /\ DOMAIN tokens' = DOMAIN tokens /\ tokens'[old] = row
        /\ \A t \in DOMAIN tokens : t # old => tokens'[t] = tokens[t]
    BY <2>1, <2>3, <2>4, UpdateRow
  <2>6. tokens'[old].revoked
    BY <2>3, <2>5
  <2>7. QED
    BY <2>1, <2>5, <2>6
<1>4. cookie' = cookie /\ faults' = faults
  BY DEF Revoke
<1>5. LoginsTypeOK'
  BY ZenonT(60), <1>3, <1>4 DEF IInv, LoginsTypeOK, Revoke, MovesTo, Row
<1>6. RequestsCarryTokens'
  BY <1>1, <1>2, <1>3 DEF IInv, RequestsCarryTokens
<1>7. AnswersAreFresh'
  BY <1>1, <1>2, <1>3, <1>4 DEF IInv, AnswersAreFresh, RequestsCarryTokens
<1>8. CookieIsGood'
  <2>1. CASE cookie = old
    BY <1>2, <1>4, <2>1 DEF CookieIsGood
  <2>2. CASE cookie # old /\ cookie # 0 /\ ~tokens[cookie].revoked
    <3>1. cookie \in DOMAIN tokens
      BY <2>2 DEF IInv, LoginsTypeOK
    <3>2. QED
      BY <1>3, <1>4, <2>2, <3>1 DEF CookieIsGood
  <2>3. CASE cookie = 0 \/ \E q \in Requests : /\ request[q].old = cookie
                                             /\ request[q].stage \in {"issue", "answer", "failed"}
    BY <1>1, <1>2, <1>4, <2>3 DEF CookieIsGood
  <2>4. QED
    BY <2>1, <2>2, <2>3 DEF IInv, CookieIsGood
<1>9. QED
  BY <1>5, <1>6, <1>7, <1>8 DEF IInv

\* createRefreshToken: the new row's token is nobody else's.
LEMMA IssueKeepsIInv ==
    ASSUME IInv, NEW r \in Requests, Issue(r)
    PROVE  IInv'
<1> DEFINE new == Len(tokens) + 1
<1>1. \A q \in Requests : q # r => request'[q] = request[q]
  BY DEF IInv, LoginsTypeOK, Issue
<1>2. /\ request'[r].stage = "answer" /\ request[r].stage = "issue"
      /\ request'[r].old = request[r].old /\ request'[r].new = new
  BY DEF IInv, LoginsTypeOK, Issue
<1>3. /\ DOMAIN tokens' = 1..new /\ DOMAIN tokens = 1..Len(tokens) /\ Len(tokens') = new
      /\ ~tokens'[new].revoked
      /\ \A t \in DOMAIN tokens : tokens'[t] = tokens[t]
      /\ tokens' \in Seq([revoked : BOOLEAN, expired : BOOLEAN])
  BY DEF IInv, LoginsTypeOK, Issue
<1>4. cookie' = cookie /\ faults' = faults
  BY DEF Issue
<1>5. cookie \in 0..Len(tokens) /\ Len(tokens) \in Nat
  BY DEF IInv, LoginsTypeOK
<1>6. \A q \in Requests : request[q].old \in 0..Len(tokens) /\ request[q].new \in 0..Len(tokens)
  BY DEF IInv, LoginsTypeOK
<1>7. LoginsTypeOK'
  BY SMTT(60), <1>3, <1>4, <1>5, <1>6 DEF IInv, LoginsTypeOK, Issue
<1>8. RequestsCarryTokens'
  BY <1>1, <1>2, <1>3, <1>5 DEF IInv, RequestsCarryTokens
<1>9. AnswersAreFresh'
  BY SMTT(60), <1>1, <1>2, <1>3, <1>4, <1>5, <1>6 DEF IInv, AnswersAreFresh, RequestsCarryTokens
<1>10. CookieIsGood'
  BY <1>1, <1>2, <1>3, <1>4, <1>5 DEF IInv, CookieIsGood
<1>11. QED
  BY <1>7, <1>8, <1>9, <1>10 DEF IInv

\* The browser takes the answer's token, or forgets the one it has.
LEMMA AnswerKeepsIInv ==
    ASSUME IInv, NEW r \in Requests, Answer(r)
    PROVE  IInv'
<1>1. \A q \in Requests : q # r => request'[q] = request[q]
  BY DEF IInv, LoginsTypeOK, Answer, MovesTo
<1>2. /\ request'[r].stage = "done" /\ request[r].stage \in {"answer", "clear"}
      /\ request'[r].old = request[r].old /\ request'[r].new = request[r].new
  BY DEF IInv, LoginsTypeOK, Answer, MovesTo
<1>3. tokens' = tokens /\ cookie' = request[r].new /\ faults' = faults
  BY DEF Answer
<1>4. LoginsTypeOK'
  BY <1>3 DEF IInv, LoginsTypeOK, Answer, MovesTo
<1>5. RequestsCarryTokens'
  BY <1>1, <1>2, <1>3 DEF IInv, RequestsCarryTokens
<1>6. \A q \in Requests : q # r /\ request[q].stage = "answer" => request[q].new # request[r].new
  BY DEF IInv, AnswersAreFresh
<1>7. AnswersAreFresh'
  BY <1>1, <1>2, <1>3, <1>6 DEF IInv, AnswersAreFresh
<1>8. CookieIsGood'
  BY <1>2, <1>3 DEF IInv, CookieIsGood, AnswersAreFresh, RequestsCarryTokens
<1>9. QED
  BY <1>4, <1>5, <1>7, <1>8 DEF IInv

\* expires_at passes.
LEMMA ExpireKeepsIInv ==
    ASSUME IInv, NEW t \in DOMAIN tokens, Expire(t)
    PROVE  IInv'
<1>1. /\ DOMAIN tokens' = DOMAIN tokens /\ Len(tokens') = Len(tokens)
      /\ \A u \in DOMAIN tokens : tokens'[u].revoked = tokens[u].revoked
      /\ tokens' \in Seq(Row)
  <2> DEFINE row == [tokens[t] EXCEPT !.expired = TRUE]
  <2>1. tokens \in Seq(Row)
    BY DEF IInv, LoginsTypeOK, Row
  <2>2. tokens[t] \in Row
    BY <2>1, ElementOfSeq
  <2>3. row \in Row /\ row.revoked = tokens[t].revoked
    BY <2>2 DEF Row
  <2>4. tokens' = [tokens EXCEPT ![t] = row]
    BY DEF Expire
  <2>5. QED
    BY <2>1, <2>3, <2>4, UpdateRow
<1>2. cookie' = cookie /\ request' = request /\ faults' = faults
  BY DEF Expire
<1>3. LoginsTypeOK'
  BY <1>1, <1>2 DEF IInv, LoginsTypeOK, Row
<1>4. RequestsCarryTokens' /\ AnswersAreFresh'
  BY <1>1, <1>2 DEF IInv, RequestsCarryTokens, AnswersAreFresh
<1>5. CookieIsGood'
  BY SMTT(60), <1>1, <1>2 DEF IInv, CookieIsGood, LoginsTypeOK
<1>6. QED
  BY <1>3, <1>4, <1>5 DEF IInv

\* Every step of requests, of the clock and of nothing keeps the invariant.
LEMMA NextKeepsIInv == IInv /\ [Next]_vars => IInv'
<1> SUFFICES ASSUME IInv, [Next]_vars PROVE IInv'
  OBVIOUS
<1>1. ASSUME NEW r \in Requests, Serve(r) PROVE IInv'
  <2> faults \in 0..MaxFaults /\ MaxFaults \in Nat
    BY MaxFaultsAssumption DEF IInv, LoginsTypeOK
  <2>1. CASE LogIn(r)
    BY <2>1, MovesKeepIInv DEF LogIn
  <2>2. CASE Refresh(r)
    BY <2>2, RefreshKeepsIInv
  <2>3. CASE LogOut(r)
    BY <2>3, MovesKeepIInv DEF LogOut
  <2>4. CASE LookUp(r)
    BY <2>4, MovesKeepIInv DEF LookUp
  <2>5. CASE Revoke(r)
    BY <2>5, RevokeKeepsIInv
  <2>6. CASE Issue(r)
    BY <2>6, IssueKeepsIInv
  <2>7. CASE Answer(r)
    BY <2>7, AnswerKeepsIInv
  <2>8. CASE Fail(r)
    <3>1. faults' \in 0..MaxFaults
      BY <2>8 DEF Fail
    <3>2. QED
      BY <2>8, <3>1, MovesKeepIInv DEF Fail
  <2>9. QED
    BY <1>1, <2>1, <2>2, <2>3, <2>4, <2>5, <2>6, <2>7, <2>8 DEF Serve
<1>2. CASE UNCHANGED vars
  BY <1>2 DEF vars, IInv, LoginsTypeOK, RequestsCarryTokens, AnswersAreFresh, CookieIsGood
<1>3. QED
  BY <1>1, <1>2, ExpireKeepsIInv DEF Next, Rest

\* The inductive invariant of the refresh tokens.
THEOREM LoginsInvariance == Spec => []IInv
<1>1. QED
  BY InitIInv, NextKeepsIInv, PTL DEF Spec

\* Requests and the cookie name tokens that have rows (refresh_tokens).
THEOREM LoginsTypeCorrect == Spec => []LoginsTypeOK
<1>1. IInv => LoginsTypeOK
  BY DEF IInv
<1>2. QED
  BY <1>1, LoginsInvariance, PTL

\* rotateRefreshToken never leaves the browser with a revoked token while
\* nothing is on its way and nothing has failed.
THEOREM CookieStaysGood == Spec => []CookieIsGood
<1>1. IInv => CookieIsGood
  BY DEF IInv
<1>2. QED
  BY <1>1, LoginsInvariance, PTL
=============================================================================
