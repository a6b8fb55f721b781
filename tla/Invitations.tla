---------------------------- MODULE Invitations ----------------------------
(***************************************************************************)
(* Who collaborates on a document (src/server/api/routes/documents.ts and  *)
(* invites.ts, src/server/persistence/invitation-store.ts and              *)
(* document-store.ts). A request asks several queries before it writes,    *)
(* and others write in between; what acceptInvitation and                  *)
(* rejectInvitation write is one transaction.                              *)
(***************************************************************************)
EXTENDS Integers, Sequences, FiniteSets

CONSTANTS
    Users,
    Creator,      \* who created the document
    Limit,        \* how many collaborators a document may have (10)
    MaxRequests,  \* bound: requests sent
    Offers,       \* the roles that requests name, among those an invitation may be for
    MaxFaults,    \* bound: requests that end with an error before their last query
    MaxLapses     \* bound: invitations that expire or are revoked

VARIABLES
    role,         \* role[u]: the row of u in document_permissions, if there is one
    deleted,      \* is_deleted
    invitations,  \* the invitations table; a revoked one has no row
    requests,     \* the requests in progress
    sent,         \* how many requests were sent
    faults,       \* how many failed
    lapses        \* how many invitations expired or were revoked

docVars == <<role, deleted>>
boundVars == <<sent, faults, lapses>>
vars == <<docVars, invitations, requests, boundVars>>

Roles == {"owner", "editor", "viewer"}

\* The table of invitations allows one role more than that of permissions.
InvitationRoles == Roles \cup {"commenter"}

Collaborators == {u \in Users : role[u] # "none"}

InvTypeOK ==
    /\ role \in [Users -> Roles \cup {"none"}]
    /\ deleted \in BOOLEAN
    /\ invitations \in Seq([invitee : Users, role : InvitationRoles, told : BOOLEAN, expired : BOOLEAN,
                            status : {"pending", "accepted", "rejected", "revoked"}])
    /\ requests \subseteq [id : 1..MaxRequests, by : Users, for : Users, role : InvitationRoles,
                           invitation : 0..Len(invitations),
                           stage : {"stranger", "room", "unasked", "insert", "notify", "accept",
                                    "reject", "update", "remove", "delete"}]
    /\ sent \in 0..MaxRequests /\ faults \in 0..MaxFaults /\ lapses \in 0..MaxLapses

\* createDocument
Init ==
    /\ role = [u \in Users |-> IF u = Creator THEN "owner" ELSE "none"]
    /\ deleted = FALSE
    /\ invitations = << >>
    /\ requests = {}
    /\ sent = 0 /\ faults = 0 /\ lapses = 0

Sends(stage, u, v, offer, i) ==
    /\ sent < MaxRequests
    /\ sent' = sent + 1
    /\ requests' = requests \cup {[id |-> sent + 1, by |-> u, for |-> v, role |-> offer,
                                   invitation |-> i, stage |-> stage]}
    /\ UNCHANGED <<docVars, invitations, faults, lapses>>

Ends(r) == requests' = requests \ {r}

GoesOn(r, stage) == requests' = (requests \ {r}) \cup {[r EXCEPT !.stage = stage]}

----------------------------------------------------------------------------
(* POST /docs/:id/invites: five queries, each to refuse the request. *)

Invite(u, v) ==
    /\ ~deleted /\ role[u] \in {"owner", "editor"} /\ u # v
    /\ \E offer \in Offers : Sends("stranger", u, v, offer, 0)

CheckCollaborator(r) ==
    /\ r.stage = "stranger"
    /\ IF role[r.for] = "none" THEN GoesOn(r, "room") ELSE Ends(r)
    /\ UNCHANGED <<docVars, invitations, boundVars>>

CheckLimit(r) ==
    /\ r.stage = "room"
    /\ IF Cardinality(Collaborators) < Limit THEN GoesOn(r, "unasked") ELSE Ends(r)
    /\ UNCHANGED <<docVars, invitations, boundVars>>

Open(i) == invitations[i].status = "pending" /\ ~invitations[i].expired

CheckPending(r) ==
    /\ r.stage = "unasked"
    /\ IF \E i \in DOMAIN invitations : invitations[i].invitee = r.for /\ Open(i)
       THEN Ends(r) ELSE GoesOn(r, "insert")
    /\ UNCHANGED <<docVars, invitations, boundVars>>

\* createEmailInvitation
CreateInvitation(r) ==
    /\ r.stage = "insert"
    /\ invitations' = Append(invitations, [invitee |-> r.for, role |-> r.role, told |-> FALSE,
                                           expired |-> FALSE, status |-> "pending"])
    /\ requests' = (requests \ {r}) \cup
                   {[r EXCEPT !.stage = "notify", !.invitation = Len(invitations) + 1]}
    /\ UNCHANGED <<docVars, boundVars>>

\* createNotification, which carries the token.
Notify(r) ==
    /\ r.stage = "notify"
    /\ invitations' = [invitations EXCEPT ![r.invitation].told = TRUE]
    /\ Ends(r)
    /\ UNCHANGED <<docVars, boundVars>>

----------------------------------------------------------------------------
(* Answers, with the token of an invitation that has a row and time left.   *)
(* Its status does not matter.                                             *)

Valid(i) == invitations[i].status # "revoked" /\ ~invitations[i].expired

Respond(i) ==
    /\ invitations[i].told /\ Valid(i)
    /\ \E stage \in {"accept", "reject"} :
          Sends(stage, invitations[i].invitee, invitations[i].invitee, invitations[i].role, i)

Marks(i, status) ==
    invitations' = [invitations EXCEPT ![i].status = IF @ = "revoked" THEN @ ELSE status]

\* acceptInvitation commits; a role the permissions table does not allow makes
\* it roll back.
Accept(r) ==
    /\ r.stage = "accept"
    /\ IF r.role \in Roles
       THEN role' = [role EXCEPT ![r.for] = r.role] /\ Marks(r.invitation, "accepted")
       ELSE UNCHANGED <<role, invitations>>
    /\ Ends(r)
    /\ UNCHANGED <<deleted, boundVars>>

\* rejectInvitation commits.
Reject(r) ==
    /\ r.stage = "reject"
    /\ Marks(r.invitation, "rejected")
    /\ Ends(r)
    /\ UNCHANGED <<docVars, boundVars>>

Lapses ==
    /\ lapses < MaxLapses
    /\ lapses' = lapses + 1
    /\ UNCHANGED <<docVars, requests, sent, faults>>

\* revokeInvitation, a DELETE; anybody may ask for it.
Revoke(i) ==
    /\ invitations[i].status # "revoked"
    /\ Marks(i, "revoked")
    /\ Lapses

Expire(i) ==
    /\ ~invitations[i].expired
    /\ invitations' = [invitations EXCEPT ![i].expired = TRUE]
    /\ Lapses

----------------------------------------------------------------------------
(* What owners do, and leaving. *)

Manage(u, v) ==
    /\ ~deleted
    /\ \/ role[u] = "owner" /\ \E offer \in Offers \cap Roles : Sends("update", u, v, offer, 0)
       \/ role[u] = "owner" /\ Sends("delete", u, u, "owner", 0)
       \/ /\ role[u] = "owner" \/ (u = v /\ role[u] # "none")
          /\ Sends("remove", u, v, "viewer", 0)

\* updateCollaboratorRole
UpdateRole(r) ==
    /\ r.stage = "update"
    /\ role' = [role EXCEPT ![r.for] = IF @ = "none" THEN @ ELSE r.role]
    /\ Ends(r)
    /\ UNCHANGED <<deleted, invitations, boundVars>>

\* removeCollaborator
Remove(r) ==
    /\ r.stage = "remove"
    /\ role' = [role EXCEPT ![r.for] = "none"]
    /\ Ends(r)
    /\ UNCHANGED <<deleted, invitations, boundVars>>

\* softDeleteDocument
Delete(r) ==
    /\ r.stage = "delete"
    /\ deleted' = TRUE
    /\ Ends(r)
    /\ UNCHANGED <<role, invitations, boundVars>>

Fail(r) ==
    /\ faults < MaxFaults
    /\ faults' = faults + 1
    /\ Ends(r)
    /\ UNCHANGED <<docVars, invitations, sent, lapses>>

Serve(r) ==
    \/ CheckCollaborator(r) \/ CheckLimit(r) \/ CheckPending(r) \/ CreateInvitation(r) \/ Notify(r)
    \/ Accept(r) \/ Reject(r) \/ UpdateRole(r) \/ Remove(r) \/ Delete(r) \/ Fail(r)

Rest == requests = {} /\ UNCHANGED vars

Next ==
    \/ \E u, v \in Users : Invite(u, v) \/ Manage(u, v)
    \/ \E i \in DOMAIN invitations : Respond(i) \/ Revoke(i) \/ Expire(i)
    \/ \E r \in requests : Serve(r)
    \/ Rest

Spec == Init /\ [][Next]_vars

----------------------------------------------------------------------------
\* "Validate max 10 collaborators" (documents.ts): a document never has more
\* collaborators than that. Only rows of document_permissions are counted and
\* only when somebody is invited, so every invitation that is open by then
\* makes one more.
CollaboratorLimit == Cardinality(Collaborators) <= Limit
=============================================================================
