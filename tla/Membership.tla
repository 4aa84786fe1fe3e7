----------------------------- MODULE Membership -----------------------------
(***************************************************************************)
(* The collaborators of one project: membership.Store and the handlers      *)
(* createInvite, acceptInvite and declineInvite.  The handlers interleave   *)
(* statement by statement, a statement may fail and end its request, and    *)
(* the purge of the project runs beside them, in one transaction whose      *)
(* deletions see the rows that are committed when they run.                 *)
(*                                                                          *)
(* A user stands for the addresses that strings.EqualFold takes for theirs. *)
(* A member is never removed: the program has no operation for it.          *)
(***************************************************************************)
EXTENDS Naturals

CONSTANTS Users, Owner,
          Roles,                 \* the roles an owner gives
          MaxArrived,            \* bound: requests
          MaxFailedStatements    \* bound: statements that fail

ASSUME OwnerAssumption == Owner \in Users
ASSUME RolesAssumption == "none" \notin Roles
ASSUME InvitingBounds == MaxArrived \in Nat /\ MaxFailedStatements \in Nat

VARIABLES
  members,      \* project_members: each user's role, or "none"
  invites,      \* project_invites
  purge,        \* how far purgeProject's transaction is
  doomed,       \* the rows it has deleted and not committed: users and invites
  inviting,     \* POST .../invites and /invites/{id}/accept under way
  arrived, failedStatements,   \* so far
  halfway,      \* history: the invites whose accept failed after it had added the member
  overlapped    \* history: a request and the purge were under way at one time

membershipVars ==
  <<members, invites, purge, doomed, inviting, arrived, failedStatements, halfway, overlapped>>

IsMember(u) == members[u] # "none"
IsPending(i) == i.status = "pending"

MembershipInit ==
  /\ members = [u \in Users |-> IF u = Owner THEN "owner" ELSE "none"]
  /\ invites = {} /\ inviting = {}
  /\ purge = "not yet" /\ doomed = [users |-> {}, ids |-> {}]
  /\ arrived = 0 /\ failedStatements = 0
  /\ halfway = {} /\ overlapped = FALSE

-----------------------------------------------------------------------------
GoOn(q, stage) == inviting' = (inviting \ {q}) \union {[q EXCEPT !.stage = stage]}
Finish(q) == inviting' = inviting \ {q}

(* A request comes in, perhaps while the purge is running. *)
Arrive(q) ==
  /\ arrived < MaxArrived
  /\ arrived' = arrived + 1
  /\ inviting' = inviting \union {q}
  /\ overlapped' = (overlapped \/ purge \notin {"not yet", "done"})

(* createInvite: only an owner may. *)
CreateInvite(by, to, role) ==
  /\ members[by] = "owner"
  /\ Arrive([id |-> arrived + 1, op |-> "create", stage |-> "member",
             to |-> to, role |-> role, of |-> 0, saw |-> {}])
  /\ UNCHANGED <<members, invites, purge, doomed, failedStatements, halfway>>

(* IsMember of the account that Clerk has for the address.  A lookup that fails, *)
(* at Clerk or in the database, is passed over.                                  *)
CheckMember(q) ==
  /\ q.op = "create" /\ q.stage = "member"
  /\ \/ /\ IF IsMember(q.to) THEN Finish(q) ELSE GoOn(q, "list")
        /\ UNCHANGED failedStatements
     \/ /\ failedStatements < MaxFailedStatements
        /\ failedStatements' = failedStatements + 1
        /\ GoOn(q, "list")
  /\ UNCHANGED <<members, invites, purge, doomed, arrived, halfway, overlapped>>

Listed(q, seen) ==
  inviting' = (inviting \ {q}) \union {[q EXCEPT !.stage = "insert", !.saw = seen]}

(* Faulty: only an invite with the same role counts. *)
CheckPendingOfRole(q) ==
  /\ q.op = "create" /\ q.stage = "list"
  /\ IF \E i \in invites : IsPending(i) /\ i.to = q.to /\ i.role = q.role
     THEN Finish(q)
     ELSE Listed(q, {i.id : i \in invites})
  /\ UNCHANGED <<members, invites, purge, doomed, arrived, failedStatements, halfway, overlapped>>

(* ListInvites, and the comparison with what it lists.  A failure is passed over. *)
CheckPending(q) ==
  /\ q.op = "create" /\ q.stage = "list"
  /\ \/ /\ IF \E i \in invites : IsPending(i) /\ i.to = q.to
           THEN Finish(q)
           ELSE Listed(q, {i.id : i \in invites})
        /\ UNCHANGED failedStatements
     \/ /\ failedStatements < MaxFailedStatements
        /\ failedStatements' = failedStatements + 1
        /\ Listed(q, {})
  /\ UNCHANGED <<members, invites, purge, doomed, arrived, halfway, overlapped>>

(* Store.CreateInvite.  What the request saw is kept for StacksAreRaces only. *)
InsertInvite(q) ==
  /\ q.op = "create" /\ q.stage = "insert"
  /\ invites' = invites \union
       {[id |-> q.id, to |-> q.to, role |-> q.role, status |-> "pending", saw |-> q.saw]}
  /\ Finish(q)
  /\ UNCHANGED <<members, purge, doomed, arrived, failedStatements, halfway, overlapped>>

-----------------------------------------------------------------------------
(* Faulty: the invite is accepted whatever its status. *)
AcceptAnswered(u, i) ==
  /\ i.to = u
  /\ Arrive([id |-> arrived + 1, op |-> "accept", stage |-> "add",
             to |-> u, role |-> i.role, of |-> i.id, saw |-> {}])
  /\ UNCHANGED <<members, invites, purge, doomed, failedStatements, halfway>>

(* acceptInvite up to AcceptInvite's own look at the invite.  The handler reads *)
(* it first for its address, which never changes.                               *)
Accept(u, i) ==
  /\ i.to = u /\ IsPending(i)
  /\ Arrive([id |-> arrived + 1, op |-> "accept", stage |-> "add",
             to |-> u, role |-> i.role, of |-> i.id, saw |-> {}])
  /\ UNCHANGED <<members, invites, purge, doomed, failedStatements, halfway>>

(* Faulty: the conflict updates the role. *)
AddMemberUpserts(q) ==
  /\ q.op = "accept" /\ q.stage = "add" /\ q.to \notin doomed.users
  /\ members' = [members EXCEPT ![q.to] = q.role]
  /\ GoOn(q, "mark")
  /\ UNCHANGED <<invites, purge, doomed, arrived, failedStatements, halfway, overlapped>>

(* Store.AddMember: ON CONFLICT DO NOTHING.  A row that a transaction has deleted *)
(* and not committed makes the insert wait.                                       *)
AddMember(q) ==
  /\ q.op = "accept" /\ q.stage = "add" /\ q.to \notin doomed.users
  /\ members' = IF IsMember(q.to) THEN members ELSE [members EXCEPT ![q.to] = q.role]
  /\ GoOn(q, "mark")
  /\ UNCHANGED <<invites, purge, doomed, arrived, failedStatements, halfway, overlapped>>

Resolve(id, status) ==
  invites' = {IF i.id = id THEN [i EXCEPT !.status = status] ELSE i : i \in invites}

(* The update of AcceptInvite, whatever the status has become. *)
MarkAccepted(q) ==
  /\ q.op = "accept" /\ q.stage = "mark" /\ q.of \notin doomed.ids
  /\ Resolve(q.of, "accepted")
  /\ Finish(q)
  /\ UNCHANGED <<members, purge, doomed, arrived, failedStatements, halfway, overlapped>>

(* Faulty: the update does not ask for a pending invite. *)
DeclineInviteAnyway(u, i) ==
  /\ i.to = u /\ i.id \notin doomed.ids
  /\ Resolve(i.id, "declined")
  /\ UNCHANGED <<members, purge, doomed, inviting, arrived, failedStatements, halfway, overlapped>>

(* declineInvite: one update, of a pending invite. *)
DeclineInvite(u, i) ==
  /\ i.to = u /\ IsPending(i) /\ i.id \notin doomed.ids
  /\ Resolve(i.id, "declined")
  /\ UNCHANGED <<members, purge, doomed, inviting, arrived, failedStatements, halfway, overlapped>>

(* A statement that writes fails, or the server stops before it. *)
RequestFails(q) ==
  /\ failedStatements < MaxFailedStatements
  /\ q.stage \in {"insert", "add", "mark"}
  /\ failedStatements' = failedStatements + 1
  /\ halfway' = IF q.stage = "mark" THEN halfway \union {q.of} ELSE halfway
  /\ Finish(q)
  /\ UNCHANGED <<members, invites, purge, doomed, arrived, overlapped>>

-----------------------------------------------------------------------------
(* purgeProject's last transaction: project_members, project_invites, commit. *)
Overlap == overlapped' = (overlapped \/ inviting # {})

(* Faulty: project_members is missing from the tables. *)
PurgeMembersForgotten ==
  /\ purge = "not yet"
  /\ purge' = "members"
  /\ Overlap
  /\ UNCHANGED <<members, invites, doomed, inviting, arrived, failedStatements, halfway>>

PurgeMembers ==
  /\ purge = "not yet"
  /\ purge' = "members"
  /\ doomed' = [doomed EXCEPT !.users = {u \in Users : IsMember(u)}]
  /\ Overlap
  /\ UNCHANGED <<members, invites, inviting, arrived, failedStatements, halfway>>

PurgeInvites ==
  /\ purge = "members"
  /\ purge' = "invites"
  /\ doomed' = [doomed EXCEPT !.ids = {i.id : i \in invites}]
  /\ Overlap
  /\ UNCHANGED <<members, invites, inviting, arrived, failedStatements, halfway>>

PurgeCommit ==
  /\ purge = "invites"
  /\ purge' = "done"
  /\ members' = [u \in Users |-> IF u \in doomed.users THEN "none" ELSE members[u]]
  /\ invites' = {i \in invites : i.id \notin doomed.ids}
  /\ doomed' = [users |-> {}, ids |-> {}]
  /\ Overlap
  /\ UNCHANGED <<inviting, arrived, failedStatements, halfway>>

Purge == PurgeMembers \/ PurgeInvites \/ PurgeCommit

MembershipNext ==
  \/ \E by, to \in Users, role \in Roles : CreateInvite(by, to, role)
  \/ \E u \in Users, i \in invites : Accept(u, i) \/ DeclineInvite(u, i)
  \/ \E q \in inviting : \/ CheckMember(q) \/ CheckPending(q) \/ InsertInvite(q)
                         \/ AddMember(q) \/ MarkAccepted(q) \/ RequestFails(q)
  \/ Purge

MembershipSpec == MembershipInit /\ [][MembershipNext]_membershipVars

-----------------------------------------------------------------------------
MembershipTypeOK ==
  /\ members \in [Users -> Roles \union {"none", "owner"}]
  /\ \A i \in invites : /\ i.id \in 1..arrived /\ i.to \in Users /\ i.role \in Roles
                        /\ i.status \in {"pending", "accepted", "declined"}
  /\ \A q \in inviting : /\ q.op = "create" => q.stage \in {"member", "list", "insert"}
                         /\ q.op = "accept" => q.stage \in {"add", "mark"}
  /\ purge \in {"not yet", "members", "invites", "done"} /\ overlapped \in BOOLEAN

(* An accepted invite has made its addressee a member; and whoever is a member, but *)
(* for the owner, is one through an invite of that role to them, which is accepted, *)
(* is being accepted, or whose accept failed between its two writes.                *)
MembersComeFromInvites ==
  purge # "done" =>
    /\ \A i \in invites : i.status = "accepted" => IsMember(i.to)
    /\ \A u \in Users \ {Owner} : IsMember(u) =>
         \E i \in invites : /\ i.to = u /\ i.role = members[u]
                            /\ \/ i.status = "accepted" \/ i.id \in halfway
                               \/ \E q \in inviting : q.of = i.id /\ q.stage = "mark"

(* No invite, however often sent and accepted, changes the role of a member: the *)
(* owner who is invited to the own project stays its owner.                      *)
RolesAreKept ==
  [][\A u \in Users : IsMember(u) /\ members'[u] # "none" => members'[u] = members[u]]_membershipVars

(* An answer that no request can change any more. *)
IsFinal(i) ==
  \/ i.status = "accepted"
  \/ i.status = "declined" /\ \A q \in inviting : q.of # i.id

(* An accepted invite stays accepted, and one that is declined stays declined for good if *)
(* no accept of it was under way: only an accept that had read the invite before can       *)
(* overwrite a decline, and nothing overwrites an accept.                                  *)
AnswersStand ==
  [][\A i \in invites, j \in invites' :
       i.id = j.id /\ IsFinal(i) => j.status = i.status /\ IsFinal(j)']_membershipVars

(* Two invites to one person are pending together only when neither was listed by  *)
(* the other's request: createInvite's check misses overlaps and failed reads, and *)
(* nothing else.                                                                   *)
StacksAreRaces ==
  \A i, j \in invites : i # j /\ i.to = j.to /\ IsPending(i) /\ IsPending(j) => i.id \notin j.saw

(* What is left of a project's collaborators after its purge was written by a *)
(* request that overlapped it, or follows from such a row.                    *)
PurgeLeavesNobody ==
  purge = "done" /\ ~overlapped => invites = {} /\ \A u \in Users : ~IsMember(u)

=============================================================================
