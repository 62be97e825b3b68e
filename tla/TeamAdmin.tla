------------------------------ MODULE TeamAdmin ------------------------------
(***************************************************************************)
(* Who administers a team: the member endpoints of the team console        *)
(* (src/internal/saas/billing/team.go) beside the two of the admin panel   *)
(* that touch membership, handleCreateWorkspace and handleDeleteToken.     *)
(*                                                                         *)
(* Each of them reads, decides and writes in separate database calls, so a *)
(* request here is a small process: it looks up its target, asks whether   *)
(* the target is the only admin where the code asks, and writes.  Nothing  *)
(* holds the teams still in between: what a request has read may have been *)
(* changed by another before it writes, and with DbFails a database call   *)
(* can fail, or the process die, at any step.  The history variable lapsed *)
(* keeps the requests this has happened to, so that the properties can say *)
(* what the guards are worth: a team is orphaned, or a deleted token left  *)
(* in one, by such a request only.                                         *)
(***************************************************************************)
EXTENDS SaasStore

CONSTANTS
  Request,   \* concurrent requests
  DbFails    \* whether database calls can fail and requests die

ASSUME TeamAssumption == DbFails \in BOOLEAN

VARIABLES
  req,    \* progress of the requests
  live,   \* registered client tokens
  lapsed  \* history: requests that went on with what was no longer so, or broke off

teamVars == <<storeVars, req, live, lapsed>>

NoRequest == [pc |-> "idle"]

\* A request of the console knows the workspace authMW has looked up and, once
\* it has one, its target.
Kinds == {"invite", "promote", "demote", "remove", "delete", "create"}
Busy == [pc : {"admitted"}, ws : Workspace]
          \cup [pc : {"resolved", "cleared", "unregistered", "created", "failed"},
                kind : Kinds, ws : Workspace \cup {NoWorkspace}, target : Token]

TeamTypeOK ==
  /\ StoreTypeOK
  /\ req \in [Request -> {NoRequest} \cup Busy]
  /\ live \subseteq Token
  /\ lapsed \subseteq Request

TeamInit ==
  /\ StoreInit
  /\ req = [r \in Request |-> NoRequest]
  /\ live = Token
  /\ lapsed = {}

Job(pc, kind, w, t) == [pc |-> pc, kind |-> kind, ws |-> w, target |-> t]

Advance(r, job) == req' = [req EXCEPT ![r] = job]
-----------------------------------------------------------------------------
(***************************************************************************)
(* The team console.                                                       *)
(***************************************************************************)

\* authMW.  A disabled workspace is found like any other.
Authenticate(r, t) ==
  /\ req[r] = NoRequest
  /\ t \in live /\ t \in admins
  /\ Advance(r, [pc |-> "admitted", ws |-> member[t]])
  /\ UNCHANGED <<storeVars, live>>

\* addMember checks the token's registration.
ResolveInvitee(r, t) ==
  /\ req[r].pc = "admitted"
  /\ t \in live
  /\ Advance(r, Job("cleared", "invite", req[r].ws, t))
  /\ UNCHANGED <<storeVars, live>>

\* resolveMember: the target's row, within the workspace.  Only taking an
\* admin's role away calls for a count of the admins.
ResolveMember(r, kind, t) ==
  /\ req[r].pc = "admitted"
  /\ member[t] = req[r].ws
  /\ Advance(r, Job(IF kind # "promote" /\ t \in admins THEN "resolved" ELSE "cleared",
                   kind, req[r].ws, t))
  /\ UNCHANGED <<storeVars, live>>

\* Mutant: off by one in the comparison with the count.
OnlyAdminOffByOne(w) == Cardinality(Members(w) \cap admins) <= 0

OnlyAdmin(w) == Cardinality(Members(w) \cap admins) <= 1

\* A failed count is a count of zero: refused.
CountAdmins(r) ==
  /\ req[r].pc = "resolved" /\ req[r].kind \in {"demote", "remove"}
  /\ \/ (OnlyAdmin(req[r].ws) \/ DbFails) /\ Advance(r, NoRequest)
     \/ ~OnlyAdmin(req[r].ws) /\ Advance(r, [req[r] EXCEPT !.pc = "cleared"])
  /\ UNCHANGED <<storeVars, live>>

\* The writes name the token only.
WriteMember(r) ==
  LET job == req[r] IN
  /\ job.pc = "cleared"
  /\ \/ /\ job.kind = "invite"
        /\ \E isAdmin \in BOOLEAN : AddMember(job.ws, job.target, isAdmin, 0, 0)
     \/ job.kind = "promote" /\ UpdateMemberRole(job.target, TRUE)
     \/ job.kind = "demote" /\ UpdateMemberRole(job.target, FALSE)
     \/ job.kind = "remove" /\ RemoveMember(job.target)
  /\ Advance(r, NoRequest)
  /\ UNCHANGED live
-----------------------------------------------------------------------------
(***************************************************************************)
(* handleDeleteToken.                                                      *)
(***************************************************************************)

\* The look-up behind SoleAdminWorkspace: a token that is no admin may go.
StartDelete(r, t) ==
  /\ req[r] = NoRequest
  /\ t \in live
  /\ Advance(r, Job(IF t \in admins THEN "resolved" ELSE "cleared", "delete", member[t], t))
  /\ UNCHANGED <<storeVars, live>>

CheckSoleAdmin(r) ==
  /\ req[r].pc = "resolved" /\ req[r].kind = "delete"
  /\ Advance(r, IF OnlyAdmin(req[r].ws) THEN NoRequest ELSE [req[r] EXCEPT !.pc = "cleared"])
  /\ UNCHANGED <<storeVars, live>>

\* An error of the check lets the deletion through.
CheckFails(r) ==
  /\ DbFails
  /\ req[r].pc = "resolved" /\ req[r].kind = "delete"
  /\ Advance(r, [req[r] EXCEPT !.pc = "cleared"])
  /\ UNCHANGED <<storeVars, live>>

DeleteToken(r) ==
  /\ req[r].pc = "cleared" /\ req[r].kind = "delete"
  /\ req[r].target \in live
  /\ live' = live \ {req[r].target}
  /\ Advance(r, [req[r] EXCEPT !.pc = "unregistered"])
  /\ UNCHANGED storeVars

\* Mutant: the row is left to the workspace.
DropMembershipForgotten(r) ==
  /\ req[r].pc = "unregistered"
  /\ Advance(r, NoRequest)
  /\ UNCHANGED <<storeVars, live>>

\* That there is no row is passed over.
DropMembership(r) ==
  /\ req[r].pc = "unregistered"
  /\ \/ RemoveMember(req[r].target)
     \/ member[req[r].target] = NoWorkspace /\ UNCHANGED storeVars
  /\ Advance(r, NoRequest)
  /\ UNCHANGED live
-----------------------------------------------------------------------------
(***************************************************************************)
(* handleCreateWorkspace: the workspace, then its first admin, and the     *)
(* workspace is disabled when the admin cannot be added.                   *)
(***************************************************************************)
NewWorkspace(r, w, t) ==
  /\ req[r] = NoRequest
  /\ t \in live
  /\ CreateWorkspace(w)
  /\ Advance(r, Job("created", "create", w, t))
  /\ UNCHANGED live

AssignAdmin(r) ==
  /\ req[r].pc = "created"
  /\ \/ /\ AddMember(req[r].ws, req[r].target, TRUE, 0, 0)
        /\ Advance(r, NoRequest)
     \/ /\ member[req[r].target] # NoWorkspace \/ DbFails
        /\ Advance(r, [req[r] EXCEPT !.pc = "failed"])
        /\ UNCHANGED storeVars
  /\ UNCHANGED live

UndoCreate(r) ==
  /\ req[r].pc = "failed"
  /\ SetWorkspaceDisabled(req[r].ws, TRUE)
  /\ Advance(r, NoRequest)
  /\ UNCHANGED live

\* handlePatchWorkspace, by the operator.
PatchWorkspace(w, off) ==
  /\ SetWorkspaceDisabled(w, off)
  /\ UNCHANGED <<req, live, lapsed>>
-----------------------------------------------------------------------------
(***************************************************************************)
(* Ends, and the requests that have been overtaken.                        *)
(***************************************************************************)
\* The write or the deletion finds nothing to do and is answered with an
\* error.
GiveUp(r) ==
  LET job == req[r] IN
  /\ \/ job.pc = "admitted"
     \/ job.pc = "cleared" /\ job.kind = "invite" /\ member[job.target] # NoWorkspace
     \/ /\ job.pc = "cleared" /\ job.kind \in {"promote", "demote", "remove"}
        /\ member[job.target] = NoWorkspace
     \/ job.pc = "cleared" /\ job.kind = "delete" /\ job.target \notin live
  /\ Advance(r, NoRequest)
  /\ UNCHANGED <<storeVars, live>>

\* A statement fails that ends the request, or whose error is passed over at
\* the end of it (the row of a deleted token, the disabling of a workspace
\* without an admin); or the process dies.
BreakOff(r) ==
  /\ DbFails
  /\ req[r] # NoRequest
  /\ Advance(r, NoRequest)
  /\ UNCHANGED <<storeVars, live>>

Admins(w) == Members(w) \cap admins

\* The step takes an admin from the team s acts in, or changes what s knows of
\* its target.
Overtaken(s) ==
  /\ req[s] # NoRequest
  /\ \/ ~(Admins(req[s].ws) \subseteq Admins(req[s].ws)')
     \/ /\ req[s].pc # "admitted"
        /\ LET t == req[s].target IN
           \/ member'[t] # member[t]
           \/ (t \in admins') # (t \in admins)
           \/ (t \in live') # (t \in live)

\* r takes a step: the others may be overtaken by it, and r begins afresh.
Behind(r) ==
  {s \in Request \ {r} : s \in lapsed \/ Overtaken(s)}
    \cup (IF req[r] = NoRequest THEN {} ELSE lapsed \cap {r})

Begin(r) ==
  \E t \in Token :
    \/ Authenticate(r, t) \/ StartDelete(r, t)
    \/ \E w \in Workspace : NewWorkspace(r, w, t)

Step(r) ==
  \/ \E t \in Token :
       \/ ResolveInvitee(r, t)
       \/ \E kind \in {"promote", "demote", "remove"} : ResolveMember(r, kind, t)
  \/ CountAdmins(r) \/ WriteMember(r)
  \/ CheckSoleAdmin(r) \/ DeleteToken(r) \/ DropMembership(r)
  \/ AssignAdmin(r) \/ UndoCreate(r)
  \/ GiveUp(r)

Fails(r) == CheckFails(r) \/ BreakOff(r)

TeamNext ==
  \/ \E r \in Request :
       \/ (Begin(r) \/ Step(r)) /\ lapsed' = Behind(r)
       \/ Fails(r) /\ lapsed' = Behind(r) \cup {r}
  \/ \E w \in Workspace, off \in BOOLEAN : PatchWorkspace(w, off)

TeamSpec == TeamInit /\ [][TeamNext]_teamVars
-----------------------------------------------------------------------------
(***************************************************************************)
(* Properties.                                                             *)
(***************************************************************************)

\* A workspace with members has an admin among them (team.go, "don't let the
\* last admin demote themselves", "removing the only admin would orphan the
\* group's management"; handleDeleteToken).  Two requests at once can break it.
HasAdmin == \A w \in Workspace : Members(w) # {} => Members(w) \cap admins # {}

\* Nobody administers the workspace, though it has members or is open to some,
\* and nobody is about to.
Orphaned(w) ==
  /\ w \in workspaces
  /\ Admins(w) = {}
  /\ Members(w) # {} \/ w \notin disabled
  /\ ~\E r \in Request : req[r].pc \in {"created", "failed"} /\ req[r].ws = w

\* The guards against orphaned workspaces (patchMember, removeMember,
\* handleDeleteToken, and the undo of handleCreateWorkspace) fail no request
\* that acts on what is still so: whatever else goes on at the same time, the
\* last admin is taken from a workspace, or a workspace left without one, only
\* by a request that was overtaken by another one's write or broke off.
OrphanedByLapse ==
  [][\A r \in Request, w \in Workspace :
       req'[r] # req[r] /\ Orphaned(w)' /\ ~Orphaned(w) => r \in lapsed']_teamVars

\* A deleted token in a team, and no request on its way to take it out.
Dangling(t) ==
  /\ t \notin live /\ member[t] # NoWorkspace
  /\ ~\E r \in Request : req[r].pc = "unregistered" /\ req[r].target = t

\* The same of deleted tokens (handleDeleteToken, "so it doesn't dangle"):
\* one is left in a team, or put into one, only by a request that broke off
\* or was overtaken by the deletion.
DanglingByLapse ==
  [][\A r \in Request, t \in Token :
       req'[r] # req[r] /\ Dangling(t)' /\ ~Dangling(t) => r \in lapsed']_teamVars
=============================================================================
