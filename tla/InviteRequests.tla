---------------------------- MODULE InviteRequests ----------------------------
(***************************************************************************)
(* Requests for an invite (internal/control/handlers.go): a visitor of the *)
(* gate page submits one, an admin approves it, which mints an invite, or  *)
(* declines it.  A decision is one more request to the control plane, next *)
(* to those of Tenancy: it reads the record, writes it back without a      *)
(* revision, and ignores whether that worked.  The replica that answers    *)
(* the read may lag and still say that the request is pending.  The admin  *)
(* page (ui/nats-kv-admin/src/lib.rs) offers a decision on every request   *)
(* that was pending when its list was loaded, and hands out the link it    *)
(* gets.                                                                   *)
(***************************************************************************)
EXTENDS Tenancy

CONSTANT Request    \* requests for an invite

ASSUME RequestAssumption == Nobody \notin Request

VARIABLES
    requests,   \* [Request -> its record; state "new", "pending", "approved", "declined"]
    decision,   \* [Job -> the decision the job is, if it is one]
    links,      \* history: pairs <<request, invite>> of the links handed out
    muddled     \* history: requests with a decision that failed, overlapped another
                \*   or read a record that was decided already as pending

requestVars == <<requests, decision, links, muddled>>
allVars == <<vars, requestVars>>

NoDecision == [op |-> "none", at |-> "idle", request |-> Nobody, invite |-> Nobody]
Decided == [NoDecision EXCEPT !.at = "end"]

Deciding(r) == {j \in Job : decision[j].request = r}
-----------------------------------------------------------------------------
\* POST /v1/internal/invite-requests, from the form on the gate page.
Submit(r) ==
    /\ requests[r].state = "new"
    /\ requests' = [requests EXCEPT ![r].state = "pending"]
    /\ UNCHANGED <<vars, decision, links, muddled>>

\* Mutant: a request can be decided again.
DecideAgain(j, r, op) ==
    /\ job[j].at = "idle" /\ decision[j].at = "idle"
    /\ requests[r].state # "new"
    /\ decision' = [decision EXCEPT ![j] =
           [op |-> op, request |-> r, invite |-> Nobody,
            at |-> IF op = "approve" THEN "mint" ELSE "put"]]
    /\ muddled' = IF Deciding(r) = {} THEN muddled ELSE muddled \cup {r}
    /\ UNCHANGED <<vars, requests, links>>

\* POST .../<id>/approve, .../<id>/decline: 409 unless the record that the replica
\* has, the latest or an older one, says pending ...
Decide(j, r, op) ==
    /\ job[j].at = "idle" /\ decision[j].at = "idle"
    /\ requests[r].state # "new"
    /\ \E seen \in {requests[r].state, "pending"} :
        /\ decision' = [decision EXCEPT ![j] =
               IF seen # "pending" THEN Decided
               ELSE [op |-> op, request |-> r, invite |-> Nobody,
                     at |-> IF op = "approve" THEN "mint" ELSE "put"]]
        /\ muddled' = IF Deciding(r) = {} /\ seen = requests[r].state THEN muddled
                      ELSE muddled \cup {r}
    /\ UNCHANGED <<vars, requests, links>>

\* Mutant: the record is written first, with the token of the invite to come.
MintLast(j) ==
    /\ decision[j].at = "mint"
    /\ \E i \in Invite, o \in Outcomes :
        /\ invites[i].state = "new"
        /\ requests' = [requests EXCEPT ![decision[j].request] =
                            [state |-> "approved", invite |-> i]]
        /\ decision' = [decision EXCEPT ![j] =
               IF o.ok THEN [@ EXCEPT !.invite = i, !.at = "put"] ELSE Decided]
        /\ muddled' = IF o.ok THEN muddled ELSE muddled \cup {decision[j].request}
    /\ UNCHANGED <<vars, links>>

\* ... an approval stores a new invite ...
Mint(j) ==
    /\ decision[j].at = "mint"
    /\ \E i \in Invite, o \in Outcomes :
        /\ invites[i].state = "new"
        /\ invites' = IF o.done THEN [invites EXCEPT ![i].state = "open"] ELSE invites
        /\ decision' = [decision EXCEPT ![j] =
               IF o.ok THEN [@ EXCEPT !.invite = i, !.at = "put"] ELSE Decided]
        /\ muddled' = IF o.ok THEN muddled ELSE muddled \cup {decision[j].request}
    /\ UNCHANGED <<tenants, keys, job, granted, requests, links>>

\* ... and the record is written, the error ignored: 200, with the claim path.
PutDecision(j) ==
    LET d == decision[j] IN
    /\ d.at = "put"
    /\ \E o \in Outcomes :
        /\ requests' = IF o.done
                       THEN [requests EXCEPT ![d.request] =
                                [state |-> IF d.op = "approve" THEN "approved" ELSE "declined",
                                 invite |-> d.invite]]
                       ELSE requests
        /\ muddled' = IF o.done THEN muddled ELSE muddled \cup {d.request}
    /\ links' = IF d.op = "approve" THEN links \cup {<<d.request, d.invite>>} ELSE links
    /\ decision' = [decision EXCEPT ![j] = Decided]
    /\ UNCHANGED vars

\* A restart of the process ends the decisions under way as well.
RestartAll ==
    /\ MayFail
    /\ \E j \in Job : job[j].at \notin {"idle", "end"} \/ decision[j].at \notin {"idle", "end"}
    /\ job' = [j \in Job |-> IF job[j].at = "idle" THEN job[j] ELSE [job[j] EXCEPT !.at = "end"]]
    /\ decision' = [j \in Job |-> IF decision[j].at = "idle" THEN NoDecision ELSE Decided]
    /\ muddled' = muddled \cup {decision[j].request :
                                  j \in {h \in Job : decision[h].at \in {"mint", "put"}}}
    /\ UNCHANGED <<tenants, keys, invites, granted, requests, links>>

-----------------------------------------------------------------------------
RequestsInit ==
    /\ Init
    /\ requests = [r \in Request |-> [state |-> "new", invite |-> Nobody]]
    /\ decision = [j \in Job |-> NoDecision]
    /\ links = {} /\ muddled = {}

Decisions(j) ==
    \/ \E r \in Request, op \in {"approve", "decline"} : Decide(j, r, op)
    \/ Mint(j) \/ PutDecision(j)

RequestsNext ==
    \/ Admin /\ UNCHANGED requestVars
    \/ \E j \in Job : decision[j].at = "idle" /\ Handler(j) /\ UNCHANGED requestVars
    \/ \E r \in Request : Submit(r)
    \/ \E j \in Job : Decisions(j)
    \/ RestartAll

RequestsSpec == RequestsInit /\ [][RequestsNext]_allVars
-----------------------------------------------------------------------------
(* Requests for an invite, decisions on them and links keep their types. *)
RequestsTypeOK ==
    /\ requests \in [Request -> [state : {"new", "pending", "approved", "declined"},
                                 invite : Invite \cup {Nobody}]]
    /\ decision \in [Job -> [op : {"none", "approve", "decline"},
                             at : {"idle", "mint", "put", "end"},
                             request : Request \cup {Nobody}, invite : Invite \cup {Nobody}]]
    /\ links \subseteq Request \X Invite /\ muddled \subseteq Request \cup {Nobody}

(* An approved request names an invite that was stored before, whatever failed, raced
   or was restarted: the link of every approval on record can be claimed until the
   invite expires, is revoked or is claimed. *)
ApprovedHasInvite ==
    \A r \in Request : requests[r].state = "approved" =>
        requests[r].invite \in Invite /\ invites[requests[r].invite].state # "new"

(* The link the admin page hands out works, even if recording the approval failed. *)
LinksHaveInvites == \A l \in links : invites[l[2]].state # "new"

(* One request gets one answer: while the decisions on a request neither overlap nor
   fail, and none read from a replica that lags, they hand out one link at most, for
   the invite on record, and none once it is declined. *)
OneAnswerPerRequest ==
    \A r \in Request \ muddled, i \in Invite :
        <<r, i>> \in links => requests[r] = [state |-> "approved", invite |-> i]
=============================================================================
