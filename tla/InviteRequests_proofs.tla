------------------------ MODULE InviteRequests_proofs ------------------------
(***************************************************************************)
(* Theorems about InviteRequests, for any number of requests, decisions    *)
(* and invites, with failing store calls and restarts.                     *)
(*                                                                         *)
(* The properties are about what a decision wrote, and follow from what it *)
(* had done before it wrote: DInv says that an approval about to be        *)
(* written has its invite, and OneInv that a request in good order has one *)
(* decision at a time, made while it was pending.  Decisions share jobs    *)
(* and invites with the handlers of Tenancy, whose invariant they keep.    *)
(***************************************************************************)
EXTENDS InviteRequests, Tenancy_proofs

DInv ==
    \A j \in Job :
        /\ decision[j].at \in {"mint", "put"} <=> decision[j].request \in Request
        /\ decision[j].at = "put" /\ decision[j].op = "approve" =>
              decision[j].invite \in Invite /\ invites[decision[j].invite].state # "new"

OneInv ==
    \A r \in Request \ muddled :
        /\ \A j, h \in Job : decision[j].request = r /\ decision[h].request = r => j = h
        /\ \A j \in Job : decision[j].request = r => requests[r].state = "pending"

RInv ==
    /\ TInv /\ RequestsTypeOK /\ DInv /\ OneInv
    /\ ApprovedHasInvite /\ LinksHaveInvites /\ OneAnswerPerRequest

\* Invites do not become new again.
Minted == \A i \in Invite : invites[i].state # "new" => invites'[i].state # "new"

\* The invariant holds at the start.
LEMMA RequestsInitInv == RequestsInit => RInv
BY InitInv, RequestAssumption DEF RequestsInit, RInv, RequestsTypeOK, DInv, OneInv, ApprovedHasInvite, LinksHaveInvites,
                OneAnswerPerRequest, NoDecision

\* A step that leaves requests and decisions alone.
LEMMA Elsewhere ==
    ASSUME RInv, TInv', Minted, UNCHANGED requestVars
    PROVE  RInv'
<1>1. RequestsTypeOK' /\ OneInv' /\ OneAnswerPerRequest'
  BY DEF RInv, requestVars, RequestsTypeOK, OneInv, OneAnswerPerRequest
<1>2. DInv' /\ ApprovedHasInvite'
  BY DEF RInv, requestVars, Minted, DInv, ApprovedHasInvite
<1>3. LinksHaveInvites'
  BY DEF RInv, requestVars, Minted, LinksHaveInvites, RequestsTypeOK
<1> QED
  BY <1>1, <1>2, <1>3 DEF RInv

\* Tenancy's own operations on invites mint none that exists.
LEMMA AdminMints == TInv /\ Admin => Minted
BY DEF Admin, CreateInvite, InviteExpires, RevokeInvite, TInv, TypeOK, Minted

\* A handler of Tenancy mints none either.
LEMMA HandlerMints ==
    ASSUME TInv, NEW j \in Job, Handler(j)
    PROVE  Minted
<1>1. CASE ClaimRecord(j)
  BY <1>1 DEF ClaimRecord, TInv, TypeOK, Minted
<1>2. CASE ~ClaimRecord(j)
  BY <1>2 DEF Handler, Claim, ClaimTenant, ClaimKey, RegenKey, DeleteTenant, Open, SetSuspend,
              ListKeys, RevokeKey, RegenIssue, DeleteRecord, SuspendWrite, Minted
<1> QED
  BY <1>1, <1>2

\* Submitting a request keeps the invariant.
LEMMA SubmitStep ==
    ASSUME RInv, NEW r \in Request, Submit(r)
    PROVE  RInv'
<1>1. TInv'
  BY StutterStep DEF RInv, Submit
<1>2. RequestsTypeOK'
  BY DEF RInv, RequestsTypeOK, Submit
<1>3. DInv' /\ LinksHaveInvites' /\ ApprovedHasInvite'
  BY DEF RInv, RequestsTypeOK, DInv, LinksHaveInvites, ApprovedHasInvite, Submit, vars
<1>4. OneInv' /\ OneAnswerPerRequest'
  BY DEF RInv, RequestsTypeOK, OneInv, OneAnswerPerRequest, Submit
<1> QED
  BY <1>1, <1>2, <1>3, <1>4 DEF RInv

\* So does reading a request to decide on it,
LEMMA DecideStep ==
    ASSUME RInv, NEW j \in Job, NEW r \in Request, NEW op \in {"approve", "decline"},
           Decide(j, r, op)
    PROVE  RInv'
<1> DEFINE d == [op |-> op, request |-> r, invite |-> Nobody,
                 at |-> IF op = "approve" THEN "mint" ELSE "put"]
<1>1. PICK seen \in {requests[r].state, "pending"} :
        /\ UNCHANGED <<vars, requests, links>> /\ decision[j].at = "idle"
        /\ muddled' = IF Deciding(r) = {} /\ seen = requests[r].state THEN muddled
                      ELSE muddled \cup {r}
        /\ decision' = [decision EXCEPT ![j] = IF seen # "pending" THEN Decided ELSE d]
  BY DEF Decide
<1>2. RequestsTypeOK /\ DInv /\ OneInv /\ TInv
  BY DEF RInv
<1>3. TInv'
  BY <1>1, <1>2, StutterStep
<1>4. RequestsTypeOK'
  BY <1>1, <1>2, RequestAssumption DEF RequestsTypeOK, Decided, NoDecision
<1>5. CASE seen # "pending"
  <2>1. decision' = [decision EXCEPT ![j] = Decided]
    BY <1>1, <1>5
  <2>2. DInv'
    BY <2>1, <1>1, <1>2, RequestAssumption DEF DInv, RequestsTypeOK, Decided, NoDecision, vars
  <2>3. OneInv'
    BY <2>1, <1>1, <1>2, RequestAssumption DEF OneInv, RequestsTypeOK, Decided, NoDecision
  <2> QED
    BY <2>2, <2>3, <1>1, <1>3, <1>4
       DEF RInv, ApprovedHasInvite, LinksHaveInvites, OneAnswerPerRequest, vars
<1>6. CASE seen = "pending"
  <2>1. decision' = [decision EXCEPT ![j] = d]
    BY <1>1, <1>6
  <2>2. DInv'
    BY <2>1, <1>1, <1>2 DEF DInv, RequestsTypeOK, vars
  <2>3. OneInv'
    <3>1. ASSUME NEW q \in Request \ muddled', NEW h \in Job, decision'[h].request = q
          PROVE  /\ requests'[q].state = "pending"
                 /\ \A g \in Job : decision'[g].request = q => g = h
      <4>1. q \in Request \ muddled /\ (q = r => Deciding(r) = {} /\ requests[r].state = "pending")
        BY <1>1, <1>6, <3>1
      <4>2. CASE q = r
        BY <4>1, <4>2, <2>1, <1>1, <1>2, <3>1 DEF RequestsTypeOK, Deciding
      <4>3. CASE q # r
        BY <4>1, <4>3, <2>1, <1>1, <1>2, <3>1 DEF RequestsTypeOK, OneInv
      <4> QED
        BY <4>2, <4>3
    <3> QED
      BY <3>1 DEF OneInv
  <2> QED
    BY <2>2, <2>3, <1>1, <1>3, <1>4
       DEF RInv, ApprovedHasInvite, LinksHaveInvites, OneAnswerPerRequest, vars
<1> QED
  BY <1>5, <1>6

\* minting the invite of an approval,
LEMMA MintStep ==
    ASSUME RInv, NEW j \in Job, Mint(j)
    PROVE  RInv'
<1>1. PICK i \in Invite, o \in Outcomes :
        /\ invites[i].state = "new"
        /\ invites' = IF o.done THEN [invites EXCEPT ![i].state = "open"] ELSE invites
        /\ decision' = [decision EXCEPT ![j] =
               IF o.ok THEN [@ EXCEPT !.invite = i, !.at = "put"] ELSE Decided]
        /\ muddled' = IF o.ok THEN muddled ELSE muddled \cup {decision[j].request}
  BY DEF Mint
<1>2. /\ decision[j].at = "mint" /\ UNCHANGED <<tenants, keys, job, granted, requests, links>>
      /\ RequestsTypeOK /\ DInv /\ OneInv /\ TInv /\ TypeOK
  BY DEF Mint, RInv, TInv
<1>3. o.ok => o.done
  BY DEF Outcomes
<1>4. TInv'
  BY <1>1, <1>2, InviteStep
<1>5. Minted
  BY <1>1, <1>2 DEF Minted, TypeOK
<1>6. RequestsTypeOK'
  BY <1>1, <1>2, RequestAssumption, ZenonT(30) DEF RequestsTypeOK, Decided, NoDecision
<1>7. LinksHaveInvites' /\ ApprovedHasInvite'
  BY <1>2, <1>5 DEF RInv, Minted, LinksHaveInvites, ApprovedHasInvite, RequestsTypeOK
<1>8. CASE o.ok
  <2>1. /\ decision' = [decision EXCEPT ![j].invite = i, ![j].at = "put"]
        /\ muddled' = muddled /\ invites'[i].state # "new"
    BY <1>1, <1>2, <1>3, <1>8 DEF TypeOK
  <2>2. DInv'
    BY <2>1, <1>2, <1>5 DEF DInv, RequestsTypeOK, Minted
  <2>3. OneInv' /\ OneAnswerPerRequest'
    BY <2>1, <1>2 DEF RInv, OneInv, OneAnswerPerRequest, RequestsTypeOK
  <2> QED
    BY <2>2, <2>3, <1>4, <1>6, <1>7 DEF RInv
<1>9. CASE ~o.ok
  <2>1. /\ decision' = [decision EXCEPT ![j] = Decided]
        /\ muddled' = muddled \cup {decision[j].request}
    BY <1>1, <1>9
  <2>2. DInv'
    BY <2>1, <1>2, <1>5, RequestAssumption DEF DInv, RequestsTypeOK, Minted, Decided, NoDecision
  <2>3. OneInv' /\ OneAnswerPerRequest'
    BY <2>1, <1>2, RequestAssumption
       DEF RInv, OneInv, OneAnswerPerRequest, RequestsTypeOK, Decided, NoDecision
  <2> QED
    BY <2>2, <2>3, <1>4, <1>6, <1>7 DEF RInv
<1> QED
  BY <1>8, <1>9

\* storing the decision,
LEMMA PutDecisionStep ==
    ASSUME RInv, NEW j \in Job, PutDecision(j)
    PROVE  RInv'
<1> DEFINE r == decision[j].request i == decision[j].invite
           approved == decision[j].op = "approve"
           s == IF approved THEN "approved" ELSE "declined"
<1>1. PICK o \in Outcomes :
        /\ requests' = IF o.done THEN [requests EXCEPT ![r] = [state |-> s, invite |-> i]]
                       ELSE requests
        /\ muddled' = IF o.done THEN muddled ELSE muddled \cup {r}
  BY DEF PutDecision
<1>2. /\ decision[j].at = "put" /\ UNCHANGED vars
      /\ links' = IF approved THEN links \cup {<<r, i>>} ELSE links
      /\ decision' = [decision EXCEPT ![j] = Decided]
      /\ RequestsTypeOK /\ DInv /\ OneInv
      /\ ApprovedHasInvite /\ LinksHaveInvites /\ OneAnswerPerRequest
  BY DEF PutDecision, RInv
<1>3. TInv'
  BY <1>2, StutterStep DEF RInv
<1>4. r \in Request /\ i \in Invite \cup {Nobody}
      /\ (approved => i \in Invite /\ invites[i].state # "new")
  BY <1>2 DEF DInv, RequestsTypeOK
<1>5. RequestsTypeOK'
  <2>1. s \in {"approved", "declined"}
    OBVIOUS
  <2>2. requests' \in [Request -> [state : {"new", "pending", "approved", "declined"},
                                  invite : Invite \cup {Nobody}]]
    BY <2>1, <1>1, <1>2, <1>4 DEF RequestsTypeOK
  <2> QED
    BY <2>2, <1>1, <1>2, <1>4 DEF RequestsTypeOK, Decided, NoDecision
<1>6. DInv'
  BY <1>2, RequestAssumption DEF DInv, RequestsTypeOK, Decided, NoDecision, vars
<1>7. ApprovedHasInvite' /\ LinksHaveInvites'
  BY <1>1, <1>2, <1>4 DEF ApprovedHasInvite, LinksHaveInvites, RequestsTypeOK, vars
<1>8. ASSUME NEW q \in Request \ muddled'
      PROVE  /\ \A h, g \in Job : decision'[h].request = q /\ decision'[g].request = q => h = g
             /\ \A h \in Job : decision'[h].request = q => requests'[q].state = "pending"
             /\ \A k \in Invite : <<q, k>> \in links' =>
                    requests'[q] = [state |-> "approved", invite |-> k]
  <2>1. q \in Request \ muddled /\ q \in Request /\ (q = r => o.done)
    BY <1>1, <1>8
  <2>2. CASE q = r
    <3>1. \A h \in Job : decision'[h].request # q
      BY <2>1, <2>2, <1>2, RequestAssumption DEF OneInv, RequestsTypeOK, Decided, NoDecision
    <3>2. \A k \in Invite : <<q, k>> \notin links
      <4>1. requests[q].state = "pending"
        BY <2>1, <2>2, <1>2 DEF OneInv
      <4>2. ASSUME NEW k \in Invite PROVE requests[q] # [state |-> "approved", invite |-> k]
        BY ONLY <4>1
      <4>3. ASSUME NEW k \in Invite, <<q, k>> \in links
            PROVE  requests[q] = [state |-> "approved", invite |-> k]
        BY ONLY <4>3, <2>1, <1>2 DEF OneAnswerPerRequest
      <4> QED
        BY <4>2, <4>3
    <3>3. requests'[q] = [state |-> s, invite |-> i]
      BY <2>1, <2>2, <1>1, <1>2 DEF RequestsTypeOK
    <3> QED
      BY <3>1, <3>2, <3>3, <2>2, <1>2
  <2>3. CASE q # r
    <3>1. requests'[q] = requests[q]
      BY <2>1, <2>3, <1>1, <1>2, <1>4 DEF RequestsTypeOK
    <3>2. \A h \in Job : decision'[h].request = q => decision[h].request = q
      BY <2>1, <1>2, RequestAssumption DEF RequestsTypeOK, Decided, NoDecision
    <3> QED
      BY <3>1, <3>2, <2>1, <2>3, <1>2 DEF OneInv, OneAnswerPerRequest
  <2> QED
    BY <2>2, <2>3
<1>9. OneInv' /\ OneAnswerPerRequest'
  BY <1>8 DEF OneInv, OneAnswerPerRequest
<1> QED
  BY <1>3, <1>5, <1>6, <1>7, <1>9 DEF RInv

\* and a restart.
LEMMA RestartAllStep ==
    ASSUME RInv, RestartAll
    PROVE  RInv'
<1>1. /\ UNCHANGED <<tenants, keys, invites, granted, requests, links>>
      /\ decision' = [j \in Job |-> IF decision[j].at = "idle" THEN NoDecision ELSE Decided]
      /\ muddled' = muddled \cup {decision[j].request :
                                  j \in {h \in Job : decision[h].at \in {"mint", "put"}}}
      /\ RequestsTypeOK /\ DInv /\ OneInv
      /\ ApprovedHasInvite /\ LinksHaveInvites /\ OneAnswerPerRequest
  BY DEF RestartAll, RInv
<1>2. TInv'
  BY RestartStep DEF RInv, RestartAll
<1>3. RequestsTypeOK'
  BY <1>1 DEF RequestsTypeOK, Decided, NoDecision
<1>4. DInv' /\ OneInv'
  BY <1>1, RequestAssumption DEF DInv, OneInv, Decided, NoDecision
<1>5. ApprovedHasInvite' /\ LinksHaveInvites' /\ OneAnswerPerRequest'
  BY <1>1 DEF ApprovedHasInvite, LinksHaveInvites, OneAnswerPerRequest
<1> QED
  BY <1>2, <1>3, <1>4, <1>5 DEF RInv

\* Every step keeps the invariant.
LEMMA RequestsNextInv == RInv /\ [RequestsNext]_allVars => RInv'
<1> SUFFICES ASSUME RInv, [RequestsNext]_allVars PROVE RInv'
  OBVIOUS
<1>1. TInv
  BY DEF RInv
<1>2. CASE Admin /\ UNCHANGED requestVars
  BY <1>1, <1>2, AdminSteps, AdminMints, Elsewhere
<1>3. ASSUME NEW j \in Job, Handler(j), UNCHANGED requestVars PROVE RInv'
  BY <1>1, <1>3, HandlerSteps, HandlerMints, Elsewhere
<1>4. ASSUME NEW j \in Job, Decisions(j) PROVE RInv'
  BY <1>4, DecideStep, MintStep, PutDecisionStep DEF Decisions
<1>5. CASE UNCHANGED allVars
  BY <1>1, <1>5, StutterStep, Elsewhere DEF allVars, vars, requestVars, Minted
<1> QED
  BY <1>2, <1>3, <1>4, <1>5, SubmitStep, RestartAllStep DEF RequestsNext
-----------------------------------------------------------------------------
(* The inductive invariant of invite requests holds in every reachable state. *)
THEOREM RequestsInvariant == RequestsSpec => []RInv
BY RequestsInitInv, RequestsNextInv, PTL DEF RequestsSpec

(* Types: requests, decisions and links keep the values the handlers know. *)
THEOREM RequestsTypeCorrect == RequestsSpec => []RequestsTypeOK
<1>1. RInv => RequestsTypeOK
  BY DEF RInv
<1> QED
  BY <1>1, RequestsInvariant, PTL

(* Whatever fails, races or restarts: an approval on record has its invite. *)
THEOREM ApprovalsHaveInvites == RequestsSpec => []ApprovedHasInvite
<1>1. RInv => ApprovedHasInvite
  BY DEF RInv
<1> QED
  BY <1>1, RequestsInvariant, PTL

(* Every link handed out has an invite behind it, also when recording it failed. *)
THEOREM LinksWork == RequestsSpec => []LinksHaveInvites
<1>1. RInv => LinksHaveInvites
  BY DEF RInv
<1> QED
  BY <1>1, RequestsInvariant, PTL

(* Decisions that neither overlap nor fail, nor read from a lagging replica, answer a
   request once. *)
THEOREM RequestsAreAnsweredOnce == RequestsSpec => []OneAnswerPerRequest
<1>1. RInv => OneAnswerPerRequest
  BY DEF RInv
<1> QED
  BY <1>1, RequestsInvariant, PTL

(* Decisions about requests leave the invites to the claims: also with them, an
   invite is used up only for a tenant with a key. *)
THEOREM InvitesStillBuyTenants == RequestsSpec => []InviteNotBurned
<1>1. RInv => InviteNotBurned
  BY DEF RInv, TInv, MarkInv, InviteNotBurned
<1> QED
  BY <1>1, RequestsInvariant, PTL
=============================================================================
