----------------------------- MODULE Pages_proofs -----------------------------
(***************************************************************************)
(* Proofs about the web apps (Pages), for any number of tabs, clients,     *)
(* keys, workers, invites, tenants and gate tokens, and for request bodies *)
(* of any length.  Each part has a section: an inductive invariant and its *)
(* steps.  The last section shows that a behaviour of Pages is a behaviour *)
(* of every part, and states the theorems for Pages.  The parts:           *)
(*   - the browser session: what a tab on its way may still become, so     *)
(*     that neither a late answer nor a rotation surprises it;             *)
(*   - the load test: operations and ticks add up worker by worker;        *)
(*   - the preview, the bucket list and the tables of the admin page: an   *)
(*     answer under way is right about what has been done since it was     *)
(*     asked for;                                                          *)
(*   - API calls: base64 loses nothing, and the app refines DirectKV;      *)
(*   - the verification page: the bucket is as the test's calls left it    *)
(*     while none of them failed.                                          *)
(***************************************************************************)
EXTENDS Pages, FiniteSetTheorems, SequenceTheorems, TLAPS

Visit == Path \cup {"/", "/logout"}
Cookie == Token \cup {None}

AnswerType == [status : {0, 200, 302}, page : Visit \cup {"gate", None}, set : SUBSET Cookie]

\* A tab, field by field.
TabType ==
    [at : {"shown", "writing", "sent", "served"}, page : Visit \cup {"gate", "blank"},
     req : [path : Visit \cup {None}, cookie : Cookie, access : Cookie],
     ans : AnswerType, tenant : SUBSET (issued \cup {None}), next : Visit \cup {None},
     button : BOOLEAN, got : SUBSET issued, modal : BOOLEAN, modalKey : issued \cup {None},
     sentOut : BOOLEAN, quiet : BOOLEAN]

SessionTypes ==
    /\ gate \in Token /\ jar \in Cookie
    /\ store \in [key : issued \cup {None}, tenant : issued \cup {None}]
    /\ issued \subseteq Pair
    /\ tabs \in [Tab -> TabType]
    /\ out \in BOOLEAN

\* A request under way: it has a path, and no cookie if it was sent after logging out.
SentInv(tab) ==
    tab.at = "sent" => tab.req.path \in Visit /\ (tab.sentOut => tab.req.cookie = None)

\* What the answer to it may be: only a redirect or the claim page brings the cookie,
\* and a request sent after logging out gets a redirect or an open page.
ServedInv(tab, g) ==
    tab.at = "served" =>
        /\ tab.ans.page \in Visit \cup {"gate"}
        /\ tab.ans.status = 302 =>
              tab.ans.page \in Visit /\ tab.ans.page # "/logout" /\ tab.ans.set # {}
        /\ tab.ans.page = "/logout" => tab.ans.set = {None}
        /\ tab.quiet /\ tab.ans.page = "/claim/" => tab.ans.set = {g}
        /\ tab.sentOut /\ tab.ans.status # 302 => ~Needs(tab.ans.page)

\* What the page then is.
ShownInv(tab, g, j) ==
    tab.at \in {"shown", "writing"} => (tab.quiet => j = g) /\ (tab.sentOut => ~Needs(tab.page))

SInv ==
    /\ SessionTypes
    /\ out => jar = None
    /\ \A t \in Tab : SentInv(tabs[t]) /\ ServedInv(tabs[t], gate) /\ ShownInv(tabs[t], gate, jar)
-----------------------------------------------------------------------------
(* Whatever is asked, with whatever token: what a navigation is answered. *)
LEMMA HandleFacts ==
  ASSUME NEW g \in Token,
         NEW req \in [path : Visit, cookie : Cookie, access : Cookie]
  PROVE  LET ans == Handle(req, g) IN
         /\ ans \in AnswerType
         /\ ans.page \in Visit \cup {"gate"}
         /\ ans.status = 302 => ans.page \in Visit /\ ans.page # "/logout" /\ ans.set # {}
         /\ ans.page = "/logout" => ans.set = {None}
         /\ ans.page = "/claim/" => ans.set = {g}
         /\ req.cookie = None /\ ans.status # 302 => ~Needs(ans.page)
<1> USE UserAppAssumption DEF Visit, Cookie
<1> DEFINE ans == Handle(req, g)
<1>1. CASE Gated(req, g)
  <2>1. ans = Answer(200, "gate", {})
    BY <1>1 DEF Handle, Gated, Redirected, IsPublicPath
  <2>2. ans \in AnswerType /\ ans.status = 200 /\ ans.page = "gate"
    BY <2>1 DEF Answer, AnswerType
  <2> QED BY <2>2 DEF Needs
<1>2. CASE Redirected(req, g)
  <2>1. ans = Answer(302, req.path, {g})
    BY <1>2 DEF Handle, Gated, Redirected, IsPublicPath
  <2>2. ans \in AnswerType /\ ans.status = 302 /\ ans.page = req.path /\ ans.set = {g}
    BY <2>1 DEF Answer, AnswerType
  <2> QED BY <1>2, <2>2 DEF Redirected, IsPublicPath
<1>3. CASE ~Gated(req, g) /\ ~Redirected(req, g) /\ req.path = "/claim/"
  <2>1. ans = Answer(200, "/claim/", {g})
    BY <1>3 DEF Handle
  <2>2. ans \in AnswerType /\ ans.status = 200 /\ ans.page = req.path /\ ans.set = {g}
    BY <1>3, <2>1 DEF Answer, AnswerType
  <2> QED BY <1>3, <2>2 DEF Needs, IsPublicPath
<1>4. CASE ~Gated(req, g) /\ ~Redirected(req, g) /\ req.path = "/logout"
  <2>1. ans = Answer(200, "/logout", {None})
    BY <1>4 DEF Handle
  <2>2. ans \in AnswerType /\ ans.status = 200 /\ ans.page = req.path /\ ans.set = {None}
    BY <1>4, <2>1 DEF Answer, AnswerType
  <2> QED BY <1>4, <2>2 DEF Needs, IsPublicPath
<1>5. CASE ~Gated(req, g) /\ ~Redirected(req, g) /\ req.path \notin {"/claim/", "/logout"}
  <2>1. ans = Answer(200, req.path, {})
    BY <1>5 DEF Handle
  <2>2. ans \in AnswerType /\ ans.status = 200 /\ ans.page = req.path
    BY <2>1 DEF Answer, AnswerType
  <2>3. req.cookie = None => ~Needs(req.path)
    BY <1>5 DEF Gated, Redirected, IsUiAuthed, Needs
  <2> QED BY <1>5, <2>2, <2>3
<1> QED BY <1>1, <1>2, <1>3, <1>4, <1>5

(* A tab that shows nothing yet. *)
LEMMA BlankFacts == Blank \in TabType /\ SentInv(Blank) /\ ServedInv(Blank, gate) /\ ShownInv(Blank, gate, jar)
<1>1. NoReq \in [path : Visit \cup {None}, cookie : Cookie, access : Cookie]
  BY DEF NoReq, Cookie
<1>2. Answer(0, None, {}) \in AnswerType
  BY DEF Answer, AnswerType
<1>3. Blank \in TabType
  BY <1>1, <1>2 DEF Blank, TabType
<1> QED BY <1>3 DEF Blank, SentInv, ServedInv, ShownInv

(* A request that is sent is a tab of the right type. *)
LEMMA SendsFacts ==
  ASSUME NEW t, NEW path \in Visit, NEW access \in Cookie, NEW c \in Cookie, NEW o \in BOOLEAN,
         o => c = None
  PROVE  LET tab == Sends(t, path, access, c, o) IN
         tab \in TabType /\ SentInv(tab) /\ ServedInv(tab, gate) /\ ShownInv(tab, gate, jar)
<1> DEFINE tab == Sends(t, path, access, c, o)
<1>1. Blank \in TabType
  BY BlankFacts
<1>2. tab = [Blank EXCEPT !.at = "sent", !.sentOut = o,
                          !.req = [path |-> path, cookie |-> c, access |-> access]]
  BY DEF Sends
<1>3. [path |-> path, cookie |-> c, access |-> access] \in
        [path : Visit \cup {None}, cookie : Cookie, access : Cookie]
  OBVIOUS
<1>4. tab \in TabType
  BY <1>1, <1>2, <1>3 DEF TabType
<1>5. tab.at = "sent" /\ tab.sentOut = o /\ tab.req.path = path /\ tab.req.cookie = c
  BY <1>1, <1>2 DEF TabType
<1> QED BY <1>4, <1>5 DEF SentInv, ServedInv, ShownInv
-----------------------------------------------------------------------------
(* A browser starts with blank tabs, nothing stored and no cookie. *)
LEMMA SInvInit == SessionInit => SInv
<1> SUFFICES ASSUME SessionInit PROVE SInv
  OBVIOUS
<1>1. SessionTypes
  BY BlankFacts DEF SessionInit, SessionTypes, NoStore, Cookie
<1> QED BY <1>1, BlankFacts DEF SessionInit, SInv

(* A step that changes one tab, and neither the gate nor the cookie jar, is judged by
   that tab alone. *)
LEMMA OneTab ==
  ASSUME SInv, NEW t \in Tab, NEW tab,
         tab \in TabType', SentInv(tab), ServedInv(tab, gate), ShownInv(tab, gate, jar),
         tabs' = [tabs EXCEPT ![t] = tab], gate' = gate, jar' = jar, out' = out,
         issued \subseteq issued', issued' \subseteq Pair,
         store' \in [key : issued' \cup {None}, tenant : issued' \cup {None}]
  PROVE  SInv'
<1>1. TabType \subseteq TabType'
  BY DEF TabType
<1>2. tabs \in [Tab -> TabType]
  BY DEF SInv, SessionTypes
<1>3. tabs' \in [Tab -> TabType']
  BY <1>1, <1>2
<1>4. SessionTypes'
  BY <1>3 DEF SInv, SessionTypes
<1>5. \A s \in Tab : tabs'[s] = tab \/ tabs'[s] = tabs[s]
  BY <1>2
<1>6. ASSUME NEW s \in Tab
      PROVE  SentInv(tabs'[s]) /\ ServedInv(tabs'[s], gate) /\ ShownInv(tabs'[s], gate, jar)
  BY <1>5 DEF SInv
<1>7. ASSUME NEW s \in Tab
      PROVE  SentInv(tabs'[s]) /\ ServedInv(tabs'[s], gate') /\ ShownInv(tabs'[s], gate', jar')
  BY <1>6 DEF SentInv, ServedInv, ShownInv
<1> QED BY <1>4, <1>7 DEF SInv

(* Sending a request. *)
LEMMA SendStep ==
  ASSUME SInv, NEW t \in Tab, NEW path \in Visit, NEW access \in Cookie,
         tabs' = [tabs EXCEPT ![t] = Sends(t, path, access, jar, out)],
         store' \in [key : issued \cup {None}, tenant : issued \cup {None}],
         gate' = gate, jar' = jar, issued' = issued, out' = out
  PROVE  SInv'
<1> DEFINE tab == Sends(t, path, access, jar, out)
<1>1. tab \in TabType /\ SentInv(tab) /\ ServedInv(tab, gate) /\ ShownInv(tab, gate, jar)
  BY SendsFacts DEF SInv, SessionTypes
<1>2. tab \in TabType'
  BY <1>1 DEF TabType
<1>3. issued \subseteq Pair
  BY DEF SInv, SessionTypes
<1> HIDE DEF tab
<1> QED BY <1>1, <1>2, <1>3, OneTab DEF tab

(* Handling a request. *)
LEMMA ServeStep ==
  ASSUME SInv, NEW t \in Tab, Serve(t)
  PROVE  SInv'
<1> DEFINE req == tabs[t].req
           ans == Handle(req, gate)
           tab == [tabs[t] EXCEPT !.at = "served", !.ans = ans,
                                  !.req = [NoReq EXCEPT !.access = req.access],
                                  !.quiet = ~Needs(req.path)]
<1>1. tabs[t] \in TabType /\ tabs[t].at = "sent" /\ SentInv(tabs[t])
  BY DEF SInv, SessionTypes, Serve
<1>2. req \in [path : Visit, cookie : Cookie, access : Cookie] /\ gate \in Token
  BY <1>1 DEF TabType, SentInv, SInv, SessionTypes
<1>3. /\ ans \in AnswerType /\ ans.page \in Visit \cup {"gate"}
      /\ ans.status = 302 => ans.page \in Visit /\ ans.page # "/logout" /\ ans.set # {}
      /\ ans.page = "/logout" => ans.set = {None}
      /\ ans.page = "/claim/" => ans.set = {gate}
      /\ req.cookie = None /\ ans.status # 302 => ~Needs(ans.page)
  BY <1>2, HandleFacts
<1>4. tabs[t].sentOut => req.cookie = None
  BY <1>1 DEF SentInv
<1> HIDE DEF ans
<1>5. [NoReq EXCEPT !.access = req.access] \in
         [path : Visit \cup {None}, cookie : Cookie, access : Cookie]
  BY <1>2 DEF NoReq, Cookie
<1>6. (~Needs(req.path)) \in BOOLEAN
  BY DEF Needs, IsPublicPath
<1>7. tab \in TabType
  BY <1>1, <1>3, <1>5, <1>6 DEF TabType
<1>8. tab.at = "served" /\ tab.ans = ans /\ tab.sentOut = tabs[t].sentOut
  BY <1>1 DEF TabType
<1>9. tabs' = [tabs EXCEPT ![t] = tab] /\ UNCHANGED <<gate, jar, store, issued, out>>
  BY DEF Serve, ans
<1> HIDE DEF tab
<1>10. SentInv(tab) /\ ServedInv(tab, gate) /\ ShownInv(tab, gate, jar)
  BY <1>3, <1>4, <1>8 DEF SentInv, ServedInv, ShownInv
<1>11. tab \in TabType'
  BY <1>7, <1>9 DEF TabType
<1> QED BY <1>9, <1>10, <1>11, OneTab DEF SInv, SessionTypes

(* An answer arrives: its cookie changes what the other tabs may do. *)
LEMMA ArriveStep ==
  ASSUME SInv, NEW t \in Tab, Arrive(t)
  PROVE  SInv'
<1> DEFINE ans == tabs[t].ans
           Other(s) == [tabs[s] EXCEPT
                          !.quiet = @ /\ (~Open(s) \/ ans.set \subseteq {gate})]
           opened == [Blank EXCEPT !.page = ans.page, !.button = ans.page = "/claim/",
                                   !.sentOut = tabs[t].sentOut /\ Needs(ans.page),
                                   !.quiet = tabs[t].quiet /\ ans.page = "/claim/"]
           next == Sends(t, ans.page, None, jar', out')
           tab == IF ans.status = 302 THEN next ELSE opened
<1>1. tabs[t] \in TabType /\ tabs[t].at = "served" /\ ServedInv(tabs[t], gate) /\ ans \in AnswerType
  BY DEF SInv, SessionTypes, Arrive, TabType
<1>2. /\ ans.page \in Visit \cup {"gate"}
      /\ ans.status = 302 => ans.page \in Visit /\ ans.page # "/logout" /\ ans.set # {}
      /\ ans.page = "/logout" => ans.set = {None}
      /\ tabs[t].quiet /\ ans.page = "/claim/" => ans.set = {gate}
      /\ tabs[t].sentOut /\ ans.status # 302 => ~Needs(ans.page)
  BY <1>1 DEF ServedInv
<1>3. jar' \in Cookie /\ (ans.set = {} => jar' = jar) /\ (ans.set # {} => jar' \in ans.set)
  BY <1>1 DEF Arrive, Jar, AnswerType, SInv, SessionTypes
<1>4. out' = (ans.page = "/logout" \/ (out /\ ans.set = {}))
  BY DEF Arrive
<1>5. out' \in BOOLEAN /\ (out' => jar' = None)
  BY <1>2, <1>3, <1>4, ZenonT(30) DEF SInv
<1>6. UNCHANGED <<gate, store, issued>>
  BY DEF Arrive
<1>7. tabs' = [[s \in Tab |-> Other(s)] EXCEPT ![t] = tab]
  BY DEF Arrive
<1>8. tab \in TabType /\ SentInv(tab) /\ ServedInv(tab, gate') /\ ShownInv(tab, gate', jar')
  <2>1. CASE ans.status = 302
    <3>1. ans.page \in Visit /\ None \in Cookie
      BY <1>2, <2>1 DEF Cookie
    <3>2. next \in TabType /\ SentInv(next) /\ next.at = "sent"
      BY <1>3, <1>5, <3>1, SendsFacts DEF Sends, Blank
    <3> QED BY <2>1, <3>2 DEF ServedInv, ShownInv
  <2>2. CASE ans.status # 302
    <3>0. Blank \in TabType /\ Blank.at = "shown"
      BY BlankFacts DEF Blank
    <3>1. ans.page \in Visit \cup {"gate", "blank"}
      BY <1>2
    <3>2. /\ (tabs[t].sentOut /\ Needs(ans.page)) \in BOOLEAN
          /\ (tabs[t].quiet /\ ans.page = "/claim/") \in BOOLEAN
          /\ (ans.page = "/claim/") \in BOOLEAN
      OBVIOUS
    <3>3. opened \in TabType
      <4> DEFINE so == tabs[t].sentOut /\ Needs(ans.page)
                 qu == tabs[t].quiet /\ ans.page = "/claim/"
                 bu == ans.page = "/claim/"
      <4>1. so \in BOOLEAN /\ qu \in BOOLEAN /\ bu \in BOOLEAN
        BY <3>2
      <4>2. opened = [Blank EXCEPT !.page = ans.page, !.button = bu, !.sentOut = so, !.quiet = qu]
        OBVIOUS
      <4> HIDE DEF so, qu, bu, opened, ans
      <4> QED BY <3>0, <3>1, <4>1, <4>2 DEF TabType
    <3>4. /\ opened.at = "shown" /\ opened.page = ans.page
          /\ opened.sentOut = (tabs[t].sentOut /\ Needs(ans.page))
          /\ opened.quiet = (tabs[t].quiet /\ ans.page = "/claim/")
      BY <3>0 DEF TabType
    <3>5. opened.quiet => jar' = gate
      BY <1>2, <1>3, <3>4
    <3> HIDE DEF opened
    <3>6. SentInv(opened) /\ ServedInv(opened, gate') /\ ShownInv(opened, gate', jar')
      BY <1>2, <1>6, <2>2, <3>4, <3>5 DEF SentInv, ServedInv, ShownInv, Needs, IsPublicPath
    <3> QED BY <2>2, <3>3, <3>6
  <2> QED BY <2>1, <2>2
<1>9. ASSUME NEW s \in Tab
      PROVE  Other(s) \in TabType /\ SentInv(Other(s)) /\ ServedInv(Other(s), gate') /\ ShownInv(Other(s), gate', jar')
  <2>1. tabs[s] \in TabType /\ SentInv(tabs[s]) /\ ServedInv(tabs[s], gate) /\ ShownInv(tabs[s], gate, jar)
    BY DEF SInv, SessionTypes
  <2>2. Other(s) \in TabType
    BY <2>1 DEF TabType
  <2>3. /\ Other(s).at = tabs[s].at /\ Other(s).page = tabs[s].page /\ Other(s).req = tabs[s].req
        /\ Other(s).ans = tabs[s].ans /\ Other(s).sentOut = tabs[s].sentOut
    BY <2>1 DEF TabType
  <2>4. Other(s).quiet => tabs[s].quiet /\ (~Open(s) \/ ans.set \subseteq {gate})
    BY <2>1 DEF TabType
  <2>5. Other(s).at \in {"shown", "writing"} /\ Other(s).quiet => jar' = gate
    BY <1>3, <2>1, <2>3, <2>4 DEF ShownInv, Open
  <2>6. Other(s).quiet => tabs[s].quiet
    BY <2>4
  <2>7. gate' = gate
    BY <1>6
  <2> HIDE DEF Other
  <2>8. SentInv(Other(s)) /\ ShownInv(Other(s), gate', jar')
    BY <2>1, <2>3, <2>5, <2>7 DEF SentInv, ShownInv
  <2>9. ServedInv(Other(s), gate)
    BY <2>1, <2>3, <2>6 DEF ServedInv
  <2> QED BY <2>2, <2>7, <2>8, <2>9
<1> HIDE DEF tab, Other
<1>10. tabs' \in [Tab -> TabType] /\ \A s \in Tab : tabs'[s] = tab \/ tabs'[s] = Other(s)
  BY <1>7, <1>8, <1>9
<1>11. SessionTypes'
  BY <1>3, <1>5, <1>6, <1>10 DEF SInv, SessionTypes, TabType
<1>12. ASSUME NEW s \in Tab
       PROVE  SentInv(tabs'[s]) /\ ServedInv(tabs'[s], gate') /\ ShownInv(tabs'[s], gate', jar')
  BY <1>8, <1>9, <1>10 DEF SentInv, ServedInv, ShownInv
<1> QED BY <1>5, <1>11, <1>12 DEF SInv

(* The operator rotates the token: no page is promised anything any more. *)
LEMMA RotateStep ==
  ASSUME SInv, NEW g \in Token, RotateGate(g)
  PROVE  SInv'
<1> DEFINE Loud(s) == [tabs[s] EXCEPT !.quiet = FALSE]
<1>1. tabs' = [s \in Tab |-> Loud(s)] /\ gate' = g /\ UNCHANGED <<jar, store, issued, out>>
  BY DEF RotateGate
<1>2. ASSUME NEW s \in Tab
      PROVE  Loud(s) \in TabType /\ SentInv(Loud(s)) /\ ServedInv(Loud(s), gate') /\ ShownInv(Loud(s), gate', jar')
  <2>1. tabs[s] \in TabType /\ SentInv(tabs[s]) /\ ServedInv(tabs[s], gate) /\ ShownInv(tabs[s], gate, jar)
    BY DEF SInv, SessionTypes
  <2>2. Loud(s) \in TabType
    BY <2>1 DEF TabType
  <2>3. /\ Loud(s).at = tabs[s].at /\ Loud(s).page = tabs[s].page /\ Loud(s).req = tabs[s].req
        /\ Loud(s).ans = tabs[s].ans /\ Loud(s).sentOut = tabs[s].sentOut /\ Loud(s).quiet = FALSE
    BY <2>1 DEF TabType
  <2> HIDE DEF Loud
  <2> QED BY <2>1, <2>2, <2>3 DEF SentInv, ServedInv, ShownInv
<1> HIDE DEF Loud
<1>3. tabs' \in [Tab -> TabType]
  BY <1>1, <1>2
<1>4. SessionTypes'
  BY <1>1, <1>3 DEF SInv, SessionTypes, TabType
<1>5. ASSUME NEW s \in Tab
      PROVE  SentInv(tabs'[s]) /\ ServedInv(tabs'[s], gate') /\ ShownInv(tabs'[s], gate', jar')
  <2>1. tabs'[s] = Loud(s)
    BY <1>1
  <2> QED BY <1>2, <2>1 DEF SentInv, ServedInv, ShownInv
<1> QED BY <1>1, <1>4, <1>5 DEF SInv

(* What a page does short of sending a request leaves its navigation alone. *)
SameNavigation(tab, old) ==
    /\ tab.at = old.at \/ {tab.at, old.at} \subseteq {"shown", "writing"}
    /\ tab.page = old.page /\ tab.req = old.req /\ tab.ans = old.ans
    /\ tab.sentOut = old.sentOut /\ tab.quiet = old.quiet

\* A tab that moves without touching its navigation or taking anything back keeps the invariant.
LEMMA QuietTab ==
  ASSUME SInv, NEW t \in Tab, NEW tab, tab \in TabType', SameNavigation(tab, tabs[t]),
         tabs' = [tabs EXCEPT ![t] = tab], gate' = gate, jar' = jar, out' = out,
         issued \subseteq issued', issued' \subseteq Pair,
         store' \in [key : issued' \cup {None}, tenant : issued' \cup {None}]
  PROVE  SInv'
<1>1. SentInv(tabs[t]) /\ ServedInv(tabs[t], gate) /\ ShownInv(tabs[t], gate, jar)
  BY DEF SInv
<1>2. SentInv(tab) /\ ServedInv(tab, gate) /\ ShownInv(tab, gate, jar)
  BY <1>1 DEF SameNavigation, SentInv, ServedInv, ShownInv
<1> QED BY <1>2, OneTab

\* Storing the key, and then the tenant, leaves the page where it is.
LEMMA HalfWritten ==
  ASSUME SInv, NEW t \in Tab, NEW place \in {"shown", "writing"},
         tabs[t].at \in {"shown", "writing"},
         NEW tenant \in SUBSET (issued \cup {None}), NEW next \in Visit \cup {None},
         NEW got \in SUBSET tabs[t].got, UNCHANGED <<gate, jar, issued, out>>,
         store' \in [key : issued \cup {None}, tenant : issued \cup {None}],
         tabs' = [tabs EXCEPT ![t] = [tabs[t] EXCEPT !.at = place, !.tenant = tenant,
                                                     !.next = next, !.got = got]]
  PROVE  SInv'
<1>1. tabs[t] \in TabType /\ issued \subseteq Pair
  BY DEF SInv, SessionTypes
<1> DEFINE tab == [tabs[t] EXCEPT !.at = place, !.tenant = tenant, !.next = next, !.got = got]
<1>2. got \in SUBSET issued
  BY <1>1 DEF TabType
<1>3. tab \in TabType /\ SameNavigation(tab, tabs[t])
  BY <1>1, <1>2 DEF TabType, SameNavigation
<1>4. tab \in TabType'
  BY <1>3 DEF TabType
<1> HIDE DEF tab
<1> QED BY <1>1, <1>3, <1>4, QuietTab DEF tab

\* A handler that stores its key and goes on to the tenant.
LEMMA WriteKeyStep ==
  ASSUME SInv, NEW t \in Tab, tabs[t].at = "shown", NEW k \in issued \cup {None},
         NEW tenant \in SUBSET (issued \cup {None}), NEW next \in Visit,
         WriteKey(t, k, tenant, next), UNCHANGED <<gate, jar, issued, out>>
  PROVE  SInv'
<1>1. tabs[t] \in TabType /\ tabs \in [Tab -> TabType]
      /\ store \in [key : issued \cup {None}, tenant : issued \cup {None}]
  BY DEF SInv, SessionTypes
<1>2. store' \in [key : issued \cup {None}, tenant : issued \cup {None}]
  BY <1>1 DEF WriteKey
<1> DEFINE got == tabs[t].got
           tab == [tabs[t] EXCEPT !.at = "writing", !.tenant = tenant, !.next = next]
           full == [tabs[t] EXCEPT !.at = "writing", !.tenant = tenant, !.next = next, !.got = got]
<1>3. tab = full
  BY <1>1 DEF TabType
<1>4. tabs' = [tabs EXCEPT ![t] = tab]
  BY DEF WriteKey
<1>5. tabs' = [tabs EXCEPT ![t] = full]
  BY <1>3, <1>4
<1> QED BY <1>2, <1>5, HalfWritten

\* The tenant follows, and the page is shown again or another one is asked for.
LEMMA WriteTenantStep ==
  ASSUME SInv, NEW t \in Tab, WriteTenant(t)
  PROVE  SInv'
<1>1. /\ tabs[t] \in TabType /\ tabs[t].at = "writing" /\ UNCHANGED <<gate, jar, issued, out>>
      /\ store \in [key : issued \cup {None}, tenant : issued \cup {None}]
  BY DEF SInv, SessionTypes, WriteTenant
<1>2. tabs[t].tenant \subseteq issued \cup {None} /\ tabs[t].next \in Visit \cup {None}
  BY <1>1 DEF TabType
<1>3. store' \in [key : issued \cup {None}, tenant : issued \cup {None}]
  <2>1. PICK n \in IF tabs[t].tenant = {} THEN {store.tenant} ELSE tabs[t].tenant :
            store' = [store EXCEPT !.tenant = n]
    BY DEF WriteTenant
  <2>2. n \in issued \cup {None}
    BY <1>1, <1>2, <2>1
  <2> QED BY <1>1, <2>1, <2>2
<1>4. CASE tabs[t].next = None
  <2> DEFINE tab == [tabs[t] EXCEPT !.at = "shown", !.tenant = {}]
             got == tabs[t].got
             next == tabs[t].next
             full == [tabs[t] EXCEPT !.at = "shown", !.tenant = {}, !.next = next, !.got = got]
  <2>1. tab = full
    BY <1>1 DEF TabType
  <2>2. tabs' = [tabs EXCEPT ![t] = tab]
    BY <1>4 DEF WriteTenant
  <2>3. tabs' = [tabs EXCEPT ![t] = full]
    BY <2>1, <2>2
  <2>4. /\ next \in Visit \cup {None} /\ got \in SUBSET tabs[t].got
        /\ {} \in SUBSET (issued \cup {None}) /\ "shown" \in {"shown", "writing"}
        /\ tabs[t].at \in {"shown", "writing"}
    BY <1>1, <1>2
  <2> HIDE DEF got, next
  <2> QED BY ONLY SInv, t \in Tab, <1>1, <1>3, <2>3, <2>4, HalfWritten
<1>5. CASE tabs[t].next # None
  <2>1. tabs' = [tabs EXCEPT ![t] = Sends(t, tabs[t].next, None, jar, out)]
    BY <1>5 DEF WriteTenant
  <2>2. tabs[t].next \in Visit /\ None \in Cookie
    BY <1>2, <1>5 DEF Cookie
  <2> QED BY <1>1, <1>3, <2>1, <2>2, SendStep
<1> QED BY <1>4, <1>5

(* The scripts of a page that is shown: claim, key dialog and logout dialog. *)
LEMMA PageStep ==
  ASSUME SInv, NEW t \in Tab, User(t)
  PROVE  SInv'
<1>1. tabs[t] \in TabType /\ SentInv(tabs[t]) /\ ServedInv(tabs[t], gate) /\ ShownInv(tabs[t], gate, jar)
  BY DEF SInv, SessionTypes
<1>2. /\ store \in [key : issued \cup {None}, tenant : issued \cup {None}] /\ issued \subseteq Pair
      /\ None \in Cookie
  BY DEF SInv, SessionTypes, Cookie
<1>3. ASSUME NEW path \in Path, NEW access \in Token \cup {None}, Navigate(t, path, access)
      PROVE  SInv'
  BY <1>2, <1>3, SendStep DEF Navigate, Visit, Cookie
<1>4. CASE CheckInvite(t)
  <2> DEFINE tab == [tabs[t] EXCEPT !.button = FALSE]
  <2>1. tab \in TabType /\ SameNavigation(tab, tabs[t])
    BY <1>1 DEF TabType, SameNavigation
  <2>2. tabs' = [tabs EXCEPT ![t] = tab] /\ UNCHANGED <<gate, jar, store, issued, out>>
    BY <1>4 DEF CheckInvite
  <2>3. tab \in TabType'
    BY <2>1, <2>2 DEF TabType
  <2> HIDE DEF tab
  <2> QED BY <1>2, <2>1, <2>2, <2>3, QuietTab
<1>5. CASE DoClaim(t)
  <2>1. PICK p \in Pair \ issued : issued' = issued \cup {p} /\ tabs' = [tabs EXCEPT ![t].got = @ \cup {p}]
    BY <1>5 DEF DoClaim
  <2> DEFINE tab == [tabs[t] EXCEPT !.got = @ \cup {p}]
  <2>2. tab \in TabType'
    BY <1>1, <2>1 DEF TabType
  <2>3. SameNavigation(tab, tabs[t])
    BY <1>1 DEF TabType, SameNavigation
  <2>4. tabs' = [tabs EXCEPT ![t] = tab] /\ UNCHANGED <<gate, jar, store, out>>
    BY <1>5, <2>1 DEF DoClaim
  <2> HIDE DEF tab
  <2> QED BY <1>2, <2>1, <2>2, <2>3, <2>4, QuietTab
<1>6. ASSUME NEW p \in Pair, ClaimAnswered(t, p) PROVE SInv'
  <2>1. p \in issued /\ tabs[t].at = "shown" /\ UNCHANGED <<gate, jar, issued, out>>
    BY <1>1, <1>6 DEF ClaimAnswered, TabType
  <2>2. store' \in [key : issued \cup {None}, tenant : issued \cup {None}]
    BY <1>2, <1>6, <2>1 DEF ClaimAnswered
  <2> DEFINE got == tabs[t].got \ {p}
             next == tabs[t].next
             tab == [tabs[t] EXCEPT !.at = "writing", !.tenant = {p}, !.got = got]
             full == [tabs[t] EXCEPT !.at = "writing", !.tenant = {p}, !.next = next, !.got = got]
  <2>3. tab = full /\ next \in Visit \cup {None}
    BY <1>1 DEF TabType
  <2>4. tabs' = [tabs EXCEPT ![t] = tab]
    BY <1>6 DEF ClaimAnswered
  <2>5. tabs' = [tabs EXCEPT ![t] = full]
    BY <2>3, <2>4
  <2>6. /\ got \in SUBSET tabs[t].got /\ {p} \in SUBSET (issued \cup {None})
        /\ "writing" \in {"shown", "writing"} /\ tabs[t].at \in {"shown", "writing"}
    BY <2>1
  <2> HIDE DEF got, next
  <2> QED BY ONLY SInv, t \in Tab, <2>1, <2>2, <2>3, <2>5, <2>6, HalfWritten
<1>7. ASSUME NEW k \in issued \cup {None}, NEW n \in issued \cup {None}, SaveKey(t, k, n)
      PROVE  SInv'
  <2> DEFINE key == IF k = None THEN store.key ELSE k
             tenant == {n} \ {None}
  <2>1. key \in issued \cup {None} /\ tenant \in SUBSET (issued \cup {None}) /\ "/" \in Visit
    BY <1>2 DEF Visit
  <2>2. /\ WriteKey(t, key, tenant, "/") /\ tabs[t].at = "shown"
        /\ UNCHANGED <<gate, jar, issued, out>>
    BY <1>7 DEF SaveKey, Shows
  <2> HIDE DEF key, tenant
  <2> QED BY <2>1, <2>2, WriteKeyStep
<1>8. CASE ClearKey(t)
  BY <1>8, WriteKeyStep DEF ClearKey, Shows, Visit
<1>9. CASE ConfirmLogout(t) \/ CancelLogout(t)
  <2>1. PICK m \in BOOLEAN, k \in issued \cup {None} :
           /\ tabs' = [tabs EXCEPT ![t].modal = m, ![t].modalKey = k]
           /\ UNCHANGED <<gate, jar, store, issued, out>>
    BY <1>2, <1>9 DEF ConfirmLogout, CancelLogout
  <2> DEFINE tab == [tabs[t] EXCEPT !.modal = m, !.modalKey = k]
  <2>2. tab \in TabType /\ SameNavigation(tab, tabs[t])
    BY <1>1 DEF TabType, SameNavigation
  <2>3. tabs' = [tabs EXCEPT ![t] = tab]
    BY <2>1
  <2>4. tab \in TabType'
    BY <2>1, <2>2 DEF TabType
  <2> HIDE DEF tab
  <2> QED BY <1>2, <2>1, <2>2, <2>3, <2>4, QuietTab
<1>10. ASSUME NEW wipe \in BOOLEAN, LogOut(t, wipe) PROVE SInv'
  <2>1. CASE WriteKey(t, None, {None}, "/logout")
    BY <1>10, <2>1, WriteKeyStep DEF LogOut, Visit
  <2>2. CASE tabs' = [tabs EXCEPT ![t] = Sends(t, "/logout", None, jar, out)] /\ UNCHANGED store
    BY <1>2, <1>10, <2>2, SendStep DEF LogOut, Visit
  <2> QED BY <1>10, <2>1, <2>2 DEF LogOut
<1> QED BY <1>3, <1>4, <1>5, <1>6, <1>7, <1>8, <1>9, <1>10 DEF User

\* The session's inductive invariant holds in every reachable state.
LEMMA SInvAlways == SessionSpec => []SInv
<1>1. SInv /\ [SessionNext]_sessionVars => SInv'
  <2>1. SInv /\ SessionNext => SInv'
    BY ServeStep, ArriveStep, WriteTenantStep, PageStep, RotateStep DEF SessionNext, Browser
  <2>2. SInv /\ UNCHANGED sessionVars => SInv'
    BY DEF sessionVars, SInv, SessionTypes, TabType, SentInv, ServedInv, ShownInv
  <2> QED BY <2>1, <2>2
<1> QED BY <1>1, SInvInit, PTL DEF SessionSpec
-----------------------------------------------------------------------------
(* Every reachable state of the browser is well typed; no key is stored, shown in a
   dialog or on its way that no claim was granted. *)
THEOREM SessionTypeCorrect == SessionSpec => []SessionTypeOK
<1>1. SInv => SessionTypeOK
  BY DEF SInv, SessionTypes, SessionTypeOK, TabType, Visit, Cookie
<1> QED BY <1>1, SInvAlways, PTL

(* The calls of a claim page that was opened without any cookie get through the gate,
   with any number of other tabs, unless the token is rotated or another cookie comes. *)
THEOREM ClaimsGetThrough == SessionSpec => []ClaimPageWorks
<1>1. SInv => ClaimPageWorks
  BY UserAppAssumption
     DEF SInv, SessionTypes, ShownInv, ClaimPageWorks, Shows, Through, Reaches, Gated,
         Redirected, IsUiAuthed
<1> QED BY <1>1, SInvAlways, PTL

(* A tab that navigates after logging out shows nothing gated, whatever requests of
   other tabs were under way. *)
THEOREM LoggedOutStaysOut == SessionSpec => []LoggedOutIsOut
<1>1. SInv => LoggedOutIsOut
  BY DEF SInv, ShownInv, LoggedOutIsOut, Open
<1> QED BY <1>1, SInvAlways, PTL
-----------------------------------------------------------------------------
(* The load test. *)
LInv == LoadTypeOK /\ OpsAddUp /\ TicksAddUp /\ ErrorsAreOps /\ NoWorkerOutlives
-----------------------------------------------------------------------------
(* The workers in flight can be counted. *)
LEMMA FlyingFinite == IsFiniteSet(Flying) /\ Cardinality(Flying) \in Nat
<1>1. IsFiniteSet(Flying)
  BY FS_Subset, LoadTestAssumption, Flying \subseteq Worker DEF Flying
<1> QED BY <1>1, FS_CardinalityType

(* A worker that sends its next operation is in flight, as before. *)
LEMMA StaysUp ==
  ASSUME LoadTypeOK, NEW w \in Worker, at[w] # "off", NEW s \in {"fetch", "body"},
         at' = [at EXCEPT ![w] = s]
  PROVE  Flying' = Flying
  BY DEF LoadTypeOK, Flying

(* A worker that ends is one less in flight. *)
LEMMA Lands ==
  ASSUME LoadTypeOK, NEW w \in Worker, at[w] # "off", at' = [at EXCEPT ![w] = "off"]
  PROVE  Cardinality(Flying') = Cardinality(Flying) - 1
<1>1. Flying' = Flying \ {w} /\ w \in Flying
  BY DEF LoadTypeOK, Flying
<1> QED BY <1>1, FlyingFinite, FS_RemoveElement

(* The head of a worker's loop: a new operation is one more started, the end of the
   worker one less in flight. *)
LEMMA LoopCounts ==
  ASSUME LoadTypeOK, NEW w \in Worker, at[w] # "off", Loop(w)
  PROVE  /\ at' \in [Worker -> {"off", "fetch", "body"}]
         /\ opCounter' \in Nat
         /\ Cardinality(Flying') \in Nat
         /\ opCounter' - Cardinality(Flying') = opCounter - Cardinality(Flying) + 1
         /\ Flying' \subseteq Flying
<1>1. CASE over \/ stopRequested
  <2>1. at' = [at EXCEPT ![w] = "off"] /\ opCounter' = opCounter
    BY <1>1 DEF Loop
  <2>2. Cardinality(Flying') = Cardinality(Flying) - 1 /\ w \in Flying
    BY <2>1, Lands DEF Flying
  <2>3. Cardinality(Flying) # 0
    BY <2>2, FlyingFinite, FS_EmptySet
  <2> QED BY <2>1, <2>2, <2>3, FlyingFinite DEF LoadTypeOK, Flying
<1>2. CASE ~(over \/ stopRequested)
  <2>1. at' = [at EXCEPT ![w] = "fetch"] /\ opCounter' = opCounter + 1
    BY <1>2 DEF Loop
  <2>2. Flying' = Flying
    BY <2>1, StaysUp
  <2> QED BY <2>1, <2>2, FlyingFinite DEF LoadTypeOK
<1> QED BY <1>1, <1>2
-----------------------------------------------------------------------------
(* The page starts with nothing counted and nobody running. *)
LEMMA LInvInit == LoadInit => LInv
<1> SUFFICES ASSUME LoadInit PROVE LInv
  OBVIOUS
<1>1. Flying = {}
  BY DEF LoadInit, Flying
<1>2. Cardinality(Flying) = 0
  BY <1>1, FS_EmptySet
<1>3. LoadTypeOK
  <2>1. {running, stopRequested, over, direct} \subseteq BOOLEAN
    BY Zenon DEF LoadInit
  <2>2. at \in [Worker -> {"off", "fetch", "body"}]
    BY DEF LoadInit
  <2>3. {opCounter, total, errs, tickOps, thrown} \subseteq Nat /\ lastTickTotal \in 0 .. total
    BY DEF LoadInit
  <2> QED BY <2>1, <2>2, <2>3, Zenon DEF LoadTypeOK
<1>4. OpsAddUp /\ TicksAddUp /\ ErrorsAreOps
  BY <1>2 DEF LoadInit, OpsAddUp, TicksAddUp, ErrorsAreOps
<1>5. NoWorkerOutlives
  BY <1>1 DEF NoWorkerOutlives
<1> QED BY <1>3, <1>4, <1>5 DEF LInv

(* Each step of the page keeps the invariant. *)
LEMMA LInvStep == LInv /\ [LoadNext]_loadVars => LInv'
<1> SUFFICES ASSUME LInv, [LoadNext]_loadVars PROVE LInv'
  OBVIOUS
<1> USE DEF LInv
<1>1. ASSUME NEW W \in SUBSET Worker, RunLoad(W) PROVE LInv'
  <2>1. Flying' = W /\ running' /\ at' \in [Worker -> {"off", "fetch", "body"}]
    BY <1>1 DEF RunLoad, Flying
  <2>2. Cardinality(W) \in Nat
    BY FS_Subset, FS_CardinalityType, LoadTestAssumption
  <2>3. LoadTypeOK'
    <3>1. {running', stopRequested', over', direct'} \subseteq BOOLEAN
      BY <1>1, Zenon DEF RunLoad
    <3>2. /\ {opCounter', total', errs', tickOps', thrown'} \subseteq Nat
          /\ lastTickTotal' \in 0 .. total'
      BY <1>1, <2>2 DEF RunLoad
    <3> QED BY <2>1, <3>1, <3>2, Zenon DEF LoadTypeOK
  <2>4. OpsAddUp' /\ TicksAddUp' /\ ErrorsAreOps'
    BY <1>1, <2>1, <2>2 DEF RunLoad, OpsAddUp, TicksAddUp, ErrorsAreOps
  <2>5. NoWorkerOutlives'
    BY <2>1 DEF NoWorkerOutlives
  <2> QED BY <2>3, <2>4, <2>5
<1>2. ASSUME NEW w \in Worker, NEW bad \in BOOLEAN, Answered(w, bad) PROVE LInv'
  <2>1. Flying' = Flying /\ at' \in [Worker -> {"off", "fetch", "body"}]
    BY <1>2, StaysUp DEF Answered, LoadTypeOK
  <2> QED BY <1>2, <2>1
       DEF Answered, LoadTypeOK, OpsAddUp, TicksAddUp, ErrorsAreOps, NoWorkerOutlives
<1>3. ASSUME NEW w \in Worker, NEW bad \in BOOLEAN, Finished(w, bad) PROVE LInv'
  <2>1. Loop(w) /\ at[w] # "off"
    BY <1>3 DEF Finished
  <2> QED BY <1>3, <2>1, LoopCounts, FlyingFinite
       DEF Finished, LoadTypeOK, OpsAddUp, TicksAddUp, ErrorsAreOps, NoWorkerOutlives
<1>4. ASSUME NEW w \in Worker, Throws(w) PROVE LInv'
  <2>1. Loop(w) /\ at[w] # "off"
    BY <1>4 DEF Throws
  <2> QED BY <1>4, <2>1, LoopCounts, FlyingFinite
       DEF Throws, LoadTypeOK, OpsAddUp, TicksAddUp, ErrorsAreOps, NoWorkerOutlives
<1>5. CASE Tick \/ StopLoad \/ Deadline \/ RunEnds \/ UNCHANGED loadVars
  <2>1. Flying' = Flying
    BY <1>5 DEF Tick, StopLoad, Deadline, RunEnds, loadVars, Flying
  <2>2. LoadTypeOK'
    <3>1. running' \in BOOLEAN /\ stopRequested' \in BOOLEAN /\ over' \in BOOLEAN /\ direct' \in BOOLEAN
      BY <1>5, Zenon DEF Tick, StopLoad, Deadline, RunEnds, loadVars, LoadTypeOK
    <3>2. /\ at' \in [Worker -> {"off", "fetch", "body"}]
          /\ {opCounter', total', errs', tickOps', thrown'} \subseteq Nat
          /\ lastTickTotal' \in 0 .. total'
      BY <1>5 DEF Tick, StopLoad, Deadline, RunEnds, loadVars, LoadTypeOK
    <3> QED BY <3>1, <3>2, Zenon DEF LoadTypeOK
  <2>3. OpsAddUp' /\ TicksAddUp' /\ ErrorsAreOps'
    BY <1>5, <2>1 DEF Tick, StopLoad, Deadline, RunEnds, loadVars, LoadTypeOK, OpsAddUp,
                      TicksAddUp, ErrorsAreOps
  <2>4. NoWorkerOutlives'
    BY <1>5, <2>1 DEF Tick, StopLoad, Deadline, RunEnds, loadVars, NoWorkerOutlives
  <2> QED BY <2>2, <2>3, <2>4
<1> QED BY <1>1, <1>2, <1>3, <1>4, <1>5 DEF LoadNext, WorkerStep

\* The load test's inductive invariant holds in every reachable state.
LEMMA LInvAlways == LoadSpec => []LInv
  BY LInvInit, LInvStep, PTL DEF LoadSpec
-----------------------------------------------------------------------------
(* Every reachable state of the load-test page is well typed. *)
THEOREM LoadTypeCorrect == LoadSpec => []LoadTypeOK
<1>1. LInv => LoadTypeOK
  BY DEF LInv
<1> QED BY <1>1, LInvAlways, PTL

(* A run accounts for every operation of its workers, and for no other. *)
THEOREM RunsAreAccounted == LoadSpec => []RunIsAccounted
<1>1. LInv => RunIsAccounted
  BY DEF LInv, RunIsAccounted
<1> QED BY <1>1, LInvAlways, PTL

(* After Stop or the deadline no worker of the run starts another operation. *)
THEOREM StopStops == LoadSpec => StopIsFinal
<1>1. [LoadNext]_loadVars =>
        [running /\ running' /\ (stopRequested \/ over) => opCounter' = opCounter]_loadVars
  BY DEF LoadNext, loadVars, RunLoad, WorkerStep, Answered, Finished, Throws, Loop, Tick,
         StopLoad, Deadline, RunEnds
<1> QED BY <1>1, PTL DEF LoadSpec, StopIsFinal
-----------------------------------------------------------------------------
(* The placement preview. *)
\* Shown is what the newest preview is about: no older one is being read, unless it was
\* when the newest was asked for.
PreviewInv ==
    /\ PreviewTypeOK
    /\ seq = 0 => ~preview.visible
    /\ preview.visible => \A p \in previews : p.id = seq => p.choice = form.choice
    /\ ~slow => \A p \in previews : p.at = "body" => p.id = seq
    /\ preview.visible /\ ~slow => preview.choice = form.choice

(* The dashboard opens with nothing asked for. *)
LEMMA PreviewInvInit == PreviewInit => PreviewInv
<1> SUFFICES ASSUME PreviewInit PROVE PreviewInv
  OBVIOUS
<1>1. form \in [choice : Choice, auto : BOOLEAN] /\ form.choice \in Choice
  BY DEF PreviewInit
<1>2. PreviewTypeOK
  <2>1. slow \in BOOLEAN
    BY Zenon DEF PreviewInit
  <2>2. preview \in [visible : BOOLEAN, shows : {"nothing", "computing", "placement", "error"},
                     choice : Choice]
    BY <1>1 DEF PreviewInit
  <2>3. seq \in 0 .. MaxPreviews /\ previews = {}
    BY PreviewAssumption DEF PreviewInit
  <2> QED BY <1>1, <2>1, <2>2, <2>3 DEF PreviewTypeOK
<1> QED BY <1>2 DEF PreviewInit, PreviewInv

(* Asking for a preview of what the form has now makes it the newest. *)
LEMMA RefreshKeeps ==
  ASSUME PreviewInv, form' \in [choice : Choice, auto : BOOLEAN], RefreshPreview(form')
  PROVE  PreviewInv'
<1>1. seq \in Nat /\ seq <= MaxPreviews /\ MaxPreviews \in Nat
  BY PreviewAssumption DEF PreviewInv, PreviewTypeOK
<1>2. CASE ~form'.auto
  <2>1. preview' = [preview EXCEPT !.visible = FALSE] /\ UNCHANGED <<seq, previews, slow>>
    BY <1>2 DEF RefreshPreview
  <2>2. ~preview'.visible /\ PreviewTypeOK'
    BY <2>1 DEF PreviewInv, PreviewTypeOK
  <2> QED BY <2>1, <2>2 DEF PreviewInv
<1>3. CASE form'.auto
  <2> DEFINE new == [id |-> seq + 1, choice |-> form'.choice, at |-> "fetch"]
  <2>1. /\ seq < MaxPreviews /\ seq' = seq + 1
        /\ previews' = previews \cup {new}
        /\ preview' = [visible |-> TRUE, shows |-> "computing", choice |-> form'.choice]
        /\ slow' = \E p \in previews : p.at = "body"
    BY <1>3 DEF RefreshPreview
  <2>2. form'.choice \in Choice
    OBVIOUS
  <2>3. \A p \in previews : p \in [id : 1 .. seq, choice : Choice, at : {"fetch", "body"}]
    BY DEF PreviewInv, PreviewTypeOK
  <2>4. new \in [id : 1 .. seq', choice : Choice, at : {"fetch", "body"}]
    BY <1>1, <2>1, <2>2
  <2>5. PreviewTypeOK'
    <3>1. \A p \in previews : p \in [id : 1 .. seq', choice : Choice, at : {"fetch", "body"}]
      BY <1>1, <2>1, <2>3
    <3>2. preview' \in [visible : BOOLEAN, shows : {"nothing", "computing", "placement", "error"},
                        choice : Choice]
      BY <2>1, <2>2
    <3>3. slow' \in BOOLEAN
      BY <2>1
    <3>4. previews' \subseteq [id : 1 .. seq', choice : Choice, at : {"fetch", "body"}]
      BY <2>1, <2>4, <3>1
    <3> QED BY <1>1, <2>1, <3>2, <3>3, <3>4 DEF PreviewTypeOK
  <2>6. ASSUME NEW p \in previews', p.id = seq' PROVE p = new
    BY <1>1, <2>1, <2>3, <2>6
  <2>7. ASSUME NEW p \in previews', p.at = "body", ~slow' PROVE FALSE
    <3>1. new.at = "fetch"
      OBVIOUS
    <3> QED BY <2>1, <2>7, <3>1
  <2>8. seq' # 0 /\ preview'.choice = form'.choice /\ new.choice = form'.choice
    BY <1>1, <2>1
  <2> QED BY <2>5, <2>6, <2>7, <2>8 DEF PreviewInv
<1> QED BY <1>2, <1>3

(* Answers come in any order: the newest preview, and no other, gets to be read. *)
LEMMA PreviewStepKeeps ==
  ASSUME PreviewInv, NEW p \in previews, PreviewAnswered(p) \/ PreviewRead(p) \/ PreviewFails(p)
  PROVE  PreviewInv'
<1>1. p \in [id : 1 .. seq, choice : Choice, at : {"fetch", "body"}]
  BY DEF PreviewInv, PreviewTypeOK
<1>2. UNCHANGED <<form, seq, slow>>
  BY DEF PreviewAnswered, PreviewRead, PreviewFails
<1>3. CASE PreviewAnswered(p)
  <2> DEFINE read == [p EXCEPT !.at = "body"]
  <2>1. read \in [id : 1 .. seq, choice : Choice, at : {"fetch", "body"}]
        /\ read.id = p.id /\ read.choice = p.choice
    BY <1>1
  <2>2. preview' = preview /\ \A q \in previews' : q \in previews \/ (q = read /\ p.id = seq)
    BY <1>3 DEF PreviewAnswered
  <2> HIDE DEF read
  <2>3. PreviewTypeOK'
    BY <1>2, <2>1, <2>2 DEF PreviewInv, PreviewTypeOK
  <2> QED BY <1>2, <2>1, <2>2, <2>3 DEF PreviewInv
<1>4. CASE PreviewRead(p) \/ PreviewFails(p)
  <2>1. previews' \subseteq previews
    BY <1>4 DEF PreviewRead, PreviewFails
  <2>2. \/ preview' = preview
        \/ \E s \in {"placement", "error"} :
             /\ preview' = [preview EXCEPT !.shows = s, !.choice = p.choice]
             /\ p.at = "body" \/ p.id = seq
    BY <1>4 DEF PreviewRead, PreviewFails
  <2>3. /\ preview'.visible = preview.visible
        /\ preview'.choice = preview.choice \/ (preview'.choice = p.choice /\ (p.at = "body" \/ p.id = seq))
        /\ preview' \in [visible : BOOLEAN, shows : {"nothing", "computing", "placement", "error"},
                         choice : Choice]
    BY <1>1, <2>2 DEF PreviewInv, PreviewTypeOK
  <2>4. PreviewTypeOK'
    BY <1>2, <2>1, <2>3 DEF PreviewInv, PreviewTypeOK
  <2> QED BY <1>2, <2>1, <2>3, <2>4 DEF PreviewInv
<1> QED BY <1>3, <1>4

\* Every step of the preview keeps its invariant.
LEMMA PreviewInvStep == PreviewInv /\ [PreviewNext]_previewVars => PreviewInv'
<1> SUFFICES ASSUME PreviewInv, [PreviewNext]_previewVars PROVE PreviewInv'
  OBVIOUS
<1>1. form \in [choice : Choice, auto : BOOLEAN]
  BY DEF PreviewInv, PreviewTypeOK
<1>2. CASE FirstPreview
  BY <1>1, <1>2, RefreshKeeps DEF FirstPreview
<1>3. ASSUME NEW c \in Choice, Choose(c) PROVE PreviewInv'
  <2>1. form' \in [choice : Choice, auto : BOOLEAN]
    BY <1>1, <1>3 DEF Choose
  <2> QED BY <1>3, <2>1, RefreshKeeps DEF Choose
<1>4. CASE OnGeoChange
  <2>1. form' \in [choice : Choice, auto : BOOLEAN]
    BY <1>1, <1>4 DEF OnGeoChange
  <2> QED BY <1>4, <2>1, RefreshKeeps DEF OnGeoChange
<1>5. CASE PreviewStep
  BY <1>5, PreviewStepKeeps DEF PreviewStep
<1>6. CASE UNCHANGED previewVars
  BY <1>6 DEF previewVars, PreviewInv, PreviewTypeOK
<1> QED BY <1>2, <1>3, <1>4, <1>5, <1>6 DEF PreviewNext
-----------------------------------------------------------------------------
(* The list of buckets. *)
LoadType(known) == [id : 1 .. MaxLoads, at : {"sent", "listed", "demo"}, rows : SUBSET known]

\* With no overlap and no failure there is one load at most, and what it has listed, or
\* the table once it is through, has every bucket that the page said was created.
ListInv ==
    /\ BucketsTypeOK /\ IsFiniteSet(loads)
    /\ ~crossed =>
          /\ \A l, m \in loads : l = m
          /\ \A l \in loads : l.at # "sent" => created \subseteq l.rows
          /\ loads = {} => created \subseteq table

\* The type invariant of the list without its definitions.
LEMMA LoadTypes == BucketsTypeOK <=>
    /\ creating \in BOOLEAN /\ name \in Bucket
    /\ asked \subseteq Bucket /\ created \subseteq buckets /\ buckets \subseteq Bucket
    /\ loads \subseteq LoadType(buckets) /\ Cardinality(loads) <= MaxLoads
    /\ table \subseteq buckets
    /\ crossed \in BOOLEAN
  BY Zenon DEF BucketsTypeOK, LoadType

(* The page opens and loads the list. *)
LEMMA ListInvInit == BucketsInit => ListInv
<1> SUFFICES ASSUME BucketsInit PROVE ListInv
  OBVIOUS
<1>1. PICK first : first = [id |-> 1, at |-> "sent", rows |-> {}]
  OBVIOUS
<1>2. MaxLoads \in Nat /\ 1 \in 1 .. MaxLoads
  BY BucketListAssumption
<1>3. first \in LoadType(buckets) /\ first.at = "sent"
  BY <1>1, <1>2 DEF LoadType
<1>4. loads = {first} /\ IsFiniteSet(loads) /\ Cardinality(loads) = 1
  BY <1>1, FS_Singleton DEF BucketsInit
<1>5. creating \in BOOLEAN /\ crossed \in BOOLEAN
  BY Zenon DEF BucketsInit
<1>6. BucketsTypeOK
  BY <1>2, <1>3, <1>4, <1>5, LoadTypes DEF BucketsInit
<1> QED BY <1>3, <1>4, <1>6 DEF ListInv

(* Loading the list again: only a load that is alone counts. *)
LEMMA LoadAgain ==
  ASSUME ListInv, LoadBuckets, UNCHANGED <<name, asked, buckets>>, creating' \in BOOLEAN,
         created' \subseteq buckets
  PROVE  ListInv'
<1>1. PICK new \in LoadType(buckets) :
        new \notin loads /\ new.at = "sent" /\ loads' = loads \cup {new}
  <2>1. PICK i \in 1 .. MaxLoads :
          /\ \A l \in loads : l.id # i
          /\ loads' = loads \cup {[id |-> i, at |-> "sent", rows |-> {}]}
    BY DEF LoadBuckets
  <2>2. PICK new : new = [id |-> i, at |-> "sent", rows |-> {}]
    OBVIOUS
  <2>3. new \in LoadType(buckets) /\ new.at = "sent" /\ new.id = i
    BY <2>2 DEF LoadType
  <2> QED BY <2>1, <2>2, <2>3
<1>2. Cardinality(loads) < MaxLoads /\ (crossed' <=> loads # {}) /\ table' = table
  BY Zenon DEF LoadBuckets
<1>3. IsFiniteSet(loads') /\ Cardinality(loads') <= MaxLoads
  <2>1. /\ IsFiniteSet(loads \cup {new})
        /\ Cardinality(loads \cup {new}) = Cardinality(loads) + 1
    BY <1>1, FS_AddElement DEF ListInv
  <2>2. Cardinality(loads) \in Nat /\ MaxLoads \in Nat
    BY FS_CardinalityType, BucketListAssumption DEF ListInv
  <2> QED BY <1>1, <1>2, <2>1, <2>2
<1>4. loads' \subseteq LoadType(buckets)
  BY <1>1, LoadTypes DEF ListInv
<1>5. crossed' \in BOOLEAN
  BY Zenon DEF LoadBuckets
<1>6. BucketsTypeOK'
  BY <1>2, <1>3, <1>4, <1>5, Zenon DEF ListInv, BucketsTypeOK, LoadType
<1> QED BY <1>1, <1>2, <1>3, <1>6 DEF ListInv

(* A load that goes on is the same one; one that is through leaves fewer. *)
LEMMA LoadMoves ==
  ASSUME ListInv, NEW l \in loads, LoadStep(l)
  PROVE  ListInv'
<1>1. l \in LoadType(buckets) /\ created \subseteq buckets
  BY LoadTypes DEF ListInv
<1>2. UNCHANGED <<creating, name, asked, buckets, created>>
  BY DEF LoadStep, Listed, ListArrives, ShowList, LoadFails, createVars
<1>3. ASSUME NEW next \in LoadType(buckets), loads' = (loads \ {l}) \cup {next}, table' = table,
             crossed' = crossed, ~crossed => created \subseteq next.rows
      PROVE  ListInv'
  <2>1. loads \ {l} \subseteq LoadType(buckets)
    BY LoadTypes DEF ListInv
  <2>2. /\ IsFiniteSet(loads \ {l}) /\ Cardinality(loads \ {l}) = Cardinality(loads) - 1
        /\ Cardinality(loads) \in Nat /\ Cardinality(loads) <= MaxLoads
    BY FS_RemoveElement, FS_CardinalityType, LoadTypes DEF ListInv
  <2>3. PICK rest : rest = loads \ {l}
    OBVIOUS
  <2>4. IsFiniteSet(rest \cup {next}) /\ Cardinality(rest \cup {next}) <= Cardinality(rest) + 1
    <3>1. IsFiniteSet(rest) /\ Cardinality(rest) \in Nat
      BY <2>2, <2>3, FS_CardinalityType
    <3>2. /\ IsFiniteSet(rest \cup {next})
          /\ Cardinality(rest \cup {next}) =
               IF next \in rest THEN Cardinality(rest) ELSE Cardinality(rest) + 1
      BY <3>1, FS_AddElement
    <3> QED BY <3>1, <3>2
  <2>5. IsFiniteSet(loads') /\ Cardinality(loads') <= MaxLoads
    <3>1. loads' = rest \cup {next} /\ Cardinality(rest) = Cardinality(loads) - 1
      BY <1>3, <2>2, <2>3
    <3>2. IsFiniteSet(rest \cup {next}) /\ Cardinality(rest \cup {next}) \in Nat
      BY <2>4, FS_CardinalityType
    <3> QED BY <2>2, <2>4, <3>1, <3>2, BucketListAssumption
  <2>6. BucketsTypeOK'
    <3>1. loads' \subseteq LoadType(buckets)
      BY <1>3, <2>1
    <3> QED BY <1>2, <1>3, <2>5, <3>1, Zenon DEF ListInv, BucketsTypeOK, LoadType
  <2>7. ~crossed => loads' = {next}
    BY <1>3 DEF ListInv
  <2> QED BY <1>2, <1>3, <2>5, <2>6, <2>7 DEF ListInv
<1>4. CASE Listed(l)
  <2>1. PICK next : next = [l EXCEPT !.at = "listed", !.rows = buckets]
    OBVIOUS
  <2>2. next \in LoadType(buckets) /\ next.rows = buckets
    BY <1>1, <2>1 DEF LoadType
  <2> QED BY <1>1, <1>3, <1>4, <2>1, <2>2 DEF Listed
<1>5. CASE ListArrives(l)
  <2>1. PICK next : next = [l EXCEPT !.at = "demo"]
    OBVIOUS
  <2>2. next \in LoadType(buckets) /\ next.rows = l.rows
    BY <1>1, <2>1 DEF LoadType
  <2>3. ~crossed => created \subseteq l.rows
    BY <1>5 DEF ListInv, ListArrives
  <2> QED BY <1>3, <1>5, <2>1, <2>2, <2>3 DEF ListArrives
<1>6. CASE ShowList(l) \/ LoadFails(l)
  <2>1. loads' = loads \ {l} /\ table' \in {table, {}, l.rows} /\ crossed' \in {crossed, TRUE}
    BY <1>6 DEF ShowList, LoadFails
  <2>2. l.rows \subseteq buckets
    BY <1>1 DEF LoadType
  <2>3. /\ IsFiniteSet(loads \ {l}) /\ Cardinality(loads \ {l}) = Cardinality(loads) - 1
        /\ Cardinality(loads) \in Nat /\ Cardinality(loads) <= MaxLoads
    BY FS_RemoveElement, FS_CardinalityType, LoadTypes DEF ListInv
  <2>4. IsFiniteSet(loads') /\ Cardinality(loads') <= MaxLoads
    BY <2>1, <2>3, BucketListAssumption
  <2>5. BucketsTypeOK'
    <3>1. loads' \subseteq LoadType(buckets) /\ table' \subseteq buckets
      BY <2>1, <2>2, LoadTypes DEF ListInv
    <3>2. crossed' \in BOOLEAN
      BY <2>1 DEF ListInv, BucketsTypeOK
    <3> QED BY <1>2, <2>4, <3>1, <3>2, Zenon DEF ListInv, BucketsTypeOK, LoadType
  <2>6. ~crossed' => ~crossed /\ table' = l.rows /\ l.at # "sent"
    BY <1>6 DEF ShowList, LoadFails
  <2> QED BY <1>2, <2>1, <2>4, <2>5, <2>6 DEF ListInv
<1> QED BY <1>4, <1>5, <1>6 DEF LoadStep

\* Every step of the bucket list keeps its invariant.
LEMMA ListInvStep == ListInv /\ [BucketsNext]_bucketVars => ListInv'
<1> SUFFICES ASSUME ListInv, [BucketsNext]_bucketVars PROVE ListInv'
  OBVIOUS
<1>1. /\ creating \in BOOLEAN /\ created \subseteq buckets /\ name \in Bucket /\ asked \subseteq Bucket
      /\ buckets \subseteq Bucket
  BY DEF ListInv, BucketsTypeOK
<1>2. CASE Refresh
  BY <1>1, <1>2, LoadAgain DEF Refresh, createVars
<1>3. ASSUME UNCHANGED listVars, created' \subseteq buckets', created' \subseteq created,
             buckets \subseteq buckets', buckets' \subseteq Bucket, creating' \in BOOLEAN, name' \in Bucket,
             asked' \subseteq Bucket
      PROVE  ListInv'
  <2>1. LoadType(buckets) \subseteq LoadType(buckets')
    BY <1>3 DEF LoadType
  <2>2. loads \subseteq LoadType(buckets) /\ table \subseteq buckets
    BY LoadTypes DEF ListInv
  <2>3. UNCHANGED <<loads, table, crossed>>
    BY <1>3 DEF listVars
  <2>4. BucketsTypeOK'
    <3>1. loads' \subseteq LoadType(buckets') /\ table' \subseteq buckets'
      BY <1>3, <2>1, <2>2, <2>3
    <3> QED BY <1>3, <2>3, <3>1, Zenon DEF ListInv, BucketsTypeOK, LoadType
  <2> QED BY <1>3, <2>3, <2>4 DEF ListInv
<1>4. ASSUME NEW b \in Bucket, CreateBucket(b) \/ Decided(b) PROVE ListInv'
  BY <1>1, <1>3, <1>4, Zenon DEF CreateBucket, Decided
<1>5. CASE CreateAnswered
  <2>1. creating' \in BOOLEAN
    BY <1>5, Zenon DEF CreateAnswered
  <2> QED BY <1>1, <1>5, <2>1, LoadAgain DEF CreateAnswered
<1>6. CASE CreateFails \/ UNCHANGED bucketVars
  <2>1. creating' \in BOOLEAN
    BY <1>1, <1>6, Zenon DEF CreateFails, bucketVars, createVars
  <2> QED BY <1>1, <1>3, <1>6, <2>1 DEF CreateFails, bucketVars, createVars
<1>7. ASSUME NEW l \in loads, LoadStep(l) PROVE ListInv'
  BY <1>7, LoadMoves
<1> QED BY <1>2, <1>4, <1>5, <1>6, <1>7 DEF BucketsNext, CreateStep
-----------------------------------------------------------------------------
(* The tables of the admin page. *)
Ops == {"invites", "create", "revoke", "tenants", "regen", "delete", "suspend", "unsuspend"}

InviteStates == {"new", "open", "claimed", "revoked"}
TenantStates == {"new", "active", "suspended", "gone"}
TenantTable == Tenant \X {"active", "suspended"}

InCallType ==
    [id : 1 .. MaxCalls, op : Ops, arg : Invite \cup Tenant \cup {None},
     at : {"sent", "done", "adrift"}, ok : BOOLEAN, list : SUBSET (Invite \cup TenantTable)]

\* The records of the control plane, and what its replicas have held.
ServerTypes ==
    /\ invites \in [Invite -> InviteStates]
    /\ tenants \in [Tenant -> TenantStates]
    /\ past \in [Tenant -> SUBSET TenantStates] /\ \A t \in Tenant : tenants[t] \in past[t]

AdminTypes ==
    /\ ServerTypes /\ admitted \in BOOLEAN /\ joined \subseteq Tenant
    /\ inCalls \subseteq InCallType /\ \A c, d \in inCalls : c.id = d.id => c = d
    /\ \A c \in inCalls : /\ c.op = "invites" => c.list \subseteq Invite
                          /\ c.op = "tenants" => c.list \subseteq TenantTable
    /\ inviteRows \subseteq Invite /\ tenantRows \subseteq TenantTable /\ stale \subseteq Tables

\* What a list of table t may be: the tenants as they are, without those that came since;
\* the open invites, and maybe some that somebody has claimed.
Right(t, list) ==
    IF t = "tenants" THEN list = {r \in TenantList : r[1] \notin joined}
    ELSE Is("open") \subseteq list /\ list \subseteq Is("open") \cup Is("claimed")

Rows(t) == IF t = "tenants" THEN tenantRows ELSE inviteRows

\* A table that is not stale has one call of the page under way at most; what it has
\* loaded is right, and so are its rows when nothing is under way.
TableInv(t) ==
    t \notin stale =>
        /\ \A c, d \in Mine(inCalls) : TableOf(c.op) = t /\ TableOf(d.op) = t => c = d
        /\ \A c \in inCalls : c.op = t /\ c.at = "done" /\ c.ok => Right(t, c.list)
        /\ (\A c \in Mine(inCalls) : TableOf(c.op) # t) => Right(t, Rows(t))

AdminInv == AdminTypes /\ \A t \in Tables : TableInv(t)

\* A list is right when it was and neither its records nor the tenants that came changed.
SameRight(t) ==
    /\ t = "tenants" => tenants' = tenants /\ joined' = joined
    /\ t = "invites" => invites' = invites

(* What has not changed is as right as before. *)
LEMMA RightStays ==
  ASSUME NEW t \in Tables, SameRight(t)
  PROVE  /\ \A list : Right(t, list)' <=> Right(t, list)
         /\ Rows(t)' = Rows(t) => (Right(t, Rows(t))' <=> Right(t, Rows(t)))
<1>1. CASE t = "tenants"
  <2>1. TenantList' = TenantList /\ joined' = joined
    BY <1>1 DEF SameRight, TenantList, ListOf
  <2>2. tenantRows' = tenantRows <=> Rows(t)' = Rows(t)
    BY <1>1 DEF Rows
  <2> QED BY <1>1, <2>1, <2>2 DEF Right, Rows
<1>2. CASE t = "invites"
  <2>1. Is("open")' = Is("open") /\ Is("claimed")' = Is("claimed")
    BY <1>2 DEF SameRight, Is
  <2>2. inviteRows' = inviteRows <=> Rows(t)' = Rows(t)
    BY <1>2 DEF Rows
  <2> QED BY <1>2, <2>1, <2>2 DEF Right, Rows
<1> QED BY <1>1, <1>2 DEF Tables

(* Ids are given out once, so there are no more calls than ids. *)
LEMMA FewCalls == AdminTypes => IsFiniteSet(inCalls) /\ Cardinality(inCalls) <= MaxCalls
<1> SUFFICES ASSUME AdminTypes PROVE IsFiniteSet(inCalls) /\ Cardinality(inCalls) <= MaxCalls
  OBVIOUS
<1>1. MaxCalls \in Nat /\ 0 <= MaxCalls /\ 1 \in Int /\ MaxCalls \in Int /\ 1 <= MaxCalls
  BY AdminPageAssumption
<1>2. IsFiniteSet(1 .. MaxCalls) /\ Cardinality(1 .. MaxCalls) = MaxCalls
  BY <1>1, FS_Interval
<1>3. [c \in inCalls |-> c.id] \in Injection(inCalls, 1 .. MaxCalls)
  BY DEF AdminTypes, InCallType, Injection, IsInjective
<1> QED BY <1>2, <1>3, FS_Injection DEF ExistsInjection

(* The page opens: both tables are being loaded. *)
LEMMA PageLoads ==
  ASSUME NEW i \in 1 .. MaxCalls, NEW j \in 1 .. MaxCalls, i # j
  PROVE  /\ PageLoad(i, j) \subseteq InCallType
         /\ \A c, d \in PageLoad(i, j) : c.id = d.id \/ TableOf(c.op) = TableOf(d.op) => c = d
         /\ \A c \in PageLoad(i, j) : c.at = "sent" /\ c.list = {} /\ c.id \in {i, j}
         /\ \A t \in Tables : \E c \in PageLoad(i, j) : TableOf(c.op) = t
<1>1. PICK a, b : a = Call(i, "tenants", None) /\ b = Call(j, "invites", None) /\ PageLoad(i, j) = {a, b}
  BY DEF PageLoad
<1>3. a \in InCallType /\ b \in InCallType
  BY <1>1 DEF Call, InCallType, Ops
<1>4. /\ a.id = i /\ a.op = "tenants" /\ a.at = "sent" /\ a.list = {}
      /\ b.id = j /\ b.op = "invites" /\ b.at = "sent" /\ b.list = {}
  BY <1>1 DEF Call
<1>5. TableOf(a.op) = "tenants" /\ TableOf(b.op) = "invites"
  BY <1>4 DEF TableOf
<1> QED BY <1>1, <1>3, <1>4, <1>5 DEF Tables

\* The page with both tables being loaded, whatever it showed before, next to calls of
\* which it knows nothing any more.
Opened ==
    /\ ServerTypes /\ admitted \in BOOLEAN /\ joined \subseteq Tenant
    /\ stale = {} /\ inviteRows = {} /\ tenantRows = {}
    /\ \E i, j \in 1 .. MaxCalls : \E old \in SUBSET InCallType :
        /\ i # j /\ inCalls = old \cup PageLoad(i, j)
        /\ \A c, d \in old : c.id = d.id => c = d
        /\ \A c \in old : /\ c.at = "adrift" /\ c.id \notin {i, j}
                          /\ c.op = "invites" => c.list \subseteq Invite
                          /\ c.op = "tenants" => c.list \subseteq TenantTable

\* Such a page has all the invariant asks for.
LEMMA LoadedAnew == Opened => AdminInv
<1> SUFFICES ASSUME Opened PROVE AdminInv
  OBVIOUS
<1> PICK i \in 1 .. MaxCalls, j \in 1 .. MaxCalls, old \in SUBSET InCallType :
      /\ i # j /\ inCalls = old \cup PageLoad(i, j)
      /\ \A c, d \in old : c.id = d.id => c = d
      /\ \A c \in old : /\ c.at = "adrift" /\ c.id \notin {i, j}
                        /\ c.op = "invites" => c.list \subseteq Invite
                        /\ c.op = "tenants" => c.list \subseteq TenantTable
  BY DEF Opened
<1> /\ ServerTypes /\ admitted \in BOOLEAN /\ joined \subseteq Tenant
    /\ stale = {} /\ inviteRows = {} /\ tenantRows = {}
  BY DEF Opened
<1>1. PICK new : new = PageLoad(i, j)
  OBVIOUS
<1>2. /\ new \subseteq InCallType /\ inCalls = old \cup new
      /\ \A c, d \in new : c.id = d.id \/ TableOf(c.op) = TableOf(d.op) => c = d
      /\ \A c \in new : c.at = "sent" /\ c.list = {} /\ c.id \in {i, j}
      /\ \A t \in Tables : \E c \in new : TableOf(c.op) = t
  BY <1>1, PageLoads
<1>3. \A c, d \in inCalls : c.id = d.id => c = d
  <2> SUFFICES ASSUME NEW c \in inCalls, NEW d \in inCalls, c.id = d.id PROVE c = d
    OBVIOUS
  <2>1. CASE c \in old /\ d \in old
    BY <2>1
  <2>2. CASE c \in new /\ d \in new
    BY <1>2, <2>2
  <2>3. CASE c \in old /\ d \in new
    BY <1>2, <2>3
  <2>4. CASE c \in new /\ d \in old
    BY <1>2, <2>4
  <2> QED BY <1>2, <2>1, <2>2, <2>3, <2>4
<1>4. \A c \in inCalls : /\ c.op = "invites" => c.list \subseteq Invite
                         /\ c.op = "tenants" => c.list \subseteq TenantTable
  BY <1>2
<1>5. AdminTypes
  BY <1>2, <1>3, <1>4 DEF AdminTypes
<1>6. ASSUME NEW t \in Tables PROVE TableInv(t)
  <2>1. Mine(inCalls) = new
    BY <1>2 DEF Mine
  <2>2. \A c \in inCalls : c.at # "done"
    BY <1>2
  <2> QED BY <1>2, <2>1, <2>2 DEF TableInv
<1> QED BY <1>5, <1>6 DEF AdminInv

\* The admin page's invariant holds when it is opened.
LEMMA AdminInvInit == AdminInit => AdminInv
<1> SUFFICES ASSUME AdminInit PROVE AdminInv
  OBVIOUS
<1>1. ServerTypes /\ joined \subseteq Tenant
  BY DEF AdminInit, ServerTypes, InviteStates, TenantStates
<1>2. 1 \in 1 .. MaxCalls /\ 2 \in 1 .. MaxCalls /\ 1 # 2
  BY AdminPageAssumption
<1>3. inCalls = {} \cup PageLoad(1, 2) /\ {} \in SUBSET InCallType
  BY DEF AdminInit
<1>4. Opened
  BY <1>1, <1>2, <1>3 DEF AdminInit, Opened
<1> QED BY <1>4, LoadedAnew

(* A call of the page: the one it answers, if any, was for the same table. *)
LEMMA AuthFetchKeeps ==
  ASSUME AdminInv, NEW op \in Ops, NEW arg \in Invite \cup Tenant \cup {None},
         NEW others \in SUBSET inCalls,
         \A c \in inCalls : c \notin others => TableOf(c.op) = TableOf(op),
         AuthFetch(op, arg, others), UNCHANGED <<admitted, adminServer, joined, adminTables>>
  PROVE  AdminInv'
<1>1. PICK new \in InCallType :
        /\ new.op = op /\ new.at = "sent" /\ new.list = {}
        /\ \A c \in others : c.id # new.id
        /\ inCalls' = others \cup {new}
  <2>1. PICK i \in 1 .. MaxCalls :
          (\A c \in others : c.id # i) /\ inCalls' = others \cup {Call(i, op, arg)}
    BY DEF AuthFetch, Free
  <2>2. PICK new : new = Call(i, op, arg)
    OBVIOUS
  <2>3. /\ new \in InCallType /\ new.id = i /\ new.op = op /\ new.at = "sent" /\ new.list = {}
    BY <2>2 DEF Call, InCallType
  <2> QED BY <2>1, <2>2, <2>3
<1>2. UNCHANGED <<admitted, invites, tenants, past, joined, inviteRows, tenantRows>>
  BY DEF adminServer, adminTables
<1>3. /\ (\E c \in Mine(others) : TableOf(c.op) = TableOf(op)) => stale' = stale \cup {TableOf(op)}
      /\ stale' \subseteq stale \cup {TableOf(op)} /\ stale \ {TableOf(op)} \subseteq stale'
  <2>1. CASE \A c \in Mine(others) : TableOf(c.op) # TableOf(op)
    <3>1. stale' \in {stale, stale \ {TableOf(op)}}
      BY <2>1, Zenon DEF AuthFetch
    <3> QED BY <2>1, <3>1
  <2>2. CASE ~(\A c \in Mine(others) : TableOf(c.op) # TableOf(op))
    <3>1. stale' = stale \cup {TableOf(op)}
      BY <2>2, Zenon DEF AuthFetch
    <3> QED BY <3>1
  <2> QED BY <2>1, <2>2
<1>4. AdminTypes'
  <2>1. TableOf(op) \in Tables
    BY DEF TableOf, Tables
  <2>2. stale' \subseteq Tables
    BY <1>3, <2>1 DEF AdminInv, AdminTypes
  <2>3. \A c, d \in inCalls' : c.id = d.id => c = d
    BY <1>1 DEF AdminInv, AdminTypes
  <2>4. inCalls' \subseteq InCallType
    BY <1>1 DEF AdminInv, AdminTypes
  <2>5. \A c \in inCalls' : /\ c.op = "invites" => c.list \subseteq Invite
                            /\ c.op = "tenants" => c.list \subseteq TenantTable
    BY <1>1 DEF AdminInv, AdminTypes
  <2>6. ServerTypes'
    BY <1>2 DEF AdminInv, AdminTypes, ServerTypes
  <2> QED BY <1>2, <2>2, <2>3, <2>4, <2>5, <2>6 DEF AdminInv, AdminTypes
<1>5. \A t \in Tables : Rows(t)' = Rows(t) /\ SameRight(t)
  BY <1>2 DEF Rows, SameRight
<1>6. Mine(inCalls)' = Mine(others) \cup {new}
  BY <1>1 DEF Mine
<1>7. ASSUME NEW t \in Tables PROVE TableInv(t)'
  <2> SUFFICES ASSUME t \notin stale'
               PROVE  /\ \A c, d \in Mine(inCalls)' : TableOf(c.op) = t /\ TableOf(d.op) = t => c = d
                      /\ \A c \in inCalls' : c.op = t /\ c.at = "done" /\ c.ok => Right(t, c.list)
                      /\ (\A c \in Mine(inCalls)' : TableOf(c.op) # t) => Right(t, Rows(t))
    BY <1>5, RightStays DEF TableInv
  <2>1. TableInv(t)
    BY DEF AdminInv
  <2>2. CASE t = TableOf(op)
    <3>1. \A c \in Mine(others) : TableOf(c.op) # t
      BY <1>3, <2>2
    <3>2. \A c \in others : c.at = "done" => c.op # t
      BY <3>1 DEF TableOf, Tables, Mine
    <3> QED BY <1>1, <1>6, <2>2, <3>1, <3>2
  <2>3. CASE t # TableOf(op)
    <3>1. t \notin stale /\ TableOf(new.op) # t
      BY <1>1, <1>3, <2>3
    <3>2. new.at # "done"
      BY <1>1
    <3>3. \A c \in inCalls : TableOf(c.op) = t => c \in others
      BY <2>3
    <3>4. \A c \in Mine(inCalls) : TableOf(c.op) = t => c \in Mine(others)
      BY <3>3 DEF Mine
    <3>5. Mine(others) \subseteq Mine(inCalls)
      BY DEF Mine
    <3> QED BY <1>1, <1>6, <2>1, <3>1, <3>2, <3>4, <3>5 DEF TableInv
  <2> QED BY <2>2, <2>3
<1> QED BY <1>4, <1>7 DEF AdminInv

(* What the control plane does for an operation changes only what its table lists. *)
LEMMA DoesFacts ==
  ASSUME ServerTypes, NEW op \in Ops, NEW arg, NEW seen \in Views, Does(op, arg, seen)
  PROVE  /\ ServerTypes'
         /\ TableOf(op) = "tenants" \/ op = "invites" => invites' = invites
         /\ TableOf(op) = "invites" \/ op = "tenants" => tenants' = tenants
<1>1. invites' \in [Invite -> InviteStates]
  BY DEF ServerTypes, Does, InviteStates
<1>2. TableOf(op) = "tenants" \/ op = "invites" => invites' = invites
  BY DEF Does, TableOf
<1>3. PICK s : s = seen[arg]
  OBVIOUS
<1>4. \A x \in TenantStates : Mended(op, s, x) \in TenantStates
  BY DEF Mended, TenantStates
<1>5. TableOf(op) = "invites" \/ op = "tenants" => \A x : Mended(op, s, x) = x
  BY DEF Mended, TableOf
<1>6. tenants' = IF arg \in Tenant THEN [tenants EXCEPT ![arg] = Mended(op, s, tenants[arg])]
                 ELSE tenants
  BY <1>3 DEF Does
<1>7. tenants' \in [Tenant -> TenantStates]
  BY <1>4, <1>6 DEF ServerTypes
<1>8. TableOf(op) = "invites" \/ op = "tenants" => tenants' = tenants
  BY <1>5, <1>6 DEF ServerTypes
<1>9. past' \in [Tenant -> SUBSET TenantStates] /\ \A t \in Tenant : tenants'[t] \in past'[t]
  BY <1>7 DEF Does, ServerTypes
<1> QED BY <1>1, <1>2, <1>7, <1>8, <1>9 DEF ServerTypes

(* An answer is on its way to the page, and maybe the call goes on without it. *)
LEMMA AnswerKeeps ==
  ASSUME AdminInv, NEW c \in inCalls, c.at = "sent", NEW next \in InCallType,
         next.id = c.id, next.op = c.op, next.at = "done",
         NEW more \in SUBSET InCallType, \A x \in more : x.at = "adrift" /\ x.op \notin Tables,
         \A x, y \in more : x = y, \A x \in more : \A y \in inCalls : x.id # y.id,
         inCalls' = (inCalls \ {c}) \cup {next} \cup more,
         ServerTypes', joined' \subseteq Tenant, UNCHANGED <<admitted, adminTables>>,
         stale \subseteq stale', stale' \subseteq Tables,
         next.op = "invites" => next.list \subseteq Invite,
         next.op = "tenants" => next.list \subseteq TenantTable,
         \A t \in Tables : t # TableOf(c.op) => SameRight(t),
         \A t \in Tables : t = next.op /\ next.ok /\ t \notin stale' => Right(t, next.list)'
  PROVE  AdminInv'
<1>1. inviteRows' = inviteRows /\ tenantRows' = tenantRows
  BY DEF adminTables
<1>2. AdminTypes'
  <2>1. \A x, y \in inCalls' : x.id = y.id => x = y
    <3> SUFFICES ASSUME NEW x \in inCalls', NEW y \in inCalls', x.id = y.id PROVE x = y
      OBVIOUS
    <3>1. CASE x \notin more /\ y \notin more
      BY <3>1 DEF AdminInv, AdminTypes
    <3>2. CASE x \in more /\ y \in more
      BY <3>2
    <3>3. CASE x \in more /\ y \notin more
      BY <3>3
    <3>4. CASE x \notin more /\ y \in more
      BY <3>4
    <3> QED BY <3>1, <3>2, <3>3, <3>4
  <2>2. inCalls' \subseteq InCallType
    BY DEF AdminInv, AdminTypes
  <2>3. \A x \in inCalls' : /\ x.op = "invites" => x.list \subseteq Invite
                            /\ x.op = "tenants" => x.list \subseteq TenantTable
    BY DEF AdminInv, AdminTypes, Tables
  <2> QED BY <1>1, <2>1, <2>2, <2>3 DEF AdminInv, AdminTypes
<1>3. Mine(inCalls)' = (Mine(inCalls) \ {c}) \cup {next} /\ c \in Mine(inCalls)
  BY DEF Mine
<1>4. ASSUME NEW t \in Tables PROVE TableInv(t)'
  <2> SUFFICES ASSUME t \notin stale'
               PROVE  /\ \A x, y \in Mine(inCalls)' : TableOf(x.op) = t /\ TableOf(y.op) = t => x = y
                      /\ \A x \in inCalls' : x.op = t /\ x.at = "done" /\ x.ok => Right(t, x.list)'
                      /\ (\A x \in Mine(inCalls)' : TableOf(x.op) # t) => Right(t, Rows(t))'
    BY DEF TableInv
  <2>1. TableInv(t) /\ t \notin stale
    BY DEF AdminInv
  <2>2. \A x : x.op = t => TableOf(x.op) = t
    BY DEF TableOf, Tables
  <2>3. CASE t = TableOf(c.op)
    <3>1. \A x \in Mine(inCalls)' : TableOf(x.op) = t => x = next
      BY <1>3, <2>1, <2>3 DEF TableInv
    <3>2. TableOf(next.op) = t
      BY <2>3
    <3>3. \A x \in inCalls' : x.op = t /\ x.at = "done" => x = next
      <4>1. \A x \in inCalls' : x.at = "done" => x \in Mine(inCalls)'
        BY DEF Mine
      <4> QED BY <2>2, <3>1, <4>1
    <3> QED BY <1>3, <3>1, <3>2, <3>3
  <2>4. CASE t # TableOf(c.op)
    <3>1. \A list : Right(t, list)' <=> Right(t, list)
      BY <2>4, RightStays
    <3>2. Right(t, Rows(t))' <=> Right(t, Rows(t))
      <4>1. Rows(t)' = Rows(t)
        BY <1>1 DEF Rows
      <4> QED BY <2>4, <4>1, RightStays
    <3>3. TableOf(next.op) # t /\ next.op # t
      BY <2>2, <2>4
    <3>4. \A x \in inCalls' : x.at = "done" /\ x # next => x \in inCalls
      OBVIOUS
    <3> QED BY <1>3, <2>1, <2>4, <3>1, <3>2, <3>3, <3>4 DEF TableInv
  <2> QED BY <2>3, <2>4
<1> QED BY <1>2, <1>4 DEF AdminInv

\* The control plane answers.
LEMMA HandledKeeps ==
  ASSUME AdminInv, NEW c \in inCalls, Handled(c)
  PROVE  AdminInv'
<1>1. c \in InCallType /\ c.op \in Ops /\ c.at = "sent" /\ ServerTypes
  BY DEF AdminInv, AdminTypes, Handled, InCallType
<1>2. PICK seen \in Views :
        /\ Does(c.op, c.arg, seen)
        /\ Returns(c, c.arg \in Tenant => seen[c.arg] \in Known,
                   CASE c.op = "tenants" -> ListOf(seen)
                     [] c.op = "invites" -> Is("open")
                     [] OTHER -> {})
        /\ stale' = IF c.op = "tenants" /\ ListOf(seen) # TenantList
                    THEN stale \cup {"tenants"} ELSE stale
  BY DEF Handled
<1>3. PICK list : list = (CASE c.op = "tenants" -> ListOf(seen)
                            [] c.op = "invites" -> Is("open")
                            [] OTHER -> {})
  OBVIOUS
<1>4. ListOf(seen) \subseteq TenantTable /\ Is("open") \subseteq Invite
  BY DEF ListOf, Known, TenantTable, Is
<1>5. /\ list \subseteq Invite \cup TenantTable
      /\ c.op = "tenants" => list = ListOf(seen)
      /\ c.op = "invites" => list = Is("open")
  BY <1>3, <1>4
<1>6. PICK ok \in BOOLEAN : ok = (c.arg \in Tenant => seen[c.arg] \in Known)
  OBVIOUS
<1>7. PICK next : next = [c EXCEPT !.at = "done", !.ok = ok, !.list = list]
  OBVIOUS
<1>8. /\ next \in InCallType /\ next.id = c.id /\ next.op = c.op /\ next.at = "done"
      /\ next.list = list
  BY <1>1, <1>5, <1>7 DEF InCallType
<1>9. inCalls' = (inCalls \ {c}) \cup {next} \cup {} /\ {} \in SUBSET InCallType
  BY <1>2, <1>3, <1>6, <1>7 DEF Returns
<1>10. /\ ServerTypes'
       /\ TableOf(c.op) = "tenants" \/ c.op = "invites" => invites' = invites
       /\ TableOf(c.op) = "invites" \/ c.op = "tenants" => tenants' = tenants
  BY <1>1, <1>2, DoesFacts
<1>11. /\ joined' = IF c.op = "tenants" THEN {} ELSE joined
       /\ UNCHANGED <<admitted, adminTables>>
  BY DEF Handled
<1>12. joined' \subseteq Tenant /\ stale \subseteq stale' /\ stale' \subseteq Tables
  BY <1>2, <1>11 DEF AdminInv, AdminTypes, Tables
<1>13. ASSUME NEW t \in Tables, t # TableOf(c.op) PROVE SameRight(t)
  BY <1>10, <1>11, <1>13 DEF SameRight, TableOf, Tables
<1>14. ASSUME NEW t \in Tables, t = next.op, t \notin stale' PROVE Right(t, next.list)'
  <2>1. CASE t = "tenants"
    <3>1. list = TenantList /\ tenants' = tenants /\ joined' = {}
      BY <1>2, <1>5, <1>8, <1>10, <1>11, <1>14, <2>1
    <3>2. TenantList' = TenantList
      BY <3>1 DEF TenantList
    <3> QED BY <1>8, <2>1, <3>1, <3>2 DEF Right
  <2>2. CASE t = "invites"
    <3>1. list = Is("open") /\ invites' = invites
      BY <1>5, <1>8, <1>10, <1>14, <2>2
    <3>2. Is("open")' = Is("open")
      BY <3>1 DEF Is
    <3> QED BY <1>8, <2>2, <3>1, <3>2 DEF Right
  <2> QED BY <1>14, <2>1, <2>2 DEF Tables
<1>15. next.op = "invites" => next.list \subseteq Invite
  BY <1>4, <1>5, <1>8
<1>16. next.op = "tenants" => next.list \subseteq TenantTable
  BY <1>4, <1>5, <1>8
<1> QED BY <1>1, <1>8, <1>9, <1>10, <1>11, <1>12, <1>13, <1>14, <1>15, <1>16, AnswerKeeps

\* The page is told of a failure.
LEMMA FailedKeeps ==
  ASSUME AdminInv, NEW c \in inCalls, Failed(c)
  PROVE  AdminInv'
<1>1. c \in InCallType /\ c.op \in Ops /\ c.at = "sent" /\ ServerTypes
  BY DEF AdminInv, AdminTypes, Failed, InCallType
<1>2. UNCHANGED <<admitted, joined, adminTables, stale>>
  BY DEF Failed
<1>3. joined' \subseteq Tenant /\ stale \subseteq stale' /\ stale' \subseteq Tables
  BY <1>2 DEF AdminInv, AdminTypes
\* Whatever else happens, the answer is no list.
<1>4. ASSUME NEW next \in InCallType, NEW more \in SUBSET InCallType,
             next.id = c.id, next.op = c.op, next.at = "done", ~next.ok,
             next.list \subseteq c.list,
             inCalls' = (inCalls \ {c}) \cup {next} \cup more,
             \A x \in more : x.at = "adrift" /\ x.op \notin Tables,
             \A x, y \in more : x = y, \A x \in more : \A y \in inCalls : x.id # y.id,
             ServerTypes', \A t \in Tables : t # TableOf(c.op) => SameRight(t)
      PROVE  AdminInv'
  <2>1. next.op = "invites" => next.list \subseteq Invite
    BY <1>4 DEF AdminInv, AdminTypes
  <2>2. next.op = "tenants" => next.list \subseteq TenantTable
    BY <1>4 DEF AdminInv, AdminTypes
  <2> QED BY <1>1, <1>2, <1>3, <1>4, <2>1, <2>2, AnswerKeeps
<1>5. PICK next : next = [c EXCEPT !.at = "done", !.ok = FALSE, !.list = {}]
  OBVIOUS
<1>6. /\ next \in InCallType /\ next.id = c.id /\ next.op = c.op /\ next.at = "done"
       /\ ~next.ok /\ next.list \subseteq c.list
  <2>1. {} \subseteq Invite \cup TenantTable
    OBVIOUS
  <2> QED BY <1>1, <1>5, <2>1 DEF InCallType
<1>7. UNCHANGED adminServer => ServerTypes' /\ \A t \in Tables : t # TableOf(c.op) => SameRight(t)
  BY <1>1, <1>2 DEF adminServer, ServerTypes, SameRight
<1>8. CASE UNCHANGED adminServer /\ Returns(c, FALSE, {})
  <2>1. inCalls' = (inCalls \ {c}) \cup {next} \cup {} /\ {} \in SUBSET InCallType
    BY <1>5, <1>8 DEF Returns
  <2> QED BY <1>4, <1>7, <1>8, <1>6, <2>1
<1>9. CASE (\E seen \in Views : Does(c.op, c.arg, seen)) /\ Returns(c, FALSE, {})
  <2>1. inCalls' = (inCalls \ {c}) \cup {next} \cup {} /\ {} \in SUBSET InCallType
    BY <1>5, <1>9 DEF Returns
  <2>2. /\ ServerTypes'
        /\ TableOf(c.op) = "tenants" => invites' = invites
        /\ TableOf(c.op) = "invites" => tenants' = tenants
    BY <1>1, <1>9, DoesFacts
  <2>3. \A t \in Tables : t # TableOf(c.op) => SameRight(t)
    BY <1>2, <2>2 DEF SameRight, TableOf, Tables
  <2> QED BY <1>4, <1>6, <2>1, <2>2, <2>3
<1>10. CASE /\ GoesOn(c) /\ UNCHANGED adminServer
           /\ \E i \in Free(inCalls) : inCalls' = (inCalls \ {c}) \cup Parted(c, i)
  <2>1. PICK i \in Free(inCalls) : inCalls' = (inCalls \ {c}) \cup Parted(c, i)
    BY <1>10
  <2>2. PICK told : told = [c EXCEPT !.at = "done", !.ok = FALSE]
    OBVIOUS
  <2>3. /\ told \in InCallType /\ told.id = c.id /\ told.op = c.op /\ told.at = "done"
         /\ ~told.ok /\ told.list \subseteq c.list
    BY <1>1, <2>2 DEF InCallType
  <2>4. PICK lost : lost = [c EXCEPT !.at = "adrift", !.id = i]
    OBVIOUS
  <2>5. inCalls' = (inCalls \ {c}) \cup {told} \cup {lost}
    BY <2>1, <2>2, <2>4 DEF Parted
  <2>6. i \in 1 .. MaxCalls /\ \A y \in inCalls : y.id # i
    BY DEF Free
  <2>7. lost \in InCallType /\ lost.at = "adrift" /\ lost.op = c.op /\ lost.id = i
    BY <1>1, <2>4, <2>6 DEF InCallType
  <2>8. lost.op \notin Tables
    BY <1>10, <2>7 DEF GoesOn
  <2>9. \A y \in inCalls : lost.id # y.id
    BY <2>6, <2>7
  <2>10. {lost} \in SUBSET InCallType
    BY <2>7
  <2>11. PICK more : more = {lost}
    OBVIOUS
  <2>12. /\ more \in SUBSET InCallType /\ inCalls' = (inCalls \ {c}) \cup {told} \cup more
         /\ \A x \in more : x.at = "adrift" /\ x.op \notin Tables
         /\ \A x, y \in more : x = y
         /\ \A x \in more : \A y \in inCalls : x.id # y.id
    BY <2>5, <2>7, <2>8, <2>9, <2>10, <2>11
  <2>13. ServerTypes' /\ \A t \in Tables : t # TableOf(c.op) => SameRight(t)
    BY <1>7, <1>10
  <2> QED BY <1>4, <2>3, <2>12, <2>13
<1>11. \/ UNCHANGED adminServer /\ Returns(c, FALSE, {})
       \/ (\E seen \in Views : Does(c.op, c.arg, seen)) /\ Returns(c, FALSE, {})
       \/ /\ GoesOn(c) /\ UNCHANGED adminServer
          /\ \E i \in Free(inCalls) : inCalls' = (inCalls \ {c}) \cup Parted(c, i)
  BY Zenon DEF Failed
<1> QED BY <1>8, <1>9, <1>10, <1>11, Zenon

(* A call is over for the page, whose table is stale; it may go on, and may have its
   effect now. *)
LEMMA CallLeaves ==
  ASSUME AdminInv, NEW c \in inCalls,
         \/ inCalls' = inCalls \ {c}
         \/ inCalls' = (inCalls \ {c}) \cup {[c EXCEPT !.at = "adrift"]},
         UNCHANGED <<admitted, joined, adminTables>>, stale' = stale \cup {TableOf(c.op)},
         \/ UNCHANGED adminServer
         \/ \E seen \in Views : Does(c.op, c.arg, seen)
  PROVE  AdminInv'
<1>1. c \in InCallType /\ c.op \in Ops /\ ServerTypes /\ TableOf(c.op) \in Tables
  BY DEF AdminInv, AdminTypes, InCallType, TableOf, Tables
<1>2. ServerTypes' /\ \A t \in Tables : t # TableOf(c.op) => SameRight(t)
  <2>1. CASE UNCHANGED adminServer
    BY <1>1, <2>1 DEF adminServer, ServerTypes, SameRight
  <2>2. CASE \E seen \in Views : Does(c.op, c.arg, seen)
    <3>1. /\ ServerTypes'
          /\ TableOf(c.op) = "tenants" => invites' = invites
          /\ TableOf(c.op) = "invites" => tenants' = tenants
      BY <1>1, <2>2, DoesFacts
    <3> QED BY <3>1 DEF SameRight, TableOf, Tables
  <2> QED BY <2>1, <2>2
<1>3. PICK lost : lost = [c EXCEPT !.at = "adrift"]
  OBVIOUS
<1>4. /\ lost \in InCallType /\ lost.id = c.id /\ lost.op = c.op /\ lost.at = "adrift"
      /\ lost.list = c.list
  BY <1>1, <1>3 DEF InCallType
<1>5. PICK more \in SUBSET {lost} : inCalls' = (inCalls \ {c}) \cup more
  <2>1. CASE inCalls' = inCalls \ {c}
    <3>1. inCalls' = (inCalls \ {c}) \cup {} /\ {} \in SUBSET {lost}
      BY <2>1
    <3> QED BY <3>1
  <2>2. CASE inCalls' = (inCalls \ {c}) \cup {[c EXCEPT !.at = "adrift"]}
    BY <1>3, <2>2
  <2> QED BY <2>1, <2>2
<1>6. AdminTypes'
  <2>1. \A x, y \in inCalls' : x.id = y.id => x = y
    BY <1>4, <1>5 DEF AdminInv, AdminTypes
  <2>2. inCalls' \subseteq InCallType
    BY <1>4, <1>5 DEF AdminInv, AdminTypes
  <2>3. \A x \in inCalls' : /\ x.op = "invites" => x.list \subseteq Invite
                            /\ x.op = "tenants" => x.list \subseteq TenantTable
    BY <1>4, <1>5 DEF AdminInv, AdminTypes
  <2>4. inviteRows' = inviteRows /\ tenantRows' = tenantRows /\ stale' \subseteq Tables
    BY <1>1 DEF adminTables, AdminInv, AdminTypes
  <2> QED BY <1>2, <2>1, <2>2, <2>3, <2>4 DEF AdminInv, AdminTypes
<1>7. ASSUME NEW t \in Tables PROVE TableInv(t)'
  <2> SUFFICES ASSUME t \notin stale'
               PROVE  /\ \A x, y \in Mine(inCalls)' : TableOf(x.op) = t /\ TableOf(y.op) = t => x = y
                      /\ \A x \in inCalls' : x.op = t /\ x.at = "done" /\ x.ok => Right(t, x.list)'
                      /\ (\A x \in Mine(inCalls)' : TableOf(x.op) # t) => Right(t, Rows(t))'
    BY DEF TableInv
  <2>1. TableInv(t) /\ t # TableOf(c.op) /\ t \notin stale
    BY DEF AdminInv
  <2>2. \A list : Right(t, list)' <=> Right(t, list)
    BY <1>2, <2>1, RightStays
  <2>3. Right(t, Rows(t))' <=> Right(t, Rows(t))
    <3>1. Rows(t)' = Rows(t)
      BY DEF Rows, adminTables
    <3> QED BY <1>2, <2>1, <3>1, RightStays
  <2>4. /\ Mine(inCalls)' \subseteq Mine(inCalls)
        /\ \A x \in Mine(inCalls) : TableOf(x.op) = t => x \in Mine(inCalls)'
    BY <1>4, <1>5, <2>1 DEF Mine
  <2>5. \A x \in inCalls' : x.at = "done" => x \in inCalls
    BY <1>4, <1>5
  <2> QED BY <2>1, <2>2, <2>3, <2>4, <2>5 DEF TableInv
<1> QED BY <1>6, <1>7 DEF AdminInv

(* A list arrives: its table is stale, or shows what the call brought. *)
LEMMA ArrivalKeeps ==
  ASSUME AdminInv, NEW c \in inCalls, TableArrives(c)
  PROVE  AdminInv'
<1>1. /\ c.at = "done" /\ c.op \in Tables /\ inCalls' = inCalls \ {c}
      /\ UNCHANGED <<admitted, invites, tenants, past, joined>>
      /\ stale' = IF c.ok THEN stale ELSE stale \cup {c.op}
  BY DEF TableArrives, adminServer
<1>2. TableShows(c.op, c.list) \/ (~c.ok /\ UNCHANGED adminTables)
  BY DEF TableArrives
<1>3. ASSUME NEW t \in Tables
      PROVE  /\ t # c.op => Rows(t)' = Rows(t)
             /\ t = c.op /\ c.ok => Rows(t)' = c.list
  BY <1>1, <1>2, <1>3 DEF TableShows, Rows, Tables, adminTables
<1>4. AdminTypes'
  <2>1. inviteRows' \subseteq Invite /\ tenantRows' \subseteq TenantTable
    BY <1>2 DEF AdminInv, AdminTypes, TableShows, adminTables
  <2>2. stale' \subseteq Tables
    BY <1>1 DEF AdminInv, AdminTypes
  <2> QED BY <1>1, <2>1, <2>2 DEF AdminInv, AdminTypes, ServerTypes
<1>5. \A t \in Tables : SameRight(t)
  BY <1>1 DEF SameRight
<1>6. TableOf(c.op) = c.op
  BY <1>1 DEF TableOf, Tables
<1>7. ASSUME NEW t \in Tables PROVE TableInv(t)'
  <2> SUFFICES ASSUME t \notin stale'
               PROVE  /\ \A x, y \in Mine(inCalls)' : TableOf(x.op) = t /\ TableOf(y.op) = t => x = y
                      /\ \A x \in inCalls' : x.op = t /\ x.at = "done" /\ x.ok => Right(t, x.list)
                      /\ (\A x \in Mine(inCalls)' : TableOf(x.op) # t) => Right(t, Rows(t))'
    BY <1>5, RightStays DEF TableInv
  <2>1. TableInv(t) /\ t \notin stale
    BY <1>1 DEF AdminInv
  <2>2. Mine(inCalls)' = Mine(inCalls) \ {c}
    BY <1>1 DEF Mine
  <2>3. CASE t = c.op
    <3>1. c.ok /\ Right(t, c.list)
      BY <1>1, <2>1, <2>3 DEF TableInv
    <3>2. Right(t, c.list)'
      <4>1. \A list : Right(t, list) => Right(t, list)'
        BY <1>5, RightStays
      <4> QED BY <1>1, <3>1, <4>1 DEF Right, TenantList, ListOf, Is
    <3>3. Rows(t)' = c.list
      BY <1>3, <2>3, <3>1
    <3>4. Right(t, Rows(t))'
      BY <1>1, <3>1, <3>3 DEF Right, TenantList, ListOf, Is
    <3> QED BY <1>1, <2>1, <2>2, <3>4 DEF TableInv
  <2>4. CASE t # c.op
    <3>1. Rows(t)' = Rows(t)
      BY <1>3, <2>4
    <3>2. Right(t, Rows(t))' <=> Right(t, Rows(t))
      BY <1>5, <3>1, RightStays
    <3> QED BY <1>1, <1>6, <2>1, <2>2, <2>4, <3>2 DEF TableInv
  <2> QED BY <2>3, <2>4
<1> QED BY <1>4, <1>7 DEF AdminInv

(* Somebody claims: what comes or is taken is excused. *)
LEMMA ClaimedKeeps == ASSUME AdminInv, Claimed PROVE AdminInv'
<1>1. AdminTypes /\ ServerTypes
  BY DEF AdminInv, AdminTypes
<1>2. UNCHANGED <<admitted, inCalls, inviteRows, tenantRows, stale>>
  BY DEF Claimed, adminTables
<1>3. CASE /\ \E t \in Tenant :
                /\ tenants[t] = "new"
                /\ tenants' = [tenants EXCEPT ![t] = "active"]
                /\ past' = [past EXCEPT ![t] = @ \cup {"active"}]
                /\ joined' = joined \cup {t}
           /\ UNCHANGED invites
  <2>1. PICK t \in Tenant :
          /\ tenants[t] = "new" /\ tenants' = [tenants EXCEPT ![t] = "active"]
          /\ past' = [past EXCEPT ![t] = @ \cup {"active"}]
          /\ joined' = joined \cup {t} /\ invites' = invites
    BY <1>3
  <2>2. ServerTypes' /\ joined' \subseteq Tenant
    BY <1>1, <2>1 DEF ServerTypes, TenantStates, AdminTypes
  <2>3. AdminTypes'
    BY <1>1, <1>2, <2>2 DEF AdminTypes
  <2>4. {r \in TenantList' : r[1] \notin joined'} = {r \in TenantList : r[1] \notin joined}
    <3>1. \A u \in Tenant : u # t => tenants'[u] = tenants[u]
      BY <1>1, <2>1 DEF ServerTypes
    <3>2. tenants[t] \notin Known
      BY <2>1 DEF Known
    <3>3. ASSUME NEW r PROVE (r \in TenantList' /\ r[1] \notin joined')
                              <=> (r \in TenantList /\ r[1] \notin joined)
      <4>1. r \in TenantList' <=> \E u \in Tenant : tenants'[u] \in Known /\ r = <<u, tenants'[u]>>
        BY DEF TenantList, ListOf
      <4>2. r \in TenantList <=> \E u \in Tenant : tenants[u] \in Known /\ r = <<u, tenants[u]>>
        BY DEF TenantList, ListOf
      <4>3. ASSUME NEW u \in Tenant, tenants'[u] \in Known, r = <<u, tenants'[u]>>, r[1] \notin joined'
            PROVE  r \in TenantList /\ r[1] \notin joined
        BY <2>1, <3>1, <4>2, <4>3
      <4>4. ASSUME NEW u \in Tenant, tenants[u] \in Known, r = <<u, tenants[u]>>, r[1] \notin joined
            PROVE  r \in TenantList' /\ r[1] \notin joined'
        BY <2>1, <3>1, <3>2, <4>1, <4>4
      <4> QED BY <4>1, <4>2, <4>3, <4>4
    <3> QED BY <3>3
  <2>5. Is("open")' = Is("open") /\ Is("claimed")' = Is("claimed")
    BY <2>1 DEF Is
  <2>6. \A u, list : Right(u, list) => Right(u, list)'
    BY <2>4, <2>5 DEF Right
  <2>7. \A u : Right(u, Rows(u)) => Right(u, Rows(u))'
    BY <1>2, <2>4, <2>5 DEF Right, Rows
  <2> QED BY <1>2, <2>3, <2>6, <2>7 DEF AdminInv, TableInv, Mine
<1>4. CASE /\ \E i \in Is("open") : invites' = [invites EXCEPT ![i] = "claimed"]
           /\ UNCHANGED <<tenants, past, joined>>
  <2>1. PICK i \in Is("open") : invites' = [invites EXCEPT ![i] = "claimed"]
    BY <1>4
  <2>2. ServerTypes'
    BY <1>1, <1>4, <2>1 DEF ServerTypes, InviteStates
  <2>3. AdminTypes'
    BY <1>1, <1>2, <1>4, <2>2 DEF AdminTypes
  <2>4. /\ Is("open")' \subseteq Is("open")
        /\ Is("open")' \cup Is("claimed")' = Is("open") \cup Is("claimed")
    BY <1>1, <2>1 DEF ServerTypes, Is
  <2>5. \A t, list : Right(t, list) => Right(t, list)'
    BY <1>4, <2>4 DEF Right, TenantList, ListOf
  <2>6. \A t : Right(t, Rows(t)) => Right(t, Rows(t))'
    BY <1>2, <1>4, <2>4 DEF Right, TenantList, ListOf, Rows
  <2> QED BY <1>2, <2>3, <2>5, <2>6 DEF AdminInv, TableInv, Mine
<1> QED BY <1>3, <1>4 DEF Claimed

\* Every step of the admin page keeps its invariant.
LEMMA AdminInvStep == AdminInv /\ [AdminNext]_adminVars => AdminInv'
<1> SUFFICES ASSUME AdminInv, [AdminNext]_adminVars PROVE AdminInv'
  OBVIOUS
<1>1. AdminTypes /\ ServerTypes /\ Is("new") \subseteq Invite
  BY DEF AdminInv, AdminTypes, Is
<1>2. CASE Click
  <2>1. ASSUME NEW op, NEW arg, AuthFetch(op, arg, inCalls),
               op \in Ops /\ arg \in Invite \cup Tenant \cup {None}
        PROVE  AdminInv'
    BY <1>2, <2>1, AuthFetchKeeps DEF Click
  <2>2. ASSUME NEW op \in Tables, AuthFetch(op, None, inCalls) PROVE AdminInv'
    BY <2>1, <2>2 DEF Tables, Ops
  <2>3. ASSUME NEW i \in Is("new"), AuthFetch("create", i, inCalls) PROVE AdminInv'
    BY <1>1, <2>1, <2>3 DEF Ops
  <2>4. ASSUME NEW i \in inviteRows, AuthFetch("revoke", i, inCalls) PROVE AdminInv'
    BY <1>1, <2>1, <2>4 DEF Ops, AdminTypes
  <2>5. ASSUME NEW r \in tenantRows, NEW op \in {"regen", "delete", "suspend", "unsuspend"},
               AuthFetch(op, r[1], inCalls)
        PROVE  AdminInv'
    <3>1. r[1] \in Tenant
      BY <1>1 DEF AdminTypes, TenantTable
    <3> QED BY <2>1, <2>5, <3>1 DEF Ops
  <2> QED BY <1>2, <2>2, <2>3, <2>4, <2>5 DEF Click
<1>3. ASSUME NEW c \in inCalls, Acted(c) PROVE AdminInv'
  <2>1. CASE c.ok \/ c.op \notin {"create", "regen"}
    <3>1. /\ AuthFetch(TableOf(c.op), None, inCalls \ {c})
          /\ UNCHANGED <<admitted, adminServer, joined, adminTables>>
      BY <1>3, <2>1 DEF Acted
    <3>2. TableOf(c.op) \in Ops /\ TableOf(TableOf(c.op)) = TableOf(c.op)
      BY DEF TableOf, Ops
    <3> QED BY <3>1, <3>2, AuthFetchKeeps
  <2>2. CASE ~(c.ok \/ c.op \notin {"create", "regen"})
    BY <1>3, <2>2, CallLeaves DEF Acted
  <2> QED BY <2>1, <2>2
<1>4. ASSUME NEW c \in inCalls, CallDropped(c) PROVE AdminInv'
  BY <1>4, CallLeaves DEF CallDropped
<1>5. ASSUME NEW c \in inCalls, DoneLate(c) PROVE AdminInv'
  BY <1>5, CallLeaves DEF DoneLate
<1>6. CASE RotateAdmin
  <2>1. UNCHANGED <<invites, tenants, past, joined, inCalls, inviteRows, tenantRows, stale>>
    BY <1>6 DEF RotateAdmin, adminServer, adminTables
  <2>2. admitted' \in BOOLEAN
    BY <1>6 DEF RotateAdmin
  <2> QED BY <2>1, <2>2 DEF AdminInv, AdminTypes, ServerTypes, TableInv, Right, Rows, TenantList,
                            ListOf, Is, Mine
<1>7. CASE OpenAdmin
  <2>1. /\ admitted' \in BOOLEAN /\ stale' = {} /\ inviteRows' = {} /\ tenantRows' = {}
        /\ UNCHANGED <<invites, tenants, past, joined>> /\ Mine(inCalls) = {}
    BY <1>7 DEF OpenAdmin, adminServer
  <2>2. PICK i \in 1 .. MaxCalls, j \in 1 .. MaxCalls :
          /\ i < j /\ \A c \in inCalls : c.id \notin {i, j}
          /\ inCalls' = inCalls \cup PageLoad(i, j)
    BY <1>7 DEF OpenAdmin
  <2>3. ServerTypes' /\ i # j
    BY <1>1, <2>1, <2>2, AdminPageAssumption DEF ServerTypes
  <2>4. PICK old : old = inCalls
    OBVIOUS
  <2>5. /\ old \in SUBSET InCallType /\ \A c, d \in old : c.id = d.id => c = d
        /\ \A c \in old : c.at = "adrift" /\ c.id \notin {i, j}
        /\ \A c \in old : /\ c.op = "invites" => c.list \subseteq Invite
                          /\ c.op = "tenants" => c.list \subseteq TenantTable
    BY <1>1, <2>1, <2>2, <2>4 DEF AdminTypes, Mine
  <2>6. joined' \subseteq Tenant
    BY <1>1, <2>1 DEF AdminTypes
  <2>7. Opened'
    BY <2>1, <2>2, <2>3, <2>4, <2>5, <2>6 DEF Opened
  <2> QED BY <2>7, LoadedAnew, PTL
<1>8. CASE UNCHANGED adminVars
  BY <1>8 DEF adminVars, adminServer, adminTables, AdminInv, AdminTypes, ServerTypes, TableInv,
              Right, Rows, TenantList, ListOf, Is, Mine
<1>9. ASSUME NEW c \in inCalls, Handled(c) \/ Failed(c) \/ TableArrives(c) PROVE AdminInv'
  BY <1>9, HandledKeeps, FailedKeeps, ArrivalKeeps
<1>10. CASE Claimed
  BY <1>10, ClaimedKeeps
<1> QED BY <1>2, <1>3, <1>4, <1>5, <1>6, <1>7, <1>8, <1>9, <1>10, Zenon DEF AdminNext
-----------------------------------------------------------------------------
(* The envelope: base64. *)
Byte == 0 .. 255

\* The number that three bytes, and that four digits, stand for.
OfBytes(a, b, c) == 65536 * a + 256 * b + c
OfDigits(d0, d1, d2, d3) == 262144 * d0 + 4096 * d1 + 64 * d2 + d3

\* The digit, and the byte, of a group that has weight w.
DigitOf(G, w) == (G \div w) % 64
ByteOf(G, w) == (G \div w) % 256

\* The d-th digit, from 0, of the q-th group.
DigitAt(data, q, d) == DigitOf(ByteGroup(data, q), DigitWeight[d + 1])

(* A group of three bytes is taken apart into four digits, and back. *)
LEMMA GroupOfDigits ==
  ASSUME NEW a \in Byte, NEW b \in Byte, NEW c \in Byte, NEW G, G = 65536 * a + 256 * b + c
  PROVE  /\ DigitOf(G, 262144) \in 0 .. 63 /\ DigitOf(G, 4096) \in 0 .. 63
         /\ DigitOf(G, 64) \in 0 .. 63 /\ DigitOf(G, 1) \in 0 .. 63
         /\ G = 262144 * DigitOf(G, 262144) + 4096 * DigitOf(G, 4096) + 64 * DigitOf(G, 64)
                + DigitOf(G, 1)
         /\ c = 0 => DigitOf(G, 1) = 0
         /\ b = 0 /\ c = 0 => DigitOf(G, 64) = 0
<1>1. PICK a1 \in 0 .. 63, a0 \in 0 .. 3 : a = 4 * a1 + a0
  <2>1. a \div 4 \in 0 .. 63 /\ a % 4 \in 0 .. 3 /\ a = 4 * (a \div 4) + (a % 4)
    BY DEF Byte
  <2> QED BY <2>1
<1>2. PICK b1 \in 0 .. 15, b0 \in 0 .. 15 : b = 16 * b1 + b0
  <2>1. b \div 16 \in 0 .. 15 /\ b % 16 \in 0 .. 15 /\ b = 16 * (b \div 16) + (b % 16)
    BY DEF Byte
  <2> QED BY <2>1
<1>3. PICK c1 \in 0 .. 3, c0 \in 0 .. 63 : c = 64 * c1 + c0
  <2>1. c \div 64 \in 0 .. 3 /\ c % 64 \in 0 .. 63 /\ c = 64 * (c \div 64) + (c % 64)
    BY DEF Byte
  <2> QED BY <2>1
<1>4. 16 * a0 + b1 \in 0 .. 63 /\ 4 * b0 + c1 \in 0 .. 63
  OBVIOUS
<1>a. PICK d1 \in 0 .. 63 : d1 = 16 * a0 + b1
  BY <1>4
<1>b. PICK d2 \in 0 .. 63 : d2 = 4 * b0 + c1
  BY <1>4
<1>c. PICK d0 \in 0 .. 63, d3 \in 0 .. 63 : d0 = a1 /\ d3 = c0
  OBVIOUS
<1>5. G = 262144 * d0 + 4096 * d1 + 64 * d2 + d3 /\ G \in Nat
  BY <1>1, <1>2, <1>3, <1>a, <1>b, <1>c
<1>6. G \div 262144 = d0 /\ d0 % 64 = d0
  BY <1>5
<1>7. G \div 4096 = 64 * d0 + d1 /\ (64 * d0 + d1) % 64 = d1
  BY <1>5
<1>8. G \div 64 = 64 * (64 * d0 + d1) + d2 /\ (64 * (64 * d0 + d1) + d2) % 64 = d2
  BY <1>5
<1>9. G \div 1 = G /\ G = 64 * (4096 * d0 + 64 * d1 + d2) + d3 /\ G % 64 = d3
  BY <1>5
<1>10. (c = 0 => d3 = 0) /\ (b = 0 /\ c = 0 => d2 = 0)
  BY <1>2, <1>3, <1>a, <1>b, <1>c
<1>11. DigitOf(G, 262144) = d0
  BY <1>6 DEF DigitOf
<1>12. DigitOf(G, 4096) = d1
  BY <1>7 DEF DigitOf
<1>13. DigitOf(G, 64) = d2
  BY <1>8 DEF DigitOf
<1>14. DigitOf(G, 1) = d3
  BY <1>9 DEF DigitOf
<1> QED BY <1>5, <1>10, <1>11, <1>12, <1>13, <1>14

\* Three bytes can be read back from their group of 24 bits.
LEMMA GroupOfBytes ==
  ASSUME NEW a \in Byte, NEW b \in Byte, NEW c \in Byte, NEW G, G = 65536 * a + 256 * b + c
  PROVE  ByteOf(G, 65536) = a /\ ByteOf(G, 256) = b /\ ByteOf(G, 1) = c
<1>1. G \in Nat /\ a \in 0 .. 255 /\ b \in 0 .. 255 /\ c \in 0 .. 255
  BY DEF Byte
<1>2. G \div 65536 = a /\ a % 256 = a
  BY <1>1
<1>3. G \div 256 = 256 * a + b /\ (256 * a + b) % 256 = b
  BY <1>1
<1>4. G \div 1 = G /\ G = 256 * (256 * a + b) + c /\ G % 256 = c
  BY <1>1
<1> QED BY <1>2, <1>3, <1>4 DEF ByteOf

(* Places in the code are counted by groups of four, in the data by groups of three. *)
LEMMA Quarters ==
  ASSUME NEW q \in Nat, NEW d \in 0 .. 3
  PROVE  ((4 * q + d + 1) - 1) \div 4 = q /\ ((4 * q + d + 1) - 1) % 4 = d
  OBVIOUS

\* A length that is not zero is some whole groups of three and a last one of one to three.
LEMMA Thirds ==
  ASSUME NEW n \in Nat, NEW m, m = (n + 2) \div 3
  PROVE  /\ m \in Nat /\ (n = 0 => m = 0) /\ (4 * m) \div 4 = m
         /\ n # 0 => \E r \in 1 .. 3 : m # 0 /\ n = 3 * (m - 1) + r
<1>1. m \in Nat /\ 3 * m <= n + 2 /\ n + 2 < 3 * m + 3
  OBVIOUS
<1>2. (4 * m) \div 4 = m
  BY <1>1
<1>3. n # 0 => n - 3 * (m - 1) \in 1 .. 3
  BY <1>1
<1> QED BY <1>1, <1>2, <1>3

(* The code of a string: where its digits come from, and how many are padding. *)
LEMMA CodeOf ==
  ASSUME NEW data \in Seq(Byte), NEW m, m = (Len(data) + 2) \div 3
  PROVE  LET code == B64Encode(data) IN
         /\ DOMAIN code = 1 .. 4 * m /\ Len(code) = 4 * m
         /\ \A q \in Nat, d \in 0 .. 3 : 4 * q + d + 1 <= 4 * m =>
               code[4 * q + d + 1] = IF 3 * q + d > Len(data) THEN Pad
                                     ELSE DigitAt(data, q, d)
<1> DEFINE code == B64Encode(data)
<1>1. Len(data) \in Nat /\ m \in Nat /\ 4 * m \in Nat
  <2>1. Len(data) \in Nat
    BY LenProperties
  <2> QED BY <2>1, Thirds
<1>2. code = [p \in 1 .. 4 * m |->
                IF 3 * ((p - 1) \div 4) + ((p - 1) % 4) > Len(data) THEN Pad
                ELSE (ByteGroup(data, (p - 1) \div 4) \div DigitWeight[((p - 1) % 4) + 1]) % 64]
  BY DEF B64Encode
<1>3. DOMAIN code = 1 .. 4 * m
  BY <1>2
<1> HIDE DEF code
<1>4. PICK S : S = {code[p] : p \in 1 .. 4 * m}
  OBVIOUS
<1>5. Len(code) = 4 * m
  <2>1. code \in [1 .. 4 * m -> S]
    BY <1>2, <1>3, <1>4
  <2>2. code \in Seq(S)
    BY <1>1, <2>1, SeqDef
  <2>3. Len(code) \in Nat /\ 1 .. Len(code) = 1 .. 4 * m
    BY <1>3, <2>2, LenProperties
  <2> QED BY <1>1, <2>3
<1>6. ASSUME NEW q \in Nat, NEW d \in 0 .. 3, 4 * q + d + 1 <= 4 * m
      PROVE  code[4 * q + d + 1] = IF 3 * q + d > Len(data) THEN Pad
                                   ELSE DigitAt(data, q, d)
  <2>1. PICK p \in 1 .. 4 * m : p = 4 * q + d + 1 /\ (p - 1) \div 4 = q /\ (p - 1) % 4 = d
    BY <1>6, Quarters
  <2> QED BY <1>2, <2>1 DEF DigitOf, DigitAt
<1> QED BY <1>3, <1>5, <1>6 DEF code

\* The i-th byte, zero after the end.
ByteAt(data, i) == IF i <= Len(data) THEN data[i] ELSE 0

\* A group is made of bytes, also past the end.
LEMMA BytesOfGroup ==
  ASSUME NEW data \in Seq(Byte), NEW q \in Nat
  PROVE  /\ \A i \in Nat \ {0} : ByteAt(data, i) \in Byte
         /\ ByteAt(data, 3 * q + 1) \in Byte /\ ByteAt(data, 3 * q + 2) \in Byte
         /\ ByteAt(data, 3 * q + 3) \in Byte
         /\ ByteGroup(data, q) = OfBytes(ByteAt(data, 3 * q + 1), ByteAt(data, 3 * q + 2), ByteAt(data, 3 * q + 3))
<1>1. ASSUME NEW i \in Nat \ {0} PROVE ByteAt(data, i) \in Byte
  <2>1. Len(data) \in Nat /\ data \in [1 .. Len(data) -> Byte]
    BY LenProperties
  <2>2. CASE i <= Len(data)
    <3>1. i \in 1 .. Len(data)
      BY <2>1, <2>2
    <3> QED BY <2>1, <2>2, <3>1 DEF ByteAt
  <2>3. CASE ~(i <= Len(data))
    BY <2>3 DEF ByteAt, Byte
  <2> QED BY <2>2, <2>3
<1>2. 3 * q + 1 \in Nat \ {0} /\ 3 * q + 2 \in Nat \ {0} /\ 3 * q + 3 \in Nat \ {0}
  OBVIOUS
<1>3. /\ ByteAt(data, 3 * q + 1) \in Byte /\ ByteAt(data, 3 * q + 2) \in Byte
      /\ ByteAt(data, 3 * q + 3) \in Byte
  BY <1>1, <1>2
<1>4. ByteGroup(data, q) = OfBytes(ByteAt(data, 3 * q + 1), ByteAt(data, 3 * q + 2), ByteAt(data, 3 * q + 3))
  BY SMT DEF ByteGroup, ByteAt, OfBytes
<1> QED BY <1>1, <1>3, <1>4

(* A digit is no padding, and what is padded would be zero. *)
LEMMA DigitsOf ==
  ASSUME NEW data \in Seq(Byte), NEW q \in Nat
  PROVE  /\ \A d \in 0 .. 3 : DigitAt(data, q, d) \in 0 .. 63
         /\ ByteGroup(data, q) = OfDigits(DigitAt(data, q, 0), DigitAt(data, q, 1),
                                      DigitAt(data, q, 2), DigitAt(data, q, 3))
         /\ 3 * q + 3 > Len(data) => DigitAt(data, q, 3) = 0
         /\ 3 * q + 2 > Len(data) => DigitAt(data, q, 2) = 0
<1>a. PICK a \in Byte : a = ByteAt(data, 3 * q + 1)
  BY BytesOfGroup
<1>b. PICK b \in Byte : b = ByteAt(data, 3 * q + 2)
  BY BytesOfGroup
<1>c. PICK c \in Byte : c = ByteAt(data, 3 * q + 3)
  BY BytesOfGroup
<1>1. /\ b = ByteAt(data, 3 * q + 2) /\ c = ByteAt(data, 3 * q + 3)
      /\ ByteGroup(data, q) = OfBytes(a, b, c)
  BY <1>a, <1>b, <1>c, BytesOfGroup
<1>2. Len(data) \in Nat
  BY LenProperties
<1>3. (3 * q + 3 > Len(data) => c = 0) /\ (3 * q + 2 > Len(data) => b = 0 /\ c = 0)
  BY <1>1, <1>2 DEF ByteAt
<1>5. PICK G : G = ByteGroup(data, q)
  OBVIOUS
<1>6. PICK d0 : d0 = DigitOf(G, 262144)
  OBVIOUS
<1>7. PICK d1 : d1 = DigitOf(G, 4096)
  OBVIOUS
<1>8. PICK d2 : d2 = DigitOf(G, 64)
  OBVIOUS
<1>9. PICK d3 : d3 = DigitOf(G, 1)
  OBVIOUS
<1>10. /\ DigitAt(data, q, 0) = d0 /\ DigitAt(data, q, 1) = d1
       /\ DigitAt(data, q, 2) = d2 /\ DigitAt(data, q, 3) = d3
  <2>1. /\ DigitWeight[0 + 1] = 262144 /\ DigitWeight[1 + 1] = 4096
        /\ DigitWeight[2 + 1] = 64 /\ DigitWeight[3 + 1] = 1
    BY SMT DEF DigitWeight
  <2> QED BY <1>5, <1>6, <1>7, <1>8, <1>9, <2>1, SMT DEF DigitAt
<1>11. /\ d0 \in 0 .. 63 /\ d1 \in 0 .. 63 /\ d2 \in 0 .. 63 /\ d3 \in 0 .. 63
       /\ G = OfDigits(d0, d1, d2, d3)
       /\ c = 0 => d3 = 0
       /\ b = 0 /\ c = 0 => d2 = 0
  <2>1. G = 65536 * a + 256 * b + c
    BY <1>1, <1>5, SMT DEF OfBytes
  <2> QED BY <1>6, <1>7, <1>8, <1>9, <2>1, GroupOfDigits, SMTT(30) DEF OfDigits
<1>12. ASSUME NEW d \in 0 .. 3 PROVE DigitAt(data, q, d) \in 0 .. 63
  <2>1. d = 0 \/ d = 1 \/ d = 2 \/ d = 3
    OBVIOUS
  <2> QED BY <1>10, <1>11, <2>1
<1>13. ByteGroup(data, q) = OfDigits(DigitAt(data, q, 0), DigitAt(data, q, 1),
                                     DigitAt(data, q, 2), DigitAt(data, q, 3))
  BY <1>5, <1>10, <1>11
<1>14. /\ 3 * q + 3 > Len(data) => DigitAt(data, q, 3) = 0
       /\ 3 * q + 2 > Len(data) => DigitAt(data, q, 2) = 0
  BY <1>3, <1>10, <1>11
<1> QED BY <1>12, <1>13, <1>14

\* A digit of a group is one of 64, and not the padding.
LEMMA DigitRange ==
  ASSUME NEW data \in Seq(Byte), NEW q \in Nat, NEW d \in 0 .. 3
  PROVE  DigitAt(data, q, d) \in 0 .. 63 /\ DigitAt(data, q, d) # Pad
<1>1. PICK x : x = DigitAt(data, q, d)
  OBVIOUS
<1>2. x \in 0 .. 63
  BY <1>1, DigitsOf
<1>3. x # Pad
  BY <1>2 DEF Pad
<1> QED BY <1>1, <1>2, <1>3, Zenon

(* Where the padding is: only at the end, three less the bytes of the last group. *)
LEMMA Padding ==
  ASSUME NEW data \in Seq(Byte), NEW m, m = (Len(data) + 2) \div 3
  PROVE  LET code == B64Encode(data) IN
         3 * m - Cardinality({p \in DOMAIN code : code[p] = Pad}) = Len(data)
<1> DEFINE code == B64Encode(data)
<1>1. PICK n \in Nat : n = Len(data)
  BY LenProperties
<1>2. m \in Nat /\ (n = 0 => m = 0) /\ (n # 0 => \E r \in 1 .. 3 : m # 0 /\ n = 3 * (m - 1) + r)
  BY <1>1, Thirds
<1>3. PICK P : P = {p \in DOMAIN code : code[p] = Pad}
  OBVIOUS
<1>4. DOMAIN code = 1 .. 4 * m
  BY CodeOf
<1>5. ASSUME NEW q \in Nat, NEW d \in 0 .. 3, 4 * q + d + 1 <= 4 * m
      PROVE  code[4 * q + d + 1] = Pad <=> 3 * q + d > n
  <2>1. DigitAt(data, q, d) # Pad
    BY DigitRange
  <2> QED BY <1>1, <1>5, <2>1, CodeOf
<1> HIDE DEF code
<1>6. CASE n = 0
  <2>1. P = {} /\ m = 0
    BY <1>2, <1>3, <1>4, <1>6
  <2>2. Cardinality(P) = 0
    BY <2>1, FS_EmptySet
  <2>3. 3 * m - Cardinality(P) = Len(data)
    BY <1>1, <1>6, <2>1, <2>2
  <2> QED BY <1>3, <2>3, Zenon DEF code
<1>7. CASE n # 0
  <2>1. PICK r \in 1 .. 3 : m # 0 /\ n = 3 * (m - 1) + r
    BY <1>2, <1>7
  <2>2. ASSUME NEW p \in 1 .. 4 * m PROVE code[p] = Pad <=> p > 4 * m - 3 + r
    <3>1. PICK q \in Nat, d \in 0 .. 3 : p = 4 * q + d + 1
      <4>1. (p - 1) \div 4 \in Nat /\ (p - 1) % 4 \in 0 .. 3 /\ p = 4 * ((p - 1) \div 4) + ((p - 1) % 4) + 1
        OBVIOUS
      <4> QED BY <4>1
    <3>2. code[p] = Pad <=> 3 * q + d > n
      BY <1>5, <3>1
    <3>3. q <= m - 1
      BY <1>2, <3>1
    <3>4. 3 * q + d > n <=> p > 4 * m - 3 + r
      <4>1. CASE q = m - 1
        BY <1>2, <2>1, <3>1, <4>1
      <4>2. CASE q < m - 1
        BY <1>2, <2>1, <3>1, <4>2
      <4> QED BY <1>2, <3>3, <4>1, <4>2
    <3> QED BY <3>2, <3>4
  <2>a. PICK a \in Nat : a = 4 * m - 2 + r
    BY <1>2, <2>1
  <2>b. PICK b \in Nat : b = 4 * m
    BY <1>2
  <2>3. a = 4 * m - 2 + r /\ b = 4 * m
    BY <2>a, <2>b
  <2>4. P = a .. b
    BY <1>2, <1>3, <1>4, <2>1, <2>2, <2>3
  <2>5. Cardinality(P) = IF a > b THEN 0 ELSE b - a + 1
    BY <2>4, FS_Interval
  <2>6. Cardinality(P) = 3 - r
    BY <1>2, <2>1, <2>3, <2>5
  <2>7. 3 * m - (3 - r) = n
    BY <1>2, <2>1
  <2> QED BY <1>1, <1>3, <2>6, <2>7 DEF code
<1> QED BY <1>6, <1>7

(* What b64encode makes of any bytes, atob turns back into them. *)
THEOREM Base64RoundTrip ==
  ASSUME NEW data \in Seq(0 .. 255)
  PROVE  Atob(B64Encode(data)) = data
<1>0. data \in Seq(Byte)
  BY DEF Byte
<1> DEFINE code == B64Encode(data)
<1>1. PICK n \in Nat : n = Len(data) /\ data \in [1 .. n -> Byte]
  BY <1>0, LenProperties
<1>2. PICK m \in Nat :
        /\ m = (Len(data) + 2) \div 3 /\ (4 * m) \div 4 = m
        /\ n # 0 => \E r \in 1 .. 3 : m # 0 /\ n = 3 * (m - 1) + r
  BY <1>1, Thirds
<1>3. /\ Len(code) = 4 * m
      /\ \A q \in Nat, d \in 0 .. 3 : 4 * q + d + 1 <= 4 * m =>
               code[4 * q + d + 1] = IF 3 * q + d > Len(data) THEN Pad
                                     ELSE DigitAt(data, q, d)
  BY <1>0, <1>2, CodeOf
<1>4. 3 * m - Cardinality({p \in DOMAIN code : code[p] = Pad}) = n
  BY <1>0, <1>1, <1>2, Padding
<1> HIDE DEF code
<1>5. Atob(code) = [i \in 1 .. n |-> ByteOf(DigitGroup(code, (i - 1) \div 3), ByteWeight[((i - 1) % 3) + 1])]
  BY <1>2, <1>3, <1>4 DEF Atob, ByteOf
<1>6. ASSUME NEW q \in Nat, 3 * q + 1 <= n PROVE DigitGroup(code, q) = ByteGroup(data, q)
  <2>1. q <= m - 1
    BY <1>2, <1>6
  <2>a. PICK D0 \in 0 .. 63 : D0 = DigitAt(data, q, 0)
    BY <1>0, DigitRange, 0 \in 0 .. 3
  <2>b. PICK D1 \in 0 .. 63 : D1 = DigitAt(data, q, 1)
    BY <1>0, DigitRange, 1 \in 0 .. 3
  <2>c. PICK D2 \in 0 .. 63 : D2 = DigitAt(data, q, 2)
    BY <1>0, DigitRange, 2 \in 0 .. 3
  <2>d. PICK D3 \in 0 .. 63 : D3 = DigitAt(data, q, 3)
    BY <1>0, DigitRange, 3 \in 0 .. 3
  <2>2. /\ ByteGroup(data, q) = OfDigits(D0, D1, D2, D3)
        /\ 3 * q + 3 > n => D3 = 0
        /\ 3 * q + 2 > n => D2 = 0
    BY <1>0, <1>1, <2>a, <2>b, <2>c, <2>d, DigitsOf
  <2>3. code[4 * q + 1] = D0
    <3>1. 4 * q + 0 + 1 <= 4 * m /\ 0 \in 0 .. 3 /\ 4 * q + 0 + 1 = 4 * q + 1 /\ ~(3 * q + 0 > n)
      BY <1>6, <2>1
    <3> QED BY <1>1, <1>3, <2>a, <2>b, <2>c, <2>d, <3>1
  <2>4. code[4 * q + 2] = D1
    <3>1. 4 * q + 1 + 1 <= 4 * m /\ 1 \in 0 .. 3 /\ 4 * q + 1 + 1 = 4 * q + 2 /\ ~(3 * q + 1 > n)
      BY <1>6, <2>1
    <3> QED BY <1>1, <1>3, <2>a, <2>b, <2>c, <2>d, <3>1
  <2>5. code[4 * q + 3] = IF 3 * q + 2 > n THEN Pad ELSE D2
    <3>1. 4 * q + 2 + 1 <= 4 * m /\ 2 \in 0 .. 3 /\ 4 * q + 2 + 1 = 4 * q + 3
      BY <2>1
    <3> QED BY <1>1, <1>3, <2>a, <2>b, <2>c, <2>d, <3>1
  <2>6. code[4 * q + 4] = IF 3 * q + 3 > n THEN Pad ELSE D3
    <3>1. 4 * q + 3 + 1 <= 4 * m /\ 3 \in 0 .. 3 /\ 4 * q + 3 + 1 = 4 * q + 4
      BY <2>1
    <3> QED BY <1>1, <1>3, <2>a, <2>b, <2>c, <2>d, <3>1
  <2>7. Pad \notin 0 .. 63
    BY DEF Pad
  <2>8. D0 # Pad /\ D1 # Pad /\ D2 # Pad /\ D3 # Pad
    BY <2>7, Zenon
  <2>9. PICK e0 \in 0 .. 63 : e0 = IF code[4 * q + 1] = Pad THEN 0 ELSE code[4 * q + 1]
    BY <2>3, <2>8
  <2>10. PICK e1 \in 0 .. 63 : e1 = IF code[4 * q + 2] = Pad THEN 0 ELSE code[4 * q + 2]
    BY <2>4, <2>8
  <2>11. PICK e2 \in 0 .. 63 : e2 = IF code[4 * q + 3] = Pad THEN 0 ELSE code[4 * q + 3]
    BY <2>5, <2>8
  <2>12. PICK e3 \in 0 .. 63 : e3 = IF code[4 * q + 4] = Pad THEN 0 ELSE code[4 * q + 4]
    BY <2>6, <2>8
  <2>13. e0 = D0 /\ e1 = D1 /\ e2 = D2 /\ e3 = D3
    <3>1. e0 = D0
      BY <2>3, <2>8, <2>9, Zenon
    <3>2. e1 = D1
      BY <2>4, <2>8, <2>10, Zenon
    <3>3. e2 = D2
      BY <1>1, <1>6, <2>2, <2>5, <2>8, <2>11
    <3>4. e3 = D3
      BY <1>1, <1>6, <2>2, <2>6, <2>8, <2>12
    <3> QED BY <3>1, <3>2, <3>3, <3>4
  <2>14. DigitGroup(code, q) = OfDigits(e0, e1, e2, e3)
    BY <2>9, <2>10, <2>11, <2>12, SMT DEF DigitGroup, OfDigits
  <2> QED BY <2>2, <2>13, <2>14, Zenon
<1>7. ASSUME NEW i \in 1 .. n
      PROVE  ByteOf(DigitGroup(code, (i - 1) \div 3), ByteWeight[((i - 1) % 3) + 1]) = data[i]
  <2>1. PICK q \in Nat, e \in 0 .. 2 : (i - 1) \div 3 = q /\ (i - 1) % 3 = e /\ i = 3 * q + e + 1
    <3>1. (i - 1) \div 3 \in Nat /\ (i - 1) % 3 \in 0 .. 2 /\ i = 3 * ((i - 1) \div 3) + ((i - 1) % 3) + 1
      OBVIOUS
    <3> QED BY <3>1
  <2>2. DigitGroup(code, q) = ByteGroup(data, q)
    BY <1>6, <2>1
  <2>a. PICK a \in Byte : a = ByteAt(data, 3 * q + 1)
    BY <1>0, BytesOfGroup
  <2>b. PICK b \in Byte : b = ByteAt(data, 3 * q + 2)
    BY <1>0, BytesOfGroup
  <2>c. PICK c \in Byte : c = ByteAt(data, 3 * q + 3)
    BY <1>0, BytesOfGroup
  <2>3. /\ a = ByteAt(data, 3 * q + 1) /\ b = ByteAt(data, 3 * q + 2) /\ c = ByteAt(data, 3 * q + 3)
        /\ ByteGroup(data, q) = OfBytes(a, b, c)
    BY <1>0, <2>a, <2>b, <2>c, BytesOfGroup
  <2>4. PICK G : G = ByteGroup(data, q) /\ ByteOf(G, 65536) = a /\ ByteOf(G, 256) = b /\ ByteOf(G, 1) = c
    BY <2>3, GroupOfBytes, SMT DEF OfBytes
  <2>5. PICK w : w = ByteWeight[e + 1]
    OBVIOUS
  <2>11. (e = 0 => w = 65536) /\ (e = 1 => w = 256) /\ (e = 2 => w = 1)
    BY <2>5, SMT DEF ByteWeight
  <2>6. ByteAt(data, i) = data[i]
    BY <1>1 DEF ByteAt
  <2>12. ByteOf(G, w) = ByteAt(data, i)
    <3>1. e = 0 => i = 3 * q + 1 /\ ByteOf(G, w) = a
      BY <2>1, <2>4, <2>11, SMT
    <3>2. e = 1 => i = 3 * q + 2 /\ ByteOf(G, w) = b
      BY <2>1, <2>4, <2>11, SMT
    <3>3. e = 2 => i = 3 * q + 3 /\ ByteOf(G, w) = c
      BY <2>1, <2>4, <2>11, SMT
    <3>4. e = 0 \/ e = 1 \/ e = 2
      BY <2>1, SMT
    <3> QED BY <2>3, <3>1, <3>2, <3>3, <3>4, Zenon
  <2>13. PICK g : g = DigitGroup(code, q)
    OBVIOUS
  <2>14. g = G
    BY <2>2, <2>4, <2>13, SMT
  <2>15. DigitGroup(code, (i - 1) \div 3) = g /\ ByteWeight[((i - 1) % 3) + 1] = w
    BY <2>1, <2>5, <2>13, SMT
  <2> QED BY <2>6, <2>12, <2>14, <2>15, SMT
<1>8. [i \in 1 .. n |-> ByteOf(DigitGroup(code, (i - 1) \div 3), ByteWeight[((i - 1) % 3) + 1])]
        = [i \in 1 .. n |-> data[i]]
  BY <1>7
<1>9. data = [i \in 1 .. n |-> data[i]]
  BY <1>1
<1> QED BY <1>5, <1>8, <1>9 DEF code
-----------------------------------------------------------------------------
(* API calls through the app. *)
\* What a caller may be told, and what a key may hold, once n writes are stored.
Reply(n) == [status : Nat, rev : 0 .. n, body : Seq(0 .. 255)]
Cell(n) ==
    [rev : 0 .. n, by : {None} \cup {CallerBearer(r) : r \in Request}, body : Seq(0 .. 255),
     ttl : BOOLEAN, del : BOOLEAN]

\* A call under way has its request, and the adapter gets what CallNats makes of it.
CallInv(k, n) ==
    /\ k \in [at : {"idle", "app", "nats", "store", "served", "done"},
              req : Request \cup {Nothing}, cookie : Token \cup {None},
              up : {CallNats(r) : r \in Request} \cup {Nothing}, env : Reply(n), told : Reply(n)]
    /\ k.at \in {"app", "nats", "store"} => k.req \in Request /\ k.told = Nothing
    /\ k.at = "nats" => k.req.path = "/api/nats" /\ k.up = CallNats(k.req)
    /\ k.at = "store" => k.req.path = "/api/cosmos"

ApiInv ==
    /\ last \in 0 .. MaxRev
    /\ cells \in [Item -> Cell(last)]
    /\ cosmos \in [Item -> Seq(0 .. 255)]
    /\ calls = [c \in Client |-> calls[c]]
    /\ \A c \in Client : CallInv(calls[c], last)
    /\ orphans \in [Orphan -> Request \cup {Nothing}]
    /\ uiGate \in Token /\ jars \in [Client -> Token \cup {None}]
-----------------------------------------------------------------------------
RequestType ==
    [path : {"/api/nats", "/api/cosmos"}, access : Token \cup {None},
     key : {r.key : r \in Request}, method : {"GET", "PUT", "DELETE"}, item : Item,
     body : Seq(0 .. 255), ifMatch : Nat, ifNone : BOOLEAN, ttlQuery : BOOLEAN,
     ttlHeader : BOOLEAN]

\* A request is a call, and never the value that means none.
LEMMA RequestFacts ==
  ASSUME NEW r \in Request
  PROVE  r \in RequestType /\ r # Nothing
<1>1. r \in RequestType
  BY ProxyAssumption DEF RequestType
<1>2. r # Nothing
  <2>1. "path" \in DOMAIN r
    BY <1>1 DEF RequestType
  <2>2. "path" \notin DOMAIN Nothing
    BY DEF Nothing
  <2> QED BY <2>1, <2>2
<1> QED BY <1>1, <1>2

(* Nothing said is nothing. *)
LEMMA NothingFacts ==
  ASSUME NEW n \in Nat
  PROVE  /\ Nothing \in Reply(n) /\ Nothing = Direct!Silence
         /\ CallInv(NoCall, n)
         /\ \A told \in Reply(n) : CallInv(Done(told), n)
<1>1. Nothing \in Reply(n) /\ Nothing = Direct!Silence
  BY DEF Nothing, Reply, Direct!Silence
<1>2. CallInv(NoCall, n)
  BY <1>1 DEF NoCall, CallInv
<1>3. ASSUME NEW told \in Reply(n) PROVE CallInv(Done(told), n)
  BY <1>1 DEF NoCall, CallInv, Done
<1> QED BY <1>1, <1>2, <1>3

(* What is known of a call stays known when more is written. *)
LEMMA CallGrows ==
  ASSUME NEW n \in Nat, NEW m \in Nat, n <= m, NEW k, CallInv(k, n)
  PROVE  CallInv(k, m)
<1>1. Reply(n) \subseteq Reply(m)
  BY DEF Reply
<1> QED BY <1>1 DEF CallInv

\* What a cell may hold grows with the stream.
LEMMA CellGrows ==
  ASSUME NEW n \in Nat, NEW m \in Nat, n <= m PROVE Cell(n) \subseteq Cell(m)
BY DEF Cell

\* A status, with a revision or with bytes.
Says(s, v, b) == [status |-> s, rev |-> v, body |-> b]

\* Every status with a revision that exists is an answer the adapter may give.
LEMMA SaysFacts ==
  ASSUME NEW n \in Nat, NEW s \in Nat
  PROVE  /\ \A v \in 0 .. n : Says(s, v, << >>) \in Reply(n)
         /\ \A v \in 0 .. n, b \in Seq(0 .. 255) : Says(s, v, b) \in Reply(n)
         /\ Says(s, 0, << >>) \in Reply(n)
<1>1. ASSUME NEW v \in 0 .. n, NEW b \in Seq(0 .. 255) PROVE Says(s, v, b) \in Reply(n)
  BY DEF Says, Reply
<1>2. PICK e \in Seq(0 .. 255) : e = << >>
  BY << >> \in Seq(0 .. 255)
<1>3. PICK z \in 0 .. n : z = 0
  OBVIOUS
<1>4. ASSUME NEW v \in 0 .. n PROVE Says(s, v, << >>) \in Reply(n)
  BY <1>1, <1>2
<1> QED BY <1>1, <1>3, <1>4

\* The abstract service's answers, written with Says.
LEMMA SilenceSays ==
  ASSUME NEW s, NEW v, NEW b
  PROVE  /\ [Direct!Silence EXCEPT !.status = s] = Says(s, 0, << >>)
         /\ [Direct!Silence EXCEPT !.status = s, !.rev = v] = Says(s, v, << >>)
         /\ [Direct!Silence EXCEPT !.status = s, !.body = b] = Says(s, 0, b)
<1>1. PICK x : x = Direct!Silence
  OBVIOUS
<1>2. x = [status |-> 0, rev |-> 0, body |-> << >>]
  BY <1>1 DEF Direct!Silence
<1>3. PICK y : y = [x EXCEPT !.status = s]
  OBVIOUS
<1>4. y = Says(s, 0, << >>)
  BY <1>2, <1>3 DEF Says
<1>5. [y EXCEPT !.rev = v] = Says(s, v, << >>)
  BY <1>4 DEF Says
<1>6. [y EXCEPT !.body = b] = Says(s, 0, b)
  BY <1>4 DEF Says
<1> QED BY <1>1, <1>3, <1>4, <1>5, <1>6

(* The step of the adapter: the message it stores and the answer it gives. *)
LEMMA AdapterFacts ==
  ASSUME last \in Nat, NEW r \in Request, NEW cell \in Cell(last)
  PROVE  /\ Direct!Told(CallNats(r), cell) \in Reply(last + 1)
         /\ Direct!Told(CallNats(r), cell) \in Reply(last) \/ Direct!Stored(CallNats(r), cell) # cell
         /\ Direct!Stored(CallNats(r), cell) \in Cell(last + 1)
         /\ CallNats(r).item = r.item
<1> DEFINE up == CallNats(r)
<1>1. /\ up.item = r.item /\ up.method = r.method /\ up.body = r.body
      /\ up.key = CallerBearer(r)
  BY DEF CallNats
<1>2. r.method \in {"GET", "PUT", "DELETE"} /\ r.body \in Seq(0 .. 255) /\ r.ttlQuery \in BOOLEAN
  BY RequestFacts DEF RequestType
<1>3. ASSUME NEW body \in Seq(0 .. 255), NEW del \in BOOLEAN
      PROVE  Direct!Message(up, body, del) \in Cell(last + 1) /\ Direct!Message(up, body, del) # cell
  <2>1. Direct!Message(up, body, del).rev = last + 1
    BY DEF Direct!Message
  <2>2. cell.rev \in 0 .. last
    BY DEF Cell
  <2>3. (~del /\ (up.ttlHeader \/ up.ttlQuery)) \in BOOLEAN
    OBVIOUS
  <2>4. Direct!Message(up, body, del) \in Cell(last + 1)
    BY <1>1, <2>3 DEF Direct!Message, Cell
  <2> QED BY <2>1, <2>2, <2>4
<1>4. << >> \in Seq(0 .. 255)
  OBVIOUS
<1>5. CASE r.method = "GET"
  <2>1. Direct!Stored(up, cell) = cell
    BY <1>1, <1>5 DEF Direct!Stored
  <2>2. Direct!Told(up, cell) \in Reply(last)
    <3>1. CASE cell.rev = 0 \/ cell.del
      <4>1. Direct!Told(up, cell) = Says(404, 0, << >>)
        <5>1. Direct!Told(up, cell) = [Direct!Silence EXCEPT !.status = 404]
          BY <1>1, <1>5, <3>1 DEF Direct!Told
        <5> QED BY <5>1, SilenceSays, ZenonT(30)
      <4> QED BY <4>1, SaysFacts, <1>4
    <3>2. CASE ~(cell.rev = 0 \/ cell.del)
      <4>1. Direct!Told(up, cell) = Says(200, cell.rev, cell.body)
        BY <1>1, <1>5, <3>2 DEF Direct!Told, Says
      <4>2. cell.rev \in 0 .. last /\ cell.body \in Seq(0 .. 255)
        BY DEF Cell
      <4> QED BY <4>1, <4>2, SaysFacts
    <3> QED BY <3>1, <3>2
  <2> QED BY <1>1, <2>1, <2>2, CellGrows DEF Reply
<1>6. CASE r.method = "PUT"
  <2>1. CASE Direct!Holds(up, cell)
    <3>1. Direct!Stored(up, cell) = Direct!Message(up, r.body, FALSE)
      BY <1>1, <1>6, <2>1 DEF Direct!Stored
    <3>2. Direct!Told(up, cell) \in Reply(last + 1)
      <4>1. Direct!Told(up, cell) = Says(200, last + 1, << >>)
        <5>1. Direct!Told(up, cell) = [Direct!Silence EXCEPT !.status = 200, !.rev = last + 1]
          BY <1>1, <1>6, <2>1 DEF Direct!Told
        <5> QED BY <5>1, SilenceSays, ZenonT(30)
      <4>2. last + 1 \in Nat /\ last + 1 \in 0 .. last + 1
        OBVIOUS
      <4> QED BY <1>4, <4>1, <4>2, SaysFacts
    <3> QED BY <1>1, <1>2, <1>3, <3>1, <3>2
  <2>2. CASE ~Direct!Holds(up, cell)
    <3>1. Direct!Stored(up, cell) = cell
      BY <1>1, <1>6, <2>2 DEF Direct!Stored
    <3>2. Direct!Told(up, cell) \in Reply(last)
      <4>1. Direct!Told(up, cell) = Says(412, 0, << >>)
        <5>1. Direct!Told(up, cell) = [Direct!Silence EXCEPT !.status = 412]
          BY <1>1, <1>6, <2>2 DEF Direct!Told
        <5> QED BY <5>1, SilenceSays, ZenonT(30)
      <4> QED BY <1>4, <4>1, SaysFacts
    <3> QED BY <1>1, <3>1, <3>2, CellGrows DEF Reply
  <2> QED BY <2>1, <2>2
<1>7. CASE r.method = "DELETE"
  <2>1. Direct!Stored(up, cell) = Direct!Message(up, << >>, TRUE)
    BY <1>1, <1>7 DEF Direct!Stored
  <2>2. Direct!Told(up, cell) \in Reply(last + 1)
    <3>1. Direct!Told(up, cell) = Says(204, 0, << >>)
      <4>1. Direct!Told(up, cell) = [Direct!Silence EXCEPT !.status = 204]
        BY <1>1, <1>7 DEF Direct!Told
      <4> QED BY <4>1, SilenceSays, ZenonT(30)
    <3>2. last + 1 \in Nat /\ 0 \in 0 .. last + 1
      OBVIOUS
    <3> QED BY <1>4, <3>1, <3>2, SaysFacts
  <2> QED BY <1>1, <1>3, <1>4, <2>1, <2>2
<1> QED BY <1>2, <1>5, <1>6, <1>7

(* The managed store: what it holds afterwards and what it answers. *)
LEMMA CosmosFacts ==
  ASSUME cosmos \in [Item -> Seq(0 .. 255)], NEW r \in Request, NEW n \in Nat
  PROVE  LET s == CallCosmos(cosmos, r)
             env == [status |-> s.status, rev |-> 0, body |-> s.body] IN
         /\ s.store \in [Item -> Seq(0 .. 255)]
         /\ s.store = [cosmos EXCEPT ![r.item] = CASE r.method = "PUT" -> r.body
                                                   [] r.method = "DELETE" -> << >>
                                                   [] OTHER -> @]
         /\ env \in Reply(n)
         /\ env = Says(200, 0, IF r.method = "GET" THEN cosmos[r.item] ELSE << >>)
<1> DEFINE s == CallCosmos(cosmos, r)
           env == [status |-> s.status, rev |-> 0, body |-> s.body]
<1>1. r.method \in {"GET", "PUT", "DELETE"} /\ r.body \in Seq(0 .. 255) /\ r.item \in Item
  BY RequestFacts DEF RequestType
<1>2. PICK e \in Seq(0 .. 255) : e = << >>
  BY << >> \in Seq(0 .. 255)
<1>3. cosmos[r.item] \in Seq(0 .. 255)
  BY <1>1
<1>4. CASE r.method = "PUT"
  <2>1. s = [store |-> [cosmos EXCEPT ![r.item] = r.body], status |-> 200, body |-> << >>]
    BY <1>4 DEF CallCosmos
  <2>2. env = Says(200, 0, << >>)
    BY <2>1 DEF Says
  <2>3. s.store \in [Item -> Seq(0 .. 255)]
    BY <1>1, <2>1
  <2>4. s.store = [cosmos EXCEPT ![r.item] = CASE r.method = "PUT" -> r.body
                                               [] r.method = "DELETE" -> << >>
                                               [] OTHER -> @]
    BY <1>4, <2>1
  <2>5. env \in Reply(n)
    BY <2>2, SaysFacts, 200 \in Nat
  <2>6. env = Says(200, 0, IF r.method = "GET" THEN cosmos[r.item] ELSE << >>)
    BY <1>4, <2>2
  <2> QED BY <2>3, <2>4, <2>5, <2>6
<1>5. CASE r.method = "DELETE"
  <2>1. s = [store |-> [cosmos EXCEPT ![r.item] = << >>], status |-> 200, body |-> << >>]
    BY <1>5 DEF CallCosmos
  <2>2. env = Says(200, 0, << >>)
    BY <2>1 DEF Says
  <2>3. s.store \in [Item -> Seq(0 .. 255)]
    BY <1>1, <1>2, <2>1
  <2>4. s.store = [cosmos EXCEPT ![r.item] = CASE r.method = "PUT" -> r.body
                                               [] r.method = "DELETE" -> << >>
                                               [] OTHER -> @]
    BY <1>5, <2>1
  <2>5. env \in Reply(n)
    BY <2>2, SaysFacts, 200 \in Nat
  <2>6. env = Says(200, 0, IF r.method = "GET" THEN cosmos[r.item] ELSE << >>)
    BY <1>5, <2>2
  <2> QED BY <2>3, <2>4, <2>5, <2>6
<1>6. CASE r.method = "GET"
  <2>1. s = [store |-> cosmos, status |-> 200, body |-> cosmos[r.item]]
    BY <1>6 DEF CallCosmos
  <2>2. env = Says(200, 0, cosmos[r.item])
    BY <2>1 DEF Says
  <2>3. env \in Reply(n)
    <3>1. 0 \in 0 .. n /\ 200 \in Nat
      OBVIOUS
    <3> QED BY <1>3, <2>2, <3>1, SaysFacts
  <2> QED BY <1>1, <1>6, <2>1, <2>2, <2>3
<1> QED BY <1>1, <1>4, <1>5, <1>6

(* Without X-TTL-Seconds, the adapter does with the call of the app what it does with the
   call itself. *)
LEMMA SameCall ==
  ASSUME NEW r \in Request, ~r.ttlHeader, NEW cell
  PROVE  LET k == AsKeyed(r)
             up == CallNats(r) IN
         /\ k.item = r.item /\ up.item = r.item /\ k.path = r.path /\ k.method = r.method
         /\ k.body = r.body
         /\ Direct!Stored(k, cell) = Direct!Stored(up, cell)
         /\ Direct!Told(k, cell) = Direct!Told(up, cell)
<1> DEFINE k == AsKeyed(r)
           up == CallNats(r)
<1>1. r \in RequestType /\ r # Nothing
  BY RequestFacts
<1>2. k = [r EXCEPT !.key = CallerBearer(r)]
  BY <1>1 DEF AsKeyed
<1>3. /\ k.item = r.item /\ k.path = r.path /\ k.method = r.method /\ k.body = r.body
      /\ k.ifMatch = r.ifMatch /\ k.key = CallerBearer(r)
  BY <1>1, <1>2 DEF RequestType
<1>4. (k.ttlHeader <=> r.ttlHeader) /\ (k.ttlQuery <=> r.ttlQuery) /\ (k.ifNone <=> r.ifNone)
  BY <1>1, <1>2 DEF RequestType
<1>5. /\ up.item = r.item /\ up.method = r.method /\ up.body = r.body
      /\ up.ifMatch = r.ifMatch /\ up.key = CallerBearer(r)
  BY DEF CallNats
<1>6. (up.ttlHeader <=> FALSE) /\ (up.ttlQuery <=> r.ttlQuery) /\ (up.ifNone <=> r.ifNone)
  BY DEF CallNats
<1> HIDE DEF k, up
<1>7. Direct!Holds(k, cell) <=> Direct!Holds(up, cell)
  BY <1>3, <1>4, <1>5, <1>6 DEF Direct!Holds
<1>8. ASSUME NEW body, NEW del \in BOOLEAN
      PROVE  Direct!Message(k, body, del) = Direct!Message(up, body, del)
  <2>1. (k.ttlHeader \/ k.ttlQuery) <=> (up.ttlHeader \/ up.ttlQuery)
    BY <1>4, <1>6
  <2>2. PICK t \in BOOLEAN : t = (~del /\ (k.ttlHeader \/ k.ttlQuery))
    OBVIOUS
  <2>3. t = (~del /\ (up.ttlHeader \/ up.ttlQuery))
    BY <2>1, <2>2
  <2> QED BY <1>3, <1>5, <2>2, <2>3 DEF Direct!Message
<1>9. Direct!Stored(k, cell) = Direct!Stored(up, cell)
  BY <1>3, <1>5, <1>7, <1>8 DEF Direct!Stored
<1>10. Direct!Told(k, cell) = Direct!Told(up, cell)
  BY <1>3, <1>5, <1>7 DEF Direct!Told
<1> QED BY <1>3, <1>5, <1>9, <1>10 DEF k, up

-----------------------------------------------------------------------------
(* What is known of the calls once call c has become k and n writes are stored, and what
   a direct caller sees of it. *)
LEMMA OneCall ==
  ASSUME ApiInv, NEW c \in Client, NEW k, NEW n \in Nat, last <= n, CallInv(k, n),
         calls' = [calls EXCEPT ![c] = k]
  PROVE  /\ calls' = [d \in Client |-> calls'[d]]
         /\ calls'[c] = k
         /\ \A d \in Client : CallInv(calls'[d], n)
         /\ [d \in Client |-> AsDirect(calls'[d])] =
                [[d \in Client |-> AsDirect(calls[d])] EXCEPT ![c] = AsDirect(k)]
<1>1. calls = [d \in Client |-> calls[d]] /\ \A d \in Client : CallInv(calls[d], last)
  BY DEF ApiInv
<1>2. calls' = [d \in Client |-> IF d = c THEN k ELSE calls[d]]
  BY <1>1
<1>3. PICK f : f = calls'
  OBVIOUS
<1>4. f = [d \in Client |-> IF d = c THEN k ELSE calls[d]]
  BY <1>2, <1>3
<1>5. f = [d \in Client |-> f[d]] /\ f[c] = k
  BY <1>4
<1>6. ASSUME NEW d \in Client PROVE CallInv(f[d], n)
  <2>1. last \in Nat
    BY ProxyAssumption DEF ApiInv
  <2>2. CallInv(calls[d], n)
    BY <1>1, <2>1, CallGrows
  <2> QED BY <1>4, <2>2
<1>7. [d \in Client |-> AsDirect(f[d])] =
        [[d \in Client |-> AsDirect(calls[d])] EXCEPT ![c] = AsDirect(k)]
  BY <1>4
<1> QED BY <1>3, <1>5, <1>6, <1>7

\* The invariant of the calls holds at the start.
LEMMA ApiInvInit == ProxyInit => ApiInv
<1> SUFFICES ASSUME ProxyInit PROVE ApiInv
  OBVIOUS
<1>1. last = 0 /\ last \in 0 .. MaxRev
  BY ProxyAssumption DEF ProxyInit
<1>2. cells \in [Item -> Cell(last)]
  <2>1. Direct!NoCell \in Cell(0)
    BY << >> \in Seq(0 .. 255) DEF Direct!NoCell, Cell
  <2> QED BY <1>1, <2>1 DEF ProxyInit
<1>3. cosmos \in [Item -> Seq(0 .. 255)]
  BY << >> \in Seq(0 .. 255) DEF ProxyInit
<1>4. calls = [c \in Client |-> calls[c]] /\ \A c \in Client : CallInv(calls[c], last)
  BY <1>1, NothingFacts, 0 \in Nat DEF ProxyInit
<1> QED BY <1>1, <1>2, <1>3, <1>4 DEF ProxyInit, ApiInv

(* What each action makes of the call. *)
LEMMA ForwardFacts ==
  ASSUME ApiInv, NEW c \in Client, Forward(c)
  PROVE  \E k : /\ calls' = [calls EXCEPT ![c] = k] /\ CallInv(k, last)
                /\ AsDirect(k) = AsDirect(calls[c])
<1>1. PICK old : old = calls[c] /\ CallInv(old, last) /\ old.at = "app"
  BY DEF ApiInv, Forward
<1>2. PICK r \in Request : r = old.req
  BY <1>1 DEF CallInv
<1>3. r.path \in {"/api/nats", "/api/cosmos"}
  BY RequestFacts DEF RequestType
<1>4. PICK up : up = IF r.path = "/api/nats" THEN CallNats(r) ELSE Nothing
  OBVIOUS
<1>5. PICK to : to = IF r.path = "/api/nats" THEN "nats" ELSE "store"
  OBVIOUS
<1>6. PICK k : k = [old EXCEPT !.at = to, !.cookie = None, !.up = up]
  OBVIOUS
<1>7. calls' = [calls EXCEPT ![c] = k]
  BY <1>1, <1>2, <1>4, <1>5, <1>6 DEF Forward
<1>8. /\ k.at = to /\ k.cookie = None /\ k.up = up /\ k.req = r
      /\ k.env = old.env /\ k.told = old.told
  BY <1>1, <1>2, <1>6 DEF CallInv
<1>9. up \in {CallNats(q) : q \in Request} \cup {Nothing}
  BY <1>4
<1>10. CallInv(k, last)
  BY <1>1, <1>2, <1>3, <1>4, <1>5, <1>6, <1>8, <1>9 DEF CallInv
<1>11. AsDirect(k) = AsDirect(calls[c])
  BY <1>1, <1>2, <1>5, <1>8 DEF AsDirect
<1> QED BY <1>7, <1>10, <1>11

(* The answer of a backend goes into the envelope. *)
LEMMA ServedFacts ==
  ASSUME NEW n \in Nat, NEW m \in Nat, n <= m, NEW k, CallInv(k, n), NEW env \in Reply(m)
  PROVE  LET l == [k EXCEPT !.at = "served", !.env = env] IN
         /\ CallInv(l, m)
         /\ AsDirect(l) = [at |-> "served", req |-> AsKeyed(k.req), told |-> env]
<1> DEFINE l == [k EXCEPT !.at = "served", !.env = env]
<1>1. CallInv(k, m)
  BY CallGrows
<1>2. /\ l.at = "served" /\ l.env = env /\ l.req = k.req /\ l.up = k.up /\ l.told = k.told
  BY <1>1 DEF CallInv
<1>3. CallInv(l, m)
  BY <1>1, <1>2 DEF CallInv
<1> QED BY <1>2, <1>3 DEF AsDirect

(* The adapter takes a call: what is stored, and what it answers. *)
LEMMA TakesFacts ==
  ASSUME ApiInv, NEW r \in Request, Direct!Takes(CallNats(r))
  PROVE  /\ Direct!Told(CallNats(r), cells[r.item]) \in Reply(last')
         /\ last' \in 0 .. MaxRev /\ last' \in Nat /\ last \in Nat /\ last <= last'
         /\ cells' \in [Item -> Cell(last')]
         /\ cosmos' = cosmos
<1>3. r.item \in Item /\ CallNats(r).item = r.item
  BY RequestFacts DEF RequestType, CallNats
<1>4. PICK cell \in Cell(last) : cell = cells[r.item]
  BY <1>3 DEF ApiInv
<1>5. PICK n \in Nat : n = last /\ n <= MaxRev /\ last \in Nat
  BY ProxyAssumption DEF ApiInv
<1>6. PICK new : new = Direct!Stored(CallNats(r), cell)
  OBVIOUS
<1>7. PICK a : a = Direct!Told(CallNats(r), cell)
  OBVIOUS
<1>8. a \in Reply(n + 1) /\ (a \in Reply(n) \/ new # cell) /\ new \in Cell(n + 1)
  BY <1>5, <1>6, <1>7, AdapterFacts
<1>9. /\ new # cell => n < MaxRev
      /\ cells' = [cells EXCEPT ![r.item] = new]
      /\ last' = IF new # cell THEN n + 1 ELSE n
      /\ cosmos' = cosmos
  BY <1>3, <1>4, <1>5, <1>6 DEF Direct!Takes
<1>11. PICK m \in Nat : m = last' /\ n <= m /\ m <= MaxRev /\ a \in Reply(m) /\ new \in Cell(m)
  <2>1. CASE new # cell
    BY <1>5, <1>8, <1>9, <2>1, ProxyAssumption, SMTT(30)
  <2>2. CASE new = cell
    BY <1>4, <1>5, <1>8, <1>9, <2>2, ProxyAssumption
  <2> QED BY <2>1, <2>2
<1>12. cells' \in [Item -> Cell(m)]
  <2>1. cells \in [Item -> Cell(n)]
    BY <1>5 DEF ApiInv
  <2>2. Cell(n) \subseteq Cell(m)
    BY <1>11, CellGrows
  <2> QED BY <1>9, <1>11, <2>1, <2>2
<1> QED BY <1>4, <1>5, <1>7, <1>9, <1>11, <1>12, ProxyAssumption, SMTT(30)

\* The same of the call of a client.
LEMMA AdapterStep ==
  ASSUME ApiInv, NEW c \in Client, Adapter(c)
  PROVE  LET r == calls[c].req
             a == Direct!Told(CallNats(r), cells[r.item])
             k == [calls[c] EXCEPT !.at = "served", !.env = a] IN
         /\ r \in Request /\ r.path = "/api/nats" /\ calls[c].at = "nats"
         /\ Direct!Takes(CallNats(r))
         /\ calls' = [calls EXCEPT ![c] = k]
         /\ orphans' = orphans /\ uiGate' = uiGate /\ jars' = jars
<1>1. CallInv(calls[c], last) /\ calls[c].at = "nats"
  BY DEF ApiInv, Adapter
<1>2. PICK r \in Request : r = calls[c].req /\ calls[c].up = CallNats(r) /\ r.path = "/api/nats"
  BY <1>1 DEF CallInv
<1>3. CallNats(r).item = r.item
  BY DEF CallNats
<1> QED BY <1>1, <1>2, <1>3 DEF Adapter

(* What becomes of a call that fails for its caller, and what a direct caller sees. *)
LEMMA EndingFacts ==
  ASSUME ApiInv, NEW c \in Client, NEW k \in Endings(calls[c])
  PROVE  /\ CallInv(k, last)
         /\ k = Done(Nothing) \/ calls[c].at \in {"nats", "store"}
         /\ calls[c].at \in {"app", "nats", "store"} => AsDirect(k) \in Direct!Endings(AsDirect(calls[c]))
<1>0. PICK n \in Nat : n = last /\ n <= n
  BY ProxyAssumption DEF ApiInv
<1>1. PICK old : old = calls[c] /\ CallInv(old, n)
  BY <1>0 DEF ApiInv
<1>2. PICK old2 : old2 = AsDirect(old)
  OBVIOUS
<1>3. CASE k = Done(Nothing)
  <2>1. CallInv(k, last)
    BY <1>0, <1>3, NothingFacts
  <2>2. AsDirect(k) = [Direct!Idle EXCEPT !.at = "done"]
    <3>1. Nothing = Direct!Silence
      BY <1>0, NothingFacts
    <3>2. k.at = "done" /\ k.req = Nothing /\ k.told = Nothing
      BY <1>3 DEF Done, NoCall
    <3>3. AsDirect(k) = [at |-> "done", req |-> Nothing, told |-> Nothing]
      BY <3>2 DEF AsDirect, AsKeyed
    <3>4. PICK i : i = Direct!Idle
      OBVIOUS
    <3>5. i = [at |-> "idle", req |-> Nothing, told |-> Nothing]
      BY <3>1, <3>4 DEF Direct!Idle
    <3>6. [i EXCEPT !.at = "done"] = [at |-> "done", req |-> Nothing, told |-> Nothing]
      BY <3>5
    <3> QED BY <3>3, <3>4, <3>6
  <2> QED BY <1>3, <2>1, <2>2 DEF Direct!Endings
<1>4. CASE k \in Errors(old)
  <2>1. old.at \in {"nats", "store"} /\ old.req \in Request /\ old.told = Nothing
    BY <1>1, <1>4 DEF Errors, CallInv
  <2>2. PICK r \in Request : r = old.req
    BY <2>1
  <2>3. r.method \in {"GET", "PUT", "DELETE"} /\ r # Nothing
    BY RequestFacts DEF RequestType
  <2>4. PICK s : s \in Direct!Failures(r) /\ k = [old EXCEPT !.at = "served",
                                                            !.env = [Nothing EXCEPT !.status = s]]
    <3>1. CASE old.at = "nats"
      BY <1>4, <2>2, <3>1 DEF Errors
    <3>2. CASE old.at = "store"
      <4>1. k \in {[old EXCEPT !.at = "served", !.env = [Nothing EXCEPT !.status = s]] : s \in {500}}
        BY <1>4, <3>2 DEF Errors, CosmosError
      <4>3. r.path # "/api/nats"
        BY <1>1, <2>2, <3>2 DEF CallInv
      <4>4. 500 \in Direct!Failures(r)
        BY <4>3 DEF Direct!Failures
      <4>5. k = [old EXCEPT !.at = "served", !.env = [Nothing EXCEPT !.status = 500]]
        BY <4>1, Zenon
      <4> QED BY <4>4, <4>5, Zenon
    <3> QED BY <2>1, <3>1, <3>2
  <2>5. s \in Nat
    BY <2>4 DEF Direct!Failures
  <2>6. PICK env : env = [Nothing EXCEPT !.status = s]
    OBVIOUS
  <2>7. env = Says(s, 0, << >>) /\ env \in Reply(n)
    <3>1. env = Says(s, 0, << >>)
      BY <2>6 DEF Nothing, Says
    <3> QED BY <1>0, <2>5, <3>1, SaysFacts
  <2>8. k = [old EXCEPT !.at = "served", !.env = env]
    BY <2>4, <2>6
  <2>9. CallInv(k, n) /\ AsDirect(k) = [at |-> "served", req |-> AsKeyed(r), told |-> env]
    <3>1. /\ CallInv([old EXCEPT !.at = "served", !.env = env], n)
          /\ AsDirect([old EXCEPT !.at = "served", !.env = env])
               = [at |-> "served", req |-> AsKeyed(old.req), told |-> env]
      BY <1>0, <1>1, <2>7, ServedFacts
    <3> QED BY <2>2, <2>8, <3>1, Zenon
  <2>10. AsDirect(old) = [at |-> "open", req |-> AsKeyed(r), told |-> Nothing]
    BY <2>1, <2>2 DEF AsDirect
  <2>11. s \in Direct!Failures(AsKeyed(r))
    <3>1. AsKeyed(r).path = r.path /\ AsKeyed(r).method = r.method
      <4>1. r \in RequestType /\ r # Nothing
        BY RequestFacts
      <4> QED BY <4>1 DEF AsKeyed, RequestType
    <3> QED BY <2>4, <3>1 DEF Direct!Failures
  <2>12. PICK q : q = AsDirect(old)
    OBVIOUS
  <2>13. PICK say : say = [Direct!Silence EXCEPT !.status = s]
    OBVIOUS
  <2>14. say = env
    BY <2>7, <2>13, SilenceSays, Zenon
  <2>15. [q EXCEPT !.at = "served", !.told = say] = AsDirect(k)
    <3>1. PICK y : y = [q EXCEPT !.at = "served"]
      OBVIOUS
    <3>2. y = [at |-> "served", req |-> AsKeyed(r), told |-> Nothing]
      BY <2>10, <2>12, <3>1
    <3>3. [y EXCEPT !.told = say] = [at |-> "served", req |-> AsKeyed(r), told |-> say]
      BY <3>2
    <3> QED BY <2>9, <2>14, <3>1, <3>3
  <2>16. q.req = AsKeyed(r)
    BY <2>10, <2>12
  <2>17. AsDirect(k) \in Direct!Endings(q)
    BY <2>11, <2>13, <2>15, <2>16 DEF Direct!Endings
  <2> QED BY <1>0, <1>1, <2>1, <2>9, <2>12, <2>17
<1> QED BY <1>1, <1>3, <1>4 DEF Endings

(* The envelope that arrives holds the bytes that were put into it. *)
LEMMA ReceiveFacts ==
  ASSUME ApiInv, NEW c \in Client, Receive(c)
  PROVE  /\ calls' = [calls EXCEPT ![c] = Done(calls[c].env)] /\ calls[c].env \in Reply(last)
         /\ calls[c].at = "served"
<1>1. PICK env \in Reply(last) : env = calls[c].env
  BY DEF ApiInv, CallInv
<1>2. PICK code : code = B64Encode(env.body)
  OBVIOUS
<1>3. Atob(code) = env.body
  BY <1>2, Base64RoundTrip DEF Reply
<1>4. Unwrap([env EXCEPT !.body = B64Encode(env.body)]) = env
  <2>1. PICK coded : coded = [env EXCEPT !.body = code]
    OBVIOUS
  <2>2. coded.body = code /\ [coded EXCEPT !.body = env.body] = env
    BY <2>1 DEF Reply
  <2> QED BY <1>2, <1>3, <2>1, <2>2 DEF Unwrap
<1>5. calls' = [calls EXCEPT ![c] = Done(Unwrap([env EXCEPT !.body = B64Encode(env.body)]))]
  BY <1>1 DEF Receive
<1> QED BY <1>1, <1>4, <1>5 DEF Receive

(* The cookies that an answer can leave. *)
LEMMA JarFacts ==
  ASSUME NEW j \in Token \cup {None}, NEW g \in Token, NEW req, NEW new \in Jar(j, Handle(req, g))
  PROVE  new \in Token \cup {None}
<1>1. Handle(req, g).set \in {{}, {g}, {None}}
  BY DEF Handle, Answer
<1> QED BY <1>1 DEF Jar

\* A call that is asked.
LEMMA AskedFacts ==
  ASSUME NEW n \in Nat, NEW r \in Request, NEW cookie \in Token \cup {None}
  PROVE  CallInv([NoCall EXCEPT !.at = "app", !.req = r, !.cookie = cookie], n)
BY NothingFacts DEF NoCall, CallInv

(* Every action keeps what is known of calls and backends. *)
LEMMA ApiInvStep == ApiInv /\ [ProxyNext]_proxyVars => ApiInv'
<1> SUFFICES ASSUME ApiInv, [ProxyNext]_proxyVars PROVE ApiInv'
  OBVIOUS
<1>0. PICK n \in Nat : n = last /\ n <= n
  BY ProxyAssumption DEF ApiInv
\* When call c becomes k and nothing is stored.
<1>1. ASSUME NEW c \in Client, NEW k, CallInv(k, n), calls' = [calls EXCEPT ![c] = k],
             last' = last, cells' = cells, cosmos' \in [Item -> Seq(0 .. 255)], uiGate' = uiGate,
             jars' \in [Client -> Token \cup {None}],
             orphans' \in [Orphan -> Request \cup {Nothing}]
      PROVE  ApiInv'
  <2>1. PICK f : f = calls'
    OBVIOUS
  <2>2. f = [d \in Client |-> f[d]] /\ \A d \in Client : CallInv(f[d], n)
    BY <1>0, <1>1, <2>1, OneCall
  <2> QED BY <1>0, <1>1, <2>1, <2>2 DEF ApiInv
<1>2. ASSUME NEW c \in Client, NEW r \in Request, AskApp(c, r) PROVE ApiInv'
  <2>1. CallInv([NoCall EXCEPT !.at = "app", !.req = r, !.cookie = jars[c]], n)
    BY <1>0, AskedFacts DEF ApiInv
  <2> QED BY <1>1, <1>2, <2>1 DEF AskApp, ApiInv
<1>3. ASSUME NEW c \in Client, Turned(c) PROVE ApiInv'
  <2>1. CallInv(Done(Nothing), n)
    BY <1>0, NothingFacts
  <2>2. jars' \in [Client -> Token \cup {None}]
    <3>4. PICK req : req = AtGate(calls[c])
      OBVIOUS
    <3>1. PICK new \in Jar(jars[c], Handle(req, uiGate)) : jars' = [jars EXCEPT ![c] = new]
      BY <1>3, <3>4 DEF Turned
    <3>2. jars \in [Client -> Token \cup {None}] /\ uiGate \in Token
      BY DEF ApiInv
    <3>3. new \in Token \cup {None}
      BY <3>1, <3>2, JarFacts
    <3> QED BY <3>1, <3>2, <3>3
  <2> QED BY <1>1, <1>3, <2>1, <2>2 DEF Turned, ApiInv
<1>4. ASSUME NEW c \in Client, Forward(c) PROVE ApiInv'
  BY <1>0, <1>1, <1>4, ForwardFacts DEF Forward, ApiInv
<1>5. ASSUME NEW c \in Client, Adapter(c) PROVE ApiInv'
  <2>0. PICK r \in Request : r = calls[c].req /\ Direct!Takes(CallNats(r))
    BY <1>5, AdapterStep
  <2>1. PICK m \in Nat : m = last' /\ n <= m /\ m \in 0 .. MaxRev
    BY <1>0, <2>0, TakesFacts
  <2>2. PICK a \in Reply(m) : calls' = [calls EXCEPT ![c] = [calls[c] EXCEPT !.at = "served", !.env = a]]
    BY <1>5, <2>0, <2>1, AdapterStep, TakesFacts
  <2>3. PICK k : k = [calls[c] EXCEPT !.at = "served", !.env = a] /\ CallInv(k, m)
    BY <1>0, <2>1, ServedFacts DEF ApiInv
  <2>4. PICK f : f = calls'
    OBVIOUS
  <2>5. f = [d \in Client |-> f[d]] /\ \A d \in Client : CallInv(f[d], m)
    <3>1. calls' = [calls EXCEPT ![c] = k] /\ CallInv(k, m) /\ last <= m
      BY <1>0, <2>1, <2>2, <2>3
    <3> QED BY <2>4, <3>1, OneCall
  <2>6. cells' \in [Item -> Cell(m)] /\ cosmos' = cosmos
    BY <2>0, <2>1, TakesFacts
  <2>7. orphans' = orphans /\ uiGate' = uiGate /\ jars' = jars
    BY <1>5, AdapterStep
  <2> QED BY <2>1, <2>4, <2>5, <2>6, <2>7 DEF ApiInv
<1>6. ASSUME NEW c \in Client, Managed(c) PROVE ApiInv'
  <2>1. PICK r \in Request : r = calls[c].req
    BY <1>6 DEF Managed, ApiInv, CallInv
  <2>2. PICK s : s = CallCosmos(cosmos, r)
    OBVIOUS
  <2>3. PICK env \in Reply(n) : env = [status |-> s.status, rev |-> 0, body |-> s.body]
    BY <1>0, <2>2, CosmosFacts DEF ApiInv
  <2>4. calls' = [calls EXCEPT ![c] = [calls[c] EXCEPT !.at = "served", !.env = env]]
    BY <1>6, <2>1, <2>2, <2>3 DEF Managed
  <2>5. CallInv([calls[c] EXCEPT !.at = "served", !.env = env], n)
    BY <1>0, ServedFacts DEF ApiInv
  <2>6. cosmos' = s.store /\ cosmos' \in [Item -> Seq(0 .. 255)]
    BY <1>0, <1>6, <2>1, <2>2, CosmosFacts DEF Managed, ApiInv
  <2> QED BY <1>1, <1>6, <2>4, <2>5, <2>6 DEF Managed, ApiInv
<1>7. ASSUME NEW c \in Client, Receive(c) PROVE ApiInv'
  <2>1. calls' = [calls EXCEPT ![c] = Done(calls[c].env)] /\ calls[c].env \in Reply(n)
    BY <1>0, <1>7, ReceiveFacts
  <2>2. CallInv(Done(calls[c].env), n)
    BY <2>1, NothingFacts
  <2> QED BY <1>1, <1>7, <2>1, <2>2 DEF Receive, ApiInv
<1>8. ASSUME NEW c \in Client, Lose(c) PROVE ApiInv'
  <2>1. PICK k \in Endings(calls[c]) : calls' = [calls EXCEPT ![c] = k]
    BY <1>8 DEF Lose
  <2>2. CallInv(k, n)
    BY <1>0, EndingFacts
  <2> QED BY <1>1, <1>8, <2>1, <2>2 DEF Lose, ApiInv
<1>81. ASSUME NEW c \in Client, NEW o \in Orphan, Abandon(c, o) PROVE ApiInv'
  <2>1. PICK k \in Endings(calls[c]) : calls' = [calls EXCEPT ![c] = k]
    BY <1>81 DEF Abandon
  <2>2. CallInv(k, n)
    BY <1>0, EndingFacts
  <2>3. orphans' \in [Orphan -> Request \cup {Nothing}]
    <3>1. CallInv(calls[c], n) /\ calls[c].at \in {"nats", "store"}
      BY <1>0, <1>81 DEF Abandon, ApiInv
    <3>2. calls[c].req \in Request
      BY <3>1 DEF CallInv
    <3> QED BY <1>81, <3>2 DEF Abandon, ApiInv
  <2> QED BY <1>1, <1>81, <2>1, <2>2, <2>3 DEF Abandon, ApiInv
<1>82. ASSUME NEW o \in Orphan, Late(o) PROVE ApiInv'
  <2>1. PICK r \in Request : r = orphans[o]
    BY <1>82 DEF Late, ApiInv
  <2>2. calls' = calls /\ uiGate' = uiGate /\ jars' = jars /\ orphans' \in [Orphan -> Request \cup {Nothing}]
    BY <1>82 DEF Late, ApiInv
  <2>3. CASE r.path = "/api/nats"
    <3>1. Direct!Takes(CallNats(r))
      BY <1>82, <2>1, <2>3 DEF Late
    <3>2. PICK m \in Nat : m = last' /\ n <= m /\ m \in 0 .. MaxRev
      BY <1>0, <3>1, TakesFacts
    <3>3. cells' \in [Item -> Cell(m)] /\ cosmos' = cosmos
      BY <3>1, <3>2, TakesFacts
    <3>4. ASSUME NEW d \in Client PROVE CallInv(calls[d], m)
      <4>1. CallInv(calls[d], n)
        BY <1>0 DEF ApiInv
      <4> QED BY <3>2, <4>1, CallGrows
    <3> QED BY <2>2, <3>2, <3>3, <3>4 DEF ApiInv
  <2>4. CASE r.path # "/api/nats"
    <3>1. cosmos' = CallCosmos(cosmos, r).store /\ cells' = cells /\ last' = last
      BY <1>82, <2>1, <2>4 DEF Late
    <3>2. cosmos' \in [Item -> Seq(0 .. 255)]
      BY <1>0, <3>1, CosmosFacts DEF ApiInv
    <3> QED BY <2>2, <3>1, <3>2 DEF ApiInv
  <2> QED BY <2>3, <2>4
<1>83. ASSUME NEW o \in Orphan, Never(o) PROVE ApiInv'
  BY <1>83 DEF Never, ApiInv
<1>9. ASSUME NEW g \in Token, RotateUi(g) PROVE ApiInv'
  BY <1>9 DEF RotateUi, ApiInv
<1>10. CASE UNCHANGED proxyVars
  BY <1>10 DEF proxyVars, ApiInv
<1> QED BY <1>2, <1>3, <1>4, <1>5, <1>6, <1>7, <1>8, <1>81, <1>82, <1>83, <1>9, <1>10 DEF ProxyNext

-----------------------------------------------------------------------------
\* The calls as a direct caller sees them.
Seen == [c \in Client |-> AsDirect(calls[c])]
SeenLate == [o \in Orphan |-> AsKeyed(orphans[o])]

\* The initial states of the proxy are initial states of the direct service.
LEMMA DirectInitially == ProxyInit => Direct!DirectInit
<1> SUFFICES ASSUME ProxyInit PROVE Direct!DirectInit
  OBVIOUS
<1>1. Nothing = Direct!Silence
  BY NothingFacts, 0 \in Nat
<1>2. AsDirect(NoCall) = Direct!Idle
  BY <1>1 DEF AsDirect, NoCall, AsKeyed, Direct!Idle
<1>3. Seen = [c \in Client |-> Direct!Idle]
  BY <1>2 DEF Seen, ProxyInit
<1>4. SeenLate = [o \in Orphan |-> Direct!Silence]
  BY <1>1 DEF SeenLate, AsKeyed, ProxyInit
<1> QED BY <1>3, <1>4 DEF Seen, SeenLate, ProxyInit, Direct!DirectInit

(* When nothing is stored and call c is done, the direct caller has its answer or none. *)
LEMMA ReturnSeen ==
  ASSUME ApiInv, NEW c \in Client, NEW told, told \in {Direct!Silence, AsDirect(calls[c]).told},
         calls[c].at \in {"app", "nats", "store", "served"},
         calls' = [calls EXCEPT ![c] = Done(told)], told \in Reply(last),
         UNCHANGED <<cells, last, cosmos, orphans>>
  PROVE  Direct!Return(c)
<1>1. PICK n \in Nat : n = last /\ last <= n
  BY ProxyAssumption DEF ApiInv
<1>2. CallInv(Done(told), n)
  BY <1>1, NothingFacts
<1>3. PICK k : k = Done(told)
  OBVIOUS
<1>4. Seen' = [Seen EXCEPT ![c] = AsDirect(k)]
  BY <1>1, <1>2, <1>3, OneCall DEF Seen
<1>5. AsDirect(k) = [Direct!Idle EXCEPT !.at = "done", !.told = told]
  <2>1. Nothing = Direct!Silence
    BY <1>1, NothingFacts
  <2>2. k.at = "done" /\ k.req = Nothing /\ k.told = told
    BY <1>3 DEF Done, NoCall
  <2>3. AsDirect(k) = [at |-> "done", req |-> Nothing, told |-> told]
    BY <2>2 DEF AsDirect, AsKeyed
  <2>4. PICK i : i = Direct!Idle
    OBVIOUS
  <2>5. i = [at |-> "idle", req |-> Nothing, told |-> Nothing]
    BY <2>1, <2>4 DEF Direct!Idle
  <2>8. PICK y : y = [i EXCEPT !.at = "done"]
    OBVIOUS
  <2>6. y = [at |-> "done", req |-> Nothing, told |-> Nothing]
    BY <2>5, <2>8
  <2>7. [y EXCEPT !.told = told] = [at |-> "done", req |-> Nothing, told |-> told]
    BY <2>6
  <2> QED BY <2>3, <2>4, <2>7, <2>8
<1>6. Seen[c] = AsDirect(calls[c]) /\ AsDirect(calls[c]).at \in {"open", "served"}
  BY DEF Seen, AsDirect
<1> QED BY <1>4, <1>5, <1>6 DEF Seen, Direct!Return

(* When the backend has answered call c with env. *)
LEMMA ServeSeen ==
  ASSUME ApiInv, NEW c \in Client, NEW r \in Request, r = calls[c].req,
         calls[c].at \in {"app", "nats", "store"}, NEW m \in Nat, last <= m, NEW env \in Reply(m),
         calls' = [calls EXCEPT ![c] = [calls[c] EXCEPT !.at = "served", !.env = env]]
  PROVE  /\ Seen[c].req = AsKeyed(r) /\ Seen[c].at = "open"
         /\ Seen' = [Seen EXCEPT ![c] = [Seen[c] EXCEPT !.at = "served", !.told = env]]
<1>1. PICK n \in Nat : n = last /\ n <= m
  BY ProxyAssumption DEF ApiInv
<1>2. CallInv(calls[c], n)
  BY <1>1 DEF ApiInv
<1>3. PICK k : k = [calls[c] EXCEPT !.at = "served", !.env = env]
  OBVIOUS
<1>4. CallInv(k, m) /\ AsDirect(k) = [at |-> "served", req |-> AsKeyed(r), told |-> env]
  <2>1. PICK old : old = calls[c] /\ CallInv(old, n) /\ old.req = r
    BY <1>2
  <2>2. k = [old EXCEPT !.at = "served", !.env = env]
    BY <1>3, <2>1, Zenon
  <2>3. /\ CallInv([old EXCEPT !.at = "served", !.env = env], m)
        /\ AsDirect([old EXCEPT !.at = "served", !.env = env])
             = [at |-> "served", req |-> AsKeyed(old.req), told |-> env]
    BY <1>1, <2>1, ServedFacts
  <2> QED BY <2>1, <2>2, <2>3, Zenon
<1>5. Seen' = [Seen EXCEPT ![c] = AsDirect(k)]
  <2>1. calls' = [calls EXCEPT ![c] = k]
    BY <1>3
  <2> QED BY <1>4, <2>1, OneCall DEF Seen
<1>6. PICK s : s = Seen[c]
  OBVIOUS
<1>7. s = [at |-> "open", req |-> AsKeyed(r), told |-> calls[c].told]
  BY <1>6 DEF Seen, AsDirect
<1>8. PICK y : y = [s EXCEPT !.at = "served"]
  OBVIOUS
<1>9. y = [at |-> "served", req |-> AsKeyed(r), told |-> calls[c].told]
  BY <1>7, <1>8
<1>10. [y EXCEPT !.told = env] = AsDirect(k)
  BY <1>4, <1>9
<1>11. [Seen[c] EXCEPT !.at = "served", !.told = env] = AsDirect(k)
  BY <1>6, <1>8, <1>10
<1>12. Seen[c].req = AsKeyed(r) /\ Seen[c].at = "open"
  BY <1>6, <1>7
<1> QED BY <1>5, <1>11, <1>12

(* Whatever a step of the proxy does, a direct caller sees a step of the promise. *)
LEMMA DirectStep ==
  ASSUME \A r \in Request : ~r.ttlHeader, ApiInv, [ProxyNext]_proxyVars
  PROVE  [Direct!DirectNext]_Direct!directVars
<1>0. PICK n \in Nat : n = last /\ last <= n
  BY ProxyAssumption DEF ApiInv
<1>1. ASSUME UNCHANGED <<cells, last, cosmos, orphans>>, Seen' = Seen
      PROVE  UNCHANGED Direct!directVars
  BY <1>1 DEF Direct!directVars, Seen
<1>2. ASSUME NEW c \in Client, NEW r \in Request, AskApp(c, r)
      PROVE  Direct!Call(c, AsKeyed(r))
  <2>1. PICK k : k = [NoCall EXCEPT !.at = "app", !.req = r, !.cookie = jars[c]]
    OBVIOUS
  <2>2. k.at = "app" /\ k.req = r /\ k.told = Nothing /\ Nothing = Direct!Silence
    BY <1>0, <2>1, NothingFacts DEF NoCall
  <2>3. CallInv(k, n)
    BY <1>0, <2>1, AskedFacts DEF ApiInv
  <2>4. calls' = [calls EXCEPT ![c] = k]
    BY <1>2, <2>1 DEF AskApp
  <2>5. Seen' = [Seen EXCEPT ![c] = AsDirect(k)]
    BY <1>0, <2>3, <2>4, OneCall DEF Seen
  <2>6. AsDirect(k) = [at |-> "open", req |-> AsKeyed(r), told |-> Direct!Silence]
    BY <2>2 DEF AsDirect
  <2>7. Seen[c].at \in {"idle", "done"}
    BY <1>2 DEF AskApp, Seen, AsDirect
  <2> QED BY <1>2, <2>5, <2>6, <2>7 DEF Direct!Call, Seen, AskApp
<1>3. ASSUME NEW c \in Client, Turned(c) PROVE Direct!Return(c)
  <2>1. calls' = [calls EXCEPT ![c] = Done(Nothing)] /\ UNCHANGED <<cells, last, cosmos, orphans>>
    BY <1>3 DEF Turned
  <2>2. Nothing \in Reply(last) /\ Nothing = Direct!Silence
    BY <1>0, NothingFacts
  <2> QED BY <1>3, <2>1, <2>2, ReturnSeen DEF Turned
<1>4. ASSUME NEW c \in Client, Forward(c) PROVE UNCHANGED Direct!directVars
  <2>1. PICK k : CallInv(k, n) /\ calls' = [calls EXCEPT ![c] = k] /\ AsDirect(k) = AsDirect(calls[c])
    BY <1>0, <1>4, ForwardFacts
  <2>2. Seen' = [Seen EXCEPT ![c] = AsDirect(calls[c])]
    BY <1>0, <2>1, OneCall DEF Seen
  <2>3. Seen' = Seen
    BY <2>2 DEF Seen
  <2> QED BY <1>1, <1>4, <2>3 DEF Forward
<1>5. ASSUME NEW c \in Client, Adapter(c) PROVE Direct!Serve(c)
  <2>1. PICK r \in Request : r = calls[c].req /\ r.path = "/api/nats"
    BY <1>5, AdapterStep
  <2>0. Direct!Takes(CallNats(r))
    BY <1>5, <2>1, AdapterStep
  <2>2. PICK m \in Nat : m = last' /\ last <= m
    BY <2>0, TakesFacts
  <2>3. PICK a \in Reply(m) :
          /\ a = Direct!Told(CallNats(r), cells[r.item])
          /\ calls' = [calls EXCEPT ![c] = [calls[c] EXCEPT !.at = "served", !.env = a]]
    BY <1>5, <2>0, <2>1, <2>2, AdapterStep, TakesFacts
  <2>4. calls[c].at \in {"app", "nats", "store"}
    BY <1>5 DEF Adapter
  <2>5. /\ Seen[c].req = AsKeyed(r) /\ Seen[c].at = "open"
        /\ Seen' = [Seen EXCEPT ![c] = [Seen[c] EXCEPT !.at = "served", !.told = a]]
    <3>1. r = calls[c].req /\ last <= m
      BY <2>1, <2>2
    <3>2. calls' = [calls EXCEPT ![c] = [calls[c] EXCEPT !.at = "served", !.env = a]]
      BY <2>3
    <3> QED BY <2>4, <3>1, <3>2, ServeSeen
  <2>6. PICK k : k = AsKeyed(r)
    OBVIOUS
  <2>7. PICK up : up = CallNats(r)
    OBVIOUS
  <2>8. /\ k.item = r.item /\ up.item = r.item /\ k.path = "/api/nats"
        /\ \A cell : Direct!Stored(k, cell) = Direct!Stored(up, cell)
        /\ \A cell : Direct!Told(k, cell) = Direct!Told(up, cell)
    BY <2>1, <2>6, <2>7, SameCall
  <2>9. Direct!Takes(up) /\ orphans' = orphans
    BY <1>5, <2>0, <2>7, AdapterStep
  <2>10. Direct!Takes(k)
    BY <2>8, <2>9 DEF Direct!Takes
  <2>11. a = Direct!Told(k, cells[k.item])
    BY <2>3, <2>7, <2>8
  <2> QED BY <2>5, <2>6, <2>8, <2>9, <2>10, <2>11 DEF Direct!Serve, Direct!Effect, Seen, SeenLate
<1>6. ASSUME NEW c \in Client, Managed(c) PROVE Direct!Serve(c)
  <2>1. PICK r \in Request : r = calls[c].req /\ r.path = "/api/cosmos"
    BY <1>6 DEF Managed, ApiInv, CallInv
  <2>2. PICK s : s = CallCosmos(cosmos, r)
    OBVIOUS
  <2>3. PICK env \in Reply(n) :
          /\ env = [status |-> s.status, rev |-> 0, body |-> s.body]
          /\ env = Says(200, 0, IF r.method = "GET" THEN cosmos[r.item] ELSE << >>)
    BY <1>0, <2>2, CosmosFacts, ZenonT(30) DEF ApiInv
  <2>4. calls' = [calls EXCEPT ![c] = [calls[c] EXCEPT !.at = "served", !.env = env]]
    BY <1>6, <2>1, <2>2, <2>3 DEF Managed
  <2>5. calls[c].at \in {"app", "nats", "store"}
    BY <1>6 DEF Managed
  <2>6. /\ Seen[c].req = AsKeyed(r) /\ Seen[c].at = "open"
        /\ Seen' = [Seen EXCEPT ![c] = [Seen[c] EXCEPT !.at = "served", !.told = env]]
    BY <1>0, <2>1, <2>4, <2>5, ServeSeen
  <2>7. PICK k : k = AsKeyed(r)
    OBVIOUS
  <2>8. k.item = r.item /\ k.path = r.path /\ k.method = r.method /\ k.body = r.body
    BY <2>7, SameCall
  <2>9. cosmos' = [cosmos EXCEPT ![r.item] = CASE r.method = "PUT" -> r.body
                                               [] r.method = "DELETE" -> << >>
                                               [] OTHER -> @]
    BY <1>0, <1>6, <2>1, CosmosFacts DEF Managed, ApiInv
  <2>10. Direct!CosmosTakes(k)
    BY <1>6, <2>8, <2>9 DEF Direct!CosmosTakes, Managed
  <2>11. env = Direct!CosmosTold(k)
    <3>1. PICK body : body = IF k.method = "GET" THEN cosmos[k.item] ELSE << >>
      OBVIOUS
    <3>3. [Direct!Silence EXCEPT !.status = 200, !.body = body] = Says(200, 0, body)
      BY SilenceSays
    <3>4. Direct!CosmosTold(k) = [Direct!Silence EXCEPT !.status = 200, !.body = body]
      BY <3>1, Zenon DEF Direct!CosmosTold
    <3>2. Direct!CosmosTold(k) = Says(200, 0, body)
      BY <3>3, <3>4, Zenon
    <3> QED BY <2>3, <2>8, <3>1, <3>2
  <2>12. k.path # "/api/nats"
    BY <2>1, <2>8
  <2> QED BY <1>6, <2>6, <2>7, <2>10, <2>11, <2>12 DEF Direct!Serve, Direct!Effect, Seen, SeenLate, Managed
<1>7. ASSUME NEW c \in Client, Receive(c) PROVE Direct!Return(c)
  <2>1. /\ calls' = [calls EXCEPT ![c] = Done(calls[c].env)] /\ calls[c].env \in Reply(last)
        /\ calls[c].at = "served"
    BY <1>7, ReceiveFacts
  <2>2. AsDirect(calls[c]).told = calls[c].env
    BY <2>1 DEF AsDirect
  <2> QED BY <1>7, <2>1, <2>2, ReturnSeen DEF Receive
\* When call c ends for its caller.
<1>80. ASSUME NEW c \in Client, NEW k \in Endings(calls[c]), calls' = [calls EXCEPT ![c] = k]
       PROVE  Seen' = [Seen EXCEPT ![c] = AsDirect(k)]
  <2>1. CallInv(k, n)
    BY <1>0, EndingFacts
  <2> QED BY <1>0, <1>80, <2>1, OneCall DEF Seen
<1>8. ASSUME NEW c \in Client, Lose(c) PROVE Direct!Return(c) \/ Direct!Fail(c)
  <2>1. PICK k \in Endings(calls[c]) : calls' = [calls EXCEPT ![c] = k]
    BY <1>8 DEF Lose
  <2>2. UNCHANGED <<cells, last, cosmos, orphans>>
    BY <1>8 DEF Lose
  <2>3. CASE calls[c].at = "served"
    <3>1. k = Done(Nothing)
      BY <2>3, EndingFacts
    <3>2. Nothing \in Reply(last) /\ Nothing = Direct!Silence
      BY <1>0, NothingFacts
    <3> QED BY <2>1, <2>2, <2>3, <3>1, <3>2, ReturnSeen
  <2>4. CASE calls[c].at \in {"app", "nats", "store"}
    <3>1. AsDirect(k) \in Direct!Endings(Seen[c])
      BY <2>4, EndingFacts DEF Seen
    <3>2. Seen[c].at = "open"
      BY <2>4 DEF Seen, AsDirect
    <3> QED BY <1>80, <2>1, <2>2, <3>1, <3>2 DEF Direct!Fail, Seen, SeenLate
  <2> QED BY <1>8, <2>3, <2>4 DEF Lose
<1>81. ASSUME NEW c \in Client, NEW o \in Orphan, Abandon(c, o) PROVE Direct!Abandon(c, o)
  <2>1. PICK k \in Endings(calls[c]) : calls' = [calls EXCEPT ![c] = k]
    BY <1>81 DEF Abandon
  <2>2. /\ UNCHANGED <<cells, last, cosmos>> /\ calls[c].at \in {"nats", "store"}
        /\ orphans[o] = Nothing /\ orphans' = [orphans EXCEPT ![o] = calls[c].req]
    BY <1>81 DEF Abandon
  <2>3. AsDirect(k) \in Direct!Endings(Seen[c])
    BY <2>2, EndingFacts DEF Seen
  <2>4. Seen[c].at = "open" /\ Seen[c].req = AsKeyed(calls[c].req)
    BY <2>2 DEF Seen, AsDirect
  <2>5. SeenLate[o] = Direct!Silence
    BY <1>0, <2>2, NothingFacts DEF SeenLate, AsKeyed
  <2>6. SeenLate' = [SeenLate EXCEPT ![o] = Seen[c].req]
    <3>1. orphans' = [p \in Orphan |-> IF p = o THEN calls[c].req ELSE orphans[p]]
      BY <2>2 DEF ApiInv
    <3> QED BY <2>4, <3>1 DEF SeenLate
  <2> QED BY <1>80, <2>1, <2>2, <2>3, <2>4, <2>5, <2>6 DEF Direct!Abandon, Seen, SeenLate
\* When an orphan is gone.
<1>82. ASSUME NEW o \in Orphan, orphans' = [orphans EXCEPT ![o] = Nothing]
       PROVE  SeenLate' = [SeenLate EXCEPT ![o] = Direct!Silence]
  <2>1. orphans' = [p \in Orphan |-> IF p = o THEN Nothing ELSE orphans[p]]
    BY <1>82 DEF ApiInv
  <2>2. AsKeyed(Nothing) = Direct!Silence
    BY <1>0, NothingFacts DEF AsKeyed
  <2> QED BY <2>1, <2>2 DEF SeenLate
<1>83. ASSUME NEW o \in Orphan, Never(o) PROVE Direct!Never(o)
  BY <1>82, <1>83 DEF Never, Direct!Never, Seen, SeenLate
<1>84. ASSUME NEW o \in Orphan, Late(o) PROVE Direct!Late(o)
  <2>1. PICK r \in Request : r = orphans[o]
    BY <1>84 DEF Late, ApiInv
  <2>2. SeenLate' = [SeenLate EXCEPT ![o] = Direct!Silence] /\ Seen' = Seen
    BY <1>82, <1>84 DEF Late, Seen
  <2>3. PICK k : k = AsKeyed(r)
    OBVIOUS
  <2>4. PICK up : up = CallNats(r)
    OBVIOUS
  <2>5. /\ k.item = r.item /\ up.item = r.item /\ k.path = r.path /\ k.method = r.method
        /\ k.body = r.body
        /\ \A cell : Direct!Stored(k, cell) = Direct!Stored(up, cell)
    BY <2>3, <2>4, SameCall
  <2>6. SeenLate[o] = k /\ k # Direct!Silence
    <3>1. "path" \in DOMAIN k /\ "path" \notin DOMAIN Direct!Silence
      <4>1. r \in RequestType /\ r # Nothing
        BY RequestFacts
      <4>2. k = [r EXCEPT !.key = CallerBearer(r)]
        BY <2>3, <4>1 DEF AsKeyed
      <4> QED BY <4>1, <4>2 DEF RequestType, Direct!Silence
    <3> QED BY <2>1, <2>3, <3>1 DEF SeenLate
  <2>7. Direct!Effect(k)
    <3>1. CASE r.path = "/api/nats"
      <4>1. Direct!Takes(up)
        BY <1>84, <2>1, <2>4, <3>1 DEF Late
      <4>2. Direct!Takes(k)
        BY <2>5, <4>1 DEF Direct!Takes
      <4> QED BY <2>5, <3>1, <4>2 DEF Direct!Effect
    <3>2. CASE r.path # "/api/nats"
      <4>1. cosmos' = CallCosmos(cosmos, r).store /\ UNCHANGED <<cells, last>>
        BY <1>84, <2>1, <3>2 DEF Late
      <4>2. cosmos' = [cosmos EXCEPT ![r.item] = CASE r.method = "PUT" -> r.body
                                                   [] r.method = "DELETE" -> << >>
                                                   [] OTHER -> @]
        BY <1>0, <4>1, CosmosFacts DEF ApiInv
      <4>3. Direct!CosmosTakes(k)
        BY <2>5, <4>1, <4>2 DEF Direct!CosmosTakes
      <4> QED BY <2>5, <3>2, <4>3 DEF Direct!Effect
    <3> QED BY <3>1, <3>2
  <2> QED BY <2>2, <2>6, <2>7 DEF Direct!Late, Seen, SeenLate
<1>9. ASSUME NEW g \in Token, RotateUi(g) PROVE UNCHANGED Direct!directVars
  BY <1>1, <1>9 DEF RotateUi, Seen
<1>10. CASE UNCHANGED proxyVars
  BY <1>1, <1>10 DEF proxyVars, Seen
<1>11. CASE \E c \in Client, r \in Request : AskApp(c, r)
  <2>1. PICK c \in Client, r \in Request : Direct!Call(c, AsKeyed(r))
    BY <1>2, <1>11
  <2> QED BY <2>1 DEF Direct!DirectNext
<1>12. CASE \E c \in Client : Turned(c) \/ Forward(c) \/ Adapter(c) \/ Managed(c) \/ Receive(c) \/ Lose(c)
  BY <1>3, <1>4, <1>5, <1>6, <1>7, <1>8, <1>12 DEF Direct!DirectNext
<1>13. CASE \E c \in Client, o \in Orphan : Abandon(c, o)
  BY <1>13, <1>81 DEF Direct!DirectNext
<1>14. CASE \E o \in Orphan : Late(o) \/ Never(o)
  BY <1>14, <1>83, <1>84 DEF Direct!DirectNext
<1> QED BY <1>9, <1>10, <1>11, <1>12, <1>13, <1>14 DEF ProxyNext
-----------------------------------------------------------------------------
(* The verification page *)

\* The messages that the calls of a test write when all goes well, in order.
Message(k, v, i) == [key |-> k, val |-> v, del |-> FALSE, if |-> i]
Deletion == [key |-> 1, val |-> 0, del |-> TRUE, if |-> AnyRev]

WrittenBy ==
    << <<Message(1, 1, AnyRev)>>,
       <<Message(1, 1, AnyRev), Deletion>>,
       <<Message(1, 1, AnyRev), Message(1, 2, AnyRev), Message(1, 3, AnyRev)>>,
       <<Message(1, 1, AnyRev), Message(1, 2, AnyRev)>>,
       <<Message(1, 1, AnyRev), Message(1, 2, 1)>>,
       <<Message(1, 1, AnyRev), Message(1, 2, AnyRev)>>,
       [i \in 1 .. 5 |-> Message(1, i, i - 1)],
       <<Message(1, 1, AnyRev), Message(2, 1, AnyRev), Message(3, 1, AnyRev)>>,
       <<Message(1, 1, AnyRev)>>,
       << >> >>

\* The bucket is as the calls made so far leave it.
AsWritten ==
    LET made == IF step # 0 THEN step - 1 ELSE Len(Tests[test])
    IN  /\ Len(stored) <= Len(WrittenBy[test])
        /\ IF made <= Len(WrittenBy[test]) THEN Len(stored) = made
                                           ELSE Len(stored) = Len(WrittenBy[test])
        /\ \A i \in DOMAIN stored : stored[i] = WrittenBy[test][i]
        /\ test \in {4, 5, 6} /\ made > 0 => kept = 1

Alive == step # 0 \/ verdict = "pass"

VerifyInv ==
    /\ VerifyTypeOK
    /\ test = 0 => step = 0 /\ verdict = "none"
    /\ test # 0 => step <= Len(Tests[test]) /\ (step = 0 <=> verdict # "none")
    /\ "call" \notin blame => late = {} /\ (test # 0 /\ Alive => AsWritten)
    /\ test = 4 /\ Alive /\ step # 1 => kept # 0
    /\ test = 5 /\ Alive => "call" \notin blame
    /\ FailureHasACause
    /\ verdict = "pass" /\ test \in {1, 3, 4, 7, 8, 9} => Claim(test)
-----------------------------------------------------------------------------
\* The calls of every test.
LEMMA TheTests ==
    /\ Len(Tests) = 10
    /\ Tests[1] = <<Put(1, Accepted), Ask("GET", Valued(1))>>
    /\ Tests[2] = <<Put(1, Answers), Ask("DELETE", Deleted), Ask("GET", Missing)>>
    /\ Tests[3] = <<Put(1, Answers), Put(2, Answers), Put(3, Answers), Ask("HISTORY", ThreeOrMore)>>
    /\ Tests[4] = <<Put(1, Accepted), Put(2, Answers), Ask("REVISION", Valued(1))>>
    /\ Tests[5] = <<Put(1, Accepted), PutIfMatch(2, Accepted)>>
    /\ Tests[6] = <<Put(1, Accepted), Put(2, Answers), PutIfMatch(3, Refused)>>
    /\ Tests[7] = [i \in 1 .. 6 |-> IF i < 6 THEN Incr ELSE Ask("GET", Valued(5))]
    /\ Tests[8] = <<PutKey(1), PutKey(2), PutKey(3), Ask("KEYS", ThreeOrMore)>>
    /\ Tests[9] = <<Put(1, Answers), Ask("TIMED", Valued(1))>>
    /\ Tests[10] = <<Ask("LIST", Valued(1))>>
  BY DEF Tests

\* How many calls the tests make ...
LEMMA TestLengths ==
    /\ Len(Tests[1]) = 2 /\ Len(Tests[2]) = 3 /\ Len(Tests[3]) = 4 /\ Len(Tests[4]) = 3
    /\ Len(Tests[5]) = 2 /\ Len(Tests[6]) = 3 /\ Len(Tests[7]) = 6 /\ Len(Tests[8]) = 4
    /\ Len(Tests[9]) = 2 /\ Len(Tests[10]) = 1
<1>1. Len(Tests[7]) = 6
  <2>1. Tests[7] \in Seq({Incr, Ask("GET", Valued(5))}) /\ DOMAIN Tests[7] = 1 .. 6
    BY TheTests
  <2>2. PICK len \in Nat : len = Len(Tests[7]) /\ DOMAIN Tests[7] = 1 .. len
    BY <2>1, LenProperties
  <2>3. 1 .. 6 = 1 .. len
    BY <2>1, <2>2
  <2>4. len = 6
    BY <2>3
  <2> QED BY <2>2, <2>4
<1>2. QED BY <1>1, TheTests

\* The call under way: what it asks for, and the answers that let the test go on.
IsCall(op, key, val, cas, good) ==
    /\ Current.op = op /\ Current.key = key /\ Current.val = val /\ Current.cas = cas
    /\ Current.good = good

\* A call that is under way is one of these.
LEMMA TheCalls ==
    ASSUME test \in 1 .. 10, step \in 1 .. Len(Tests[test])
    PROVE  /\ test = 1 => \/ step = 1 /\ IsCall("PUT", 1, 1, FALSE, Accepted)
                          \/ step = 2 /\ IsCall("GET", 1, 0, FALSE, Valued(1))
           /\ test = 2 => \/ step = 1 /\ IsCall("PUT", 1, 1, FALSE, Answers)
                          \/ step = 2 /\ IsCall("DELETE", 1, 0, FALSE, Deleted)
                          \/ step = 3 /\ IsCall("GET", 1, 0, FALSE, Missing)
           /\ test = 3 => \/ step \in 1 .. 3 /\ IsCall("PUT", 1, step, FALSE, Answers)
                          \/ step = 4 /\ IsCall("HISTORY", 1, 0, FALSE, ThreeOrMore)
           /\ test = 4 => \/ step = 1 /\ IsCall("PUT", 1, 1, FALSE, Accepted)
                          \/ step = 2 /\ IsCall("PUT", 1, 2, FALSE, Answers)
                          \/ step = 3 /\ IsCall("REVISION", 1, 0, FALSE, Valued(1))
           /\ test = 5 => \/ step = 1 /\ IsCall("PUT", 1, 1, FALSE, Accepted)
                          \/ step = 2 /\ IsCall("PUT", 1, 2, TRUE, Accepted)
           /\ test = 6 => \/ step = 1 /\ IsCall("PUT", 1, 1, FALSE, Accepted)
                          \/ step = 2 /\ IsCall("PUT", 1, 2, FALSE, Answers)
                          \/ step = 3 /\ IsCall("PUT", 1, 3, TRUE, Refused)
           /\ test = 7 => \/ step \in 1 .. 5 /\ IsCall("INCR", 1, 0, FALSE, Counted)
                          \/ step = 6 /\ IsCall("GET", 1, 0, FALSE, Valued(5))
           /\ test = 8 => \/ step \in 1 .. 3 /\ IsCall("PUT", step, 1, FALSE, Accepted)
                          \/ step = 4 /\ IsCall("KEYS", 1, 0, FALSE, ThreeOrMore)
           /\ test = 9 => \/ step = 1 /\ IsCall("PUT", 1, 1, FALSE, Answers)
                          \/ step = 2 /\ IsCall("TIMED", 1, 0, FALSE, Valued(1))
           /\ test = 10 => step = 1 /\ IsCall("LIST", 1, 0, FALSE, Valued(1))
<1>1. CASE test = 1
  <2>1. Tests[1] = <<Put(1, Accepted), Ask("GET", Valued(1))>>
    BY TheTests
  <2> QED BY <1>1, <2>1, TestLengths DEF Current, IsCall, Step, Put, Ask
<1>2. CASE test = 2
  <2>1. Tests[2] = <<Put(1, Answers), Ask("DELETE", Deleted), Ask("GET", Missing)>>
    BY TheTests
  <2> QED BY <1>2, <2>1, TestLengths DEF Current, IsCall, Step, Put, Ask
<1>3. CASE test = 3
  <2>1. Tests[3] = <<Put(1, Answers), Put(2, Answers), Put(3, Answers), Ask("HISTORY", ThreeOrMore)>>
    BY TheTests
  <2> QED BY <1>3, <2>1, TestLengths DEF Current, IsCall, Step, Put, Ask
<1>4. CASE test = 4
  <2>1. Tests[4] = <<Put(1, Accepted), Put(2, Answers), Ask("REVISION", Valued(1))>>
    BY TheTests
  <2> QED BY <1>4, <2>1, TestLengths DEF Current, IsCall, Step, Put, Ask
<1>5. CASE test = 5
  <2>1. Tests[5] = <<Put(1, Accepted), PutIfMatch(2, Accepted)>>
    BY TheTests
  <2> QED BY <1>5, <2>1, TestLengths DEF Current, IsCall, Step, Put, PutIfMatch
<1>6. CASE test = 6
  <2>1. Tests[6] = <<Put(1, Accepted), Put(2, Answers), PutIfMatch(3, Refused)>>
    BY TheTests
  <2> QED BY <1>6, <2>1, TestLengths DEF Current, IsCall, Step, Put, PutIfMatch
<1>7. CASE test = 7
  <2>1. Tests[7] = [i \in 1 .. 6 |-> IF i < 6 THEN Incr ELSE Ask("GET", Valued(5))]
    BY TheTests
  <2> QED BY <1>7, <2>1, TestLengths DEF Current, IsCall, Step, Incr, Ask
<1>8. CASE test = 8
  <2>1. Tests[8] = <<PutKey(1), PutKey(2), PutKey(3), Ask("KEYS", ThreeOrMore)>>
    BY TheTests
  <2> QED BY <1>8, <2>1, TestLengths DEF Current, IsCall, Step, PutKey, Ask
<1>9. CASE test = 9
  <2>1. Tests[9] = <<Put(1, Answers), Ask("TIMED", Valued(1))>>
    BY TheTests
  <2> QED BY <1>9, <2>1, TestLengths DEF Current, IsCall, Step, Put, Ask
<1>10. CASE test = 10
  <2>1. Tests[10] = <<Ask("LIST", Valued(1))>>
    BY TheTests
  <2> QED BY <1>10, <2>1, TestLengths DEF Current, IsCall, Step, Ask
<1>11. QED BY <1>1, <1>2, <1>3, <1>4, <1>5, <1>6, <1>7, <1>8, <1>9, <1>10

-----------------------------------------------------------------------------
\* What the adapter gets of a call.
LEMMA UpstreamFields ==
    ASSUME NEW s
    PROVE  /\ Upstream(s).method = s.op /\ Upstream(s).item = s.key /\ Upstream(s).body = s.val
           /\ Upstream(s).ifMatch = IF s.cas THEN kept ELSE 0
  BY DEF Upstream, CallNats

\* ... and how many messages they write when all goes well.
LEMMA WrittenLengths ==
    /\ Len(WrittenBy[1]) = 1 /\ Len(WrittenBy[2]) = 2 /\ Len(WrittenBy[3]) = 3 /\ Len(WrittenBy[4]) = 2
    /\ Len(WrittenBy[5]) = 2 /\ Len(WrittenBy[6]) = 2 /\ Len(WrittenBy[7]) = 5 /\ Len(WrittenBy[8]) = 3
    /\ Len(WrittenBy[9]) = 1 /\ Len(WrittenBy[10]) = 0
<1>1. Len(WrittenBy[7]) = 5
  <2>1. WrittenBy[7] \in Seq({Message(1, i, i - 1) : i \in 1 .. 5}) /\ DOMAIN WrittenBy[7] = 1 .. 5
    BY DEF WrittenBy
  <2>2. PICK len \in Nat : len = Len(WrittenBy[7]) /\ DOMAIN WrittenBy[7] = 1 .. len
    BY <2>1, LenProperties
  <2>3. 1 .. 5 = 1 .. len
    BY <2>1, <2>2
  <2>4. len = 5
    BY <2>3
  <2> QED BY <2>2, <2>4
<1>2. QED BY <1>1 DEF WrittenBy

\* A write that goes well stores the next message of its test.
LEMMA TheWrites ==
    ASSUME test \in 1 .. 10, step \in 1 .. Len(Tests[test])
    PROVE  /\ Len(WrittenBy[test]) \in 0 .. 5 /\ Len(WrittenBy[test]) <= Len(Tests[test])
           /\ Current.op \in {"PUT", "DELETE", "INCR"} /\ ~(test = 6 /\ step = 3) =>
                 step <= Len(WrittenBy[test])
           /\ Current.op \notin {"PUT", "DELETE", "INCR"} \/ (test = 6 /\ step = 3) =>
                 step > Len(WrittenBy[test])
           /\ Current.op \in {"PUT", "DELETE"} /\ ~(test = 6 /\ step = 3) /\ (test = 5 /\ step = 2 => kept = 1) =>
                 Entry(Upstream(Current)) = WrittenBy[test][step]
<1> DEFINE up == Upstream(Current)
<1>1. up.method = Current.op /\ up.item = Current.key /\ up.body = Current.val
      /\ up.ifMatch = IF Current.cas THEN kept ELSE 0
  BY UpstreamFields
<1>2. /\ Current.op = "PUT" =>
         Entry(up) = Message(Current.key, Current.val, IF Current.cas /\ kept # 0 THEN kept ELSE AnyRev)
      /\ Current.op = "DELETE" /\ Current.key = 1 /\ Current.val = 0 /\ Current.cas = FALSE =>
         Entry(up) = Deletion
  <2>1. CASE Current.op = "PUT"
    <3>1. (up.method = "DELETE") = FALSE
      BY <1>1, <2>1
    <3> QED BY <1>1, <2>1, <3>1 DEF Entry, Message
  <2>2. CASE Current.op = "DELETE"
    <3>1. (up.method = "DELETE") = TRUE
      BY <1>1, <2>2
    <3> QED BY <1>1, <2>2, <3>1 DEF Entry, Deletion
  <2> QED BY <2>1, <2>2
<1> DEFINE Lengths == /\ Len(WrittenBy[test]) \in 0 .. 5 /\ Len(WrittenBy[test]) <= Len(Tests[test])
                      /\ Current.op \in {"PUT", "DELETE", "INCR"} /\ ~(test = 6 /\ step = 3) =>
                            step <= Len(WrittenBy[test])
                      /\ Current.op \notin {"PUT", "DELETE", "INCR"} \/ (test = 6 /\ step = 3) =>
                            step > Len(WrittenBy[test])
           Stores == Current.op \in {"PUT", "DELETE"} /\ ~(test = 6 /\ step = 3)
                        /\ (test = 5 /\ step = 2 => kept = 1)
                     => Entry(up) = WrittenBy[test][step]
<1> HIDE DEF up
<1>3. ASSUME test = 1 PROVE Lengths /\ Stores
  <2>1. \/ step = 1 /\ IsCall("PUT", 1, 1, FALSE, Accepted)
        \/ step = 2 /\ IsCall("GET", 1, 0, FALSE, Valued(1))
    BY <1>3, TheCalls
  <2>2. WrittenBy[1] = <<Message(1, 1, AnyRev)>>
    BY DEF WrittenBy
  <2>3. Len(WrittenBy[test]) = 1 /\ Len(Tests[test]) = 2
    BY <1>3, TestLengths, WrittenLengths
  <2>4. Lengths
    BY <1>3, <2>1, <2>3 DEF IsCall
  <2>5. Stores
    BY <1>2, <1>3, <2>1, <2>2 DEF IsCall
  <2> QED BY <2>4, <2>5
<1>4. ASSUME test = 2 PROVE Lengths /\ Stores
  <2>1. \/ step = 1 /\ IsCall("PUT", 1, 1, FALSE, Answers)
        \/ step = 2 /\ IsCall("DELETE", 1, 0, FALSE, Deleted)
        \/ step = 3 /\ IsCall("GET", 1, 0, FALSE, Missing)
    BY <1>4, TheCalls
  <2>2. WrittenBy[2] = <<Message(1, 1, AnyRev), Deletion>>
    BY DEF WrittenBy
  <2>3. Len(WrittenBy[test]) = 2 /\ Len(Tests[test]) = 3
    BY <1>4, TestLengths, WrittenLengths
  <2>4. Lengths
    BY <1>4, <2>1, <2>3 DEF IsCall
  <2>5. Stores
    BY <1>2, <1>4, <2>1, <2>2 DEF IsCall
  <2> QED BY <2>4, <2>5
<1>5. ASSUME test = 3 PROVE Lengths /\ Stores
  <2>1. \/ step \in 1 .. 3 /\ IsCall("PUT", 1, step, FALSE, Answers)
        \/ step = 4 /\ IsCall("HISTORY", 1, 0, FALSE, ThreeOrMore)
    BY <1>5, TheCalls
  <2>2. WrittenBy[3] = <<Message(1, 1, AnyRev), Message(1, 2, AnyRev), Message(1, 3, AnyRev)>>
    BY DEF WrittenBy
  <2>3. Len(WrittenBy[test]) = 3 /\ Len(Tests[test]) = 4
    BY <1>5, TestLengths, WrittenLengths
  <2>4. Lengths
    BY <1>5, <2>1, <2>3 DEF IsCall
  <2>5. Stores
    BY <1>2, <1>5, <2>1, <2>2 DEF IsCall
  <2> QED BY <2>4, <2>5
<1>6. ASSUME test = 4 PROVE Lengths /\ Stores
  <2>1. \/ step = 1 /\ IsCall("PUT", 1, 1, FALSE, Accepted)
        \/ step = 2 /\ IsCall("PUT", 1, 2, FALSE, Answers)
        \/ step = 3 /\ IsCall("REVISION", 1, 0, FALSE, Valued(1))
    BY <1>6, TheCalls
  <2>2. WrittenBy[4] = <<Message(1, 1, AnyRev), Message(1, 2, AnyRev)>>
    BY DEF WrittenBy
  <2>3. Len(WrittenBy[test]) = 2 /\ Len(Tests[test]) = 3
    BY <1>6, TestLengths, WrittenLengths
  <2>4. Lengths
    BY <1>6, <2>1, <2>3 DEF IsCall
  <2>5. Stores
    BY <1>2, <1>6, <2>1, <2>2 DEF IsCall
  <2> QED BY <2>4, <2>5
<1>7. ASSUME test = 5 PROVE Lengths /\ Stores
  <2>1. \/ step = 1 /\ IsCall("PUT", 1, 1, FALSE, Accepted)
        \/ step = 2 /\ IsCall("PUT", 1, 2, TRUE, Accepted)
    BY <1>7, TheCalls
  <2>2. WrittenBy[5] = <<Message(1, 1, AnyRev), Message(1, 2, 1)>>
    BY DEF WrittenBy
  <2>3. Len(WrittenBy[test]) = 2 /\ Len(Tests[test]) = 2
    BY <1>7, TestLengths, WrittenLengths
  <2>4. Lengths
    BY <1>7, <2>1, <2>3 DEF IsCall
  <2>5. Stores
    BY <1>2, <1>7, <2>1, <2>2 DEF IsCall
  <2> QED BY <2>4, <2>5
<1>8. ASSUME test = 6 PROVE Lengths /\ Stores
  <2>1. \/ step = 1 /\ IsCall("PUT", 1, 1, FALSE, Accepted)
        \/ step = 2 /\ IsCall("PUT", 1, 2, FALSE, Answers)
        \/ step = 3 /\ IsCall("PUT", 1, 3, TRUE, Refused)
    BY <1>8, TheCalls
  <2>2. WrittenBy[6] = <<Message(1, 1, AnyRev), Message(1, 2, AnyRev)>>
    BY DEF WrittenBy
  <2>3. Len(WrittenBy[test]) = 2 /\ Len(Tests[test]) = 3
    BY <1>8, TestLengths, WrittenLengths
  <2>4. Lengths
    BY <1>8, <2>1, <2>3 DEF IsCall
  <2>5. Stores
    BY <1>2, <1>8, <2>1, <2>2 DEF IsCall
  <2> QED BY <2>4, <2>5
<1>9. ASSUME test = 7 PROVE Lengths /\ Stores
  <2>1. \/ step \in 1 .. 5 /\ IsCall("INCR", 1, 0, FALSE, Counted)
        \/ step = 6 /\ IsCall("GET", 1, 0, FALSE, Valued(5))
    BY <1>9, TheCalls
  <2>2. WrittenBy[7] = [i \in 1 .. 5 |-> Message(1, i, i - 1)]
    BY DEF WrittenBy
  <2>3. Len(WrittenBy[test]) = 5 /\ Len(Tests[test]) = 6
    BY <1>9, TestLengths, WrittenLengths
  <2>4. Lengths
    BY <1>9, <2>1, <2>3 DEF IsCall
  <2>5. Stores
    BY <1>2, <1>9, <2>1, <2>2 DEF IsCall
  <2> QED BY <2>4, <2>5
<1>10. ASSUME test = 8 PROVE Lengths /\ Stores
  <2>1. \/ step \in 1 .. 3 /\ IsCall("PUT", step, 1, FALSE, Accepted)
        \/ step = 4 /\ IsCall("KEYS", 1, 0, FALSE, ThreeOrMore)
    BY <1>10, TheCalls
  <2>2. WrittenBy[8] = <<Message(1, 1, AnyRev), Message(2, 1, AnyRev), Message(3, 1, AnyRev)>>
    BY DEF WrittenBy
  <2>3. Len(WrittenBy[test]) = 3 /\ Len(Tests[test]) = 4
    BY <1>10, TestLengths, WrittenLengths
  <2>4. Lengths
    BY <1>10, <2>1, <2>3 DEF IsCall
  <2>5. Stores
    BY <1>2, <1>10, <2>1, <2>2 DEF IsCall
  <2> QED BY <2>4, <2>5
<1>11. ASSUME test = 9 PROVE Lengths /\ Stores
  <2>1. \/ step = 1 /\ IsCall("PUT", 1, 1, FALSE, Answers)
        \/ step = 2 /\ IsCall("TIMED", 1, 0, FALSE, Valued(1))
    BY <1>11, TheCalls
  <2>2. WrittenBy[9] = <<Message(1, 1, AnyRev)>>
    BY DEF WrittenBy
  <2>3. Len(WrittenBy[test]) = 1 /\ Len(Tests[test]) = 2
    BY <1>11, TestLengths, WrittenLengths
  <2>4. Lengths
    BY <1>11, <2>1, <2>3 DEF IsCall
  <2>5. Stores
    BY <1>2, <1>11, <2>1, <2>2 DEF IsCall
  <2> QED BY <2>4, <2>5
<1>12. ASSUME test = 10 PROVE Lengths /\ Stores
  <2>1. step = 1 /\ IsCall("LIST", 1, 0, FALSE, Valued(1))
    BY <1>12, TheCalls
  <2>2. WrittenBy[10] = << >>
    BY DEF WrittenBy
  <2>3. Len(WrittenBy[test]) = 0 /\ Len(Tests[test]) = 1
    BY <1>12, TestLengths, WrittenLengths
  <2>4. Lengths
    BY <1>12, <2>1, <2>3 DEF IsCall
  <2>5. Stores
    BY <1>2, <1>12, <2>1, <2>2 DEF IsCall
  <2> QED BY <2>4, <2>5
<1>13. Lengths /\ Stores
  BY <1>3, <1>4, <1>5, <1>6, <1>7, <1>8, <1>9, <1>10, <1>11, <1>12
<1>14. QED BY <1>13 DEF up
-----------------------------------------------------------------------------
Calling == test \in 1 .. 10 /\ step \in 1 .. Len(Tests[test]) /\ verdict = "none"

\* A step that is not 0 is a call of a test under way.
LEMMA CallingNow == VerifyInv /\ test # 0 /\ step # 0 => Calling
<1> SUFFICES ASSUME VerifyInv, test # 0, step # 0 PROVE Calling
  OBVIOUS
<1>1. test \in 0 .. 10 /\ step \in 0 .. 6 /\ step <= Len(Tests[test]) /\ verdict = "none"
  BY TheTests DEF VerifyInv, VerifyTypeOK
<1>2. Len(Tests[test]) \in Nat
  BY <1>1, TestLengths
<1> QED BY <1>1, <1>2 DEF Calling

\* Where the answer to a call takes the test.
LEMMA Judged ==
    ASSUME Calling, NEW answer, Judge(answer)
    PROVE  /\ step' \in 0 .. 6 /\ verdict' \in {"none", "pass", "fail"}
           /\ answer \in Current.good /\ step < Len(Tests[test]) => step' = step + 1 /\ verdict' = "none"
           /\ answer \in Current.good /\ step = Len(Tests[test]) => step' = 0 /\ verdict' = "pass"
           /\ answer \notin Current.good => step' = 0 /\ verdict' = "fail"
           /\ step' <= Len(Tests[test]) /\ (step' = 0 <=> verdict' # "none")
<1>1. Len(Tests[test]) \in 1 .. 6 /\ step \in 1 .. Len(Tests[test])
  BY TestLengths DEF Calling
<1>2. CASE answer \notin Current.good
  BY <1>1, <1>2 DEF Judge
<1>3. CASE answer \in Current.good /\ step < Len(Tests[test])
  <2>1. step' = step + 1
    BY <1>3 DEF Judge
  <2>2. verdict' = "none"
    BY <1>1, <1>3 DEF Judge
  <2>3. PICK len \in 1 .. 6 : len = Len(Tests[test])
    BY <1>1
  <2>4. step \in 1 .. len /\ step < len
    BY <1>1, <1>3, <2>3
  <2>5. step + 1 \in 0 .. 6 /\ step + 1 <= len /\ step + 1 # 0 /\ step # len
    BY <2>4
  <2> QED BY <1>3, <2>1, <2>2, <2>3, <2>5
<1>4. CASE answer \in Current.good /\ step = Len(Tests[test])
  BY <1>1, <1>4 DEF Judge
<1> QED BY <1>1, <1>2, <1>3, <1>4

\* The test has gone on.
Went == \/ step' = step + 1 /\ verdict' = "none"
        \/ step' = 0 /\ verdict' = "pass" /\ step = Len(Tests[test])

\* A bucket that is as the calls leave it stays so when the next message is stored ...
LEMMA WrittenNext ==
    ASSUME VerifyTypeOK, Calling, AsWritten, Went, test' = test,
           step <= Len(WrittenBy[test]), stored' = Append(stored, WrittenBy[test][step]),
           test \in {4, 5, 6} => kept' = IF step = 1 THEN 1 ELSE kept
    PROVE  AsWritten'
<1> DEFINE W == WrittenBy[test]
<1>1. Len(W) \in 0 .. 5 /\ step \in 1 .. Len(Tests[test]) /\ step \in Nat
  BY TheWrites DEF Calling
<1>2. Len(stored) = step - 1 /\ Len(stored) <= Len(W) /\ \A i \in DOMAIN stored : stored[i] = W[i]
  BY <1>1 DEF AsWritten
<1>3. stored \in Seq(EntryType)
  BY DEF VerifyTypeOK
<1> HIDE DEF W
<1>4. Len(stored') = step /\ DOMAIN stored' = 1 .. step /\ stored'[step] = W[step]
      /\ \A i \in 1 .. step - 1 : stored'[i] = stored[i]
  BY <1>1, <1>2, <1>3 DEF W
<1>5. \A i \in DOMAIN stored' : stored'[i] = W[i]
  BY <1>1, <1>2, <1>3, <1>4
<1>6. (IF step' # 0 THEN step' - 1 ELSE Len(Tests[test])) = step
  BY <1>1 DEF Went
<1>7. test \in {4, 5, 6} => kept' = 1
  BY <1>1 DEF AsWritten
<1>8. Len(stored') = step /\ step <= Len(W) /\ step > 0
  BY <1>1, <1>4 DEF W
<1>9. QED BY <1>5, <1>6, <1>7, <1>8, <1>1 DEF AsWritten, W

\* ... and when the call that was answered writes nothing.
LEMMA NothingWritten ==
    ASSUME Calling, AsWritten, Went, test' = test,
           step > Len(WrittenBy[test]), stored' = stored, kept' = kept
    PROVE  AsWritten'
<1>1. Len(WrittenBy[test]) \in 0 .. 5 /\ step \in 1 .. Len(Tests[test]) /\ step \in Nat
  BY TheWrites DEF Calling
<1>2. (IF step' # 0 THEN step' - 1 ELSE Len(Tests[test])) = step
  BY <1>1 DEF Went
<1>3. test \in {4, 5, 6} => step > 1
  <2>1. test \in {4, 5, 6} => Len(WrittenBy[test]) = 2
    BY WrittenLengths
  <2>2. PICK len \in 0 .. 5 : len = Len(WrittenBy[test])
    BY <1>1
  <2>3. step > len
    BY <2>2
  <2>4. len = 2 => step > 1
    BY <1>1, <2>3
  <2> QED BY <2>1, <2>2, <2>4
<1>4. /\ Len(stored) = Len(WrittenBy[test]) /\ \A i \in DOMAIN stored : stored[i] = WrittenBy[test][i]
      /\ test \in {4, 5, 6} => kept = 1
  BY <1>1, <1>3 DEF AsWritten
<1>5. QED BY <1>1, <1>2, <1>4 DEF AsWritten
-----------------------------------------------------------------------------
\* The PUTs of the tests,
LEMMA PutCalls ==
    ASSUME Calling, Current.op = "PUT"
    PROVE  /\ Current.key \in 1 .. 3 /\ Current.val \in Nat
           /\ Current.good \in {Accepted, Answers} \/ (test = 6 /\ step = 3)
           /\ test = 6 /\ step = 3 => Current.good = Refused
           /\ test = 5 => Current.good = Accepted
           /\ Current.cas = FALSE \/ Current.cas = TRUE
           /\ Current.cas <=> (test = 5 /\ step = 2) \/ (test = 6 /\ step = 3)
           /\ step = Len(Tests[test]) => test \in {5, 6}
<1>1. test \in 1 .. 10 /\ step \in 1 .. Len(Tests[test])
  BY DEF Calling
<1>2. \/ test \in {1, 4, 5, 6} /\ step = 1 /\ IsCall("PUT", 1, 1, FALSE, Accepted)
      \/ test \in {2, 9} /\ step = 1 /\ IsCall("PUT", 1, 1, FALSE, Answers)
      \/ test = 3 /\ step \in 1 .. 3 /\ IsCall("PUT", 1, step, FALSE, Answers)
      \/ test \in {4, 6} /\ step = 2 /\ IsCall("PUT", 1, 2, FALSE, Answers)
      \/ test = 5 /\ step = 2 /\ IsCall("PUT", 1, 2, TRUE, Accepted)
      \/ test = 6 /\ step = 3 /\ IsCall("PUT", 1, 3, TRUE, Refused)
      \/ test = 8 /\ step \in 1 .. 3 /\ IsCall("PUT", step, 1, FALSE, Accepted)
  <2>1. CASE test = 1
    BY <1>1, <2>1, TheCalls DEF IsCall
  <2>2. CASE test = 2
    BY <1>1, <2>2, TheCalls DEF IsCall
  <2>3. CASE test = 3
    BY <1>1, <2>3, TheCalls DEF IsCall
  <2>4. CASE test = 4
    BY <1>1, <2>4, TheCalls DEF IsCall
  <2>5. CASE test = 5
    BY <1>1, <2>5, TheCalls DEF IsCall
  <2>6. CASE test = 6
    BY <1>1, <2>6, TheCalls DEF IsCall
  <2>7. CASE test = 7
    BY <1>1, <2>7, TheCalls DEF IsCall
  <2>8. CASE test = 8
    BY <1>1, <2>8, TheCalls DEF IsCall
  <2>9. CASE test = 9
    BY <1>1, <2>9, TheCalls DEF IsCall
  <2>10. CASE test = 10
    BY <1>1, <2>10, TheCalls DEF IsCall
  <2>11. \/ test = 1 \/ test = 2 \/ test = 3 \/ test = 4 \/ test = 5
         \/ test = 6 \/ test = 7 \/ test = 8 \/ test = 9 \/ test = 10
    BY <1>1
  <2> QED BY ONLY <2>1, <2>2, <2>3, <2>4, <2>5, <2>6, <2>7, <2>8, <2>9, <2>10, <2>11, ZenonT(30)
<1>3. step = Len(Tests[test]) => test \in {5, 6}
  <2>1. PICK len \in 1 .. 6 : len = Len(Tests[test])
    BY <1>1, TestLengths
  <2>2. /\ (test = 1 => len = 2) /\ (test = 2 => len = 3) /\ (test = 3 => len = 4) /\ (test = 4 => len = 3)
        /\ (test = 8 => len = 4) /\ (test = 9 => len = 2)
    BY <2>1, TestLengths
  <2>3. \/ test \in {1, 2, 4, 9} /\ step \in 1 .. 2 /\ (test # 4 => step = 1)
        \/ test \in {3, 8} /\ step \in 1 .. 3
        \/ test \in {5, 6}
    BY ONLY <1>2 DEF IsCall
  <2>4. step = len => test \in {5, 6}
    BY ONLY <2>2, <2>3
  <2> QED BY <2>1, <2>4
<1>4. QED BY <1>2, <1>3 DEF IsCall

\* the only DELETE,
LEMMA DeleteCalls ==
    ASSUME Calling, Current.op = "DELETE"
    PROVE  test = 2 /\ step = 2 /\ IsCall("DELETE", 1, 0, FALSE, Deleted)
<1>1. test \in 1 .. 10 /\ step \in 1 .. Len(Tests[test])
  BY DEF Calling
<1>2. QED
  <2>1. CASE test = 1
    BY <1>1, <2>1, TheCalls DEF IsCall
  <2>2. CASE test = 2
    BY <1>1, <2>2, TheCalls DEF IsCall
  <2>3. CASE test = 3
    BY <1>1, <2>3, TheCalls DEF IsCall
  <2>4. CASE test = 4
    BY <1>1, <2>4, TheCalls DEF IsCall
  <2>5. CASE test = 5
    BY <1>1, <2>5, TheCalls DEF IsCall
  <2>6. CASE test = 6
    BY <1>1, <2>6, TheCalls DEF IsCall
  <2>7. CASE test = 7
    BY <1>1, <2>7, TheCalls DEF IsCall
  <2>8. CASE test = 8
    BY <1>1, <2>8, TheCalls DEF IsCall
  <2>9. CASE test = 9
    BY <1>1, <2>9, TheCalls DEF IsCall
  <2>10. CASE test = 10
    BY <1>1, <2>10, TheCalls DEF IsCall
  <2>11. \/ test = 1 \/ test = 2 \/ test = 3 \/ test = 4 \/ test = 5
         \/ test = 6 \/ test = 7 \/ test = 8 \/ test = 9 \/ test = 10
    BY <1>1
  <2> QED BY ONLY <2>1, <2>2, <2>3, <2>4, <2>5, <2>6, <2>7, <2>8, <2>9, <2>10, <2>11, ZenonT(30)

\* the increments,
LEMMA IncrCalls ==
    ASSUME Calling, Current.op = "INCR"
    PROVE  test = 7 /\ step \in 1 .. 5 /\ Current.good = Counted
<1>1. test \in 1 .. 10 /\ step \in 1 .. Len(Tests[test])
  BY DEF Calling
<1>2. QED
  <2>1. CASE test = 1
    BY <1>1, <2>1, TheCalls DEF IsCall
  <2>2. CASE test = 2
    BY <1>1, <2>2, TheCalls DEF IsCall
  <2>3. CASE test = 3
    BY <1>1, <2>3, TheCalls DEF IsCall
  <2>4. CASE test = 4
    BY <1>1, <2>4, TheCalls DEF IsCall
  <2>5. CASE test = 5
    BY <1>1, <2>5, TheCalls DEF IsCall
  <2>6. CASE test = 6
    BY <1>1, <2>6, TheCalls DEF IsCall
  <2>7. CASE test = 7
    BY <1>1, <2>7, TheCalls DEF IsCall
  <2>8. CASE test = 8
    BY <1>1, <2>8, TheCalls DEF IsCall
  <2>9. CASE test = 9
    BY <1>1, <2>9, TheCalls DEF IsCall
  <2>10. CASE test = 10
    BY <1>1, <2>10, TheCalls DEF IsCall
  <2>11. \/ test = 1 \/ test = 2 \/ test = 3 \/ test = 4 \/ test = 5
         \/ test = 6 \/ test = 7 \/ test = 8 \/ test = 9 \/ test = 10
    BY <1>1
  <2> QED BY ONLY <2>1, <2>2, <2>3, <2>4, <2>5, <2>6, <2>7, <2>8, <2>9, <2>10, <2>11, ZenonT(30)

\* and the reads, each the last call of its test.
LEMMA ReadCalls ==
    ASSUME Calling, Current.op \notin {"PUT", "DELETE", "INCR"}
    PROVE  /\ \/ test = 1 /\ Current.op = "GET" /\ Current.good = Valued(1)
              \/ test = 2 /\ Current.op = "GET" /\ Current.good = Missing
              \/ test = 3 /\ Current.op = "HISTORY" /\ Current.good = ThreeOrMore
              \/ test = 4 /\ Current.op = "REVISION" /\ Current.good = Valued(1)
              \/ test = 7 /\ Current.op = "GET" /\ Current.good = Valued(5)
              \/ test = 8 /\ Current.op = "KEYS" /\ Current.good = ThreeOrMore
              \/ test = 9 /\ Current.op = "TIMED" /\ Current.good = Valued(1)
              \/ test = 10 /\ Current.op = "LIST" /\ Current.good = Valued(1)
           /\ step = Len(Tests[test])
           /\ step # 1 \/ test = 10
<1>1. test \in 1 .. 10 /\ step \in 1 .. Len(Tests[test])
  BY DEF Calling
<1>2. \/ test = 1 /\ step = 2 /\ IsCall("GET", 1, 0, FALSE, Valued(1))
      \/ test = 2 /\ step = 3 /\ IsCall("GET", 1, 0, FALSE, Missing)
      \/ test = 3 /\ step = 4 /\ IsCall("HISTORY", 1, 0, FALSE, ThreeOrMore)
      \/ test = 4 /\ step = 3 /\ IsCall("REVISION", 1, 0, FALSE, Valued(1))
      \/ test = 7 /\ step = 6 /\ IsCall("GET", 1, 0, FALSE, Valued(5))
      \/ test = 8 /\ step = 4 /\ IsCall("KEYS", 1, 0, FALSE, ThreeOrMore)
      \/ test = 9 /\ step = 2 /\ IsCall("TIMED", 1, 0, FALSE, Valued(1))
      \/ test = 10 /\ step = 1 /\ IsCall("LIST", 1, 0, FALSE, Valued(1))
  <2>1. CASE test = 1
    BY <1>1, <2>1, TheCalls DEF IsCall
  <2>2. CASE test = 2
    BY <1>1, <2>2, TheCalls DEF IsCall
  <2>3. CASE test = 3
    BY <1>1, <2>3, TheCalls DEF IsCall
  <2>4. CASE test = 4
    BY <1>1, <2>4, TheCalls DEF IsCall
  <2>5. CASE test = 5
    BY <1>1, <2>5, TheCalls DEF IsCall
  <2>6. CASE test = 6
    BY <1>1, <2>6, TheCalls DEF IsCall
  <2>7. CASE test = 7
    BY <1>1, <2>7, TheCalls DEF IsCall
  <2>8. CASE test = 8
    BY <1>1, <2>8, TheCalls DEF IsCall
  <2>9. CASE test = 9
    BY <1>1, <2>9, TheCalls DEF IsCall
  <2>10. CASE test = 10
    BY <1>1, <2>10, TheCalls DEF IsCall
  <2>11. \/ test = 1 \/ test = 2 \/ test = 3 \/ test = 4 \/ test = 5
         \/ test = 6 \/ test = 7 \/ test = 8 \/ test = 9 \/ test = 10
    BY <1>1
  <2> QED BY ONLY <2>1, <2>2, <2>3, <2>4, <2>5, <2>6, <2>7, <2>8, <2>9, <2>10, <2>11, ZenonT(30)
<1>3. step = Len(Tests[test])
  <2>1. PICK len \in 1 .. 6 : len = Len(Tests[test])
    BY <1>1, TestLengths
  <2>2. /\ (test = 1 => len = 2) /\ (test = 2 => len = 3) /\ (test = 3 => len = 4) /\ (test = 4 => len = 3)
        /\ (test = 7 => len = 6) /\ (test = 8 => len = 4) /\ (test = 9 => len = 2) /\ (test = 10 => len = 1)
    BY <2>1, TestLengths
  <2> QED BY <1>2, <2>1, <2>2
<1>4. step # 1 \/ test = 10
  BY ONLY <1>2 DEF IsCall
<1>5. \/ test = 1 /\ Current.op = "GET" /\ Current.good = Valued(1)
      \/ test = 2 /\ Current.op = "GET" /\ Current.good = Missing
      \/ test = 3 /\ Current.op = "HISTORY" /\ Current.good = ThreeOrMore
      \/ test = 4 /\ Current.op = "REVISION" /\ Current.good = Valued(1)
      \/ test = 7 /\ Current.op = "GET" /\ Current.good = Valued(5)
      \/ test = 8 /\ Current.op = "KEYS" /\ Current.good = ThreeOrMore
      \/ test = 9 /\ Current.op = "TIMED" /\ Current.good = Valued(1)
      \/ test = 10 /\ Current.op = "LIST" /\ Current.good = Valued(1)
  BY <1>2 DEF IsCall
<1>6. QED BY <1>3, <1>4, <1>5

\* What a call has to keep for the invariant to hold after its answer.
LEMMA CallAnswered ==
    ASSUME VerifyInv, Calling, NEW answer, Judge(answer), UNCHANGED <<test, depth, passed, failed>>,
           stored' \in Seq(EntryType), late' \subseteq EntryType, kept' \in 0 .. Len(stored'),
           blame' \subseteq {"call", "lag", "slow"},
           "call" \notin blame' => late' = {} /\ (answer \in Current.good => AsWritten'),
           test = 4 /\ answer \in Current.good => kept' # 0,
           test = 5 /\ answer \in Current.good => "call" \notin blame',
           answer \notin Current.good => blame' # {} \/ TooShallow(test),
           answer \in Current.good /\ step = Len(Tests[test]) /\ test \in {1, 3, 4, 7, 8, 9} =>
               Claim(test)'
    PROVE  VerifyInv'
<1>1. /\ step' \in 0 .. 6 /\ verdict' \in {"none", "pass", "fail"}
      /\ answer \in Current.good /\ step < Len(Tests[test]) => step' = step + 1 /\ verdict' = "none"
      /\ answer \in Current.good /\ step = Len(Tests[test]) => step' = 0 /\ verdict' = "pass"
      /\ answer \notin Current.good => step' = 0 /\ verdict' = "fail"
      /\ step' <= Len(Tests[test]) /\ (step' = 0 <=> verdict' # "none")
  BY Judged
<1>2. test' = test /\ depth' = depth /\ passed' = passed /\ failed' = failed
  OBVIOUS
<1>3. VerifyTypeOK'
  BY <1>1, <1>2 DEF VerifyInv, VerifyTypeOK
<1>4. test \in 1 .. 10 /\ step \in Nat /\ step # 0
  BY DEF Calling
<1>5. /\ test' = 0 => step' = 0 /\ verdict' = "none"
      /\ test' # 0 => step' <= Len(Tests[test']) /\ (step' = 0 <=> verdict' # "none")
  BY <1>1, <1>2, <1>4
<1>6. PICK len \in 1 .. 6 : len = Len(Tests[test]) /\ step \in 1 .. len
  <2>1. Len(Tests[test]) \in 1 .. 6
    BY ONLY <1>4, TestLengths
  <2> QED BY <2>1 DEF Calling
<1>7. \/ answer \in Current.good /\ step < len /\ step' = step + 1 /\ verdict' = "none"
      \/ answer \in Current.good /\ step = len /\ step' = 0 /\ verdict' = "pass"
      \/ answer \notin Current.good /\ step' = 0 /\ verdict' = "fail"
  <2>1. CASE answer \notin Current.good
    BY <1>1, <2>1
  <2>2. CASE answer \in Current.good /\ step < len
    BY <1>1, <1>6, <2>2
  <2>3. CASE answer \in Current.good /\ step = len
    BY <1>1, <1>6, <2>3
  <2> QED BY <1>6, <2>1, <2>2, <2>3
<1>8. /\ step' # 0 \/ verdict' = "pass" => answer \in Current.good /\ step' # 1
      /\ verdict' = "pass" => answer \in Current.good /\ step = len
  BY ONLY <1>4, <1>7, 1 + 1 # 1
<1>9. Alive' => answer \in Current.good /\ step' # 1
  BY <1>8 DEF Alive
<1>10. /\ "call" \notin blame' => late' = {} /\ (test' # 0 /\ Alive' => AsWritten')
       /\ test' = 5 /\ Alive' => "call" \notin blame'
       /\ test' = 4 /\ Alive' /\ step' # 1 => kept' # 0
  BY <1>2, <1>9
<1>11. FailureHasACause'
  BY <1>2, <1>7 DEF FailureHasACause, TooShallow
<1>12. verdict' = "pass" /\ test' \in {1, 3, 4, 7, 8, 9} => Claim(test)'
  BY <1>2, <1>6, <1>8
<1>13. QED BY <1>3, <1>5, <1>10, <1>11, <1>12 DEF VerifyInv
-----------------------------------------------------------------------------
\* The messages that a call can store.
LEMMA EntryTypes ==
    /\ \A k \in 1 .. 3, v \in Nat, i \in Nat \cup {AnyRev} : Message(k, v, i) \in EntryType
    /\ Deletion \in EntryType
  BY DEF Message, Deletion, EntryType, AnyRev

\* One more message.
LEMMA AppendTypes ==
    ASSUME NEW s \in Seq(EntryType), NEW e \in EntryType
    PROVE  /\ Append(s, e) \in Seq(EntryType)
           /\ Len(Append(s, e)) = Len(s) + 1
           /\ \A i \in 1 .. Len(s) : Append(s, e)[i] = s[i]
           /\ Append(s, e)[Len(s) + 1] = e
  OBVIOUS

\* A write that the adapter passes on, and whether it fits.
LEMMA PutEntry ==
    ASSUME VerifyInv, Calling, Current.op \in {"PUT", "DELETE"}
    PROVE  /\ Entry(Upstream(Current)) \in EntryType
           /\ Fits(Entry(Upstream(Current))) \/ (test \in {5, 6} /\ kept # Len(stored))
           /\ test = 6 /\ step = 3 /\ Fits(Entry(Upstream(Current))) => kept = 0 \/ kept = Len(stored)
           /\ ~(test = 5 /\ step = 2) /\ ~(test = 6 /\ step = 3) => Fits(Entry(Upstream(Current)))
<1> DEFINE up == Upstream(Current)
<1>1. up.method = Current.op /\ up.item = Current.key /\ up.body = Current.val
      /\ up.ifMatch = IF Current.cas THEN kept ELSE 0
  BY UpstreamFields
<1>2. kept \in Nat /\ Len(stored) \in Nat
  <2>1. stored \in Seq(EntryType) /\ kept \in 0 .. Len(stored)
    BY DEF VerifyInv, VerifyTypeOK
  <2> QED BY <2>1
<1> HIDE DEF up
<1>3. CASE Current.op = "PUT"
  <2>1. Current.key \in 1 .. 3 /\ Current.val \in Nat
        /\ (Current.cas = FALSE \/ Current.cas = TRUE)
        /\ (Current.cas <=> (test = 5 /\ step = 2) \/ (test = 6 /\ step = 3))
    BY <1>3, PutCalls
  <2>2. (up.method = "DELETE") = FALSE
    BY <1>1, <1>3
  <2>3. Entry(up) = Message(Current.key, Current.val, IF up.ifMatch = 0 THEN AnyRev ELSE up.ifMatch)
    BY <1>1, <2>2 DEF Entry, Message
  <2>4. (IF up.ifMatch = 0 THEN AnyRev ELSE up.ifMatch) \in Nat \cup {AnyRev}
    BY <1>1, <1>2, <2>1
  <2>5. Entry(up) \in EntryType
    BY <2>1, <2>3, <2>4, EntryTypes
  <2>6. Entry(up).if = IF up.ifMatch = 0 THEN AnyRev ELSE up.ifMatch
    BY <2>3 DEF Message
  <2>7. Fits(Entry(up)) <=> up.ifMatch = 0 \/ up.ifMatch = Len(stored)
    BY <1>1, <1>2, <2>1, <2>6 DEF Fits, AnyRev
  <2> QED BY <1>1, <1>2, <2>1, <2>5, <2>7 DEF up
<1>4. CASE Current.op = "DELETE"
  <2>1. test = 2 /\ IsCall("DELETE", 1, 0, FALSE, Deleted)
    BY <1>4, DeleteCalls
  <2>2. (up.method = "DELETE") = TRUE /\ up.ifMatch = 0 /\ up.item = 1 /\ up.body = 0
    BY <1>1, <1>4, <2>1 DEF IsCall
  <2>3. Entry(up) = Deletion
    BY <2>2 DEF Entry, Deletion
  <2>4. Fits(Entry(up))
    BY <2>3 DEF Fits, Deletion
  <2> QED BY <2>1, <2>3, <2>4, EntryTypes DEF up
<1>5. QED BY <1>3, <1>4

\* What is known while a call is under way.
LEMMA WhileCalling ==
    ASSUME VerifyInv, Calling
    PROVE  /\ stored \in Seq(EntryType) /\ late \subseteq EntryType /\ kept \in 0 .. Len(stored)
           /\ blame \subseteq {"call", "lag", "slow"} /\ Alive
           /\ "call" \notin blame => late = {} /\ AsWritten
           /\ test = 4 /\ step # 1 => kept # 0
           /\ test = 5 => "call" \notin blame
           /\ Len(stored) \in Nat /\ kept \in Nat /\ step \in Nat /\ step # 0
           /\ AsWritten /\ step <= Len(WrittenBy[test]) => Len(stored) = step - 1
           /\ AsWritten /\ step > Len(WrittenBy[test]) => Len(stored) = Len(WrittenBy[test])
           /\ AsWritten /\ test \in {4, 5, 6} /\ step # 1 => kept = 1
<1>1. stored \in Seq(EntryType) /\ late \subseteq EntryType /\ kept \in 0 .. Len(stored)
      /\ blame \subseteq {"call", "lag", "slow"}
  BY DEF VerifyInv, VerifyTypeOK
<1>2. test \in 1 .. 10 /\ test # 0 /\ step \in Nat /\ step # 0 /\ Alive
  BY DEF Calling, Alive
<1>3. /\ "call" \notin blame => late = {} /\ AsWritten
      /\ test = 4 /\ step # 1 => kept # 0
      /\ test = 5 => "call" \notin blame
  BY <1>2 DEF VerifyInv
<1>4. Len(stored) \in Nat /\ kept \in Nat
  BY <1>1
<1>5. PICK len \in 0 .. 5 : len = Len(WrittenBy[test])
  BY TheWrites DEF Calling
<1>6. ASSUME AsWritten
      PROVE  /\ step <= len => Len(stored) = step - 1
             /\ step > len => Len(stored) = len
             /\ test \in {4, 5, 6} /\ step # 1 => kept = 1
  <2>1. /\ Len(stored) <= len
        /\ IF step - 1 <= len THEN Len(stored) = step - 1 ELSE Len(stored) = len
        /\ test \in {4, 5, 6} /\ step - 1 > 0 => kept = 1
    BY <1>2, <1>5, <1>6 DEF AsWritten
  <2> QED BY <1>2, <1>4, <2>1
<1>7. QED BY <1>1, <1>2, <1>3, <1>4, <1>5, <1>6
-----------------------------------------------------------------------------
\* A PUT that works keeps the invariant: it stores what its test expects, or test 6 conflicts,
LEMMA PutStep ==
    ASSUME VerifyInv, Calling, PutWorks(Upstream(Current))
    PROVE  VerifyInv'
<1> DEFINE up == Upstream(Current)
           e == Entry(up)
<1>1. Current.op = "PUT"
  BY UpstreamFields DEF PutWorks
<1>2. /\ e \in EntryType
      /\ Fits(e) \/ (test \in {5, 6} /\ kept # Len(stored))
      /\ test = 6 /\ step = 3 /\ Fits(e) => kept = 0 \/ kept = Len(stored)
      /\ ~(test = 5 /\ step = 2) /\ ~(test = 6 /\ step = 3) => Fits(e)
  BY <1>1, PutEntry
<1>3. /\ stored \in Seq(EntryType) /\ late \subseteq EntryType /\ kept \in 0 .. Len(stored)
      /\ blame \subseteq {"call", "lag", "slow"}
      /\ "call" \notin blame => late = {} /\ AsWritten
      /\ test = 4 /\ step # 1 => kept # 0
      /\ test = 5 => "call" \notin blame
      /\ Len(stored) \in Nat /\ kept \in Nat /\ step \in Nat /\ step # 0
      /\ AsWritten /\ step <= Len(WrittenBy[test]) => Len(stored) = step - 1
      /\ AsWritten /\ step > Len(WrittenBy[test]) => Len(stored) = Len(WrittenBy[test])
      /\ AsWritten /\ test \in {4, 5, 6} /\ step # 1 => kept = 1
  BY WhileCalling
<1>4. /\ Current.good \in {Accepted, Answers} \/ (test = 6 /\ step = 3)
      /\ test = 6 /\ step = 3 => Current.good = Refused
      /\ step = Len(Tests[test]) => test \in {5, 6}
  BY <1>1, PutCalls
<1>5. /\ ~(test = 6 /\ step = 3) => step <= Len(WrittenBy[test])
      /\ test = 6 /\ step = 3 => step > Len(WrittenBy[test])
      /\ ~(test = 6 /\ step = 3) /\ (test = 5 /\ step = 2 => kept = 1) => e = WrittenBy[test][step]
  BY <1>1, TheWrites DEF Calling
<1>6. "call" \notin blame /\ ~(test = 6 /\ step = 3) => Len(stored) = step - 1
  BY <1>3, <1>5
<1>7. "call" \notin blame /\ test = 6 /\ step = 3 => Len(stored) = 2 /\ kept = 1
  BY <1>3, <1>5, WrittenLengths
<1>8. "call" \notin blame /\ test = 5 /\ step = 2 => kept = 1 /\ Len(stored) = 1
  BY <1>3, <1>6
<1>9. ~Fits(e) => test = 6 /\ step = 3
  BY <1>2, <1>3, <1>8
<1>10. <<200, 0>> \in Accepted /\ <<200, 0>> \in Answers /\ <<200, 0>> \notin Refused /\ <<412, 0>> \in Refused
  BY DEF Accepted, Answers, Refused
<1>11. late' = late /\ blame' = blame /\ UNCHANGED <<test, depth, passed, failed>>
  BY DEF PutWorks, Written
<1> HIDE DEF e
<1>12. CASE Fits(e)
  <2>1. /\ stored' = Append(stored, e) /\ Judge(<<200, 0>>)
        /\ kept' = IF step = 1 THEN Len(stored') ELSE kept
    BY <1>12 DEF PutWorks, Written, e
  <2>2. stored' \in Seq(EntryType) /\ Len(stored') = Len(stored) + 1
    BY <1>2, <1>3, <2>1, AppendTypes
  <2>3. kept' \in 0 .. Len(stored')
    BY <1>3, <2>1, <2>2
  <2>4. <<200, 0>> \in Current.good => ~(test = 6 /\ step = 3)
    BY <1>4, <1>10
  <2>5. "call" \notin blame' /\ <<200, 0>> \in Current.good => AsWritten'
    <3> SUFFICES ASSUME "call" \notin blame, <<200, 0>> \in Current.good PROVE AsWritten'
      BY <1>11
    <3>1. stored' = Append(stored, WrittenBy[test][step]) /\ step <= Len(WrittenBy[test]) /\ AsWritten
      BY <1>3, <1>5, <1>8, <2>1, <2>4
    <3>2. kept' = IF step = 1 THEN 1 ELSE kept
      BY <1>3, <1>6, <2>1, <2>2, <2>4
    <3>3. Went
      BY <2>1, Judged DEF Went, Calling
    <3> QED BY <1>11, <3>1, <3>2, <3>3, WrittenNext DEF VerifyInv
  <2>6. test = 4 /\ <<200, 0>> \in Current.good => kept' # 0
    BY <1>3, <2>1, <2>2
  <2>7. <<200, 0>> \notin Current.good => blame' # {}
    <3>1. <<200, 0>> \notin Current.good => test = 6 /\ step = 3
      BY <1>4, <1>10
    <3>2. test = 6 /\ step = 3 => "call" \in blame
      BY <1>2, <1>7, <1>12
    <3> QED BY <1>11, <3>1, <3>2
  <2>8. /\ late' \subseteq EntryType /\ blame' \subseteq {"call", "lag", "slow"}
        /\ "call" \notin blame' => late' = {}
        /\ test = 5 => "call" \notin blame'
        /\ ~(step = Len(Tests[test]) /\ test \in {1, 3, 4, 7, 8, 9})
    BY <1>3, <1>4, <1>11
  <2> QED BY ONLY VerifyInv, Calling, <1>11, <2>1, <2>2, <2>3, <2>5, <2>6, <2>7, <2>8, CallAnswered
<1>13. CASE ~Fits(e)
  <2>1. test = 6 /\ step = 3 /\ Current.good = Refused
    BY <1>4, <1>9, <1>13
  <2>2. stored' = stored /\ Judge(<<412, 0>>) /\ kept' = kept
    BY <1>13, <2>1 DEF PutWorks, Written, e
  <2>3. <<412, 0>> \in Current.good
    BY <1>10, <2>1
  <2>4. "call" \notin blame' => AsWritten'
    <3> SUFFICES ASSUME "call" \notin blame PROVE AsWritten'
      BY <1>11
    <3>1. Went
      BY <2>2, <2>3, Judged DEF Went, Calling
    <3>2. step > Len(WrittenBy[test]) /\ AsWritten
      BY <1>3, <1>5, <2>1
    <3> QED BY <1>11, <2>2, <3>1, <3>2, NothingWritten
  <2> QED BY <1>3, <1>4, <1>11, <2>1, <2>2, <2>3, <2>4, CallAnswered
<1>14. QED BY <1>12, <1>13

\* as does the DELETE,
LEMMA DeleteStep ==
    ASSUME VerifyInv, Calling, DeleteWorks(Upstream(Current))
    PROVE  VerifyInv'
<1> DEFINE e == Entry(Upstream(Current))
<1>1. Current.op = "DELETE"
  BY UpstreamFields DEF DeleteWorks
<1>2. e \in EntryType
  BY <1>1, PutEntry
<1>3. /\ stored \in Seq(EntryType) /\ late \subseteq EntryType /\ kept \in 0 .. Len(stored)
      /\ blame \subseteq {"call", "lag", "slow"} /\ Len(stored) \in Nat
      /\ "call" \notin blame => late = {} /\ AsWritten
  BY WhileCalling
<1>4. test = 2 /\ step = 2 /\ Current.good = Deleted
  BY <1>1, DeleteCalls DEF IsCall
<1>5. step <= Len(WrittenBy[test]) /\ e = WrittenBy[test][step]
  BY <1>1, <1>4, TheWrites DEF Calling
<1>6. late' = late /\ blame' = blame /\ UNCHANGED <<test, depth, passed, failed>> /\ kept' = kept
      /\ stored' = Append(stored, e) /\ Judge(<<204, 0>>)
  BY <1>4 DEF DeleteWorks, Written
<1>7. <<204, 0>> \in Current.good
  BY <1>4 DEF Deleted
<1> HIDE DEF e
<1>8. stored' \in Seq(EntryType) /\ Len(stored') = Len(stored) + 1
  BY <1>2, <1>3, <1>6, AppendTypes
<1>9. kept' \in 0 .. Len(stored')
  BY <1>3, <1>6, <1>8
<1>10. "call" \notin blame' => AsWritten'
  <2> SUFFICES ASSUME "call" \notin blame PROVE AsWritten'
    BY <1>6
  <2>1. Went
    BY <1>6, <1>7, Judged DEF Went, Calling
  <2>2. AsWritten /\ VerifyTypeOK
    BY <1>3 DEF VerifyInv
  <2>3. test \in {4, 5, 6} => kept' = IF step = 1 THEN 1 ELSE kept
    BY <1>4
  <2> QED BY <1>5, <1>6, <2>1, <2>2, <2>3, WrittenNext
<1>11. QED BY <1>3, <1>4, <1>6, <1>7, <1>8, <1>9, <1>10, CallAnswered

\* What the attempts of an increment store.
LEMMA BumpTypes ==
    ASSUME stored \in Seq(EntryType), NEW k \in Nat, k = 0 \/ k \in 1 .. Attempts
    PROVE  /\ Count \in Nat
           /\ \A i \in 1 .. k + 1 : Bump(i) \in EntryType
           /\ Bumps(k) \in Seq(EntryType) /\ Len(Bumps(k)) = k
           /\ stored \o Bumps(k) \in Seq(EntryType) /\ Len(stored \o Bumps(k)) = Len(stored) + k
           /\ \A i \in 1 .. Len(stored) : (stored \o Bumps(k))[i] = stored[i]
<1>1. Count \in Nat
  <2>1. CASE stored = << >>
    BY <2>1 DEF Count
  <2>2. CASE stored # << >>
    <3>1. Len(stored) \in 1 .. Len(stored)
      BY <2>2
    <3>2. stored[Len(stored)] \in EntryType
      BY <3>1
    <3> QED BY <2>2, <3>2 DEF Count, EntryType
  <2> QED BY <2>1, <2>2
<1>2. ASSUME NEW i \in 1 .. k + 1 PROVE Bump(i) \in EntryType
  <2>1. i \in Nat /\ i >= 1 /\ Len(stored) \in Nat
    OBVIOUS
  <2>2. Count + i \in Nat /\ Len(stored) + i - 1 \in Nat
    BY <1>1, <2>1
  <2> QED BY <2>2 DEF Bump, EntryType
<1>3. Bumps(k) \in [1 .. k -> EntryType]
  BY <1>2 DEF Bumps
<1>4. Bumps(k) \in Seq(EntryType)
  BY <1>3
<1>5. Len(Bumps(k)) = k
  <2>1. PICK len \in Nat : len = Len(Bumps(k)) /\ DOMAIN Bumps(k) = 1 .. len
    BY <1>4, LenProperties
  <2>2. 1 .. k = 1 .. len
    BY <1>3, <2>1
  <2>3. len = k
    BY <2>2
  <2> QED BY <2>1, <2>3
<1> DEFINE b == Bumps(k)
<1> HIDE DEF b
<1>6. /\ stored \o b \in Seq(EntryType) /\ Len(stored \o b) = Len(stored) + Len(b)
      /\ \A i \in 1 .. Len(stored) : (stored \o b)[i] = stored[i]
  BY <1>4 DEF b
<1>7. QED BY <1>1, <1>2, <1>4, <1>5, <1>6 DEF b

\* The first attempt of an increment stores the message that its test expects.
LEMMA FirstBump ==
    ASSUME VerifyInv, Calling, AsWritten, test = 7, step \in 1 .. 5
    PROVE  stored \o Bumps(1) = Append(stored, WrittenBy[7][step])
<1>1. /\ stored \in Seq(EntryType) /\ Len(stored) = step - 1
      /\ \A i \in DOMAIN stored : stored[i] = WrittenBy[7][i]
  <2>1. step <= Len(WrittenBy[test])
    BY WrittenLengths
  <2>2. stored \in Seq(EntryType) /\ Len(stored) = step - 1
    BY <2>1, WhileCalling
  <2> QED BY <2>2 DEF AsWritten
<1>2. WrittenBy[7] = [i \in 1 .. 5 |-> Message(1, i, i - 1)]
  BY DEF WrittenBy
<1>3. WrittenBy[7][step] = Message(1, step, step - 1)
  BY <1>2
<1>4. Count = step - 1
  <2>1. CASE stored = << >>
    BY <1>1, <2>1 DEF Count
  <2>2. CASE stored # << >>
    <3>1. Len(stored) \in DOMAIN stored /\ Len(stored) \in 1 .. 5 /\ step - 1 = Len(stored)
      BY <1>1, <2>2
    <3>2. stored[Len(stored)] = Message(1, step - 1, step - 1 - 1)
      BY <1>1, <1>2, <3>1
    <3> QED BY <2>2, <3>2 DEF Count, Message
  <2> QED BY <2>1, <2>2
<1>5. Bump(1) = Message(1, step, step - 1)
  BY <1>1, <1>4 DEF Bump, Message
<1>6. Bumps(1) = <<Bump(1)>>
  <2>1. Bumps(1) = [i \in 1 .. 1 |-> Bump(i)]
    BY DEF Bumps
  <2>2. \A i \in 1 .. 1 : Bump(i) = Bump(1)
    <3> SUFFICES ASSUME NEW i \in 1 .. 1 PROVE Bump(i) = Bump(1)
      OBVIOUS
    <3>1. i = 1
      OBVIOUS
    <3> QED BY <3>1
  <2>3. Bumps(1) = [i \in 1 .. 1 |-> Bump(1)]
    BY <2>1, <2>2
  <2> QED BY <2>3
<1> DEFINE m == Message(1, step, step - 1)
<1>7. m \in EntryType
  BY EntryTypes
<1> HIDE DEF m
<1>8. stored \o <<m>> = Append(stored, m)
  BY <1>1, <1>7
<1>9. QED BY <1>3, <1>5, <1>6, <1>8 DEF m

\* an increment that works, after any number of lost acks,
LEMMA IncrStep ==
    ASSUME VerifyInv, Calling, IncrWorks(Upstream(Current))
    PROVE  VerifyInv'
<1>1. Current.op = "INCR"
  BY UpstreamFields DEF IncrWorks
<1>2. test = 7 /\ step \in 1 .. 5 /\ Current.good = Counted
  BY <1>1, IncrCalls
<1>3. PICK k \in 1 .. Attempts :
        /\ stored' = stored \o Bumps(k)
        /\ blame' = blame \cup {b \in {"call"} : k > 1}
        /\ Judge(<<200, Count + k>>)
  BY DEF IncrWorks
<1>4. UNCHANGED <<test, depth, late, kept, passed, failed>>
  BY DEF IncrWorks
<1>5. /\ stored \in Seq(EntryType) /\ late \subseteq EntryType /\ kept \in 0 .. Len(stored)
      /\ blame \subseteq {"call", "lag", "slow"} /\ Len(stored) \in Nat
      /\ "call" \notin blame => late = {} /\ AsWritten
  BY WhileCalling
<1>6. k \in Nat /\ k \in 1 .. Attempts
  BY VerifyAssumption
<1>7. Count \in Nat /\ stored' \in Seq(EntryType) /\ Len(stored') = Len(stored) + k
  BY <1>3, <1>5, <1>6, BumpTypes
<1>8. kept' \in 0 .. Len(stored')
  BY <1>4, <1>5, <1>6, <1>7
<1>9. <<200, Count + k>> \in Current.good
  BY <1>2, <1>6, <1>7 DEF Counted
<1>10. blame' \subseteq {"call", "lag", "slow"} /\ ("call" \notin blame' => "call" \notin blame /\ k = 1)
  <2>1. CASE k > 1
    <3>1. "call" \in blame'
      BY <1>3, <2>1
    <3> QED BY <1>3, <1>5, <3>1
  <2>2. CASE ~(k > 1)
    <3>1. k = 1
      BY <1>6, <2>2
    <3>2. blame' = blame
      BY <1>3, <2>2
    <3> QED BY <1>5, <3>1, <3>2
  <2> QED BY <2>1, <2>2
<1>11. "call" \notin blame' => AsWritten'
  <2> SUFFICES ASSUME "call" \notin blame' PROVE AsWritten'
    OBVIOUS
  <2>1. AsWritten /\ k = 1 /\ VerifyTypeOK
    BY <1>5, <1>10 DEF VerifyInv
  <2>2. stored' = Append(stored, WrittenBy[test][step])
    BY <1>2, <1>3, <2>1, FirstBump
  <2>3. Went
    BY <1>3, <1>9, Judged DEF Went, Calling
  <2>4. step <= Len(WrittenBy[test]) /\ test' = test
    BY <1>2, <1>4, WrittenLengths
  <2>5. test \in {4, 5, 6} => kept' = IF step = 1 THEN 1 ELSE kept
    BY <1>2
  <2> QED BY <2>1, <2>2, <2>3, <2>4, <2>5, WrittenNext
<1>12. step # Len(Tests[test])
  BY <1>2, TestLengths
<1> DEFINE answer == <<200, Count + k>>
<1>13. /\ Judge(answer) /\ answer \in Current.good
  BY <1>3, <1>9
<1>14. UNCHANGED <<test, depth, passed, failed>> /\ late' = late
  BY <1>4
<1> HIDE DEF answer
<1>15. QED BY <1>2, <1>5, <1>7, <1>8, <1>10, <1>11, <1>12, <1>13, <1>14, CallAnswered

\* one that gives up,
LEMMA IncrGivesUpStep ==
    ASSUME VerifyInv, Calling, IncrGivesUp(Upstream(Current))
    PROVE  VerifyInv'
<1>1. Current.op = "INCR"
  BY UpstreamFields DEF IncrGivesUp
<1>2. test = 7 /\ Current.good = Counted
  BY <1>1, IncrCalls
<1>3. /\ Judge(<<409, 0>>) /\ UNCHANGED <<test, depth, passed, failed>>
      /\ stored' = stored /\ late' = late /\ kept' = kept /\ blame' = blame \cup {"lag"}
  BY DEF IncrGivesUp
<1>4. /\ stored \in Seq(EntryType) /\ late \subseteq EntryType /\ kept \in 0 .. Len(stored)
      /\ blame \subseteq {"call", "lag", "slow"}
      /\ "call" \notin blame => late = {}
  BY WhileCalling
<1>5. <<409, 0>> \notin Current.good
  BY <1>2 DEF Counted
<1>6. /\ stored' \in Seq(EntryType) /\ late' \subseteq EntryType /\ kept' \in 0 .. Len(stored')
      /\ blame' \subseteq {"call", "lag", "slow"} /\ blame' # {}
      /\ "call" \notin blame' => late' = {}
  BY <1>3, <1>4
<1>7. QED BY <1>2, <1>3, <1>5, <1>6, CallAnswered

\* The keys of test 8.
LEMMA ThreeKeys == IsFiniteSet(1 .. 3) /\ Cardinality(1 .. 3) = 3
<1>1. \A a, b \in Int : IsFiniteSet(a .. b) /\ Cardinality(a .. b) = IF a > b THEN 0 ELSE b - a + 1
  BY FS_Interval
<1>2. IsFiniteSet(1 .. 3) /\ Cardinality(1 .. 3) = IF 1 > 3 THEN 0 ELSE 3 - 1 + 1
  <2>1. 1 \in Int /\ 3 \in Int
    OBVIOUS
  <2> QED BY ONLY <1>1, <2>1, Zenon
<1>3. 3 - 1 + 1 = 3 /\ ~(1 > 3)
  OBVIOUS
<1> QED BY <1>2, <1>3

\* What the last call of a test is answered with by a bucket that is as it should be.
LEMMA ReadAsWritten ==
    ASSUME VerifyInv, Calling, AsWritten, Current.op \notin Writes,
           NEW all \in BOOLEAN
    PROVE  Read(Current.op, Len(stored), all) \in Current.good \/ TooShallow(test)
<1> DEFINE n == Len(stored)
<1>0. depth \in Nat
  BY VerifyAssumption DEF VerifyInv, VerifyTypeOK
<1>1. \/ test = 1 /\ Current.op = "GET" /\ Current.good = Valued(1)
      \/ test = 2 /\ Current.op = "GET" /\ Current.good = Missing
      \/ test = 3 /\ Current.op = "HISTORY" /\ Current.good = ThreeOrMore
      \/ test = 4 /\ Current.op = "REVISION" /\ Current.good = Valued(1)
      \/ test = 7 /\ Current.op = "GET" /\ Current.good = Valued(5)
      \/ test = 8 /\ Current.op = "KEYS" /\ Current.good = ThreeOrMore
      \/ test = 9 /\ Current.op = "TIMED" /\ Current.good = Valued(1)
      \/ test = 10 /\ Current.op = "LIST" /\ Current.good = Valued(1)
  BY ReadCalls DEF Writes
<1>2. stored \in Seq(EntryType) /\ n = Len(WrittenBy[test]) /\ (test = 4 => kept = 1)
  <2>1. step > Len(WrittenBy[test])
    BY TheWrites DEF Calling, Writes
  <2>2. test = 4 => step # 1
    BY ReadCalls DEF Writes
  <2> QED BY <2>1, <2>2, WhileCalling
<1>3. \A i \in DOMAIN stored : stored[i] = WrittenBy[test][i]
  BY DEF AsWritten
<1>4. DOMAIN stored = 1 .. n /\ n \in Nat
  BY <1>2
<1> HIDE DEF n
<1>5. ASSUME test = 1 PROVE Read("GET", n, all) \in Valued(1)
  <2>1. n = 1 /\ stored[1] = Message(1, 1, AnyRev)
    BY <1>2, <1>3, <1>4, <1>5, WrittenLengths DEF WrittenBy
  <2>2. stored[n].val = 1 /\ stored[n].del = FALSE
    BY <2>1 DEF Message
  <2> QED BY <2>1, <2>2 DEF Read, Valued
<1>6. ASSUME test = 2 PROVE Read("GET", n, all) \in Missing
  <2>1. n = 2 /\ stored[2] = Deletion
    BY <1>2, <1>3, <1>4, <1>6, WrittenLengths DEF WrittenBy
  <2>2. stored[n].del = TRUE
    BY <2>1 DEF Deletion
  <2> QED BY <2>1, <2>2 DEF Read, Missing
<1>7. ASSUME test = 3 PROVE Read("HISTORY", n, all) \in ThreeOrMore \/ depth < 3
  <2>1. n = 3 /\ Len(stored) = 3
    BY <1>2, <1>7, WrittenLengths DEF n
  <2>2. Read("HISTORY", n, all) = <<200, IF 3 < depth THEN 3 ELSE depth>>
    BY <2>1 DEF Read
  <2> QED BY <1>0, <2>2 DEF ThreeOrMore
<1>8. ASSUME test = 4 PROVE Read("REVISION", n, all) \in Valued(1) \/ depth < 2
  <2>1. n = 2 /\ kept = 1 /\ stored[1] = Message(1, 1, AnyRev)
    BY <1>2, <1>3, <1>4, <1>8, WrittenLengths DEF WrittenBy
  <2>2. stored[kept].val = 1 /\ kept <= n /\ (n < kept + depth \/ depth < 2)
    BY <1>0, <2>1 DEF Message
  <2> QED BY <2>2 DEF Read, Valued
<1>9. ASSUME test = 7 PROVE Read("GET", n, all) \in Valued(5)
  <2>1. n = 5 /\ stored[5] = WrittenBy[7][5]
    BY <1>2, <1>3, <1>4, <1>9, WrittenLengths
  <2>2. WrittenBy[7][5] = Message(1, 5, 5 - 1)
    BY DEF WrittenBy
  <2>3. stored[n].val = 5 /\ stored[n].del = FALSE
    BY <2>1, <2>2 DEF Message
  <2> QED BY <2>1, <2>3 DEF Read, Valued
<1>10. ASSUME test = 8 PROVE Read("KEYS", n, all) \in ThreeOrMore
  <2>1. n = 3 /\ stored[1] = Message(1, 1, AnyRev) /\ stored[2] = Message(2, 1, AnyRev)
        /\ stored[3] = Message(3, 1, AnyRev)
    BY <1>2, <1>3, <1>4, <1>10, WrittenLengths DEF WrittenBy
  <2>2. stored[1].key = 1 /\ stored[2].key = 2 /\ stored[3].key = 3 /\ DOMAIN stored = 1 .. 3
    BY <1>4, <2>1 DEF Message
  <2>3. KeysStored = 1 .. 3
    BY <2>2 DEF KeysStored
  <2> QED BY <2>3, ThreeKeys DEF Read, ThreeOrMore
<1>11. ASSUME test = 9 PROVE Read("TIMED", n, all) \in Valued(1)
  <2>1. n = 1 /\ stored[1] = Message(1, 1, AnyRev)
    BY <1>2, <1>3, <1>4, <1>11, WrittenLengths DEF WrittenBy
  <2>2. stored[n].val = 1 /\ stored[n].del = FALSE
    BY <2>1 DEF Message
  <2> QED BY <2>1, <2>2 DEF Read, Valued
<1>12. Read("LIST", n, all) \in Valued(1)
  BY DEF Read, Valued
<1>13. Read(Current.op, n, all) \in Current.good \/ TooShallow(test)
  BY <1>1, <1>5, <1>6, <1>7, <1>8, <1>9, <1>10, <1>11, <1>12 DEF TooShallow
<1>14. QED BY <1>13 DEF n

\* A test that is passed by the answer to a read has what its name says.
LEMMA ReadClaims ==
    ASSUME VerifyInv, Calling, Current.op \notin Writes, test \in {1, 3, 4, 7, 8, 9},
           NEW n \in 0 .. Len(stored), NEW fast \in BOOLEAN,
           NEW all \in BOOLEAN, Current.op # "TIMED" => fast,
           (IF fast THEN Read(Current.op, n, all) ELSE <<200, 0>>) \in Current.good
    PROVE  Claim(test)
<1>1. \/ test = 1 /\ Current.op = "GET" /\ Current.good = Valued(1)
      \/ test = 3 /\ Current.op = "HISTORY" /\ Current.good = ThreeOrMore
      \/ test = 4 /\ Current.op = "REVISION" /\ Current.good = Valued(1)
      \/ test = 7 /\ Current.op = "GET" /\ Current.good = Valued(5)
      \/ test = 8 /\ Current.op = "KEYS" /\ Current.good = ThreeOrMore
      \/ test = 9 /\ Current.op = "TIMED" /\ Current.good = Valued(1)
  BY ReadCalls DEF Writes
<1>2. stored \in Seq(EntryType) /\ kept \in Nat /\ (test = 4 => kept # 0)
  <2>1. test = 4 => step # 1
    BY ReadCalls DEF Writes
  <2> QED BY <2>1, WhileCalling
<1>3. Read(Current.op, n, all) \in Current.good
  BY <1>1 DEF Valued
<1>4. n \in Nat /\ DOMAIN stored = 1 .. Len(stored) /\ Len(stored) \in Nat /\ n <= Len(stored)
  BY <1>2
<1>5. ASSUME NEW v, v # 0, Read("GET", n, all) \in Valued(v) PROVE Holds(v)
  <2>1. Read("GET", n, all) = IF n = 0 \/ (n > 0 /\ stored[n].del) THEN <<404, 0>> ELSE <<200, stored[n].val>>
    BY DEF Read
  <2>2. n # 0 /\ stored[n].val = v
    BY <1>5, <2>1 DEF Valued
  <2>3. n \in DOMAIN stored
    BY <1>4, <2>2
  <2> QED BY <2>2, <2>3 DEF Holds
<1>6. CASE test = 1
  BY <1>1, <1>3, <1>5, <1>6 DEF Claim
<1>7. CASE test = 3
  <2>1. <<200, IF Len(stored) < depth THEN Len(stored) ELSE depth>> \in ThreeOrMore
    BY <1>1, <1>3, <1>7 DEF Read
  <2>2. depth \in Nat
    BY VerifyAssumption DEF VerifyInv, VerifyTypeOK
  <2>3. Len(stored) >= 3
    BY <1>4, <2>1, <2>2 DEF ThreeOrMore
  <2> QED BY <1>7, <2>3 DEF Claim
<1>8. CASE test = 4
  <2>1. (IF kept <= n /\ (all \/ n < kept + depth) THEN <<200, stored[kept].val>> ELSE <<404, 0>>) \in Valued(1)
    BY <1>1, <1>3, <1>8 DEF Read
  <2> QED BY <1>2, <1>8, <2>1 DEF Claim, Valued
<1>9. CASE test = 7
  BY <1>1, <1>3, <1>5, <1>9 DEF Claim
<1>10. CASE test = 8
  <2> DEFINE K == KeysStored
  <2>1. <<200, Cardinality(K)>> \in ThreeOrMore
    BY <1>1, <1>3, <1>10 DEF Read
  <2>2. K \subseteq 1 .. 3
    <3> SUFFICES ASSUME NEW i \in DOMAIN stored PROVE stored[i].key \in 1 .. 3
      BY DEF KeysStored
    <3>1. stored[i] \in EntryType
      BY <1>2
    <3> QED BY <3>1 DEF EntryType
  <2> HIDE DEF K
  <2>3. IsFiniteSet(K) /\ Cardinality(K) <= 3
    BY <2>2, ThreeKeys, FS_Subset
  <2>4. Cardinality(K) \in Nat /\ Cardinality(K) >= 3
    BY <2>1, <2>3, FS_CardinalityType DEF ThreeOrMore
  <2>5. Cardinality(K) = 3
    BY <2>3, <2>4
  <2> QED BY <1>10, <2>5 DEF Claim, K
<1>11. CASE test = 9
  <2>1. Read("TIMED", n, all) = IF n = 0 \/ (n > 0 /\ stored[n].del) THEN <<404, 0>> ELSE <<200, stored[n].val>>
    BY DEF Read
  <2>2. n # 0
    BY <1>1, <1>3, <1>11, <2>1 DEF Valued
  <2>3. stored # << >>
    BY <1>4, <2>2
  <2> QED BY <1>11, <2>3 DEF Claim
<1>12. QED BY <1>6, <1>7, <1>8, <1>9, <1>10, <1>11

\* A claim is about the bucket and the first call's answer.
LEMMA ClaimStays ==
    ASSUME UNCHANGED <<test, stored, kept>>
    PROVE  Claim(test)' <=> Claim(test)
  BY DEF Claim, Holds, KeysStored

\* A read that is answered keeps the invariant: only a lagging or slow replica fails a test,
LEMMA ReadStep ==
    ASSUME VerifyInv, Calling, ReadWorks(Upstream(Current))
    PROVE  VerifyInv'
<1>1. Upstream(Current).method = Current.op
  BY UpstreamFields
<1>2. Current.op \notin Writes /\ Current.op \notin {"PUT", "DELETE", "INCR"}
  BY <1>1 DEF ReadWorks, Writes
<1>3. PICK n \in 0 .. Len(stored), fast \in BOOLEAN, all \in BOOLEAN :
        /\ Current.op # "TIMED" => fast
        /\ blame' = blame \cup {b \in {"lag"} : n < Len(stored)} \cup {b \in {"slow"} : ~fast}
        /\ Judge(IF fast THEN Read(Current.op, n, all) ELSE <<200, 0>>)
  BY <1>1 DEF ReadWorks
<1>4. UNCHANGED <<test, depth, stored, late, kept, passed, failed>>
  BY DEF ReadWorks
<1>5. /\ stored \in Seq(EntryType) /\ late \subseteq EntryType /\ kept \in 0 .. Len(stored)
      /\ blame \subseteq {"call", "lag", "slow"} /\ Len(stored) \in Nat
      /\ "call" \notin blame => late = {} /\ AsWritten
      /\ test = 4 /\ step # 1 => kept # 0
  BY WhileCalling
<1> DEFINE answer == IF fast THEN Read(Current.op, n, all) ELSE <<200, 0>>
<1>6. blame' \subseteq {"call", "lag", "slow"} /\ ("call" \notin blame' => "call" \notin blame)
  BY <1>3, <1>5
<1>7. answer \notin Current.good => blame' # {} \/ TooShallow(test)
  <2> SUFFICES ASSUME blame' = {} PROVE answer \in Current.good \/ TooShallow(test)
    OBVIOUS
  <2>1. "lag" \notin blame' /\ "slow" \notin blame' /\ "call" \notin blame
    BY <1>6
  <2>2. n = Len(stored)
    <3>1. ~(n < Len(stored))
      BY <1>3, <2>1
    <3> QED BY <1>5, <3>1
  <2>3. fast
    BY <1>3, <2>1
  <2> QED BY <1>2, <1>5, <2>1, <2>2, <2>3, ReadAsWritten
<1>8. answer \in Current.good /\ test \in {1, 3, 4, 7, 8, 9} => Claim(test)
  BY <1>2, <1>3, ReadClaims
<1>9. test = 4 => step # 1
  BY <1>2, ReadCalls
<1> HIDE DEF answer
<1>10. Claim(test)' <=> Claim(test)
  BY <1>4, ClaimStays
<1>11. answer \in Current.good /\ "call" \notin blame' => AsWritten'
  <2> SUFFICES ASSUME answer \in Current.good, "call" \notin blame' PROVE AsWritten'
    OBVIOUS
  <2>1. Went
    BY <1>3, Judged DEF Went, Calling, answer
  <2>2. step > Len(WrittenBy[test]) /\ AsWritten
    BY <1>2, <1>5, <1>6, TheWrites DEF Calling
  <2> QED BY <1>4, <2>1, <2>2, NothingWritten
<1>12. /\ Judge(answer) /\ UNCHANGED <<test, depth, passed, failed>>
       /\ stored' \in Seq(EntryType) /\ late' \subseteq EntryType /\ kept' \in 0 .. Len(stored')
       /\ "call" \notin blame' => late' = {}
       /\ test = 4 => kept' # 0
  BY <1>3, <1>4, <1>5, <1>6, <1>9 DEF answer
<1>13. test # 5
  BY <1>2, ReadCalls
<1>14. QED BY <1>6, <1>7, <1>8, <1>10, <1>11, <1>12, <1>13, CallAnswered
-----------------------------------------------------------------------------
\* A failing call leaves messages of the test's own, now or later.
LEMMA Effects ==
    ASSUME VerifyInv, Calling, Effect(Upstream(Current))
    PROVE  /\ stored' \in Seq(EntryType) /\ late' \subseteq EntryType
           /\ Len(stored') \in Nat /\ Len(stored') >= Len(stored)
<1> DEFINE up == Upstream(Current)
           e == Entry(up)
<1>1. up.method = Current.op
  BY UpstreamFields
<1>2. stored \in Seq(EntryType) /\ late \subseteq EntryType /\ Len(stored) \in Nat
  BY WhileCalling
<1>3. CASE UNCHANGED <<stored, late>>
  BY <1>2, <1>3
<1>4. ASSUME up.method \in {"PUT", "DELETE"},
             \/ Fits(e) /\ stored' = Append(stored, e) /\ UNCHANGED late
             \/ late' = late \cup {e} /\ UNCHANGED stored
      PROVE  /\ stored' \in Seq(EntryType) /\ late' \subseteq EntryType
             /\ Len(stored') \in Nat /\ Len(stored') >= Len(stored)
  <2>1. e \in EntryType
    BY <1>1, <1>4, PutEntry
  <2> HIDE DEF e
  <2>2. Append(stored, e) \in Seq(EntryType) /\ Len(Append(stored, e)) = Len(stored) + 1
    BY <1>2, <2>1, AppendTypes
  <2> QED BY <1>2, <1>4, <2>1, <2>2
<1>5. ASSUME NEW k \in 1 .. Attempts,
             \/ stored' = stored \o Bumps(k) /\ UNCHANGED late
             \/ stored' = stored \o Bumps(k - 1) /\ late' = late \cup {Bump(k)}
      PROVE  /\ stored' \in Seq(EntryType) /\ late' \subseteq EntryType
             /\ Len(stored') \in Nat /\ Len(stored') >= Len(stored)
  <2>1. k \in Nat /\ k - 1 \in Nat /\ (k - 1 = 0 \/ k - 1 \in 1 .. Attempts) /\ k \in 1 .. k + 1
        /\ Attempts \in Nat
    BY VerifyAssumption
  <2>2. /\ Bump(k) \in EntryType
        /\ stored \o Bumps(k) \in Seq(EntryType) /\ Len(stored \o Bumps(k)) = Len(stored) + k
    BY <1>2, <2>1, BumpTypes
  <2>3. /\ stored \o Bumps(k - 1) \in Seq(EntryType)
        /\ Len(stored \o Bumps(k - 1)) = Len(stored) + (k - 1)
    BY <1>2, <2>1, BumpTypes
  <2> DEFINE a == stored \o Bumps(k)
             b == stored \o Bumps(k - 1)
  <2>4. /\ a \in Seq(EntryType) /\ Len(a) \in Nat /\ Len(a) >= Len(stored)
        /\ b \in Seq(EntryType) /\ Len(b) \in Nat /\ Len(b) >= Len(stored)
    BY <1>2, <2>1, <2>2, <2>3
  <2>5. \/ stored' = a /\ late' = late
        \/ stored' = b /\ late' = late \cup {Bump(k)}
    BY <1>5
  <2> HIDE DEF a, b
  <2> QED BY <1>2, <2>2, <2>4, <2>5
<1>6. QED BY <1>3, <1>4, <1>5 DEF Effect

\* A call that fails passes no test that names something; 6 takes its 412 for a conflict.
LEMMA FailuresPassNothing ==
    ASSUME Calling, NEW answer \in FailureOf(Current.op), answer \in Current.good
    PROVE  /\ test # 5
           /\ test = 4 => step # 1
           /\ step = Len(Tests[test]) => test \notin {1, 3, 4, 7, 8, 9}
<1>1. CASE Current.op = "PUT"
  <2>1. answer \in {<<412, 0>>, <<500, 0>>}
    BY <1>1 DEF FailureOf
  <2>2. answer \notin Accepted
    BY <2>1 DEF Accepted
  <2>3. test = 4 /\ step = 1 => Current.good = Accepted
    <3>1. test \in 1 .. 10 /\ step \in 1 .. Len(Tests[test])
      BY DEF Calling
    <3> QED BY <3>1, TheCalls DEF IsCall
  <2> QED BY <1>1, <2>2, <2>3, PutCalls
<1>2. CASE Current.op = "DELETE"
  BY <1>2, DeleteCalls
<1>3. CASE Current.op = "INCR"
  <2>1. test = 7 /\ step \in 1 .. 5 /\ Len(Tests[7]) = 6
    BY <1>3, IncrCalls, TestLengths
  <2> QED BY <2>1
<1>4. CASE Current.op \notin {"PUT", "DELETE", "INCR"}
  <2>1. /\ \/ test = 1 /\ Current.op = "GET" /\ Current.good = Valued(1)
           \/ test = 2 /\ Current.op = "GET" /\ Current.good = Missing
           \/ test = 3 /\ Current.op = "HISTORY" /\ Current.good = ThreeOrMore
           \/ test = 4 /\ Current.op = "REVISION" /\ Current.good = Valued(1)
           \/ test = 7 /\ Current.op = "GET" /\ Current.good = Valued(5)
           \/ test = 8 /\ Current.op = "KEYS" /\ Current.good = ThreeOrMore
           \/ test = 9 /\ Current.op = "TIMED" /\ Current.good = Valued(1)
           \/ test = 10 /\ Current.op = "LIST" /\ Current.good = Valued(1)
        /\ test = 4 => step # 1
    BY <1>4, ReadCalls
  <2>2. /\ answer \in FailureOf("GET") => answer = <<500, 0>>
        /\ answer \in FailureOf("TIMED") => answer = <<500, 0>>
        /\ answer \in FailureOf("HISTORY") => answer[1] # 200
        /\ answer \in FailureOf("REVISION") => answer[1] # 200
        /\ answer \in FailureOf("KEYS") => answer = <<200, 0>> \/ answer = <<500, 0>>
    BY DEF FailureOf
  <2>3. /\ \A v : <<500, 0>> \notin Valued(v)
        /\ \A v : answer \in Valued(v) => answer[1] = 200
        /\ <<500, 0>> \notin ThreeOrMore /\ <<200, 0>> \notin ThreeOrMore
        /\ answer \in ThreeOrMore => answer[1] = 200
    BY DEF Valued, ThreeOrMore
  <2>4. test \notin {1, 3, 4, 5, 7, 8, 9}
    BY ONLY <2>1, <2>2, <2>3, answer \in FailureOf(Current.op), answer \in Current.good
  <2> QED BY <2>1, <2>4
<1>5. QED BY <1>1, <1>2, <1>3, <1>4

\* a call that fails,
LEMMA FailedStep ==
    ASSUME VerifyInv, Calling, CallFails(Upstream(Current))
    PROVE  VerifyInv'
<1>1. Upstream(Current).method = Current.op
  BY UpstreamFields
<1>2. PICK answer \in FailureOf(Current.op) : Judge(answer)
  BY <1>1 DEF CallFails
<1>3. /\ stored' \in Seq(EntryType) /\ late' \subseteq EntryType
      /\ Len(stored') \in Nat /\ Len(stored') >= Len(stored)
  BY Effects DEF CallFails
<1>4. kept \in 0 .. Len(stored) /\ Len(stored) \in Nat /\ blame \subseteq {"call", "lag", "slow"}
      /\ (test = 4 /\ step # 1 => kept # 0)
  BY WhileCalling
<1>5. UNCHANGED <<test, depth, passed, failed>> /\ kept' = kept /\ blame' = blame \cup {"call"}
  BY DEF CallFails
<1>6. /\ kept' \in 0 .. Len(stored') /\ blame' \subseteq {"call", "lag", "slow"}
      /\ "call" \in blame' /\ blame' # {}
  BY <1>3, <1>4, <1>5
<1>7. answer \in Current.good =>
        test # 5 /\ (test = 4 => step # 1)
        /\ (step = Len(Tests[test]) => test \notin {1, 3, 4, 7, 8, 9})
  BY FailuresPassNothing
<1>8. test = 4 /\ answer \in Current.good => kept' # 0
  BY <1>4, <1>5, <1>7
<1>9. QED BY <1>2, <1>3, <1>5, <1>6, <1>7, <1>8, CallAnswered

\* one that throws,
LEMMA ThrownStep ==
    ASSUME VerifyInv, Calling, CallThrows(Upstream(Current))
    PROVE  VerifyInv'
<1>1. /\ stored' \in Seq(EntryType) /\ late' \subseteq EntryType
      /\ Len(stored') \in Nat /\ Len(stored') >= Len(stored)
  BY Effects DEF CallThrows
<1>2. kept \in 0 .. Len(stored) /\ Len(stored) \in Nat /\ blame \subseteq {"call", "lag", "slow"}
  BY WhileCalling
<1>3. UNCHANGED <<test, depth, passed, failed>> /\ kept' = kept /\ blame' = blame \cup {"call"}
      /\ step' = 0 /\ verdict' = "fail"
  BY DEF CallThrows
<1>4. kept' \in 0 .. Len(stored') /\ blame' \subseteq {"call", "lag", "slow"} /\ "call" \in blame'
  BY <1>1, <1>2, <1>3
<1>5. VerifyTypeOK'
  BY <1>1, <1>3, <1>4 DEF VerifyInv, VerifyTypeOK
<1>6. ~Alive' /\ FailureHasACause'
  BY <1>3, <1>4 DEF Alive, FailureHasACause
<1>7. test' # 0 => step' <= Len(Tests[test']) /\ (step' = 0 <=> verdict' # "none")
  <2>1. test \in 1 .. 10 /\ test' = test
    BY <1>3 DEF Calling
  <2>2. Len(Tests[test]) \in 1 .. 6
    BY <2>1, TestLengths
  <2> QED BY <1>3, <2>1, <2>2
<1>8. test' # 0
  BY <1>3 DEF Calling
<1>9. QED BY <1>3, <1>4, <1>5, <1>6, <1>7, <1>8 DEF VerifyInv

\* What a test has been passed for is not undone by a write that comes late.
LEMMA ClaimsLast ==
    ASSUME VerifyTypeOK, test \in {1, 3, 4, 7, 8, 9}, Claim(test), test' = test, kept' = kept,
           NEW e \in EntryType, stored' = Append(stored, e)
    PROVE  Claim(test)'
<1>1. /\ stored \in Seq(EntryType) /\ kept \in 0 .. Len(stored) /\ Len(stored) \in Nat
      /\ DOMAIN stored = 1 .. Len(stored)
  BY DEF VerifyTypeOK
<1>2. /\ stored' \in Seq(EntryType) /\ Len(stored') = Len(stored) + 1
      /\ \A i \in 1 .. Len(stored) : stored'[i] = stored[i]
  BY <1>1, AppendTypes
<1>3. DOMAIN stored' = 1 .. Len(stored) + 1 /\ DOMAIN stored \subseteq DOMAIN stored'
  BY <1>1, <1>2
<1>4. ASSUME NEW v, Holds(v) PROVE \E i \in DOMAIN stored' : stored'[i].val = v
  BY <1>1, <1>2, <1>3, <1>4 DEF Holds
<1>5. CASE test = 1
  BY <1>4, <1>5 DEF Claim, Holds
<1>6. CASE test = 3
  BY <1>1, <1>2, <1>6 DEF Claim
<1>7. CASE test = 4
  <2>1. kept # 0 /\ stored[kept].val = 1 /\ kept \in 1 .. Len(stored)
    BY <1>1, <1>7 DEF Claim
  <2> QED BY <1>2, <1>7, <2>1 DEF Claim
<1>8. CASE test = 7
  BY <1>4, <1>8 DEF Claim, Holds
<1>9. CASE test = 8
  <2>1. Cardinality(KeysStored) = 3
    BY <1>9 DEF Claim
  <2>2. KeysStored' \subseteq 1 .. 3
    <3> SUFFICES ASSUME NEW i \in DOMAIN stored' PROVE stored'[i].key \in 1 .. 3
      BY DEF KeysStored
    <3>1. stored'[i] \in EntryType
      BY <1>2
    <3> QED BY <3>1 DEF EntryType
  <2>3. KeysStored \subseteq KeysStored'
    <3> SUFFICES ASSUME NEW i \in DOMAIN stored PROVE stored[i].key \in KeysStored'
      BY DEF KeysStored
    <3>1. i \in DOMAIN stored' /\ stored'[i] = stored[i]
      BY <1>1, <1>2, <1>3
    <3> QED BY <3>1 DEF KeysStored
  <2>4. IsFiniteSet(KeysStored') /\ Cardinality(KeysStored') <= 3
    BY <2>2, ThreeKeys, FS_Subset
  <2>5. Cardinality(KeysStored) <= Cardinality(KeysStored')
    BY <2>3, <2>4, FS_Subset
  <2>6. Cardinality(KeysStored') \in Nat
    BY <2>4, FS_CardinalityType
  <2>7. Cardinality(KeysStored') = 3
    BY <2>1, <2>4, <2>5, <2>6
  <2> QED BY <1>9, <2>7 DEF Claim
<1>10. CASE test = 9
  <2>1. stored' # << >>
    BY <1>1, <1>2
  <2> QED BY <1>10, <2>1 DEF Claim
<1>11. QED BY <1>5, <1>6, <1>7, <1>8, <1>9, <1>10

\* and a write that comes late.
LEMMA LateStep == VerifyInv /\ LateWrite => VerifyInv'
<1> SUFFICES ASSUME VerifyInv, LateWrite PROVE VerifyInv'
  OBVIOUS
<1>1. PICK e \in late :
        /\ late' = late \ {e}
        /\ stored' = IF Fits(e) THEN Append(stored, e) ELSE stored
        /\ UNCHANGED <<test, step, depth, kept, verdict, blame, passed, failed>>
  BY DEF LateWrite
<1>2. /\ stored \in Seq(EntryType) /\ late \subseteq EntryType /\ kept \in 0 .. Len(stored)
      /\ VerifyTypeOK
  BY DEF VerifyInv, VerifyTypeOK
<1>3. e \in EntryType /\ "call" \in blame /\ Len(stored) \in Nat
  BY <1>1, <1>2 DEF VerifyInv
<1>4. Append(stored, e) \in Seq(EntryType) /\ Len(Append(stored, e)) = Len(stored) + 1
  BY <1>2, <1>3, AppendTypes
<1>5. stored' \in Seq(EntryType) /\ late' \subseteq EntryType /\ kept' \in 0 .. Len(stored')
  BY <1>1, <1>2, <1>3, <1>4
<1>6. VerifyTypeOK'
  BY <1>1, <1>5 DEF VerifyInv, VerifyTypeOK
<1>7. verdict' = "pass" /\ test' \in {1, 3, 4, 7, 8, 9} => Claim(test)'
  <2> SUFFICES ASSUME verdict = "pass", test \in {1, 3, 4, 7, 8, 9} PROVE Claim(test)'
    BY <1>1
  <2>1. Claim(test)
    BY DEF VerifyInv
  <2>2. CASE stored' = stored
    <3>1. Claim(test)' <=> Claim(test)
      BY <1>1, <2>2, ClaimStays
    <3> QED BY <2>1, <3>1
  <2>3. CASE stored' = Append(stored, e)
    BY <1>1, <1>2, <1>3, <2>1, <2>3, ClaimsLast
  <2> QED BY <1>1, <2>2, <2>3
<1>8. /\ test' = 0 => step' = 0 /\ verdict' = "none"
      /\ test' # 0 => step' <= Len(Tests[test']) /\ (step' = 0 <=> verdict' # "none")
      /\ Alive' <=> Alive
      /\ FailureHasACause'
      /\ test' = 4 /\ Alive' /\ step' # 1 => kept' # 0
      /\ test' = 5 /\ Alive' => "call" \notin blame'
  BY <1>1 DEF VerifyInv, Alive, FailureHasACause, TooShallow
<1>9. QED BY <1>1, <1>3, <1>6, <1>7, <1>8 DEF VerifyInv

\* A test starts on an empty bucket.
LEMMA TestStarts ==
    ASSUME test' \in 1 .. 10, step' = 1, Fresh, depth' \in Depths, passed' \in Nat, failed' \in Nat,
           passed' + failed' = test' - 1
    PROVE  VerifyInv'
<1>1. /\ stored' = << >> /\ late' = {} /\ kept' = 0 /\ verdict' = "none" /\ blame' = {}
  BY DEF Fresh
<1>2. Len(stored') = 0 /\ stored' \in Seq(EntryType) /\ DOMAIN stored' = {}
  BY <1>1
<1>3. VerifyTypeOK'
  BY <1>1, <1>2, TheTests DEF VerifyTypeOK
<1>4. Len(WrittenBy[test']) \in 0 .. 5 /\ Len(Tests[test']) \in 1 .. 6
  <2>1. PICK t \in 1 .. 10 : t = test'
    OBVIOUS
  <2>2. Len(WrittenBy[t]) \in 0 .. 5 /\ Len(Tests[t]) \in 1 .. 6
    BY ONLY t \in 1 .. 10, WrittenLengths, TestLengths
  <2> QED BY <2>1, <2>2
<1>5. PICK len \in 0 .. 5 : len = Len(WrittenBy[test'])
  BY <1>4
<1>6. (IF step' # 0 THEN step' - 1 ELSE Len(Tests[test'])) = 0
  OBVIOUS
<1>7. AsWritten'
  <2>1. 0 <= len
    BY <1>5
  <2> QED BY <1>2, <1>5, <1>6, <2>1 DEF AsWritten
<1>8. PICK m \in 1 .. 6 : m = Len(Tests[test'])
  BY <1>4
<1>9. step' <= Len(Tests[test']) /\ (step' = 0 <=> verdict' # "none")
  <2>1. 1 <= m
    BY ONLY m \in 1 .. 6
  <2>2. step' # 0 /\ ~(verdict' # "none")
    BY <1>1
  <2> QED BY <1>8, <2>1, <2>2
<1>10. QED BY <1>1, <1>3, <1>7, <1>9 DEF VerifyInv, FailureHasACause

\* No test is under way.
LEMMA NoTest ==
    ASSUME test' = 0, step' = 0, Fresh, depth' \in Depths, passed' \in Nat, failed' \in Nat
    PROVE  VerifyInv'
<1>1. /\ stored' = << >> /\ late' = {} /\ kept' = 0 /\ verdict' = "none" /\ blame' = {}
  BY DEF Fresh
<1>2. Len(stored') = 0 /\ stored' \in Seq(EntryType)
  BY <1>1
<1>3. VerifyTypeOK'
  BY <1>1, <1>2, TheTests DEF VerifyTypeOK
<1>4. QED BY <1>1, <1>3 DEF VerifyInv, FailureHasACause

\* The next test, or the end of the run.
LEMMA NextTestStep == VerifyInv /\ NextTest => VerifyInv'
<1> SUFFICES ASSUME VerifyInv, NextTest PROVE VerifyInv'
  OBVIOUS
<1>1. /\ test \in 0 .. 10 /\ verdict \in {"pass", "fail"} /\ test # 0
      /\ passed \in Nat /\ failed \in Nat /\ passed + failed = test - 1
  BY TheTests DEF VerifyInv, VerifyTypeOK, NextTest
<1>2. /\ passed' = IF verdict = "pass" THEN passed + 1 ELSE passed
      /\ failed' = IF verdict = "fail" THEN failed + 1 ELSE failed
      /\ Fresh /\ depth' \in Depths
      /\ IF test < 10 THEN test' = test + 1 /\ step' = 1 ELSE test' = 0 /\ step' = 0
  BY TheTests DEF NextTest, VerifyInv, VerifyTypeOK
<1>3. passed' \in Nat /\ failed' \in Nat /\ passed' + failed' = test
  BY <1>1, <1>2
<1>4. CASE test < 10
  <2>1. test' \in 1 .. 10 /\ step' = 1 /\ passed' + failed' = test' - 1
    BY <1>1, <1>2, <1>3, <1>4
  <2> QED BY <1>2, <1>3, <2>1, TestStarts
<1>5. CASE ~(test < 10)
  BY <1>2, <1>3, <1>5, NoTest
<1>6. QED BY <1>4, <1>5

\* The invariant holds at the start,
LEMMA VerifyInvInit == VerifyInit => VerifyInv
<1> SUFFICES ASSUME VerifyInit PROVE VerifyInv
  OBVIOUS
<1>1. Len(stored) = 0 /\ stored \in Seq(EntryType)
  BY DEF VerifyInit
<1>2. VerifyTypeOK
  BY <1>1, TheTests DEF VerifyInit, VerifyTypeOK
<1>3. QED BY <1>2 DEF VerifyInit, VerifyInv, FailureHasACause

\* and every step of the script, the adapter and the replicas keeps it.
LEMMA VerifyInvStep == VerifyInv /\ [VerifyNext]_verifyVars => VerifyInv'
<1> SUFFICES ASSUME VerifyInv, [VerifyNext]_verifyVars PROVE VerifyInv'
  OBVIOUS
<1>1. CASE RunVerify
  <2>1. /\ test' \in 1 .. 10 /\ step' = 1 /\ Fresh /\ depth' \in Depths
        /\ passed' = 0 /\ failed' = 0
    BY <1>1 DEF RunVerify
  <2>2. passed' \in Nat /\ failed' \in Nat /\ passed' + failed' = test' - 1
    BY <1>1, <2>1 DEF RunVerify
  <2> QED BY <2>1, <2>2, TestStarts
<1>2. CASE Calls
  <2>1. Calling
    BY <1>2, CallingNow DEF Calls
  <2> QED BY <1>2, <2>1, PutStep, DeleteStep, IncrStep, IncrGivesUpStep, ReadStep, FailedStep,
             ThrownStep DEF Calls
<1>3. CASE NextTest
  BY <1>3, NextTestStep
<1>4. CASE LateWrite
  BY <1>4, LateStep
<1>5. CASE UNCHANGED verifyVars
  <2>1. /\ test' = test /\ step' = step /\ depth' = depth /\ stored' = stored /\ late' = late /\ kept' = kept
        /\ verdict' = verdict /\ blame' = blame /\ passed' = passed /\ failed' = failed
    BY <1>5 DEF verifyVars
  <2>2. VerifyTypeOK'
    BY <2>1 DEF VerifyInv, VerifyTypeOK
  <2>3. /\ Alive' <=> Alive
        /\ AsWritten' <=> AsWritten
        /\ Claim(test)' <=> Claim(test)
        /\ FailureHasACause' <=> FailureHasACause
    BY <2>1, ClaimStays DEF Alive, AsWritten, FailureHasACause, TooShallow
  <2> QED BY <2>1, <2>2, <2>3 DEF VerifyInv
<1>6. QED BY <1>1, <1>2, <1>3, <1>4, <1>5 DEF VerifyNext

\* A verdict is earned when the invariant holds.
LEMMA VerdictFollows == VerifyInv => VerdictIsEarned
<1> SUFFICES ASSUME VerifyInv, verdict = "pass", test \in {2, 6} => "call" \notin blame
             PROVE  Claim(test)
  BY DEF VerifyInv, VerdictIsEarned, PassIsEarned
<1>1. test \in 0 .. 10 /\ test # 0 /\ step = 0 /\ Alive /\ stored \in Seq(EntryType)
  BY TheTests DEF VerifyInv, VerifyTypeOK, Alive
<1>2. CASE test \in {1, 3, 4, 7, 8, 9}
  BY <1>2 DEF VerifyInv
<1>3. ASSUME test \in {2, 5, 6}
      PROVE  /\ Len(stored) = 2 /\ DOMAIN stored = {1, 2}
             /\ stored[1] = WrittenBy[test][1] /\ stored[2] = WrittenBy[test][2]
  <2>1. AsWritten
    BY <1>1, <1>3 DEF VerifyInv
  <2>2. Len(WrittenBy[test]) = 2 /\ (Len(Tests[test]) = 2 \/ Len(Tests[test]) = 3)
    BY <1>3, WrittenLengths, TestLengths
  <2>3. ASSUME NEW made \in 2 .. 3, made = Len(Tests[test]) PROVE Len(stored) = 2
    <3>1. IF made <= 2 THEN Len(stored) = made ELSE Len(stored) = 2
      BY <1>1, <2>1, <2>2, <2>3 DEF AsWritten
    <3>2. made = 2 \/ ~(made <= 2)
      OBVIOUS
    <3> QED BY ONLY <3>1, <3>2, 2 <= 2
  <2>4. 2 \in 2 .. 3 /\ 3 \in 2 .. 3
    OBVIOUS
  <2>5. Len(stored) = 2
    BY <2>2, <2>3, <2>4, Zenon
  <2>6. DOMAIN stored = {1, 2}
    BY <1>1, <2>5
  <2> QED BY <2>1, <2>5, <2>6 DEF AsWritten
<1>4. CASE test = 2
  <2>1. stored[1] = Message(1, 1, AnyRev) /\ stored[2] = Deletion
    BY <1>3, <1>4 DEF WrittenBy
  <2>2. ~stored[1].del /\ stored[2].del
    BY <2>1 DEF Message, Deletion
  <2>3. (\E i \in DOMAIN stored : ~stored[i].del) /\ stored[Len(stored)].del
    BY <1>3, <1>4, <2>2
  <2> QED BY <1>4, <2>3 DEF Claim
<1>5. CASE test = 5
  <2>1. stored[2] = Message(1, 2, 1)
    BY <1>3, <1>5 DEF WrittenBy
  <2> QED BY <1>3, <1>5, <2>1 DEF Claim, Message
<1>6. CASE test = 6
  <2>1. stored[1] = Message(1, 1, AnyRev) /\ stored[2] = Message(1, 2, AnyRev)
    BY <1>3, <1>6 DEF WrittenBy
  <2>2. stored[1].val = 1 /\ stored[2].val = 2
    BY <2>1 DEF Message
  <2> QED BY <1>3, <1>6, <2>2 DEF Claim, Holds
<1>7. CASE test = 10
  BY <1>7 DEF Claim
<1>8. QED BY <1>1, <1>2, <1>4, <1>5, <1>6, <1>7

-----------------------------------------------------------------------------
(* A behaviour of Pages is one of every part. *)
LEMMA PartsStart ==
  PagesInit => SessionInit /\ ProxyInit /\ PreviewInit /\ BucketsInit /\ LoadInit /\ VerifyInit /\ AdminInit
BY DEF PagesInit

\* A step of the pages is a step of every part, or leaves it alone.
LEMMA PartsStep ==
  ASSUME [PagesNext]_allVars
  PROVE  /\ [SessionNext]_sessionVars /\ [ProxyNext]_proxyVars /\ [PreviewNext]_previewVars
         /\ [BucketsNext]_bucketVars /\ [LoadNext]_loadVars /\ [VerifyNext]_verifyVars
         /\ [AdminNext]_adminVars
<1>1. CASE InSession
  BY <1>1, Zenon DEF InSession, Only
<1>2. CASE InApi
  BY <1>2, Zenon DEF InApi, Only
<1>3. CASE InPreview
  BY <1>3, Zenon DEF InPreview, Only
<1>4. CASE InBuckets
  BY <1>4, Zenon DEF InBuckets, Only
<1>5. CASE InLoadTest
  BY <1>5, Zenon DEF InLoadTest, Only
<1>6. CASE InVerify
  BY <1>6, Zenon DEF InVerify, Only
<1>7. CASE InAdmin
  BY <1>7, Zenon DEF InAdmin, Only
<1>8. CASE UNCHANGED allVars
  BY <1>8, Zenon DEF allVars
<1> QED BY <1>1, <1>2, <1>3, <1>4, <1>5, <1>6, <1>7, <1>8, Zenon DEF PagesNext

\* A behaviour of the pages is one of the session and one of the load test.
LEMMA PartsBehave == PagesSpec => SessionSpec /\ LoadSpec
<1>1. PagesInit => SessionInit /\ LoadInit
  BY PartsStart
<1>2. [PagesNext]_allVars => [SessionNext]_sessionVars /\ [LoadNext]_loadVars
  BY PartsStep
<1> QED BY <1>1, <1>2, PTL DEF PagesSpec, SessionSpec, LoadSpec

\* The invariants of the parts hold throughout a behaviour of the pages: the preview,
LEMMA PreviewInvAlways == PagesSpec => []PreviewInv
<1>1. [PagesNext]_allVars => [PreviewNext]_previewVars
  BY PartsStep
<1> QED BY <1>1, PartsStart, PreviewInvInit, PreviewInvStep, PTL DEF PagesSpec

\* the bucket list,
LEMMA ListInvAlways == PagesSpec => []ListInv
<1>1. [PagesNext]_allVars => [BucketsNext]_bucketVars
  BY PartsStep
<1> QED BY <1>1, PartsStart, ListInvInit, ListInvStep, PTL DEF PagesSpec

\* the verification page,
LEMMA VerifyInvAlways == PagesSpec => []VerifyInv
<1>1. [PagesNext]_allVars => [VerifyNext]_verifyVars
  BY PartsStep
<1> QED BY <1>1, PartsStart, VerifyInvInit, VerifyInvStep, PTL DEF PagesSpec

\* the admin page,
LEMMA AdminInvAlways == PagesSpec => []AdminInv
<1>1. [PagesNext]_allVars => [AdminNext]_adminVars
  BY PartsStep
<1> QED BY <1>1, PartsStart, AdminInvInit, AdminInvStep, PTL DEF PagesSpec

\* and the calls to the backends.
LEMMA ApiInvAlways == PagesSpec => []ApiInv
<1>1. [PagesNext]_allVars => [ProxyNext]_proxyVars
  BY PartsStep
<1> QED BY <1>1, PartsStart, ApiInvInit, ApiInvStep, PTL DEF PagesSpec
-----------------------------------------------------------------------------
(* Whichever page is open, every script and the server keep their types; of a run of the
   verification, every test that is over has been counted once. *)
THEOREM PagesTypesCorrect == PagesSpec => []PagesTypeOK
<1>1. SInv => SessionTypeOK
  BY DEF SInv, SessionTypes, SessionTypeOK, TabType, Visit, Cookie
<1>2. ApiInv => ProxyTypeOK
  <2> SUFFICES ASSUME ApiInv PROVE ProxyTypeOK
    OBVIOUS
  <2>1. ASSUME NEW k \in Item PROVE cells[k].rev \in 0 .. last
    BY DEF ApiInv, Cell
  <2>2. ASSUME NEW c \in Client
        PROVE  /\ calls[c].at \in {"idle", "app", "store", "nats", "served", "done"}
               /\ calls[c].told.rev \in 0 .. last
    <3>1. CallInv(calls[c], last)
      BY DEF ApiInv
    <3> QED BY <3>1 DEF CallInv, Reply
  <2> QED BY <2>1, <2>2 DEF ApiInv, ProxyTypeOK
<1>3. PreviewInv => PreviewTypeOK
  BY DEF PreviewInv
<1>4. ListInv => BucketsTypeOK
  BY DEF ListInv
<1>5. LInv => LoadTypeOK
  BY DEF LInv
<1>6. AdminInv => AdminTypeOK
  BY FewCalls DEF AdminInv, AdminTypes, AdminTypeOK, ServerTypes, InviteStates, TenantStates,
                  TenantTable
<1>7. VerifyInv => VerifyTypeOK
  BY DEF VerifyInv
<1>8. SInv /\ ApiInv /\ PreviewInv /\ ListInv /\ LInv /\ VerifyInv /\ AdminInv => PagesTypeOK
  BY <1>1, <1>2, <1>3, <1>4, <1>5, <1>6, <1>7 DEF PagesTypeOK
<1> QED BY <1>8, PartsBehave, SInvAlways, LInvAlways, PreviewInvAlways, ListInvAlways,
           VerifyInvAlways, AdminInvAlways, ApiInvAlways, PTL

(* The preview of the dashboard is about what the form has now, for any number of
   previews under way and any order of their answers (refreshPlacementPreview). *)
THEOREM PreviewStaysCurrent == PagesSpec => []PreviewIsCurrent
<1>1. PreviewInv => PreviewIsCurrent
  BY DEF PreviewInv, PreviewIsCurrent
<1> QED BY <1>1, PreviewInvAlways, PTL

(* A bucket that the page said was created is in the settled list, unless loads of the
   list crossed or failed (createBucket, loadBuckets). *)
THEOREM CreatedGetsListed == PagesSpec => []CreatedIsListed
<1>1. ListInv => CreatedIsListed
  BY DEF ListInv, CreatedIsListed
<1> QED BY <1>1, ListInvAlways, PTL

(* A verdict of the verification page is earned, however often the adapter attempts an
   increment and whatever fails, lags or comes late: no test fails on its own, and a PASS
   leaves the bucket as the name of the test says (runVerify and TESTS); 2 and 6 can be
   passed by a call that failed. *)
THEOREM VerdictsAreEarned == PagesSpec => []VerdictIsEarned
<1> QED BY VerifyInvAlways, VerdictFollows, PTL

(* The tables of the admin page show what the control plane has once they have settled,
   for any number of invites, tenants and overlapping clicks, with calls that have their
   effect after the page was told of a failure and lists from replicas that lag
   (authFetch and its users); the tenants of claims made since may be missing. *)
THEOREM TablesGetRight == PagesSpec => []TablesSettle
<1>1. AdminInv => TablesSettle
  <2> SUFFICES ASSUME AdminInv PROVE TablesSettle
    OBVIOUS
  <2>1. Settled("tenants") => tenantRows = {r \in TenantList : r[1] \notin joined}
    BY DEF AdminInv, TableInv, Tables, Right, Rows, Settled
  <2>2. Settled("invites") => Is("open") \subseteq inviteRows
                              /\ inviteRows \subseteq Is("open") \cup Is("claimed")
    BY DEF AdminInv, TableInv, Tables, Right, Rows, Settled
  <2> QED BY <2>1, <2>2 DEF TablesSettle
<1> QED BY <1>1, AdminInvAlways, PTL

(* The proxy is transparent (call_nats, call_cosmos, b64encode): for bodies of any length,
   any rotation of the gate, any lost call, any error in the envelope and any call that
   takes effect after its caller was told of a failure, a client of the app is told what
   DirectKV promises the caller of the adapter, as long as no call has the X-TTL-Seconds
   header, which the app does not pass on. *)
THEOREM ProxyIsTransparent ==
  ASSUME \A r \in Request : ~r.ttlHeader
  PROVE  PagesSpec => ImplementsDirect
<1>1. PagesInit => Direct!DirectInit
  BY PartsStart, DirectInitially
<1>2. ApiInv /\ [PagesNext]_allVars => [Direct!DirectNext]_Direct!directVars
  BY PartsStep, DirectStep
<1> QED BY <1>1, <1>2, ApiInvAlways, PTL DEF PagesSpec, ImplementsDirect, Direct!DirectSpec
=============================================================================
