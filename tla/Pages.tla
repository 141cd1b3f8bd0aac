-------------------------------- MODULE Pages --------------------------------
(***************************************************************************)
(* The web apps as their users meet them: a browser session at the user    *)
(* app, API calls through it, the scripts of its dashboard, load test and  *)
(* verification pages, and the page of the admin app.  These parts share   *)
(* the server code of UserApp and no state: each page has a script of its  *)
(* own, and a tab runs the script of the page it shows.  So a behaviour    *)
(* is the behaviour of one part, chosen at the start, with the others as   *)
(* they are before they are opened.                                        *)
(***************************************************************************)
EXTENDS Session, Proxy, Preview, BucketList, LoadTest, Verify, AdminPage

CONSTANT Parts      \* the parts looked at

ASSUME PagesAssumption ==
    Parts \subseteq {"session", "api", "preview", "buckets", "loadtest", "verify", "admin"}

VARIABLE page       \* the part that is open

allVars == <<page, sessionVars, proxyVars, previewVars, bucketVars, loadVars, verifyVars,
             adminVars>>

\* Part p is open, and the others do not change.
Only(p) ==
    /\ page' = page
    /\ IF p = "session"  THEN TRUE ELSE UNCHANGED sessionVars
    /\ IF p = "api"      THEN TRUE ELSE UNCHANGED proxyVars
    /\ IF p = "preview"  THEN TRUE ELSE UNCHANGED previewVars
    /\ IF p = "buckets"  THEN TRUE ELSE UNCHANGED bucketVars
    /\ IF p = "loadtest" THEN TRUE ELSE UNCHANGED loadVars
    /\ IF p = "verify"   THEN TRUE ELSE UNCHANGED verifyVars
    /\ IF p = "admin"    THEN TRUE ELSE UNCHANGED adminVars
-----------------------------------------------------------------------------
\* What a part can start with matters only when it is open.
PagesInit ==
    /\ page \in Parts
    /\ SessionInit /\ ProxyInit /\ PreviewInit /\ BucketsInit /\ LoadInit /\ VerifyInit /\ AdminInit
    /\ page # "session" => gate = CHOOSE g \in Token : TRUE
    /\ page # "api" => /\ uiGate = CHOOSE g \in Token : TRUE
                       /\ \A c \in Client : jars[c] = None
    /\ page # "preview" => form.choice = CHOOSE c \in Choice : TRUE
    /\ page # "buckets" => buckets = {} /\ name = CHOOSE b \in Bucket : TRUE
    /\ page # "verify" => depth = CHOOSE d \in Depths : TRUE

InSession == page = "session" /\ SessionNext /\ Only("session")
InApi == page = "api" /\ ProxyNext /\ Only("api")
InPreview == page = "preview" /\ PreviewNext /\ Only("preview")
InBuckets == page = "buckets" /\ BucketsNext /\ Only("buckets")
InLoadTest == page = "loadtest" /\ LoadNext /\ Only("loadtest")
InVerify == page = "verify" /\ VerifyNext /\ Only("verify")
InAdmin == page = "admin" /\ AdminNext /\ Only("admin")

PagesNext ==
    InSession \/ InApi \/ InPreview \/ InBuckets \/ InLoadTest \/ InVerify \/ InAdmin

\* The fairness of the part that is open: calls are answered or fail, and time passes.
PagesFair ==
    /\ \A t \in Tab : WF_allVars(page = "session" /\ Browser(t) /\ Only("session"))
    /\ WF_allVars(page = "preview" /\ PreviewStep /\ Only("preview"))
    /\ WF_allVars(page = "buckets" /\ CreateStep /\ Only("buckets"))
    /\ WF_allVars(page = "loadtest" /\ (\E w \in Worker : WorkerStep(w)) /\ Only("loadtest"))
    /\ WF_allVars(page = "loadtest" /\ Deadline /\ Only("loadtest"))
    /\ WF_allVars(page = "loadtest" /\ RunEnds /\ Only("loadtest"))
    /\ WF_allVars(page = "verify" /\ (Calls \/ NextTest) /\ Only("verify"))

PagesSpec == PagesInit /\ [][PagesNext]_allVars
FairPagesSpec == PagesSpec /\ PagesFair
-----------------------------------------------------------------------------
(* Types: every script keeps its variables, and the server its cookies and records,
   within the values its code is written for. *)
PagesTypeOK ==
    SessionTypeOK /\ ProxyTypeOK /\ PreviewTypeOK /\ BucketsTypeOK /\ LoadTypeOK
    /\ VerifyTypeOK /\ AdminTypeOK

(* Nobody is left waiting: a navigation ends with a page, a preview does not stay
   "computing", and the buttons that create a bucket, run a load test or run the
   verification come back, whatever fails on the way. *)
EveryWaitEnds ==
    NavigationEnds /\ PreviewSettles /\ ButtonComesBack /\ RunStops /\ VerifyEnds
=============================================================================
