----------------------------- MODULE JobService -----------------------------
(***************************************************************************)
(* One job of the web service (openwater_mk/web/server.py and jobs.py):    *)
(* POST /sign-embed makes the job and runs sign_and_embed on the server's  *)
(* event loop; POST verify, GET report.json, GET report.html and the two   *)
(* anchor endpoints run on threads of the pool and meet the job only       *)
(* through the files of its directory.  Composes SignVerify (sign_embed/)  *)
(* and AnchorDir (anchor/), and adds profile.txt, verify_report.json and   *)
(* what the event loop lets start when.  Jobs share nothing but the root   *)
(* directory, so one job stands for all.                                   *)
(***************************************************************************)
EXTENDS Integers, Sequences, FiniteSets, TextFile

CONSTANTS
  Runs,        \* the one run of sign_and_embed of this job
  Backends, Profiles,
  Verifiers,   \* threads serving verify, report.json and report.html
  Requests, Getters, Threads, MaxTime,   \* see AnchorDir
  PoolSize,    \* requests that threads of the pool serve at the same time
  MaxCrashes   \* bound on crashes of the server

VARIABLES
  outDir, imageF, mkeyF, uriF, keyF, root, signer, made, verifier,   \* SignVerify
  anchorDir, ledgerF, recordF, receiptF, metadataF,                  \* AnchorDir
  pc, record, loaded, view, now, logged,
  crashes,
  web,         \* POST /sign-embed: where the handler is
  profileF,    \* sign_embed/profile.txt
  reportF,     \* verify_report.json
  serving,     \* verify and report requests: where each is, and what it asked
  sent         \* anchor requests that a thread of the pool serves

Job    == INSTANCE SignVerify
Anchor == INSTANCE AnchorDir

signJobVars == <<outDir, imageF, mkeyF, uriF, keyF, root, signer, made>>
jobVars     == <<signJobVars, verifier>>
anchorVars  == <<anchorDir, ledgerF, recordF, receiptF, metadataF,
                 pc, record, loaded, view, now, logged>>
webVars     == <<web, profileF>>
reportVars  == <<reportF, serving>>
vars == <<jobVars, anchorVars, crashes, webVars, reportVars, sent>>

ASSUME OneRunAssumption   == \E r \in Runs : Runs = {r}
ASSUME BackendsAssumption == Backends \subseteq Job!Kinds
ASSUME ProfilesAssumption == Profiles \subseteq {"alpha_lsb", "dct_qim"}
ASSUME ProcsAssumption    == Requests \cap Getters = {}
ASSUME BoundsAssumption   ==
  /\ Threads \in Nat /\ PoolSize \in Nat
  /\ MaxTime \in Nat /\ MaxCrashes \in Nat

\* Mutant of WebDefaultProfile: the other carrier is the default.
RobustDefault == "dct_qim"

\* WEB_DEFAULT_PROFILE of server.py.
WebDefaultProfile == "alpha_lsb"

WebPCs == {"none", "upload", "signing", "openProfile", "writeProfile",
           "responded", "dead"}
Endpoints == {"verify", "report.json", "report.html"}
ServingPCs == {"idle", "lookup", "readReport", "readProfile", "verifying",
               "openReport", "writeReport", "answered"}
Reports == [verdict : Job!Verdicts, profile : Profiles \cup {WebDefaultProfile}]

TypeOK ==
  /\ Job!TypeOK
  /\ Anchor!TypeOK
  /\ web \in WebPCs
  /\ profileF \in FileOf(Profiles)
  /\ reportF \in FileOf(Reports)
  /\ serving \in [Verifiers -> [pc : ServingPCs, ask : Endpoints]]
  /\ sent \subseteq Requests \cup Getters

Init ==
  /\ Job!Init
  /\ Anchor!InitDir
  /\ web = "none"
  /\ profileF = Absent /\ reportF = Absent
  /\ serving = [v \in Verifiers |-> [pc |-> "idle", ask |-> "verify"]]
  /\ sent = {}

-----------------------------------------------------------------------------
(* POST /sign-embed                                                         *)

\* The handler awaits the upload between making the job and signing; from
\* then on it holds the event loop until it responds, and no other request
\* gets to a thread.
LoopFree  == web \notin {"signing", "openProfile", "writeProfile"}
Busy      == {v \in Verifiers : serving[v].pc \notin {"idle", "answered"}}
CanServe  == LoopFree /\ Cardinality(sent) + Cardinality(Busy) < PoolSize
JobExists == web # "none"

NewJob ==
  /\ web = "none"
  /\ web' = "upload"
  /\ UNCHANGED <<jobVars, anchorVars, crashes, profileF, reportVars, sent>>

StartSigning(r, b, p) ==
  /\ web = "upload"
  /\ web' = "signing"
  /\ Job!StartSign(r, b, p)
  /\ UNCHANGED <<anchorVars, profileF, reportVars, sent>>

\* A step of sign_and_embed.  When it returns, profile.txt is next; when it
\* raises, the handler answers 500 and the directory stays as it is.
Sign ==
  /\ web = "signing"
  /\ Job!SignStep
  /\ web' = CASE signer'.pc = "done" -> "openProfile"
              [] signer'.pc = "idle" -> "dead"
              [] OTHER -> web
  /\ UNCHANGED <<anchorVars, profileF, reportVars, sent>>

WriteProfile ==
  /\ \/ web = "openProfile" /\ profileF' = Empty /\ web' = "writeProfile"
     \/ /\ web = "writeProfile"
        /\ profileF' = Whole(made[signer.run].profile)
        /\ web' = "responded"
  /\ UNCHANGED <<jobVars, anchorVars, crashes, reportVars, sent>>

-----------------------------------------------------------------------------
(* POST /jobs/{id}/verify, GET report.json and GET report.html              *)

ServeGoto(v, l) == serving' = [serving EXCEPT ![v].pc = l]

Request(v, ask) ==
  /\ serving[v].pc \in {"idle", "answered"}
  /\ CanServe /\ JobExists
  /\ serving' = [serving EXCEPT ![v] =
       [pc |-> IF ask = "verify" THEN "readProfile" ELSE "lookup", ask |-> ask]]
  /\ UNCHANGED <<jobVars, anchorVars, crashes, webVars, reportF, sent>>

\* A report that exists is served as it is; otherwise it is made now.
LookupReport(v) ==
  /\ serving[v].pc = "lookup"
  /\ ServeGoto(v, IF Exists(reportF) THEN "readReport" ELSE "readProfile")
  /\ UNCHANGED <<jobVars, anchorVars, crashes, webVars, reportF, sent>>

ReadReport(v) ==
  /\ serving[v].pc = "readReport"
  /\ ServeGoto(v, IF Parses(reportF) THEN "answered" ELSE "idle")
  /\ UNCHANGED <<jobVars, anchorVars, crashes, webVars, reportF, sent>>

\* Mutant of JobProfile: nothing is assumed without profile.txt.
KnownProfile == IF Parses(profileF) THEN profileF.val ELSE "none"

\* _job_profile: without a readable profile.txt the web default is assumed.
JobProfile == IF Parses(profileF) THEN profileF.val ELSE WebDefaultProfile

VerifySelf(v) ==
  /\ serving[v].pc = "readProfile"
  /\ Job!StartVerify(v, JobProfile)
  /\ ServeGoto(v, "verifying")
  /\ UNCHANGED <<anchorVars, webVars, reportF, sent>>

VerifySelfStep(v) ==
  /\ serving[v].pc = "verifying"
  /\ Job!VerifyStep(v)
  /\ ServeGoto(v, CASE verifier'[v].pc = "verdict" -> "openReport"
                    [] verifier'[v].pc = "error"   -> "idle"
                    [] OTHER -> "verifying")
  /\ UNCHANGED <<anchorVars, webVars, reportF, sent>>

\* save_verify_report.
SaveReport(v) ==
  LET report == [verdict |-> verifier[v].verdict, profile |-> verifier[v].profile] IN
  /\ \/ serving[v].pc = "openReport" /\ reportF' = Empty /\ ServeGoto(v, "writeReport")
     \/ /\ serving[v].pc = "writeReport"
        /\ reportF' \in Landing(reportF, report,
             IF reportF = Whole(report) THEN {FALSE} ELSE BOOLEAN)
        /\ ServeGoto(v, IF serving[v].ask = "report.html" THEN "readReport"
                        ELSE "answered")
  /\ UNCHANGED <<jobVars, anchorVars, crashes, webVars, sent>>

-----------------------------------------------------------------------------
(* The anchor endpoints                                                     *)

SendAnchor(p) ==
  /\ p \notin sent /\ pc[p] \in {"new", "idle", "answered"}
  /\ CanServe /\ JobExists
  /\ sent' = sent \cup {p}
  /\ UNCHANGED <<jobVars, anchorVars, crashes, webVars, reportVars>>

\* post_anchor answers 404 without a sign_embed directory, get_anchor without
\* an anchor directory.
AnchorNotFound(p) ==
  /\ p \in sent
  /\ \/ pc[p] = "new" /\ ~outDir
     \/ pc[p] \in {"idle", "answered"} /\ ~anchorDir
  /\ sent' = sent \ {p}
  /\ UNCHANGED <<jobVars, anchorVars, crashes, webVars, reportVars>>

AnchorStep ==
  /\ \/ \E q \in Requests \cap sent : Anchor!Post(q) /\ (pc[q] = "new" => outDir)
     \/ \E g \in Getters \cap sent : Anchor!Get(g)
     \/ \E p \in sent : \/ Anchor!ProbeLedger(p) \/ Anchor!CreateLedger(p)
                        \/ Anchor!WriteEmptyLedger(p)
  /\ Anchor!Observe
  /\ sent' = {p \in sent : pc'[p] \notin {"idle", "answered", "done", "failed"}}
  /\ UNCHANGED <<jobVars, webVars, reportVars>>

-----------------------------------------------------------------------------

\* The server dies and is started again; handlers are gone, files stay.
Crash ==
  /\ crashes < MaxCrashes
  /\ Anchor!Crash /\ Anchor!Observe
  /\ signer' = [signer EXCEPT !.pc = IF @ = "done" THEN "done" ELSE "idle"]
  /\ verifier' = [v \in Verifiers |-> Job!NoRead]
  /\ serving' = [v \in Verifiers |-> [pc |-> "idle", ask |-> "verify"]]
  /\ web' = IF web \in {"none", "responded"} THEN web ELSE "dead"
  /\ sent' = {}
  /\ UNCHANGED <<outDir, imageF, mkeyF, uriF, keyF, root, made,
                 profileF, reportF>>

Next ==
  \/ NewJob \/ Sign \/ WriteProfile \/ AnchorStep \/ Crash
  \/ \E r \in Runs, b \in Backends, p \in Profiles : StartSigning(r, b, p)
  \/ \E v \in Verifiers :
       \/ \E ask \in Endpoints : Request(v, ask)
       \/ LookupReport(v) \/ ReadReport(v) \/ VerifySelf(v)
       \/ VerifySelfStep(v) \/ SaveReport(v)
  \/ \E p \in Requests \cup Getters : SendAnchor(p) \/ AnchorNotFound(p)

Spec == Init /\ [][Next]_vars

-----------------------------------------------------------------------------
(* Properties                                                               *)

theRun == CHOOSE r \in Runs : TRUE
JobSigned == theRun \in DOMAIN made

\* The report that report.json serves from then on says "verified" for every
\* job signed with the alpha_lsb carrier: requests that come before, during
\* or after sign_and_embed, or after a crash in the middle of it, either get
\* an error or the right report, and only reports are kept.
AlphaReportsVerified ==
  Parses(reportF) /\ made[theRun].profile = "alpha_lsb"
    => reportF.val.verdict = "verified"

\* server.py, _job_profile: "Return the profile used when this job was
\* signed/embedded": the profile the kept report was made with.
ReportUsesJobProfile ==
  Parses(reportF) => reportF.val.profile = made[theRun].profile

\* A job is anchored only when everything its anchor refers to is in place:
\* the record's operator key is the job's, key.json is complete and the
\* manifest can be read back from its store.
AnchoredJobComplete ==
  \A i \in DOMAIN logged :
    /\ logged[i].md.kid = theRun
    /\ keyF = Whole(theRun) /\ imageF = Whole(theRun)
    /\ Job!FreshFinds(root, theRun)
=============================================================================
