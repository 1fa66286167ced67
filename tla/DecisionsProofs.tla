--------------------------- MODULE DecisionsProofs ---------------------------
(***************************************************************************)
(* Theorems about verdicts and tenants, for any set of checks, of registry  *)
(* checks among them, of tenants and of cryptosuites.                       *)
(*                                                                         *)
(* The worker's flag says nothing of the single checks, and the merge may   *)
(* replace some of them.  The invariant (Sound) ties the two together: a    *)
(* result that is flagged verified lists verified credentials whose checks  *)
(* have no fatal failure, and what the first pass found wrong elsewhere     *)
(* than in a registry is still listed.                                      *)
(***************************************************************************)
EXTENDS Decisions, SequenceTheorems, TLAPS

Credential   == [verified : BOOLEAN, results : Findings]
Presentation == [verified : BOOLEAN, credentialResults : [1..2 -> Credential]]

Verdicts == [about : {"verdict"}, trusts : BOOLEAN, first : Presentation,
             merged : Presentation, next : Nat]

(* A verified result lists only what is verified.                            *)
FlagMeansIt(results) ==
  results.verified =>
    \A i \in 1..2 : /\ results.credentialResults[i].verified
                    /\ CoreVerified(results.credentialResults[i].results)

(* Of the checks of one credential, those that are not a registry's stay.    *)
Keeps(before, now) ==
  \A id \in DOMAIN before \ RegistryChecks : id \in DOMAIN now /\ now[id] = before[id]

Sound(case) ==
  /\ FlagMeansIt(case.merged)
  /\ \A i \in 1..2 : Keeps(case.first.credentialResults[i].results,
                           case.merged.credentialResults[i].results)

(* The progress of a creation: nothing is saved before all is built, and the *)
(* answer is given by what was saved.                                        *)
Creating(case) ==
  \E request, built, saved, readable, answer :
    /\ built \in Nat
    /\ case = [about |-> "creation",
               creation |-> [request |-> request, built |-> built, saved |-> saved,
                             readable |-> readable, answer |-> answer]]
    /\ Len(request.rows) \in Nat /\ request.expires \in Nat
    /\ ExpiresOf(request) >= Now => readable = saved
    /\ answer = "unparsed" => saved = {}
    /\ saved # {} => built = Len(request.rows)
    /\ answer = "refused" => saved = {}
    /\ answer = "created" => saved = DOMAIN request.rows

(* The other cases are decided as they are asked.                            *)
AsAsked ==
  /\ Has("answer") => AnswerCase
  /\ Has("query")  => QueryCase
  /\ Has("tenant") => TenantCase
  /\ Has("caller") => CallerCase
  /\ Has("offer")  => OfferCase
  /\ Has("trust")  => TrustCase
  /\ Has("claims") => ClaimsCase

CasesInv ==
  /\ "about" \in DOMAIN asked
  /\ Has("verdict") => asked \in Verdicts /\ Sound(asked)
  /\ Has("creation") => Creating(asked)
  /\ AsAsked

-----------------------------------------------------------------------------
LEMMA FindingsAre ==
  \A f : f \in Findings <=> /\ DOMAIN f \subseteq Checks
                            /\ f \in [DOMAIN f -> Finding]
BY DEF Findings

(* mergeResults lists findings, keeps those of the earlier pass that are not *)
(* a registry's, and is free of fatal failures if both passes are.           *)
LEMMA MergeResultsSound ==
  ASSUME NEW before \in Findings, NEW incoming \in Findings
  PROVE  /\ MergeResults(before, incoming) \in Findings
         /\ Keeps(before, MergeResults(before, incoming))
         /\ CoreVerified(before) /\ CoreVerified(incoming)
              => CoreVerified(MergeResults(before, incoming))
<1> DEFINE m == MergeResults(before, incoming)
<1>1. DOMAIN m = (DOMAIN before \ RegistryChecks) \cup DOMAIN incoming
  BY DEF MergeResults
<1>2. \A id \in DOMAIN m : m[id] = IF id \in DOMAIN before \ RegistryChecks
                                     THEN before[id] ELSE incoming[id]
  BY DEF MergeResults
<1>3. \A id \in DOMAIN m : m[id] \in Finding
  BY <1>1, <1>2, FindingsAre
<1>4. m = [id \in DOMAIN m |-> m[id]]
  BY DEF MergeResults
<1> HIDE DEF m
<1>5. m \in Findings
  BY <1>1, <1>3, <1>4, FindingsAre
<1>6. Keeps(before, m)
  BY <1>1, <1>2 DEF Keeps
<1>7. CoreVerified(before) /\ CoreVerified(incoming) => CoreVerified(m)
  BY <1>1, <1>2 DEF CoreVerified
<1> QED
  BY <1>5, <1>6, <1>7 DEF m

LEMMA KeepsTransitive ==
  ASSUME NEW f, NEW g, NEW h, Keeps(f, g), Keeps(g, h)
  PROVE  Keeps(f, h)
BY DEF Keeps

(* The merge of one badge's verdict changes the flag and its credential.     *)
LEMMA MergeAt ==
  ASSUME NEW merged \in Presentation, NEW i \in 1..2, NEW verified \in BOOLEAN,
         NEW findings \in Findings
  PROVE  LET m == MergeOpenBadgesResultsAt(merged, i, verified, findings)
             c == merged.credentialResults[i] IN
         /\ m \in Presentation
         /\ m.verified = (merged.verified /\ verified)
         /\ m.credentialResults[i].verified = (c.verified /\ verified)
         /\ m.credentialResults[i].results = MergeResults(c.results, findings)
         /\ \A j \in 1..2 : j # i => m.credentialResults[j] = merged.credentialResults[j]
<1> DEFINE c == merged.credentialResults[i]
<1> DEFINE d == MergedCredential(c, verified, findings)
<1> DEFINE ds == MergedCredentials(merged.credentialResults, i, verified, findings)
<1>1. c \in Credential
  BY DEF Presentation
<1>2. /\ d \in Credential
      /\ d.verified = (c.verified /\ verified) /\ d.results = MergeResults(c.results, findings)
  BY <1>1, MergeResultsSound DEF Credential, MergedCredential
<1>3. ds = [merged.credentialResults EXCEPT ![i] = d]
  BY DEF MergedCredentials
<1> HIDE DEF d, ds
<1>4. ds \in [1..2 -> Credential] /\ ds[i] = d
      /\ \A j \in 1..2 : j # i => ds[j] = merged.credentialResults[j]
  BY <1>2, <1>3 DEF Presentation
<1> QED
  BY <1>2, <1>4 DEF MergeOpenBadgesResultsAt, Presentation, ds

-----------------------------------------------------------------------------
LEMMA CorePresentationSound ==
  ASSUME NEW passed \in BOOLEAN, NEW f \in Findings, NEW g \in Findings
  PROVE  LET results == CorePresentation(passed, <<CoreCredential(f), CoreCredential(g)>>) IN
         results \in Presentation /\ FlagMeansIt(results)
<1>1. \A h \in Findings : /\ CoreCredential(h) \in Credential
                          /\ CoreCredential(h).verified = CoreVerified(h)
                          /\ CoreCredential(h).results = h
  BY DEF CoreCredential, Credential, CoreVerified
<1> DEFINE cs == <<CoreCredential(f), CoreCredential(g)>>
<1>2. cs \in [1..2 -> Credential] /\ DOMAIN cs = 1..2 /\ cs[1] = CoreCredential(f) /\ cs[2] = CoreCredential(g)
  BY <1>1
<1> HIDE DEF cs
<1>3. CorePresentation(passed, cs) \in Presentation
  BY <1>2 DEF CorePresentation, Presentation
<1>4. FlagMeansIt(CorePresentation(passed, cs))
  <2> DEFINE r == CorePresentation(passed, cs)
  <2>1. r.credentialResults = cs /\ (r.verified => \A j \in 1..2 : cs[j].verified)
    BY <1>2 DEF CorePresentation
  <2>2. \A j \in 1..2 : cs[j].verified => CoreVerified(cs[j].results)
    BY <1>1, <1>2
  <2> HIDE DEF r
  <2>3. ASSUME r.verified, NEW j \in 1..2
        PROVE  r.credentialResults[j].verified /\ CoreVerified(r.credentialResults[j].results)
    <3>1. cs[j].verified
      BY <2>1, <2>3
    <3> QED
      BY <2>1, <2>2, <3>1
  <2> QED
    BY <2>3 DEF FlagMeansIt, r
<1> QED
  BY <1>3, <1>4 DEF cs

(* One more badge checked: what was sound stays sound.                       *)
LEMMA RecheckSound ==
  ASSUME asked \in Verdicts, Sound(asked), Recheck
  PROVE  asked' \in Verdicts /\ Sound(asked')
<1> DEFINE merged == asked.merged
<1> DEFINE i == asked.next
<1>1. merged \in Presentation /\ i \in 1..2 /\ FlagMeansIt(merged)
  BY DEF Verdicts, Presentation, Sound, Recheck
<1>2. PICK findings \in SecondFindings :
        asked' = [asked EXCEPT !.next = @ + 1,
          !.merged = MergeOpenBadgesResultsAt(@, i, CoreVerified(findings), findings)]
  BY DEF Recheck
<1> DEFINE m == MergeOpenBadgesResultsAt(merged, i, CoreVerified(findings), findings)
<1>3. findings \in Findings /\ CoreVerified(findings) \in BOOLEAN
  BY DEF SecondFindings, CoreVerified
<1> DEFINE c == merged.credentialResults[i]
<1>4. /\ m \in Presentation
      /\ m.verified = (merged.verified /\ CoreVerified(findings))
      /\ m.credentialResults[i].verified = (c.verified /\ CoreVerified(findings))
      /\ m.credentialResults[i].results = MergeResults(c.results, findings)
      /\ \A j \in 1..2 : j # i => m.credentialResults[j] = merged.credentialResults[j]
  BY <1>1, <1>3, MergeAt
<1>5. c.results \in Findings
  BY <1>1 DEF Presentation, Credential
<1>6. /\ asked'.about = "verdict" /\ asked'.first = asked.first /\ asked'.merged = m
      /\ asked' \in Verdicts
  <2>1. m \in Presentation /\ asked' = [asked EXCEPT !.next = @ + 1, !.merged = m]
    BY <1>2, <1>4
  <2> HIDE DEF m
  <2>2. asked.next + 1 \in Nat /\ asked'.next = asked.next + 1
    BY <2>1 DEF Verdicts
  <2> QED
    BY <2>1, <2>2 DEF Verdicts
<1> HIDE DEF m, c
<1>7. FlagMeansIt(m)
  <2> SUFFICES ASSUME m.verified, NEW j \in 1..2
               PROVE  m.credentialResults[j].verified /\ CoreVerified(m.credentialResults[j].results)
    BY DEF FlagMeansIt
  <2>1. merged.verified /\ CoreVerified(findings)
    BY <1>4
  <2>2. c.verified /\ CoreVerified(c.results)
    BY <1>1, <2>1 DEF FlagMeansIt, c
  <2>3. CASE j = i
    BY <1>3, <1>4, <1>5, <2>1, <2>2, <2>3, MergeResultsSound
  <2>4. CASE j # i
    BY <1>1, <1>4, <2>1, <2>4 DEF FlagMeansIt
  <2> QED
    BY <2>3, <2>4
<1>8. ASSUME NEW j \in 1..2
      PROVE  Keeps(asked.first.credentialResults[j].results, m.credentialResults[j].results)
  <2>1. Keeps(asked.first.credentialResults[j].results, merged.credentialResults[j].results)
    BY DEF Sound
  <2>2. j = i => Keeps(c.results, m.credentialResults[j].results)
    BY <1>3, <1>4, <1>5, MergeResultsSound
  <2>3. CASE j = i
    BY <2>1, <2>2, <2>3, KeepsTransitive DEF c
  <2>4. CASE j # i
    BY <1>4, <2>1, <2>4
  <2> QED
    BY <2>3, <2>4
<1> QED
  BY <1>6, <1>7, <1>8 DEF Sound

-----------------------------------------------------------------------------
(* Which case the first state is.                                            *)
LEMMA InitAbout ==
  /\ VerdictCase => Has("verdict") /\ "about" \in DOMAIN asked
  /\ CreationCase => Has("creation") /\ "about" \in DOMAIN asked
  /\ AnswerCase => Has("answer") /\ "about" \in DOMAIN asked
  /\ QueryCase => Has("query") /\ "about" \in DOMAIN asked
  /\ TenantCase => Has("tenant") /\ "about" \in DOMAIN asked
  /\ CallerCase => Has("caller") /\ "about" \in DOMAIN asked
  /\ OfferCase => Has("offer") /\ "about" \in DOMAIN asked
  /\ TrustCase => Has("trust") /\ "about" \in DOMAIN asked
  /\ ClaimsCase => Has("claims") /\ "about" \in DOMAIN asked
<1>1. VerdictCase => Has("verdict") /\ "about" \in DOMAIN asked
  BY DEF VerdictCase, Has
<1>2. CreationCase => Has("creation") /\ "about" \in DOMAIN asked
  BY DEF CreationCase, Has
<1>3. AnswerCase => Has("answer") /\ "about" \in DOMAIN asked
  BY DEF AnswerCase, Has
<1>4. QueryCase => Has("query") /\ "about" \in DOMAIN asked
  BY DEF QueryCase, Has
<1>5. TenantCase => Has("tenant") /\ "about" \in DOMAIN asked
  BY DEF TenantCase, Has
<1>6. CallerCase => Has("caller") /\ "about" \in DOMAIN asked
  BY DEF CallerCase, Has
<1>7. OfferCase => Has("offer") /\ "about" \in DOMAIN asked
  BY DEF OfferCase, Has
<1>8. TrustCase => Has("trust") /\ "about" \in DOMAIN asked
  BY DEF TrustCase, Has
<1>9. ClaimsCase => Has("claims") /\ "about" \in DOMAIN asked
  BY DEF ClaimsCase, Has
<1> QED
  BY <1>1, <1>2, <1>3, <1>4, <1>5, <1>6, <1>7, <1>8, <1>9

LEMMA InitInv == Init => CasesInv
<1> SUFFICES ASSUME Init PROVE CasesInv
  OBVIOUS
<1>1. CASE VerdictCase
  <2>1. PICK trusts \in BOOLEAN, passed \in BOOLEAN, f \in FirstFindings, g \in FirstFindings :
          LET results == CorePresentation(passed, <<CoreCredential(f), CoreCredential(g)>>) IN
          asked = [about |-> "verdict", trusts |-> trusts, first |-> results,
                   merged |-> results, next |-> 1]
    BY <1>1 DEF VerdictCase
  <2> DEFINE results == CorePresentation(passed, <<CoreCredential(f), CoreCredential(g)>>)
  <2>2. results \in Presentation /\ FlagMeansIt(results)
    BY CorePresentationSound DEF FirstFindings
  <2>3. asked = [about |-> "verdict", trusts |-> trusts, first |-> results,
                 merged |-> results, next |-> 1]
    BY <2>1
  <2> HIDE DEF results
  <2>4. asked \in Verdicts /\ Sound(asked)
    BY <2>2, <2>3 DEF Verdicts, Sound, Keeps
  <2> QED
    BY <2>3, <2>4 DEF CasesInv, AsAsked, Has
<1>2. CASE CreationCase
  <2>1. PICK request : /\ asked = [about |-> "creation", creation |-> Asked(request)]
                       /\ \E r, s : request.rows = <<r>> \/ request.rows = <<r, s>>
                       /\ request.expires \in {0, Now - 1, Now + 1}
    BY <1>2 DEF CreationCase
  <2>2. Len(request.rows) \in Nat /\ request.expires \in Nat
    BY <2>1, ClockAssumption
  <2>3. Creating(asked)
    <3>1. asked = [about |-> "creation", creation |-> [request |-> request, built |-> 0, saved |-> {},
                                                       readable |-> {}, answer |-> "unparsed"]]
      BY <2>1 DEF Asked
    <3>2. /\ 0 \in Nat
          /\ ExpiresOf(request) >= Now => {} = {}
          /\ {} # {} => 0 = Len(request.rows)
          /\ "unparsed" # "created"
      OBVIOUS
    <3> QED
      BY <2>2, <3>1, <3>2, Zenon DEF Creating
  <2> QED
    BY <2>1, <2>3 DEF CasesInv, AsAsked, Has
<1>3. CASE AnswerCase \/ QueryCase \/ TenantCase \/ CallerCase \/ OfferCase
            \/ TrustCase \/ ClaimsCase
  BY <1>3, InitAbout DEF CasesInv, AsAsked, Has
<1> QED
  BY <1>1, <1>2, <1>3 DEF Init

(* The steps of a creation.                                                  *)
LEMMA CreatingSteps ==
  ASSUME Creating(asked), ParseBody \/ BuildRow \/ SaveRow \/ SaveFails
  PROVE  Creating(asked')
<1>1. PICK request, built, saved, readable, answer :
        /\ built \in Nat
        /\ asked = [about |-> "creation",
                    creation |-> [request |-> request, built |-> built, saved |-> saved,
                                  readable |-> readable, answer |-> answer]]
        /\ Len(request.rows) \in Nat /\ request.expires \in Nat
        /\ ExpiresOf(request) >= Now => readable = saved
        /\ answer = "unparsed" => saved = {}
        /\ saved # {} => built = Len(request.rows)
        /\ answer = "refused" => saved = {}
        /\ answer = "created" => saved = DOMAIN request.rows
  BY DEF Creating
<1> DEFINE c == asked.creation
<1>2. /\ c = [request |-> request, built |-> built, saved |-> saved, readable |-> readable,
             answer |-> answer]
      /\ Rows(c) = request.rows
  BY <1>1 DEF Rows
<1>3. ASSUME NEW b \in Nat, NEW s, NEW r, NEW a,
             Creation([request |-> request, built |-> b, saved |-> s, readable |-> r, answer |-> a]),
             ExpiresOf(request) >= Now => r = s,
             a = "unparsed" => s = {},
             s # {} => b = Len(request.rows),
             a = "refused" => s = {},
             a = "created" => s = DOMAIN request.rows
      PROVE  Creating(asked')
  <2>1. asked' = [about |-> "creation", creation |-> [request |-> request, built |-> b, saved |-> s,
                                                      readable |-> r, answer |-> a]]
    BY <1>1, <1>3 DEF Creation
  <2> QED
    BY <1>1, <1>3, <2>1 DEF Creating
<1>4. CASE ParseBody
  <2>1. PICK a \in {"none", "refused"} :
          ParseRequest(c) = [request |-> request, built |-> built, saved |-> saved,
                             readable |-> readable, answer |-> a]
    BY <1>2 DEF ParseRequest
  <2>2. saved = {}
    BY <1>1, <1>4 DEF ParseBody
  <2>3. Creation([request |-> request, built |-> built, saved |-> saved,
                  readable |-> readable, answer |-> a])
    BY <1>4, <2>1 DEF ParseBody
  <2> QED
    BY <1>1, <1>3, <2>1, <2>2, <2>3
<1>5. CASE BuildRow
  <2>1. answer = "none" /\ built < Len(request.rows)
    BY <1>1, <1>2, <1>5 DEF BuildRow, ToBuild
  <2>2. saved = {}
    BY <1>1, <2>1
  <2>3. \/ BuildExchange(c) = [request |-> request, built |-> built + 1, saved |-> saved,
                               readable |-> readable, answer |-> answer]
        \/ BuildExchange(c) = [request |-> request, built |-> built, saved |-> saved,
                               readable |-> readable, answer |-> "refused"]
    BY <1>2 DEF BuildExchange
  <2>4. \/ Creation([request |-> request, built |-> built + 1, saved |-> saved,
                     readable |-> readable, answer |-> answer])
        \/ Creation([request |-> request, built |-> built, saved |-> saved,
                     readable |-> readable, answer |-> "refused"])
    BY <1>5, <2>3 DEF BuildRow
  <2>5. CASE Creation([request |-> request, built |-> built + 1, saved |-> saved,
                       readable |-> readable, answer |-> answer])
    <3>1. built + 1 \in Nat /\ answer # "created" /\ answer # "refused"
      BY <1>1, <2>1
    <3> QED
      BY <1>1, <1>3, <2>2, <2>5, <3>1, Zenon
  <2>6. CASE Creation([request |-> request, built |-> built, saved |-> saved,
                       readable |-> readable, answer |-> "refused"])
    BY <1>1, <1>3, <2>2, <2>6
  <2> QED
    BY <2>4, <2>5, <2>6
<1>6. CASE SaveRow
  <2>1. answer = "none" /\ built = Len(request.rows)
    BY <1>1, <1>2, <1>6 DEF SaveRow, ReadyToSave
  <2> DEFINE n == NextToSave(c)
             s == saved \cup {n}
             r == IF Outlives(ExpiresOf(request)) THEN readable \cup {n} ELSE readable
             a == IF s = DOMAIN request.rows THEN "created" ELSE answer
  <2>2. SaveNext(c) = [request |-> request, built |-> built, saved |-> s, readable |-> r, answer |-> a]
    <3>1. /\ c.request = request /\ c.built = built /\ c.saved = saved /\ c.answer = answer
          /\ c.readable = readable /\ c.request.rows = request.rows
      BY <1>2
    <3>2. SaveNext(c) = [c EXCEPT !.saved = s, !.readable = r, !.answer = a]
      BY <1>2, <3>1 DEF SaveNext
    <3> HIDE DEF n, r, a
    <3> DEFINE d == [c EXCEPT !.saved = s]
               e == [d EXCEPT !.readable = r]
    <3>3. SaveNext(c) = [e EXCEPT !.answer = a]
      BY <3>2
    <3>4. d = [request |-> request, built |-> built, saved |-> s, readable |-> readable,
               answer |-> answer]
      BY <1>2
    <3> HIDE DEF d
    <3>5. e = [request |-> request, built |-> built, saved |-> s, readable |-> r, answer |-> answer]
      BY <3>4
    <3> HIDE DEF e
    <3> QED
      BY <3>3, <3>5
  <2>3. /\ a = "created" => s = DOMAIN request.rows
        /\ a \in {"created", "none"}
        /\ ExpiresOf(request) >= Now => r = s
    BY <1>1, <2>1 DEF Outlives
  <2> HIDE DEF n, s, r, a
  <2>4. Creation([request |-> request, built |-> built, saved |-> s, readable |-> r, answer |-> a])
    BY <1>6, <2>2 DEF SaveRow
  <2> QED
    BY <1>1, <1>3, <2>1, <2>3, <2>4
<1>7. CASE SaveFails
  <2>1. answer = "none" /\ built = Len(request.rows)
    BY <1>1, <1>2, <1>7 DEF SaveFails, ReadyToSave
  <2>2. FailSave(c) = [request |-> request, built |-> built, saved |-> saved,
                       readable |-> readable, answer |-> "failed"]
    BY <1>2 DEF FailSave
  <2>3. Creation([request |-> request, built |-> built, saved |-> saved,
                  readable |-> readable, answer |-> "failed"])
    BY <1>7, <2>2 DEF SaveFails
  <2> QED
    BY <1>1, <1>3, <2>1, <2>3
<1> QED
  BY <1>4, <1>5, <1>6, <1>7

LEMMA NextInv == CasesInv /\ [Next]_asked => CasesInv'
<1> SUFFICES ASSUME CasesInv, [Next]_asked PROVE CasesInv'
  OBVIOUS
<1>1. CASE Recheck
  <2>1. asked' \in Verdicts /\ Sound(asked')
    BY <1>1, RecheckSound DEF CasesInv, Recheck
  <2>2. "about" \in DOMAIN asked' /\ asked'.about = "verdict"
    BY <2>1 DEF Verdicts
  <2> QED
    BY <2>1, <2>2 DEF CasesInv, AsAsked, Has
<1>2. CASE ParseBody \/ BuildRow \/ SaveRow \/ SaveFails
  <2>1. Creating(asked')
    BY <1>2, CreatingSteps DEF CasesInv, ParseBody, BuildRow, SaveRow, SaveFails
  <2>2. "about" \in DOMAIN asked' /\ asked'.about = "creation"
    BY <2>1 DEF Creating
  <2> QED
    BY <2>1, <2>2 DEF CasesInv, AsAsked, Has
<1>3. CASE UNCHANGED asked
  <2>1. (AnswerCase => AnswerCase') /\ (QueryCase => QueryCase')
    <3>1. ASSUME AnswerCase PROVE AnswerCase'
      <4> DEFINE Answers(workflow, other, claims, same, manner, case) ==
                   LET x == ExchangeOf("x", workflow, claims) IN
                   /\ same => other = workflow
                   /\ case = [about |-> "answer", x |-> x, manner |-> manner,
                              y |-> IF same THEN x ELSE ExchangeOf("y", other, {})]
             Case(case) == \E workflow, other \in {"claim", "didAuth", "verify"},
                              claims \in {{}, {<<"name">>}, {<<>>}},
                              same \in BOOLEAN, manner \in Manners :
                             Answers(workflow, other, claims, same, manner, case)
      <4>1. Case(asked)
        BY <3>1 DEF AnswerCase
      <4>2. Case(asked) => Case(asked')
        <5> HIDE DEF Case
        <5> QED
          BY <1>3
      <4>3. Case(asked') => AnswerCase'
        BY DEF AnswerCase
      <4> QED
        BY <4>1, <4>2, <4>3
    <3>2. QueryCase => QueryCase'
      BY <1>3 DEF QueryCase
    <3> QED
      BY <3>1, <3>2
  <2>2. (TenantCase => TenantCase') /\ (CallerCase => CallerCase') /\ (OfferCase => OfferCase')
    BY <1>3 DEF TenantCase, CallerCase, OfferCase
  <2>3. (TrustCase => TrustCase') /\ (ClaimsCase => ClaimsCase')
    BY <1>3 DEF TrustCase, ClaimsCase
  <2>4. AsAsked'
    BY <1>3, <2>1, <2>2, <2>3 DEF CasesInv, AsAsked, Has
  <2> QED
    BY <1>3, <2>4 DEF CasesInv, Has
<1> QED
  BY <1>1, <1>2, <1>3 DEF Next

LEMMA CasesAlways == Spec => []CasesInv
<1> QED
  BY InitInv, NextInv, PTL DEF Spec

(* For any checks and any findings of the two passes: a complete exchange    *)
(* shows no fatal failure, kept or replaced by the merge.                    *)
THEOREM CompleteNeverFatal == Spec => []CompleteShowsNoFatal
<1>1. CasesInv => CompleteShowsNoFatal
  <2> SUFFICES ASSUME CasesInv, Has("verdict"), FinalState(asked.merged) = "complete",
                      NEW i \in DOMAIN asked.merged.credentialResults
               PROVE  CoreVerified(asked.merged.credentialResults[i].results)
    BY DEF CompleteShowsNoFatal
  <2>1. i \in 1..2 /\ FlagMeansIt(asked.merged)
    BY DEF CasesInv, Verdicts, Presentation, Sound
  <2>2. asked.merged.verified
    BY DEF FinalState
  <2> QED
    BY <2>1, <2>2 DEF FlagMeansIt
<1> QED
  BY <1>1, CasesAlways, PTL

(* For any checks: no pass hides what an earlier one found wrong, unless a   *)
(* registry was asked again.                                                 *)
THEOREM FailuresAreKept == Spec => []EarlierFailureStays
<1>1. CasesInv => EarlierFailureStays
  <2> SUFFICES ASSUME CasesInv, Has("verdict"), NEW i \in DOMAIN asked.first.credentialResults
               PROVE  LET before == asked.first.credentialResults[i].results
                          now    == asked.merged.credentialResults[i].results
                      IN \A id \in DOMAIN before \ RegistryChecks :
                           FatalFailure(before[id]) => id \in DOMAIN now /\ FatalFailure(now[id])
    BY DEF EarlierFailureStays
  <2>1. i \in 1..2 /\ Sound(asked)
    BY DEF CasesInv, Verdicts, Presentation
  <2> QED
    BY <2>1 DEF Sound, Keeps
<1> QED
  BY <1>1, CasesAlways, PTL

(* For any checks: the flag the worker decides by and the outcome that the   *)
(* synchronous pass would derive from the checks agree on what was merged.   *)
THEOREM OutcomesAgree == Spec => []OutcomeIsVerified
<1>1. CasesInv => OutcomeIsVerified
  <2> SUFFICES ASSUME CasesInv, Has("verdict")
               PROVE  FinalState(asked.merged) =
                        DetermineExchangeOutcome(asked.merged.verified,
                          asked.merged.credentialResults, asked.trusts)
    BY DEF OutcomeIsVerified
  <2> DEFINE cs == asked.merged.credentialResults
  <2>1. FlagMeansIt(asked.merged) /\ DOMAIN cs = 1..2
    BY DEF CasesInv, Verdicts, Presentation, Sound
  <2>2. asked.merged.verified =>
          \A i \in DOMAIN cs :
            /\ cs[i].verified
            /\ \A id \in RegistryFindings(cs[i]) : ~FatalFailure(cs[i].results[id])
    BY <2>1 DEF FlagMeansIt, CoreVerified, RegistryFindings
  <2> HIDE DEF cs
  <2> QED
    BY <2>2 DEF FinalState, DetermineExchangeOutcome, cs
<1> QED
  BY <1>1, CasesAlways, PTL

(* For any request to create, rows and clock: a refusal leaves no exchange   *)
(* behind, and an answer that lists exchanges comes when all were saved and, *)
(* unless the request dated them in the past, can be read                    *)
(* (createExchangeBatch, createExchangeVcapi, saveExchange).                 *)
THEOREM AnswerAlwaysTells == Spec => []AnswerTellsWhatWasSaved
<1>1. CasesInv => AnswerTellsWhatWasSaved
  <2> SUFFICES ASSUME Creating(asked) PROVE AnswerTellsWhatWasSaved
    BY DEF CasesInv, AnswerTellsWhatWasSaved
  <2> DEFINE request == asked.creation.request
  <2>1. /\ request.expires \in Nat
        /\ ExpiresOf(request) >= Now => asked.creation.readable = asked.creation.saved
        /\ asked.creation.answer = "refused" => asked.creation.saved = {}
        /\ asked.creation.answer = "created" => asked.creation.saved = DOMAIN request.rows
    BY DEF Creating
  <2>2. ExpiresOf(request) >= Now \/ (~request.batch /\ request.expires \in 1..(Now - 1))
    BY <2>1, ClockAssumption DEF ExpiresOf
  <2> QED
    BY <2>1, <2>2 DEF AnswerTellsWhatWasSaved, Rows
<1> QED
  BY <1>1, CasesAlways, PTL

(* For any tenants and names: with authentication on, an exchange belongs to *)
(* the tenant that created it, and no other tenant reads it.                 *)
THEOREM TenantAlwaysOwns == Spec => []TenantOwnsExchange
<1>1. TenantCase => TenantOwnsExchange
  <2> SUFFICES ASSUME TenantCase, asked.auth # None, CreatedFor # None
               PROVE  /\ Lower(CreatedFor).word = asked.auth.word
                      /\ \A w \in asked.env.tokens :
                           MayRead(CreatedFor, LowerName(w)) <=> LowerName(w) = asked.auth
    BY DEF TenantOwnsExchange
  <2>1. PICK w \in Words : asked.auth = LowerName(w)
    BY DEF TenantCase
  <2>2. CreatedFor = asked.auth
    BY DEF CreatedFor, ResolveExchangeTenant
  <2>3. asked.env.tokens \subseteq Words
    BY DEF TenantCase
  <2>4. \A v \in Words : LowerName(v) # None
    <3>1. \A v \in Words : LowerName(v) \in Name
      BY DEF Name, LowerName
    <3> QED
      BY <3>1, AbsentAssumption
  <2>5. Lower(asked.auth).word = asked.auth.word
    BY <2>1 DEF Lower, LowerName
  <2> QED
    BY <2>2, <2>3, <2>4, <2>5 DEF MayRead
<1>2. CasesInv => TenantOwnsExchange
  BY <1>1 DEF CasesInv, AsAsked, TenantOwnsExchange
<1> QED
  BY <1>2, CasesAlways, PTL

(* For any contexts asked for and held: a credential answers a query exactly *)
(* if it has every context that was asked for, whichever version of the data *)
(* model it is written in (getVerifyVPR).                                    *)
THEOREM QueriesAreFaithful == Spec => []QueriesMeanWhatWasAsked
<1>1. QueryCase => QueriesMeanWhatWasAsked
  <2> SUFFICES ASSUME NEW c, NEW held, held \cap BaseContexts # {}
               PROVE  (\E q \in CredentialQueries(c) : q \subseteq held) <=> c \subseteq held
    BY DEF QueryCase, QueriesMeanWhatWasAsked
  <2>1. CASE c = {} \/ c \cap BaseContexts # {}
    BY <2>1 DEF CredentialQueries
  <2>2. CASE ~(c = {} \/ c \cap BaseContexts # {})
    <3>1. CredentialQueries(c) = {c \cup {base} : base \in BaseContexts}
      BY <2>2 DEF CredentialQueries
    <3>2. PICK base \in BaseContexts : base \in held
      OBVIOUS
    <3>3. c \cup {base} \in CredentialQueries(c)
      BY <3>1
    <3>4. ASSUME NEW q \in CredentialQueries(c), q \subseteq held
          PROVE  c \subseteq held
      BY <3>1, <3>4
    <3>5. ASSUME c \subseteq held
          PROVE  c \cup {base} \subseteq held
      BY <3>2, <3>5
    <3> QED
      BY <3>3, <3>4, <3>5
  <2> QED
    BY <2>1, <2>2
<1>2. CasesInv => QueriesMeanWhatWasAsked
  BY <1>1 DEF CasesInv, AsAsked, QueriesMeanWhatWasAsked
<1> QED
  BY <1>2, CasesAlways, PTL

(* For any tenants: whoever identifies itself as tenant v, by whatever name  *)
(* and token it may, is taken for v.                                         *)
LEMMA Identified ==
  ASSUME NEW config, DOMAIN config.tokens \subseteq Words,
         NEW v \in DOMAIN config.tokens, config.tokens[v] # None, config.accessSecret \in BOOLEAN,
         NEW c \in IdentifiesItself(config, v)
  PROVE  /\ AuthenticateTenantMiddleware(config, c) = Caller("tenant", LowerName(v))
         /\ AuthenticateExchangeOrTenantMiddleware(config, None, c, "x")
              = Caller("tenant", LowerName(v))
<1> DEFINE token == config.tokens[v]
<1>1. v # None /\ LowerName(v) # None /\ Enabled(config)
  <2>1. LowerName(v) \in Name
    BY DEF LowerName, Name
  <2> QED
    BY <2>1, AbsentAssumption, CallersAssumption DEF Enabled
<1>2. TenantFromAuthorizationHeader(config, c) = LowerName(v)
  <2>1. ASSUME NEW name \in Name, Lower(name).word = v, c = Basic(name, token)
        PROVE  TenantFromAuthorizationHeader(config, c) = LowerName(v)
    <3>1. name # None /\ TenantOfName(config, name) = LowerName(v)
      BY <2>1, AbsentAssumption DEF TenantOfName
    <3>2. GetTenant(config, name, token) = LowerName(v)
      BY <1>1, <3>1 DEF GetTenant
    <3> QED
      BY <2>1, <3>2 DEF TenantFromAuthorizationHeader, Basic, TenantToken
  <2>2. ASSUME c = Bearer(TenantToken(token)),
               \A u \in DOMAIN config.tokens \ {v} : config.tokens[u] # token
        PROVE  TenantFromAuthorizationHeader(config, c) = LowerName(v)
    <3>1. {u \in DOMAIN config.tokens : config.tokens[u] = token} = {v}
      BY <2>2
    <3>2. GetTenant(config, None, token) = LowerName(v)
      BY <1>1, <3>1 DEF GetTenant
    <3>3. AuthenticateTenant(config, TenantToken(token)) = LowerName(v)
      BY <3>2 DEF AuthenticateTenant, VerifyAccessToken, TenantToken
    <3> QED
      BY <2>2, <3>3 DEF TenantFromAuthorizationHeader, Bearer
  <2>3. ASSUME NEW name \in Name, Lower(name).word = v,
               NEW t \in HandleOAuthTokenPost(config, name, token), c = Bearer(t)
        PROVE  TenantFromAuthorizationHeader(config, c) = LowerName(v)
    <3>1. t = AccessToken(v) /\ config.accessSecret
      BY <2>3 DEF HandleOAuthTokenPost
    <3>2. AuthenticateTenant(config, t) = LowerName(v)
      BY <1>1, <3>1 DEF AuthenticateTenant, VerifyAccessToken, AccessToken
    <3> QED
      BY <2>3, <3>2 DEF TenantFromAuthorizationHeader, Bearer
  <2> QED
    BY <2>1, <2>2, <2>3 DEF IdentifiesItself
<1> QED
  BY <1>1, <1>2 DEF AuthenticateTenantMiddleware, AuthenticateExchangeOrTenantMiddleware

(* For any tenants and tokens, shared ones too: a tenant reads back what it  *)
(* created, whichever way it identified itself then and now, and no other    *)
(* tenant does (authenticateTenantMiddleware,                                *)
(* authenticateExchangeOrTenantMiddleware, resolveExchangeTenant).           *)
THEOREM CreatorAlwaysReads == Spec => []CreatorReadsItBack
<1>1. CallerCase => CreatorReadsItBack
  <2> SUFFICES ASSUME CallerCase,
                      NEW v \in DOMAIN asked.config.tokens, NEW w \in DOMAIN asked.config.tokens,
                      NEW c \in IdentifiesItself(asked.config, v),
                      NEW d \in IdentifiesItself(asked.config, w)
               PROVE  LET creator == AuthenticateTenantMiddleware(asked.config, c)
                          reader  == AuthenticateExchangeOrTenantMiddleware(asked.config, None, d, "x")
                          owner   == ResolveExchangeTenant(None, creator.tenant, LowerName(DefaultWord))
                      IN /\ creator.who = "tenant" /\ reader.who = "tenant"
                         /\ MayRead(owner, reader.tenant) <=> v = w
    BY DEF CreatorReadsItBack
  <2>1. PICK known \in SUBSET Words, accessSecret \in BOOLEAN :
          \E tokens \in [known -> {"s1", "s2"}] :
            asked = [about |-> "caller",
                     config |-> [tokens |-> tokens, accessSecret |-> accessSecret]]
    BY DEF CallerCase
  <2>2. /\ DOMAIN asked.config.tokens \subseteq Words /\ asked.config.accessSecret \in BOOLEAN
        /\ \A u \in DOMAIN asked.config.tokens : asked.config.tokens[u] # None
    BY <2>1, CallersAssumption
  <2>3. /\ AuthenticateTenantMiddleware(asked.config, c) = Caller("tenant", LowerName(v))
        /\ AuthenticateExchangeOrTenantMiddleware(asked.config, None, d, "x")
             = Caller("tenant", LowerName(w))
    BY <2>2, Identified
  <2>4. LowerName(v) # None /\ LowerName(w) # None /\ (LowerName(v) = LowerName(w) <=> v = w)
    <3>1. LowerName(v) \in Name /\ LowerName(w) \in Name
      BY <2>2 DEF LowerName, Name
    <3>2. LowerName(v).word = v /\ LowerName(w).word = w
      BY DEF LowerName
    <3> QED
      BY <3>1, <3>2, AbsentAssumption
  <2> QED
    BY <2>3, <2>4 DEF Caller, ResolveExchangeTenant, MayRead
<1>2. CasesInv => CreatorReadsItBack
  BY <1>1 DEF CasesInv, AsAsked, CreatorReadsItBack
<1> QED
  BY <1>2, CasesAlways, PTL

(* For any listing, registries and trusted issuers: a result that calls the  *)
(* issuers found shows no credential whose issuer is neither trusted nor     *)
(* listed in a registry that the exchange trusts, for either pass            *)
(* (validateTrustedIssuers, defaultResolveRegistries).                       *)
THEOREM FoundMeansTrusted == Spec => []FoundIssuersAreTrusted
<1>1. FoundIssuersAreTrusted
  <2> SUFFICES ASSUME IssuersReported # None, IssuersReported.issuerFound,
                      NEW i \in DOMAIN asked.issuers
               PROVE  \A pass \in {SyncRegistries, LaterRegistries} :
                        \/ asked.issuers[i] \in asked.trustedIssuers
                        \/ \E r \in pass : <<r.url, asked.issuers[i]>> \in asked.listing
    BY DEF FoundIssuersAreTrusted
  <2> DEFINE issuer == asked.issuers[i]
             checks == RegistryChecksOf(issuer, SyncRegistries, asked.listing, asked.verbose)
             report == ValidateTrustedIssuers(issuer, asked.trustedIssuers,
                                              asked.trustedRegistries, checks)
  <2>1. report.issuerFound \/ report.registryMatch
    BY DEF IssuersReported, IssuerValidation, IssuerReport, ShownCredentials
  <2>2. SyncRegistries = LaterRegistries
    BY DEF SyncRegistries, LaterRegistries, RegistriesOf, DefaultResolveRegistries
  <2>3. report.issuerFound => issuer \in asked.trustedIssuers
    BY DEF ValidateTrustedIssuers, IssuerReport
  <2>4. report.registryMatch => \E check \in checks : check.status = "success"
    BY DEF ValidateTrustedIssuers, IssuerReport
  <2>5. ASSUME NEW check \in checks, check.status = "success"
        PROVE  \E r \in SyncRegistries : <<r.url, issuer>> \in asked.listing
    BY <2>5 DEF RegistryChecksOf
  <2> QED
    BY <2>1, <2>2, <2>3, <2>4, <2>5
<1> QED
  BY <1>1, PTL

-----------------------------------------------------------------------------
(* Answers to what was asked.  A presentation is made of the proof of the    *)
(* wallet and perhaps of another party's, which is no authentication.        *)
Signed(offer) ==
  Proof("authentication", "wallet", asked.manner.suite, offer.challenge, offer.domain,
        asked.manner.suite = LegacySuite /\ asked.manner.context = "proof")

Read(offer) == Ed25519Signature2020Context(Inner(AnswerTo(offer)))

(* The wallet's proof is in the presentation and is its only authentication, *)
(* whether the service moves the suite context to the top or not; and when   *)
(* it can make sense of the message, the context is at the top.              *)
LEMMA OneAuthentication ==
  ASSUME AnswerCase, NEW offer
  PROVE  /\ \E i \in DOMAIN Read(offer).proofs : Read(offer).proofs[i] = Signed(offer)
         /\ \A i \in DOMAIN Read(offer).proofs :
              /\ i \in 1..2
              /\ Read(offer).proofs[i].purpose = "authentication"
                   => Read(offer).proofs[i] = Signed(offer)
         /\ Read(offer).proofs = Inner(AnswerTo(offer)).proofs
         /\ Inner(AnswerTo(offer)).asserted = asked.manner.asserted
         /\ Intelligible /\ asked.manner.suite = LegacySuite => Read(offer).suiteContext
<1> DEFINE foreign == Proof("assertionMethod", "other", asked.manner.suite, <<>>, <<>>, FALSE)
           proofs == CASE asked.manner.place = "alone"  -> <<Signed(offer)>>
                       [] asked.manner.place = "before" -> <<foreign, Signed(offer)>>
                       [] asked.manner.place = "after"  -> <<Signed(offer), foreign>>
           p == [proofs |-> proofs, list |-> asked.manner.place # "alone", asserted |-> asked.manner.asserted,
                 suiteContext |-> asked.manner.suite = LegacySuite /\ asked.manner.context = "top"]
<1>1. Inner(AnswerTo(offer)) = p
  BY DEF Inner, AnswerTo, Signed
<1>2. asked.manner.place \in {"alone", "before", "after"}
  BY DEF AnswerCase, Manners
<1>3. foreign.purpose # "authentication"
  BY DEF Proof
<1> HIDE DEF foreign
<1>4. /\ \E i \in DOMAIN proofs : proofs[i] = Signed(offer)
      /\ \A i \in DOMAIN proofs :
           i \in 1..2 /\ (proofs[i].purpose = "authentication" => proofs[i] = Signed(offer))
      /\ asked.manner.place = "alone" => Len(proofs) = 1 /\ proofs[1] = Signed(offer)
  <2>1. CASE asked.manner.place = "alone"
    BY <2>1
  <2>2. CASE asked.manner.place = "before"
    <3>1. proofs = <<foreign, Signed(offer)>>
      BY <2>2
    <3> QED
      BY <1>3, <2>2, <3>1
  <2>3. CASE asked.manner.place = "after"
    <3>1. proofs = <<Signed(offer), foreign>>
      BY <2>3
    <3> QED
      BY <1>3, <2>3, <3>1
  <2> QED
    BY <1>2, <2>1, <2>2, <2>3
<1> HIDE DEF proofs
<1>5. Read(offer) \in {p, [p EXCEPT !.suiteContext = TRUE]}
  BY <1>1 DEF Read, Ed25519Signature2020Context
<1>6. Read(offer).proofs = proofs
  BY <1>5
<1>7. ASSUME Intelligible, asked.manner.suite = LegacySuite
      PROVE  Read(offer).suiteContext
  <2>1. CASE asked.manner.context = "top"
    <3>1. p.suiteContext = TRUE
      BY <1>7, <2>1
    <3> HIDE DEF p
    <3>2. [p EXCEPT !.suiteContext = TRUE].suiteContext = TRUE
      BY <3>1 DEF p
    <3> QED
      BY <1>5, <3>1, <3>2
  <2>2. CASE asked.manner.context = "proof" /\ asked.manner.place = "alone"
    <3>1. Signed(offer).suite = LegacySuite /\ Signed(offer).suiteContext = TRUE
      BY <1>7, <2>2 DEF Signed, Proof
    <3>2. proofs[1].suite = LegacySuite /\ proofs[1].suiteContext
      BY <1>4, <2>2, <3>1
    <3> QED
      BY <1>1, <1>4, <2>2, <3>2 DEF Read, Ed25519Signature2020Context
  <2> QED
    BY <1>7, <2>1, <2>2 DEF Intelligible
<1> QED
  BY <1>1, <1>4, <1>6, <1>7

(* The holder that the service reads is the wallet.                          *)
LEMMA HolderRead ==
  ASSUME AnswerCase, NEW x, NEW offer
  PROVE  HolderOf(x, AnswerTo(offer)) = "wallet"
<1> DEFINE ps == Read(offer).proofs
           authentication == {i \in DOMAIN ps : ps[i].purpose = "authentication"}
           first == CHOOSE i \in authentication : \A j \in authentication : i <= j
<1>1. PICK i \in DOMAIN ps : ps[i] = Signed(offer)
  BY OneAuthentication
<1>2. /\ Signed(offer).purpose = "authentication" /\ Signed(offer).signer = "wallet"
      /\ i \in authentication
  BY <1>1 DEF Signed, Proof
<1>3. authentication \subseteq 1..2
  BY OneAuthentication
<1>4. first \in authentication
  <2>1. \E n \in authentication : \A m \in authentication : n <= m
    BY <1>2, <1>3
  <2> QED
    BY <2>1
<1>5. HolderOf(x, AnswerTo(offer)) = ps[first].signer
  BY <1>2 DEF HolderOf, DeriveHolderFromProof, Read
<1>6. ps[first] = Signed(offer)
  BY <1>4, OneAuthentication
<1> QED
  BY <1>2, <1>5, <1>6

(* For any suites and contexts: whoever the credential is issued to, or the  *)
(* DIDAuth result names, signed the challenge, and no credential is issued   *)
(* on a presentation that asserts another holder (deriveHolderFromProof,     *)
(* participateInClaimExchange).                                              *)
THEOREM HolderIsSigner == Spec => []SignerIsHolder
<1>1. AnswerCase => SignerIsHolder
  <2> SUFFICES ASSUME AnswerCase, asked.x.workflow # "verify", NEW offer \in GetProtocols(asked.x),
                      Takes(asked.x, offer, AnswerTo(offer))
               PROVE  /\ HolderOf(asked.x, AnswerTo(offer)) = "wallet"
                      /\ asked.x.workflow = "claim" => asked.manner.asserted \subseteq {"wallet"}
    BY DEF SignerIsHolder
  <2>1. HolderOf(asked.x, AnswerTo(offer)) = "wallet"
    BY HolderRead
  <2>2. HolderAgrees(asked.x, AnswerTo(offer))
    BY DEF Takes
  <2>3. Inner(AnswerTo(offer)).asserted = asked.manner.asserted
    BY OneAuthentication
  <2> QED
    BY <2>1, <2>2, <2>3 DEF HolderAgrees
<1>2. CasesInv => SignerIsHolder
  BY <1>1 DEF CasesInv, AsAsked, SignerIsHolder
<1> QED
  BY <1>2, CasesAlways, PTL

(* For any suites and contexts: what any offer of an exchange asks for is    *)
(* what its handler checks, and no other exchange takes that answer          *)
(* (getProtocols, the VPRs, the authorization request, verifyDIDAuth,        *)
(* participateInVerifyExchange, handleOid4vpResponse).                       *)
THEOREM AnswersFit == Spec => []AnswerFitsItsExchange
<1>1. AnswerCase => AnswerFitsItsExchange
  <2> SUFFICES ASSUME AnswerCase, Intelligible, NEW offer \in GetProtocols(asked.x)
               PROVE  Takes(asked.y, offer, AnswerTo(offer)) <=> asked.x = asked.y
    BY DEF AnswerFitsItsExchange
  <2> DEFINE x == asked.x
             y == asked.y
  <2>1. x = y \/ x.challenge # y.challenge
    BY DEF AnswerCase, ExchangeOf
  <2>2. /\ offer.challenge = x.challenge
        /\ offer.protocol = "OID4VP" =>
             x.workflow = "verify" /\ offer.state = x.state /\ offer.domain = ClientId(x)
    BY DEF GetProtocols, OfVpr, OfAuthorizationRequest, BuildAuthorizationRequest, Offer,
           GetVerifyVPR, GetDIDAuthVPR
  <2>3. VerifyMessage(y, AnswerTo(offer)) <=> x.challenge = y.challenge
    <3> DEFINE ps == Read(offer).proofs
    <3>1. VerifyMessage(y, AnswerTo(offer)) <=>
            \E i \in DOMAIN ps : /\ ps[i].purpose = "authentication"
                                 /\ ps[i].challenge = y.challenge
                                 /\ ps[i].suite = LegacySuite => Read(offer).suiteContext
      BY DEF VerifyMessage, VerifyPresentation, Read
    <3>2. /\ Signed(offer).purpose = "authentication" /\ Signed(offer).challenge = x.challenge
          /\ Signed(offer).suite = asked.manner.suite
      BY <2>2 DEF Signed, Proof
    <3> QED
      BY <3>1, <3>2, OneAuthentication
  <2>4. BindsAudience(Inner(AnswerTo(offer)), offer.domain)
    <3>1. offer.domain \in Signed(offer).domains
      BY DEF Signed, Proof
    <3> QED
      BY <3>1, OneAuthentication DEF BindsAudience
  <2> HIDE DEF x, y
  <2>5. CASE offer.protocol = "OID4VP"
    BY <2>1, <2>2, <2>3, <2>4, <2>5 DEF Takes, HandleOid4vpAnswer, x, y
  <2>6. CASE offer.protocol # "OID4VP"
    <3>1. x = y => HolderAgrees(y, AnswerTo(offer))
      <4>1. Inner(AnswerTo(offer)).asserted = asked.manner.asserted
        BY OneAuthentication
      <4>2. HolderOf(y, AnswerTo(offer)) = "wallet"
        BY HolderRead
      <4> QED
        BY <4>1, <4>2 DEF HolderAgrees, Intelligible, x
    <3> QED
      BY <2>1, <2>3, <2>6, <3>1 DEF Takes, x, y
  <2> QED
    BY <2>5, <2>6
<1>2. CasesInv => AnswerFitsItsExchange
  BY <1>1 DEF CasesInv, AsAsked, AnswerFitsItsExchange
<1> QED
  BY <1>2, CasesAlways, PTL

-----------------------------------------------------------------------------
(* Claims *)

NoKeyShared(claims) ==
  \A i, j \in DOMAIN claims :
    PathKey(claims[i].path) = PathKey(claims[j].path) => claims[i].path = claims[j].path

(* Under the key of a claim stands the credential's value at its path, if    *)
(* the claim asks for something that the credential has.                     *)
LEMMA ExtractedUnderKey ==
  ASSUME NEW credential, NEW claims, DOMAIN claims = 1..2, NoKeyShared(claims),
         NEW i \in DOMAIN claims
  PROVE  LET extracted == ExtractCredentialClaims(credential, claims)
             key == PathKey(claims[i].path) IN
         /\ key \in DOMAIN extracted <=> Asks(claims[i]) /\ claims[i].path \in DOMAIN credential
         /\ key \in DOMAIN extracted => extracted[key] = credential[claims[i].path]
<1> DEFINE led == {j \in DOMAIN claims : Asks(claims[j]) /\ claims[j].path \in DOMAIN credential}
           IsLast(key, j) == /\ PathKey(claims[j].path) = key
                             /\ \A k \in led : PathKey(claims[k].path) = key => k <= j
           LastOf(key) == CHOOSE j \in led : IsLast(key, j)
           extracted == ExtractCredentialClaims(credential, claims)
           key == PathKey(claims[i].path)
<1>1. extracted = [k \in {PathKey(claims[j].path) : j \in led} |->
                     credential[claims[LastOf(k)].path]]
  BY DEF ExtractCredentialClaims
<1>2. key \in DOMAIN extracted <=> \E j \in led : PathKey(claims[j].path) = key
  BY <1>1
<1>3. \A j \in led : PathKey(claims[j].path) = key => claims[j].path = claims[i].path
  BY DEF NoKeyShared
<1>4. key \in DOMAIN extracted <=> i \in led
  BY <1>2, <1>3 DEF Asks
<1>5. ASSUME i \in led
      PROVE  extracted[key] = credential[claims[i].path]
  <2>1. \E j \in led : IsLast(key, j)
    <3>1. led \subseteq 1..2
      OBVIOUS
    <3> HIDE DEF led, key
    <3>2. PathKey(claims[i].path) = key
      BY DEF key
    <3>3. CASE 2 \in led /\ PathKey(claims[2].path) = key
      BY <3>1, <3>3
    <3>4. CASE ~(2 \in led /\ PathKey(claims[2].path) = key)
      <4>1. i = 1
        BY <1>5, <3>1, <3>2, <3>4
      <4>2. IsLast(key, 1)
        BY <3>1, <3>2, <3>4, <4>1
      <4> QED
        BY <1>5, <4>1, <4>2
    <3> QED
      BY <3>3, <3>4
  <2>2. LastOf(key) \in led /\ PathKey(claims[LastOf(key)].path) = key
    <3> HIDE DEF led, key
    <3> QED
      BY <2>1
  <2>3. claims[LastOf(key)].path = claims[i].path
    BY <1>3, <2>2
  <2> HIDE DEF led, key, LastOf
  <2>4. extracted[key] = credential[claims[LastOf(key)].path]
    BY <1>1, <1>4, <1>5
  <2> QED
    BY <2>3, <2>4
<1> QED
  BY <1>4, <1>5

(* For any two credentials and two claims: a result says that the claims     *)
(* match exactly if one credential holds them all, each with a value asked   *)
(* for, and what it extracted is held by such a credential                   *)
(* (extractCredentialClaims, matchClaimsAgainstRequirements).                *)
THEOREM ReportedMeansHeld == Spec => []ClaimsReportedAreHeld
<1>1. ClaimsCase => ClaimsReportedAreHeld
  <2> DEFINE creds  == asked.credentials
             claims == asked.claims
             Extracted(i) == ExtractCredentialClaims(creds[i], claims)
             Matches(i)   == MatchClaimsAgainstRequirements(Extracted(i), claims)
             holding  == {i \in DOMAIN creds : HoldsClaims(creds[i])}
             report   == ClaimsValidation(creds, claims)
  <2> SUFFICES ASSUME ClaimsCase, NoKeyShared(claims)
               PROVE  /\ report.matched <=> holding # {}
                      /\ \A i \in DOMAIN claims :
                           PathKey(claims[i].path) \in DOMAIN report.extractedClaims =>
                             \E k \in holding :
                               /\ claims[i].path \in DOMAIN creds[k]
                               /\ report.extractedClaims[PathKey(claims[i].path)]
                                    = creds[k][claims[i].path]
    BY DEF ClaimsReportedAreHeld, NoKeyShared
  <2>1. DOMAIN creds = 1..2 /\ DOMAIN claims = 1..2
    BY DEF ClaimsCase
  <2>2. ASSUME NEW i \in DOMAIN creds
        PROVE  Matches(i) <=> HoldsClaims(creds[i])
    <3> HIDE DEF creds, claims
    <3>1. \A j \in DOMAIN claims :
            LET key == PathKey(claims[j].path) IN
            /\ key \in DOMAIN Extracted(i) <=>
                 Asks(claims[j]) /\ claims[j].path \in DOMAIN creds[i]
            /\ key \in DOMAIN Extracted(i) => Extracted(i)[key] = creds[i][claims[j].path]
      BY <2>1, ExtractedUnderKey
    <3> HIDE DEF Extracted
    <3> QED
      BY <3>1 DEF MatchClaimsAgainstRequirements, HoldsClaims, claims
  <2> DEFINE extracted == [i \in DOMAIN creds |-> Extracted(i)]
             IsLast(key, i) == /\ key \in DOMAIN extracted[i]
                               /\ \A j \in holding : key \in DOMAIN extracted[j] => j <= i
             LastOf(key) == CHOOSE i \in holding : IsLast(key, i)
  <2>3. holding = {i \in DOMAIN creds : MatchClaimsAgainstRequirements(extracted[i], claims)}
    BY <2>2
  <2>4. /\ report.matched <=> holding # {}
        /\ report.extractedClaims =
             [key \in UNION {DOMAIN extracted[i] : i \in holding} |-> extracted[LastOf(key)][key]]
    <3> DEFINE matching == {i \in DOMAIN creds : MatchClaimsAgainstRequirements(extracted[i], claims)}
               LastIn(s, key) ==
                 CHOOSE i \in s : /\ key \in DOMAIN extracted[i]
                                  /\ \A j \in s : key \in DOMAIN extracted[j] => j <= i
    <3>1. /\ report.matched <=> matching # {}
          /\ report.extractedClaims = [key \in UNION {DOMAIN extracted[i] : i \in matching} |->
                                         extracted[LastIn(matching, key)][key]]
      BY DEF ClaimsValidation
    <3>2. \A key : LastOf(key) = LastIn(holding, key)
      OBVIOUS
    <3>3. holding = matching
      BY <2>3
    <3> HIDE DEF report, extracted, holding, matching, LastIn, LastOf
    <3> QED
      BY <3>1, <3>2, <3>3
  <2>5. ASSUME NEW i \in DOMAIN claims,
               PathKey(claims[i].path) \in DOMAIN report.extractedClaims
        PROVE  \E k \in holding :
                 /\ claims[i].path \in DOMAIN creds[k]
                 /\ report.extractedClaims[PathKey(claims[i].path)] = creds[k][claims[i].path]
    <3> DEFINE key == PathKey(claims[i].path)
    <3>1. holding \subseteq 1..2 /\ holding \subseteq DOMAIN creds
      BY <2>1
    <3>2. PICK j \in holding : key \in DOMAIN extracted[j]
      BY <2>4, <2>5
    <3>3. \E l \in holding : IsLast(key, l)
      <4> HIDE DEF holding, extracted, key
      <4>1. CASE 2 \in holding /\ key \in DOMAIN extracted[2]
        BY <3>1, <4>1
      <4>2. CASE ~(2 \in holding /\ key \in DOMAIN extracted[2])
        <5>1. j = 1
          BY <3>1, <3>2, <4>2
        <5>2. IsLast(key, 1)
          BY <3>1, <3>2, <4>2, <5>1
        <5> QED
          BY <3>2, <5>1, <5>2
      <4> QED
        BY <4>1, <4>2
    <3> DEFINE k == LastOf(key)
    <3>4. k \in holding /\ key \in DOMAIN extracted[k]
      <4> HIDE DEF holding, extracted, key
      <4> QED
        BY <3>3
    <3>5. report.extractedClaims[key] = extracted[k][key]
      <4> HIDE DEF holding, extracted, key, report, LastOf
      <4> QED
        BY <2>4, <2>5 DEF key
    <3> HIDE DEF holding, k
    <3>6. extracted[k] = Extracted(k)
      BY <3>1, <3>4
    <3> HIDE DEF extracted, creds, claims
    <3>7. claims[i].path \in DOMAIN creds[k] /\ Extracted(k)[key] = creds[k][claims[i].path]
      BY <2>1, <3>4, <3>6, ExtractedUnderKey
    <3> QED
      BY <3>4, <3>5, <3>6, <3>7
  <2> QED
    BY <2>4, <2>5
<1>2. CasesInv => ClaimsReportedAreHeld
  BY <1>1 DEF CasesInv, AsAsked, ClaimsReportedAreHeld
<1> QED
  BY <1>2, CasesAlways, PTL

-----------------------------------------------------------------------------
(* Issuer instances *)

(* The case of the tenants and the case of the offer ask about one           *)
(* environment each, of at most two entries for each tenant.                 *)
Configured(env) ==
  /\ env.tokens \subseteq Words
  /\ \A w \in Words : \E n \in 1..2 : env.issuers[w] \in [1..n -> Entry]

LEMMA CasesConfigured ==
  TenantCase \/ OfferCase => Configured(asked.env)
<1>1. \A first, second \in Entry : \A w :
        LET entries == IF w = DefaultWord THEN <<first, second>> ELSE <<first>> IN
        \E n \in 1..2 : entries \in [1..n -> Entry]
  OBVIOUS
<1>2. \A first, second \in Entry : \A w :
        LET entries == IF w = DefaultWord THEN <<first, second>> ELSE <<second>> IN
        \E n \in 1..2 : entries \in [1..n -> Entry]
  OBVIOUS
<1>3. TenantCase => Configured(asked.env)
  BY <1>1 DEF TenantCase, Configured
<1>4. OfferCase => Configured(asked.env)
  BY <1>2 DEF OfferCase, Configured
<1> QED
  BY <1>3, <1>4

(* What is read from the entries of a tenant: at most two instances, in the  *)
(* order of the entries.                                                     *)
Instances(instances) ==
  /\ DOMAIN instances \subseteq 1..2
  /\ instances \in [DOMAIN instances -> Instance]

LEMMA TenantsInstances ==
  ASSUME NEW env, Configured(env), NEW w \in DOMAIN Tenants(env)
  PROVE  Instances(Tenants(env)[w])
<1>1. w \in Words /\ Tenants(env)[w] = ParseIssuerInstances(env.issuers[w], w)
  BY DefaultWordAssumption DEF Tenants, Configured
<1>2. PICK n \in 1..2 : env.issuers[w] \in [1..n -> Entry]
  BY <1>1 DEF Configured
<1> DEFINE entries == env.issuers[w]
           read == {k \in DOMAIN entries : \A m \in 1..k : entries[m].id # None}
           InstanceOf(k) ==
             [id |-> entries[k].id,
              cryptosuite |-> IF entries[k].cryptosuite = None THEN "eddsa-rdfc-2022"
                              ELSE entries[k].cryptosuite,
              signingTenant |-> IF entries[k].signingTenant = None THEN LowerName(w)
                                ELSE entries[k].signingTenant]
<1>3. Tenants(env)[w] = [k \in read |-> InstanceOf(k)]
  BY <1>1 DEF ParseIssuerInstances
<1>4. read \subseteq 1..2
  BY <1>2
<1>5. ASSUME NEW k \in read
      PROVE  InstanceOf(k) \in Instance
  <2>1. entries[k] \in Entry /\ entries[k].id # None
    BY <1>2
  <2>2. LowerName(w) \in Name /\ [word |-> DefaultWord, upper |-> TRUE] \in Name
    BY <1>1, DefaultWordAssumption DEF LowerName, Name
  <2> HIDE DEF entries
  <2> QED
    BY <2>1, <2>2, InstancesAssumption DEF Entry, Instance
<1> HIDE DEF read, InstanceOf
<1> QED
  BY <1>3, <1>4, <1>5 DEF Instances

LEMMA RankInNat == \A suite : CryptosuiteRank(suite) \in 1..4
<1>1. DOMAIN CryptosuitePriority = 1..3 /\ Len(CryptosuitePriority) = 3
  BY DEF CryptosuitePriority
<1> QED
  BY <1>1 DEF CryptosuiteRank

(* selectIssuerInstance: one of the instances, one the wallet can use if     *)
(* there is any, of the best suite among those.                              *)
LEMMA Selected ==
  ASSUME NEW instances, Instances(instances), DOMAIN instances # {}, NEW wallet
  PROVE  \E i \in DOMAIN instances :
           /\ SelectIssuerInstance(instances, wallet) = instances[i]
           /\ \A j \in DOMAIN instances :
                /\ instances[j].cryptosuite \in wallet => instances[i].cryptosuite \in wallet
                /\ \/ /\ wallet # {}
                      /\ instances[j].cryptosuite \notin wallet
                   \/ CryptosuiteRank(instances[i].cryptosuite)
                        <= CryptosuiteRank(instances[j].cryptosuite)
<1> DEFINE matching == {i \in DOMAIN instances : instances[i].cryptosuite \in wallet}
           pool == IF matching # {} THEN matching ELSE DOMAIN instances
           Rank(i) == CryptosuiteRank(instances[i].cryptosuite)
           Before(i, j) == Rank(i) < Rank(j) \/ (Rank(i) = Rank(j) /\ i <= j)
           first == CHOOSE i \in pool : \A j \in pool : Before(i, j)
<1>1. SelectIssuerInstance(instances, wallet) = instances[first]
  <2>1. instances # <<>>
    OBVIOUS
  <2> QED
    BY <2>1 DEF SelectIssuerInstance, FirstByPriority
<1>2. pool \subseteq 1..2 /\ pool # {} /\ pool \subseteq DOMAIN instances
  BY DEF Instances
<1>3. \A i : Rank(i) \in Nat
  BY RankInNat
<1>4. \E i \in pool : \A j \in pool : Before(i, j)
  <2> HIDE DEF pool, Rank
  <2>1. CASE 1 \in pool /\ 2 \in pool
    <3>1. Before(1, 1) /\ Before(2, 2) /\ (Before(1, 2) \/ Before(2, 1))
      BY <1>3
    <3>2. \A j \in pool : j = 1 \/ j = 2
      BY <1>2
    <3> QED
      BY <2>1, <3>1, <3>2
  <2>2. ASSUME NEW i \in pool, \A j \in pool : j = i
        PROVE  \A j \in pool : Before(i, j)
    BY <1>2, <1>3, <2>2
  <2>3. (1 \in pool /\ 2 \in pool) \/ \E i \in pool : \A j \in pool : j = i
    <3>1. \A j \in pool : j = 1 \/ j = 2
      BY <1>2
    <3>2. \E k : k \in pool
      BY <1>2
    <3>3. PICK k : k \in pool
      BY <3>2
    <3> QED
      BY <3>1, <3>3
  <2> QED
    BY <2>1, <2>2, <2>3
<1>5. first \in pool /\ \A j \in pool : Rank(first) <= Rank(j)
  <2>1. first \in pool /\ \A j \in pool : Before(first, j)
    <3> HIDE DEF pool, Before
    <3> QED
      BY <1>4
  <2> HIDE DEF pool, Rank, first
  <2> QED
    BY <1>3, <2>1
<1> HIDE DEF first, Rank
<1>6. \A j \in DOMAIN instances : instances[j].cryptosuite \in wallet =>
                                  instances[first].cryptosuite \in wallet
  BY <1>5
<1>7. \A j \in DOMAIN instances : (wallet # {} /\ instances[j].cryptosuite \notin wallet)
                                    \/ Rank(first) <= Rank(j)
  BY <1>5
<1> QED
  BY <1>1, <1>2, <1>5, <1>6, <1>7 DEF Rank

(* An instance that is selected is no "undefined", and so it signs.          *)
LEMMA SignedBySelected ==
  ASSUME NEW env, Configured(env), NEW name, NEW proofs
  PROVE  LET tenants == Tenants(env)
             word    == Lower(name).word
             signed  == SignedFor(tenants, name, proofs)
             selected == SelectIssuerInstance(tenants[word], ExtractWalletCryptosuites(proofs)) IN
         /\ word \notin DOMAIN tenants \/ DOMAIN tenants[word] = {}
              => signed = [issuer |-> None, signingTenant |-> name]
         /\ word \in DOMAIN tenants /\ DOMAIN tenants[word] # {}
              => signed = [issuer |-> selected.id, signingTenant |-> selected.signingTenant]
<1> DEFINE tenants == Tenants(env)
           word    == Lower(name).word
           instances == tenants[word]
           selected == SelectIssuerInstance(instances, ExtractWalletCryptosuites(proofs))
<1>1. word \notin DOMAIN tenants =>
        SignedFor(tenants, name, proofs) = [issuer |-> None, signingTenant |-> name]
  BY DEF SignedFor
<1>2. ASSUME word \in DOMAIN tenants, DOMAIN instances = {}
      PROVE  SignedFor(tenants, name, proofs) = [issuer |-> None, signingTenant |-> name]
  <2>1. instances \in [{} -> Instance]
    BY <1>2, TenantsInstances DEF Instances
  <2> HIDE DEF instances
  <2>2. instances = <<>>
    BY <2>1
  <2>3. selected = None
    BY <2>2 DEF SelectIssuerInstance
  <2> QED
    BY <1>2, <2>3 DEF SignedFor, instances
<1>3. ASSUME word \in DOMAIN tenants, DOMAIN instances # {}
      PROVE  SignedFor(tenants, name, proofs)
               = [issuer |-> selected.id, signingTenant |-> selected.signingTenant]
  <2>1. Instances(instances)
    BY <1>3, TenantsInstances
  <2>2. \E i \in DOMAIN instances : selected = instances[i]
    BY <1>3, <2>1, Selected
  <2>3. selected \in Instance
    BY <2>1, <2>2 DEF Instances
  <2>4. selected # None
    BY <2>3, InstancesAssumption
  <2> HIDE DEF tenants, word
  <2> QED
    BY <1>3, <2>4 DEF SignedFor, tenants, word
<1> QED
  BY <1>1, <1>2, <1>3

(* For any tenants, entries of two at most and names: a credential is signed *)
(* by an instance of its exchange's tenant, one the wallet can use if there  *)
(* is one, never of an older suite than another choice                       *)
(* (selectIssuerInstance, parseIssuerInstances).                             *)
THEOREM TenantSigns == Spec => []SignedByItsTenant
<1>1. TenantCase => SignedByItsTenant
  <2> DEFINE tenants == Tenants(asked.env)
             word == Lower(CreatedFor).word
             mine == IF word \in DOMAIN tenants
                     THEN {tenants[word][i] : i \in DOMAIN tenants[word]} ELSE {}
  <2> SUFFICES ASSUME TenantCase, NEW proofs
               PROVE  LET signed == SignedFor(tenants, CreatedFor, proofs)
                          suites == ExtractWalletCryptosuites(proofs)
                      IN IF mine = {}
                         THEN signed = [issuer |-> None, signingTenant |-> CreatedFor]
                         ELSE \E instance \in mine :
                                /\ instance.id = signed.issuer
                                /\ instance.signingTenant = signed.signingTenant
                                /\ \A better \in mine :
                                     Fits(better, suites) =>
                                       /\ Fits(instance, suites)
                                       /\ CryptosuiteRank(instance.cryptosuite)
                                            <= CryptosuiteRank(better.cryptosuite)
    BY DEF SignedByItsTenant
  <2> DEFINE suites == ExtractWalletCryptosuites(proofs)
             selected == SelectIssuerInstance(tenants[word], suites)
             signed == SignedFor(tenants, CreatedFor, proofs)
  <2>1. Configured(asked.env)
    BY CasesConfigured
  <2>2. /\ word \notin DOMAIN tenants \/ DOMAIN tenants[word] = {}
             => signed = [issuer |-> None, signingTenant |-> CreatedFor]
        /\ word \in DOMAIN tenants /\ DOMAIN tenants[word] # {}
             => signed = [issuer |-> selected.id, signingTenant |-> selected.signingTenant]
    BY <2>1, SignedBySelected
  <2>3. mine = {} <=> (word \notin DOMAIN tenants \/ DOMAIN tenants[word] = {})
    OBVIOUS
  <2>4. ASSUME word \in DOMAIN tenants, DOMAIN tenants[word] # {}
        PROVE  \E instance \in mine :
                 /\ instance.id = signed.issuer
                 /\ instance.signingTenant = signed.signingTenant
                 /\ \A better \in mine :
                      Fits(better, suites) =>
                        /\ Fits(instance, suites)
                        /\ CryptosuiteRank(instance.cryptosuite)
                             <= CryptosuiteRank(better.cryptosuite)
    <3>1. PICK i \in DOMAIN tenants[word] :
            /\ selected = tenants[word][i]
            /\ \A j \in DOMAIN tenants[word] :
                 /\ tenants[word][j].cryptosuite \in suites
                      => tenants[word][i].cryptosuite \in suites
                 /\ \/ /\ suites # {}
                       /\ tenants[word][j].cryptosuite \notin suites
                    \/ CryptosuiteRank(tenants[word][i].cryptosuite)
                         <= CryptosuiteRank(tenants[word][j].cryptosuite)
      <4>1. Instances(tenants[word])
        BY <2>1, <2>4, TenantsInstances
      <4> HIDE DEF tenants, word, suites
      <4> QED
        BY <2>4, <4>1, Selected
    <3>2. selected \in mine /\ signed.issuer = selected.id
            /\ signed.signingTenant = selected.signingTenant
      BY <2>2, <2>4, <3>1
    <3> HIDE DEF tenants, word, suites, selected, signed
    <3>3. ASSUME NEW better \in mine, Fits(better, suites)
          PROVE  /\ Fits(selected, suites)
                 /\ CryptosuiteRank(selected.cryptosuite) <= CryptosuiteRank(better.cryptosuite)
      <4>1. PICK j \in DOMAIN tenants[word] : better = tenants[word][j]
        BY <2>4, <3>3
      <4> QED
        BY <3>1, <3>3, <4>1 DEF Fits
    <3> HIDE DEF mine
    <3> QED
      BY <3>2, <3>3
  <2> HIDE DEF mine
  <2> QED
    BY <2>2, <2>3, <2>4
<1>2. CasesInv => SignedByItsTenant
  BY <1>1 DEF CasesInv, AsAsked, SignedByItsTenant
<1> QED
  BY <1>2, CasesAlways, PTL

-----------------------------------------------------------------------------
(* OpenID4VCI discovery.  What stands behind the URLs of an exchange.        *)
LEMMA ExchangeRoute ==
  ASSUME NEW x, NEW handler
  PROVE  RouteOf(Append(CredentialIssuerUrl(x), handler)) = Route(handler, x.workflow, x.id)
<1> DEFINE values == {x.host, "workflows", x.workflow, "exchanges", x.id, handler}
           base == CredentialIssuerUrl(x)
           url  == Append(base, handler)
<1>1. /\ base \in Seq(values) /\ Len(base) = 5 /\ handler \in values
      /\ base[2] = "workflows" /\ base[3] = x.workflow /\ base[4] = "exchanges"
      /\ base[5] = x.id
  BY DEF CredentialIssuerUrl
<1> HIDE DEF values, base
<1>2. Len(url) = 6 /\ url[6] = handler /\ \A i \in 1..5 : url[i] = base[i]
  <2>1. base \in Seq(values) /\ handler \in values
    BY <1>1
  <2>2. /\ Len(url) = Len(base) + 1 /\ url[Len(base) + 1] = handler
        /\ \A i \in 1..Len(base) : url[i] = base[i]
    BY <2>1, AppendProperties
  <2> HIDE DEF url
  <2> QED
    BY <1>1, <2>2
<1> HIDE DEF url
<1> QED
  BY <1>1, <1>2 DEF RouteOf, base, url

LEMMA WellKnownRoute ==
  ASSUME NEW x, NEW name
  PROVE  RouteOf(WellKnown(CredentialIssuerUrl(x), name)) = Route(name, x.workflow, x.id)
<1> DEFINE values == {x.host, ".well-known", name, "workflows", x.workflow, "exchanges", x.id}
           front == <<x.host, ".well-known", name>>
           back  == <<"workflows", x.workflow, "exchanges", x.id>>
           url   == front \o back
<1>1. WellKnown(CredentialIssuerUrl(x), name) = url
  <2>1. Tail(CredentialIssuerUrl(x)) = back /\ CredentialIssuerUrl(x)[1] = x.host
    BY DEF CredentialIssuerUrl
  <2> HIDE DEF back
  <2> QED
    BY <2>1 DEF WellKnown
<1>2. /\ front \in Seq(values) /\ Len(front) = 3 /\ back \in Seq(values) /\ Len(back) = 4
      /\ front[2] = ".well-known" /\ front[3] = name
      /\ back[1] = "workflows" /\ back[2] = x.workflow /\ back[3] = "exchanges" /\ back[4] = x.id
  OBVIOUS
<1> HIDE DEF values, front, back
<1>3. /\ Len(url) = Len(front) + Len(back)
      /\ \A i \in 1..(Len(front) + Len(back)) :
           url[i] = IF i <= Len(front) THEN front[i] ELSE back[i - Len(front)]
  <2>1. front \in Seq(values) /\ back \in Seq(values)
    BY <1>2
  <2> QED
    BY <2>1, ConcatProperties
<1> HIDE DEF url
<1>4. /\ url[2] = ".well-known" /\ url[3] = name /\ url[4] = "workflows"
      /\ url[5] = x.workflow /\ url[6] = "exchanges" /\ url[7] = x.id /\ Len(url) = 7
  BY <1>2, <1>3
<1> QED
  BY <1>1, <1>4 DEF RouteOf

(* A suite the metadata advertise is the suite a credential comes in, for a  *)
(* wallet that proves itself with it.                                        *)
LEMMA AdvertisedAreUsed ==
  ASSUME NEW env, Configured(env), NEW name
  PROVE  AdvertisedSuitesAreUsed(Tenants(env), name)
<1> DEFINE tenants == Tenants(env)
           word    == Lower(name).word
           proofs(suite) == {[type |-> "DataIntegrityProof", cryptosuite |-> suite]}
           signed(suite) == SignedFor(tenants, name, proofs(suite))
<1> SUFFICES ASSUME NEW suite \in CryptosuitesForTenant(tenants, name),
                    signed(suite).issuer # None
             PROVE  \E i \in DOMAIN tenants[word] : /\ tenants[word][i].id = signed(suite).issuer
                                                    /\ tenants[word][i].cryptosuite = suite
  BY DEF AdvertisedSuitesAreUsed
<1> DEFINE wallet == ExtractWalletCryptosuites(proofs(suite))
           selected == SelectIssuerInstance(tenants[word], wallet)
<1>1. /\ word \in DOMAIN tenants /\ DOMAIN tenants[word] # {}
      /\ signed(suite).issuer = selected.id
  BY SignedBySelected
<1>2. Instances(tenants[word])
  BY <1>1, TenantsInstances
<1> HIDE DEF tenants, word
<1>3. PICK j \in DOMAIN tenants[word] : suite = tenants[word][j].cryptosuite
  BY <1>1 DEF CryptosuitesForTenant, word
<1>4. suite # None
  BY <1>2, <1>3, AbsentAssumption DEF Instances, Instance
<1>5. wallet = {suite}
  <2> DEFINE proof == [type |-> "DataIntegrityProof", cryptosuite |-> suite]
  <2>1. proof.cryptosuite = suite /\ proof.type # "Ed25519Signature2020" /\ proofs(suite) = {proof}
    OBVIOUS
  <2> HIDE DEF proof, proofs
  <2>2. /\ {q \in proofs(suite) : q.cryptosuite # None} = {proof}
        /\ {q \in proofs(suite) : q.type = "Ed25519Signature2020"} = {}
    BY <1>4, <2>1
  <2>3. {p.cryptosuite : p \in {proof}} = {suite}
    BY <2>1
  <2> QED
    BY <2>2, <2>3 DEF ExtractWalletCryptosuites
<1> HIDE DEF wallet, signed
<1>6. PICK i \in DOMAIN tenants[word] :
        /\ selected = tenants[word][i]
        /\ tenants[word][j].cryptosuite \in wallet => tenants[word][i].cryptosuite \in wallet
  BY <1>1, <1>2, Selected
<1> QED
  BY <1>1, <1>3, <1>5, <1>6

(* For any tenants, names and types: a wallet that takes a claim offer and   *)
(* follows what it finds meets its own exchange behind every URL, a          *)
(* configuration that is accepted and suites that are signed with            *)
(* (credential-offer.ts, issuer-metadata.ts, as-metadata.ts, the routes).    *)
THEOREM WalletArrives == Spec => []WalletFindsItsWay
<1>1. OfferCase => WalletFindsItsWay
  <2> SUFFICES ASSUME OfferCase PROVE WalletFindsItsWay
    OBVIOUS
  <2> DEFINE x        == asked.x
             issuer   == CredentialIssuerUrl(x)
             metadata == BuildIssuerMetadata(x, Tenants(asked.env))
             config   == DeriveCredentialConfigurationId(x.template)
  <2>1. x.workflow = "claim"
    BY DEF OfferCase
  <2>2. \A handler : Reaches(Append(issuer, handler), handler, x)
    BY <2>1, ExchangeRoute DEF Reaches
  <2>3. \A name : Reaches(WellKnown(issuer, name), name, x)
    BY <2>1, WellKnownRoute DEF Reaches
  <2>4. AdvertisedSuitesAreUsed(Tenants(asked.env), x.tenantName)
    BY CasesConfigured, AdvertisedAreUsed
  <2>5. /\ BuildCredentialOffer(x).credential_issuer = issuer
        /\ BuildCredentialOffer(x).credential_configuration_ids = {config}
        /\ CredentialOfferUri(x) = Append(issuer, "openid/credential-offer")
    BY DEF BuildCredentialOffer, CredentialOfferUri
  <2>6. /\ metadata.credential_issuer = issuer
        /\ metadata.authorization_servers = {issuer}
        /\ metadata.nonce_endpoint = Append(issuer, "openid/nonce")
        /\ metadata.credential_endpoint = Append(issuer, "openid/credential")
        /\ DOMAIN metadata.credential_configurations_supported = {config}
    BY DEF BuildIssuerMetadata
  <2>7. /\ BuildOid4vciAsMetadata(x).issuer = issuer
        /\ BuildOid4vciAsMetadata(x).token_endpoint = Append(issuer, "openid/token")
    BY DEF BuildOid4vciAsMetadata
  <2>8. AcceptsConfiguration(x, config)
    BY DEF AcceptsConfiguration
  <2> HIDE DEF x, issuer, metadata, config
  <2> QED
    BY <2>2, <2>3, <2>4, <2>5, <2>6, <2>7, <2>8 DEF WalletFindsItsWay, x, metadata
<1>2. CasesInv => WalletFindsItsWay
  BY <1>1 DEF CasesInv, AsAsked, WalletFindsItsWay
<1> QED
  BY <1>2, CasesAlways, PTL
=============================================================================
