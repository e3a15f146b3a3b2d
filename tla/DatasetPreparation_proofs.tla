---------------------- MODULE DatasetPreparation_proofs ----------------------
(***************************************************************************)
(* Theorems about DatasetPreparation, for any window, any sources and      *)
(* prices, and any number of coordinators, attempts and calls.             *)
(***************************************************************************)
EXTENDS DatasetPreparation, SupplementalEligibility_proofs

USE PreparationAssumption

Roles == {"canonical", "supplemental", "validation"}

EvidenceRow == [date : Window, role : Roles, run : TwseRuns \cup EsunRuns \cup {"failed"}]

(* What a child keeps of the version it extends. *)
Extends(v, w) ==
    /\ ChildOf(v, w)
    /\ {r.date : r \in Selected(v.rows)} = {r.date : r \in Selected(w.rows)}
    /\ \A r \in w.rows : r \in v.rows \/ [r EXCEPT !.role = "validation"] \in v.rows
    /\ InRole(w.rows, "canonical") \subseteq v.rows
    /\ SupplementalDates(v) \subseteq SupplementalDates(w)
    /\ SupplementalDates(v) # SupplementalDates(w)

(* A version that may be added: a provisional one has dates left to E.SUN, *)
(* and a child extends a stored provisional.                               *)
Sound(v) ==
    /\ v.rows \in SUBSET EvidenceRow
    /\ v.source \in {"canonical_complete", "provisional_mixed", "reconciled"}
    /\ v.source = "provisional_mixed" => SupplementalDates(v) # {}
    /\ \/ v.parent = <<>>
       \/ \E w \in versions : w.source = "provisional_mixed" /\ Extends(v, w)

Answer == [run : TwseRuns \cup {"failed"}, requested : SUBSET Window, found : SUBSET Window,
           failure : {"none", "timeout", "permanent"}, evidence : {"verified", "unverified"}]

(* The locals of a call, over the versions stored.                         *)
Local == [pc : {"idle", "fetching", "publishing"},
          leaf : {<<>>} \cup {<<v>> : v \in versions},
          asked : SUBSET Window, attempts : 0 .. MaxAttempts - 1,
          answer : {NoAnswer} \cup Answer, stale : BOOLEAN]

(* A call that answers an open version asks for dates E.SUN gave it.       *)
Answers(local) ==
    /\ local.pc = "publishing" => local.answer.found \subseteq local.answer.requested
    /\ local.leaf # <<>> =>
       /\ local.leaf[1].source = "provisional_mixed"
       /\ local.pc = "fetching" =>
             local.asked # {} /\ local.asked \subseteq SupplementalDates(local.leaf[1])
       /\ local.pc = "publishing" /\ Complete(local.answer) =>
             local.answer.found \cap SupplementalDates(local.leaf[1]) # {}

LocalOK(local) ==
    /\ local.pc = "publishing" <=> local.answer # NoAnswer
    /\ Answers(local)

StoreInv ==
    /\ IsFiniteSet(versions)
    /\ \A v \in versions : Sound(v)

CallInv ==
    /\ call \in [Preparers -> Local]
    /\ \A p \in Preparers : LocalOK(call[p])
    /\ cache \in [Preparers -> SUBSET {Identity(v) : v \in versions}]
    /\ prepares \in 0 .. MaxPrepares

LedgerInv == StoreInv /\ CallInv

----------------------------------------------------------------------------

LEMMA TargetInWindow == Target \in Window
<1>1. \E d \in Window : \A e \in Window : e <= d
  BY LargestExists
<1> QED
  BY <1>1 DEF Target

(* What a fetch may bring.                                                 *)
LEMMA AnswersTyped ==
    ASSUME NEW local, local.asked \in SUBSET Window,
           NEW answer \in GivenAnswers(local) \cup RaisedAnswers(local)
    PROVE  /\ answer \in Answer /\ answer.found \subseteq answer.requested
           /\ local.leaf # <<>> /\ local.asked # {} =>
                 answer.requested # {} /\ answer.requested \subseteq local.asked
<1>1. CASE answer \in GivenAnswers(local)
  <2>1. PICK dates \in RequestedBy(local) :
            answer \in [run : TwseRuns, requested : {dates}, found : SUBSET dates,
                        failure : {"none", "timeout", "permanent"},
                        evidence : {"verified", "unverified"}]
    BY <1>1 DEF GivenAnswers
  <2>2. dates \subseteq Window
    BY DEF RequestedBy
  <2>3. local.leaf # <<>> /\ local.asked # {} => dates # {} /\ dates \subseteq local.asked
    BY DEF RequestedBy
  <2> QED
    BY <2>1, <2>2, <2>3 DEF Answer
<1>2. CASE answer \in RaisedAnswers(local)
  <2> DEFINE dates == IF local.asked = {} THEN {Target} ELSE local.asked
  <2>1. PICK failure \in {"timeout", "permanent"} :
            answer = TwseAnswer("failed", dates, {}, failure, "unverified")
    BY <1>2 DEF RaisedAnswers
  <2>2. dates \subseteq Window /\ (local.asked # {} => dates = local.asked)
    BY TargetInWindow
  <2> HIDE DEF dates
  <2> QED
    BY <2>1, <2>2 DEF TwseAnswer, Answer
<1> QED
  BY <1>1, <1>2

LEMMA AnswerIsSome == \A answer \in Answer : answer # NoAnswer
<1> SUFFICES ASSUME NEW answer \in Answer, answer = <<>> PROVE FALSE
  BY DEF NoAnswer
<1>1. "run" \in DOMAIN answer
  BY DEF Answer
<1>2. DOMAIN <<>> = {}
  OBVIOUS
<1> QED
  BY <1>1, <1>2

(* The rows of the three builders.                                         *)
LEMMA RowsTyped ==
    ASSUME NEW dates \in SUBSET Window, NEW role \in Roles,
           NEW run \in TwseRuns \cup EsunRuns \cup {"failed"}
    PROVE  RowsOf(dates, role, run) \in SUBSET EvidenceRow
BY DEF RowsOf, Row, EvidenceRow

LEMMA CanonicalSound ==
    ASSUME LedgerInv, NEW answer \in Answer, NEW validation \in SUBSET EsunAnswers
    PROVE  /\ Sound(CanonicalFrom(answer, validation))
           /\ CanonicalFrom(answer, validation).source = "canonical_complete"
<1> DEFINE rows == UNION {RowsOf(e.found, "validation", e.run) :
                             e \in {x \in validation : x.fault = "none"}}
           v == CanonicalFrom(answer, validation)
<1>1. RowsOf(answer.found, "canonical", answer.run) \in SUBSET EvidenceRow
  BY RowsTyped DEF Answer, Roles
<1>2. rows \in SUBSET EvidenceRow
  <2>1. \A e \in EsunAnswers : RowsOf(e.found, "validation", e.run) \in SUBSET EvidenceRow
    BY RowsTyped DEF EsunAnswers, Roles
  <2> QED
    BY <2>1
<1>3. /\ v.rows = RowsOf(answer.found, "canonical", answer.run) \cup rows
      /\ v.source = "canonical_complete" /\ v.parent = <<>>
  BY DEF CanonicalFrom, CanonicalVersion
<1> QED
  BY <1>1, <1>2, <1>3 DEF Sound

LEMMA ProvisionalSound ==
    ASSUME LedgerInv, NEW answer \in Answer, NEW esun \in EsunAnswers,
           NEW selected \in SUBSET Window, selected # {}
    PROVE  /\ Sound(ProvisionalFrom(answer, esun, selected))
           /\ ProvisionalFrom(answer, esun, selected).source = "provisional_mixed"
<1> DEFINE v == ProvisionalFrom(answer, esun, selected)
           filled == RowsOf(selected, "supplemental", esun.run)
<1>1. RowsOf(answer.found, "canonical", answer.run) \in SUBSET EvidenceRow
  BY RowsTyped DEF Answer, Roles
<1>2. filled \in SUBSET EvidenceRow
  BY RowsTyped DEF EsunAnswers, Roles
<1>3. /\ v.rows = RowsOf(answer.found, "canonical", answer.run) \cup filled
      /\ v.source = "provisional_mixed" /\ v.parent = <<>>
  BY DEF ProvisionalFrom, ProvisionalVersion
<1>4. SupplementalDates(v) # {}
  <2>1. PICK d \in selected : TRUE
    OBVIOUS
  <2>2. Row(d, "supplemental", esun.run) \in v.rows
    BY <1>3 DEF RowsOf
  <2> QED
    BY <2>2 DEF SupplementalDates, DatesIn, InRole, Row
<1> QED
  BY <1>1, <1>2, <1>3, <1>4 DEF Sound

(* Reconciliation with TWSE rows for some of the dates left to E.SUN.      *)
LEMMA ReconciledSound ==
    ASSUME LedgerInv, NEW leaf \in versions, leaf.source = "provisional_mixed",
           NEW answer \in Answer, answer.found \cap SupplementalDates(leaf) # {}
    PROVE  /\ Sound(ReconciledFrom(leaf, answer))
           /\ Extends(ReconciledFrom(leaf, answer), leaf)
           /\ ReconciledFrom(leaf, answer).source \in {"provisional_mixed", "reconciled"}
<1> DEFINE D == answer.found \cap SupplementalDates(leaf)
           late == RowsOf(D, "canonical", answer.run)
           v == ReconciledFrom(leaf, answer)
<1>1. leaf.rows \in SUBSET EvidenceRow
  BY DEF LedgerInv, StoreInv, Sound
<1>2. D \in SUBSET Window /\ D # {} /\ late \in SUBSET EvidenceRow
  <2>1. D \in SUBSET Window
    BY DEF Answer
  <2> QED
    BY <2>1, RowsTyped DEF Answer, Roles
<1>3. {r.date : r \in late} = D
  <2>1. \A d \in D : Row(d, "canonical", answer.run) \in late
                    /\ Row(d, "canonical", answer.run).date = d
    BY DEF RowsOf, Row
  <2>2. \A r \in late : r.date \in D
    BY DEF RowsOf, Row
  <2> HIDE DEF late, D
  <2> QED
    BY <2>1, <2>2
<1>4. /\ v.rows = Demoted(leaf.rows, D) \cup late
      /\ v.source = IF SupplementalDates(leaf) \ D # {} THEN "provisional_mixed"
                                                        ELSE "reconciled"
      /\ v.parent = <<Identity(leaf)>>
  BY <1>3 DEF ReconciledFrom, ReconciledVersion, StillPending
<1> HIDE DEF v, D
<1>5. \A r \in leaf.rows :
         /\ [r EXCEPT !.role = "validation"] \in EvidenceRow
         /\ [r EXCEPT !.role = "validation"].date = r.date
         /\ [r EXCEPT !.role = "validation"].role = "validation"
  BY <1>1 DEF EvidenceRow, Roles
<1>6. ASSUME NEW x \in Demoted(leaf.rows, D)
       PROVE  \/ x.role = "validation"
              \/ x \in leaf.rows /\ ~ (x.role = "supplemental" /\ x.date \in D)
  <2>1. PICK r \in leaf.rows :
            x = IF r.role = "supplemental" /\ r.date \in D
                THEN [r EXCEPT !.role = "validation"] ELSE r
    BY DEF Demoted
  <2> QED
    BY <1>5, <2>1
<1>7. \A r \in late : r.role = "canonical" /\ r.date \in D /\ r.run = answer.run
  BY DEF RowsOf, Row
<1>8. Demoted(leaf.rows, D) \in SUBSET EvidenceRow
  BY <1>1, <1>5 DEF Demoted
<1>9. \A d \in Window : d \in SupplementalDates(leaf) <=>
         \E r \in leaf.rows : r.role = "supplemental" /\ r.date = d
  BY DEF SupplementalDates, DatesIn, InRole
<1>10. SupplementalDates(leaf) \subseteq Window
  BY <1>1 DEF SupplementalDates, DatesIn, InRole, EvidenceRow
<1>11. SupplementalDates(v) = SupplementalDates(leaf) \ D
  <2>1. InRole(v.rows, "supplemental") =
           {r \in leaf.rows : r.role = "supplemental" /\ r.date \notin D}
    <3> HIDE DEF late
    <3>1. \A x \in v.rows : x.role = "supplemental" =>
                 x \in leaf.rows /\ x.date \notin D
      BY <1>4, <1>7, <1>6
    <3>2. \A r \in leaf.rows : ~ (r.role = "supplemental" /\ r.date \in D) => r \in v.rows
      BY <1>4 DEF Demoted
    <3> QED
      BY <3>1, <3>2 DEF InRole
  <2> QED
    BY <2>1 DEF SupplementalDates, DatesIn, InRole
<1>12. {r.date : r \in Selected(v.rows)} = {r.date : r \in Selected(leaf.rows)}
  <2>1. Selected(v.rows) =
           {r \in leaf.rows : r.role # "validation" /\ ~ (r.role = "supplemental" /\ r.date \in D)}
           \cup late
    <3> HIDE DEF late
    <3>1. \A x \in v.rows : x.role # "validation" =>
                 x \in late \/ (x \in leaf.rows /\ ~ (x.role = "supplemental" /\ x.date \in D))
      BY <1>4, <1>7, <1>6
    <3>2. \A r \in leaf.rows : ~ (r.role = "supplemental" /\ r.date \in D) => r \in v.rows
      BY <1>4 DEF Demoted
    <3>3. late \subseteq v.rows /\ \A x \in late : x.role # "validation"
      BY <1>4, <1>7
    <3> QED
      BY <3>1, <3>2, <3>3 DEF Selected
  <2>2. \A d \in D : \E r \in Selected(leaf.rows) : r.date = d
    BY <1>9, <1>2 DEF Selected, D
  <2>3. {r.date : r \in Selected(v.rows)} \subseteq {r.date : r \in Selected(leaf.rows)}
    BY <2>1, <2>2, <1>7 DEF Selected
  <2>4. ASSUME NEW r \in Selected(leaf.rows)
        PROVE  \E t \in Selected(v.rows) : t.date = r.date
    <3>1. CASE r.role = "supplemental" /\ r.date \in D
      BY <1>3, <2>1, <3>1
    <3>2. CASE ~ (r.role = "supplemental" /\ r.date \in D)
      BY <2>1, <3>2 DEF Selected
    <3> QED
      BY <3>1, <3>2
  <2> QED
    BY <2>3, <2>4
<1>13. \A r \in leaf.rows : r \in v.rows \/ [r EXCEPT !.role = "validation"] \in v.rows
  BY <1>4 DEF Demoted
<1>14. InRole(leaf.rows, "canonical") \subseteq v.rows
  BY <1>4 DEF Demoted, InRole
<1>15. D \subseteq SupplementalDates(leaf)
  BY DEF D
<1>16. Extends(v, leaf)
  BY <1>2, <1>4, <1>11, <1>12, <1>13, <1>14, <1>15 DEF Extends, ChildOf
<1>17. Sound(v)
  BY <1>2, <1>4, <1>8, <1>11, <1>16 DEF Sound
<1> QED
  BY <1>4, <1>16, <1>17 DEF v

----------------------------------------------------------------------------

(* What a call publishes, by what it answers.                              *)
Publishes(p, v) ==
    /\ call[p].pc = "publishing" /\ Save(p, v) /\ Sound(v)
    /\ prepares' = prepares
    /\ ~ repeated' => ~ repeated
    /\ \/ call[p].leaf = <<>>
       \/ /\ v.source \in {"provisional_mixed", "reconciled"}
          /\ v.parent = <<Identity(call[p].leaf[1])>>
       \/ repeated' \/ Stored(v)

LEMMA LocalKnown ==
    ASSUME LedgerInv, NEW p \in Preparers
    PROVE  /\ call[p] \in Local /\ LocalOK(call[p])
           /\ call[p].leaf # <<>> => call[p].leaf[1] \in versions /\ call[p].leaf = <<call[p].leaf[1]>>
           /\ call[p].pc = "publishing" => call[p].answer \in Answer
BY DEF LedgerInv, CallInv, Local, LocalOK

LEMMA PublishCanonicalPublishes ==
    ASSUME LedgerInv, NEW p \in Preparers, PublishCanonical(p)
    PROVE  \E v : Publishes(p, v)
<1>1. call[p].answer \in Answer
  BY LocalKnown DEF PublishCanonical, Publishing
<1>2. PICK validation \in {{}} \cup {{e} : e \in EsunAnswers} :
          Save(p, CanonicalFrom(call[p].answer, validation))
  BY DEF PublishCanonical
<1>3. Sound(CanonicalFrom(call[p].answer, validation))
  BY <1>1, CanonicalSound
<1> QED
  BY <1>2, <1>3 DEF PublishCanonical, Publishes, Publishing

LEMMA PublishReconciledPublishes ==
    ASSUME LedgerInv, NEW p \in Preparers, PublishReconciled(p)
    PROVE  \E v : Publishes(p, v)
<1> DEFINE leaf == call[p].leaf[1]
           v == ReconciledFrom(leaf, call[p].answer)
<1>1. /\ call[p].pc = "publishing" /\ Complete(call[p].answer) /\ call[p].leaf # <<>>
      /\ Save(p, v) /\ UNCHANGED <<prepares, repeated, narrowed>>
  BY DEF PublishReconciled, Publishing
<1>2. /\ leaf \in versions /\ call[p].answer \in Answer
      /\ leaf.source = "provisional_mixed"
      /\ call[p].answer.found \cap SupplementalDates(leaf) # {}
  BY <1>1, LocalKnown DEF LocalOK, Answers
<1>3. Sound(v) /\ Extends(v, leaf) /\ v.source \in {"provisional_mixed", "reconciled"}
  BY <1>2, ReconciledSound
<1> HIDE DEF v
<1> QED
  BY <1>1, <1>3 DEF Publishes, Extends, ChildOf

LEMMA PublishProvisionalPublishes ==
    ASSUME LedgerInv, NEW p \in Preparers, PublishProvisional(p)
    PROVE  \E v : Publishes(p, v)
<1>1. call[p].answer \in Answer /\ ~Complete(call[p].answer)
  BY LocalKnown DEF PublishProvisional, Publishing, MayAskEsun
<1>2. PICK esun \in EsunAnswers :
         LET c == Candidate(call[p].answer, esun)
             result == Evaluate(c)
             version == ProvisionalFrom(call[p].answer, esun, result.selected)
         IN  /\ ValidCandidate(c) /\ Target \in call[p].answer.requested
             /\ result.eligible /\ result.complete
             /\ Save(p, version)
             /\ repeated' = (repeated \/ (call[p].leaf # <<>> /\ ~Stored(version)))
  BY DEF PublishProvisional
<1> DEFINE c == Candidate(call[p].answer, esun)
           selected == Evaluate(c).selected
           version == ProvisionalFrom(call[p].answer, esun, selected)
<1>3. selected # {} /\ selected \in SUBSET Window
  <2> USE <1>1, <1>2
  <2>1. c.missing = call[p].answer.requested \ call[p].answer.found
    BY DEF Candidate
  <2> HIDE DEF c
  <2>2. Evaluate(c).complete => c.missing \ selected = {}
    BY DEF Evaluate
  <2>3. selected \subseteq c.missing
    BY DEF Evaluate, Selectable
  <2>4. Evaluate(c).complete
    BY DEF c
  <2>5. c.missing # {} /\ c.missing \subseteq Window
    BY <2>1, LocalKnown DEF Answer, LocalOK, Answers, Complete, PublishProvisional, Publishing
  <2> QED
    BY <2>2, <2>3, <2>4, <2>5
<1>4. Sound(version)
  BY <1>1, <1>3, ProvisionalSound
<1> QED
  BY <1>2, <1>4 DEF PublishProvisional, Publishes, Publishing

LEMMA IdleIsLocal == Idle \in Local /\ LocalOK(Idle) /\ Idle.pc = "idle" /\ Idle.leaf = <<>>
BY DEF Idle, Local, LocalOK, Answers, NoAnswer

(* A save, seen from the rows and from the calls.                          *)
LEMMA SaveEffect ==
    ASSUME LedgerInv, NEW p \in Preparers, NEW v, Save(p, v)
    PROVE  /\ \/ Stored(v) /\ versions' = versions
              \/ ~Stored(v) /\ versions' = versions \cup {v}
           /\ DOMAIN call' = Preparers /\ call'[p] = Idle
           /\ \A q \in Preparers \ {p} :
                 /\ call'[q] \in Local /\ LocalOK(call'[q])
                 /\ call'[q].pc = call[q].pc /\ call'[q].leaf = call[q].leaf
                 /\ call[q].stale => call'[q].stale \/ call[q].pc = "idle"
                 /\ ~Stored(v) /\ call[q].pc # "idle" => call'[q].stale
           /\ overlapped' = (overlapped \/ call[p].stale)
<1>1. \/ Stored(v) /\ versions' = versions
      \/ ~Stored(v) /\ versions' = versions \cup {v}
  BY DEF Save
<1>2. overlapped' = (overlapped \/ call[p].stale)
  BY DEF Save
<1>3. call' = [q \in Preparers |->
                IF q = p THEN Idle
                ELSE [call[q] EXCEPT !.stale = call[q].pc # "idle"
                                                /\ (call[q].stale \/ ~Stored(v))]]
  BY DEF Save
<1>4. ASSUME NEW q \in Preparers \ {p}
      PROVE  /\ call'[q] \in Local /\ LocalOK(call'[q])
             /\ call'[q].pc = call[q].pc /\ call'[q].leaf = call[q].leaf
             /\ call[q].stale => call'[q].stale \/ call[q].pc = "idle"
             /\ ~Stored(v) /\ call[q].pc # "idle" => call'[q].stale
  <2> DEFINE stale == call[q].pc # "idle" /\ (call[q].stale \/ ~Stored(v))
             new == [call[q] EXCEPT !.stale = stale]
  <2>1. call[q] \in Local /\ LocalOK(call[q])
    BY LocalKnown
  <2>2. call'[q] = new
    BY <1>3
  <2>3. stale \in BOOLEAN
    OBVIOUS
  <2>4. /\ (call[q].stale => stale \/ call[q].pc = "idle")
        /\ (~Stored(v) /\ call[q].pc # "idle" => stale)
    OBVIOUS
  <2> HIDE DEF stale
  <2>5. /\ new \in Local /\ new.pc = call[q].pc /\ new.leaf = call[q].leaf
        /\ new.answer = call[q].answer /\ new.asked = call[q].asked /\ new.stale = stale
    BY <2>1, <2>3 DEF Local
  <2>6. LocalOK(new)
    BY <2>1, <2>5 DEF LocalOK, Answers
  <2> HIDE DEF new
  <2>7. call'[q].stale = stale
    BY <2>2, <2>5
  <2> QED
    BY <2>2, <2>4, <2>5, <2>6, <2>7, Zenon
<1> QED
  BY <1>1, <1>2, <1>3, <1>4, Zenon

LEMMA PublishStep ==
    ASSUME LedgerInv, NEW p \in Preparers, NEW v, Publishes(p, v)
    PROVE  LedgerInv'
<1> USE DEF LedgerInv
<1>1. Save(p, v) /\ Sound(v) /\ UNCHANGED prepares
  BY DEF Publishes
<1>2. versions \subseteq versions' /\ versions' \subseteq versions \cup {v}
      /\ (Stored(v) => versions' = versions)
  BY <1>1, SaveEffect
<1>3. IsFiniteSet(versions')
  <2>1. IsFiniteSet(versions \cup {v})
    BY FS_AddElement DEF StoreInv
  <2> QED
    BY <1>2, <2>1, FS_Subset
<1>4. \A w \in versions' : Sound(w)'
  BY <1>1, <1>2 DEF Sound, StoreInv
<1>5. Local \subseteq Local'
  BY <1>2 DEF Local
<1>6. call' \in [Preparers -> Local'] /\ \A q \in Preparers : LocalOK(call'[q])
  <2>1. call' = [q \in Preparers |-> call'[q]]
    BY <1>1 DEF Save
  <2>2. \A q \in Preparers : call'[q] \in Local /\ LocalOK(call'[q])
    BY <1>1, SaveEffect, IdleIsLocal
  <2> QED
    BY <1>5, <2>1, <2>2
<1>7. cache' \in [Preparers -> SUBSET {Identity(w) : w \in versions'}]
  <2>1. cache \in [Preparers -> SUBSET {Identity(w) : w \in versions'}]
    BY <1>2 DEF CallInv
  <2>2. CASE Stored(v) /\ v \notin versions
    BY <1>1, <2>1, <2>2 DEF Save
  <2>3. CASE ~(Stored(v) /\ v \notin versions)
    <3>1. cache' = [cache EXCEPT ![p] = {Identity(v)}] /\ v \in versions'
      BY <1>1, <2>3 DEF Save
    <3> QED
      BY <2>1, <3>1
  <2> QED
    BY <2>2, <2>3
<1>8. \A q \in Preparers : LocalOK(call[q])' 
  BY <1>6 DEF LocalOK, Answers
<1> QED
  BY <1>1, <1>3, <1>4, <1>6, <1>7, <1>8 DEF StoreInv, CallInv

----------------------------------------------------------------------------

(* The steps that publish nothing.                                         *)
Waits(p) ==
    /\ UNCHANGED <<versions, overlapped, repeated>> /\ prepares' \in 0 .. MaxPrepares
    /\ cache' \in [Preparers -> SUBSET {Identity(v) : v \in versions}]
    /\ call' \in [Preparers -> Local] /\ LocalOK(call'[p])
    /\ \A q \in Preparers \ {p} : call'[q] = call[q]
    /\ \/ call'[p].pc = "idle"
       \/ /\ call[p].pc # "idle" /\ call'[p].leaf = call[p].leaf
          /\ call'[p].stale = call[p].stale
       \/ /\ ~Ambiguous /\ ConsumableVersions = {}
          /\ \/ OpenLeaves = {} /\ call'[p].leaf = <<>>
             \/ call'[p].leaf # <<>> /\ call'[p].leaf[1] \in OpenLeaves

LEMMA BecomeEffect ==
    ASSUME LedgerInv, NEW p \in Preparers, NEW local \in Local, Become(p, local)
    PROVE  /\ call' \in [Preparers -> Local] /\ call'[p] = local
           /\ \A q \in Preparers \ {p} : call'[q] = call[q]
BY DEF Become, LedgerInv, CallInv

LEMMA ReplayWaits ==
    ASSUME LedgerInv, NEW p \in Preparers,
           ReplayOrRefuse(p) \/ ReplayStored(p) \/ Restart(p)
    PROVE  Waits(p)
<1>1. UNCHANGED <<versions, call, overlapped, repeated>> /\ call[p].pc = "idle"
  BY DEF ReplayOrRefuse, ReplayStored, Restart, MayPrepare
<1>2. prepares' \in 0 .. MaxPrepares
  BY DEF ReplayOrRefuse, ReplayStored, Restart, MayPrepare, LedgerInv, CallInv
<1>3. cache' \in [Preparers -> SUBSET {Identity(v) : v \in versions}]
  <2>1. CASE ReplayStored(p)
    <3>1. PICK v \in ConsumableVersions : cache' = [cache EXCEPT ![p] = {Identity(v)}]
      BY <2>1 DEF ReplayStored
    <3> QED
      BY <3>1 DEF LedgerInv, CallInv, ConsumableVersions
  <2>2. CASE ReplayOrRefuse(p) \/ Restart(p)
    BY <2>2 DEF ReplayOrRefuse, Restart, LedgerInv, CallInv
  <2> QED
    BY <2>1, <2>2
<1> QED
  BY <1>1, <1>2, <1>3, LocalKnown DEF Waits, LedgerInv, CallInv

LEMMA GiveUpWaits ==
    ASSUME LedgerInv, NEW p \in Preparers, GiveUp(p)
    PROVE  Waits(p)
<1>1. Become(p, Idle) /\ UNCHANGED <<versions, cache, prepares, overlapped, repeated>>
  BY DEF GiveUp
<1> QED
  BY <1>1, IdleIsLocal, BecomeEffect DEF Waits, LedgerInv, CallInv

LEMMA BeginWaits ==
    ASSUME LedgerInv, NEW p \in Preparers, Begin(p)
    PROVE  Waits(p)
<1>1. /\ UNCHANGED <<versions, cache, overlapped, repeated>>
      /\ ~Ambiguous /\ ConsumableVersions = {}
  BY DEF Begin
<1>2. prepares' \in 0 .. MaxPrepares
  <2>1. MayPrepare(p)
    BY DEF Begin
  <2> QED
    BY <2>1 DEF MayPrepare, LedgerInv, CallInv
<1>3. CASE OpenLeaves = {} /\ Become(p, [Idle EXCEPT !.pc = "fetching"])
  <2> DEFINE local == [Idle EXCEPT !.pc = "fetching"]
  <2>1. local \in Local /\ LocalOK(local) /\ local.leaf = <<>>
    BY IdleIsLocal DEF Idle, Local, LocalOK, Answers, NoAnswer
  <2> HIDE DEF local
  <2>2. call' \in [Preparers -> Local] /\ call'[p] = local
        /\ \A q \in Preparers \ {p} : call'[q] = call[q]
    BY <1>3, <2>1, BecomeEffect DEF local
  <2> QED
    BY <1>1, <1>2, <1>3, <2>1, <2>2 DEF Waits, LedgerInv, CallInv
<1>4. ASSUME NEW leaf \in OpenLeaves,
             Become(p, [Idle EXCEPT !.pc = "fetching", !.leaf = <<leaf>>,
                                    !.asked = SupplementalDates(leaf)])
      PROVE  Waits(p)
  <2> DEFINE local == [Idle EXCEPT !.pc = "fetching", !.leaf = <<leaf>>,
                                   !.asked = SupplementalDates(leaf)]
  <2>1. /\ leaf \in versions /\ leaf.source = "provisional_mixed"
        /\ SupplementalDates(leaf) # {} /\ SupplementalDates(leaf) \in SUBSET Window
    <3>1. leaf \in versions /\ leaf.source = "provisional_mixed"
      BY DEF OpenLeaves
    <3>2. leaf.rows \in SUBSET EvidenceRow /\ SupplementalDates(leaf) # {}
      BY <3>1 DEF LedgerInv, StoreInv, Sound
    <3> QED
      BY <3>1, <3>2 DEF SupplementalDates, DatesIn, InRole, EvidenceRow
  <2>2. /\ local.pc = "fetching" /\ local.leaf = <<leaf>> /\ local.answer = NoAnswer
        /\ local.asked = SupplementalDates(leaf)
    BY DEF Idle
  <2>3. local \in Local
    BY <2>1, IdleIsLocal DEF Idle, Local
  <2> HIDE DEF local
  <2>4. LocalOK(local)
    BY <2>1, <2>2 DEF LocalOK, Answers
  <2>5. call' \in [Preparers -> Local] /\ call'[p] = local
        /\ \A q \in Preparers \ {p} : call'[q] = call[q]
    BY <1>4, <2>3, BecomeEffect DEF local
  <2>6. call'[p].leaf # <<>> /\ call'[p].leaf[1] \in OpenLeaves
    <3>1. call'[p].leaf = <<leaf>>
      BY <2>2, <2>5
    <3>2. <<leaf>> # <<>> /\ <<leaf>>[1] = leaf
      OBVIOUS
    <3> QED
      BY <3>1, <3>2
  <2> QED
    BY <1>1, <1>2, <2>4, <2>5, <2>6 DEF Waits, LedgerInv, CallInv
<1> QED
  BY <1>3, <1>4 DEF Begin

LEMMA FetchWaits ==
    ASSUME LedgerInv, NEW p \in Preparers, Fetch(p)
    PROVE  Waits(p)
<1>1. /\ UNCHANGED <<versions, cache, prepares, overlapped, repeated>>
      /\ call[p].pc = "fetching"
  BY DEF Fetch
<1>2. PICK answer \in GivenAnswers(call[p]) \cup RaisedAnswers(call[p]) : Answered(p, answer)
  BY DEF Fetch
<1>3. call[p] \in Local /\ LocalOK(call[p])
  BY LocalKnown
<1>4. /\ answer \in Answer /\ answer.found \subseteq answer.requested
      /\ call[p].leaf # <<>> =>
            /\ answer.requested # {}
            /\ answer.requested \subseteq SupplementalDates(call[p].leaf[1])
  <2>1. call[p].asked \in SUBSET Window
    BY <1>3 DEF Local
  <2>2. /\ answer \in Answer /\ answer.found \subseteq answer.requested
        /\ call[p].leaf # <<>> /\ call[p].asked # {} =>
              answer.requested # {} /\ answer.requested \subseteq call[p].asked
    BY <1>2, <2>1, AnswersTyped
  <2>3. call[p].leaf # <<>> =>
            call[p].asked # {} /\ call[p].asked \subseteq SupplementalDates(call[p].leaf[1])
    BY <1>1, <1>3 DEF LocalOK, Answers
  <2> QED
    BY <2>2, <2>3
<1> DEFINE again == [call[p] EXCEPT !.asked = answer.requested, !.attempts = call[p].attempts + 1]
           done == [call[p] EXCEPT !.pc = "publishing", !.answer = answer]
<1>5. CASE Retriable(call[p], answer) /\ Become(p, again)
  <2>1. call[p].attempts + 1 \in 0 .. MaxAttempts - 1
    BY <1>3, <1>5 DEF Retriable, Local
  <2>2. /\ again \in Local /\ again.pc = "fetching" /\ again.leaf = call[p].leaf
        /\ again.stale = call[p].stale /\ again.asked = answer.requested
        /\ again.answer = call[p].answer
    BY <1>1, <1>3, <1>4, <2>1 DEF Local, Answer
  <2> HIDE DEF again
  <2>3. LocalOK(again)
    BY <1>1, <1>3, <1>4, <2>2 DEF LocalOK, Answers
  <2>4. call' \in [Preparers -> Local] /\ call'[p] = again
        /\ \A q \in Preparers \ {p} : call'[q] = call[q]
    BY <1>5, <2>2, BecomeEffect
  <2> QED
    BY <1>1, <2>2, <2>3, <2>4 DEF Waits, LedgerInv, CallInv
<1>6. CASE Become(p, done)
  <2>1. /\ done \in Local /\ done.pc = "publishing" /\ done.leaf = call[p].leaf
        /\ done.stale = call[p].stale /\ done.answer = answer
    BY <1>3, <1>4 DEF Local
  <2> HIDE DEF done
  <2>2. call[p].leaf # <<>> => call[p].leaf[1].source = "provisional_mixed"
    BY <1>3 DEF LocalOK, Answers
  <2>3. LocalOK(done)
    BY <1>4, <2>1, <2>2, AnswerIsSome DEF LocalOK, Answers, Complete
  <2>4. call' \in [Preparers -> Local] /\ call'[p] = done
        /\ \A q \in Preparers \ {p} : call'[q] = call[q]
    BY <1>6, <2>1, BecomeEffect
  <2> QED
    BY <1>1, <2>1, <2>3, <2>4 DEF Waits, LedgerInv, CallInv
<1> QED
  BY <1>2, <1>5, <1>6 DEF Answered

LEMMA WaitStep ==
    ASSUME LedgerInv, NEW p \in Preparers, Waits(p)
    PROVE  LedgerInv'
<1>1. versions' = versions /\ Local' = Local
  BY DEF Waits, Local
<1>2. \A q \in Preparers : LocalOK(call'[q])
  BY DEF Waits, LedgerInv, CallInv
<1>3. \A q \in Preparers : LocalOK(call[q])'
  BY <1>2 DEF LocalOK, Answers
<1> QED
  BY <1>1, <1>3 DEF Waits, LedgerInv, CallInv, StoreInv, Sound

(* Every step publishes one version, or none.                              *)
LEMMA PreparationSteps ==
    ASSUME LedgerInv, Next
    PROVE  \E p \in Preparers : Waits(p) \/ \E v : Publishes(p, v)
<1>1. PICK p \in Preparers : Prepare(p)
  BY DEF Next
<1> QED
  BY <1>1, ReplayWaits, GiveUpWaits, BeginWaits, FetchWaits, PublishCanonicalPublishes,
     PublishReconciledPublishes, PublishProvisionalPublishes DEF Prepare

LEMMA LedgerInvariant == Spec => []LedgerInv
<1>1. Init => LedgerInv
  <2> SUFFICES ASSUME Init PROVE LedgerInv
    OBVIOUS
  <2>1. StoreInv
    BY FS_EmptySet DEF Init, StoreInv
  <2>2. CallInv
    BY IdleIsLocal DEF Init, CallInv
  <2> QED
    BY <2>1, <2>2 DEF LedgerInv
<1>2. LedgerInv /\ [Next]_vars => LedgerInv'
  <2>1. LedgerInv /\ Next => LedgerInv'
    BY PreparationSteps, WaitStep, PublishStep
  <2>2. LedgerInv /\ UNCHANGED vars => LedgerInv'
    BY DEF vars, LedgerInv, StoreInv, CallInv, Sound, Local, LocalOK, Answers
  <2> QED
    BY <2>1, <2>2
<1> QED
  BY <1>1, <1>2, PTL DEF Spec

(* Versions, caches and the locals of the calls keep their types.          *)
THEOREM PreparationTypeCorrect == Spec => []PreparationTypeOK
<1>1. LedgerInv => PreparationTypeOK
  <2> SUFFICES ASSUME LedgerInv, NEW p \in Preparers
               PROVE  /\ prepares \in 0 .. MaxPrepares
                      /\ call[p].pc \in {"idle", "fetching", "publishing"}
                      /\ call[p].attempts \in 0 .. MaxAttempts - 1 /\ call[p].asked \subseteq Window
                      /\ call[p].pc = "publishing" <=> call[p].answer # NoAnswer
                      /\ cache[p] \subseteq {Identity(v) : v \in versions}
                      /\ call[p].leaf # <<>> => call[p].leaf[1] \in versions
    BY DEF PreparationTypeOK, LedgerInv, CallInv
  <2> QED
    BY LocalKnown DEF LedgerInv, CallInv, Local, LocalOK
<1> QED
  BY <1>1, LedgerInvariant, PTL

(* A reconciled child keeps the evidence of its stored parent.             *)
THEOREM LineageKept == Spec => []LineageKeepsEvidence
<1>1. LedgerInv => LineageKeepsEvidence
  <2> SUFFICES ASSUME LedgerInv, NEW v \in versions, v.parent # <<>>
               PROVE  \E w \in versions : Extends(v, w)
    BY Zenon DEF LineageKeepsEvidence, Extends
  <2> QED
    BY DEF LedgerInv, StoreInv, Sound
<1> QED
  BY <1>1, LedgerInvariant, PTL

(* The store implements the ledger: versions are added, never changed, and *)
(* a child only to a stored provisional.                                   *)
THEOREM LedgerRefined == Spec => ImplementsLedger
<1>1. Init => Ledger!Init
  BY DEF Init, Ledger!Init
<1>2. LedgerInv /\ [Next]_vars => [Ledger!Next]_versions
  <2>1. ASSUME LedgerInv, NEW p \in Preparers, NEW v, Publishes(p, v)
        PROVE  Ledger!Next \/ UNCHANGED versions
    <3>1. CASE ~Stored(v)
      <4>1. versions' = versions \cup {v}
        BY <2>1, <3>1, SaveEffect DEF Publishes
      <4>2. \A w \in versions : Identity(w) # Identity(v)
        BY <3>1 DEF Stored
      <4>3. \A parent \in {v.parent[i] : i \in DOMAIN v.parent} :
                \E w \in versions : Identity(w) = parent /\ w.source = "provisional_mixed"
        <5>1. CASE v.parent = <<>>
          BY <5>1
        <5>2. ASSUME NEW w \in versions, w.source = "provisional_mixed",
                     v.parent = <<Identity(w)>>
              PROVE  <4>3
          <6>1. {v.parent[i] : i \in DOMAIN v.parent} = {Identity(w)}
            BY <5>2
          <6> QED
            BY <5>2, <6>1
        <5> QED
          BY <2>1, <5>1, <5>2 DEF Publishes, Sound, Extends, ChildOf
      <4>4. Ledger!Publish(v)
        BY <4>1, <4>2, <4>3 DEF Ledger!Publish
      <4> QED
        BY <4>1, <4>4 DEF Ledger!Next
    <3>2. CASE Stored(v)
      BY <2>1, <3>2, SaveEffect DEF Publishes
    <3> QED
      BY <3>1, <3>2
  <2>2. ASSUME LedgerInv, Next PROVE Ledger!Next \/ UNCHANGED versions
    BY <2>1, <2>2, PreparationSteps DEF Waits
  <2>3. UNCHANGED vars => UNCHANGED versions
    BY DEF vars
  <2> QED
    BY <2>2, <2>3
<1> QED
  BY <1>1, <1>2, LedgerInvariant, PTL DEF Spec, ImplementsLedger, Ledger!Spec

----------------------------------------------------------------------------

(* What a call that nobody saved behind saw when it began is still so.     *)
Watched(p) ==
    call[p].pc # "idle" /\ ~ call[p].stale =>
    /\ ConsumableVersions = {}
    /\ IF call[p].leaf = <<>> THEN OpenLeaves = {} ELSE OpenLeaves = {call[p].leaf[1]}

(* One version to use, or else one to go on from.                          *)
Settled ==
    /\ \A v, w \in ConsumableVersions : v = w
    /\ ConsumableVersions = {} => \A v, w \in OpenLeaves : v = w

UniqueInv ==
    /\ \A p \in Preparers : Watched(p)
    /\ ~ overlapped /\ ~ repeated => Settled

LEMMA SettledIsClear ==
    ASSUME StoreInv
    PROVE  Settled <=> ~Ambiguous
<1>1. ConsumableVersions \subseteq versions /\ OpenLeaves \subseteq versions
  BY DEF ConsumableVersions, OpenLeaves
<1>2. ASSUME NEW S \in SUBSET versions
      PROVE  (\A v, w \in S : v = w) <=> ~(Cardinality(S) > 1)
  <2>1. IsFiniteSet(S) /\ Cardinality(S) \in Nat
    BY <1>2, FS_Subset, FS_CardinalityType DEF StoreInv
  <2>2. ASSUME \A v, w \in S : v = w PROVE ~(Cardinality(S) > 1)
    <3>1. CASE S = {}
      BY <3>1, FS_EmptySet
    <3>2. ASSUME NEW v \in S PROVE ~(Cardinality(S) > 1)
      <4>1. S = {v}
        BY <2>2
      <4>2. Cardinality(S) = 1
        BY <4>1, FS_Singleton
      <4> QED
        BY <4>2
    <3> QED
      BY <3>1, <3>2
  <2>3. ASSUME NEW v \in S, NEW w \in S, v # w PROVE Cardinality(S) > 1
    <3>1. IsFiniteSet({v}) /\ Cardinality({v}) = 1
      BY FS_Singleton
    <3>2. /\ IsFiniteSet({v} \cup {w})
          /\ Cardinality({v} \cup {w}) = Cardinality({v}) + 1
      BY <2>3, <3>1, FS_AddElement
    <3>3. Cardinality({v} \cup {w}) =< Cardinality(S)
      BY <2>1, <2>3, FS_Subset
    <3> QED
      BY <2>1, <3>1, <3>2, <3>3
  <2> QED
    BY <2>2, <2>3
<1> QED
  BY <1>1, <1>2 DEF Settled, Ambiguous

LEMMA UniquePublish ==
    ASSUME LedgerInv, UniqueInv, NEW p \in Preparers, NEW v, Publishes(p, v)
    PROVE  UniqueInv'
<1>1. Save(p, v)
  BY DEF Publishes
<1>2. ASSUME Stored(v) PROVE UniqueInv'
  <2>1. /\ UNCHANGED versions /\ (~ overlapped' /\ ~ repeated' => ~ overlapped /\ ~ repeated)
        /\ call'[p].pc = "idle"
        /\ \A q \in Preparers \ {p} :
              /\ call'[q].pc = call[q].pc /\ call'[q].leaf = call[q].leaf
              /\ call[q].stale => call'[q].stale \/ call[q].pc = "idle"
    BY <1>1, <1>2, SaveEffect, IdleIsLocal, Zenon DEF Publishes
  <2>2. UNCHANGED <<ConsumableVersions, OpenLeaves>>
    BY <2>1 DEF ConsumableVersions, OpenLeaves
  <2>3. \A q \in Preparers : Watched(q)'
    BY <2>1, <2>2 DEF UniqueInv, Watched
  <2>4. Settled => Settled'
    BY <2>2 DEF Settled
  <2> QED
    BY <2>1, <2>3, <2>4 DEF UniqueInv
<1>3. ASSUME ~Stored(v) PROVE UniqueInv'
  <2>1. /\ versions' = versions \cup {v}
        /\ call'[p].pc = "idle"
        /\ \A q \in Preparers \ {p} :
              call'[q].pc = call[q].pc /\ (call[q].pc # "idle" => call'[q].stale)
    BY <1>1, <1>3, SaveEffect, IdleIsLocal, Zenon
  <2>2. \A q \in Preparers : Watched(q)'
    BY <2>1 DEF Watched
  <2>3. ASSUME ~ overlapped', ~ repeated' PROVE Settled'
    <3>1. overlapped' = (overlapped \/ call[p].stale) /\ call[p].pc = "publishing"
      BY <1>1, SaveEffect DEF Publishes
    <3>2. call[p].pc # "idle" /\ ~ call[p].stale
      BY <2>3, <3>1, Zenon
    <3>3. /\ ConsumableVersions = {}
          /\ IF call[p].leaf = <<>> THEN OpenLeaves = {} ELSE OpenLeaves = {call[p].leaf[1]}
      BY <3>2 DEF UniqueInv, Watched
    <3>4. ConsumableVersions' = {w \in {v} : Consumable(w)}
      BY <2>1, <3>3 DEF ConsumableVersions, Consumable
    <3>5. OpenLeaves' \subseteq OpenLeaves \cup {v}
      BY <2>1 DEF OpenLeaves
    <3>6. CASE call[p].leaf = <<>>
      BY <3>3, <3>4, <3>5, <3>6 DEF Settled
    <3>7. CASE /\ v.source \in {"provisional_mixed", "reconciled"}
               /\ v.parent = <<Identity(call[p].leaf[1])>>
               /\ call[p].leaf # <<>>
      <4>1. CASE v.source = "provisional_mixed"
        <5>1. v \in versions' /\ OpenLeaves \subseteq {call[p].leaf[1]}
          BY <2>1, <3>3, <3>7
        <5>2. call[p].leaf[1] \notin OpenLeaves'
          BY <3>7, <4>1, <5>1 DEF OpenLeaves
        <5> QED
          BY <3>4, <3>5, <5>1, <5>2 DEF Settled
      <4>2. CASE v.source = "reconciled"
        BY <3>4, <4>2 DEF Settled, Consumable
      <4> QED
        BY <3>7, <4>1, <4>2
    <3> QED
      BY <1>3, <2>3, <3>6, <3>7 DEF Publishes
  <2> QED
    BY <2>2, <2>3 DEF UniqueInv
<1> QED
  BY <1>2, <1>3

LEMMA UniqueWait ==
    ASSUME LedgerInv, UniqueInv, NEW p \in Preparers, Waits(p)
    PROVE  UniqueInv'
<1>1. /\ ConsumableVersions' = ConsumableVersions /\ OpenLeaves' = OpenLeaves
      /\ overlapped' = overlapped /\ repeated' = repeated
  BY DEF Waits, ConsumableVersions, OpenLeaves
<1>2. Settled => Settled'
  BY <1>1 DEF Settled
<1>3. \A q \in Preparers \ {p} : Watched(q)'
  BY <1>1 DEF UniqueInv, Watched, Waits
<1>4. Watched(p)'
  <2>1. CASE call'[p].pc = "idle"
    BY <2>1 DEF Watched
  <2>2. CASE /\ call[p].pc # "idle" /\ call'[p].leaf = call[p].leaf
             /\ call'[p].stale = call[p].stale
    BY <1>1, <2>2 DEF UniqueInv, Watched
  <2>3. CASE /\ ~Ambiguous /\ ConsumableVersions = {}
             /\ \/ OpenLeaves = {} /\ call'[p].leaf = <<>>
                \/ call'[p].leaf # <<>> /\ call'[p].leaf[1] \in OpenLeaves
    <3>1. \A v, w \in OpenLeaves : v = w
      BY <2>3, SettledIsClear DEF LedgerInv, Settled
    <3> QED
      BY <1>1, <2>3, <3>1 DEF Watched
  <2> QED
    BY <2>1, <2>2, <2>3 DEF Waits
<1> QED
  BY <1>1, <1>2, <1>3, <1>4 DEF UniqueInv

LEMMA UniqueInvariant == Spec => []UniqueInv
<1>1. Init => UniqueInv
  BY DEF Init, UniqueInv, Watched, Settled, ConsumableVersions, OpenLeaves, Idle
<1>2. LedgerInv /\ UniqueInv /\ [Next]_vars => UniqueInv'
  <2>1. LedgerInv /\ UniqueInv /\ Next => UniqueInv'
    BY PreparationSteps, UniqueWait, UniquePublish
  <2>2. UniqueInv /\ UNCHANGED vars => UniqueInv'
    <3> SUFFICES ASSUME UniqueInv, UNCHANGED vars PROVE UniqueInv'
      OBVIOUS
    <3>1. /\ ConsumableVersions' = ConsumableVersions /\ OpenLeaves' = OpenLeaves
          /\ call' = call
      BY DEF vars, ConsumableVersions, OpenLeaves
    <3>2. overlapped' = overlapped /\ repeated' = repeated
      BY DEF vars
    <3>3. \A p \in Preparers : Watched(p)'
      BY <3>1 DEF UniqueInv, Watched
    <3>4. Settled => Settled'
      BY <3>1 DEF Settled
    <3> QED
      BY <3>2, <3>3, <3>4, Zenon DEF UniqueInv
  <2> QED
    BY <2>1, <2>2
<1> QED
  BY <1>1, <1>2, LedgerInvariant, PTL DEF Spec

(* The store is never ambiguous unless a preparer saved behind another's   *)
(* back or built a second provisional beside an open one.                  *)
THEOREM AmbiguityExplained == Spec => []NeverAmbiguous
<1>1. LedgerInv /\ UniqueInv => NeverAmbiguous
  BY SettledIsClear DEF LedgerInv, UniqueInv, NeverAmbiguous
<1> QED
  BY <1>1, LedgerInvariant, UniqueInvariant, PTL

----------------------------------------------------------------------------

(* The dates of the rows a version selects, each by one row.               *)
CoveredDates(v) == {r.date : r \in Selected(v.rows)}

Unrepeated(rows) == \A r, s \in Selected(rows) : r.date = s.date => r = s

(* A version whose counts and states are those of its rows.  The rows that *)
(* E.SUN still answers for are not in doubt: none has been validated.      *)
Truthful(v) ==
    /\ \A r \in v.rows : r.role = "canonical" => r.run \in TwseRuns
    /\ Unrepeated(v.rows)
    /\ CoveredDates(v) # {} /\ v.required = Cardinality(CoveredDates(v))
    /\ \A r \in InRole(v.rows, "validation") : r.date \notin SupplementalDates(v)
    /\ v.discrepancies = Cardinality(DiscrepantDates(v.rows))
    /\ v.source = "reconciled" =>
         (v.reconciliation = "reconciled_discrepant" <=> DiscrepantDates(v.rows) # {})
    /\ LegalState(v) /\ v.parent # <<Identity(v)>>

(* Its E.SUN rows come from a payload without fault, beside a TWSE failure. *)
Justified(v) ==
    v.source # "canonical_complete" =>
       /\ \A r \in v.rows : r.run \in EsunRuns => Artifact(r.run, "none") \in v.artifacts
       /\ \E a \in v.artifacts : a.run \in TwseRuns /\ a.content \in Recoverable

(* Only a TWSE run finds rows or brings verified evidence of a failure.    *)
Honest(local) ==
    local.pc = "publishing" =>
      /\ local.answer.requested # {}
      /\ local.answer.found # {} \/ local.answer.evidence = "verified"
           => local.answer.run \in TwseRuns

EvidenceInv ==
    /\ \A v \in versions : Truthful(v) /\ Justified(v)
    /\ \A p \in Preparers : Honest(call[p])

(* A call that goes on from no version asks for the whole window.          *)
Wide(local) ==
    local.leaf = <<>> =>
      /\ local.asked \in {{}, Window}
      /\ local.pc = "publishing" /\ (Complete(local.answer) \/ local.answer.evidence = "verified")
           => local.answer.requested = Window

CoverInv ==
    /\ ~narrowed /\ ~repeated => \A v \in versions : CoveredDates(v) = Window
    /\ ~narrowed => \A p \in Preparers : Wide(call[p])

(* A payload that was asked to hold some dates holds them in order.        *)
LEMMA PayloadRows ==
    ASSUME NEW dates \in SUBSET Window, dates # {}, NEW run, NEW shape
    PROVE  /\ 1 \in DOMAIN PayloadOf(dates, run, shape)
           /\ DOMAIN PayloadOf(dates, run, shape) = 1 .. Cardinality(dates)
           /\ PayloadOf(dates, run, shape) # <<>>
           /\ shape # "none" => IsPayload(PayloadOf(dates, run, shape))
           /\ \A i \in DOMAIN PayloadOf(dates, run, shape) :
                 /\ PayloadOf(dates, run, shape)[i].shape = shape
                 /\ PayloadOf(dates, run, shape)[i].symbol = "absent"
                 /\ PayloadOf(dates, run, shape)[i].date \in dates
<1> DEFINE n == Cardinality(dates)
           order == CHOOSE s \in [1 .. n -> dates] : \A i, j \in DOMAIN s : i < j => s[i] < s[j]
<1>1. IsFiniteSet(dates) /\ dates \in SUBSET Nat /\ n \in Nat
  <2>1. IsFiniteSet(dates)
    BY FS_Subset
  <2> QED
    BY <2>1, FS_CardinalityType
<1>2. n # 0
  BY <1>1, FS_EmptySet
<1>3. \E s \in [1 .. n -> dates] : \A i, j \in DOMAIN s : i < j => s[i] < s[j]
  BY <1>1, OrderExists DEF InOrder
<1>4. order \in [1 .. n -> dates]
  BY <1>3
<1>5. PayloadOf(dates, run, shape) =
        [i \in DOMAIN order |-> [date |-> order[i], symbol |-> "absent", shape |-> shape,
                                 price |-> Close[run][order[i]]]]
  BY DEF PayloadOf
<1> HIDE DEF n, order
<1>6. 1 \in 1 .. n
  BY <1>1, <1>2
<1> DEFINE rows == PayloadOf(dates, run, shape)
<1>7. /\ DOMAIN rows = 1 .. n
      /\ \A i \in 1 .. n : rows[i].shape = shape /\ rows[i].symbol = "absent"
                           /\ rows[i].date \in dates
  BY <1>4, <1>5
<1>10. rows = [i \in 1 .. n |-> rows[i]]
  BY <1>4, <1>5
<1> HIDE DEF rows
<1>11. ASSUME shape # "none" PROVE IsPayload(rows)
  <2> DEFINE S == {rows[i] : i \in DOMAIN rows}
  <2>1. rows \in [1 .. n -> S]
    BY <1>7, <1>10
  <2> HIDE DEF S
  <2>2. \A k \in Nat : [1 .. k -> S] \subseteq Seq(S)
    OBVIOUS
  <2>3. rows \in Seq(S)
    BY <1>1, <2>1, <2>2, Zenon
  <2>4. \A i \in DOMAIN rows : rows[i].date \in Nat /\ rows[i].shape # "none"
    BY <1>1, <1>7, <1>11
  <2> QED
    BY <2>3, <2>4 DEF S, IsPayload
<1>8. rows # <<>>
  <2>1. DOMAIN <<>> = {}
    OBVIOUS
  <2> QED
    BY <1>6, <1>7, <2>1
<1>9. DOMAIN rows = 1 .. Cardinality(dates)
  BY <1>7 DEF n
<1> QED
  BY <1>6, <1>7, <1>8, <1>9, <1>11 DEF rows



(* The candidate that _prepare_symbol makes of two answers.                *)
LEMMA CandidateTyped ==
    ASSUME NEW answer \in Answer, answer.requested # {}, NEW esun \in EsunAnswers
    PROVE  CandidateInput(Candidate(answer, esun))
<1> DEFINE c == Candidate(answer, esun)
           fields == {IdentityFields[i] : i \in DOMAIN IdentityFields}
<1>1. c.start \in Nat \ {Undated}
  <2>1. answer.requested \in SUBSET Nat /\ answer.requested \subseteq Window
    BY DEF Answer
  <2>2. \E x \in answer.requested : \A y \in answer.requested : x <= y
    BY <2>1, LeastExists
  <2>3. Min(answer.requested) \in answer.requested
    BY <2>2 DEF Min
  <2>4. c.start = Min(answer.requested)
    BY DEF Candidate
  <2> QED
    BY <2>1, <2>3, <2>4 DEF Undated
<1>2. c.target \in Nat
  <2>1. c.target = Target
    BY DEF Candidate
  <2> QED
    BY <2>1, TargetInWindow
<1>3. IsInstrument(Instrument) /\ IsInstrument([Instrument EXCEPT !["market"] = "other"])
  <2>1. Instrument = [f \in fields |-> "requested"]
    BY DEF Instrument
  <2> HIDE DEF fields
  <2>2. Instrument = [f \in fields |-> Instrument[f]]
    BY <2>1
  <2>3. DOMAIN [Instrument EXCEPT !["market"] = "other"] = fields
    BY <2>1
  <2>4. [Instrument EXCEPT !["market"] = "other"] =
           [f \in fields |-> [Instrument EXCEPT !["market"] = "other"][f]]
    BY <2>1
  <2> QED
    BY <2>2, <2>4 DEF IsInstrument, fields
<1>4. /\ c.requested = Instrument
      /\ c.returned \in {Instrument, [Instrument EXCEPT !["market"] = "other"]}
  BY DEF Candidate
<1>5. ASSUME NEW rows \in {c.twse, c.esun}
      PROVE  IsPayload(rows)
  <2>1. CASE rows = <<>>
    BY <2>1 DEF IsPayload
  <2>2. ASSUME NEW dates \in SUBSET Window, dates # {}, NEW run,
               NEW shape \in {"good", "malformed_payload"}, rows = PayloadOf(dates, run, shape)
        PROVE  IsPayload(rows)
    BY <2>2, PayloadRows
  <2>3. \/ rows = <<>>
        \/ answer.found # {} /\ rows = PayloadOf(answer.found, answer.run, "good")
        \/ /\ esun.found # {}
           /\ \E shape \in {"good", "malformed_payload"} :
                 rows = PayloadOf(esun.found, esun.run, shape)
    <3>1. c.twse = IF answer.found = {} THEN <<>> ELSE PayloadOf(answer.found, answer.run, "good")
      BY DEF Candidate
    <3>2. c.esun = IF esun.found = {} THEN <<>>
                   ELSE PayloadOf(esun.found, esun.run,
                           IF esun.fault = "malformed" THEN "malformed_payload" ELSE "good")
      BY DEF Candidate
    <3> HIDE DEF c
    <3> QED
      BY <3>1, <3>2
  <2>4. answer.found \in SUBSET Window /\ esun.found \in SUBSET Window
    BY DEF Answer, EsunAnswers
  <2> QED
    BY <2>1, <2>2, <2>3, <2>4
<1> HIDE DEF c
<1> QED
  BY <1>1, <1>2, <1>3, <1>4, <1>5 DEF CandidateInput, c

(* A supplement with a fault never gets through.                           *)
LEMMA FaultRefused ==
    ASSUME NEW answer \in Answer, answer.requested # {}, NEW esun \in EsunAnswers,
           ValidCandidate(Candidate(answer, esun)),
           Evaluate(Candidate(answer, esun)).eligible
    PROVE  esun.fault = "none"
<1> DEFINE c == Candidate(answer, esun)
<1>1. SafeSupplement(c)
  <2>1. DecidesSafely(c)
    BY CandidateTyped, DecisionSafe
  <2> QED
    BY <2>1 DEF DecidesSafely
<1>2. ASSUME esun.fault = "identity" PROVE FALSE
  <2>1. c.requested = Instrument /\ c.returned = [Instrument EXCEPT !["market"] = "other"]
    BY <1>2 DEF Candidate
  <2>2. "market" \in {IdentityFields[i] : i \in DOMAIN IdentityFields}
    <3>1. DOMAIN IdentityFields = 1 .. 5 /\ IdentityFields[2] = "market"
      BY DEF IdentityFields
    <3> QED
      BY <3>1
  <2>3. Instrument["market"] = "requested" /\ c.returned["market"] = "other"
    BY <2>1, <2>2 DEF Instrument
  <2> QED
    BY <1>1, <2>1, <2>3 DEF SafeSupplement
<1>3. ASSUME esun.fault = "boundary" PROVE FALSE
  <2>1. c.boundary = {}
    BY <1>3 DEF Candidate
  <2> QED
    BY <1>1, <2>1 DEF SafeSupplement, BoundaryPasses, SecurityInvariants
<1>4. ASSUME esun.fault = "malformed" PROVE FALSE
  <2>1. c.esun = IF esun.found = {} THEN <<>>
                 ELSE PayloadOf(esun.found, esun.run, "malformed_payload")
    BY <1>4 DEF Candidate
  <2>2. c.esun # <<>>
    <3>1. RowDates(c.esun) # {}
      BY <1>1 DEF SafeSupplement
    <3> QED
      BY <3>1 DEF RowDates
  <2>3. esun.found # {} /\ esun.found \in SUBSET Window
    BY <2>1, <2>2 DEF EsunAnswers
  <2>4. 1 \in DOMAIN c.esun /\ c.esun[1].shape = "malformed_payload"
    <3> DEFINE payload == PayloadOf(esun.found, esun.run, "malformed_payload")
    <3>1. 1 \in DOMAIN payload
      BY <2>3, PayloadRows
    <3>3. \A i \in DOMAIN payload : payload[i].shape = "malformed_payload"
      BY <2>3, PayloadRows
    <3>2. c.esun = payload
      BY <2>1, <2>3
    <3> HIDE DEF payload, c
    <3> QED
      BY <3>1, <3>2, <3>3
  <2>5. WellFormed(c, c.esun)
    BY <1>1 DEF SafeSupplement
  <2> QED
    BY <2>4, <2>5 DEF WellFormed
<1>5. esun.fault \in {"none", "identity", "boundary", "malformed"}
  BY DEF EsunAnswers, Faults
<1> QED
  BY <1>2, <1>3, <1>4, <1>5

(* Rows that show a date once are as many as their dates.                  *)
LEMMA RowsPerDate ==
    ASSUME NEW rows, NEW dates \in SUBSET Window, {r.date : r \in rows} = dates,
           \A r, s \in rows : r.date = s.date => r = s
    PROVE  IsFiniteSet(rows) /\ Cardinality(rows) = Cardinality(dates)
<1> DEFINE f == [r \in rows |-> r.date]
<1>1. f \in Surjection(rows, dates) /\ f \in Injection(rows, dates)
  BY DEF Surjection, Injection, IsInjective
<1>2. IsFiniteSet(dates)
  BY FS_Subset
<1> QED
  BY <1>1, <1>2, FS_Injection

(* The counts of a version add up to the dates it covers.                  *)
LEMMA CountsAddUp ==
    ASSUME NEW v, v.rows \in SUBSET EvidenceRow, Unrepeated(v.rows)
    PROVE  /\ CanonicalCount(v) \in Nat /\ SupplementalCount(v) \in Nat
           /\ CanonicalCount(v) + SupplementalCount(v) = Cardinality(CoveredDates(v))
           /\ SupplementalCount(v) > 0 <=> SupplementalDates(v) # {}
           /\ SupplementalCount(v) = 0 <=> SupplementalDates(v) = {}
           /\ Cardinality(CoveredDates(v)) > 0 <=> CoveredDates(v) # {}
<1> DEFINE C == InRole(v.rows, "canonical")
           S == InRole(v.rows, "supplemental")
<1>1. CoveredDates(v) \in SUBSET Window
  BY DEF CoveredDates, Selected, EvidenceRow
<1>2. IsFiniteSet(Selected(v.rows)) /\ Cardinality(Selected(v.rows)) = Cardinality(CoveredDates(v))
  BY <1>1, RowsPerDate DEF CoveredDates, Unrepeated
<1>3. Selected(v.rows) = C \cup S /\ C \cap S = {}
  BY DEF Selected, InRole, EvidenceRow, Roles
<1>4. C \in SUBSET Selected(v.rows) /\ S \in SUBSET Selected(v.rows)
  BY <1>3
<1> HIDE DEF C, S
<1>5. /\ IsFiniteSet(C) /\ IsFiniteSet(S) /\ Cardinality(C) \in Nat /\ Cardinality(S) \in Nat
      /\ Cardinality(S) = 0 <=> S = {}
  BY <1>2, <1>4, FS_Subset, FS_CardinalityType, FS_EmptySet
<1>6. Cardinality(C \cup S) = Cardinality(C) + Cardinality(S)
  <2>1. Cardinality(C \cup S) = Cardinality(C) + Cardinality(S) - Cardinality(C \cap S)
    BY <1>5, FS_Union
  <2>2. Cardinality(C \cap S) = 0
    BY <1>3, FS_EmptySet
  <2> QED
    BY <1>5, <2>1, <2>2
<1>7. CanonicalCount(v) = Cardinality(C) /\ SupplementalCount(v) = Cardinality(S)
  BY DEF CanonicalCount, SupplementalCount, C, S
<1>8. SupplementalDates(v) = {} <=> S = {}
  BY DEF SupplementalDates, DatesIn, S
<1>9. Cardinality(CoveredDates(v)) > 0 <=> CoveredDates(v) # {}
  <2>1. IsFiniteSet(CoveredDates(v))
    BY <1>1, FS_Subset
  <2>2. Cardinality(CoveredDates(v)) \in Nat
        /\ (Cardinality(CoveredDates(v)) = 0 <=> CoveredDates(v) = {})
    BY <2>1, FS_CardinalityType, FS_EmptySet
  <2> QED
    BY <2>2
<1> QED
  BY <1>2, <1>3, <1>5, <1>6, <1>7, <1>8, <1>9

LEMMA RowsOfDates ==
    ASSUME NEW dates, NEW role, NEW run
    PROVE  /\ \A r \in RowsOf(dates, role, run) : r.date \in dates /\ r.role = role /\ r.run = run
           /\ \A d \in dates : \E r \in RowsOf(dates, role, run) : r.date = d
           /\ \A r, s \in RowsOf(dates, role, run) : r.date = s.date => r = s
<1>1. \A d : /\ Row(d, role, run).date = d /\ Row(d, role, run).role = role
            /\ Row(d, role, run).run = run
  BY DEF Row
<1>2. \A r \in RowsOf(dates, role, run) : \E d \in dates : r = Row(d, role, run)
  BY DEF RowsOf
<1>3. \A d \in dates : Row(d, role, run) \in RowsOf(dates, role, run)
  BY DEF RowsOf
<1> QED
  BY <1>1, <1>2, <1>3

(* A canonical version covers what was asked, with TWSE rows.              *)
LEMMA CanonicalTruthful ==
    ASSUME LedgerInv, NEW answer \in Answer, Complete(answer), answer.requested # {},
           answer.run \in TwseRuns, NEW validation \in SUBSET EsunAnswers
    PROVE  LET v == CanonicalFrom(answer, validation)
           IN  Truthful(v) /\ Justified(v) /\ CoveredDates(v) = answer.requested
<1> DEFINE canon == RowsOf(answer.found, "canonical", answer.run)
           seen == UNION {RowsOf(e.found, "validation", e.run) :
                             e \in {x \in validation : x.fault = "none"}}
           v == CanonicalFrom(answer, validation)
<1>1. /\ v.rows = canon \cup seen /\ v.source = "canonical_complete" /\ v.parent = <<>>
      /\ v.authority = "complete" /\ v.reconciliation = "not_applicable"
      /\ v.required = Cardinality(answer.requested)
      /\ v.discrepancies = Cardinality(DiscrepantDates(v.rows))
  BY DEF CanonicalFrom, CanonicalVersion
<1>2. /\ \A r \in canon : r.date \in answer.requested /\ r.role = "canonical" /\ r.run \in TwseRuns
      /\ \A d \in answer.requested : \E r \in canon : r.date = d
      /\ \A r, s \in canon : r.date = s.date => r = s
  BY RowsOfDates DEF Complete
<1>3. \A r \in seen : r.role = "validation"
  <2> SUFFICES ASSUME NEW r \in seen PROVE r.role = "validation"
    OBVIOUS
  <2>1. PICK e \in validation : r \in RowsOf(e.found, "validation", e.run)
    OBVIOUS
  <2> QED
    BY <2>1, RowsOfDates
<1>4. v.rows \in SUBSET EvidenceRow
  BY CanonicalSound DEF Sound
<1> HIDE DEF v, canon, seen
<1>5. Selected(v.rows) = canon
  BY <1>1, <1>2, <1>3 DEF Selected
<1>6. CoveredDates(v) = answer.requested
  BY <1>2, <1>5 DEF CoveredDates
<1>7. Unrepeated(v.rows)
  BY <1>2, <1>5 DEF Unrepeated
<1>8. SupplementalDates(v) = {}
  BY <1>1, <1>2, <1>3 DEF SupplementalDates, DatesIn, InRole
<1>9. \A r \in v.rows : r.role = "canonical" => r.run \in TwseRuns
  BY <1>1, <1>2, <1>3
<1>10. LegalState(v)
  BY <1>1, <1>4, <1>7, <1>8, CountsAddUp DEF LegalState
<1>11. Truthful(v)
  BY <1>1, <1>6, <1>7, <1>8, <1>9, <1>10 DEF Truthful
<1> QED
  BY <1>1, <1>6, <1>11 DEF Justified, v

(* A provisional version covers what was asked, and its E.SUN rows come    *)
(* from the payload that was let in.                                       *)
LEMMA ProvisionalTruthful ==
    ASSUME LedgerInv, NEW answer \in Answer, answer.found \subseteq answer.requested,
           answer.run \in TwseRuns, answer.failure \in Recoverable,
           NEW esun \in EsunAnswers, esun.fault = "none",
           NEW selected, selected = answer.requested \ answer.found, selected # {}
    PROVE  LET v == ProvisionalFrom(answer, esun, selected)
           IN  Truthful(v) /\ Justified(v) /\ CoveredDates(v) = answer.requested
<1> DEFINE canon == RowsOf(answer.found, "canonical", answer.run)
           filled == RowsOf(selected, "supplemental", esun.run)
           v == ProvisionalFrom(answer, esun, selected)
<1>1. /\ v.rows = canon \cup filled /\ v.source = "provisional_mixed" /\ v.parent = <<>>
      /\ v.authority = "incomplete" /\ v.reconciliation = "pending"
      /\ v.required = Cardinality(answer.requested) /\ v.discrepancies = 0
      /\ v.artifacts = {Artifact(answer.run, answer.failure), Artifact(esun.run, esun.fault)}
  BY DEF ProvisionalFrom, ProvisionalVersion
<1>2. /\ \A r \in canon : r.date \in answer.found /\ r.role = "canonical" /\ r.run = answer.run
      /\ \A d \in answer.found : \E r \in canon : r.date = d
      /\ \A r, s \in canon : r.date = s.date => r = s
  BY RowsOfDates
<1>3. /\ \A r \in filled : r.date \in selected /\ r.role = "supplemental" /\ r.run = esun.run
      /\ \A d \in selected : \E r \in filled : r.date = d
      /\ \A r, s \in filled : r.date = s.date => r = s
  <2>1. \A r \in filled : r.date \in selected /\ r.role = "supplemental" /\ r.run = esun.run
    BY RowsOfDates
  <2>2. \A d \in selected : \E r \in filled : r.date = d
    BY RowsOfDates
  <2>3. \A r, s \in filled : r.date = s.date => r = s
    BY RowsOfDates
  <2> QED
    BY <2>1, <2>2, <2>3
<1>4. v.rows \in SUBSET EvidenceRow
  <2>1. selected \in SUBSET Window
    BY DEF Answer
  <2> QED
    BY <2>1, ProvisionalSound DEF Sound
<1> HIDE DEF v, canon, filled
<1>5. Selected(v.rows) = canon \cup filled
  BY <1>1, <1>2, <1>3 DEF Selected
<1>6. CoveredDates(v) = answer.requested
  BY <1>2, <1>3, <1>5 DEF CoveredDates
<1>7. Unrepeated(v.rows)
  BY <1>2, <1>3, <1>5 DEF Unrepeated
<1>8. /\ InRole(v.rows, "validation") = {} /\ SupplementalDates(v) # {}
      /\ answer.requested # {}
  BY <1>1, <1>2, <1>3 DEF SupplementalDates, DatesIn, InRole
<1>9. \A r \in v.rows : r.role = "canonical" => r.run \in TwseRuns
  BY <1>1, <1>2, <1>3
<1>10. LegalState(v)
  BY <1>1, <1>4, <1>7, <1>8, CountsAddUp DEF LegalState
<1>11. v.discrepancies = Cardinality(DiscrepantDates(v.rows))
  <2>1. DiscrepantDates(v.rows) = {}
    BY <1>8 DEF DiscrepantDates
  <2> QED
    BY <1>1, <2>1, FS_EmptySet
<1>12. Truthful(v)
  <2>1. v.parent # <<Identity(v)>> /\ v.source # "reconciled"
    BY <1>1
  <2>2. \A r \in InRole(v.rows, "validation") : r.date \notin SupplementalDates(v)
    BY <1>8
  <2>3. CoveredDates(v) # {} /\ v.required = Cardinality(CoveredDates(v))
    BY <1>1, <1>6, <1>8
  <2> QED
    BY <1>7, <1>9, <1>10, <1>11, <2>1, <2>2, <2>3, Zenon DEF Truthful
<1>13. Justified(v)
  <2>1. answer.run \notin EsunRuns
    OBVIOUS
  <2>2. \A r \in v.rows : r.run \in EsunRuns => r.run = esun.run
    BY <1>1, <1>2, <1>3, <2>1
  <2>3. Artifact(answer.run, answer.failure).run \in TwseRuns
        /\ Artifact(answer.run, answer.failure).content \in Recoverable
    BY DEF Artifact
  <2> QED
    BY <1>1, <2>2, <2>3 DEF Justified
<1> QED
  BY <1>6, <1>12, <1>13 DEF v

(* The rows of a reconciled version: those of its parent, the E.SUN rows   *)
(* of the dates D kept for validation, and the late TWSE rows.             *)
Superseded(rows, D, late, new) ==
    /\ \A x \in new : x.role # "validation" =>
          \/ x \in late
          \/ x \in rows /\ (x.role = "supplemental" => x.date \notin D)
    /\ \A x \in new : x.role = "validation" =>
          \/ x \in rows
          \/ \E r \in rows : /\ r.role = "supplemental" /\ r.date \in D
                             /\ x.date = r.date /\ x.run = r.run
    /\ \A r \in rows : ~ (r.role = "supplemental" /\ r.date \in D) => r \in new
    /\ \A r \in rows : r.role = "supplemental" /\ r.date \in D =>
          \E x \in new : x.role = "validation" /\ x.date = r.date /\ x.run = r.run
    /\ late \subseteq new
    /\ \A x \in new : x \in late \/ \E r \in rows : r.date = x.date /\ r.run = x.run

LEMMA ReconciledRows ==
    ASSUME NEW rows \in SUBSET EvidenceRow, NEW D, NEW late,
           \A r \in late : r.role = "canonical"
    PROVE  Superseded(rows, D, late, Demoted(rows, D) \cup late)
<1>1. \A r \in rows :
         /\ [r EXCEPT !.role = "validation"].date = r.date
         /\ [r EXCEPT !.role = "validation"].run = r.run
         /\ [r EXCEPT !.role = "validation"].role = "validation"
  BY DEF EvidenceRow, Roles
<1>2. ASSUME NEW x \in Demoted(rows, D)
      PROVE  \/ x \in rows /\ ~ (x.role = "supplemental" /\ x.date \in D)
             \/ \E r \in rows : /\ r.role = "supplemental" /\ r.date \in D
                                /\ x.role = "validation" /\ x.date = r.date /\ x.run = r.run
  <2>1. PICK r \in rows : x = IF r.role = "supplemental" /\ r.date \in D
                              THEN [r EXCEPT !.role = "validation"] ELSE r
    BY DEF Demoted
  <2> QED
    BY <1>1, <2>1
<1>3. \A r \in rows : ~ (r.role = "supplemental" /\ r.date \in D) => r \in Demoted(rows, D)
  BY DEF Demoted
<1>4. \A r \in rows : r.role = "supplemental" /\ r.date \in D =>
         [r EXCEPT !.role = "validation"] \in Demoted(rows, D)
  BY DEF Demoted
<1> QED
  BY <1>1, <1>2, <1>3, <1>4 DEF Superseded

(* The discrepancies of a reconciled version: those of its parent, and one *)
(* for each E.SUN row that a late TWSE row contradicts.                    *)
LEMMA DiscrepanciesGrow ==
    ASSUME NEW leaf, leaf.rows \in SUBSET EvidenceRow, Unrepeated(leaf.rows),
           \A r \in InRole(leaf.rows, "validation") : r.date \notin SupplementalDates(leaf),
           NEW D \in SUBSET SupplementalDates(leaf), NEW run,
           NEW late, late = RowsOf(D, "canonical", run),
           NEW new, Superseded(leaf.rows, D, late, new)
    PROVE  /\ DiscrepantDates(new) =
                 DiscrepantDates(leaf.rows) \cup {r.date : r \in DiscrepantWith(leaf, late)}
           /\ DiscrepantDates(leaf.rows) \cap {r.date : r \in DiscrepantWith(leaf, late)} = {}
           /\ IsFiniteSet(DiscrepantWith(leaf, late)) /\ IsFiniteSet(DiscrepantDates(leaf.rows))
           /\ Cardinality(DiscrepantWith(leaf, late)) =
                 Cardinality({r.date : r \in DiscrepantWith(leaf, late)})
<1> DEFINE W == DiscrepantWith(leaf, late)
           shown == {r.date : r \in W}
           old == DiscrepantDates(leaf.rows)
<1>1. /\ \A r \in late : r.date \in D /\ r.role = "canonical"
      /\ \A d \in D : \E r \in late : r.date = d
  BY RowsOfDates
<1>2. \A d : d \in SupplementalDates(leaf) <=>
         \E r \in leaf.rows : r.role = "supplemental" /\ r.date = d
  BY DEF SupplementalDates, DatesIn, InRole
<1>3. \A r \in W : /\ r \in leaf.rows /\ r.role = "supplemental" /\ r.date \in D
                   /\ \E t \in late : t.date = r.date /\ ~SameOhlcv(r, t)
  BY <1>1 DEF DiscrepantWith, InRole
<1>4. \A r \in leaf.rows : \A t \in late :
         r.role = "supplemental" /\ t.date = r.date /\ ~SameOhlcv(r, t) => r \in W
  BY DEF DiscrepantWith, InRole
<1>5. \A r, s \in leaf.rows : r.role # "validation" /\ s.role # "validation" /\ r.date = s.date => r = s
  BY DEF Unrepeated, Selected
<1>6. shown \in SUBSET Window /\ old \in SUBSET Window
  BY <1>3 DEF EvidenceRow, DiscrepantDates, InRole
<1>7. \A d : d \in old <=>
         \E x, y \in leaf.rows : /\ x.role = "validation" /\ y.role = "canonical"
                                 /\ x.date = d /\ y.date = d /\ ~SameOhlcv(x, y)
  BY DEF DiscrepantDates, InRole
<1>8. \A d : d \in DiscrepantDates(new) <=>
         \E x, y \in new : /\ x.role = "validation" /\ y.role = "canonical"
                           /\ x.date = d /\ y.date = d /\ ~SameOhlcv(x, y)
  BY DEF DiscrepantDates, InRole
<1>18. ASSUME NEW x \in new, NEW y \in new, x.role = "validation", y.role = "canonical",
              x.date = y.date, ~SameOhlcv(x, y)
       PROVE  x.date \in DiscrepantDates(new)
  BY <1>8, <1>18
<1> HIDE DEF W, old
<1>9. \A d \in old : d \notin SupplementalDates(leaf)
  BY <1>7 DEF InRole
<1>10. old \cap shown = {}
  BY <1>2, <1>3, <1>9
<1>11. ASSUME NEW r, NEW s, NEW t, r.date = s.date, r.run = s.run
       PROVE  SameOhlcv(r, t) <=> SameOhlcv(s, t)
  BY <1>11 DEF SameOhlcv
<1>12. /\ \A x \in new : x.role # "validation" =>
             \/ x \in late
             \/ x \in leaf.rows /\ (x.role = "supplemental" => x.date \notin D)
       /\ \A x \in new : x.role = "validation" =>
             \/ x \in leaf.rows
             \/ \E r \in leaf.rows : /\ r.role = "supplemental" /\ r.date \in D
                                     /\ x.date = r.date /\ x.run = r.run
       /\ \A r \in leaf.rows : ~ (r.role = "supplemental" /\ r.date \in D) => r \in new
       /\ \A r \in leaf.rows : r.role = "supplemental" /\ r.date \in D =>
             \E x \in new : x.role = "validation" /\ x.date = r.date /\ x.run = r.run
       /\ late \subseteq new
  BY DEF Superseded
<1>13. ASSUME NEW d \in DiscrepantDates(new) PROVE d \in old \cup shown
  <2>1. PICK x \in new, y \in new : /\ x.role = "validation" /\ y.role = "canonical"
                                    /\ x.date = d /\ y.date = d /\ ~SameOhlcv(x, y)
    BY <1>8, <1>13
  <2>2. y \in late \/ y \in leaf.rows
    BY <1>12, <2>1
  <2>3. CASE x \in leaf.rows
    <3>1. d \notin SupplementalDates(leaf)
      BY <2>1, <2>3 DEF InRole
    <3>2. y \in leaf.rows
      BY <1>1, <2>1, <2>2, <3>1
    <3> QED
      BY <1>7, <2>1, <2>3, <3>2
  <2>4. ASSUME NEW r \in leaf.rows, r.role = "supplemental", r.date \in D,
               x.date = r.date, x.run = r.run
        PROVE  d \in shown
    <3>1. y \in late
      BY <1>5, <2>1, <2>2, <2>4
    <3>2. r \in W
      BY <1>4, <1>11, <2>1, <2>4, <3>1
    <3> QED
      BY <2>1, <2>4, <3>2
  <2> QED
    BY <1>12, <2>1, <2>3, <2>4
<1>14. ASSUME NEW d \in old PROVE d \in DiscrepantDates(new)
  <2>1. PICK x \in leaf.rows, y \in leaf.rows :
               /\ x.role = "validation" /\ y.role = "canonical"
               /\ x.date = d /\ y.date = d /\ ~SameOhlcv(x, y)
    BY <1>7, <1>14
  <2>2. x \in new /\ y \in new
    BY <1>12, <2>1
  <2> QED
    BY <1>18, <2>1, <2>2
<1>15. ASSUME NEW d \in shown PROVE d \in DiscrepantDates(new)
  <2>1. PICK r \in W : r.date = d
    BY <1>15
  <2>2. PICK t \in late : t.date = r.date /\ ~SameOhlcv(r, t)
    BY <1>3, <2>1
  <2>3. PICK x \in new : x.role = "validation" /\ x.date = r.date /\ x.run = r.run
    BY <1>3, <1>12, <2>1
  <2>4. ~SameOhlcv(x, t) /\ t \in new /\ t.role = "canonical"
    BY <1>1, <1>11, <1>12, <2>2, <2>3
  <2> QED
    BY <1>18, <2>1, <2>2, <2>3, <2>4
<1>16. IsFiniteSet(W) /\ Cardinality(W) = Cardinality(shown)
  <2>1. \A r, s \in W : r.date = s.date => r = s
    BY <1>3, <1>5
  <2> QED
    BY <1>6, <2>1, RowsPerDate
<1>17. IsFiniteSet(old)
  BY <1>6, FS_Subset
<1> QED
  BY <1>10, <1>13, <1>14, <1>15, <1>16, <1>17 DEF W, old

(* A reconciled version tells the truth if its parent does: its counts are *)
(* computed from those of the parent and are those of its own rows.        *)
LEMMA ReconciledTruthful ==
    ASSUME LedgerInv, NEW leaf \in versions, leaf.source = "provisional_mixed",
           Truthful(leaf), Justified(leaf),
           NEW answer \in Answer, answer.run \in TwseRuns,
           answer.found \cap SupplementalDates(leaf) # {}
    PROVE  LET v == ReconciledFrom(leaf, answer)
           IN  Truthful(v) /\ Justified(v) /\ CoveredDates(v) = CoveredDates(leaf)
<1> DEFINE D == answer.found \cap SupplementalDates(leaf)
           late == RowsOf(D, "canonical", answer.run)
           total == leaf.discrepancies + Cardinality(DiscrepantWith(leaf, late))
           open == SupplementalDates(leaf) \ D # {}
           v == ReconciledFrom(leaf, answer)
<1>1. leaf.rows \in SUBSET EvidenceRow
  BY DEF LedgerInv, StoreInv, Sound
<1>2. /\ \A r \in late : r.date \in D /\ r.role = "canonical" /\ r.run = answer.run
      /\ \A d \in D : \E r \in late : r.date = d
      /\ \A r, s \in late : r.date = s.date => r = s
  <2>1. \A r \in late : r.date \in D /\ r.role = "canonical" /\ r.run = answer.run
    BY RowsOfDates
  <2>2. \A d \in D : \E r \in late : r.date = d
    BY RowsOfDates
  <2>3. \A r, s \in late : r.date = s.date => r = s
    BY RowsOfDates
  <2> QED
    BY <2>1, <2>2, <2>3
<1>3. {r.date : r \in late} = D
  <2> HIDE DEF late, D
  <2> QED
    BY <1>2
<1>4. /\ v.rows = Demoted(leaf.rows, D) \cup late
      /\ v.source = IF open THEN "provisional_mixed" ELSE "reconciled"
      /\ v.authority = IF open THEN "incomplete" ELSE "reconciled"
      /\ v.reconciliation = IF open THEN "pending"
                            ELSE IF total > 0 THEN "reconciled_discrepant" ELSE "reconciled_equal"
      /\ v.required = leaf.required /\ v.discrepancies = total
      /\ v.parent = <<Identity(leaf)>>
      /\ v.artifacts = leaf.artifacts \cup {Artifact(answer.run, answer.failure)}
  BY <1>3 DEF ReconciledFrom, ReconciledVersion, StillPending, TotalDiscrepancies
<1>5. Sound(v) /\ Extends(v, leaf)
  BY ReconciledSound
<1> HIDE DEF v, late, total, open
<1>6. Superseded(leaf.rows, D, late, v.rows)
  <2>1. \A r \in late : r.role = "canonical"
    BY <1>2
  <2>2. Superseded(leaf.rows, D, late, Demoted(leaf.rows, D) \cup late)
    BY <1>1, <2>1, ReconciledRows
  <2> QED
    BY <1>4, <2>2
<1> HIDE DEF D
<1>7. D \subseteq SupplementalDates(leaf)
  BY DEF D
<1>8. Unrepeated(leaf.rows) /\ \A r \in InRole(leaf.rows, "validation") : r.date \notin SupplementalDates(leaf)
  BY DEF Truthful
<1>9. \A d : d \in SupplementalDates(leaf) <=>
         \E r \in leaf.rows : r.role = "supplemental" /\ r.date = d
  BY DEF SupplementalDates, DatesIn, InRole
<1>10. \A r, s \in leaf.rows : r.role # "validation" /\ s.role # "validation" /\ r.date = s.date => r = s
  BY <1>8 DEF Unrepeated, Selected
<1>11. Unrepeated(v.rows)
  <2>1. ASSUME NEW r \in v.rows, NEW s \in v.rows, r.role # "validation", s.role # "validation",
               r.date = s.date
        PROVE  r = s
    <3>1. /\ r \in late \/ (r \in leaf.rows /\ (r.role = "supplemental" => r.date \notin D))
          /\ s \in late \/ (s \in leaf.rows /\ (s.role = "supplemental" => s.date \notin D))
      BY <1>6, <2>1 DEF Superseded
    <3>2. ASSUME NEW x \in late, NEW y \in leaf.rows, y.role # "validation", x.date = y.date
          PROVE  y.role = "supplemental" /\ y.date \in D
      <4>1. PICK z \in leaf.rows : z.role = "supplemental" /\ z.date = x.date
        BY <1>2, <1>7, <1>9, <3>2
      <4>2. y = z
        BY <1>10, <3>2, <4>1
      <4> QED
        BY <1>2, <3>2, <4>1, <4>2
    <3> QED
      BY <1>2, <1>10, <2>1, <3>1, <3>2
  <2> QED
    BY <2>1 DEF Unrepeated, Selected
<1>12. CoveredDates(v) = CoveredDates(leaf)
  BY <1>5 DEF Extends, CoveredDates
<1>13. SupplementalDates(v) = SupplementalDates(leaf) \ D
  <2>1. \A d : d \in SupplementalDates(v) <=>
           \E r \in v.rows : r.role = "supplemental" /\ r.date = d
    BY DEF SupplementalDates, DatesIn, InRole
  <2>2. \A r \in v.rows : r.role = "supplemental" => r \in leaf.rows /\ r.date \notin D
    BY <1>2, <1>6 DEF Superseded
  <2>3. \A r \in leaf.rows : r.role = "supplemental" /\ r.date \notin D => r \in v.rows
    BY <1>6 DEF Superseded
  <2> QED
    BY <1>9, <2>1, <2>2, <2>3
<1>14. \A r \in InRole(v.rows, "validation") : r.date \notin SupplementalDates(v)
  BY <1>6, <1>8, <1>13 DEF Superseded, InRole
<1>15. \A r \in v.rows : r.role = "canonical" => r.run \in TwseRuns
  BY <1>2, <1>6 DEF Superseded, Truthful
<1>16. /\ v.discrepancies = Cardinality(DiscrepantDates(v.rows))
       /\ total \in Nat /\ (total > 0 <=> DiscrepantDates(v.rows) # {})
  <2> DEFINE old == DiscrepantDates(leaf.rows)
             W == DiscrepantWith(leaf, late)
             shown == {r.date : r \in W}
  <2>1. /\ DiscrepantDates(v.rows) = old \cup shown /\ old \cap shown = {}
        /\ IsFiniteSet(W) /\ IsFiniteSet(old) /\ Cardinality(W) = Cardinality(shown)
    <3>1. late = RowsOf(D, "canonical", answer.run)
      BY DEF late
    <3> QED
      BY <1>1, <1>6, <1>7, <1>8, <3>1, DiscrepanciesGrow
  <2>2. IsFiniteSet(shown)
    <3>1. shown \subseteq D
      <4>1. \A r \in W : r.date \in D
        BY <1>2 DEF DiscrepantWith
      <4> QED
        BY <4>1
    <3>2. D \in SUBSET Window
      BY DEF D, Answer
    <3> QED
      BY <3>1, <3>2, FS_Subset
  <2>3. leaf.discrepancies = Cardinality(old)
    BY DEF Truthful
  <2> HIDE DEF old, W, shown
  <2>4. total = Cardinality(old) + Cardinality(shown)
    BY <2>1, <2>3 DEF total, W
  <2>5. Cardinality(old \cup shown) = Cardinality(old) + Cardinality(shown)
    <3>1. Cardinality(old \cup shown) = Cardinality(old) + Cardinality(shown) - Cardinality(old \cap shown)
      BY <2>1, <2>2, FS_Union
    <3>2. Cardinality(old \cap shown) = 0
      BY <2>1, FS_EmptySet
    <3>3. Cardinality(old) \in Nat /\ Cardinality(shown) \in Nat
      BY <2>1, <2>2, FS_CardinalityType
    <3> QED
      BY <3>1, <3>2, <3>3
  <2>6. IsFiniteSet(old \cup shown)
    BY <2>1, <2>2, FS_Union
  <2>7. Cardinality(old \cup shown) \in Nat /\ (Cardinality(old \cup shown) = 0 <=> old \cup shown = {})
    BY <2>6, FS_CardinalityType, FS_EmptySet
  <2>8. total = Cardinality(DiscrepantDates(v.rows)) /\ v.discrepancies = total
    BY <1>4, <2>1, <2>4, <2>5
  <2>9. total \in Nat /\ (total = 0 <=> DiscrepantDates(v.rows) = {})
    BY <2>1, <2>7, <2>8
  <2> QED
    BY <2>8, <2>9
<1>17. v.required = Cardinality(CoveredDates(v)) /\ CoveredDates(v) # {}
  BY <1>4, <1>12 DEF Truthful
<1>18. v.rows \in SUBSET EvidenceRow
  BY <1>5 DEF Sound
<1>19. open <=> SupplementalDates(v) # {}
  BY <1>13 DEF open
<1>20. LegalState(v)
  <2>1. /\ SupplementalCount(v) > 0 <=> SupplementalDates(v) # {}
        /\ SupplementalCount(v) = 0 <=> SupplementalDates(v) = {}
    BY <1>11, <1>18, CountsAddUp
  <2> QED
    BY <1>4, <1>19, <2>1 DEF LegalState
<1>21. v.parent # <<Identity(v)>>
  <2>1. SUFFICES ASSUME Identity(leaf) = Identity(v) PROVE FALSE
    BY <1>4
  <2>2. Identity(leaf).rows = leaf.rows /\ Identity(v).rows = v.rows
    BY DEF Identity
  <2>3. SupplementalDates(leaf) = SupplementalDates(v)
    BY <2>1, <2>2 DEF SupplementalDates
  <2> QED
    BY <1>5, <2>3 DEF Extends
<1>22. v.source = "reconciled" =>
         (v.reconciliation = "reconciled_discrepant" <=> DiscrepantDates(v.rows) # {})
  BY <1>4, <1>16
<1>23. Truthful(v)
  BY <1>11, <1>14, <1>15, <1>16, <1>17, <1>20, <1>21, <1>22, Zenon DEF Truthful
<1>24. Justified(v)
  <2>1. answer.run \notin EsunRuns
    OBVIOUS
  <2>2. \A r \in v.rows : r.run \in EsunRuns => \E s \in leaf.rows : s.run = r.run
    BY <1>2, <1>6, <2>1 DEF Superseded
  <2>3. leaf.artifacts \subseteq v.artifacts
    BY <1>4
  <2> QED
    BY <2>2, <2>3 DEF Justified
<1> QED
  BY <1>12, <1>23, <1>24 DEF v

(* What a call publishes, and what it covers.                              *)
Vouches(p, v) ==
    /\ call[p].pc = "publishing" /\ Save(p, v) /\ Truthful(v) /\ Justified(v)
    /\ narrowed' = narrowed /\ (~ repeated' => ~ repeated)
    /\ \/ /\ call[p].leaf = <<>> /\ CoveredDates(v) = call[p].answer.requested
          /\ Complete(call[p].answer) \/ call[p].answer.evidence = "verified"
       \/ \E w \in versions : CoveredDates(v) = CoveredDates(w)
       \/ repeated' \/ Stored(v)

LEMMA PublishCanonicalVouches ==
    ASSUME LedgerInv, EvidenceInv, NEW p \in Preparers, PublishCanonical(p)
    PROVE  \E v : Vouches(p, v)
<1>1. call[p].pc = "publishing" /\ Complete(call[p].answer) /\ call[p].leaf = <<>>
      /\ UNCHANGED <<prepares, repeated, narrowed>>
  BY DEF PublishCanonical, Publishing
<1>2. PICK validation \in {{}} \cup {{e} : e \in EsunAnswers} :
          Save(p, CanonicalFrom(call[p].answer, validation))
  BY DEF PublishCanonical
<1>3. call[p].answer \in Answer /\ call[p].answer.requested # {}
      /\ call[p].answer.run \in TwseRuns
  BY <1>1, LocalKnown DEF EvidenceInv, Honest, Complete
<1> DEFINE v == CanonicalFrom(call[p].answer, validation)
<1>4. validation \in SUBSET EsunAnswers
  BY <1>2
<1>5. Truthful(v) /\ Justified(v) /\ CoveredDates(v) = call[p].answer.requested
  BY <1>1, <1>3, <1>4, CanonicalTruthful
<1> HIDE DEF v
<1>6. Save(p, v)
  BY <1>2 DEF v
<1> QED
  BY <1>1, <1>5, <1>6 DEF Vouches

LEMMA PublishReconciledVouches ==
    ASSUME LedgerInv, EvidenceInv, NEW p \in Preparers, PublishReconciled(p)
    PROVE  \E v : Vouches(p, v)
<1> DEFINE leaf == call[p].leaf[1]
           v == ReconciledFrom(leaf, call[p].answer)
<1>1. /\ call[p].pc = "publishing" /\ Complete(call[p].answer) /\ call[p].leaf # <<>>
      /\ Save(p, v) /\ UNCHANGED <<prepares, repeated, narrowed>>
  BY DEF PublishReconciled, Publishing
<1>2. /\ leaf \in versions /\ call[p].answer \in Answer
      /\ leaf.source = "provisional_mixed"
      /\ call[p].answer.found \cap SupplementalDates(leaf) # {}
  BY <1>1, LocalKnown DEF LocalOK, Answers
<1>3. call[p].answer.run \in TwseRuns
  <2>1. call[p].answer.found # {}
    BY <1>2
  <2> QED
    BY <1>1, <2>1 DEF EvidenceInv, Honest
<1>4. Truthful(leaf) /\ Justified(leaf)
  BY <1>2 DEF EvidenceInv
<1> HIDE DEF leaf
<1>5. Truthful(v) /\ Justified(v) /\ CoveredDates(v) = CoveredDates(leaf)
  BY <1>2, <1>3, <1>4, ReconciledTruthful
<1> HIDE DEF v
<1> QED
  BY <1>1, <1>2, <1>5 DEF Vouches

LEMMA PublishProvisionalVouches ==
    ASSUME LedgerInv, EvidenceInv, NEW p \in Preparers, PublishProvisional(p)
    PROVE  \E v : Vouches(p, v)
<1> DEFINE answer == call[p].answer
<1>1. /\ call[p].pc = "publishing" /\ ~Complete(answer) /\ answer.failure \in Recoverable
      /\ answer.evidence = "verified" /\ UNCHANGED <<prepares, narrowed>>
  BY DEF PublishProvisional, Publishing, MayAskEsun, IsSupplementalEligibleFailure
<1>2. PICK esun \in EsunAnswers :
         LET c == Candidate(call[p].answer, esun)
             result == Evaluate(c)
             version == ProvisionalFrom(call[p].answer, esun, result.selected)
         IN  /\ ValidCandidate(c) /\ Target \in call[p].answer.requested
             /\ result.eligible /\ result.complete
             /\ Save(p, version)
             /\ repeated' = (repeated \/ (call[p].leaf # <<>> /\ ~Stored(version)))
  BY DEF PublishProvisional
<1>3. /\ answer \in Answer /\ answer.requested # {} /\ answer.found \subseteq answer.requested
      /\ answer.run \in TwseRuns
  BY <1>1, LocalKnown DEF EvidenceInv, Honest, LocalOK, Answers
<1> DEFINE c == Candidate(answer, esun)
           selected == Evaluate(c).selected
           v == ProvisionalFrom(answer, esun, selected)
<1>4. esun.fault = "none"
  <2>1. ValidCandidate(c) /\ Evaluate(c).eligible
    BY <1>2
  <2> HIDE DEF answer
  <2> QED
    BY <1>3, <2>1, FaultRefused
<1>5. selected = answer.requested \ answer.found
  <2>1. c.missing = answer.requested \ answer.found
    BY DEF Candidate
  <2>2. Evaluate(c).complete
    BY <1>2
  <2> HIDE DEF c
  <2>3. Evaluate(c).complete => c.missing \ selected = {}
    BY DEF Evaluate
  <2>4. selected \subseteq c.missing
    BY DEF Evaluate, Selectable
  <2> QED
    BY <2>1, <2>2, <2>3, <2>4
<1>6. selected # {}
  BY <1>1, <1>3, <1>5 DEF Complete
<1>7. Truthful(v) /\ Justified(v) /\ CoveredDates(v) = answer.requested
  <2> HIDE DEF answer, selected
  <2> QED
    BY <1>1, <1>3, <1>4, <1>5, <1>6, ProvisionalTruthful
<1>8. Save(p, v) /\ repeated' = (repeated \/ (call[p].leaf # <<>> /\ ~Stored(v)))
  BY <1>2
<1> HIDE DEF v
<1>9. (~ repeated' => ~ repeated) /\ (repeated' \/ Stored(v) \/ call[p].leaf = <<>>)
  BY <1>8, Zenon
<1> QED
  BY <1>1, <1>7, <1>8, <1>9, Zenon DEF Vouches

(* A step that publishes nothing leaves the other calls alone.             *)
Listens(p) ==
    /\ UNCHANGED versions /\ (~ repeated' => ~ repeated) /\ (~ narrowed' => ~ narrowed)
    /\ \A q \in Preparers \ {p} : call'[q] = call[q]
    /\ Honest(call[p]) => Honest(call'[p])
    /\ ~ narrowed' /\ Wide(call[p]) => Wide(call'[p])

LEMMA BecomeLocal ==
    ASSUME LedgerInv, NEW p \in Preparers, NEW local, Become(p, local)
    PROVE  call'[p] = local /\ \A q \in Preparers \ {p} : call'[q] = call[q]
BY DEF Become, LedgerInv, CallInv

LEMMA QuietListens ==
    ASSUME LedgerInv, NEW p \in Preparers,
           ReplayOrRefuse(p) \/ ReplayStored(p) \/ Restart(p) \/ GiveUp(p) \/ Begin(p)
    PROVE  Listens(p)
<1>1. UNCHANGED <<versions, repeated, narrowed>>
  BY DEF ReplayOrRefuse, ReplayStored, Restart, GiveUp, Begin
<1>2. CASE ReplayOrRefuse(p) \/ ReplayStored(p) \/ Restart(p)
  <2>1. UNCHANGED call
    BY <1>2 DEF ReplayOrRefuse, ReplayStored, Restart
  <2> QED
    BY <1>1, <2>1 DEF Listens
<1>3. ASSUME NEW local, Become(p, local), local.pc # "publishing",
             local.leaf = <<>> => local.asked = {}
      PROVE  Listens(p)
  <2>1. call'[p] = local /\ \A q \in Preparers \ {p} : call'[q] = call[q]
    BY <1>3, BecomeLocal
  <2>2. Honest(local) /\ Wide(local)
    BY <1>3 DEF Honest, Wide
  <2> QED
    BY <1>1, <2>1, <2>2 DEF Listens
<1>4. CASE GiveUp(p)
  BY <1>3, <1>4 DEF GiveUp, Idle
<1>5. CASE Begin(p)
  <2>1. CASE Become(p, [Idle EXCEPT !.pc = "fetching"])
    <3>1. [Idle EXCEPT !.pc = "fetching"].pc = "fetching"
          /\ [Idle EXCEPT !.pc = "fetching"].asked = {}
      BY DEF Idle
    <3> QED
      BY <1>3, <2>1, <3>1
  <2>2. ASSUME NEW leaf \in OpenLeaves,
               Become(p, [Idle EXCEPT !.pc = "fetching", !.leaf = <<leaf>>,
                                      !.asked = SupplementalDates(leaf)])
        PROVE  Listens(p)
    <3> DEFINE local == [Idle EXCEPT !.pc = "fetching", !.leaf = <<leaf>>,
                                     !.asked = SupplementalDates(leaf)]
    <3>1. local.pc = "fetching" /\ local.leaf # <<>>
      BY DEF Idle
    <3> HIDE DEF local
    <3>2. Become(p, local)
      BY <2>2 DEF local
    <3> QED
      BY <1>3, <3>1, <3>2
  <2> QED
    BY <1>5, <2>1, <2>2 DEF Begin
<1> QED
  BY <1>2, <1>4, <1>5

(* What TWSE may answer to a call that goes on from no version.            *)
LEMMA AnswersWide ==
    ASSUME NEW local, local.asked \in SUBSET Window,
           NEW answer \in GivenAnswers(local) \cup RaisedAnswers(local)
    PROVE  /\ answer.requested # {}
           /\ answer.found # {} \/ answer.evidence = "verified" => answer.run \in TwseRuns
           /\ local.leaf = <<>> /\ local.asked \in {{}, Window}
                /\ (Complete(answer) \/ answer.evidence = "verified")
              => answer.requested = Window
<1>1. CASE answer \in GivenAnswers(local)
  <2>1. PICK dates \in RequestedBy(local) :
            answer \in [run : TwseRuns, requested : {dates}, found : SUBSET dates,
                        failure : {"none", "timeout", "permanent"},
                        evidence : {"verified", "unverified"}]
    BY <1>1 DEF GivenAnswers
  <2>2. answer.run \in TwseRuns /\ answer.requested = dates
    BY <2>1
  <2>3. dates # {} /\ (local.leaf = <<>> /\ local.asked \in {{}, Window} => dates = Window)
    BY DEF RequestedBy
  <2> QED
    BY <2>2, <2>3
<1>2. CASE answer \in RaisedAnswers(local)
  <2> DEFINE dates == IF local.asked = {} THEN {Target} ELSE local.asked
  <2>1. PICK failure \in {"timeout", "permanent"} :
            answer = TwseAnswer("failed", dates, {}, failure, "unverified")
    BY <1>2 DEF RaisedAnswers
  <2>2. dates # {}
    OBVIOUS
  <2> HIDE DEF dates
  <2>3. answer.requested = dates /\ answer.found = {} /\ answer.evidence = "unverified"
    BY <2>1 DEF TwseAnswer
  <2> QED
    BY <2>2, <2>3 DEF Complete
<1> QED
  BY <1>1, <1>2

LEMMA FetchListens ==
    ASSUME LedgerInv, NEW p \in Preparers, Fetch(p)
    PROVE  Listens(p)
<1>1. UNCHANGED <<versions, repeated>> /\ call[p].pc = "fetching"
  BY DEF Fetch
<1>2. PICK answer \in GivenAnswers(call[p]) \cup RaisedAnswers(call[p]) : Answered(p, answer)
  BY DEF Fetch
<1>3. call[p] \in Local
  BY LocalKnown
<1>4. /\ answer.requested # {}
      /\ answer.found # {} \/ answer.evidence = "verified" => answer.run \in TwseRuns
      /\ call[p].leaf = <<>> /\ call[p].asked \in {{}, Window}
           /\ (Complete(answer) \/ answer.evidence = "verified")
         => answer.requested = Window
  <2>1. call[p].asked \in SUBSET Window
    BY <1>3 DEF Local
  <2> QED
    BY <1>2, <2>1, AnswersWide
<1> DEFINE again == [call[p] EXCEPT !.asked = answer.requested, !.attempts = call[p].attempts + 1]
           done == [call[p] EXCEPT !.pc = "publishing", !.answer = answer]
<1>5. CASE /\ Become(p, again)
           /\ narrowed' = (narrowed \/ (call[p].leaf = <<>> /\ answer.requested # Window))
  <2>1. again.pc = "fetching" /\ again.leaf = call[p].leaf /\ again.asked = answer.requested
    BY <1>1, <1>3 DEF Local
  <2> HIDE DEF again
  <2>2. call'[p] = again /\ \A q \in Preparers \ {p} : call'[q] = call[q]
    BY <1>5, BecomeLocal
  <2>3. (~ narrowed' => ~ narrowed) /\ (~ narrowed' /\ again.leaf = <<>> => again.asked = Window)
    BY <1>5, <2>1, Zenon
  <2>4. Honest(again) /\ (~ narrowed' => Wide(again))
    BY <2>1, <2>3 DEF Honest, Wide
  <2> QED
    BY <1>1, <2>2, <2>3, <2>4 DEF Listens
<1>6. CASE Become(p, done) /\ UNCHANGED narrowed
  <2>1. /\ done.pc = "publishing" /\ done.leaf = call[p].leaf /\ done.asked = call[p].asked
        /\ done.answer = answer
    BY <1>3 DEF Local
  <2> HIDE DEF done
  <2>2. call'[p] = done /\ \A q \in Preparers \ {p} : call'[q] = call[q]
    BY <1>6, BecomeLocal
  <2>3. Honest(done) /\ (Wide(call[p]) => Wide(done))
    BY <1>4, <2>1 DEF Honest, Wide
  <2> QED
    BY <1>1, <1>6, <2>2, <2>3 DEF Listens
<1> QED
  BY <1>2, <1>5, <1>6 DEF Answered

LEMMA EvidenceSteps ==
    ASSUME LedgerInv, EvidenceInv, Next
    PROVE  \E p \in Preparers : Listens(p) \/ \E v : Vouches(p, v)
<1>1. PICK p \in Preparers : Prepare(p)
  BY DEF Next
<1> QED
  BY <1>1, QuietListens, FetchListens, PublishCanonicalVouches, PublishReconciledVouches,
     PublishProvisionalVouches DEF Prepare

(* A save, seen from the calls: its own ends, the others go on as before.  *)
LEMMA SaveLocals ==
    ASSUME LedgerInv, NEW p \in Preparers, NEW v, Save(p, v)
    PROVE  /\ versions' \subseteq versions \cup {v} /\ (Stored(v) => versions' = versions)
           /\ \A q \in Preparers : call'[q] = Idle \/
                 /\ call'[q].pc = call[q].pc /\ call'[q].leaf = call[q].leaf
                 /\ call'[q].asked = call[q].asked /\ call'[q].answer = call[q].answer
<1>1. versions' \subseteq versions \cup {v} /\ (Stored(v) => versions' = versions)
  BY DEF Save
<1>2. ASSUME NEW q \in Preparers, q # p
      PROVE  /\ call'[q].pc = call[q].pc /\ call'[q].leaf = call[q].leaf
             /\ call'[q].asked = call[q].asked /\ call'[q].answer = call[q].answer
  <2> DEFINE stale == call[q].pc # "idle" /\ (call[q].stale \/ ~Stored(v))
  <2>1. call[q] \in Local
    BY LocalKnown
  <2>2. call'[q] = [call[q] EXCEPT !.stale = stale]
    BY <1>2 DEF Save
  <2> HIDE DEF stale
  <2> QED
    BY <2>1, <2>2 DEF Local
<1>3. call'[p] = Idle
  BY DEF Save
<1> QED
  BY <1>1, <1>2, <1>3

LEMMA IdleIsHonest == Honest(Idle) /\ Wide(Idle)
BY DEF Honest, Wide, Idle

LEMMA EvidenceInvariant == Spec => []EvidenceInv
<1>1. Init => EvidenceInv
  BY IdleIsHonest DEF Init, EvidenceInv
<1>2. LedgerInv /\ EvidenceInv /\ [Next]_vars => EvidenceInv'
  <2> SUFFICES ASSUME LedgerInv, EvidenceInv, [Next]_vars PROVE EvidenceInv'
    OBVIOUS
  <2>1. CASE UNCHANGED vars
    BY <2>1 DEF vars, EvidenceInv, Truthful, Justified, Honest
  <2>2. ASSUME NEW p \in Preparers, Listens(p) PROVE EvidenceInv'
    <3>1. versions' = versions /\ \A q \in Preparers : Honest(call'[q])
      BY <2>2 DEF Listens, EvidenceInv
    <3> QED
      BY <3>1 DEF EvidenceInv
  <2>3. ASSUME NEW p \in Preparers, NEW v, Vouches(p, v) PROVE EvidenceInv'
    <3>1. Save(p, v) /\ Truthful(v) /\ Justified(v)
      BY <2>3 DEF Vouches
    <3>2. \A w \in versions' : Truthful(w) /\ Justified(w)
      BY <3>1, SaveLocals DEF EvidenceInv
    <3>3. \A q \in Preparers : Honest(call'[q])
      BY <3>1, SaveLocals, IdleIsHonest DEF EvidenceInv, Honest
    <3> QED
      BY <3>2, <3>3 DEF EvidenceInv
  <2> QED
    BY <2>1, <2>2, <2>3, EvidenceSteps
<1> QED
  BY <1>1, <1>2, LedgerInvariant, PTL DEF Spec

LEMMA CoverInvariant == Spec => []CoverInv
<1>1. Init => CoverInv
  BY IdleIsHonest DEF Init, CoverInv
<1>2. LedgerInv /\ EvidenceInv /\ CoverInv /\ [Next]_vars => CoverInv'
  <2> SUFFICES ASSUME LedgerInv, EvidenceInv, CoverInv, [Next]_vars PROVE CoverInv'
    OBVIOUS
  <2>1. CASE UNCHANGED vars
    <3>1. UNCHANGED <<versions, call>> /\ narrowed' = narrowed /\ repeated' = repeated
      BY <2>1 DEF vars
    <3> QED
      BY <3>1, Zenon DEF CoverInv
  <2>2. ASSUME NEW p \in Preparers, Listens(p) PROVE CoverInv'
    <3>1. versions' = versions /\ (~ repeated' => ~ repeated) /\ (~ narrowed' => ~ narrowed)
      BY <2>2 DEF Listens
    <3>2. ~ narrowed' => \A q \in Preparers : Wide(call'[q])
      BY <2>2 DEF Listens, CoverInv
    <3> QED
      BY <3>1, <3>2, Zenon DEF CoverInv
  <2>3. ASSUME NEW p \in Preparers, NEW v, Vouches(p, v) PROVE CoverInv'
    <3>1. Save(p, v) /\ narrowed' = narrowed /\ (~ repeated' => ~ repeated)
      BY <2>3 DEF Vouches
    <3>2. ASSUME ~ narrowed', ~ repeated' PROVE \A w \in versions' : CoveredDates(w) = Window
      <4>1. /\ ~ narrowed /\ ~ repeated /\ \A w \in versions : CoveredDates(w) = Window
            /\ Wide(call[p])
        BY <3>1, <3>2, Zenon DEF CoverInv
      <4>2. Stored(v) \/ CoveredDates(v) = Window
        BY <2>3, <3>2, <4>1 DEF Vouches, Wide
      <4> QED
        BY <3>1, <4>1, <4>2, SaveLocals
    <3>3. ASSUME ~ narrowed', NEW q \in Preparers PROVE Wide(call'[q])
      <4>1. Wide(call[q])
        BY <3>1, <3>3, Zenon DEF CoverInv
      <4> QED
        BY <3>1, <4>1, SaveLocals, IdleIsHonest DEF Wide
    <3> QED
      BY <3>2, <3>3, Zenon DEF CoverInv
  <2> QED
    BY <2>1, <2>2, <2>3, EvidenceSteps
<1> QED
  BY <1>1, <1>2, LedgerInvariant, EvidenceInvariant, PTL DEF Spec

(* Every version in the store is legal and its discrepancy count is that   *)
(* of its rows, whatever reconciliations led to it.                        *)
THEOREM VersionsTruthful == Spec => []VersionsTellTheTruth
<1>1. LedgerInv /\ EvidenceInv => VersionsTellTheTruth
  <2> SUFFICES ASSUME LedgerInv, EvidenceInv, NEW v \in versions
               PROVE  /\ LegalVersion(v) /\ v.discrepancies = Cardinality(DiscrepantDates(v.rows))
                      /\ v.source = "reconciled" =>
                           (v.reconciliation = "reconciled_discrepant" <=> DiscrepantDates(v.rows) # {})
    BY DEF VersionsTellTheTruth, EveryVersionLegal, DiscrepanciesAddUp
  <2>1. Truthful(v) /\ v.rows \in SUBSET EvidenceRow
    BY DEF EvidenceInv, LedgerInv, StoreInv, Sound
  <2>2. LegalCoverage(v)
    <3>1. Unrepeated(v.rows) /\ CoveredDates(v) # {} /\ v.required = Cardinality(CoveredDates(v))
      BY <2>1 DEF Truthful
    <3>2. /\ CanonicalCount(v) + SupplementalCount(v) = Cardinality(CoveredDates(v))
          /\ Cardinality(CoveredDates(v)) > 0 <=> CoveredDates(v) # {}
      BY <2>1, <3>1, CountsAddUp
    <3> QED
      BY <3>1, <3>2 DEF LegalCoverage, Unrepeated
  <2> QED
    BY <2>1, <2>2 DEF Truthful, LegalVersion
<1> QED
  BY <1>1, LedgerInvariant, EvidenceInvariant, PTL

(* No E.SUN row enters a version without the evidence that let it in.      *)
THEOREM SupplementsJustified == Spec => []SupplementJustified
<1>1. EvidenceInv => SupplementJustified
  BY DEF EvidenceInv, Justified, SupplementJustified
<1> QED
  BY <1>1, EvidenceInvariant, PTL

(* A version covers the whole window unless a retry narrowed the request   *)
(* or a provisional was built beside an open one.                          *)
THEOREM WindowCovered == Spec => []VersionsCoverWindow
<1>1. CoverInv => VersionsCoverWindow
  BY DEF CoverInv, CoveredDates, VersionsCoverWindow
<1> QED
  BY <1>1, CoverInvariant, PTL
===========================================================================
